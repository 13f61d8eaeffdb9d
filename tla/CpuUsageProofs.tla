--------------------------- MODULE CpuUsageProofs ---------------------------
(***************************************************************************)
(* What CpuUsage promises for every set of CPUs, every cpuset, every       *)
(* precision of the clocks, every load and every modulus.                  *)
(*                                                                         *)
(* Two inductive invariants.  UsageInv orders the readings: each knows the *)
(* CPU time used when it was taken, which grows in a tick by no more than  *)
(* the CPUs counted, and the stored one was over before the next began.    *)
(* SystemInv relates what each read of /proc/stat to the CPU time that had *)
(* passed by then, of which the container's is a part.                     *)
(***************************************************************************)
EXTENDS CpuUsage, SumTheorems

\* The CPU time the container has used.
Used == user + kernel

\* The CPUs that can be counted now, and those counted in r.
Countable == IF host.version = 1 THEN Cardinality(busy) ELSE Cardinality(Cpuset)
Counts(r) == IF host.version = 1 THEN Cardinality(r.percpu) ELSE Cardinality(Cpuset)

\* The counters of r are those of one instant.
Counted(r) ==
    /\ r.total = r.inUser + r.inKernel /\ r.total < Modulus
    /\ r.user = Mode(r.inUser) /\ r.kernel = Mode(r.inKernel)
    /\ r.percpu \subseteq Cpuset

\* That instant is not in the future, and the container has used no more than
\* the CPUs that can be counted since.
Taken(r) ==
    /\ Counted(r)
    /\ r.readAt <= now /\ r.inUser <= user /\ r.inKernel <= kernel
    /\ Used - r.total <= Countable * (now - r.readAt)

\* r's clock was read, after its counters.
Stamped(r) == r.readAt <= r.stampAt /\ r.stampAt <= now /\ r.time = r.stampAt

\* r's fetch is over.
Ended(r) ==
    /\ r.readAt <= r.stampAt /\ r.stampAt <= r.sysAt /\ r.sysAt <= now
    /\ r.online = OnlineCPUs

\* s was begun when r was over, and used no more than its CPUs in between.
Follows(r, s) ==
    /\ Counted(r) /\ Counted(s)
    /\ r.stampAt <= s.readAt
    /\ r.inUser <= s.inUser /\ r.inKernel <= s.inKernel
    /\ s.total - r.total <= Counts(s) * (s.readAt - r.readAt)

UsageInv ==
    /\ TypeOK
    /\ Used <= Cardinality(Cpuset) * now
    /\ reading # None => Taken(reading)
    /\ pc = "stamped" => Stamped(reading)
    /\ base # None => Taken(base) /\ Ended(base) /\ base.time = Truncated(base.stampAt)
    /\ base # None /\ reading # None => Follows(base, reading)
    /\ pair # None =>
         /\ Follows(pair.base, pair.cur) /\ Ended(pair.base) /\ Ended(pair.cur)
         /\ pair.base.time = Truncated(pair.base.stampAt)
         /\ pair.cur.time = pair.cur.stampAt

-----------------------------------------------------------------------------
(* Arithmetic.                                                             *)

\* A number cut to a multiple loses less than that, and cutting keeps the order.
LEMMA DivBounds ==
    ASSUME NEW n \in Nat, NEW j \in Nat \ {0}
    PROVE  /\ n \div j \in Nat
           /\ (n \div j) * j <= n /\ n <= (n \div j) * j + (j - 1)
           /\ j * (n \div j) = (n \div j) * j
           /\ \A m \in Nat : n <= m => n \div j <= m \div j
  <1> DEFINE q == n \div j
  <1>1. q \in Nat /\ n % j \in 0..j - 1 /\ n = j * q + (n % j)
    OBVIOUS
  <1>2. j * q = q * j
    BY <1>1
  <1>3. \A m \in Nat : n <= m => q <= m \div j
    <2> TAKE m \in Nat
    <2> HAVE n <= m
    <2> DEFINE p == m \div j
    <2>1. p \in Nat /\ m % j \in 0..j - 1 /\ m = j * p + (m % j)
      OBVIOUS
    <2> HIDE DEF p, q
    <2>2. ASSUME q >= p + 1 PROVE FALSE
      <3>1. j * q >= j * (p + 1) /\ j * (p + 1) = j * p + j
        BY <1>1, <2>1, <2>2
      <3> QED
        BY <1>1, <2>1, <3>1
    <2> QED
      BY <1>1, <2>1, <2>2 DEF p
  <1> HIDE DEF q
  <1>4. q * j <= n /\ n <= q * j + (j - 1)
    BY <1>1, <1>2
  <1> QED
    BY <1>1, <1>2, <1>3, <1>4 DEF q

\* What time.Unix loses is less than a second (metrics_all.go:109).
LEMMA TruncatedBounds ==
    ASSUME NEW t \in Nat
    PROVE  Truncated(t) \in Nat /\ Truncated(t) <= t /\ t < Truncated(t) + Second
  <1>1. Second \in Nat \ {0}
    BY ConstantsAssumption
  <1>2. t \div Second \in Nat /\ Truncated(t) <= t /\ t <= Truncated(t) + (Second - 1)
    BY <1>1, DivBounds DEF Truncated
  <1>3. Truncated(t) \in Nat
    BY <1>1, <1>2 DEF Truncated
  <1> QED
    BY <1>1, <1>2, <1>3

\* A second is a whole number of clock ticks.
LEMMA Jiffy == jiffy \in Nat \ {0} /\ Second = Hz * jiffy
  <1>1. Second \in Nat \ {0} /\ Hz \in Nat \ {0} /\ Second % Hz = 0
    BY ConstantsAssumption
  <1>2. Second \div Hz \in Nat /\ Second = Hz * (Second \div Hz) + (Second % Hz)
    BY <1>1
  <1>3. jiffy \in Nat /\ Second = Hz * jiffy
    BY <1>1, <1>2 DEF jiffy
  <1>4. Hz * 0 = 0
    BY <1>1
  <1> QED
    BY <1>1, <1>3, <1>4

\* A counter in clock ticks shows too little, by less than one, and never falls.
LEMMA ModeBounds ==
    ASSUME NEW t \in Nat
    PROVE  /\ Mode(t) \in Nat /\ Mode(t) <= t /\ t <= Mode(t) + ModePrecision
           /\ ModePrecision \in Nat
           /\ \A u \in Nat : t <= u => Mode(t) <= Mode(u)
  <1>1. jiffy \in Nat \ {0}
    BY Jiffy
  <1>2. CASE host.version # 1
    BY <1>2 DEF Mode, ModePrecision
  <1>3. CASE host.version = 1
    <2>1. /\ t \div jiffy \in Nat
          /\ (t \div jiffy) * jiffy <= t /\ t <= (t \div jiffy) * jiffy + (jiffy - 1)
      BY <1>1, DivBounds
    <2>2. ASSUME NEW u \in Nat, t <= u PROVE (t \div jiffy) * jiffy <= (u \div jiffy) * jiffy
      <3> DEFINE p == t \div jiffy
                 q == u \div jiffy
      <3>1. p \in Nat /\ q \in Nat /\ p <= q
        BY <1>1, <2>2, DivBounds
      <3> HIDE DEF p, q
      <3>2. p * jiffy <= q * jiffy
        BY <1>1, <3>1
      <3> QED
        BY <3>2 DEF p, q
    <2>3. (t \div jiffy) * jiffy \in Nat
      BY <1>1, <2>1
    <2> QED
      BY <1>1, <1>3, <2>1, <2>2, <2>3 DEF Mode, ModePrecision
  <1> QED
    BY <1>2, <1>3

\* A difference of uint64s is that of the counters, none of which has passed the
\* modulus (metrics_all.go:142-148, 164).
LEMMA DeltaOfCounts ==
    ASSUME NEW a \in Nat, NEW b \in Nat, a <= b, b < Modulus
    PROVE  Delta(a, b) = b - a
  <1>1. Modulus \in Nat \ {0}
    BY ConstantsAssumption
  <1>2. b - a \in 0..Modulus - 1
    BY <1>1
  <1> QED
    BY <1>1, <1>2 DEF Delta, uint64

\* A bound of so many CPUs per tick holds for one tick more, of no fewer CPUs.
LEMMA OneTickMore ==
    ASSUME NEW n \in Nat, NEW m \in Nat, n <= m,
           NEW a \in Int, NEW t \in Nat, a <= n * t,
           NEW d \in Int, d <= m
    PROVE  a + d <= m * (t + 1)
  <1>1. m * (t + 1) = m * t + m /\ n * t <= m * t
    OBVIOUS
  <1>2. n * t \in Int /\ m * t \in Int
    OBVIOUS
  <1> QED
    BY <1>1, <1>2

-----------------------------------------------------------------------------
(* The container's CPUs.                                                   *)

\* A part of the cpuset is as many CPUs, or fewer.
LEMMA CpusetCount ==
    /\ IsFiniteSet(Cpuset)
    /\ Cardinality(Cpuset) \in Nat \ {0} /\ Cardinality(CPUs) \in Nat
    /\ Cardinality(Cpuset) <= Cardinality(CPUs)
    /\ \A S \in SUBSET Cpuset :
         IsFiniteSet(S) /\ Cardinality(S) \in Nat /\ Cardinality(S) <= Cardinality(Cpuset)
  <1>1. IsFiniteSet(CPUs) /\ Cpuset \in SUBSET CPUs /\ Cpuset # {}
    BY ConstantsAssumption
  <1>2. IsFiniteSet(Cpuset) /\ Cardinality(Cpuset) <= Cardinality(CPUs)
    BY <1>1, FS_Subset
  <1>3. Cardinality(Cpuset) \in Nat \ {0} /\ Cardinality(CPUs) \in Nat
    BY <1>1, <1>2, FS_CardinalityType, FS_EmptySet
  <1>4. \A S \in SUBSET Cpuset :
          IsFiniteSet(S) /\ Cardinality(S) \in Nat /\ Cardinality(S) <= Cardinality(Cpuset)
    BY <1>2, FS_Subset, FS_CardinalityType
  <1> QED
    BY <1>2, <1>3, <1>4

\* In one tick the container uses no more than the CPUs it has used by its end.
LEMMA TickUses ==
    ASSUME TypeOK, NEW load \in Loads, Tick(load)
    PROVE  LET u == Cardinality(load.user)
               k == Cardinality(load.kernel)
           IN  /\ u \in Nat /\ k \in Nat
               /\ now' = now + 1 /\ user' = user + u /\ kernel' = kernel + k
               /\ now \in Nat /\ user \in Nat /\ kernel \in Nat
               /\ busy' \subseteq Cpuset
               /\ Countable \in Nat /\ Countable' \in Nat /\ Countable <= Countable'
               /\ u + k <= Countable' /\ Countable' <= Cardinality(Cpuset)
  <1> DEFINE u == Cardinality(load.user)
             k == Cardinality(load.kernel)
             both == load.user \cup load.kernel
  <1>1. /\ load.user \subseteq Cpuset /\ load.kernel \subseteq Cpuset
        /\ load.user \cap load.kernel = {}
    BY LoadsAssumption
  <1>2. /\ IsFiniteSet(load.user) /\ u \in Nat /\ IsFiniteSet(load.kernel) /\ k \in Nat
    BY <1>1, CpusetCount
  <1>3. Cardinality(both) = u + k
    <2>1. Cardinality(load.user \cap load.kernel) = 0
      BY <1>1, FS_EmptySet
    <2>2. Cardinality(both) = u + k - Cardinality(load.user \cap load.kernel)
      BY <1>2, FS_Union
    <2> HIDE DEF u, k, both
    <2> QED
      BY <1>2, <2>1, <2>2
  <1>4. /\ busy \subseteq Cpuset /\ busy' = busy \cup both /\ busy' \subseteq Cpuset
        /\ both \subseteq busy'
    BY <1>1 DEF Tick, TypeOK
  <1>5. /\ Cardinality(busy) \in Nat /\ IsFiniteSet(busy')
        /\ Cardinality(busy') \in Nat /\ Cardinality(busy') <= Cardinality(Cpuset)
    BY <1>4, CpusetCount
  <1>6. Cardinality(busy) <= Cardinality(busy') /\ u + k <= Cardinality(busy')
    BY <1>3, <1>4, <1>5, FS_Subset
  <1>7. host' = host
    BY DEF Tick
  <1>8. /\ now' = now + 1 /\ user' = user + u /\ kernel' = kernel + k
        /\ now \in Nat /\ user \in Nat /\ kernel \in Nat
    BY ConstantsAssumption DEF Tick, TypeOK
  <1>9. Cardinality(Cpuset) \in Nat
    BY CpusetCount
  <1> HIDE DEF u, k, both
  <1>10. /\ Countable \in Nat /\ Countable' \in Nat /\ Countable <= Countable'
         /\ u + k <= Countable' /\ Countable' <= Cardinality(Cpuset)
    BY <1>2, <1>5, <1>6, <1>7, <1>9 DEF Countable
  <1> QED
    BY <1>2, <1>4, <1>8, <1>10 DEF u, k

\* The container has used less than a counter holds.
LEMMA UsedBelowModulus ==
    ASSUME UsageInv
    PROVE  Used \in Nat /\ Used < Modulus
  <1>1. /\ now \in Nat /\ MaxTime \in Nat /\ now <= MaxTime
        /\ Used \in Nat /\ Used <= Cardinality(Cpuset) * now /\ Modulus \in Nat
    BY ConstantsAssumption DEF UsageInv, TypeOK, Used
  <1>2. /\ Cardinality(Cpuset) \in Nat /\ Cardinality(CPUs) \in Nat
        /\ Cardinality(Cpuset) <= Cardinality(CPUs)
    BY CpusetCount
  <1> DEFINE n == Cardinality(Cpuset)
             m == Cardinality(CPUs)
  <1>3. n \in Nat /\ m \in Nat /\ n <= m /\ m * MaxTime < Modulus /\ Used <= n * now
    BY <1>1, <1>2, NoFullTurn
  <1> HIDE DEF n, m
  <1>4. n * now <= m * now /\ m * now <= m * MaxTime
    BY <1>1, <1>3
  <1>5. n * now \in Nat /\ m * now \in Nat /\ m * MaxTime \in Nat
    BY <1>1, <1>3
  <1> QED
    BY <1>1, <1>3, <1>4, <1>5

-----------------------------------------------------------------------------
(* The readings of the container's counters.                               *)

\* There are no readings at the start.
LEMMA UsageInit == Init => UsageInv
  <1> SUFFICES ASSUME Init PROVE UsageInv
    OBVIOUS
  <1>1. TypeOK
    BY ConstantsAssumption DEF Init, TypeOK
  <1>2. Used <= Cardinality(Cpuset) * now
    BY CpusetCount DEF Init, Used
  <1> QED
    BY <1>1, <1>2 DEF Init, UsageInv

\* What was taken stays within the CPUs counted for one tick more.
LEMMA TakenKept ==
    ASSUME TypeOK, NEW load \in Loads, Tick(load), NEW r \in Reading, Taken(r)
    PROVE  Taken(r)'
  <1> DEFINE d == Cardinality(load.user) + Cardinality(load.kernel)
  <1>1. /\ now \in Nat /\ user \in Nat /\ kernel \in Nat /\ host' = host
        /\ now' = now + 1 /\ user <= user' /\ kernel <= kernel'
        /\ d \in Nat /\ Used' = Used + d /\ Used \in Nat
        /\ Countable \in Nat /\ Countable' \in Nat /\ Countable <= Countable'
        /\ d <= Countable' /\ user' \in Nat /\ kernel' \in Nat
    BY TickUses DEF Used, Tick
  <1>2. /\ r.readAt \in Nat /\ r.total \in Nat /\ r.inUser \in Nat /\ r.inKernel \in Nat
    BY DEF Reading
  <1> HIDE DEF d
  <1>3. (Used - r.total) + d <= Countable' * ((now - r.readAt) + 1)
    BY <1>1, <1>2, OneTickMore DEF Taken
  <1>4. Used' - r.total <= Countable' * (now' - r.readAt)
    <2>1. Used' - r.total = (Used - r.total) + d /\ now' - r.readAt = (now - r.readAt) + 1
      BY <1>1, <1>2
    <2> QED
      BY <1>3, <2>1
  <1>5. Counted(r)'
    BY <1>1 DEF Taken, Counted, Mode
  <1>6. r.readAt <= now' /\ r.inUser <= user' /\ r.inKernel <= kernel'
    BY <1>1, <1>2 DEF Taken
  <1> QED
    BY <1>4, <1>5, <1>6 DEF Taken

\* A window that was read stays as it is while the host's CPUs do.
LEMMA FollowsKept ==
    ASSUME host' = host, NEW r, NEW s, Follows(r, s)
    PROVE  Follows(r, s)'
  BY DEF Follows, Counted, Counts, Mode

\* A fetch that is over stays so as time passes.
LEMMA EndedKept ==
    ASSUME host' = host, now \in Nat, now' \in Nat, now <= now', NEW r \in Reading, Ended(r)
    PROVE  Ended(r)'
  BY DEF Ended, OnlineCPUs, Reading

\* While time passes the readings taken stay as they are, and the container uses
\* no more than the CPUs counted.
LEMMA TickKeeps ==
    ASSUME UsageInv, NEW load \in Loads, Tick(load)
    PROVE  UsageInv'
  <1> DEFINE d == Cardinality(load.user) + Cardinality(load.kernel)
  <1>1. UNCHANGED <<host, pc, reading, base, pair>> /\ TypeOK
    BY DEF Tick, UsageInv
  <1>2. /\ now \in Nat /\ now' = now + 1 /\ now' \in 0..MaxTime /\ now' \in Nat /\ now <= now'
        /\ user' \in Nat /\ kernel' \in Nat /\ busy' \subseteq Cpuset
        /\ d \in Nat /\ Used' = Used + d /\ Used \in Nat /\ d <= Cardinality(Cpuset)
    <2>1. now < MaxTime /\ MaxTime \in Nat
      BY ConstantsAssumption DEF Tick
    <2> QED
      BY <1>1, <2>1, TickUses, CpusetCount DEF Used
  <1>3. fields' \in [Fields -> Nat]
    BY <1>1, LoadsAssumption DEF Tick, TypeOK
  <1> HIDE DEF d
  <1>4. TypeOK'
    BY <1>1, <1>2, <1>3 DEF TypeOK
  <1>5. (Used <= Cardinality(Cpuset) * now)'
    <2>1. Used + d <= Cardinality(Cpuset) * (now + 1)
      BY <1>2, CpusetCount, OneTickMore DEF UsageInv
    <2> QED
      BY <1>2, <2>1
  <1>6. (reading # None => Taken(reading))'
    <2>1. reading # None => reading \in Reading /\ Taken(reading)
      BY DEF UsageInv, TypeOK
    <2>2. reading # None => Taken(reading)'
      BY <1>1, <2>1, TakenKept
    <2> QED
      BY <1>1, <2>2
  <1>7. (pc = "stamped" => Stamped(reading))'
    <2>1. pc = "stamped" => reading \in Reading /\ Stamped(reading)
      BY DEF UsageInv, TypeOK
    <2> QED
      BY <1>1, <1>2, <2>1 DEF Stamped, Reading
  <1>8. (base # None => Taken(base) /\ Ended(base) /\ base.time = Truncated(base.stampAt))'
    <2>1. base # None => /\ base \in Reading /\ Taken(base) /\ Ended(base)
                         /\ base.time = Truncated(base.stampAt)
      BY DEF UsageInv, TypeOK
    <2>2. base # None => Taken(base)' /\ Ended(base)'
      BY <1>1, <1>2, <2>1, TakenKept, EndedKept
    <2> QED
      BY <1>1, <2>1, <2>2 DEF Truncated
  <1>9. (base # None /\ reading # None => Follows(base, reading))'
    BY <1>1, FollowsKept DEF UsageInv
  <1>10. (pair # None =>
           /\ Follows(pair.base, pair.cur) /\ Ended(pair.base) /\ Ended(pair.cur)
           /\ pair.base.time = Truncated(pair.base.stampAt)
           /\ pair.cur.time = pair.cur.stampAt)'
    <2>1. pair # None => /\ pair.base \in Reading /\ pair.cur \in Reading
                         /\ Follows(pair.base, pair.cur) /\ Ended(pair.base) /\ Ended(pair.cur)
      BY DEF UsageInv, TypeOK
    <2>2. pair # None => Follows(pair.base, pair.cur)' /\ Ended(pair.base)' /\ Ended(pair.cur)'
      BY <1>1, <1>2, <2>1, FollowsKept, EndedKept
    <2> QED
      BY <1>1, <2>2 DEF Truncated, UsageInv
  <1> QED
    BY <1>4, <1>5, <1>6, <1>7, <1>8, <1>9, <1>10 DEF UsageInv

\* What a fetch leaves alone: the host, and the readings before.
LEMMA OthersKept ==
    ASSUME UsageInv, UNCHANGED <<now, host, fields, user, kernel, busy>>
    PROVE  /\ \A r : Taken(r) => Taken(r)'
           /\ \A r : Stamped(r) => Stamped(r)'
           /\ \A r : Ended(r) => Ended(r)'
           /\ \A r, s : Follows(r, s) => Follows(r, s)'
  BY DEF Taken, Counted, Mode, Used, Countable, Stamped, Ended, OnlineCPUs, Follows, Counts

\* A reading begins after the stored one was over (cgroupv2.go:62).
LEMMA StatKeeps == ASSUME UsageInv, Stat PROVE UsageInv'
  <1>1. UNCHANGED <<now, host, fields, user, kernel, busy, base, pair>> /\ pc' = "stat"
    BY DEF Stat, environment
  <1>2. /\ now \in Nat /\ now <= MaxTime /\ user \in Nat /\ kernel \in Nat /\ MaxTime \in Nat
        /\ busy \subseteq Cpuset /\ Cpuset \subseteq CPUs /\ TypeOK
    BY ConstantsAssumption DEF UsageInv, TypeOK
  <1>3. Mode(user) \in Nat /\ Mode(kernel) \in Nat
    BY <1>2, ModeBounds
  <1>4. PICK r \in Reading :
            /\ reading' = r
            /\ r.total = user + kernel /\ r.inUser = user /\ r.inKernel = kernel
            /\ r.user = Mode(user) /\ r.kernel = Mode(kernel) /\ r.readAt = now
            /\ r.percpu = IF host.version = 1 THEN busy ELSE {}
    BY <1>2, <1>3 DEF Stat, Reading
  <1>5. TypeOK'
    BY <1>1, <1>2, <1>4, NoneAssumption DEF TypeOK
  <1>6. Counted(r)
    <2>1. Used < Modulus
      BY UsedBelowModulus
    <2> QED
      BY <1>2, <1>4, <2>1 DEF Counted, Used
  <1>7. Counted(r)'
    BY <1>1, <1>6 DEF Counted, Mode
  <1>8. Taken(r)'
    <2>1. Countable \in Nat
      BY <1>2, CpusetCount DEF Countable
    <2>2. Countable * (now - now) = 0
      BY <1>2, <2>1
    <2>3. Used - r.total = 0 /\ now - r.readAt = now - now
      BY <1>2, <1>4 DEF Used
    <2>4. Used' - r.total <= Countable' * (now' - r.readAt)
      BY <1>1, <2>2, <2>3 DEF Used, Countable
    <2> QED
      BY <1>1, <1>2, <1>4, <1>7, <2>4 DEF Taken
  <1>9. ASSUME base # None PROVE Follows(base, r)'
    <2>1. base \in Reading /\ Taken(base) /\ Ended(base)
      BY <1>9 DEF UsageInv, TypeOK
    <2>2. base.stampAt <= now /\ base.inUser <= user /\ base.inKernel <= kernel /\ Counted(base)
      BY <1>2, <2>1 DEF Ended, Taken, Reading
    <2>3. Counted(base)'
      BY <1>1, <2>2 DEF Counted, Mode
    <2>4. Counts(r) = Countable
      BY <1>4 DEF Counts, Countable
    <2>5. r.total - base.total <= Counts(r) * (r.readAt - base.readAt)
      BY <1>4, <2>1, <2>4 DEF Taken, Used
    <2>6. (r.total - base.total <= Counts(r) * (r.readAt - base.readAt))'
      BY <1>1, <2>5 DEF Counts
    <2> QED
      BY <1>1, <1>4, <1>7, <2>2, <2>3, <2>6 DEF Follows
  <1>10. (base # None /\ reading # None => Follows(base, reading))'
    BY <1>1, <1>4, <1>9 DEF Follows, Counted, Counts, Mode
  <1>11. (reading # None => Taken(reading))'
    BY <1>4, <1>8 DEF Taken, Counted, Mode
  <1> QED
    BY <1>1, <1>2, <1>5, <1>10, <1>11, OthersKept DEF UsageInv, Used, Truncated

\* The clock is read after the counters (cgroupv2.go:67).
LEMMA StampKeeps == ASSUME UsageInv, Stamp PROVE UsageInv'
  <1>1. /\ UNCHANGED <<now, host, fields, user, kernel, busy, base, pair>>
        /\ pc = "stat" /\ pc' = "stamped"
        /\ now \in Nat /\ reading \in Reading /\ reading # None /\ TypeOK
    BY ConstantsAssumption DEF Stamp, environment, UsageInv, TypeOK
  <1>2. PICK r \in Reading :
            /\ reading' = r
            /\ r.user = reading.user /\ r.kernel = reading.kernel /\ r.total = reading.total
            /\ r.percpu = reading.percpu /\ r.readAt = reading.readAt
            /\ r.inUser = reading.inUser /\ r.inKernel = reading.inKernel
            /\ r.stampAt = now /\ r.time = now
    <2> DEFINE r == [reading EXCEPT !.time = now, !.stampAt = now]
    <2>1. /\ r \in Reading
          /\ r.user = reading.user /\ r.kernel = reading.kernel /\ r.total = reading.total
          /\ r.percpu = reading.percpu /\ r.readAt = reading.readAt
          /\ r.inUser = reading.inUser /\ r.inKernel = reading.inKernel
          /\ r.stampAt = now /\ r.time = now
      BY <1>1 DEF Reading
    <2>2. reading' = r
      BY DEF Stamp
    <2> HIDE DEF r
    <2> QED
      BY <2>1, <2>2
  <1>3. TypeOK'
    BY <1>1, <1>2, NoneAssumption DEF TypeOK
  <1>4. Taken(r)
    BY <1>1, <1>2 DEF UsageInv, Taken, Counted
  <1>5. Taken(r)' /\ Stamped(r)'
    BY <1>1, <1>2, <1>4 DEF Taken, Counted, Used, Countable, Mode, Stamped
  <1>6. base # None => Follows(base, r)
    BY <1>1, <1>2 DEF UsageInv, Follows, Counted, Counts
  <1>7. base # None => Follows(base, r)'
    BY <1>6, OthersKept, <1>1
  <1>8. (reading # None => Taken(reading))' /\ (pc = "stamped" => Stamped(reading))'
    BY <1>2, <1>5 DEF Taken, Counted, Mode, Stamped
  <1>9. (base # None /\ reading # None => Follows(base, reading))'
    BY <1>1, <1>2, <1>7 DEF Follows, Counted, Counts, Mode
  <1> QED
    BY <1>1, <1>3, <1>8, <1>9, OthersKept DEF UsageInv, Used, Truncated

\* The CPU time of all fields together is a number of ticks.
LEMMA TotalType ==
    ASSUME NEW f, \A x \in Fields : f[x] \in Nat
    PROVE  Total(f) \in Nat
  <1>1. Total(f) = SumOver(f, Fields)
    BY DEF Total, SumOver
  <1> QED
    BY <1>1, SumType, ConstantsAssumption

\* So is the number of clock ticks (system_cpu_reader.go:74-80).
LEMMA ClockTicksType == ASSUME TypeOK PROVE ClockTicks \in Nat
  <1> DEFINE h == [f \in Fields |-> fields[f] \div jiffy]
  <1>1. \A x \in Fields : h[x] \in Nat
    <2> TAKE x \in Fields
    <2>1. fields[x] \in Nat /\ jiffy \in Nat \ {0}
      BY Jiffy DEF TypeOK
    <2>2. fields[x] \div jiffy \in Nat
      BY <2>1, DivBounds
    <2> QED
      BY <2>2
  <1>2. ClockTicks = Total(h)
    BY DEF ClockTicks
  <1> HIDE DEF h
  <1> QED
    BY <1>1, <1>2, TotalType

\* And the CPU time computed from it (system_cpu_reader.go:81).
LEMMA ReadUsageType ==
    ASSUME TypeOK
    PROVE  ReadUsage \in Nat /\ ClockTicks * Second \in Nat /\ Total(fields) \in Nat
  <1>1. Second \in Nat /\ Hz \in Nat \ {0} /\ Modulus \in Nat \ {0} /\ ClockTicks \in Nat
    BY ConstantsAssumption, ClockTicksType
  <1>2. ClockTicks * Second \in Nat
    BY <1>1
  <1>3. uint64(ClockTicks * Second) \in Nat
    BY <1>1, <1>2 DEF uint64
  <1>4. Total(fields) \in Nat
    BY TotalType DEF TypeOK
  <1> QED
    BY <1>1, <1>2, <1>3, <1>4, DivBounds DEF ReadUsage

\* A fetch that ends keeps the counters and the instants of its reading.
LEMMA Completed ==
    ASSUME UsageInv, Sample
    PROVE  \E c \in Reading :
              /\ c = Complete(reading)
              /\ Taken(c) /\ Stamped(c) /\ Ended(c)
              /\ base # None => Follows(base, c)
              /\ c.sys = ReadUsage /\ c.product = ClockTicks * Second
              /\ c.spent = Total(fields) /\ c.sysAt = now
              /\ c.total = reading.total /\ c.readAt = reading.readAt
  <1>1. pc = "stamped" /\ reading \in Reading /\ reading # None /\ now \in Nat /\ TypeOK
    BY ConstantsAssumption DEF Sample, UsageInv, TypeOK
  <1>2. OnlineCPUs \in Nat
    BY CpusetCount DEF OnlineCPUs
  <1> DEFINE c == Complete(reading)
  <1>3. /\ c \in Reading
        /\ c.user = reading.user /\ c.kernel = reading.kernel /\ c.total = reading.total
        /\ c.percpu = reading.percpu /\ c.readAt = reading.readAt
        /\ c.inUser = reading.inUser /\ c.inKernel = reading.inKernel
        /\ c.stampAt = reading.stampAt /\ c.time = reading.time
        /\ c.sys = ReadUsage /\ c.product = ClockTicks * Second
        /\ c.spent = Total(fields) /\ c.sysAt = now /\ c.online = OnlineCPUs
    <2>1. ReadUsage \in Nat /\ ClockTicks * Second \in Nat /\ Total(fields) \in Nat
      BY <1>1, ReadUsageType
    <2> QED
      BY <1>1, <1>2, <2>1 DEF Complete, Reading
  <1> HIDE DEF c
  <1>4. Taken(reading) /\ Stamped(reading) /\ (base # None => Follows(base, reading))
    BY <1>1 DEF UsageInv
  <1>5. Taken(c) /\ Stamped(c) /\ Ended(c)
    BY <1>1, <1>3, <1>4 DEF Taken, Counted, Stamped, Ended, Reading
  <1>6. base # None => Follows(base, c)
    BY <1>3, <1>4 DEF Follows, Counted, Counts
  <1> QED
    BY <1>3, <1>5, <1>6 DEF c

\* The reading becomes the stored one, and with the one before it a window
\* (metrics_all.go:105-135).
LEMMA SampleKeeps == ASSUME UsageInv, Sample PROVE UsageInv'
  <1>1. /\ UNCHANGED <<now, host, fields, user, kernel, busy>>
        /\ pc' = "idle" /\ reading' = None /\ TypeOK
    BY DEF Sample, environment, UsageInv
  <1>2. PICK c \in Reading :
            /\ c = Complete(reading)
            /\ Taken(c) /\ Stamped(c) /\ Ended(c)
            /\ base # None => Follows(base, c)
    BY Completed
  <1>3. /\ base' = [c EXCEPT !.time = Truncated(@)]
        /\ pair' = IF base # None /\ c.time > base.time THEN [base |-> base, cur |-> c] ELSE None
    BY <1>2 DEF Sample
  <1>4. c.time = c.stampAt /\ c.time \in Nat /\ Truncated(c.time) \in Nat
    BY <1>2, TruncatedBounds DEF Stamped, Reading
  <1>5. PICK b \in Reading :
            /\ base' = b /\ b.time = Truncated(b.stampAt)
            /\ b.user = c.user /\ b.kernel = c.kernel /\ b.total = c.total
            /\ b.percpu = c.percpu /\ b.online = c.online
            /\ b.readAt = c.readAt /\ b.stampAt = c.stampAt /\ b.sysAt = c.sysAt
            /\ b.inUser = c.inUser /\ b.inKernel = c.inKernel
    <2> DEFINE b == [c EXCEPT !.time = Truncated(@)]
    <2>1. /\ b \in Reading /\ b.time = Truncated(b.stampAt)
          /\ b.user = c.user /\ b.kernel = c.kernel /\ b.total = c.total
          /\ b.percpu = c.percpu /\ b.online = c.online
          /\ b.readAt = c.readAt /\ b.stampAt = c.stampAt /\ b.sysAt = c.sysAt
          /\ b.inUser = c.inUser /\ b.inKernel = c.inKernel
      BY <1>4 DEF Reading
    <2> HIDE DEF b
    <2>2. base' = b
      BY <1>3 DEF b
    <2> QED
      BY <2>1, <2>2
  <1>6. Taken(b) /\ Ended(b)
    BY <1>2, <1>5 DEF Taken, Counted, Ended
  <1>7. Taken(b)' /\ Ended(b)'
    BY <1>1, <1>6, OthersKept
  <1>8. (base # None => Taken(base) /\ Ended(base) /\ base.time = Truncated(base.stampAt))'
    BY <1>5, <1>7 DEF Taken, Counted, Mode, Ended, OnlineCPUs, Truncated
  <1>9. pair' \in [base : Reading, cur : Reading] \cup {None}
    BY <1>1, <1>3 DEF TypeOK
  <1>10. TypeOK'
    BY <1>1, <1>5, <1>9 DEF TypeOK
  <1>11. (pair # None =>
           /\ Follows(pair.base, pair.cur) /\ Ended(pair.base) /\ Ended(pair.cur)
           /\ pair.base.time = Truncated(pair.base.stampAt)
           /\ pair.cur.time = pair.cur.stampAt)'
    <2> SUFFICES ASSUME pair' # None
                 PROVE  (/\ Follows(pair.base, pair.cur) /\ Ended(pair.base) /\ Ended(pair.cur)
                         /\ pair.base.time = Truncated(pair.base.stampAt)
                         /\ pair.cur.time = pair.cur.stampAt)'
      OBVIOUS
    <2>1. PICK a \in Reading : a = base /\ base # None
      BY <1>1, <1>3 DEF TypeOK
    <2>2. pair'.base = a /\ pair'.cur = c
      BY <1>3, <2>1
    <2>3. Follows(a, c) /\ Ended(a) /\ a.time = Truncated(a.stampAt)
      BY <1>2, <2>1 DEF UsageInv
    <2>4. Follows(a, c)' /\ Ended(a)' /\ Ended(c)'
      BY <1>1, <1>2, <2>3, OthersKept
    <2> QED
      BY <1>4, <2>2, <2>3, <2>4
         DEF Follows, Counted, Counts, Mode, Ended, OnlineCPUs, Truncated
  <1>12. (Used <= Cardinality(Cpuset) * now)'
    BY <1>1 DEF UsageInv, Used
  <1> QED
    BY <1>1, <1>8, <1>10, <1>11, <1>12 DEF UsageInv

\* The invariant is about the variables of CpuUsage only.
LEMMA UsageStutter == ASSUME UsageInv, UNCHANGED vars PROVE UsageInv'
  <1>1. UNCHANGED <<now, host, fields, user, kernel, busy, pc, reading, base, pair>>
    BY DEF vars, environment
  <1> QED
    BY <1>1, OthersKept DEF UsageInv, TypeOK, Used, Truncated

\* The readings of CpuUsage, in every reachable state, for all constants.
THEOREM UsageInvCorrect == Spec => []UsageInv
  <1>1. ASSUME UsageInv, [Next]_vars PROVE UsageInv'
    BY <1>1, TickKeeps, StatKeeps, StampKeeps, SampleKeeps, UsageStutter DEF Next, StatWithoutCPU
  <1> QED
    BY <1>1, UsageInit, PTL DEF Spec

-----------------------------------------------------------------------------
(* The properties of the container's counters.                             *)

\* Every variable of CpuUsage keeps its type: a reading is there exactly while
\* a fetch is on its way (cgroupv2.go Fetch).
THEOREM TypeCorrect == Spec => []TypeOK
  <1>1. UsageInv => TypeOK
    BY DEF UsageInv
  <1> QED
    BY <1>1, UsageInvCorrect, PTL

\* The duration a window's usage is divided by is never shorter than the time
\* between the readings, and longer by less than a second
\* (metrics_all.go:109, 132).
THEOREM DurationCorrect == Spec => []DurationBounds
  <1>1. ASSUME UsageInv PROVE DurationBounds
    <2> SUFFICES ASSUME pair # None
                 PROVE  LET elapsed == pair.cur.stampAt - pair.base.stampAt IN
                        elapsed <= durationNS(pair) /\ durationNS(pair) < elapsed + Second
      BY DEF DurationBounds
    <2>1. /\ pair.base \in Reading /\ pair.cur \in Reading
          /\ pair.base.time = Truncated(pair.base.stampAt) /\ pair.cur.time = pair.cur.stampAt
      BY <1>1 DEF UsageInv, TypeOK
    <2>2. pair.base.stampAt \in Nat /\ pair.cur.stampAt \in Nat /\ Second \in Nat
      BY <2>1, ConstantsAssumption DEF Reading
    <2>3. /\ pair.base.time \in Nat /\ pair.base.time <= pair.base.stampAt
          /\ pair.base.stampAt < pair.base.time + Second
      BY <2>1, <2>2, TruncatedBounds
    <2> QED
      BY <2>1, <2>2, <2>3 DEF durationNS
  <1> QED
    BY <1>1, UsageInvCorrect, PTL

\* More CPUs for a longer time are no less CPU time.
LEMMA TimesMore ==
    ASSUME NEW n \in Nat, NEW m \in Nat, n <= m, NEW t \in Int, NEW d \in Nat, t <= d
    PROVE  n * t <= m * d /\ n * t \in Int /\ m * d \in Nat
  <1>1. n * t <= n * d /\ n * d <= m * d
    OBVIOUS
  <1>2. n * t \in Int /\ n * d \in Nat /\ m * d \in Nat
    OBVIOUS
  <1> QED
    BY <1>1, <1>2

\* The usage of a window is of the CPUs counted, for its duration and the delay of
\* the earlier fetch.
LEMMA Window ==
    ASSUME UsageInv, pair # None
    PROVE  LET b == pair.base
               c == pair.cur
           IN  /\ b \in Reading /\ c \in Reading /\ Counted(b) /\ Counted(c)
               /\ b.inUser <= c.inUser /\ b.inKernel <= c.inKernel
               /\ Counts(c) \in Nat /\ Counts(c) <= Cardinality(Cpuset)
               /\ durationNS(pair) \in Nat /\ StampDelay(pair) \in Nat
               /\ cpuDelta(pair) \in Nat /\ cpuDelta(pair) = c.total - b.total
               /\ cpuDelta(pair) <= Counts(c) * (durationNS(pair) + StampDelay(pair))
  <1> DEFINE b == pair.base
             c == pair.cur
             d == durationNS(pair)
             e == StampDelay(pair)
             w == c.readAt - b.readAt
  <1>1. /\ b \in Reading /\ c \in Reading /\ Follows(b, c) /\ Ended(b) /\ Ended(c)
        /\ b.time = Truncated(b.stampAt) /\ c.time = c.stampAt
    BY DEF UsageInv, TypeOK
  <1>2. d = c.time - b.time /\ e = b.stampAt - b.readAt
    BY DEF durationNS, StampDelay
  <1>3. cpuDelta(pair) = Delta(b.total, c.total)
    BY DEF cpuDelta
  <1> HIDE DEF b, c, d, e
  <1>4. /\ b.readAt \in Nat /\ b.stampAt \in Nat /\ c.readAt \in Nat /\ c.stampAt \in Nat
        /\ b.total \in Nat /\ c.total \in Nat
        /\ b.inUser \in Nat /\ b.inKernel \in Nat /\ c.inUser \in Nat /\ c.inKernel \in Nat
    BY <1>1 DEF Reading
  <1>5. b.time \in Nat /\ b.time <= b.stampAt
    BY <1>1, <1>4, TruncatedBounds
  <1>6. d \in Nat /\ e \in Nat /\ w \in Int /\ w <= d + e
    BY <1>1, <1>2, <1>4, <1>5 DEF Follows, Ended
  <1>7. Counts(c) \in Nat /\ Counts(c) <= Cardinality(Cpuset)
    BY <1>1, CpusetCount DEF Follows, Counted, Counts
  <1>8. b.total <= c.total /\ c.total < Modulus
    BY <1>1, <1>4 DEF Follows, Counted
  <1>9. Delta(b.total, c.total) = c.total - b.total /\ c.total - b.total \in Nat
    BY <1>4, <1>8, DeltaOfCounts
  <1>10. c.total - b.total <= Counts(c) * w
    BY <1>1 DEF Follows
  <1>11. Counts(c) * w <= Counts(c) * (d + e) /\ Counts(c) * w \in Int /\ Counts(c) * (d + e) \in Nat
    <2> DEFINE n == Counts(c)
               m == d + e
    <2>1. n \in Nat /\ m \in Nat /\ w <= m
      BY <1>6, <1>7
    <2> HIDE DEF n, m, w
    <2>2. n * w <= n * m /\ n * w \in Int /\ n * m \in Nat
      BY <1>6, <2>1, TimesMore
    <2> QED
      BY <2>2 DEF n, m
  <1>12. c.total - b.total <= Counts(c) * (d + e)
    BY <1>9, <1>10, <1>11
  <1> QED
    BY <1>1, <1>3, <1>6, <1>7, <1>9, <1>12 DEF b, c, d, e, Follows

\* UsedCores, which the code does not limit, stays within the container's CPUs
\* but for the delay of the earlier fetch (metrics_all.go:148).
THEOREM UsedCoresCorrect == Spec => []UsedCoresBounded
  <1>1. ASSUME UsageInv PROVE UsedCoresBounded
    <2> DEFINE n == Counts(pair.cur)
               m == Cardinality(Cpuset)
               d == durationNS(pair) + StampDelay(pair)
               u == cpuDelta(pair)
    <2> SUFFICES ASSUME pair # None PROVE u <= m * d
      BY DEF UsedCoresBounded, UsedCores, Frac
    <2>1. n \in Nat /\ m \in Nat /\ n <= m /\ d \in Nat /\ u \in Nat /\ u <= n * d
      BY <1>1, Window, CpusetCount
    <2> HIDE DEF n, m, d, u
    <2>2. n * d <= m * d /\ n * d \in Int /\ m * d \in Nat
      BY <2>1, TimesMore
    <2> QED
      BY <2>1, <2>2
  <1> QED
    BY <1>1, UsageInvCorrect, PTL

\* Of a mode's use the limit cuts no more than the slack: a part of what the CPUs
\* counted can use is within the limit.
LEMMA LimitKeeps ==
    ASSUME NEW n \in Nat, NEW d \in Nat, NEW s \in Nat, NEW u \in Nat,
           u <= n * d + s
    PROVE  Leq(Frac(100 * (u - s), d), MinFrac(Frac(100 * n, 1), Frac(100 * u, d)))
  <1> DEFINE m == 100 * n
             v == 100 * u
             k == 100 * (u - s)
  <1>1. CASE m * d <= v * 1
    <2>1. MinFrac(Frac(m, 1), Frac(v, d)) = Frac(m, 1)
      BY <1>1 DEF MinFrac, Leq, Frac
    <2>2. k * 1 <= m * d
      <3>1. n * d \in Nat /\ m * d = 100 * (n * d)
        OBVIOUS
      <3> DEFINE p == n * d
      <3> HIDE DEF p, m
      <3>2. 100 * (u - s) <= 100 * p
        BY <3>1 DEF p
      <3> QED
        BY <3>1, <3>2 DEF p
    <2> QED
      BY <2>1, <2>2 DEF Leq, Frac
  <1>2. CASE ~(m * d <= v * 1)
    <2>1. MinFrac(Frac(m, 1), Frac(v, d)) = Frac(v, d)
      BY <1>2 DEF MinFrac, Leq, Frac
    <2>2. k * d <= v * d
      <3>1. k <= v /\ k \in Int /\ v \in Int
        OBVIOUS
      <3> HIDE DEF k, v
      <3> QED
        BY <3>1
    <2> QED
      BY <2>1, <2>2 DEF Leq, Frac
  <1> QED
    BY <1>1, <1>2

\* The limit on user and kernel percentages cuts nothing that was used in the
\* window, but for the delay and the counters' precision, wherever the CPUs are
\* counted at all (metrics_all.go:138-146, metrics.go:97-112).
THEOREM LimitCorrect == Spec => []LimitCutsNoUsage
  <1>1. ASSUME UsageInv PROVE LimitCutsNoUsage
    <2> DEFINE b == pair.base
               c == pair.cur
               n == OnlineCPUsWithFallback(c)
               d == durationNS(pair)
               e == StampDelay(pair)
               slack == n * e + ModePrecision
    <2> SUFFICES ASSUME pair # None, host.version = 2 => host.cpuset
                 PROVE  /\ Leq(Frac(100 * (userDelta(pair) - slack), d), UserPercent(pair))
                        /\ Leq(Frac(100 * (kernelDelta(pair) - slack), d), KernelPercent(pair))
      BY DEF LimitCutsNoUsage
    <2>1. /\ b \in Reading /\ c \in Reading /\ Counted(b) /\ Counted(c)
          /\ b.inUser <= c.inUser /\ b.inKernel <= c.inKernel
          /\ Counts(c) \in Nat /\ d \in Nat /\ e \in Nat
          /\ c.total - b.total <= Counts(c) * (d + e)
      BY <1>1, Window
    <2>2. n = Counts(c)
      <3>1. c.online = OnlineCPUs /\ host \in [version : {1, 2}, cpuset : BOOLEAN]
        BY <1>1 DEF UsageInv, Ended, TypeOK
      <3>2. Cardinality(Cpuset) # 0
        BY CpusetCount
      <3> QED
        BY <3>1, <3>2 DEF OnlineCPUs, OnlineCPUsWithFallback, Counts
    <2>3. /\ userDelta(pair) = Delta(b.user, c.user)
          /\ kernelDelta(pair) = Delta(b.kernel, c.kernel)
          /\ UserPercent(pair) = MinFrac(Frac(100 * n, 1), Frac(100 * userDelta(pair), d))
          /\ KernelPercent(pair) = MinFrac(Frac(100 * n, 1), Frac(100 * kernelDelta(pair), d))
      BY DEF userDelta, kernelDelta, UserPercent, KernelPercent, maxVal
    <2> HIDE DEF b, c, n, d, e
    <2>4. /\ b.inUser \in Nat /\ b.inKernel \in Nat /\ c.inUser \in Nat /\ c.inKernel \in Nat
          /\ c.total = c.inUser + c.inKernel /\ b.total = b.inUser + b.inKernel
          /\ c.total < Modulus /\ Modulus \in Nat
      BY <2>1, ConstantsAssumption DEF Reading, Counted
    <2>5. n * (d + e) = n * d + n * e /\ n * d \in Nat /\ n * e \in Nat /\ n \in Nat
      BY <2>1, <2>2
    <2>6. ASSUME NEW x \in Nat, NEW y \in Nat, x <= y, y < Modulus, y - x <= n * (d + e)
          PROVE  LET u == Delta(Mode(x), Mode(y)) IN
                 Leq(Frac(100 * (u - slack), d), MinFrac(Frac(100 * n, 1), Frac(100 * u, d)))
      <3> DEFINE u == Delta(Mode(x), Mode(y))
      <3>1. /\ Mode(x) \in Nat /\ Mode(y) \in Nat /\ Mode(x) <= Mode(y) /\ Mode(y) <= y
            /\ x <= Mode(x) + ModePrecision /\ ModePrecision \in Nat
        BY <2>6, ModeBounds
      <3>2. u = Mode(y) - Mode(x) /\ u \in Nat
        <4>1. Mode(y) < Modulus
          BY <2>4, <2>6, <3>1
        <4> QED
          BY <3>1, <4>1, DeltaOfCounts
      <3>3. slack \in Nat /\ u <= n * d + slack
        BY <2>5, <2>6, <3>1, <3>2
      <3> HIDE DEF u, slack
      <3>4. Leq(Frac(100 * (u - slack), d), MinFrac(Frac(100 * n, 1), Frac(100 * u, d)))
        BY <2>1, <2>5, <3>2, <3>3, LimitKeeps
      <3> QED
        BY <3>4 DEF u
    <2> HIDE DEF slack
    <2>7. /\ c.inUser < Modulus /\ c.inKernel < Modulus
          /\ c.inUser - b.inUser <= n * (d + e) /\ c.inKernel - b.inKernel <= n * (d + e)
      BY <2>1, <2>2, <2>4, <2>5
    <2>8. /\ b.user = Mode(b.inUser) /\ c.user = Mode(c.inUser)
          /\ b.kernel = Mode(b.inKernel) /\ c.kernel = Mode(c.inKernel)
      BY <2>1 DEF Counted
    <2>9. Leq(Frac(100 * (userDelta(pair) - slack), d), UserPercent(pair))
      BY <2>1, <2>3, <2>4, <2>6, <2>7, <2>8
    <2>10. Leq(Frac(100 * (kernelDelta(pair) - slack), d), KernelPercent(pair))
      BY <2>1, <2>3, <2>4, <2>6, <2>7, <2>8
    <2> QED
      BY <2>9, <2>10
  <1> QED
    BY <1>1, UsageInvCorrect, PTL

-----------------------------------------------------------------------------
(* The system's CPU time.                                                  *)

\* The CPU time from r's read of /proc/stat to when s has passed, and what the
\* container used in r's fetch after its counters were read: what it has used
\* since they were is within both.
Allowance(r, s) == (s - r.spent) + Cardinality(Cpuset) * (r.sysAt - r.readAt)

\* r's sys was computed from a sum of clock ticks, cut field by field.
SystemRead(r) ==
    /\ r.sys = uint64(r.product) \div Hz
    /\ \E t \in Nat :
         /\ r.product = t * Second
         /\ jiffy * t <= r.spent /\ r.spent <= jiffy * t + FieldsPrecision

SystemInv ==
    /\ base # None =>
         /\ SystemRead(base) /\ base.product <= ClockTicks * Second
         /\ Used - base.total <= Allowance(base, Total(fields))
    /\ base # None /\ reading # None =>
         reading.total - base.total <= Allowance(base, Total(fields))
    /\ pair # None =>
         /\ SystemRead(pair.base) /\ SystemRead(pair.cur)
         /\ pair.base.product <= pair.cur.product
         /\ pair.cur.total - pair.base.total <= Allowance(pair.base, pair.cur.spent)

\* The ticks are the CPU time of all fields, each cut to a tick
\* (system_cpu_reader.go:74-80).
LEMMA TicksBounds ==
    ASSUME TypeOK
    PROVE  /\ ClockTicks \in Nat /\ FieldsPrecision \in Nat
           /\ jiffy * ClockTicks <= Total(fields)
           /\ Total(fields) <= jiffy * ClockTicks + FieldsPrecision
  <1> DEFINE h == [f \in Fields |-> fields[f] \div jiffy]
             p == jiffy - 1
  <1>1. jiffy \in Nat \ {0} /\ p \in Nat
    BY Jiffy
  <1>2. /\ \A x \in Fields : fields[x] \in Nat
        /\ \A x \in Fields : h[x] \in Nat
        /\ \A x \in Fields : jiffy * h[x] <= fields[x] /\ fields[x] <= jiffy * h[x] + p
    <2> SUFFICES ASSUME NEW x \in Fields
                 PROVE  /\ fields[x] \in Nat /\ h[x] \in Nat
                        /\ jiffy * h[x] <= fields[x] /\ fields[x] <= jiffy * h[x] + p
      OBVIOUS
    <2>1. fields[x] \in Nat
      BY DEF TypeOK
    <2> DEFINE q == fields[x] \div jiffy
    <2>2. /\ q \in Nat /\ q * jiffy <= fields[x] /\ fields[x] <= q * jiffy + (jiffy - 1)
          /\ jiffy * q = q * jiffy
      BY <1>1, <2>1, DivBounds
    <2>3. h[x] = q
      OBVIOUS
    <2> HIDE DEF q, h
    <2> QED
      BY <2>1, <2>2, <2>3
  <1>3. ClockTicks = SumOver(h, Fields) /\ Total(fields) = SumOver(fields, Fields)
    BY DEF ClockTicks, Total, SumOver
  <1>4. IsFiniteSet(Fields) /\ Cardinality(Fields) \in Nat
    BY ConstantsAssumption, FS_CardinalityType
  <1>5. FieldsPrecision = p * Cardinality(Fields) /\ FieldsPrecision \in Nat
    BY <1>1, <1>4 DEF FieldsPrecision
  <1> HIDE DEF h, p
  <1>6. /\ jiffy * SumOver(h, Fields) <= SumOver(fields, Fields)
        /\ SumOver(fields, Fields) <= jiffy * SumOver(h, Fields) + p * Cardinality(Fields)
    BY <1>1, <1>2, <1>4, SumCut
  <1> QED
    BY <1>3, <1>5, <1>6, ClockTicksType

\* Sums of fields grow as the fields do.
LEMMA TotalGrows ==
    ASSUME NEW f, \A x \in Fields : f[x] \in Nat, NEW g, \A x \in Fields : g[x] \in Nat,
           \A x \in Fields : f[x] <= g[x]
    PROVE  Total(f) \in Nat /\ Total(g) \in Nat /\ Total(f) <= Total(g)
  <1> DEFINE d == [x \in Fields |-> g[x] - f[x]]
  <1>1. \A x \in Fields : d[x] \in Nat /\ g[x] = f[x] + d[x]
    OBVIOUS
  <1> HIDE DEF d
  <1>2. SumOver(g, Fields) = SumOver(f, Fields) + SumOver(d, Fields)
    BY <1>1, SumAdd, ConstantsAssumption
  <1>3. SumOver(d, Fields) \in Nat /\ SumOver(f, Fields) \in Nat /\ SumOver(g, Fields) \in Nat
    BY <1>1, SumType, ConstantsAssumption
  <1>4. Total(f) = SumOver(f, Fields) /\ Total(g) = SumOver(g, Fields)
    BY DEF Total, SumOver
  <1> QED
    BY <1>2, <1>3, <1>4

\* In a tick the fields get what the CPUs spend, of which the container's use is
\* a part, and the number of clock ticks does not fall.
LEMMA TickSpends ==
    ASSUME TypeOK, NEW load \in Loads, Tick(load)
    PROVE  LET u == Cardinality(load.user)
               k == Cardinality(load.kernel)
           IN  \E s \in Nat :
                  /\ Total(fields) \in Nat /\ Total(fields)' = Total(fields) + s
                  /\ u + k <= s
                  /\ ClockTicks \in Nat /\ ClockTicks' \in Nat /\ ClockTicks <= ClockTicks'
  <1> DEFINE g == [x \in Fields |-> fields[x] + load.spent[x]]
  <1>1. /\ \A x \in Fields : fields[x] \in Nat
        /\ \A x \in Fields : load.spent[x] \in Nat
        /\ \A x \in Fields : g[x] = fields[x] + load.spent[x]
        /\ Cardinality(load.user) + Cardinality(load.kernel) <= Total(load.spent)
    BY LoadsAssumption DEF TypeOK
  <1>2. fields' = g
    BY DEF Tick
  <1> HIDE DEF g
  <1>3. Total(g) = Total(fields) + Total(load.spent) /\ Total(fields) \in Nat /\ Total(load.spent) \in Nat
    <2>1. SumOver(g, Fields) = SumOver(fields, Fields) + SumOver(load.spent, Fields)
      BY <1>1, SumAdd, ConstantsAssumption
    <2>2. /\ Total(g) = SumOver(g, Fields) /\ Total(fields) = SumOver(fields, Fields)
          /\ Total(load.spent) = SumOver(load.spent, Fields)
      BY DEF Total, SumOver
    <2> QED
      BY <1>1, <2>1, <2>2, TotalType
  <1> DEFINE before == [x \in Fields |-> fields[x] \div jiffy]
             after == [x \in Fields |-> g[x] \div jiffy]
  <1>4. Total(before) \in Nat /\ Total(after) \in Nat /\ Total(before) <= Total(after)
    <2>1. ASSUME NEW x \in Fields
          PROVE  before[x] \in Nat /\ after[x] \in Nat /\ before[x] <= after[x]
      <3>1. fields[x] \in Nat /\ g[x] \in Nat /\ fields[x] <= g[x] /\ jiffy \in Nat \ {0}
        BY <1>1, Jiffy
      <3>2. fields[x] \div jiffy \in Nat /\ g[x] \div jiffy \in Nat /\ fields[x] \div jiffy <= g[x] \div jiffy
        BY <3>1, DivBounds
      <3> QED
        BY <3>2
    <2> HIDE DEF before, after
    <2> QED
      BY <2>1, TotalGrows
  <1>5. ClockTicks = Total(before) /\ ClockTicks' = Total(after)
    BY <1>2 DEF ClockTicks
  <1>6. Total(fields)' = Total(g)
    BY <1>2
  <1> HIDE DEF before, after
  <1> QED
    BY <1>1, <1>3, <1>4, <1>5, <1>6

\* While time passes, what the container uses is among what its host spends.
LEMMA TickKeepsSystem ==
    ASSUME UsageInv, SystemInv, NEW load \in Loads, Tick(load)
    PROVE  SystemInv'
  <1> DEFINE d == Cardinality(load.user) + Cardinality(load.kernel)
             before == Total(fields)
             after == Total(fields)'
             ticks == ClockTicks
             later == ClockTicks'
  <1>1. UNCHANGED <<pc, reading, base, pair>> /\ TypeOK
    BY DEF Tick, UsageInv
  <1>2. PICK s \in Nat : /\ before \in Nat /\ after = before + s /\ d <= s
                         /\ ticks \in Nat /\ later \in Nat /\ ticks <= later
    BY <1>1, TickSpends
  <1>3. d \in Nat /\ Used \in Nat /\ Used' = Used + d
    BY <1>1, TickUses DEF Used
  <1>4. Second \in Nat /\ Cardinality(Cpuset) \in Nat
    BY ConstantsAssumption, CpusetCount
  <1>5. ASSUME base # None
        PROVE  /\ base.product <= later * Second
               /\ Used' - base.total <= Allowance(base, after)
    <2>1. /\ base.product <= ticks * Second /\ Used - base.total <= Allowance(base, before)
      BY <1>5 DEF SystemInv
    <2>2. /\ base.total \in Nat /\ base.spent \in Nat /\ base.product \in Nat
          /\ base.sysAt \in Nat /\ base.readAt \in Nat
      BY <1>1, <1>5 DEF TypeOK, Reading
    <2> HIDE DEF ticks, later, before, after, d
    <2>3. ticks * Second <= later * Second /\ ticks * Second \in Nat /\ later * Second \in Nat
      BY <1>2, <1>4
    <2>4. Allowance(base, after) = Allowance(base, before) + s /\ Allowance(base, before) \in Int
      <3> DEFINE w == Cardinality(Cpuset) * (base.sysAt - base.readAt)
      <3>1. w \in Int
        BY <1>4, <2>2
      <3>2. \A x \in Nat : Allowance(base, x) = (x - base.spent) + w
        BY DEF Allowance
      <3> HIDE DEF w
      <3> QED
        BY <1>2, <2>2, <3>1, <3>2
    <2> QED
      BY <1>2, <1>3, <2>1, <2>2, <2>3, <2>4
  <1>6. ASSUME base # None, reading # None
        PROVE  reading.total - base.total <= Allowance(base, after)
    <2>1. reading.total - base.total <= Allowance(base, before)
      BY <1>6 DEF SystemInv
    <2>2. /\ base.total \in Nat /\ base.spent \in Nat /\ reading.total \in Nat
          /\ base.sysAt \in Nat /\ base.readAt \in Nat
      BY <1>1, <1>6 DEF TypeOK, Reading
    <2> HIDE DEF before, after
    <2> DEFINE w == Cardinality(Cpuset) * (base.sysAt - base.readAt)
    <2>3. w \in Int
      BY <1>4, <2>2
    <2>4. \A x \in Nat : Allowance(base, x) = (x - base.spent) + w
      BY DEF Allowance
    <2> HIDE DEF w
    <2> QED
      BY <1>2, <2>1, <2>2, <2>3, <2>4
  <1>7. (base # None =>
           /\ SystemRead(base) /\ base.product <= ClockTicks * Second
           /\ Used - base.total <= Allowance(base, Total(fields)))'
    BY <1>1, <1>5 DEF SystemInv, SystemRead, uint64, jiffy, FieldsPrecision, Allowance
  <1>8. (base # None /\ reading # None =>
           reading.total - base.total <= Allowance(base, Total(fields)))'
    BY <1>1, <1>6 DEF Allowance
  <1>9. (pair # None =>
           /\ SystemRead(pair.base) /\ SystemRead(pair.cur)
           /\ pair.base.product <= pair.cur.product
           /\ pair.cur.total - pair.base.total <= Allowance(pair.base, pair.cur.spent))'
    BY <1>1 DEF SystemInv, SystemRead, uint64, jiffy, FieldsPrecision, Allowance
  <1> QED
    BY <1>7, <1>8, <1>9 DEF SystemInv

\* The stored sample of a fetch, and the window it ends, have what /proc/stat
\* showed when it was read (metrics_all.go:105-135).
LEMMA SampleKeepsSystem == ASSUME UsageInv, SystemInv, Sample PROVE SystemInv'
  <1>1. /\ UNCHANGED <<now, host, fields, user, kernel, busy>> /\ TypeOK
        /\ reading' = None /\ reading # None /\ now \in Nat
    BY ConstantsAssumption DEF Sample, environment, UsageInv, TypeOK
  <1>2. PICK c \in Reading :
            /\ c = Complete(reading) /\ Taken(c) /\ Stamped(c)
            /\ c.sys = ReadUsage /\ c.product = ClockTicks * Second
            /\ c.spent = Total(fields) /\ c.sysAt = now
            /\ c.total = reading.total /\ c.readAt = reading.readAt
    BY Completed
  <1>3. /\ base' = [c EXCEPT !.time = Truncated(@)]
        /\ pair' = IF base # None /\ c.time > base.time THEN [base |-> base, cur |-> c] ELSE None
    BY <1>2 DEF Sample
  <1>4. c.time \in Nat /\ Truncated(c.time) \in Nat
    BY <1>2, TruncatedBounds DEF Reading
  <1>5. PICK b \in Reading :
            /\ base' = b
            /\ b.sys = c.sys /\ b.product = c.product /\ b.spent = c.spent
            /\ b.sysAt = c.sysAt /\ b.total = c.total /\ b.readAt = c.readAt
    <2> DEFINE b == [c EXCEPT !.time = Truncated(@)]
    <2>1. /\ b \in Reading
          /\ b.sys = c.sys /\ b.product = c.product /\ b.spent = c.spent
          /\ b.sysAt = c.sysAt /\ b.total = c.total /\ b.readAt = c.readAt
      BY <1>4 DEF Reading
    <2> HIDE DEF b
    <2>2. base' = b
      BY <1>3 DEF b
    <2> QED
      BY <2>1, <2>2
  <1>6. SystemRead(c)
    <2>1. ClockTicks \in Nat /\ c.sys = uint64(c.product) \div Hz
      BY <1>1, <1>2, TicksBounds DEF ReadUsage
    <2> QED
      BY <1>1, <1>2, <2>1, TicksBounds DEF SystemRead
  <1>7. SystemRead(b)
    BY <1>5, <1>6 DEF SystemRead
  <1>8. Used - b.total <= Allowance(b, Total(fields))
    <2> DEFINE n == Countable
               m == Cardinality(Cpuset)
               w == now - c.readAt
    <2>1. Used - c.total <= n * w /\ w \in Nat
      BY <1>1, <1>2 DEF Taken, Reading
    <2>2. n \in Nat /\ m \in Nat /\ n <= m
      BY <1>1, CpusetCount DEF Countable, TypeOK
    <2>3. Allowance(b, Total(fields)) = (Total(fields) - Total(fields)) + m * w
      BY <1>2, <1>5 DEF Allowance
    <2>4. Total(fields) - Total(fields) = 0 /\ Used - c.total \in Int
      BY <1>1, <1>2, TotalType DEF TypeOK, Used, Reading
    <2>5. b.total = c.total
      BY <1>5
    <2> HIDE DEF n, m, w
    <2>6. n * w <= m * w /\ n * w \in Int /\ m * w \in Nat
      BY <2>1, <2>2, TimesMore
    <2> QED
      BY <2>1, <2>3, <2>4, <2>5, <2>6
  <1>9. (base # None =>
           /\ SystemRead(base) /\ base.product <= ClockTicks * Second
           /\ Used - base.total <= Allowance(base, Total(fields)))'
    <2>1. b.product <= ClockTicks * Second
      BY <1>1, <1>2, <1>5, ReadUsageType
    <2>2. /\ ClockTicks' = ClockTicks /\ Total(fields)' = Total(fields) /\ Used' = Used
      BY <1>1 DEF ClockTicks, Used
    <2> QED
      BY <1>5, <1>7, <1>8, <2>1, <2>2
         DEF SystemRead, uint64, jiffy, FieldsPrecision, Allowance
  <1>10. (pair # None =>
           /\ SystemRead(pair.base) /\ SystemRead(pair.cur)
           /\ pair.base.product <= pair.cur.product
           /\ pair.cur.total - pair.base.total <= Allowance(pair.base, pair.cur.spent))'
    <2> SUFFICES ASSUME pair' # None
                 PROVE  (/\ SystemRead(pair.base) /\ SystemRead(pair.cur)
                         /\ pair.base.product <= pair.cur.product
                         /\ pair.cur.total - pair.base.total
                              <= Allowance(pair.base, pair.cur.spent))'
      OBVIOUS
    <2>1. PICK a \in Reading : a = base /\ base # None
      BY <1>1, <1>3 DEF TypeOK
    <2>2. pair'.base = a /\ pair'.cur = c
      BY <1>3, <2>1
    <2>3. /\ SystemRead(a) /\ a.product <= c.product
          /\ c.total - a.total <= Allowance(a, c.spent)
      BY <1>1, <1>2, <2>1 DEF SystemInv
    <2> QED
      BY <1>6, <2>2, <2>3 DEF SystemRead, uint64, jiffy, FieldsPrecision, Allowance
  <1> QED
    BY <1>1, <1>9, <1>10 DEF SystemInv

\* The readings of /proc/stat, in every reachable state, for all constants.
LEMMA SystemInvCorrect == Spec => []SystemInv
  <1>1. Init => SystemInv
    BY DEF Init, SystemInv
  <1>2. ASSUME UsageInv, SystemInv, [Next]_vars PROVE SystemInv'
    <2>1. ASSUME Stat PROVE SystemInv'
      <3>1. /\ UNCHANGED <<now, host, fields, user, kernel, busy, base, pair>>
            /\ reading'.total = Used
        BY <2>1 DEF Stat, environment, Used
      <3>2. ClockTicks' = ClockTicks /\ Total(fields)' = Total(fields) /\ Used' = Used
        BY <3>1 DEF ClockTicks, Used
      <3> QED
        BY <1>2, <3>1, <3>2
           DEF SystemInv, SystemRead, uint64, jiffy, FieldsPrecision, Allowance
    <2>2. ASSUME Stamp PROVE SystemInv'
      <3>1. /\ UNCHANGED <<now, host, fields, user, kernel, busy, base, pair>>
            /\ reading # None /\ reading'.total = reading.total
        BY <1>2, <2>2 DEF Stamp, environment, UsageInv, TypeOK, Reading
      <3>2. ClockTicks' = ClockTicks /\ Total(fields)' = Total(fields) /\ Used' = Used
        BY <3>1 DEF ClockTicks, Used
      <3> QED
        BY <1>2, <3>1, <3>2
           DEF SystemInv, SystemRead, uint64, jiffy, FieldsPrecision, Allowance
    <2>3. ASSUME UNCHANGED vars PROVE SystemInv'
      <3>1. UNCHANGED <<now, host, fields, user, kernel, busy, reading, base, pair>>
        BY <2>3 DEF vars, environment
      <3>2. ClockTicks' = ClockTicks /\ Total(fields)' = Total(fields) /\ Used' = Used
        BY <3>1 DEF ClockTicks, Used
      <3> QED
        BY <1>2, <3>1, <3>2
           DEF SystemInv, SystemRead, uint64, jiffy, FieldsPrecision, Allowance
    <2> QED
      BY <1>2, <2>1, <2>2, <2>3, TickKeepsSystem, SampleKeepsSystem
         DEF Next, StatWithoutCPU
  <1> QED
    BY <1>1, <1>2, UsageInvCorrect, PTL DEF Spec

\* Two products that passed the modulus equally often differ as their remainders
\* do, and so do the numbers of nanoseconds (system_cpu_reader.go:81).
LEMMA SameTurnDelta ==
    ASSUME NEW a \in Nat, NEW b \in Nat, a <= b,
           (a * Second) \div Modulus = (b * Second) \div Modulus
    PROVE  Delta(uint64(a * Second) \div Hz, uint64(b * Second) \div Hz) = jiffy * b - jiffy * a
  <1> DEFINE p == a * Second
             q == b * Second
             r == uint64(p)
             s == uint64(q)
             d == jiffy * b - jiffy * a
  <1>1. /\ Second \in Nat /\ Hz \in Nat \ {0} /\ Modulus \in Nat \ {0}
        /\ jiffy \in Nat \ {0} /\ Second = Hz * jiffy
    BY ConstantsAssumption, Jiffy
  <1>2. p \in Nat /\ q \in Nat
    BY <1>1
  <1>3. d \in Nat
    <2> DEFINE x == b - a
    <2>1. x \in Nat /\ d = jiffy * x
      BY <1>1
    <2> HIDE DEF x, d
    <2> QED
      BY <1>1, <2>1
  <1>4. q - p = Hz * d
    <2>1. p = Hz * (jiffy * a) /\ q = Hz * (jiffy * b)
      BY <1>1
    <2> DEFINE x == jiffy * a
               y == jiffy * b
    <2>2. x \in Nat /\ y \in Nat /\ p = Hz * x /\ q = Hz * y /\ d = y - x
      BY <1>1, <2>1
    <2> HIDE DEF x, y, p, q, d
    <2> QED
      BY <1>1, <2>2
  <1>5. p \div Modulus = q \div Modulus
    OBVIOUS
  <1> HIDE DEF p, q, d
  <1>6. r \in 0..Modulus - 1 /\ s \in 0..Modulus - 1 /\ s - r = Hz * d
    <2>1. /\ p = Modulus * (p \div Modulus) + (p % Modulus)
          /\ q = Modulus * (q \div Modulus) + (q % Modulus)
          /\ p % Modulus \in 0..Modulus - 1 /\ q % Modulus \in 0..Modulus - 1
          /\ p \div Modulus \in Nat
      BY <1>1, <1>2
    <2>2. Modulus * (p \div Modulus) = Modulus * (q \div Modulus)
      BY <1>5
    <2> DEFINE m == Modulus * (p \div Modulus)
    <2>3. m \in Nat /\ p = m + r /\ q = m + s
      BY <1>1, <2>1, <2>2 DEF uint64
    <2>4. r \in 0..Modulus - 1 /\ s \in 0..Modulus - 1
      BY <2>1 DEF uint64
    <2> HIDE DEF m, r, s
    <2> QED
      BY <1>1, <1>4, <2>3, <2>4
  <1> HIDE DEF r, s
  <1> DEFINE x == r \div Hz
             y == s \div Hz
  <1>7. y = x + d
    <2>1. /\ r = Hz * x + (r % Hz) /\ s = Hz * y + (s % Hz)
          /\ r % Hz \in 0..Hz - 1 /\ s % Hz \in 0..Hz - 1
          /\ x \in Nat /\ y \in Nat
      BY <1>1, <1>6
    <2> DEFINE e == y - x - d
               v == r % Hz
               w == s % Hz
    <2>2. Hz * e = Hz * y - Hz * x - Hz * d
      BY <1>1, <1>3, <2>1
    <2>3. Hz * y \in Nat /\ Hz * x \in Nat /\ Hz * d \in Nat /\ e \in Int
      BY <1>1, <1>3, <2>1
    <2> HIDE DEF e, v, w, x, y
    <2>4. Hz * e = v - w /\ v \in 0..Hz - 1 /\ w \in 0..Hz - 1
      BY <1>6, <2>1, <2>2, <2>3 DEF v, w
    <2>5. ASSUME e >= 1 PROVE FALSE
      <3>1. Hz * e >= Hz * 1
        BY <1>1, <2>3, <2>5
      <3> QED
        BY <1>1, <2>4, <3>1
    <2>6. ASSUME e <= -1 PROVE FALSE
      <3>1. Hz * e <= Hz * (-1)
        BY <1>1, <2>3, <2>6
      <3> QED
        BY <1>1, <2>4, <3>1
    <2> QED
      BY <1>3, <2>1, <2>3, <2>5, <2>6 DEF e
  <1>8. x \in Nat /\ y \in Nat /\ y < Modulus
    <2>1. r \in Nat /\ s \in Nat /\ s < Modulus
      BY <1>1, <1>6
    <2>2. x \in Nat /\ y \in Nat /\ y * Hz <= s
      BY <1>1, <2>1, DivBounds
    <2> HIDE DEF x, y
    <2>3. y <= y * Hz
      BY <1>1, <2>2
    <2>4. y * Hz \in Nat
      BY <1>1, <2>2
    <2> QED
      BY <1>1, <2>1, <2>2, <2>3, <2>4
  <1> HIDE DEF x, y
  <1>9. Delta(x, y) = y - x
    BY <1>3, <1>7, <1>8, DeltaOfCounts
  <1>10. Delta(x, y) = d
    BY <1>3, <1>7, <1>8, <1>9
  <1> QED
    BY <1>10 DEF x, y, r, s, p, q, d

\* The difference of two readings of /proc/stat is the CPU time that passed, up to
\* what the fields lose.
LEMMA SystemDelta ==
    ASSUME TypeOK, SystemInv, pair # None, SameTurn(pair)
    PROVE  IsChange(pair) /\ systemDelta(pair) \in Int
  <1> DEFINE b == pair.base
             c == pair.cur
  <1>1. /\ b \in Reading /\ c \in Reading
        /\ SystemRead(b) /\ SystemRead(c) /\ b.product <= c.product
        /\ b.product \div Modulus = c.product \div Modulus
        /\ systemDelta(pair) = Delta(b.sys, c.sys)
    BY DEF TypeOK, SystemInv, SameTurn, systemDelta
  <1> HIDE DEF b, c
  <1>2. PICK t \in Nat : /\ b.product = t * Second
                         /\ jiffy * t <= b.spent /\ b.spent <= jiffy * t + FieldsPrecision
    BY <1>1 DEF SystemRead
  <1>3. PICK u \in Nat : /\ c.product = u * Second
                         /\ jiffy * u <= c.spent /\ c.spent <= jiffy * u + FieldsPrecision
    BY <1>1 DEF SystemRead
  <1>4. t <= u
    <2>1. Second \in Nat \ {0} /\ t * Second <= u * Second
      BY <1>1, <1>2, <1>3, ConstantsAssumption
    <2>2. ASSUME u < t PROVE FALSE
      <3>1. u * Second < t * Second
        BY <2>1, <2>2
      <3>2. u * Second \in Nat /\ t * Second \in Nat
        BY <2>1
      <3> QED
        BY <2>1, <3>1, <3>2
    <2> QED
      BY <2>2
  <1>5. systemDelta(pair) = jiffy * u - jiffy * t
    BY <1>1, <1>2, <1>3, <1>4, SameTurnDelta DEF SystemRead
  <1>6. /\ jiffy * u \in Nat /\ jiffy * t \in Nat /\ FieldsPrecision \in Nat
        /\ b.spent \in Nat /\ c.spent \in Nat
    BY <1>1, Jiffy, TicksBounds DEF Reading
  <1>7. /\ (c.spent - b.spent) - FieldsPrecision <= systemDelta(pair)
        /\ systemDelta(pair) <= (c.spent - b.spent) + FieldsPrecision
    BY <1>2, <1>3, <1>5, <1>6
  <1> QED
    BY <1>5, <1>6, <1>7 DEF IsChange, b, c

\* The difference of the host's CPU time is what passed between the two reads,
\* without what was stolen and up to the cut of each field, whatever the uptime,
\* unless the product overflows in between (metrics_all.go:165,
\* system_cpu_reader.go:74-81).
THEOREM SystemDeltaCorrect == Spec => []SystemDeltaBounded
  <1>1. ASSUME TypeOK, SystemInv PROVE SystemDeltaBounded
    BY <1>1, SystemDelta DEF SystemDeltaBounded
  <1> QED
    BY <1>1, TypeCorrect, SystemInvCorrect, PTL

\* CPUPercent, which the code does not limit, stays within the CPUs counted, up
\* to what /proc/stat loses and what the container used between the reads of the
\* earlier fetch: its CPU time is part of its host's (metrics_all.go:160-174).
THEOREM CPUPercentCorrect == Spec => []CPUPercentBounded
  <1>1. ASSUME UsageInv, SystemInv PROVE CPUPercentBounded
    <2> DEFINE b == pair.base
               c == pair.cur
               n == OnlineCPUsWithFallback(c)
               u == cpuDelta(pair)
               s == systemDelta(pair)
               slack == Cardinality(Cpuset) * (b.sysAt - b.readAt) + FieldsPrecision
    <2> SUFFICES ASSUME pair # None, SameTurn(pair), s > 0
                 PROVE  Leq(CPUPercent(pair), Frac(100 * n * (s + slack), s))
      BY DEF CPUPercentBounded
    <2>1. /\ b \in Reading /\ c \in Reading /\ Ended(b) /\ c.percpu \subseteq Cpuset
          /\ u \in Nat /\ u = c.total - b.total
      BY <1>1, Window DEF UsageInv, Counted
    <2>2. s \in Int /\ (c.spent - b.spent) - FieldsPrecision <= s
      <3>1. TypeOK
        BY <1>1 DEF UsageInv
      <3> QED
        BY <1>1, <3>1, SystemDelta DEF IsChange
    <2>3. u <= Allowance(b, c.spent)
      BY <1>1, <2>1 DEF SystemInv
    <2>4. CPUPercent(pair) = IF s > 0 /\ u > 0 THEN Frac(u * n * 100, s) ELSE Frac(0, 1)
      BY DEF CPUPercent
    <2>5. n \in Nat
      BY <2>1, CpusetCount DEF OnlineCPUsWithFallback, Reading
    <2>6. s \in Nat \ {0}
      BY <2>2
    <2> HIDE DEF b, c, n, u, s
    <2>7. slack \in Nat /\ u <= s + slack
      <3> DEFINE d == b.sysAt - b.readAt
                 w == Cardinality(Cpuset) * d
      <3>1. d \in Nat
        BY <2>1 DEF Ended, Reading
      <3>2. w \in Nat
        BY <3>1, CpusetCount
      <3>3. FieldsPrecision \in Nat
        BY <1>1, TicksBounds DEF UsageInv
      <3>4. slack = w + FieldsPrecision /\ Allowance(b, c.spent) = (c.spent - b.spent) + w
        BY DEF Allowance
      <3>5. c.spent \in Nat /\ b.spent \in Nat
        BY <2>1 DEF Reading
      <3> HIDE DEF w, slack
      <3> QED
        BY <2>1, <2>2, <2>3, <3>2, <3>3, <3>4, <3>5
    <2> DEFINE m == s + slack
    <2>8. m \in Nat /\ u <= m
      BY <2>6, <2>7
    <2> HIDE DEF m, slack
    <2>9. CASE u > 0
      <3>1. u * n <= m * n /\ u * n \in Nat /\ m * n \in Nat
        BY <2>1, <2>5, <2>8
      <3> DEFINE x == u * n
                 y == m * n
      <3>2. u * n * 100 = x * 100 /\ 100 * n * m = y * 100
        BY <2>1, <2>5, <2>8
      <3>3. x \in Nat /\ y \in Nat /\ x <= y
        BY <3>1
      <3> HIDE DEF x, y
      <3>4. (x * 100) * s <= (y * 100) * s
        <4> DEFINE v == x * 100
                   w == y * 100
        <4>1. v \in Nat /\ w \in Nat /\ v <= w
          BY <3>3
        <4> HIDE DEF v, w
        <4>2. v * s <= w * s
          BY <2>6, <4>1
        <4> QED
          BY <4>2 DEF v, w
      <3>5. (u * n * 100) * s <= (100 * n * m) * s
        BY <3>2, <3>4
      <3> QED
        BY <2>4, <2>6, <2>9, <3>5 DEF Leq, Frac, m
    <2>10. CASE u = 0
      <3> DEFINE x == 100 * n * m
      <3>1. x \in Nat
        BY <2>5, <2>8
      <3> HIDE DEF x
      <3>2. 0 * s <= x * 1
        BY <2>6, <3>1
      <3> QED
        BY <2>4, <2>10, <3>2 DEF Leq, Frac, m, x
    <2> QED
      BY <2>1, <2>9, <2>10
  <1> QED
    BY <1>1, UsageInvCorrect, SystemInvCorrect, PTL
=============================================================================
