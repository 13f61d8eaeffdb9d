-------------------------- MODULE MemorySampleProofs --------------------------
(* Theorems of MemorySample, for every limit, swap space and modulus that   *)
(* ConstantsAssumption allows.                                             *)
EXTENDS MemorySample, TLAPS

(***************************************************************************)
(* Arithmetic.                                                             *)
(***************************************************************************)

\* Below the modulus a uint64 is the number.
LEMMA Uint64Small ==
    ASSUME NEW n \in Nat, n < Modulus
    PROVE  uint64(n) = n
BY ConstantsAssumption DEF uint64

\* Whatever is subtracted, a uint64 is no negative number.
LEMMA Uint64Nat ==
    ASSUME NEW n \in Int
    PROVE  uint64(n) \in Nat
<1>1. Modulus \in Nat /\ Modulus > 0
  BY ConstantsAssumption
<1>2. QED
  BY <1>1 DEF uint64

\* -1 is the largest uint64.
LEMMA Uint64MinusOne == uint64(-1) = Modulus - 1
BY ConstantsAssumption DEF uint64

\* The numbers that stand for no limit are huge, and real limits are not.
LEMMA HugeNumbers ==
    /\ Modulus \in Nat /\ Huge \in Nat /\ MemLimit + HostSwap <= Huge
    /\ Modulus \div 2 - 1 \in Nat /\ Modulus \div 2 - 1 > Huge
    /\ Modulus - 1 > Huge
    /\ Modulus - 1 - MemLimit > Huge
BY ConstantsAssumption DEF Huge

\* What each source reports as the swap limit and as the swap in use.
LEMMA SwapLimits ==
    ASSUME TypeOK
    PROVE  /\ Swap.limit \in Nat
           /\ swapMax = None => NoHuge(Swap.limit) = 0
           /\ NoHuge(Swap.limit) \in Nat
           /\ host.version = 1 /\ NoHuge(Swap.limit) # 0 =>
                  accounting /\ Swap.limit = MemLimit + swapMax /\ swapMax # None
<1>1. MemLimit \in Nat /\ HostSwap \in Nat /\ Modulus \in Nat /\ MemLimit < Modulus /\ None \notin Nat
  BY ConstantsAssumption
<1>2. swapMax # None => swapMax \in Nat /\ swapMax <= HostSwap
  BY <1>1 DEF TypeOK
<1>3. SwapV1.limit \in Nat /\ (swapMax = None => NoHuge(SwapV1.limit) = 0)
  BY <1>1, <1>2, HugeNumbers DEF SwapV1, NoHuge
<1>4. NoHuge(SwapV1.limit) # 0 => accounting /\ SwapV1.limit = MemLimit + swapMax /\ swapMax # None
  BY <1>1, <1>2, <1>3, HugeNumbers DEF SwapV1, NoHuge
<1>5. SwapV2.limit \in Nat /\ (swapMax = None => NoHuge(SwapV2.limit) = 0)
  BY <1>1, <1>2, HugeNumbers DEF SwapV2, NoHuge
<1>6. SwapAPI.limit \in Nat /\ (swapMax = None => NoHuge(SwapAPI.limit) = 0)
  <2>1. CASE swapMax = None
    <3>1. uint64(MemLimit) = MemLimit
      BY <1>1, Uint64Small
    <3>2. uint64(Modulus - 1 - MemLimit) = Modulus - 1 - MemLimit
      BY <1>1, HugeNumbers, Uint64Small
    <3>3. SwapAPI.limit = Modulus - 1 - MemLimit
      BY <2>1, <3>1, <3>2, Uint64MinusOne DEF SwapAPI
    <3>4. QED
      BY <1>1, <3>3, HugeNumbers DEF NoHuge
  <2>2. CASE swapMax # None
    <3>1. uint64(MemLimit + swapMax) \in Nat /\ uint64(MemLimit) \in Nat
      BY <1>1, <1>2, <2>2, Uint64Nat
    <3>2. uint64(uint64(MemLimit + swapMax) - uint64(MemLimit)) \in Nat
      BY <3>1, Uint64Nat
    <3>3. SwapAPI.limit \in Nat
      BY <2>2, <3>2 DEF SwapAPI
    <3>4. QED
      BY <2>2, <3>3
  <2>3. QED
    BY <2>1, <2>2
<1>7. source \in {"v1", "v2", "api"}
  BY DEF source, NewCgroupFetcher
<1>8. host.version = 1 => source = "v1"
  BY DEF source, UseDockerAPI, NewCgroupFetcher
<1>9. /\ source = "v1" => Swap = SwapV1
      /\ source = "v2" => Swap = SwapV2
      /\ source = "api" => Swap = SwapAPI
  BY DEF Swap
<1>10. \A n \in Nat : NoHuge(n) \in Nat
  BY DEF NoHuge
<1>11. QED
  BY <1>3, <1>4, <1>5, <1>6, <1>7, <1>8, <1>9, <1>10

\* The swap read is within memory and swap there is, and on v1 is what is in use
\* of both (cgroupv1.go:205).
LEMMA SwapUsage ==
    ASSUME TypeOK
    PROVE  /\ Swap.usage # None => Swap.usage \in Nat /\ Swap.usage <= MemLimit + HostSwap
           /\ host.version = 1 => Swap.usage = IF accounting THEN anon + file + swap ELSE 0
<1>1. SwapV1.usage = IF accounting THEN anon + file + swap ELSE 0
  BY DEF SwapV1
<1>2. SwapV2.usage = IF accounting THEN swap ELSE 0
  BY DEF SwapV2
<1>3. SwapAPI.usage = None
  BY DEF SwapAPI
<1>4. source \in {"v1", "v2", "api"} /\ (host.version = 1 => source = "v1")
  BY DEF source, UseDockerAPI, NewCgroupFetcher
<1>5. /\ source = "v1" => Swap = SwapV1
      /\ source = "v2" => Swap = SwapV2
      /\ source = "api" => Swap = SwapAPI
  BY DEF Swap
<1>6. QED
  BY <1>1, <1>2, <1>3, <1>4, <1>5, ConstantsAssumption DEF TypeOK

\* The subtraction under its guard.
LEMMA SwapOnlyBounded ==
    ASSUME NEW m \in RawMemory,
           m.swapUsage = None \/ m.swapUsage <= MemLimit + HostSwap
    PROVE  /\ SwapOnly(m) # None =>
                 SwapOnly(m) \in Nat /\ SwapOnly(m) <= MemLimit + HostSwap
           /\ SwapOnly(m) # None /\ m.swapUsage # 0 => SwapOnly(m) = m.swapUsage - m.fuzz
           /\ m.swapUsage = 0 => SwapOnly(m) = 0
<1>1. m.fuzz \in Nat /\ (m.swapUsage # None => m.swapUsage \in Nat)
  BY DEF RawMemory
<1>2. MemLimit + HostSwap < Modulus /\ MemLimit \in Nat /\ HostSwap \in Nat /\ None \notin Nat /\ Modulus \in Nat
  BY ConstantsAssumption
<1>3. CASE m.swapUsage = None \/ (m.swapUsage # 0 /\ m.fuzz > m.swapUsage)
  BY <1>1, <1>2, <1>3 DEF SwapOnly
<1>4. CASE m.swapUsage = 0
  BY <1>1, <1>2, <1>4 DEF SwapOnly
<1>5. CASE m.swapUsage # None /\ m.swapUsage # 0 /\ ~(m.fuzz > m.swapUsage)
  <2>1. m.swapUsage - m.fuzz \in Nat /\ m.swapUsage - m.fuzz < Modulus
    BY <1>1, <1>2, <1>5
  <2>2. uint64(m.swapUsage - m.fuzz) = m.swapUsage - m.fuzz
    BY <2>1, Uint64Small
  <2>3. SwapOnly(m) = m.swapUsage - m.fuzz
    BY <1>5, <2>2 DEF SwapOnly
  <2>4. QED
    BY <1>1, <1>2, <1>5, <2>1, <2>3
<1>6. QED
  BY <1>3, <1>4, <1>5

(***************************************************************************)
(* The invariant.                                                          *)
(***************************************************************************)

\* What ReadSwap makes of what was read.
LEMMA ReadSwapMetrics ==
    ASSUME TypeOK, ReadSwap
    PROVE  /\ pc = "usage" /\ pc' = "idle" /\ mem' = None /\ metrics' \in Memory
           /\ UNCHANGED <<host, accounting, swapMax, anon, file, swap, quiet>>
           /\ \E m \in RawMemory :
                 /\ m = [mem EXCEPT !.swapUsage = Swap.usage, !.swapLimit = Swap.limit]
                 /\ metrics' = Metrics(m)
<1> DEFINE m == [mem EXCEPT !.swapUsage = Swap.usage, !.swapLimit = Swap.limit]
<1>1. mem \in RawMemory /\ pc = "usage"
  BY DEF TypeOK, ReadSwap
<1>2. Swap.limit \in Nat /\ Swap.usage \in Nat \cup {None}
  BY SwapLimits, SwapUsage
<1>3. m \in RawMemory
  BY <1>1, <1>2 DEF RawMemory
<1>4. m.swapUsage = Swap.usage /\ m.rss = mem.rss /\ m.cache = mem.cache /\ m.limit = mem.limit
      /\ m.swapLimit = Swap.limit
  BY <1>1 DEF RawMemory
<1>5. SwapOnly(m) \in Nat \cup {None}
  BY <1>3, <1>4, SwapUsage, SwapOnlyBounded
<1>6. \A n \in Nat : NoHuge(n) \in Nat
  BY DEF NoHuge
<1>7. \A n \in Nat : uint64(mem.rss + n) \in Nat
  BY <1>1, Uint64Nat DEF RawMemory
<1>8. Metrics(m) \in Memory
  BY <1>3, <1>4, <1>5, <1>6, <1>7 DEF Metrics, Memory, RawMemory
<1> HIDE DEF m
<1>9. metrics' = Metrics(m) /\ pc' = "idle" /\ mem' = None
      /\ UNCHANGED <<host, accounting, swapMax, anon, file, swap, quiet>>
  BY DEF ReadSwap, m, config, pages
<1>10. QED
  BY <1>1, <1>3, <1>8, <1>9 DEF m

\* The container moves within its limits, and the fetch with it.
LEMMA ContainerMoves ==
    ASSUME TypeOK, Container
    PROVE  /\ anon' \in Nat /\ file' \in Nat /\ anon' + file' <= MemLimit
           /\ swap' \in 0..HostSwap
           /\ accounting /\ swapMax # None => swap' <= swapMax
           /\ quiet' = FALSE
           /\ UNCHANGED <<host, accounting, swapMax, pc, mem, metrics>>
<1> USE DEF Step, Fits, TypeOK, config
<1>1. CASE Allocate
  BY <1>1 DEF Allocate
<1>2. CASE Free
  BY <1>2 DEF Free
<1>3. CASE Cache
  BY <1>3 DEF Cache
<1>4. CASE Drop
  BY <1>4 DEF Drop
<1>5. CASE SwapOut
  BY <1>5 DEF SwapOut
<1>6. CASE SwapIn
  BY <1>6 DEF SwapIn
<1>7. QED
  BY <1>1, <1>2, <1>3, <1>4, <1>5, <1>6 DEF Container

\* Every value read and reported is a number, or None where there is none.
THEOREM TypeCorrect == Spec => []TypeOK
<1>1. Init => TypeOK
  <2> SUFFICES ASSUME Init PROVE TypeOK
    OBVIOUS
  <2>1. accounting \in BOOLEAN /\ quiet \in BOOLEAN
    BY DEF Init
  <2>2. QED
    BY <2>1, ConstantsAssumption DEF Init, TypeOK
<1>2. TypeOK /\ [Next]_vars => TypeOK'
  <2> SUFFICES ASSUME TypeOK, [Next]_vars PROVE TypeOK'
    OBVIOUS
  <2>1. CASE Container
    <3>1. quiet' \in BOOLEAN
      BY <2>1, ContainerMoves
    <3>2. QED
      BY <2>1, <3>1, ContainerMoves DEF TypeOK
  <2>2. CASE ReadStat
    <3>1. quiet' \in BOOLEAN /\ mem' \in RawMemory /\ mem' # None
      <4>1. mem' \in RawMemory
        BY <2>2 DEF ReadStat, RawMemory, TypeOK
      <4>2. mem' # None
        BY <4>1, NoneNotMemory
      <4>3. QED
        BY <2>2, <4>1, <4>2 DEF ReadStat
    <3>2. QED
      BY <2>2, <3>1 DEF ReadStat, TypeOK, config, pages
  <2>3. CASE ReadUsage
    <3>1. mem' \in RawMemory
      <4>1. mem \in RawMemory /\ anon + file \in Nat /\ MemLimit \in Nat
        BY <2>3, ConstantsAssumption DEF ReadUsage, TypeOK
      <4>2. QED
        BY <2>3, <4>1 DEF ReadUsage, RawMemory
    <3>2. QED
      BY <2>3, <3>1, NoneNotMemory DEF ReadUsage, TypeOK, config, pages
  <2>4. CASE ReadSwap
    BY <2>4, ReadSwapMetrics DEF TypeOK
  <2>5. CASE UNCHANGED vars
    BY <2>5 DEF vars, config, pages, TypeOK
  <2>6. QED
    BY <2>1, <2>2, <2>3, <2>4, <2>5 DEF Next, Fetch
<1>3. QED
  BY <1>1, <1>2, PTL DEF Spec

(***************************************************************************)
(* The properties.                                                         *)
(***************************************************************************)

\* What was read is what the container had, within its limits; so is what is
\* computed of it.
THEOREM MemInvCorrect == Spec => []MemInv
<1>1. Init => MemInv
  BY NoneNotMemory DEF Init, MemInv, SwapNeverWraps, UnlimitedIsZero, UsageIsAnonymous, Measured,
     SwapOnlyIsSwapV1, SwapOnlyIsSwap, SwapWithinLimitV1
<1>2. TypeOK /\ MemInv /\ [Next]_vars => MemInv'
  <2> SUFFICES ASSUME TypeOK, MemInv, [Next]_vars PROVE MemInv'
    OBVIOUS
  <2> USE DEF MemInv, Measured, SwapOnlyIsSwap, SwapNeverWraps, UnlimitedIsZero,
              UsageIsAnonymous, SwapOnlyIsSwapV1, SwapWithinLimitV1
  <2>1. CASE Container
    BY <2>1, ContainerMoves
  <2>2. CASE ReadStat
    <3>1. UNCHANGED <<host, accounting, swapMax, anon, file, swap, metrics>> /\ pc' = "stat"
      BY <2>2 DEF ReadStat, config, pages
    <3>2. source = "api" => host.version = 2
      BY DEF source, UseDockerAPI, NewCgroupFetcher
    <3>3. mem'.rss = anon /\ mem'.cache = file /\ mem'.fuzz = 0
      BY <2>2, <3>2 DEF ReadStat
    <3>4. anon <= MemLimit /\ 0 <= MemLimit
      BY ConstantsAssumption DEF TypeOK
    <3>5. QED
      BY <3>1, <3>3, <3>4
  <2>3. CASE ReadUsage
    <3>1. UNCHANGED <<host, accounting, swapMax, anon, file, swap, metrics, quiet>> /\ pc = "stat" /\ pc' = "usage"
      BY <2>3 DEF ReadUsage, config, pages
    <3>2. mem \in RawMemory
      BY <3>1 DEF TypeOK
    <3>3. mem'.rss = mem.rss /\ mem'.cache = mem.cache /\ mem'.fuzz = anon + file
      BY <2>3, <3>2 DEF ReadUsage, RawMemory
    <3>4. anon + file <= MemLimit /\ mem # None
      BY <3>1 DEF TypeOK
    <3>5. QED
      BY <3>1, <3>3, <3>4
  <2>4. CASE ReadSwap
    <3>1. /\ pc = "usage" /\ pc' = "idle" /\ mem' = None /\ metrics' \in Memory
          /\ UNCHANGED <<host, accounting, swapMax, anon, file, swap, quiet>>
      BY <2>4, ReadSwapMetrics
    <3>2. PICK m \in RawMemory :
             /\ m = [mem EXCEPT !.swapUsage = Swap.usage, !.swapLimit = Swap.limit]
             /\ metrics' = Metrics(m)
      BY <2>4, ReadSwapMetrics
    <3>3. mem \in RawMemory /\ mem # None
      BY <3>1 DEF TypeOK
    <3>4. /\ m.swapUsage = Swap.usage /\ m.swapLimit = Swap.limit
          /\ m.rss = mem.rss /\ m.cache = mem.cache /\ m.fuzz = mem.fuzz
      BY <3>2, <3>3 DEF RawMemory
    <3>5. /\ metrics'.usage = mem.rss /\ metrics'.cache = mem.cache
          /\ metrics'.swapLimit = NoHuge(Swap.limit)
          /\ metrics'.swapOnly = SwapOnly(m)
          /\ metrics'.swapUsage = IF SwapOnly(m) = None THEN None ELSE uint64(mem.rss + SwapOnly(m))
      BY <3>2, <3>4 DEF Metrics
    <3>6. m.swapUsage = None \/ m.swapUsage <= MemLimit + HostSwap
      BY <3>4, SwapUsage
    <3>7. SwapNeverWraps' /\ UnlimitedIsZero' /\ UsageIsAnonymous'
      BY <3>1, <3>3, <3>5, <3>6, SwapOnlyBounded, SwapLimits
    <3>8. ASSUME host.version = 1, accounting, quiet, SwapOnly(m) # None
          PROVE  SwapOnly(m) = swap
      <4>1. m.swapUsage = anon + file + swap /\ m.fuzz = anon + file
        BY <3>1, <3>4, <3>8, SwapUsage
      <4>2. anon \in Nat /\ file \in Nat /\ swap \in Nat
        BY DEF TypeOK
      <4>3. QED
        BY <3>6, <3>8, <4>1, <4>2, SwapOnlyBounded
    <3>9. SwapOnlyIsSwapV1'
      BY <3>1, <3>5, <3>8
    <3>10. ASSUME host.version = 1, quiet, NoHuge(Swap.limit) # 0, SwapOnly(m) # None
           PROVE  uint64(mem.rss + SwapOnly(m)) <= NoHuge(Swap.limit)
      <4>1. accounting /\ Swap.limit = MemLimit + swapMax /\ swapMax # None
        BY <3>10, SwapLimits
      <4>2. SwapOnly(m) = swap /\ mem.rss = anon /\ swap <= swapMax
        BY <3>1, <3>3, <3>8, <3>10, <4>1
      <4>3. /\ anon \in Nat /\ swap \in Nat /\ anon <= MemLimit
            /\ swapMax \in Nat /\ swapMax <= HostSwap /\ MemLimit \in Nat /\ HostSwap \in Nat
        BY <4>1, ConstantsAssumption DEF TypeOK
      <4>4. uint64(anon + swap) = anon + swap
        BY <4>2, <4>3, HugeNumbers, Uint64Small, ConstantsAssumption
      <4>5. NoHuge(Swap.limit) = MemLimit + swapMax
        BY <3>10, <4>1 DEF NoHuge
      <4>6. QED
        BY <4>2, <4>3, <4>4, <4>5
    <3>11. SwapWithinLimitV1'
      BY <3>1, <3>5, <3>10
    <3>12. QED
      BY <3>1, <3>7, <3>9, <3>11
  <2>5. CASE UNCHANGED vars
    BY <2>5 DEF vars, config, pages
  <2>6. QED
    BY <2>1, <2>2, <2>3, <2>4, <2>5 DEF Next, Fetch
<1>3. QED
  BY <1>1, <1>2, TypeCorrect, PTL DEF Spec

\* The usage and the cache reported are the container's on every host, whatever
\* UseDockerAPI asks for.
THEOREM UsageCorrect == Spec => []UsageIsAnonymous
<1>1. MemInv => UsageIsAnonymous
  BY DEF MemInv
<1>2. QED
  BY <1>1, MemInvCorrect, PTL

\* The subtraction of swap never passes zero.
THEOREM SwapNeverWrapsCorrect == Spec => []SwapNeverWraps
<1>1. MemInv => SwapNeverWraps
  BY DEF MemInv
<1>2. QED
  BY <1>1, MemInvCorrect, PTL

\* No limit is reported as none, for every modulus and limit.
THEOREM UnlimitedCorrect == Spec => []UnlimitedIsZero
<1>1. MemInv => UnlimitedIsZero
  BY DEF MemInv
<1>2. QED
  BY <1>1, MemInvCorrect, PTL

\* The swap reported on a cgroup v1 host is the swap in use.
THEOREM SwapOnlyV1Correct == Spec => []SwapOnlyIsSwapV1
<1>1. MemInv => SwapOnlyIsSwapV1
  BY DEF MemInv
<1>2. QED
  BY <1>1, MemInvCorrect, PTL

\* Memory and swap of a cgroup v1 container are within their limit.
THEOREM SwapWithinLimitV1Correct == Spec => []SwapWithinLimitV1
<1>1. MemInv => SwapWithinLimitV1
  BY DEF MemInv
<1>2. QED
  BY <1>1, MemInvCorrect, PTL
=============================================================================
