------------------------------ MODULE CpuUsage ------------------------------
(***************************************************************************)
(* The numbers behind a container's CPU metrics: what two readings of a    *)
(* container's counters, of the clock and of /proc/stat become in          *)
(* biz/metrics_all.go cpu and cpuPercent.  A fetch reads the three one     *)
(* after the other (raw/cgroupv2.go Fetch, cpu; raw/cgroupv1.go), the      *)
(* stored time is cut to the second, each field of /proc/stat to a clock   *)
(* tick, and their sum is scaled in a uint64.                              *)
(*                                                                         *)
(* The unit of time is a tick, in which the container's total is exact; a  *)
(* second has Second of them.  Percentages and cores are fractions         *)
(* [num, den] compared by cross-multiplication: the code uses float64.     *)
(***************************************************************************)
EXTENDS Integers, FiniteSets, FiniteSetsExt

CONSTANTS
    CPUs,        \* the host's CPUs
    Cpuset,      \* those the container may run on
    Fields,      \* the fields of /proc/stat that are summed, seven of the ten
    Second,      \* ticks per second
    Hz,          \* clock ticks of /proc/stat per second
    Modulus,     \* 2^64: where a uint64 starts again
    InitFields,  \* what the fields may have counted when the container starts
    Loads,       \* what the CPUs may do in one tick
    MaxDelay,    \* ticks the steps of one fetch may be apart
    MaxTime,     \* bound of the clock
    None

ASSUME ConstantsAssumption ==
    /\ IsFiniteSet(CPUs) /\ Cpuset \subseteq CPUs /\ Cpuset # {}
    /\ IsFiniteSet(Fields) /\ InitFields \subseteq [Fields -> Nat]
    /\ Second \in Nat \ {0} /\ Hz \in Nat \ {0} /\ Second % Hz = 0
    /\ Modulus \in Nat \ {0}
    /\ MaxDelay \in Nat /\ MaxTime \in Nat

Total(f) == MapThenSumSet(LAMBDA x : f[x], Fields)

\* The container runs on some CPUs in user mode, on others in kernel mode.  The
\* CPUs spend the tick in the fields, and the rest is stolen by the hypervisor.
ASSUME LoadsAssumption ==
    \A load \in Loads :
        /\ load.user \subseteq Cpuset /\ load.kernel \subseteq Cpuset
        /\ load.user \cap load.kernel = {}
        /\ load.spent \in [Fields -> Nat]
        /\ Cardinality(load.user) + Cardinality(load.kernel) <= Total(load.spent)
        /\ Total(load.spent) <= Cardinality(CPUs)

\* A container's own counters stay below 2^64: 584 years of one CPU.
ASSUME NoFullTurn == Cardinality(CPUs) * MaxTime < Modulus

VARIABLES
    now,      \* the host's clock
    host,     \* the cgroup version, and on v2 if the cpuset controller is enabled
    fields,   \* the CPU time of all CPUs in each field; what is stolen is in none
    user,     \* CPU time the container has used in user mode
    kernel,   \* and in kernel mode
    busy,     \* the CPUs it has used so far
    pc,       \* "idle", or what the fetch has done: "stat", "stamped"
    reading,  \* the reading being taken
    base,     \* the stored sample
    pair      \* the last two readings metrics were computed from: [base, cur]

environment == <<now, host, fields, user, kernel, busy>>
vars == <<environment, pc, reading, base, pair>>

uint64(n) == n % Modulus

\* A clock tick of /proc/stat.
jiffy == Second \div Hz

\* The counters of one fetch; percpu is the CPUs whose usage is not zero.  The
\* fields from readAt on are history: when each was read, the CPU time used in
\* both modes, that in all fields of /proc/stat, and what ReadUsage divides.
Reading == [user : Nat, kernel : Nat, total : Nat, percpu : SUBSET CPUs, online : Nat,
            time : Nat, sys : Nat,
            readAt : Nat, stampAt : Nat, sysAt : Nat,
            inUser : Nat, inKernel : Nat, spent : Nat, product : Nat]

ASSUME NoneAssumption == None \notin Reading /\ None \notin [base : Reading, cur : Reading]

TypeOK ==
    /\ now \in 0..MaxTime /\ host \in [version : {1, 2}, cpuset : BOOLEAN]
    /\ fields \in [Fields -> Nat]
    /\ user \in Nat /\ kernel \in Nat /\ busy \subseteq Cpuset
    /\ pc \in {"idle", "stat", "stamped"}
    /\ reading \in Reading \cup {None} /\ base \in Reading \cup {None}
    /\ pair \in [base : Reading, cur : Reading] \cup {None}
    /\ (pc = "idle") <=> (reading = None)

Init ==
    /\ now = 0
    /\ host \in [version : {1, 2}, cpuset : BOOLEAN] /\ (host.version = 1 => host.cpuset)
    /\ fields \in InitFields
    /\ user = 0 /\ kernel = 0 /\ busy = {}
    /\ pc = "idle" /\ reading = None /\ base = None /\ pair = None

-----------------------------------------------------------------------------
(* The host.                                                               *)

\* A fetch is not stopped for longer than MaxDelay between two of its reads.
Tick(load) ==
    /\ now < MaxTime
    /\ pc = "stat"    => now - reading.readAt < MaxDelay
    /\ pc = "stamped" => now - reading.stampAt < MaxDelay
    /\ now' = now + 1
    /\ fields' = [f \in Fields |-> fields[f] + load.spent[f]]
    /\ user' = user + Cardinality(load.user) /\ kernel' = kernel + Cardinality(load.kernel)
    /\ busy' = busy \cup load.user \cup load.kernel
    /\ UNCHANGED <<host, pc, reading, base, pair>>

\* Mutated form of ClockTicks: the sum begins at the second field.
ClockTicksButFirst ==
    LET first == CHOOSE f \in Fields : TRUE IN
    Total([f \in Fields |-> IF f = first THEN 0 ELSE fields[f] \div jiffy])

\* The fields of the first line, each a number of clock ticks, summed.
ClockTicks == Total([f \in Fields |-> fields[f] \div jiffy])

\* Times nanoSecondsPerSecond in a uint64, then divided by 100.
ReadUsage == uint64(ClockTicks * Second) \div Hz

-----------------------------------------------------------------------------
(* A fetch.                                                                *)

\* v1 has both modes in clock ticks.
Mode(t) == IF host.version = 1 THEN (t \div jiffy) * jiffy ELSE t

\* Before the first use of a CPU v2 has no statistics.  The fetch stores nil
\* pointers, over which the next one panics and then stores its own reading
\* (ContainerSampler, FetchPanics): as a baseline they are as good as none.
StatWithoutCPU ==
    /\ pc = "idle" /\ host.version = 2 /\ user + kernel = 0
    /\ UNCHANGED vars

\* manager.Stat: the container's counters.  v2 has none by CPU.
Stat ==
    /\ pc = "idle" /\ (host.version = 2 => user + kernel > 0)
    /\ pc' = "stat"
    /\ reading' = [user |-> Mode(user), kernel |-> Mode(kernel), total |-> user + kernel,
                   percpu |-> IF host.version = 1 THEN busy ELSE {}, online |-> 0,
                   time |-> 0, sys |-> 0, readAt |-> now, stampAt |-> 0, sysAt |-> 0,
                   inUser |-> user, inKernel |-> kernel, spent |-> 0, product |-> 0]
    /\ UNCHANGED <<environment, base, pair>>

\* stats.Time = time.Now()
Stamp ==
    /\ pc = "stat"
    /\ pc' = "stamped"
    /\ reading' = [reading EXCEPT !.time = now, !.stampAt = now]
    /\ UNCHANGED <<environment, base, pair>>

\* The CPUs in cpuset.cpus.effective; v1 has no such number, and v2 none without
\* the file.
OnlineCPUs == IF host.version = 2 /\ host.cpuset THEN Cardinality(Cpuset) ELSE 0

\* What cpu makes of /proc/stat and Fetch of the cpuset.
Complete(r) ==
    [r EXCEPT !.sys = ReadUsage, !.sysAt = now, !.online = OnlineCPUs,
              !.spent = Total(fields), !.product = ClockTicks * Second]

\* Mutated form of Truncated: the time is rounded to the nearest second.
Rounded(t) == ((t + Second \div 2) \div Second) * Second

\* metrics.Time.Unix(), and time.Unix of it.
Truncated(t) == (t \div Second) * Second

\* Mutated form of Sample: the reading is kept when the fetch is over.
SampleKeepsReading ==
    /\ pc = "stamped"
    /\ LET cur == Complete(reading) IN
       /\ base' = [cur EXCEPT !.time = Truncated(@)]
       /\ pair' = IF base # None /\ cur.time > base.time THEN [base |-> base, cur |-> cur] ELSE None
    /\ pc' = "idle"
    /\ UNCHANGED <<environment, reading>>

\* The fetch ends, and the metrics are computed if there is a baseline and a
\* positive duration.
Sample ==
    /\ pc = "stamped"
    /\ LET cur == Complete(reading) IN
       /\ base' = [cur EXCEPT !.time = Truncated(@)]
       /\ pair' = IF base # None /\ cur.time > base.time THEN [base |-> base, cur |-> cur] ELSE None
    /\ pc' = "idle" /\ reading' = None
    /\ UNCHANGED environment

Next == StatWithoutCPU \/ Stat \/ Stamp \/ Sample \/ \E load \in Loads : Tick(load)

Spec == Init /\ [][Next]_vars

-----------------------------------------------------------------------------
(* The metrics of a pair of readings.                                      *)

Frac(n, d) == [num |-> n, den |-> d]
Leq(a, b) == a.num * b.den <= b.num * a.den
MinFrac(a, b) == IF Leq(a, b) THEN a ELSE b

\* A difference of uint64s.
Delta(prev, cur) == uint64(cur - prev)

\* Mutated form of OnlineCPUsWithFallback: without the fallback.
OnlineCPUsOnly(r) == r.online

\* The CPUs of the cpuset, or those the container has used.
OnlineCPUsWithFallback(r) == IF r.online # 0 THEN r.online ELSE Cardinality(r.percpu)

durationNS(p) == p.cur.time - p.base.time
cpuDelta(p)    == Delta(p.base.total, p.cur.total)
systemDelta(p) == Delta(p.base.sys, p.cur.sys)
userDelta(p)   == Delta(p.base.user, p.cur.user)
kernelDelta(p) == Delta(p.base.kernel, p.cur.kernel)
maxVal(p)      == Frac(100 * OnlineCPUsWithFallback(p.cur), 1)

UserPercent(p)   == MinFrac(maxVal(p), Frac(100 * userDelta(p), durationNS(p)))
KernelPercent(p) == MinFrac(maxVal(p), Frac(100 * kernelDelta(p), durationNS(p)))
UsedCores(p)     == Frac(cpuDelta(p), durationNS(p))

CPUPercent(p) ==
    IF systemDelta(p) > 0 /\ cpuDelta(p) > 0
    THEN Frac(cpuDelta(p) * OnlineCPUsWithFallback(p.cur) * 100, systemDelta(p)) ELSE Frac(0, 1)

-----------------------------------------------------------------------------
(* Properties.                                                             *)

\* The duration is the time between the two fetches, or longer by less than
\* the second the stored time lost (metrics_all.go:109, 132).
DurationBounds ==
    pair # None =>
        LET elapsed == pair.cur.stampAt - pair.base.stampAt IN
        elapsed <= durationNS(pair) /\ durationNS(pair) < elapsed + Second

\* The time the earlier fetch took from its read of the counters to its read of
\* the clock: what the container used in it is in the usage and not in the
\* duration of the window (cgroupv2.go:62-67).
StampDelay(p) == p.base.stampAt - p.base.readAt

\* UsedCores has no upper limit in the code; it stays within the container's
\* CPUs up to that delay (metrics_all.go:148).
UsedCoresBounded ==
    pair # None =>
        UsedCores(pair).num <= Cardinality(Cpuset) * (UsedCores(pair).den + StampDelay(pair))

\* What a counter in clock ticks may show too much of a window.
ModePrecision == IF host.version = 1 THEN jiffy - 1 ELSE 0

\* The limit on user and kernel percentages cuts no more of them than the delay
\* and the counters' precision add: the CPUs counted are never fewer than the
\* container has used, on v1 those with a usage.  It cuts all of them on v2
\* without the cpuset controller (metrics_all.go:138-146, metrics.go:97-112).
LimitCutsNoUsage ==
    pair # None /\ (host.version = 2 => host.cpuset) =>
        LET slack == OnlineCPUsWithFallback(pair.cur) * StampDelay(pair) + ModePrecision
            Kept(delta, percent) == Leq(Frac(100 * (delta - slack), durationNS(pair)), percent)
        IN  /\ Kept(userDelta(pair), UserPercent(pair))
            /\ Kept(kernelDelta(pair), KernelPercent(pair))

\* Both readings of /proc/stat are before, or both after, a point at which the
\* product in ReadUsage passes 2^64: there is one in 2135 days of one CPU.
SameTurn(p) == p.base.product \div Modulus = p.cur.product \div Modulus

\* What the fields of /proc/stat lose, each cut to a clock tick.
FieldsPrecision == Cardinality(Fields) * (jiffy - 1)

\* The difference is the CPU time that passed, to the precision of /proc/stat.
IsChange(p) ==
    LET change == p.cur.spent - p.base.spent IN
    /\ change - FieldsPrecision <= systemDelta(p)
    /\ systemDelta(p) <= change + FieldsPrecision

\* The system's difference is the CPU time of the host that was not stolen,
\* unless ReadUsage overflows in between (metrics_all.go:165,
\* system_cpu_reader.go:74-81).
SystemDeltaBounded == pair # None /\ SameTurn(pair) => IsChange(pair)

\* CPUPercent has no upper limit in the code.  A container's CPU time is part of
\* its host's, so that it stays within the CPUs counted, up to what /proc/stat
\* loses and to what the container used in the earlier fetch between the reads
\* of its counters and of /proc/stat (metrics_all.go:160-174).
CPUPercentBounded ==
    pair # None /\ SameTurn(pair) /\ systemDelta(pair) > 0 =>
        LET delay == pair.base.sysAt - pair.base.readAt
            slack == Cardinality(Cpuset) * delay + FieldsPrecision
        IN  Leq(CPUPercent(pair),
                Frac(100 * OnlineCPUsWithFallback(pair.cur) * (systemDelta(pair) + slack),
                     systemDelta(pair)))
=============================================================================
