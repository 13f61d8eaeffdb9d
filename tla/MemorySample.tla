---------------------------- MODULE MemorySample ----------------------------
(***************************************************************************)
(* A container's memory metrics: what each fetcher takes for the memory,   *)
(* the swap and their limits (raw/cgroupv1.go, raw/cgroupv2.go and         *)
(* raw/dockerapi/fetcher.go memory), and what biz/metrics_all.go memory    *)
(* makes of it with uint64 arithmetic.  The kernel's counters are read one *)
(* after the other while the container allocates, frees and is swapped.    *)
(* Which fetcher reads them depends on the configuration and the host      *)
(* (driver/driver_linux.go, raw/cgroup.go NewCgroupFetcher).               *)
(***************************************************************************)
EXTENDS Integers

CONSTANTS
    Hosts,      \* the hosts' cgroup versions, with what UseDockerAPI asks for
    MemLimit,   \* the container's memory limit, in pages
    HostSwap,   \* swap space of the host
    Modulus,    \* 2^64: where a uint64 starts again
    None        \* no limit, no metrics, a nil pointer

ASSUME ConstantsAssumption ==
    /\ Hosts \subseteq [version : {1, 2}, useDockerAPI : BOOLEAN] /\ Hosts # {}
    /\ MemLimit \in Nat \ {0} /\ HostSwap \in Nat
    /\ Modulus \in Nat /\ MemLimit + HostSwap < Modulus \div 4
    /\ None \notin Nat

VARIABLES
    host,        \* the host's cgroup version and the configuration
    accounting,  \* whether the kernel accounts for swap
    swapMax,     \* swap the container may use, None for no limit
    anon,        \* pages of anonymous memory,
    file,        \* of page cache
    swap,        \* and of swap in use
    pc,          \* what the fetch has read: "idle" (nothing), "stat", "usage"
    mem,         \* the raw.Memory being read
    metrics,     \* the biz.Memory computed last
    quiet        \* history: nothing has changed since the fetch began

config == <<host, accounting, swapMax>>
pages  == <<anon, file, swap>>
vars   == <<config, pages, pc, mem, metrics, quiet>>

uint64(n) == n % Modulus

\* math.MaxInt64/2, above which a limit is taken for no limit
Huge == Modulus \div 4 - 1

RawMemory == [rss : Nat, cache : Nat, fuzz : Nat, limit : Nat,
              swapUsage : Nat \cup {None}, swapLimit : Nat]
Memory == [usage : Nat, cache : Nat, limit : Nat, swapLimit : Nat,
           swapUsage : Nat \cup {None}, swapOnly : Nat \cup {None}]

ASSUME NoneNotMemory == None \notin RawMemory /\ None \notin Memory

TypeOK ==
    /\ host \in Hosts /\ accounting \in BOOLEAN
    /\ swapMax \in 0..HostSwap \cup {None}
    /\ anon \in Nat /\ file \in Nat /\ anon + file <= MemLimit
    /\ swap \in 0..HostSwap
    /\ pc \in {"idle", "stat", "usage"}
    /\ mem \in RawMemory \cup {None} /\ metrics \in Memory \cup {None}
    /\ quiet \in BOOLEAN
    /\ (pc = "idle") <=> (mem = None)

Init ==
    /\ host \in Hosts /\ accounting \in BOOLEAN
    /\ swapMax \in 0..HostSwap \cup {None}
    /\ ~accounting => swapMax = None
    /\ anon = 0 /\ file = 0 /\ swap = 0
    /\ pc = "idle" /\ mem = None /\ metrics = None /\ quiet = TRUE

-----------------------------------------------------------------------------
(* The container and the kernel.  A limit on swap binds only if the kernel *)
(* accounts for it.                                                        *)

Fits(a, f, s) ==
    /\ a >= 0 /\ f >= 0 /\ a + f <= MemLimit
    /\ s \in 0..HostSwap
    /\ accounting /\ swapMax # None => s <= swapMax

\* One page is allocated or freed, cached or dropped, swapped out or in.
Step(da, df, ds) ==
    /\ Fits(anon + da, file + df, swap + ds)
    /\ anon' = anon + da /\ file' = file + df /\ swap' = swap + ds
    /\ quiet' = FALSE
    /\ UNCHANGED <<config, pc, mem, metrics>>

Allocate == Step(1, 0, 0)
Free     == Step(-1, 0, 0)
Cache    == Step(0, 1, 0)
Drop     == Step(0, -1, 0)
SwapOut  == Step(-1, 0, 1)
SwapIn   == Step(1, 0, -1)

-----------------------------------------------------------------------------
(* The choice of the fetcher.                                              *)

\* Mutated form of UseDockerAPI: the API whenever it is asked for.
WheneverRequested(requested, version) == requested

\* The API is not used on cgroup v1, whatever is asked for.
UseDockerAPI(requested, version) == requested /\ version = 2

NewCgroupFetcher(version) == IF version = 2 THEN "v2" ELSE "v1"

source == IF UseDockerAPI(host.useDockerAPI, host.version) THEN "api"
          ELSE NewCgroupFetcher(host.version)

-----------------------------------------------------------------------------
(* The fetch.                                                              *)

\* memory.stat.  The API passes its lines on, of which the fetcher looks for
\* those named as in v2.
ReadStat ==
    /\ pc = "idle"
    /\ pc' = "stat" /\ quiet' = TRUE
    /\ LET found == source = "api" => host.version = 2 IN
       mem' = [rss |-> IF found THEN anon ELSE 0, cache |-> IF found THEN file ELSE 0,
               fuzz |-> 0, limit |-> 0, swapUsage |-> None, swapLimit |-> 0]
    /\ UNCHANGED <<config, pages, metrics>>

\* memory.usage_in_bytes or memory.current, and the limit.  v2 and the API
\* leave both at zero when nothing is used.
ReadUsage ==
    /\ pc = "stat"
    /\ pc' = "usage"
    /\ mem' = [mem EXCEPT !.fuzz = anon + file,
                          !.limit = IF source # "v1" /\ anon + file = 0 THEN 0 ELSE MemLimit]
    /\ UNCHANGED <<config, pages, metrics, quiet>>

\* memory.memsw counts memory and swap, and its limit both, the largest int64
\* without a limit.  The files are missing if there is no accounting.
SwapV1 ==
    IF ~accounting THEN [usage |-> 0, limit |-> 0]
    ELSE [usage |-> anon + file + swap,
          limit |-> IF swapMax = None THEN Modulus \div 2 - 1 ELSE MemLimit + swapMax]

\* memory.swap counts only swap; "max" is the largest uint64.
SwapV2 ==
    IF ~accounting THEN [usage |-> 0, limit |-> 0]
    ELSE [usage |-> swap, limit |-> IF swapMax = None THEN Modulus - 1 ELSE swapMax]

\* The API tells nothing of the swap in use.  HostConfig's MemorySwap is the
\* limit on both, and -1 without one.
SwapAPI ==
    LET MemorySwap == IF swapMax = None THEN -1 ELSE MemLimit + swapMax IN
    [usage |-> None, limit |-> uint64(uint64(MemorySwap) - uint64(MemLimit))]

Swap == CASE source = "v1"  -> SwapV1
          [] source = "v2"  -> SwapV2
          [] source = "api" -> SwapAPI

\* Mutated form of NoHuge: compared with math.MaxInt64.
NoNegative(limit) == IF limit > Modulus \div 2 - 1 THEN 0 ELSE limit

\* A ridiculously large limit is no limit.
NoHuge(limit) == IF limit > Huge THEN 0 ELSE limit

\* Mutated form of SwapOnly: without the comparison, as before 2.0.8.
SwapOnlyUnguarded(m) ==
    IF m.swapUsage = None THEN None
    ELSE IF m.swapUsage = 0 THEN 0
    ELSE uint64(m.swapUsage - m.fuzz)

\* Mutated form of SwapOnly: the memory is not taken off.
SwapOnlyWithMemory(m) == m.swapUsage

\* The swap in use; None if it is not reported or lower than the memory.
SwapOnly(m) ==
    IF m.swapUsage = None \/ (m.swapUsage # 0 /\ m.fuzz > m.swapUsage) THEN None
    ELSE IF m.swapUsage = 0 THEN 0
    ELSE uint64(m.swapUsage - m.fuzz)

\* memory: the biz.Memory of a raw.Memory.
Metrics(m) ==
    [usage |-> m.rss, cache |-> m.cache, limit |-> NoHuge(m.limit),
     swapLimit |-> NoHuge(m.swapLimit),
     swapOnly  |-> SwapOnly(m),
     swapUsage |-> IF SwapOnly(m) = None THEN None ELSE uint64(m.rss + SwapOnly(m))]

\* Mutated form of ReadSwap: the raw value is kept for the next container.
ReadSwapKeeps ==
    /\ pc = "usage"
    /\ metrics' = Metrics([mem EXCEPT !.swapUsage = Swap.usage, !.swapLimit = Swap.limit])
    /\ pc' = "idle"
    /\ UNCHANGED <<config, pages, mem, quiet>>

ReadSwap ==
    /\ pc = "usage"
    /\ metrics' = Metrics([mem EXCEPT !.swapUsage = Swap.usage, !.swapLimit = Swap.limit])
    /\ pc' = "idle" /\ mem' = None
    /\ UNCHANGED <<config, pages, quiet>>

-----------------------------------------------------------------------------

Container == Allocate \/ Free \/ Cache \/ Drop \/ SwapOut \/ SwapIn

Fetch == ReadStat \/ ReadUsage \/ ReadSwap

Next == Container \/ Fetch

Spec == Init /\ [][Next]_vars

-----------------------------------------------------------------------------
(* Properties.                                                             *)

Measured == pc = "idle" /\ metrics # None /\ quiet

\* The usage reported is the anonymous memory on every host and with every
\* configuration, if it did not move: v1 and v2 name it differently, and the
\* API's fetcher knows the names of v2 (driver_linux.go:24-33,
\* dockerapi/fetcher.go:58-61).
UsageIsAnonymous == Measured => metrics.usage = anon /\ metrics.cache = file

\* No subtraction passes zero, however the counters move between their reads:
\* what is reported as swap is at most what there can be of both
\* (metrics_all.go:79-86).
SwapNeverWraps ==
    metrics # None /\ metrics.swapOnly # None =>
        metrics.swapOnly <= MemLimit + HostSwap

\* What is reported as swap is the swap the container used, if it did not move
\* during the fetch (metrics_all.go:75-78: usage is subtracted "to get the
\* actual swap").
SwapOnlyIsSwap ==
    Measured /\ accounting /\ metrics.swapOnly # None => metrics.swapOnly = swap

\* It is, for the counters of cgroup v1 the comment speaks of.
SwapOnlyIsSwapV1 == host.version = 1 => SwapOnlyIsSwap

\* Memory and swap of a cgroup v1 container that did not move are within the
\* limit on both, if one is reported (metrics_all.go:26-31).
SwapWithinLimitV1 ==
    host.version = 1 /\ Measured /\ metrics.swapLimit # 0 /\ metrics.swapUsage # None =>
        metrics.swapUsage <= metrics.swapLimit

\* A container without limit on its swap has none reported, whatever number
\* stands for it: the largest int64 in v1, the largest uint64 in v2, that less
\* the memory in the API (metrics_all.go:40-43, dockerapi/fetcher.go:52).
UnlimitedIsZero ==
    metrics # None /\ swapMax = None => metrics.swapLimit = 0
-----------------------------------------------------------------------------
(* Inductive invariant.                                                    *)

\* What the fetch has read is what the container had when it was read, and has
\* still if nothing moved.
MemInv ==
    /\ accounting /\ swapMax # None => swap <= swapMax
    /\ ~accounting => swapMax = None
    /\ mem # None => mem.rss <= MemLimit /\ mem.fuzz <= MemLimit
    /\ mem # None /\ quiet => mem.rss = anon /\ mem.cache = file
    /\ pc = "usage" /\ quiet => mem.fuzz = anon + file
    /\ SwapNeverWraps /\ UnlimitedIsZero
    /\ UsageIsAnonymous /\ SwapOnlyIsSwapV1 /\ SwapWithinLimitV1
=============================================================================
