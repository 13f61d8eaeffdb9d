----------------------------- MODULE CounterRates -----------------------------
(***************************************************************************)
(* The counters of one container that are published as rates: what the     *)
(* fetchers read of its network interfaces and block devices, their sums,  *)
(* the sample the sampler fills, and the store of the SDK that keeps the   *)
(* last value until the next execution (raw/network_stats_getter.go,       *)
(* raw/cgroupv1.go, cgroupv2.go, raw/dockerapi/fetcher.go, biz/            *)
(* metrics_all.go blkIO, nri/sampler.go, nri/sampler_all.go).              *)
(*                                                                         *)
(* A behaviour follows one metric, the bytes received or the number of     *)
(* reads; the other network and block I/O metrics differ by a field.  A    *)
(* fetch takes one step, as CgroupFetch justifies.  Rates are kept as      *)
(* differences; the time between two samples is left out.                  *)
(***************************************************************************)
EXTENDS Integers, FiniteSets, FiniteSetsExt

CONSTANTS
    Interface,   \* the container's network interfaces,
    Loopback,    \* of them the loopback
    Device,      \* block devices
    MaxCount,    \* bound of every counter
    MaxEpoch,    \* bound of the stops and disconnections
    None

ASSUME RatesAssumption ==
    /\ Loopback \in Interface
    /\ IsFiniteSet(Interface) /\ IsFiniteSet(Device)
    /\ MaxCount \in Nat \ {0} /\ MaxEpoch \in Nat

Metrics == {"networkRxBytes", "ioReadCount"}
Sources == {"v1", "v2", "api"}

\* The operations of a device's counters, by their first letter.
Op      == {"read", "write", "other"}
Counter == Interface \cup (Device \X Op)

ASSUME CounterAssumption == Interface \cap (Device \X Op) = {}

VARIABLES
    metric,     \* the metric followed
    source,     \* what the fetcher reads
    running,    \* whether the container runs
    count,      \* the kernel's counters, None for one that does not exist
    pc,         \* where the execution is; "idle" between executions
    wasRunning, \* whether the list said that the container runs
    sample,     \* the metric in the Sample of Process, None for a nil pointer
    disk,       \* the value in the SDK's file, None for none
    store,      \* the same in memory
    rate,       \* the difference in the metric set, None for none
    \* History, read by no action:
    done,       \* what the metric is to count, since the container was created
    epoch,      \* the stops and disconnections so far
    sampled     \* of the sample: done, epoch, and if it stands for no reading

kernel    == <<metric, source, running, count, done, epoch>>
execution == <<pc, wasRunning, sample, disk, store, rate, sampled>>
vars      == <<kernel, execution>>

\* A value with the history of its reading.
Reading == [value : Nat, done : Nat, epoch : Nat, failed : BOOLEAN]

\* A rate with what the metric should have counted, and whether the container
\* kept running and connected, between the two samples.
Rate == [diff : Int, done : Nat, steady : BOOLEAN, failed : BOOLEAN]

ASSUME NoneAssumption == None \notin Nat /\ None \notin Reading /\ None \notin Rate

TypeOK ==
    /\ metric \in Metrics /\ source \in Sources /\ running \in BOOLEAN
    /\ count \in [Counter -> 0..MaxCount \cup {None}]
    /\ pc \in {"idle", "launched", "listed", "processed", "populated"}
    /\ wasRunning \in BOOLEAN
    /\ sample \in Nat \cup {None}
    /\ metric = "networkRxBytes" => sample # None
    /\ disk \in Reading \cup {None} /\ store \in Reading \cup {None}
    /\ rate \in Rate \cup {None}
    /\ done \in Nat /\ epoch \in 0..MaxEpoch
    /\ sampled \in [done : Nat, epoch : Nat, failed : BOOLEAN]

NoCounter == [c \in Counter |-> None]

NothingSampled == [done |-> 0, epoch |-> 0, failed |-> FALSE]

\* The metric in the Sample of an error.
Zero == IF metric = "networkRxBytes" THEN 0 ELSE None

Init ==
    /\ metric \in Metrics /\ source \in Sources
    /\ running = FALSE /\ count = NoCounter
    /\ pc = "idle" /\ wasRunning = FALSE /\ sample = Zero
    /\ disk = None /\ store = None /\ rate = None
    /\ done = 0 /\ epoch = 0
    /\ sampled = NothingSampled

-----------------------------------------------------------------------------
(* The container.                                                          *)

Start ==
    /\ ~running
    /\ running' = TRUE
    /\ count' = [c \in Counter |-> IF metric = "networkRxBytes" /\ c \in Interface THEN 0 ELSE None]
    /\ UNCHANGED <<metric, source, done, epoch, execution>>

\* Its network namespace and its cgroup end with it.
Stop ==
    /\ running /\ epoch < MaxEpoch
    /\ running' = FALSE /\ count' = NoCounter /\ epoch' = epoch + 1
    /\ UNCHANGED <<metric, source, done, execution>>

Disconnect(i) ==
    /\ count[i] # None /\ i # Loopback /\ epoch < MaxEpoch
    /\ count' = [count EXCEPT ![i] = None] /\ epoch' = epoch + 1
    /\ UNCHANGED <<metric, source, running, done, execution>>

Connect(i) ==
    /\ running /\ metric = "networkRxBytes" /\ count[i] = None
    /\ count' = [count EXCEPT ![i] = 0]
    /\ UNCHANGED <<metric, source, running, done, epoch, execution>>

Receive(i) ==
    /\ count[i] \in 0..MaxCount - 1
    /\ count' = [count EXCEPT ![i] = @ + 1]
    /\ done' = IF i = Loopback THEN done ELSE done + 1
    /\ UNCHANGED <<metric, source, running, epoch, execution>>

\* A device has counters from its first operation on.  "other" is the total.
Operate(d, op) ==
    /\ running /\ metric = "ioReadCount" /\ op # "other"
    /\ count[<<d, "other">>] \in {None} \cup 0..MaxCount - 1
    /\ LET Now(o) == IF count[<<d, o>>] = None THEN 0 ELSE count[<<d, o>>] IN
       count' = [c \in Counter |->
           CASE c = <<d, op>> \/ c = <<d, "other">> -> Now(c[2]) + 1
             [] c \in {d} \X Op \ {<<d, op>>, <<d, "other">>} -> Now(c[2])
             [] OTHER -> count[c]]
    /\ done' = IF op = "read" THEN done + 1 ELSE done
    /\ UNCHANGED <<metric, source, running, epoch, execution>>

-----------------------------------------------------------------------------
(* What is read of it.                                                     *)

Existing == {c \in Counter : count[c] # None}

Sum(counters) == MapThenSumSet(LAMBDA c : count[c], counters)

\* Mutated form of Ignored: the loopback is summed with the others.
NothingIgnored(i) == FALSE

\* Interfaces whose name starts with lo.
Ignored(i) == i = Loopback

\* /proc/<pid>/net/dev, summed over its lines.
NetDev == Sum({i \in Existing : ~Ignored(i)})

\* The daemon's answer has the interfaces Docker made.
Networks == Existing \ {Loopback}

networkMetrics == Sum(Networks)

\* The entries of the files, of which v1's have totals too.  The API, read on
\* cgroup v2 only, has no numbers of operations; the bytes it has are v2's.
BlkioEntries ==
    CASE source = "v1" -> Existing
      [] source = "v2" -> {c \in Existing : c[2] # "other"}
      [] source = "api" -> {}

\* Mutated form of TotalReadCount: the pointer is set from the start.
ReadCountFromZero(entries) == Sum({c \in entries : c[2] = "read"})

\* Mutated form of TotalReadCount: every entry is a read.
AllReads(entries) == IF entries = {} THEN None ELSE Sum(entries)

\* The sum of the reads, a nil pointer when no entry has any.
TotalReadCount(entries) ==
    LET reads == {c \in entries : c[2] = "read"} IN
    IF reads = {} THEN None ELSE Sum(reads)

-----------------------------------------------------------------------------
(* An execution.                                                           *)

\* The SDK loads its store, without what is older than its TTL.
Launch ==
    /\ pc = "idle"
    /\ pc' = "launched"
    /\ store' \in {disk, None}
    /\ UNCHANGED <<kernel, wasRunning, sample, disk, rate, sampled>>

ContainerList ==
    /\ pc = "launched"
    /\ pc' = "listed" /\ wasRunning' = running
    /\ UNCHANGED <<kernel, sample, disk, store, rate, sampled>>

Sampled(value, failed) ==
    /\ pc' = "processed" /\ sample' = value
    /\ sampled' = [done |-> done, epoch |-> epoch, failed |-> failed]
    /\ UNCHANGED <<kernel, wasRunning, disk, store, rate>>

\* The inspection or the fetch fails, or the container has exited: the error is
\* logged, and the sample is the empty one.
ProcessFails ==
    /\ pc = "listed"
    /\ Sampled(Zero, running)

\* The files exist while the container runs.  The API answers of one that does
\* not with nothing in the answer.  An error of the block I/O files is logged.
Process ==
    /\ pc = "listed" /\ (running \/ source = "api")
    /\ IF metric = "networkRxBytes"
       THEN Sampled(IF source = "api" THEN networkMetrics ELSE NetDev, FALSE)
       ELSE \/ Sampled(TotalReadCount(BlkioEntries), FALSE)
            \/ source # "api" /\ Sampled(TotalReadCount({}), FALSE)

\* Of type PRATE: the SDK keeps the value, and gives the difference to the one
\* before unless it is negative; there is none to a first value.
Positive(value) ==
    /\ store' = [value |-> value, done |-> sampled.done,
                 epoch |-> sampled.epoch, failed |-> sampled.failed]
    /\ rate' = IF store = None \/ value < store.value THEN None
               ELSE [diff |-> value - store.value, done |-> sampled.done - store.done,
                     steady |-> sampled.epoch = store.epoch,
                     failed |-> sampled.failed \/ store.failed]

\* Mutated form of Populate: a value is stored for every container.
PopulateAlways ==
    /\ pc = "processed"
    /\ pc' = "populated"
    /\ Positive(sample)
    /\ UNCHANGED <<kernel, wasRunning, sample, disk, sampled>>

\* Only for a container listed as running, and of its I/O what is not nil.
Populate ==
    /\ pc = "processed"
    /\ pc' = "populated"
    /\ IF wasRunning /\ sample # None THEN Positive(sample) ELSE UNCHANGED <<store, rate>>
    /\ UNCHANGED <<kernel, wasRunning, sample, disk, sampled>>

Ends ==
    /\ pc' = "idle" /\ wasRunning' = FALSE /\ sample' = Zero
    /\ store' = None /\ rate' = None /\ sampled' = NothingSampled
    /\ UNCHANGED kernel

\* The SDK saves its store and prints the samples.
Publish ==
    /\ pc = "populated"
    /\ Ends
    /\ disk' = store

\* The execution ends with an error, a panic or a kill: nothing is saved.
Abort ==
    /\ pc # "idle"
    /\ Ends
    /\ UNCHANGED disk

-----------------------------------------------------------------------------

Container ==
    \/ Start \/ Stop
    \/ \E i \in Interface : Disconnect(i) \/ Connect(i) \/ Receive(i)
    \/ \E d \in Device, op \in Op : Operate(d, op)

Execution ==
    \/ Launch \/ ContainerList
    \/ ProcessFails \/ Process \/ Populate
    \/ Publish \/ Abort

Next == Container \/ Execution

Spec == Init /\ [][Next]_vars
-----------------------------------------------------------------------------
(* Properties.                                                             *)

\* The network rate never shows more than the container received between the
\* two samples, over restarts, changes of its networks, expired stores and lost
\* executions, unless one of the two stands for a fetch that failed while the
\* container ran: that is published as zero, and the next rate has all that was
\* ever received (sampler.go:99-100 and :142-145,
\* network_stats_getter.go:49-120, dockerapi/fetcher.go:73-89).
NetworkWithinTraffic ==
    metric = "networkRxBytes" /\ rate # None /\ ~rate.failed => rate.diff <= rate.done

\* The block I/O rate never does, whatever fails: a metric without entries is
\* nil, and is neither published nor stored (metrics_all.go:177-221,
\* sampler_all.go:55-83).
BlkioWithinTraffic ==
    metric = "ioReadCount" /\ rate # None => rate.diff <= rate.done

\* While the container keeps running and no network is taken from it, the rate
\* is what it received or read, no less, over any number of executions whose
\* samples were lost (cgroupv1.go:115-182, cgroupv2.go:163-181).
RateExact ==
    rate # None /\ ~rate.failed /\ rate.steady => rate.diff = rate.done
-----------------------------------------------------------------------------
(* Inductive invariant.                                                    *)

\* The counters of the metric, and what they say now.
Relevant ==
    IF metric = "networkRxBytes" THEN Networks ELSE {c \in Existing : c[2] = "read"}

Counted == Sum(Relevant)

\* What they have lost with the container's stops and disconnections.
Lost == done - Counted

\* A device's counters come together, its total no less than each of them.
KernelInv ==
    /\ Existing \subseteq IF metric = "networkRxBytes" THEN Interface ELSE Device \X Op
    /\ ~running => Existing = {}
    /\ \A d \in Device, op \in Op :
          count[<<d, op>>] # None =>
              count[<<d, "other">>] # None /\ count[<<d, op>>] <= count[<<d, "other">>]

\* A reading is older than the time at which the metric was to count d, there
\* had been e stops and disconnections, and n was lost in them: n is no less
\* than at the reading, and the same if there was none since.
Older(r, d, e, n) ==
    /\ r.done <= d /\ r.epoch <= e
    /\ r.failed => metric = "networkRxBytes"
    /\ ~r.failed => r.done - r.value <= n /\ (r.epoch = e => r.done - r.value = n)

SampleReading == [value |-> sample, done |-> sampled.done,
                  epoch |-> sampled.epoch, failed |-> sampled.failed]

\* The file is older than the store's last sample, and that than the counters.
ReadingsInv ==
    /\ disk # None => Older(disk, done, epoch, Lost)
    /\ store # None => Older(store, done, epoch, Lost)
    /\ pc = "processed" /\ sample # None =>
          /\ Older(SampleReading, done, epoch, Lost)
          /\ store # None =>
                /\ store.done <= sampled.done
                /\ ~sampled.failed => Older(store, sampled.done, sampled.epoch, sampled.done - sample)

RatesInv ==
    /\ TypeOK /\ KernelInv /\ ReadingsInv
    /\ NetworkWithinTraffic /\ BlkioWithinTraffic /\ RateExact
=============================================================================
