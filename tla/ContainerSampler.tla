-------------------------- MODULE ContainerSampler --------------------------
(***************************************************************************)
(* The integration as the infrastructure agent runs it: a process started  *)
(* again and again that loads the CPU baselines of the previous execution, *)
(* lists the containers, inspects and fetches them one by one, saves the   *)
(* new baselines and publishes its samples (docker.go main, driver/,       *)
(* nri/sampler.go SampleAll, biz/metrics.go Process, the control flow of   *)
(* biz/metrics_all.go cpu and of the fetchers).  The containers, the clock *)
(* and the agent that may kill the process act between any two calls.      *)
(*                                                                         *)
(* A CPU reading is known by the execution that took it, by the            *)
(* incarnation of the container whose counters it holds and by its time:   *)
(* the numbers computed from two readings are the subject of CpuUsage.     *)
(***************************************************************************)
EXTENDS Integers

CONSTANTS
    Container,   \* the containers the runtime may know
    Anonymous,   \* those it lists without an ID
    LacksCPU,    \* those whose cgroup may show no CPU statistics
    ApiStats,    \* TRUE: statistics of the Docker API, FALSE: of the cgroup files
    ExitedTTL,   \* EXITED_CONTAINERS_TTL; 0 keeps exited containers for ever
    CacheTTL,    \* age at which the store's file is no longer loaded
    MaxTime,     \* bound of the wall clock
    MaxGen,      \* bound of the incarnations of a container
    MaxRun,      \* bound of the executions
    None         \* no reading, no window, no sample

ASSUME ConstantsAssumption ==
    /\ Anonymous \subseteq Container
    /\ LacksCPU \subseteq Container
    /\ ApiStats \in BOOLEAN
    /\ ApiStats => LacksCPU = {}   \* dockerapi/fetcher.go never leaves the pointers nil
    /\ ExitedTTL \in Nat /\ CacheTTL \in Nat
    /\ MaxTime \in Nat /\ MaxGen \in Nat /\ MaxRun \in Nat

\* raw.CPU with its time, as biz.StoredCPUSample keeps it.  gen 0 stands for
\* counters at zero (a container that does not run), cpu FALSE for CPU{}, the
\* value with nil pointers.
Reading == [run : Nat, gen : Nat, time : Int, cpu : BOOLEAN]

\* The interval a sample's CPU metrics are about.
Window == [from : Reading, to : Reading]

\* One ContainerSample: whether the metrics of running containers are
\* populated, the error Process returned and the CPU interval.
Sample == [running : BOOLEAN,
           err     : {"none", "inspect", "exited", "fetch"},
           window  : Window \cup {None}]

ASSUME NoneAssumption == None \notin Reading /\ None \notin Window /\ None \notin Sample

VARIABLES
    state,       \* the runtime's containers: their state,
    gen,         \* their incarnation, counted from 1,
    finished,    \* and, of those that exited, when
    now,         \* the wall clock
    disk,        \* the store's file, container_cpus: a reading per container
    diskTime,    \* its modification time
    pc,          \* where the execution is; "idle" between executions
    run,         \* number of executions started
    store,       \* the store in memory
    listed,      \* the containers ContainerList returned
    up,          \* those of them listed as running
    todo,        \* those the loop has not reached
    cur,         \* the container between its inspection and its fetch
    pidGen,      \* the incarnation whose PID the inspection returned, 0 for no PID
    payload,     \* the samples in the integration, not yet published
    outcome,     \* how SampleAll ends: "ok", "error" or "panic"
    \* History, read by no action:
    lastRead,    \* the latest reading taken of each container
    counted,     \* the latest execution to publish a window of each container
    unsaved,     \* the executions that ended without saving the store
    skipped,     \* the containers this execution left out
    dropped      \* the containers left out, and neither restarted nor moved
                 \* into the future by the clock since

env     == <<state, gen, finished, now>>
file    == <<disk, diskTime>>
memory  == <<store, listed, up, todo, cur, pidGen, payload, outcome>>
history == <<lastRead, counted, unsaved, skipped, dropped>>
vars    == <<env, file, pc, run, memory, history>>

NoReadings == [c \in Container |-> None]
NoSamples  == [c \in Container |-> None]

State == {"absent", "created", "running", "exited", "removed"}
Steps == {"setup", "list", "loop", "fetch", "save", "publish"}

TypeOK ==
    /\ state \in [Container -> State] /\ gen \in [Container -> Nat]
    /\ finished \in [Container -> Int]
    /\ now \in Int
    /\ disk \in [Container -> Reading \cup {None}] /\ diskTime \in Int
    /\ pc \in Steps \cup {"idle"}
    /\ run \in Nat
    /\ store \in [Container -> Reading \cup {None}]
    /\ listed \subseteq Container /\ up \subseteq listed /\ todo \subseteq listed
    /\ cur \in Container \cup {None}
    /\ pc = "fetch" => cur \in todo
    /\ pidGen \in Nat
    /\ payload \in [Container -> Sample \cup {None}]
    /\ outcome \in {"ok", "error", "panic"}
    /\ lastRead \in [Container -> Reading \cup {None}]
    /\ counted \in [Container -> Nat]
    /\ unsaved \subseteq Nat
    /\ skipped \subseteq Container /\ dropped \subseteq Container

\* The containers that have exited before are about to expire.
Init ==
    /\ state \in [Container -> {"absent", "running", "exited"}]
    /\ gen = [c \in Container |-> IF state[c] = "absent" THEN 0 ELSE 1]
    /\ finished = [c \in Container |-> IF state[c] = "exited" THEN -ExitedTTL ELSE 0]
    /\ now = 0
    /\ disk = NoReadings /\ diskTime = 0
    /\ pc = "idle" /\ run = 0
    /\ store = NoReadings
    /\ listed = {} /\ up = {} /\ todo = {}
    /\ cur = None /\ pidGen = 0
    /\ payload = NoSamples /\ outcome = "ok"
    /\ lastRead = NoReadings
    /\ counted = [c \in Container |-> 0]
    /\ unsaved = {} /\ skipped = {} /\ dropped = {}

-----------------------------------------------------------------------------
(* The environment: the container runtime and the host's clock.            *)

Create(c) ==
    /\ state[c] = "absent"
    /\ state' = [state EXCEPT ![c] = "created"]
    /\ UNCHANGED <<gen, finished, now, file, pc, run, memory, history>>

\* A start gives the container a new process and a new cgroup.
Start(c) ==
    /\ state[c] \in {"created", "exited"}
    /\ gen[c] < MaxGen
    /\ state' = [state EXCEPT ![c] = "running"]
    /\ gen' = [gen EXCEPT ![c] = @ + 1]
    /\ finished' = [finished EXCEPT ![c] = 0]
    /\ dropped' = dropped \ {c}
    /\ UNCHANGED <<now, file, pc, run, memory, lastRead, counted, unsaved, skipped>>

Exit(c) ==
    /\ state[c] = "running"
    /\ state' = [state EXCEPT ![c] = "exited"]
    /\ finished' = [finished EXCEPT ![c] = now]
    /\ UNCHANGED <<gen, now, file, pc, run, memory, history>>

Remove(c) ==
    /\ state[c] \in {"created", "exited"}
    /\ state' = [state EXCEPT ![c] = "removed"]
    /\ gen' = [gen EXCEPT ![c] = 0]
    /\ finished' = [finished EXCEPT ![c] = 0]
    /\ UNCHANGED <<now, file, pc, run, memory, history>>

Tick ==
    /\ now < MaxTime
    /\ now' = now + 1
    /\ UNCHANGED <<state, gen, finished, file, pc, run, memory, history>>

\* An adjustment of the clock, which time.Now follows between executions.
StepBack ==
    /\ now > 0
    /\ now' = now - 1
    /\ dropped' = {}
    /\ UNCHANGED <<state, gen, finished, file, pc, run, memory, lastRead, counted,
                   unsaved, skipped>>

-----------------------------------------------------------------------------
(* The execution up to the loop.                                           *)

\* The process is gone, and its memory with it.
ProcessEnds ==
    /\ pc' = "idle"
    /\ store' = NoReadings
    /\ listed' = {} /\ up' = {} /\ todo' = {}
    /\ cur' = None /\ pidGen' = 0
    /\ payload' = NoSamples /\ outcome' = "ok"
    /\ skipped' = {}

\* The agent starts the integration, one execution after the other.
Launch ==
    /\ pc = "idle" /\ run < MaxRun
    /\ pc' = "setup" /\ run' = run + 1
    /\ UNCHANGED <<env, file, memory, history>>

\* ExitOnErr before SampleAll: no Docker client, no answer to Info, no host
\* root or cgroup, a TTL that is no duration.
SetupFails ==
    /\ pc = "setup"
    /\ ProcessEnds
    /\ unsaved' = unsaved \cup {run}
    /\ UNCHANGED <<env, file, run, lastRead, counted, dropped>>

\* persist.NewFileStore does not load a file older than its TTL.
Loaded == IF now - diskTime > CacheTTL THEN NoReadings ELSE disk

NewSampler ==
    /\ pc = "setup"
    /\ store' = Loaded
    /\ pc' = "list"
    /\ UNCHANGED <<env, file, run, listed, up, todo, cur, pidGen, payload, outcome, history>>

\* SampleAll returns an error or panics: what it deferred, the Save, comes next.
Abort(how) == pc' = "save" /\ outcome' = how

ListFails ==
    /\ pc = "list"
    /\ Abort("error")
    /\ UNCHANGED <<env, file, run, store, listed, up, todo, cur, pidGen, payload, history>>

ContainerList ==
    /\ pc = "list"
    /\ listed' = {c \in Container : state[c] \notin {"absent", "removed"}}
    /\ todo' = listed'
    /\ up' = {c \in Container : state[c] = "running"}
    /\ pc' = "loop"
    /\ UNCHANGED <<env, file, run, store, cur, pidGen, payload, outcome, history>>

-----------------------------------------------------------------------------
(* The loop of SampleAll: Process, then the entity and its metric set.     *)

Expired(c) == ExitedTTL # 0 /\ now - finished[c] > ExitedTTL

\* The sample of a container, whatever Process returned.  The metrics of
\* running containers depend on the state the container was listed with.
Report(c, err, window) ==
    /\ payload' = [payload EXCEPT ![c] =
                     [running |-> c \in up, err |-> err,
                      window  |-> IF c \in up THEN window ELSE None]]
    /\ todo' = todo \ {c}
    /\ pc' = "loop"
    /\ cur' = None /\ pidGen' = 0

\* Mutated form of EntityFails: the error's return skips the deferred Save.
EntityFailsUnsaved(c) ==
    /\ pc = "loop" /\ c \in todo \cap Anonymous
    /\ ProcessEnds
    /\ UNCHANGED <<env, file, run, lastRead, counted, unsaved, dropped>>

\* A container without ID has no inspection and, after it, no entity.
EntityFails(c) ==
    /\ pc = "loop" /\ c \in todo \cap Anonymous
    /\ Abort("error")
    /\ UNCHANGED <<env, file, run, store, listed, up, todo, cur, pidGen, payload, history>>

\* Mutated form of InspectFails: the inspection is tried again until it answers.
InspectRetries(c) ==
    /\ pc = "loop" /\ c \in todo \ Anonymous
    /\ UNCHANGED vars

InspectFails(c) ==
    /\ pc = "loop" /\ c \in todo \ Anonymous
    /\ Report(c, "inspect", None)
    /\ UNCHANGED <<env, file, run, store, listed, up, outcome, history>>

InspectExpired(c) ==
    /\ pc = "loop" /\ c \in todo \ Anonymous
    /\ state[c] = "exited" /\ Expired(c)
    /\ todo' = todo \ {c}
    /\ skipped' = skipped \cup {c}
    /\ dropped' = dropped \cup {c}
    /\ UNCHANGED <<env, file, pc, run, store, listed, up, cur, pidGen, payload, outcome,
                   lastRead, counted, unsaved>>

\* Mutated form of InspectUnexpired: an expired container's error is not told
\* from the others, as before 1.4.2.
InspectMisjudges(c) ==
    /\ pc = "loop" /\ c \in todo \ Anonymous
    /\ state[c] = "exited"
    /\ Report(c, "exited", None)
    /\ UNCHANGED <<env, file, run, store, listed, up, outcome, history>>

InspectUnexpired(c) ==
    /\ pc = "loop" /\ c \in todo \ Anonymous
    /\ state[c] = "exited" /\ ~Expired(c)
    /\ Report(c, "exited", None)
    /\ UNCHANGED <<env, file, run, store, listed, up, outcome, history>>

\* Mutated form of InspectLive: the container leaves the list before its fetch.
InspectPops(c) ==
    /\ pc = "loop" /\ c \in todo \ Anonymous
    /\ state[c] \in {"created", "running"}
    /\ cur' = c /\ todo' = todo \ {c}
    /\ pidGen' = IF state[c] = "running" THEN gen[c] ELSE 0
    /\ pc' = "fetch"
    /\ UNCHANGED <<env, file, run, store, listed, up, payload, outcome, history>>

InspectLive(c) ==
    /\ pc = "loop" /\ c \in todo \ Anonymous
    /\ state[c] \in {"created", "running"}
    /\ cur' = c
    /\ pidGen' = IF state[c] = "running" THEN gen[c] ELSE 0
    /\ pc' = "fetch"
    /\ UNCHANGED <<env, file, run, store, listed, up, todo, payload, outcome, history>>

\* Mutated form of FetchFails: a container whose fetch fails is left out.
FetchFailureSkips ==
    /\ pc = "fetch"
    /\ todo' = todo \ {cur}
    /\ cur' = None /\ pidGen' = 0
    /\ pc' = "loop"
    /\ UNCHANGED <<env, file, run, store, listed, up, payload, outcome, history>>

\* Any read of the fetcher that returns its error: the cgroup, the network
\* statistics, the API's answer.
FetchFails ==
    /\ pc = "fetch"
    /\ Report(cur, "fetch", None)
    /\ UNCHANGED <<env, file, run, store, listed, up, outcome, history>>

\* The cgroup files are found through the inspected PID; the API answers for
\* every container it still knows, with zeros for one that does not run.
Readable(c) ==
    IF ApiStats THEN state[c] # "removed"
    ELSE state[c] = "running" /\ gen[c] = pidGen

CPUReading(c, hasCPU) ==
    [run |-> run, gen |-> IF state[c] = "running" THEN gen[c] ELSE 0,
     time |-> now, cpu |-> hasCPU]

\* Mutated form of DurationPositive: the error of store.Get is ignored, and
\* the zero StoredCPUSample taken for a baseline.
IgnoresMissingBaseline(base, t) == IF base = None THEN {TRUE} ELSE {base.time < t}

\* Whether durationNS is positive: there is a baseline and the clock is past
\* it.  The baseline's time is cut to the second, so that within the second
\* both answers are possible.
DurationPositive(base, t) ==
    IF base = None \/ t < base.time THEN {FALSE}
    ELSE IF t = base.time THEN BOOLEAN ELSE {TRUE}

\* Mutated form of SetBaseline: an existing baseline is kept.
SetBaselineOnce(c, r) ==
    /\ store' = [store EXCEPT ![c] = IF @ = None THEN r ELSE @]
    /\ lastRead' = [lastRead EXCEPT ![c] = r]

\* The deferred Set: the reading becomes the baseline on every way out of cpu.
SetBaseline(c, r) ==
    /\ store' = [store EXCEPT ![c] = r]
    /\ lastRead' = [lastRead EXCEPT ![c] = r]

HasCPU(r) == r # None /\ r.cpu

\* A fetch whose errors, if any, were only logged, and the sample made of it.
Fetch ==
    /\ pc = "fetch" /\ Readable(cur)
    /\ \E hasCPU \in BOOLEAN, positive \in DurationPositive(store[cur], now) :
          LET r == CPUReading(cur, hasCPU) IN
          /\ hasCPU \/ cur \in LacksCPU
          /\ positive => hasCPU /\ HasCPU(store[cur])
          /\ SetBaseline(cur, r)
          /\ Report(cur, "none", IF positive THEN [from |-> store[cur], to |-> r] ELSE None)
    /\ UNCHANGED <<env, file, run, listed, up, outcome, counted, unsaved, skipped, dropped>>

\* Mutated form of FetchPanics: Set is called at the end of cpu, not deferred.
PanicLosesReading ==
    /\ pc = "fetch" /\ Readable(cur)
    /\ TRUE \in DurationPositive(store[cur], now)
    /\ \E hasCPU \in BOOLEAN :
          /\ hasCPU \/ cur \in LacksCPU
          /\ ~(hasCPU /\ HasCPU(store[cur]))
          /\ lastRead' = [lastRead EXCEPT ![cur] = CPUReading(cur, hasCPU)]
    /\ Abort("panic")
    /\ UNCHANGED <<env, file, run, store, listed, up, todo, cur, pidGen, payload,
                   counted, unsaved, skipped, dropped>>

\* cpu dereferences the usage pointers of both readings without a check.
FetchPanics ==
    /\ pc = "fetch" /\ Readable(cur)
    /\ TRUE \in DurationPositive(store[cur], now)
    /\ \E hasCPU \in BOOLEAN :
          /\ hasCPU \/ cur \in LacksCPU
          /\ ~(hasCPU /\ HasCPU(store[cur]))
          /\ SetBaseline(cur, CPUReading(cur, hasCPU))
    /\ Abort("panic")
    /\ UNCHANGED <<env, file, run, listed, up, todo, cur, pidGen, payload,
                   counted, unsaved, skipped, dropped>>

\* Mutated form of LoopEnds: the samples are published before the store is saved.
LoopEndsUnsaved ==
    /\ pc = "loop" /\ todo = {}
    /\ pc' = "publish"
    /\ UNCHANGED <<env, file, run, memory, history>>

LoopEnds ==
    /\ pc = "loop" /\ todo = {}
    /\ pc' = "save"
    /\ UNCHANGED <<env, file, run, memory, history>>

-----------------------------------------------------------------------------
(* Save, publish, and the process's other ends.                            *)

\* ExitOnErr, or the panic, ends a process that did not sample everything.
AfterSave ==
    IF outcome = "ok" THEN pc' = "publish" /\ UNCHANGED <<memory, skipped>> ELSE ProcessEnds

Save ==
    /\ pc = "save"
    /\ disk' = store /\ diskTime' = now
    /\ AfterSave
    /\ UNCHANGED <<env, run, lastRead, counted, unsaved, dropped>>

SaveFails ==
    /\ pc = "save"
    /\ unsaved' = unsaved \cup {run}
    /\ AfterSave
    /\ UNCHANGED <<env, file, run, lastRead, counted, dropped>>

Publish ==
    /\ pc = "publish"
    /\ counted' = [c \in Container |->
                     IF payload[c] # None /\ payload[c].window # None THEN run ELSE counted[c]]
    /\ ProcessEnds
    /\ UNCHANGED <<env, file, run, lastRead, unsaved, dropped>>

PublishFails ==
    /\ pc = "publish"
    /\ ProcessEnds
    /\ UNCHANGED <<env, file, run, lastRead, counted, unsaved, dropped>>

Kill ==
    /\ pc \in Steps
    /\ unsaved' = IF pc = "publish" THEN unsaved ELSE unsaved \cup {run}
    /\ ProcessEnds
    /\ UNCHANGED <<env, file, run, lastRead, counted, dropped>>

\* The file is rewritten in place: a kill leaves one that is not loaded again.
KillInSave ==
    /\ pc = "save"
    /\ disk' = NoReadings /\ diskTime' = now
    /\ unsaved' = unsaved \cup {run}
    /\ ProcessEnds
    /\ UNCHANGED <<env, run, lastRead, counted, dropped>>

-----------------------------------------------------------------------------

Environment ==
    \/ \E c \in Container : Create(c) \/ Start(c) \/ Exit(c) \/ Remove(c)
    \/ Tick \/ StepBack

Inspect == \E c \in Container :
    EntityFails(c) \/ InspectFails(c) \/ InspectExpired(c) \/ InspectUnexpired(c) \/ InspectLive(c)

\* The calls of one execution.
Execution ==
    \/ SetupFails \/ NewSampler \/ ListFails \/ ContainerList
    \/ Inspect \/ FetchFails \/ Fetch \/ FetchPanics \/ LoopEnds
    \/ Save \/ SaveFails \/ Publish \/ PublishFails

Next == Environment \/ Launch \/ Execution \/ Kill \/ KillInSave

Spec == Init /\ [][Next]_vars

\* Every call of the execution returns: the process is never stopped for ever.
FairSpec == Spec /\ WF_vars(Execution)
-----------------------------------------------------------------------------
(* Properties.                                                             *)

\* No window is published that starts before a window already published: CPU
\* time is reported once, unless the execution that reported it first could
\* not save its baselines (Save comes before Publish, sampler.go:68 and
\* docker.go:41).
WindowsDisjoint ==
    \A c \in Container :
        payload[c] # None /\ payload[c].window # None =>
            payload[c].window.from.run >= counted[c] \/ counted[c] \in unsaved

\* The baseline the next execution will load is the latest reading ever taken
\* of the container, on every way out of cpu and of SampleAll: early returns,
\* errors and panics (metrics_all.go:108, sampler.go:68).
BaselineIsLatest ==
    \A c \in Container :
        disk[c] \notin {None, lastRead[c]} =>
            \/ lastRead[c].run \in unsaved
            \/ lastRead[c].run = run /\ pc \in {"loop", "fetch", "save"}

\* An execution publishes a sample for every container it listed but those it
\* left out as expired: what fails for one container costs no
\* other its sample (sampler.go:89-146).
Complete ==
    pc = "publish" =>
        \A c \in Container : c \in listed <=> (c \in skipped <=> payload[c] = None)

\* A container left out as expired stays out, in every later execution, until
\* it is started again or the clock goes back; only an inspection that fails
\* brings it back (sampler.go:93, metrics.go:136-147).
DroppedStaysDropped ==
    \A c \in dropped : payload[c] # None => payload[c].err = "inspect"

\* A container whose CPU statistics can always be read never makes the
\* execution panic, its first execution and the ones after a lost or an
\* expired file included (metrics_all.go:126-129).
PanicOnlyWithoutCPU == outcome = "panic" => cur \in LacksCPU

\* Every execution ends, whatever fails in it.
Terminates == pc # "idle" ~> pc = "idle"

\* What the comments promise and the code does not do.

\* A window never spans a restart, after which the counters start from zero
\* again (metrics_all.go:131, 163: "the change for the cpu usage of the
\* container in between readings").
WindowWithinIncarnation ==
    \A c \in Container :
        payload[c] # None /\ payload[c].window # None =>
            payload[c].window.from.gen \in {0, payload[c].window.to.gen}

\* No execution panics (cgroupv2.go:73-75 only logs the missing statistics).
NoPanic == outcome # "panic"
-----------------------------------------------------------------------------
(* Inductive invariants.                                                   *)

\* Once listed, a container is in one of three places: still to do, left out
\* or in the payload.
LoopInv ==
    /\ \A c \in Container :
          /\ c \in listed \ todo <=> c \in skipped \/ payload[c] # None
          /\ c \notin skipped \/ payload[c] = None
    /\ pc \in {"idle", "setup", "list"} => listed = {}
    /\ outcome # "ok" => pc = "save"
    /\ pc \in {"save", "publish"} /\ outcome = "ok" => todo = {}

DroppedInv ==
    /\ DroppedStaysDropped
    /\ \A c \in dropped : state[c] = "removed" \/ (state[c] = "exited" /\ Expired(c))
    /\ pc = "fetch" => cur \notin dropped

BaselineInv ==
    /\ BaselineIsLatest
    /\ \A c \in Container :
          store[c] \notin {None, lastRead[c]} => lastRead[c].run \in unsaved

\* Baseline r of c does not reach back before the window last published.
NotCounted(c, r) == r # None => r.run >= counted[c] \/ counted[c] \in unsaved

WindowInv ==
    /\ \A c \in Container :
          /\ counted[c] <= run
          /\ NotCounted(c, disk[c])
          /\ NotCounted(c, store[c])
          /\ payload[c] # None /\ payload[c].window # None =>
                /\ NotCounted(c, payload[c].window.from)
                /\ payload[c].window.to = store[c]
                /\ store[c].run = run
    /\ pc = "publish" => disk = store \/ run \in unsaved

PanicInv ==
    /\ PanicOnlyWithoutCPU
    /\ \A c \in Container \ LacksCPU :
          /\ disk[c] # None => disk[c].cpu
          /\ store[c] # None => store[c].cpu
=============================================================================
