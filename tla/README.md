# nri-docker in TLA+

Specifications of New Relic's Docker integration: a process the infrastructure
agent starts again and again, which lists the containers of a host (or of an
AWS Fargate task), reads their statistics and publishes one sample for each.
It keeps one thing between executions, the last CPU reading of each container.
Paths below are relative to the repository.

## The system

| Part | Code | State | Operations |
|---|---|---|---|
| Process | `src/docker.go`, `src/driver/` | none survives it but the store's file | start, set up, sample, publish, exit or panic |
| Sampler | `src/nri/sampler.go` | the list, the samples made | `SampleAll`: list, loop, deferred `Save` |
| Processor | `src/biz/metrics.go` | none | `Process`: inspect, expiry of exited containers, fetch |
| CPU metrics | `src/biz/metrics_all.go` `cpu`, `cpuPercent` | the baseline of each container | difference of two readings, over time and over the system's CPU time |
| Baseline store | `persist` of the SDK, file `container_cpus` | memory and file | load if younger than the TTL, `Get`, `Set`, `Save` |
| Memory metrics | `src/biz/metrics_all.go` `memory` | none | limits, swap |
| Block I/O and network metrics | `metrics_all.go` `blkIO`, `src/nri/sampler.go` | the SDK's store of last values | sums, rates |
| cgroup fetchers | `src/raw/cgroupv1.go`, `cgroupv2.go` | none | paths by PID, counters, then the clock, then files of their own, then the network |
| Path detection | `src/raw/cgroup_detect.go`, `cgroupv1_detect.go`, `cgroupv2_detect.go`, `util.go` | none | host root, mounts, the PID's cgroup path |
| Docker API fetcher | `src/raw/dockerapi/fetcher.go` | none | one request per container |
| Fargate client | `src/raw/aws/` | two stores in memory | task and stats requests with retries |
| Windows metrics | `src/biz/metrics_windows.go` | the baselines | percentages from 100 ns intervals |

The driver builds a fetcher and a client for the platform and gives both to the
sampler. The sampler calls `Process` for each container; `Process` inspects
the container through the client, fetches through the fetcher and computes. CPU
metrics go through the store, which the sampler alone saves. Nothing in the
process runs concurrently with it, but everything it observes does: the
containers start, exit and are removed between any two calls, the clock moves
under it, and the agent may kill it anywhere.

What is hard here, and what would make each part correct:

- *Three views of one container.* List, inspection and fetch may each see a
  different state. Every listed container must get one sample, or none because
  it expired (`Complete`, `DroppedStaysDropped`).
- *Baselines across executions that fail.* `Set` is deferred in `cpu` and `Save`
  in `SampleAll`, so that every early return, error and panic passes through
  both; the save precedes the publication. The file must hold the latest
  readings (`BaselineIsLatest`), and no CPU time be published twice
  (`WindowsDisjoint`).
- *Missing and stale baselines.* First executions, expired files, restarted
  containers, containers without statistics (`PanicOnlyWithoutCPU`).
- *A fetch of many files.* A dozen reads of a container that may die, restart or
  hand its PID on in between, with missing files ignored: the result must be of
  one incarnation or an error (`FetchIsOneStep`), and an error must have a
  reason (`ErrorsJustified`).
- *Arithmetic.* uint64 counters that wrap, a product that overflows, a stored time cut
  to the second, values read one after the other, a limit from a number of CPUs that
  has a fallback (`DurationBounds`, `UsedCoresBounded`, `LimitCutsNoUsage`,
  `SystemDeltaBounded`, `CPUPercentBounded`, `SwapNeverWraps`).
- *Rates of counters that come and go.* Restarts, networks taken away, samples of
  failed fetches (`NetworkWithinTraffic`, `BlkioWithinTraffic`, `RateExact`).
- *Failures and retries.* Endpoints that fail any number of times must bound the
  execution and not take other containers' samples with them (`AttemptsBounded`,
  `AttemptsNotShared`, `Complete`, `Terminates`).

`PROJECT.json` lists every hazard at its line with the properties that would
catch it.

## The modules

### ContainerSampler

The core: executions over a set of containers, one action per call of the code.

| Action | Code |
|---|---|
| `Launch`, `SetupFails`, `NewSampler` | `main`, `PopulateFromDocker`, `NewSampler`; `Loaded` is the store's load with its TTL |
| `ListFails`, `ContainerList` | the head of `SampleAll` |
| `EntityFails`, `InspectFails`, `InspectExpired`, `InspectUnexpired`, `InspectLive` | `Process` up to the fetch, and the entity made after it |
| `FetchFails`, `Fetch`, `FetchPanics` | the fetch, `cpu`, the rest of the loop's body |
| `LoopEnds`, `Save`, `SaveFails` | the end of `SampleAll` and what it defers |
| `Publish`, `PublishFails`, `Kill`, `KillInSave` | the process's ends |
| `Create`, `Start`, `Exit`, `Remove`, `Tick`, `StepBack` | the runtime and the clock (external) |

A reading is a record of the execution that took it, the incarnation (start) of
the container whose counters it holds, its time, and whether it had CPU
statistics. This is what the properties can tell apart: whether two readings
are compared that should be, and whether a nil pointer is dereferenced. An
incarnation stands for a PID and a cgroup. The fetch of the cgroup files is one
step; a container that dies in the middle of it is the fetch's error
(`FetchFails`) or a reading without CPU statistics (`LacksCPU`). CgroupFetch
shows why that is enough. `lastRead`, `counted`,
`unsaved`, `skipped` and `dropped` are history variables: no guard reads them.

The constant `ApiStats` chooses the fetcher. The API answers for a container
that does not run with zeros (incarnation 0) and always fills the pointers,
hence the assumption `ApiStats => LacksCPU = {}`.

### CpuLedger and ContainerSamplerLedger

CpuLedger is what the integration promises about CPU time, without files, stores
or containers that fail: numbered executions read containers, *settle* once (what
was read becomes the baseline) and only then *bill* windows that start at the
baselines found; an execution that cannot settle is known to have failed.
`BilledOnce` follows from that alone.

ContainerSamplerLedger maps the one to the other:

| CpuLedger | ContainerSampler |
|---|---|
| `n` | `run` |
| `open` | the process has started and not saved (`pc`) |
| `read` | the containers whose `lastRead` is of this execution, while open |
| `base` | the execution of the reading on `disk`, 0 for none |
| `draft` | where the windows of the payload start, once saved |
| `billed`, `failed` | `counted`, `unsaved` |

`Launch` is `Begin`; `Fetch` and `FetchPanics` are `Read`; `Save` is `Settle`;
`SetupFails`, `SaveFails` and a kill before the save or in it are `Fail`; `Publish` is
`Bill`; `PublishFails` and a kill after the save are `Drop`; the others stutter. The
baselines lost when the process is killed while it rewrites the file, and those of an
expired file, are the choices `Fail` and `Settle` leave.

### CgroupFetch

The fetch that ContainerSampler takes as one step, read by read: `DetectHostRoot`,
the mounts, `/proc/<pid>/cgroup`, the library's `Stat` (one step for each
controller, in any order, as the v1 goroutines are), the files the fetchers
read themselves, and `/proc/<pid>/net/dev`. Between any two reads containers exit and
start again under the same cgroup path, cgroups are removed, and PIDs go to other
processes. `Seen` is whose values a file has at the time it is read. The
deployment is chosen at `Init`: cgroup v1 or v2, on the host or in a container with
the host at `/host`, there with the host's cgroup namespace or one of its own.
Text is reduced to what it decides: which mount matches first, whether a path
has a colon, which CPUs a list stands for (`countCpusetCPUs` against the set).

### AtomicFetch

The fetch as ContainerSampler sees it: a container is inspected, and then one step
either returns all parts of a container that runs *at that instant* in the incarnation
inspected, or fails, which it may only when the container did not run all through the
fetch or its cgroup cannot be found. The one exception is a PID that went to another process.
CgroupFetch implements it (`ImplementsAtomic`):

| AtomicFetch | CgroupFetch |
|---|---|
| `up`, `gen` | the containers some PID belongs to, `gen` |
| `hidden` | `Colon`, or all containers when the integration has a cgroup namespace of its own |
| `wanted` | the parts this fetcher reads of the controllers enabled |
| `busy`, `inspected`, `stolen` | `pc # "idle"`, `pidGen`, `reused` |
| `got` | the parts once `Fetch` has returned without an error, nothing before |

`Inspect` is `Inspect`, the read of `/proc/<pid>/net/dev` (`Net`) is `Succeed`, `PathsFail`,
`LoadFails` and `NetFails` are `Fail`, and every other read stutters. In
ContainerSampler the guard `Readable` of `Fetch` is that of `Succeed`; its `FetchFails`
may fail at any time, which includes `Fail`.

### CpuUsage

The numbers of one container's CPU metrics. `Stat`, `Stamp` and `Sample` are the
three reads of one fetch (the counters, the clock, `/proc/stat` and the cpuset); between
them, and between fetches, the host's `Tick` goes on under a load. The modulus
stands for 2^64; percentages are fractions, compared by cross-multiplication,
where the code has float64.

- `ReadUsage` is `/proc/stat` as the code reads it: the fields it sums (`Fields`; it
  takes seven, so that stolen time is in none), each a number of whole clock ticks, their
  sum multiplied in a uint64 before it is divided. A `load` says which CPUs run
  the container and what the CPUs spend in the fields; the rest of the tick is stolen.
- `OnlineCPUsWithFallback` is the size of the cpuset on cgroup v2, 0 there when
  the cpuset controller is not enabled, and on v1 the number of CPUs with a usage so far.
- v1 has user and kernel time in clock ticks (`Mode`). v2 has no statistics before the first
  use of a CPU; the nil pointers are `StatWithoutCPU` here, which changes nothing, because
  what they do is ContainerSampler's subject.

A reading carries with it when each part was read and what the counters behind it were
(`readAt` to `product`). The code has none of that; the properties compare what it computes to it.

Assumed of the host: counters never decrease; CPUs and cpuset stay as they are; the
container's CPU time is accounted to it and to the host's fields in the same tick; the three
`cpuacct` files of v1 are read at one instant; the host's clock is not set. Baselines that
are lost and containers that restart are ContainerSampler's. The Docker API's readings,
whose time and system usage the daemon computes, are not modelled here.

### MemorySample

`memory` over the three sources of raw values, and the choice of the source
(`UseDockerAPI`, `NewCgroupFetcher`). `SwapV1`, `SwapV2` and `SwapAPI`
are what each fetcher reads as swap in use and as its limit; the container
allocates, frees, and is swapped between the reads. All limits for "no limit"
(the largest int64, the largest uint64, -1 less the memory limit) are modelled
relative to the modulus.

### CounterRates

The metrics published as rates, from the kernel's counters to the SDK's file of last
values: `NetDev` and `networkMetrics` sum the interfaces, `TotalReadCount` the
reads of the devices, `Process` and `ProcessFails` fill the sample, `Populate` sets the
metrics of the containers that were *listed* as running, and `Publish` or `Abort`
keeps or loses the new values. A behaviour follows one metric; `done` counts what
it should have counted. The SDK's rate (external) is the difference to the last
value it kept, none if it is negative.

### FargateClient

One execution on Fargate: requests with `maxRetries` attempts, the inspector's
and the fetcher's stores with the keys the code uses, null statistics, answers
that are no JSON, containers without labels.

### WindowsCpu

The two reads of one API request and the stored baseline: the interval the
usage is divided by.

How they fit together. ContainerSampler says which readings are compared, and
implements CpuLedger; CgroupFetch implements AtomicFetch, so that one of its readings is one step;
CpuUsage, MemorySample and CounterRates say what the values of a reading become; and
FargateClient replaces the runtime and the fetch of ContainerSampler by its own.

Definitions with a comment that begins "Mutated form of" are not part of the specifications.
They are plausible mistakes, kept to show that a property would notice them.

## The runs

| Run | Instance | Shows |
|---|---|---|
| `Baselines` | 1 container, 3 executions, 2 incarnations, time 0..2 | baselines are the latest readings, CPU time is published once, CpuLedger is implemented |
| `Loop` | 2 containers, one of which may lack CPU statistics, 2 executions, 1 incarnation, time 0..1 | types, completeness, expiry, panics |
| `Termination` | 2 containers, one without ID, the API, no TTL | every execution ends; one cut short by the missing ID has saved what it read |
| `CgroupFetch` | 2 containers, one with a colon in its path, 2 PIDs, 2 incarnations, 3 CPUs, all controllers but `pids` or all but `cpu` and `cpuset` | a fetch is of one incarnation or an error, errors have a reason, CPUs are counted right, AtomicFetch is implemented |
| `CpuReadings` | 2 CPUs, 3 fields, second of 4 ticks and 2 clock ticks, clock 0..5, modulus 64, host just booted or near the overflow, 4 loads, v1 and v2 with and without cpuset | bounds of duration, cores, limits, system time, CPU percentage |
| `Memory` | limit 3 pages, swap 2 pages, every host and configuration | the right source, no wrap, right swap and limits on v1, no limit is 0 |
| `Rates` | 3 interfaces, 2 devices, counters 0..2, 2 stops or disconnections | rates within the traffic, exact while nothing is lost |
| `Fargate` | 3 containers, one without labels, 3 attempts | retries, completeness, times, termination |
| `NoPanic`, `WindowWithinIncarnation`, `SwapOnlyV2`, `WindowsPercent` | small | where the code does not do what a comment or the README says; see below |

Why the bounds are enough. A baseline matters to the execution that takes it,
the next one that reads it, and one in between that may fail to save: three
executions. Two incarnations make one restart. The
clock of 0..2 with a TTL of 1 gives readings of the same second, of a later and
of an earlier one, and both fresh and expired files and containers; in `Loop` the clock
needs only 0..1, because `Init` has containers that exited before and expire with
the first tick. The containers of the
loop do not interact except through the loop itself, so two show every order.
The modulus of 64 is more than four times any quantity of `Memory`. In `CpuReadings` no
counter of the container reaches it, as none reaches 2^64 ns (`NoFullTurn`, 584 years of
one CPU), but the product in `ReadUsage` passes it, from the initial state near that point.
The clock of 0..5 has two fetches, each with a delay of a tick, in different seconds and
in the same; the loads are one CPU, both, none, and all stolen.
In `CgroupFetch`, two incarnations make one restart in the middle of a fetch, two
PIDs suffice for two containers, one container and a host process, or a PID that
is used again, and three CPUs have lists of one interval, of two, and of single numbers.
The deployment without `cpu` and `cpuset` shows what a missing controller does; the pids are
read as any other controller is, and the other deployment goes without them to keep the run short.
In `Rates`, two devices and two interfaces besides the loopback let one go while the other
counts on; two stops or disconnections separate a counter that started again from
one that never did; executions and stores are not bounded.

`Fargate` does not check for deadlock, because it models one execution,
which ends. The other runs do: the code's own steps never leave a state
without a successor.

Fairness. `FairSpec` of ContainerSampler and of FargateClient assumes only weak
fairness of the execution's own calls as a whole: some call of a process that
can proceed is eventually made and returns. The HTTP client of the metadata endpoint has a
timeout; for Docker's socket, the contexts are `context.Background()` and the
assumption is that the daemon answers or fails. Nothing is assumed of
containers, the clock, `Launch` or `Kill`.

## Where code and documents differ

- `NoPanic`: missing CPU statistics are logged and stored as nil pointers,
  which `cpu` dereferences in the next execution (`metrics_all.go:142`).
- `WindowWithinIncarnation`: after a restart the counters are below the baseline's, and
  `UsedCores` and `CPUPercent` are computed from the wrapped difference
  (`metrics_all.go:148`).
- `SwapOnlyV2`: memory is subtracted from a swap counter that does not contain
  it (`metrics_all.go:86`).
- `WindowsPercent`: usage since the previous execution over the interval of one
  request (`metrics_windows.go:122`).

Four more, of which the models have the code's behaviour but no run of their own:

- `/proc/stat`'s sum is multiplied in a uint64 before it is divided
  (`system_cpu_reader.go:81`), which overflows in 2135 days of one CPU, so every 33 days
  on a host with 64: the system's usage falls back, the difference over that point is near
  2^64, and `CPUPercent` of that execution near zero, where `metrics_all.go:165` speaks of
  the change between the readings. `SystemDeltaBounded` without its condition
  `SameTurn` is violated by `CpuReadings`.
- User plus kernel percentage can exceed the total, against
  `src/test/integration/metrics_test.go:152-156`: the share of the host's CPU time is
  multiplied by the container's CPUs instead of the host's (`metrics_all.go:171`), by
  those of its cpuset on v2 and those it has used so far on v1. With `Cpuset = {c1}`, a
  window in which the container works on it all the time has user 100 and total 50.
- The Fargate stats are stored under the key of the metadata and never found
  (`fargate_fetcher.go:73` and `:80`), so that every container has a request of its
  own. In FargateClient this is the key of `Fetch`; the mutant that stores them under the
  right key violates `StampedOnArrival`, because a conversion stamps the time.
- A fetch that fails for a container listed as running publishes network counters
  of zero; the SDK keeps the zero, and the next rate is everything received since
  the container started, where `dockerapi/fetcher.go:74` speaks of monotonic
  counters. `NetworkWithinTraffic` without its exception for `rate.failed` is violated.

## What is proved

Everything below holds for every value of the constants the named assumptions of
the modules allow: any sets of containers, PIDs and CPUs, any TTLs, limits and bounds.
The theorems are of the form `Spec => []Property`, but for the two refinements
(`Spec => AbstractSpec`) and `CountCorrect`, which is about an operator. Every
invariant of a passing run is stated by one of them.

### ContainerSampler

| Theorem | Property | Inductive invariant |
|---|---|---|
| `TypeCorrect` | `TypeOK` | itself |
| `CompleteCorrect` | `Complete` | `LoopInv` |
| `DroppedCorrect` | `DroppedStaysDropped` | `DroppedInv` |
| `BaselineCorrect` | `BaselineIsLatest` | `BaselineInv` |
| `WindowsDisjointCorrect` | `WindowsDisjoint` | `WindowInv` |
| `PanicCorrect` | `PanicOnlyWithoutCPU` | `PanicInv` |

Assumptions: `ConstantsAssumption`, `NoneAssumption`. None of the properties but `TypeOK` is inductive.

- `Complete` speaks of `publish` only. `LoopInv` says of every point of the loop
  that a listed container is still to do, left out or in the payload, and that
  the loop's end is reached with nothing to do.
- `DroppedStaysDropped` needs that a dropped container is removed, or exited and
  still past its TTL. A start and a clock that goes back leave `dropped`; the
  clock going forward keeps expired what is expired.
- `BaselineIsLatest` speaks of the file. `BaselineInv` adds the store in memory:
  what it holds of a container is its latest reading, unless an execution
  that read it did not save.
- `WindowsDisjoint` needs the same of the file, of memory and of every window in
  the payload: none reaches back before the last one published (`NotCounted`).
  Published windows start at the loaded baseline and end at the stored one, and at
  `publish` the file is the store or this execution is `unsaved`. The order of
  `Save` and `Publish` is used exactly here.
- `PanicOnlyWithoutCPU` needs that no baseline of a container with statistics,
  on disk or in memory, has nil pointers.

Each proof has the lemmas about the operators that actions share (`Report`,
`SetBaseline` in `Fetch`, `ProcessEnds`), one step per action under the step of
`Next`, and a temporal step. `LoopInv` and the others were checked with TLC on
the small instances before they were proved.

### The refinement

`CpuLedgerProofs` proves `BilledOnce` of the abstract specification by `BilledInv`: the
baseline of a container is never older than the last execution that billed it,
unless that one failed. `ContainerSamplerProofs` proves `LedgerImplemented`,
`Spec => ImplementsLedger`: `LedgerInv` says that the store in memory is the file
but for what this execution has read, and that windows start at what the file
had; with it and the types, `LedgerStep` maps each action to its step of the ledger.
`LedgerKept` puts the two together: `BilledOnce` of the ledger, under the refinement
mapping, holds of the integration.

### CgroupFetch

| Theorem | Property | Inductive invariant |
|---|---|---|
| `TypeCorrect` | `TypeOK` | itself |
| `FetchIsOneStepCorrect` | `FetchIsOneStep` | `FetchInv` |
| `ErrorsJustifiedCorrect` | `ErrorsJustified` | `ErrorInv` |
| `FetchIsAtomic` | `ImplementsAtomic` | `FetchInv`, `ErrorInv` |
| `CpusCountedCorrect` | `CpusCounted` | `CpusetInv`, with `CountCorrect` |

Assumptions: `FetchAssumption`, `NoOrigin`. `FetchInv` says that as long as the PID
inspected has not been used again, either it belongs to no process (and the last
read will fail), or it is still the container's, and then everything read so far is of the
incarnation inspected. It needs that a PID has one process, and that the cgroup of
a running container exists. `ErrorInv` says that while the container has not stopped, PID
and path are the container's. `FetchIsAtomic` has one case for each action; only `Net` needs
`FetchInv`, which gives that the container runs at that read, and only the failing
reads need `ErrorInv`.

`CountCorrect` is about any finite set of CPUs: the intervals of the kernel's list
are disjoint (`IntervalsDisjoint`), cover the set (`IntervalsCover`), and each is
counted as its size; `PartCounted` adds them up.

### CpuUsage

| Theorem | Property | Rests on |
|---|---|---|
| `TypeCorrect` | `TypeOK` | `UsageInv` |
| `DurationCorrect` | `DurationBounds` | `UsageInv`, `TruncatedBounds` |
| `UsedCoresCorrect` | `UsedCoresBounded` | `UsageInv`, `Window` |
| `LimitCorrect` | `LimitCutsNoUsage` | `UsageInv`, `Window`, `LimitKeeps` |
| `SystemDeltaCorrect` | `SystemDeltaBounded` | `SystemInv`, `SameTurnDelta` |
| `CPUPercentCorrect` | `CPUPercentBounded` | `SystemInv`, `Window`, and the above |

`UsageInv` relates each reading to the instants its parts were taken at. The part that carries
the proofs is how much the container can use from one reading to the next (`Follows`): no more
than the CPUs *counted at its end* for the time between, and these are those of the
cpuset, or those used so far, a number that grows within the window. `TickUses` is that for one tick;
it is why a limit taken from the later reading cuts nothing (`LimitKeeps`), on v1 too. `Window`
turns it into duration and delay, with the deltas of uint64s.

`SystemInv` says of each reading of `/proc/stat` that it comes from a sum that lacks less than a
clock tick for each field (`TicksBounds`), and that what a container uses between two readings
is part of what its host spends, but for what it used in the earlier fetch
between the read of its counters and that of `/proc/stat` (`Allowance`). `SameTurnDelta` is
the difference of two scaled sums that passed 2^64 equally often.

The conditions, and why they are there:

- `SameTurn`: no overflow of the product between the two readings. Without it
  `SystemDeltaBounded` is false, as said above, and the run `CpuReadings` reaches
  the overflow. It is a condition on one pair of readings and not an assumption on the host:
  what overflowed before and after is covered.
- `LimitCutsNoUsage` excepts v2 without the cpuset controller: no CPUs are
  counted, and user and kernel percentages are all cut to 0.
- `NoFullTurn`: the container's own counters stay below 2^64 ns. `WindowWithinIncarnation` is
  about counters that start again.

### MemorySample

`TypeCorrect`, `UsageCorrect`, `SwapNeverWrapsCorrect`, `UnlimitedCorrect`,
`SwapOnlyV1Correct` and `SwapWithinLimitV1Correct` state the six properties of the run.
`MemInv` adds what the fetch in progress has read: the pages at the time, within the limit,
and unchanged as long as `quiet`. Memory and swap are assumed to be below a
quarter of the modulus (`ConstantsAssumption`), as 2^62 bytes are.

### FargateClient

`CompleteCorrect` and `StampedCorrect` rest on `ClientInv` (a container of the
response is still to do or has its sample; nothing is ever stored under the key that is
looked up). `AttemptsNotSharedCorrect` and `AttemptsBoundedCorrect` rest on `CountInv`, which
counts: the failures are at least `MaxRetries` for each unreachable container and those of the
request in progress, the attempts at most `MaxRetries` for each request ended.

### CounterRates

| Theorem | Property |
|---|---|
| `TypeCorrect` | `TypeOK` |
| `NetworkWithinTrafficCorrect` | `NetworkWithinTraffic` |
| `BlkioWithinTrafficCorrect` | `BlkioWithinTraffic` |
| `RateExactCorrect` | `RateExact` |

All but the first rest on `RatesInv` (`RatesInvCorrect`). What the sum of the counters
lacks of all that they were to count is `Lost`. It never shrinks, and grows only
when the container stops or loses a network, each of which `epoch` counts. A reading
in the sample, in the store or in the file says how much was lost at its time: no more than
now, and as much as now when `epoch` has not moved. So the difference of two
readings is at most what was counted between them, and exactly that while `epoch` stays.
That every step of the container moves `Lost` so is `Moves`, shown for each action
with SumTheorems: one counter grows, comes or goes, and the others' sum stays. Assumptions: `RatesAssumption`, `CounterAssumption` (an interface is no
counter of a device) and `NoneAssumption`.

### Sums

SumTheorems is about the sum of a function over a finite set, as the fold
`MapThenSumSet` of the community modules defines it: that the fold's recursive function
exists, its value for the empty set, for a set with an element more, less, or
with one value changed, and the sums of values added up or each cut to a multiple
(the last two for `/proc/stat`). The library's induction theorems have an operator as a
parameter and cannot be used here; in their place every proof takes a smallest set
for which the claim fails (`SmallestSubset`, from the well-foundedness of the strict subsets
of a finite set) and finds a smaller one.

### Only model-checked

`Terminates` of both modules: liveness under fairness and ENABLED are out of the prover's
reach. WindowsCpu, whose one property is violated, and the other properties
that runs find violated. `ContainerSamplerLedger` and `AtomicFetch` are linked to
ContainerSampler separately: that the fetch of ContainerSampler is AtomicFetch's is read
off the guards, not proved.

## What is not modelled

Names and units of metrics, attributes and labels (a table); the columns of
`/proc/<pid>/net/dev`, pids, ARNs and storage driver statistics (pure text to
number); the internals of the SDK, of Docker's client and of the cgroups library,
which the models take as the code uses them; the growth of the baseline store; CPU
limits, shares and throttling, and memory and block I/O on Windows, which are copied;
configuration and packaging. Network namespaces that containers share with one another or
with the host are not modelled: `NetworkWithinTraffic` is about interfaces of the container's own. With
the Docker API, CounterRates has no read counts: `src/test/integration/metrics_test.go:80-84`
says they are not available through it. Restarts in `DroppedStaysDropped` and `Complete` are beyond the
one incarnation of the run `Loop` and covered by the theorems. A PID that goes to another process between the inspection
and the fetch is modelled, and excepted from `FetchIsOneStep`: the code cannot tell.

## Plan

Done, in this order: ContainerSampler with its proofs, CpuUsage, MemorySample,
FargateClient, WindowsCpu; then CpuLedger and its refinement, CgroupFetch, the choice
of the fetcher, CounterRates, and the proofs about all but WindowsCpu; AtomicFetch and
its refinement.

What could follow: the SDK's file store as a module of its own, with the age of
single entries and the growth of the file; a refinement of ContainerSampler by itself
with the reads of CgroupFetch in place of `Fetch`; the interval arithmetic of WindowsCpu
for executions that follow one another at once, where its property holds.
