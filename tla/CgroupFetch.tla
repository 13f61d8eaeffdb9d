----------------------------- MODULE CgroupFetch -----------------------------
(***************************************************************************)
(* The fetch of one container's statistics from the cgroup files, which    *)
(* ContainerSampler takes as one step (raw/cgroupv1.go and cgroupv2.go     *)
(* Fetch, raw/cgroup_detect.go, network_stats_getter.go GetForContainer,   *)
(* util.go DetectHostRoot, cgroup.go).  Between any two of its reads       *)
(* containers exit and start, cgroups are removed and made again under the *)
(* same path, and the PID the inspection returned goes to another process. *)
(*                                                                         *)
(* What a file says is known by whose it is: the container (or the host),  *)
(* and the incarnation of the container.  Of the text, the model has the   *)
(* choice of the mount, the cgroup's path and the list of CPUs.            *)
(***************************************************************************)
EXTENDS Integers, FiniteSets, Sequences, FiniteSetsExt

CONSTANTS
    Container,    \* the containers of the host
    Colon,        \* those whose cgroup path holds a colon
    Pid,          \* the process IDs, positive
    CPUs,         \* the host's CPUs, numbered from 0
    EnabledSets,  \* the controllers that may be enabled, or mounted (v1)
    MaxGen,       \* bound of the incarnations of a container
    Host,         \* the owner of every other process
    None

Controllers == {"cpu", "memory", "pids", "io", "cpuset"}

ASSUME FetchAssumption ==
    /\ Colon \subseteq Container
    /\ Pid \subseteq Nat \ {0}
    /\ CPUs \subseteq Nat /\ CPUs # {} /\ IsFiniteSet(CPUs)
    /\ EnabledSets \subseteq SUBSET Controllers /\ EnabledSets # {}
    /\ MaxGen \in Nat
    /\ Host \notin Container
    /\ None \notin Container /\ None # Host

Owner == Container \cup {Host}

\* Whose a value is.  The host has no incarnations.
Origin == [owner : Owner, gen : Nat]

ASSUME NoOrigin == None \notin Origin

\* What the fetchers read one by one: Stat of the cgroups library, files of
\* their own, and the network statistics.
StatParts == {"cpu", "memory", "pids", "io"}
FileParts == {"blkio", "shares", "soft_limit", "cpuset"}
Parts     == StatParts \cup FileParts \cup {"net"}

VARIABLES
    version,     \* the host's cgroup version,
    inContainer, \* whether the integration runs in a container, the host at /host,
    private,     \* and whether in a cgroup namespace of its own
    enabled,     \* the controllers enabled
    proc,        \* the owner of each process, None for no process
    gen,         \* the incarnation of each container, counted from 1
    dir,         \* whether a container's cgroup exists
    pc,          \* where the fetch is; "idle" before and after it
    subject,     \* the container fetched
    pid,         \* the PID of its inspection, 0 for none
    path,        \* the owner of the cgroup path found, None before
    unread,      \* what Stat has yet to read
    part,        \* whose the values read are, None for a file that is missing
    online,      \* OnlineCPUs
    err,         \* whether Fetch returned an error
    \* History, read by no action:
    pidGen,      \* the incarnation inspected, 0 for none
    gone,        \* whether the container did not run all through the fetch
    reused,      \* whether its PID was given to another process
    cpus         \* the CPUs of the cpuset read

deployment == <<version, inContainer, private, enabled>>
kernel     == <<proc, gen, dir>>
result     == <<part, online, err>>
history    == <<pidGen, gone, reused, cpus>>
vars       == <<deployment, kernel, pc, subject, pid, path, unread, result, history>>

Running(c) == \E p \in Pid : proc[p] = c

TypeOK ==
    /\ version \in {1, 2} /\ inContainer \in BOOLEAN /\ private \in BOOLEAN
    /\ enabled \in EnabledSets
    /\ proc \in [Pid -> Owner \cup {None}]
    /\ gen \in [Container -> Nat] /\ dir \in [Container -> BOOLEAN]
    /\ pc \in {"idle", "paths", "load", "stat", "net"} \cup FileParts
    /\ subject \in Container \cup {None}
    /\ pc # "idle" => subject # None
    /\ pid \in Pid \cup {0}
    /\ path \in Owner \cup {None}
    /\ pc \in {"load", "stat"} \cup FileParts => path # None
    /\ unread \subseteq enabled \cap StatParts
    /\ pc # "stat" => unread = {}
    /\ part \in [Parts -> Origin \cup {None}]
    /\ err \in BOOLEAN
    /\ pidGen \in Nat /\ gone \in BOOLEAN /\ reused \in BOOLEAN /\ cpus \subseteq CPUs

NothingRead == [f \in Parts |-> None]

Init ==
    /\ version \in {1, 2} /\ inContainer \in BOOLEAN
    /\ private \in BOOLEAN /\ (private => inContainer)
    /\ enabled \in EnabledSets
    /\ proc = [p \in Pid |-> None]
    /\ gen = [c \in Container |-> 0] /\ dir = [c \in Container |-> FALSE]
    /\ pc = "idle" /\ subject = None /\ pid = 0 /\ path = None /\ unread = {}
    /\ part = NothingRead /\ online = 0 /\ err = FALSE
    /\ pidGen = 0 /\ gone = FALSE /\ reused = FALSE /\ cpus = {}

-----------------------------------------------------------------------------
(* The host.                                                               *)

fetch == <<pc, subject, pid, path, unread, result>>

\* A process takes a free PID; that of the inspection has then been used again.
Take(p, o) ==
    /\ proc[p] = None
    /\ proc' = [proc EXCEPT ![p] = o]
    /\ reused' = (reused \/ (pc # "idle" /\ p = pid))

\* The container's cgroup is made under the same path, its counters at zero.
Start(c) ==
    /\ ~Running(c) /\ ~dir[c] /\ gen[c] < MaxGen
    /\ \E p \in Pid : Take(p, c)
    /\ gen' = [gen EXCEPT ![c] = @ + 1]
    /\ dir' = [dir EXCEPT ![c] = TRUE]
    /\ UNCHANGED <<deployment, fetch, pidGen, gone, cpus>>

Exit(c) ==
    /\ Running(c)
    /\ proc' = [p \in Pid |-> IF proc[p] = c THEN None ELSE proc[p]]
    /\ gone' = (gone \/ (pc # "idle" /\ c = subject))
    /\ UNCHANGED <<deployment, gen, dir, fetch, pidGen, reused, cpus>>

\* The runtime removes the cgroup after it has reaped the process.
RemoveDir(c) ==
    /\ dir[c] /\ ~Running(c)
    /\ dir' = [dir EXCEPT ![c] = FALSE]
    /\ UNCHANGED <<deployment, proc, gen, fetch, history>>

HostProcess(p) ==
    /\ \/ Take(p, Host)
       \/ proc[p] = Host /\ proc' = [proc EXCEPT ![p] = None] /\ UNCHANGED reused
    /\ UNCHANGED <<deployment, gen, dir, fetch, pidGen, gone, cpus>>

-----------------------------------------------------------------------------
(* Where the files are.                                                    *)

\* Mutated form of DetectHostRoot: the integration's own root comes first.
OwnRootFirst == "/"

HasProc(root) == root = "/" \/ inContainer

\* /host if it has a /proc, the root otherwise.
DetectHostRoot == IF HasProc("/host") THEN "/host" ELSE "/"

\* The process a /proc shows: the root of a container shows only its own.
ProcAt(root, p) ==
    IF p \in Pid /\ (inContainer => root = "/host") THEN proc[p] ELSE None

\* The mounts of the hierarchies, in the order of /proc/mounts: in a container
\* its own, limited to its own cgroup, and the host's; on the host its own and
\* the copies mounted for containers.
Mounts ==
    IF inContainer THEN << [at |-> "/",     of |-> "other"], [at |-> "/host", of |-> "host"] >>
                   ELSE << [at |-> "/",     of |-> "host"], [at |-> "/",     of |-> "other"] >>

HasPrefix(at, root) == root = "/" \/ at = root

\* The first mount under the root is the one used.
MountPoint(root) ==
    LET found == {i \in DOMAIN Mounts : HasPrefix(Mounts[i].at, root)} IN
    Mounts[CHOOSE i \in found : \A j \in found : i <= j].of

\* The path joined to the mount point.  A cgroup namespace of its own shows the
\* others' paths from its root upwards, and the join leads out of the mount.
Found == MountPoint(DetectHostRoot) = "host" /\ ~private

\* Whose values the files under the path have, None when they do not exist.
Seen ==
    IF ~Found THEN None
    ELSE IF path = Host THEN [owner |-> Host, gen |-> 0]
    ELSE IF dir[path] THEN [owner |-> path, gen |-> gen[path]] ELSE None

-----------------------------------------------------------------------------
(* The fetch.                                                              *)

Inspect(c) ==
    /\ pc = "idle" /\ gen[c] > 0
    /\ pc' = "paths"
    /\ subject' = c
    /\ \/ \E p \in Pid : proc[p] = c /\ pid' = p /\ pidGen' = gen[c] /\ gone' = FALSE
       \/ ~Running(c) /\ pid' = 0 /\ pidGen' = 0 /\ gone' = TRUE
    /\ path' = None /\ unread' = {}
    /\ part' = NothingRead /\ online' = 0 /\ err' = FALSE
    /\ reused' = FALSE /\ cpus' = {}
    /\ UNCHANGED <<deployment, kernel>>

Return(failed) ==
    /\ pc' = "idle" /\ err' = failed
    /\ path' = None /\ unread' = {}

\* The mounts, then /proc/<pid>/cgroup, whose lines have three fields.
Paths ==
    /\ pc = "paths"
    /\ LET owner == ProcAt(DetectHostRoot, pid) IN
       /\ owner # None /\ owner \notin Colon
       /\ path' = owner
    /\ pc' = "load"
    /\ UNCHANGED <<deployment, kernel, subject, pid, unread, result, history>>

PathsFail ==
    /\ pc = "paths"
    /\ ProcAt(DetectHostRoot, pid) \in Colon \cup {None}
    /\ Return(TRUE)
    /\ UNCHANGED <<deployment, kernel, subject, pid, part, online, history>>

\* v1: cgroups.Load finds the cgroup.  v2: Stat reads its list of controllers.
Load ==
    /\ pc = "load" /\ Seen # None
    /\ pc' = "stat"
    /\ unread' = enabled \cap StatParts
    /\ UNCHANGED <<deployment, kernel, subject, pid, path, result, history>>

LoadFails ==
    /\ pc = "load" /\ Seen = None
    /\ Return(TRUE)
    /\ UNCHANGED <<deployment, kernel, subject, pid, part, online, history>>

\* On v1 in goroutines, with IgnoreNotExist; v2 skips a missing file too.
Stat(f) ==
    /\ pc = "stat" /\ f \in unread
    /\ part' = [part EXCEPT ![f] = Seen]
    /\ unread' = unread \ {f}
    /\ UNCHANGED <<deployment, kernel, pc, subject, pid, path, online, err, history>>

FirstFile == IF version = 1 THEN "blkio" ELSE "cpuset"

\* Mutated form of StatEnds: the goroutines of Stat are not waited for.
StatUnawaited ==
    /\ pc = "stat"
    /\ pc' = FirstFile
    /\ UNCHANGED <<deployment, kernel, subject, pid, path, unread, result, history>>

StatEnds ==
    /\ pc = "stat" /\ unread = {}
    /\ pc' = FirstFile
    /\ UNCHANGED <<deployment, kernel, subject, pid, path, unread, result, history>>

ControllerOf == [blkio |-> "io", shares |-> "cpu", soft_limit |-> "memory", cpuset |-> "cpuset"]

AfterFile == [blkio |-> "shares", shares |-> "soft_limit", soft_limit |-> "net", cpuset |-> "net"]

\* The list the kernel writes of a set of CPUs: its maximal intervals.
CpuList(s) == {i \in s \X s : i[1] <= i[2] /\ i[1]..i[2] \subseteq s
                              /\ i[1] - 1 \notin s /\ i[2] + 1 \notin s}

\* Mutated form of IntervalSize: the upper limit is not counted.
HalfOpen(i) == IF i[1] = i[2] THEN 1 ELSE i[2] - i[1]

\* A single number, or a lower limit below an upper one.
IntervalSize(i) == IF i[1] = i[2] THEN 1 ELSE i[2] - i[1] + 1

countCpusetCPUs(list) == MapThenSumSet(IntervalSize, list)

\* A file of the cgroup's own; one that is missing is logged.
ReadFile(f) ==
    /\ pc = f /\ f \in FileParts
    /\ LET seen == IF ControllerOf[f] \in enabled THEN Seen ELSE None IN
       /\ part' = [part EXCEPT ![f] = seen]
       /\ IF f = "cpuset" /\ seen # None
          THEN /\ cpus' \in (SUBSET CPUs) \ {{}}
               /\ online' = countCpusetCPUs(CpuList(cpus'))
          ELSE UNCHANGED <<cpus, online>>
    /\ pc' = AfterFile[f]
    /\ path' = IF pc' = "net" THEN None ELSE path
    /\ UNCHANGED <<deployment, kernel, subject, pid, unread, err, pidGen, gone, reused>>

\* Mutated form of Net: /proc/net/dev, which is the reader's own.
NetOfReader ==
    /\ pc = "net"
    /\ part' = [part EXCEPT !["net"] = [owner |-> Host, gen |-> 0]]
    /\ Return(FALSE)
    /\ UNCHANGED <<deployment, kernel, subject, pid, online, history>>

\* /proc/<pid>/net/dev.  Its error is the one Fetch returns.
Net ==
    /\ pc = "net"
    /\ LET owner == ProcAt(DetectHostRoot, pid) IN
       /\ owner # None
       /\ part' = [part EXCEPT !["net"] =
                     [owner |-> owner, gen |-> IF owner = Host THEN 0 ELSE gen[owner]]]
    /\ Return(FALSE)
    /\ UNCHANGED <<deployment, kernel, subject, pid, online, history>>

\* Mutated form of NetFails: the error is logged like those of the other parts.
NetOnlyLogs ==
    /\ pc = "net" /\ ProcAt(DetectHostRoot, pid) = None
    /\ Return(FALSE)
    /\ UNCHANGED <<deployment, kernel, subject, pid, part, online, history>>

NetFails ==
    /\ pc = "net" /\ ProcAt(DetectHostRoot, pid) = None
    /\ Return(TRUE)
    /\ UNCHANGED <<deployment, kernel, subject, pid, part, online, history>>

-----------------------------------------------------------------------------

Environment ==
    \/ \E c \in Container : Start(c) \/ Exit(c) \/ RemoveDir(c)
    \/ \E p \in Pid : HostProcess(p)

Fetch ==
    \/ \E c \in Container : Inspect(c)
    \/ Paths \/ PathsFail \/ Load \/ LoadFails
    \/ (\E f \in StatParts : Stat(f)) \/ StatEnds
    \/ (\E f \in FileParts : ReadFile(f))
    \/ Net \/ NetFails

Next == Environment \/ Fetch

Spec == Init /\ [][Next]_vars
-----------------------------------------------------------------------------
(* Properties.                                                             *)

Succeeded == pc = "idle" /\ subject # None /\ ~err

\* The parts this version of the fetcher reads of the enabled controllers.
Wanted ==
    (enabled \cap StatParts) \cup {"net"}
    \cup {f \in IF version = 1 THEN FileParts \ {"cpuset"} ELSE {"cpuset"} :
            ControllerOf[f] \in enabled}

\* A fetch without error has all its parts, and all of them are of the one
\* incarnation that was inspected, however many files vanished meanwhile with
\* only a line in the log: the last read finds out (cgroupv1.go:61-102,
\* cgroupv2.go:57-99).  A PID used again in so short a time is excepted.
FetchIsOneStep ==
    Succeeded /\ ~reused =>
        \A f \in Wanted : part[f] = [owner |-> subject, gen |-> pidGen]

\* A fetch fails only when the container did not run all through it, when its
\* path has a colon, or when the integration cannot see the host's cgroups: on
\* the host and in a container, on v1 and v2 (util.go:26-40,
\* cgroup_detect.go:42-107).
ErrorsJustified ==
    pc = "idle" /\ err => gone \/ subject \in Colon \/ private

\* The CPUs counted in the list are those of the cpuset (cgroup.go:45-77,
\* cgroupv2.go:83-86).
CpusCounted == part["cpuset"] # None => online = Cardinality(cpus)
-----------------------------------------------------------------------------
(* The fetch as one step.                                                  *)

Up == {c \in Container : Running(c)}

Hidden == IF private THEN Container ELSE Colon

Got == IF Succeeded THEN [f \in Wanted |-> part[f]] ELSE [f \in {} |-> f]

Atomic == INSTANCE AtomicFetch WITH
    Part      <- Parts,
    Value     <- Origin \cup {None},
    hidden    <- Hidden,
    wanted    <- Wanted,
    up        <- Up,
    busy      <- pc # "idle",
    inspected <- pidGen,
    stolen    <- reused,
    got       <- Got

\* The reads of a fetch are as good as one, at the instant of the last: what it
\* returns are the values of a container that runs at that instant as it was
\* inspected (metrics.go:120-150, cgroupv1.go:61-102, cgroupv2.go:57-99).
ImplementsAtomic == Atomic!Spec
-----------------------------------------------------------------------------
(* Inductive invariant.                                                    *)

\* What the fetch has yet to read.
Remaining ==
    CASE pc \in {"paths", "load"} -> Parts
      [] pc = "stat"       -> unread \cup FileParts \cup {"net"}
      [] pc = "blkio"      -> {"blkio", "shares", "soft_limit", "net"}
      [] pc = "shares"     -> {"shares", "soft_limit", "net"}
      [] pc = "soft_limit" -> {"soft_limit", "net"}
      [] pc = "cpuset"     -> {"cpuset", "net"}
      [] pc = "net"        -> {"net"}
      [] OTHER             -> {}

ReadIsWhole ==
    \A f \in Wanted \ Remaining : part[f] = [owner |-> subject, gen |-> pidGen]

\* While the PID inspected is still the container's, all that was read is of it.
FetchInv ==
    /\ \A p, q \in Pid : proc[p] = proc[q] /\ proc[p] \in Container => p = q
    /\ \A p \in Pid : proc[p] \in Container => dir[proc[p]]
    /\ pc # "idle" /\ pid = 0 => pc = "paths"
    /\ pc \in {"stat", "net"} \cup FileParts => Found
    /\ pc \in FileParts => pc \in IF version = 1 THEN FileParts \ {"cpuset"} ELSE {"cpuset"}
    /\ pc # "idle" /\ ~reused /\ pid # 0 =>
          \/ proc[pid] = None
          \/ /\ proc[pid] = subject /\ gen[subject] = pidGen
             /\ pc \in {"load", "stat"} \cup FileParts => path = subject
             /\ ReadIsWhole
    /\ FetchIsOneStep

\* While the container runs its PID is in use, and its cgroup there to be read.
ErrorInv ==
    /\ pc # "idle" /\ ~gone =>
          /\ pid \in Pid /\ proc[pid] = subject
          /\ pc \in {"load", "stat"} \cup FileParts => path = subject
    /\ ErrorsJustified

\* The count of the cpuset read is kept with it.
CpusetInv == part["cpuset"] # None => online = countCpusetCPUs(CpuList(cpus))
=============================================================================
