-------------------------- MODULE CgroupFetchProofs --------------------------
(* Theorems of CgroupFetch, for every set of containers, PIDs and          *)
(* controllers.                                                            *)
EXTENDS CgroupFetch, SumTheorems, TLAPS

(***************************************************************************)
(* Where the files are.                                                    *)
(***************************************************************************)

\* The integration finds the host's /proc and the host's hierarchy, wherever
\* it runs.
LEMMA HostFound ==
    ASSUME inContainer \in BOOLEAN
    PROVE  /\ MountPoint(DetectHostRoot) = "host"
           /\ \A p \in Pid : ProcAt(DetectHostRoot, p) = proc[p]
<1>1. DetectHostRoot = IF inContainer THEN "/host" ELSE "/"
  BY DEF DetectHostRoot, HasProc
<1>2. CASE inContainer
  <2> DEFINE found == {i \in DOMAIN Mounts : HasPrefix(Mounts[i].at, "/host")}
             i0 == CHOOSE i \in found : \A j \in found : i <= j
  <2>1. /\ DOMAIN Mounts = {1, 2}
        /\ Mounts[1].at = "/" /\ Mounts[2].at = "/host" /\ Mounts[2].of = "host"
    BY <1>2 DEF Mounts
  <2>2. found = {2}
    BY <2>1 DEF HasPrefix
  <2>3. i0 = 2
    BY <2>2
  <2>4. MountPoint("/host") = Mounts[i0].of
    BY DEF MountPoint
  <2>5. QED
    BY <1>1, <1>2, <2>1, <2>3, <2>4 DEF ProcAt
<1>3. CASE ~inContainer
  <2> DEFINE found == {i \in DOMAIN Mounts : HasPrefix(Mounts[i].at, "/")}
             i0 == CHOOSE i \in found : \A j \in found : i <= j
  <2>1. DOMAIN Mounts = {1, 2} /\ Mounts[1].of = "host"
    BY <1>3 DEF Mounts
  <2>2. found = {1, 2}
    BY <2>1 DEF HasPrefix
  <2>3. i0 = 1
    <3>1. 1 \in found /\ \A j \in found : 1 <= j
      BY <2>2
    <3>2. i0 \in found /\ \A j \in found : i0 <= j
      BY <3>1
    <3>3. QED
      BY <2>2, <3>2
  <2>4. MountPoint("/") = Mounts[i0].of
    BY DEF MountPoint
  <2>5. QED
    BY <1>1, <1>3, <2>1, <2>3, <2>4 DEF ProcAt
<1>4. QED
  BY <1>2, <1>3

(***************************************************************************)
(* Type correctness.                                                       *)
(***************************************************************************)

\* What a file shows has an origin, or the file is missing.
LEMMA SeenType ==
    ASSUME TypeOK, path # None
    PROVE  Seen \in Origin \cup {None}
<1>1. path = Host \/ path \in Container
  BY DEF TypeOK, Owner
<1>2. path \in Container => gen[path] \in Nat
  BY DEF TypeOK
<1>3. QED
  BY <1>1, <1>2 DEF Seen, Origin, Owner

\* Every step of the fetch finds what it needs, and every part read is of some
\* container or the host.
THEOREM TypeCorrect == Spec => []TypeOK
<1>1. Init => TypeOK
  <2> SUFFICES ASSUME Init PROVE TypeOK
    OBVIOUS
  <2>1. err \in BOOLEAN /\ gone \in BOOLEAN /\ reused \in BOOLEAN
    BY DEF Init
  <2>2. QED
    BY <2>1, FetchAssumption DEF Init, TypeOK, NothingRead, FileParts
<1>2. TypeOK /\ [Next]_vars => TypeOK'
  <2> SUFFICES ASSUME TypeOK, [Next]_vars PROVE TypeOK'
    OBVIOUS
  <2> USE DEF TypeOK, vars, deployment, kernel, fetch, result, history
  <2>1. ASSUME NEW c \in Container, Start(c) PROVE TypeOK'
    <3>1. PICK p \in Pid : Take(p, c)
      BY <2>1 DEF Start
    <3>2. proc' \in [Pid -> Owner \cup {None}] /\ reused' \in BOOLEAN
      BY <3>1 DEF Take, Owner
    <3>3. QED
      BY <2>1, <3>2 DEF Start
  <2>2. ASSUME NEW c \in Container, Exit(c) PROVE TypeOK'
    <3>1. gone' \in BOOLEAN
      BY <2>2 DEF Exit
    <3>2. QED
      BY <2>2, <3>1 DEF Exit
  <2>3. ASSUME NEW c \in Container, RemoveDir(c) PROVE TypeOK'
    BY <2>3 DEF RemoveDir
  <2>4. ASSUME NEW p \in Pid, HostProcess(p) PROVE TypeOK'
    <3>1. reused' \in BOOLEAN
      BY <2>4 DEF HostProcess, Take
    <3>2. QED
      BY <2>4, <3>1 DEF HostProcess, Take, Owner
  <2>5. ASSUME NEW c \in Container, Inspect(c) PROVE TypeOK'
    <3>1. pid' \in Pid \cup {0} /\ pidGen' \in Nat /\ gone' \in BOOLEAN
      <4>1. gone' \in {TRUE, FALSE}
        BY <2>5 DEF Inspect
      <4>2. pid' \in Pid \cup {0} /\ pidGen' \in Nat
        BY <2>5 DEF Inspect
      <4>3. QED
        BY <4>1, <4>2
    <3>2. err' \in BOOLEAN /\ reused' \in BOOLEAN
      BY <2>5 DEF Inspect
    <3>3. QED
      BY <2>5, <3>1, <3>2, FetchAssumption DEF Inspect, NothingRead, FileParts
  <2>6. CASE Paths
    <3>1. ProcAt(DetectHostRoot, pid) \in Owner \cup {None}
      BY DEF ProcAt
    <3>2. QED
      BY <2>6, <3>1 DEF Paths
  <2>7. CASE PathsFail
    <3>1. err' \in BOOLEAN
      BY <2>7 DEF PathsFail, Return
    <3>2. QED
      BY <2>7, <3>1 DEF PathsFail, Return, FileParts
  <2>8. CASE Load
    BY <2>8 DEF Load
  <2>9. CASE LoadFails
    <3>1. err' \in BOOLEAN
      BY <2>9 DEF LoadFails, Return
    <3>2. QED
      BY <2>9, <3>1 DEF LoadFails, Return, FileParts
  <2>10. ASSUME NEW f \in StatParts, Stat(f) PROVE TypeOK'
    <3>1. Seen \in Origin \cup {None}
      BY <2>10, SeenType DEF Stat
    <3>2. QED
      BY <2>10, <3>1 DEF Stat, Parts
  <2>11. CASE StatEnds
    BY <2>11 DEF StatEnds, FirstFile, FileParts
  <2>12. ASSUME NEW f \in FileParts, ReadFile(f) PROVE TypeOK'
    <3>1. Seen \in Origin \cup {None}
      BY <2>12, SeenType DEF ReadFile
    <3>2. PICK seen \in Origin \cup {None} : part' = [part EXCEPT ![f] = seen]
      BY <2>12, <3>1 DEF ReadFile
    <3>3. cpus' \in SUBSET CPUs
      BY <2>12 DEF ReadFile
    <3>4. pc' \in {"net"} \cup FileParts /\ path' \in Owner \cup {None} /\ (pc' # "net" => path' = path)
      BY <2>12 DEF ReadFile, AfterFile, FileParts
    <3>5. QED
      BY <2>12, <3>2, <3>3, <3>4 DEF ReadFile, Parts, FileParts
  <2>13. CASE Net
    <3>1. ProcAt(DetectHostRoot, pid) \in Owner \cup {None}
      BY DEF ProcAt
    <3> DEFINE owner == ProcAt(DetectHostRoot, pid)
               o == [owner |-> owner, gen |-> IF owner = Host THEN 0 ELSE gen[owner]]
    <3>2. o \in Origin /\ part' = [part EXCEPT !["net"] = o]
      <4>1. owner \in Owner
        BY <2>13, <3>1 DEF Net
      <4>2. owner # Host => gen[owner] \in Nat
        BY <4>1 DEF Owner
      <4>3. o \in Origin
        BY <4>1, <4>2 DEF Origin
      <4>4. QED
        BY <2>13, <4>3 DEF Net
    <3> HIDE DEF o
    <3>3. err' \in BOOLEAN
      BY <2>13 DEF Net, Return
    <3>4. QED
      BY <2>13, <3>2, <3>3 DEF Net, Return, Parts, FileParts
  <2>14. CASE NetFails
    <3>1. err' \in BOOLEAN
      BY <2>14 DEF NetFails, Return
    <3>2. QED
      BY <2>14, <3>1 DEF NetFails, Return, FileParts
  <2>15. CASE UNCHANGED vars
    BY <2>15
  <2>16. QED
    BY <2>1, <2>2, <2>3, <2>4, <2>5, <2>6, <2>7, <2>8, <2>9, <2>10, <2>11, <2>12, <2>13, <2>14, <2>15 DEF Next, Environment, Fetch
<1>3. QED
  BY <1>1, <1>2, PTL DEF Spec

(***************************************************************************)
(* A fetch is as good as one step.                                         *)
(***************************************************************************)

\* What is yet to be read at each point of the fetch.
LEMMA RemainingIs ==
    /\ pc \in {"paths", "load"} => Remaining = Parts
    /\ pc = "stat" => Remaining = unread \cup FileParts \cup {"net"}
    /\ pc = "blkio" => Remaining = {"blkio", "shares", "soft_limit", "net"}
    /\ pc = "shares" => Remaining = {"shares", "soft_limit", "net"}
    /\ pc = "soft_limit" => Remaining = {"soft_limit", "net"}
    /\ pc = "cpuset" => Remaining = {"cpuset", "net"}
    /\ pc = "net" => Remaining = {"net"}
BY DEF Remaining

\* The parts wanted exist, and those of files are of this version and of enabled
\* controllers.
LEMMA WantedIs ==
    ASSUME TypeOK
    PROVE  /\ Wanted \subseteq Parts
           /\ version = 1 => "cpuset" \notin Wanted
           /\ version = 2 => Wanted \cap FileParts \subseteq {"cpuset"}
           /\ \A f \in FileParts : f \in Wanted => ControllerOf[f] \in enabled
           /\ Wanted \cap StatParts \subseteq enabled
BY DEF TypeOK, Wanted, Parts, StatParts, FileParts

\* While the container runs, the files under its path have its present counters.
LEMMA SeesSubject ==
    ASSUME TypeOK, FetchInv, Found, pid \in Pid, subject \in Container,
           proc[pid] = subject, gen[subject] = pidGen, path = subject
    PROVE  Seen = [owner |-> subject, gen |-> pidGen]
<1>1. subject # Host
  BY FetchAssumption
<1>2. dir[subject]
  BY DEF FetchInv
<1>3. QED
  BY <1>1, <1>2 DEF Seen

\* While the inspected PID is the container's, what was read is of that incarnation.
THEOREM FetchInvCorrect == Spec => []FetchInv
<1>1. Init => FetchInv
  BY FetchAssumption DEF Init, FetchInv, FetchIsOneStep, Succeeded, FileParts
<1>2. TypeOK /\ FetchInv /\ [Next]_vars => FetchInv'
  <2> SUFFICES ASSUME TypeOK, FetchInv, [Next]_vars PROVE FetchInv'
    OBVIOUS
  <2> USE DEF TypeOK, FetchInv, vars, deployment, kernel, fetch, result, history
  <2>1. ASSUME NEW c \in Container, Start(c) PROVE FetchInv'
    <3>1. PICK p \in Pid : Take(p, c)
      BY <2>1 DEF Start
    <3>2. proc' = [proc EXCEPT ![p] = c] /\ reused' = (reused \/ (pc # "idle" /\ p = pid))
      BY <3>1 DEF Take
    <3>3. \A q \in Pid : proc[q] # c
      BY <2>1 DEF Start, Running
    <3>4. /\ gen' = [gen EXCEPT ![c] = gen[c] + 1] /\ dir' = [dir EXCEPT ![c] = TRUE]
          /\ UNCHANGED <<version, enabled, inContainer, private, pc, subject, pid, path, unread, part, err, pidGen>>
      BY <2>1 DEF Start
    <3>5. \A q, r \in Pid : proc'[q] = proc'[r] /\ proc'[q] \in Container => q = r
      BY <3>2, <3>3
    <3>6. \A q \in Pid : proc'[q] \in Container => dir'[proc'[q]]
      BY <3>2, <3>4
    <3>7. Found' = Found /\ Wanted' = Wanted /\ Remaining' = Remaining
      BY <3>4 DEF Found, MountPoint, Mounts, DetectHostRoot, HasProc, Wanted, Remaining
    <3>8. FetchIsOneStep'
      BY <3>2, <3>4, <3>7 DEF FetchIsOneStep, Succeeded
    <3>9. ASSUME pc # "idle", ~reused', pid # 0
          PROVE  \/ proc'[pid] = None
                 \/ /\ proc'[pid] = subject /\ gen'[subject] = pidGen
                    /\ pc \in {"load", "stat"} \cup FileParts => path = subject
                    /\ ReadIsWhole
      <4>1. p # pid /\ ~reused /\ pid \in Pid
        BY <3>2, <3>9
      <4>2. proc'[pid] = proc[pid]
        BY <3>2, <4>1
      <4>3. proc[pid] = subject => c # subject
        BY <3>3, <4>1
      <4>4. proc[pid] = subject => gen'[subject] = gen[subject]
        <5>1. gen \in [Container -> Nat] /\ subject \in Container
          BY <3>9
        <5>2. QED
          BY <3>4, <4>3, <5>1
      <4>5. QED
        BY <3>9, <4>1, <4>2, <4>4
    <3>10. ReadIsWhole' = ReadIsWhole
      BY <3>4, <3>7 DEF ReadIsWhole
    <3>11. QED
      BY <3>4, <3>5, <3>6, <3>7, <3>8, <3>9, <3>10
  <2>2. ASSUME NEW c \in Container, Exit(c) PROVE FetchInv'
    <3>1. /\ proc' = [p \in Pid |-> IF proc[p] = c THEN None ELSE proc[p]]
          /\ UNCHANGED <<version, enabled, inContainer, private, gen, dir, pc, subject, pid, path, unread, part, err, pidGen, reused>>
      BY <2>2 DEF Exit
    <3>2. Found' = Found /\ Wanted' = Wanted /\ Remaining' = Remaining
      BY <3>1 DEF Found, MountPoint, Mounts, DetectHostRoot, HasProc, Wanted, Remaining
    <3>3. FetchIsOneStep' /\ ReadIsWhole' = ReadIsWhole
      BY <3>1, <3>2 DEF FetchIsOneStep, Succeeded, ReadIsWhole
    <3>4. \A p \in Pid : proc'[p] \in {None, proc[p]}
      BY <3>1
    <3>5. None \notin Container
      BY FetchAssumption
    <3>6. \A p, q \in Pid : proc'[p] = proc'[q] /\ proc'[p] \in Container => p = q
      BY <3>4, <3>5
    <3>7. \A p \in Pid : proc'[p] \in Container => dir'[proc'[p]]
      BY <3>1, <3>4, <3>5
    <3>8. QED
      BY <3>1, <3>2, <3>3, <3>4, <3>6, <3>7
  <2>3. ASSUME NEW c \in Container, RemoveDir(c) PROVE FetchInv'
    <3>1. /\ dir' = [dir EXCEPT ![c] = FALSE] /\ \A p \in Pid : proc[p] # c
          /\ UNCHANGED <<version, enabled, inContainer, private, proc, gen, pc, subject, pid, path, unread, part, err, pidGen, reused>>
      BY <2>3 DEF RemoveDir, Running
    <3>2. Found' = Found /\ Wanted' = Wanted /\ Remaining' = Remaining
      BY <3>1 DEF Found, MountPoint, Mounts, DetectHostRoot, HasProc, Wanted, Remaining
    <3>3. FetchIsOneStep' /\ ReadIsWhole' = ReadIsWhole
      BY <3>1, <3>2 DEF FetchIsOneStep, Succeeded, ReadIsWhole
    <3>4. QED
      BY <3>1, <3>2, <3>3
  <2>4. ASSUME NEW p \in Pid, HostProcess(p) PROVE FetchInv'
    <3>1. UNCHANGED <<version, enabled, inContainer, private, gen, dir, pc, subject, pid, path, unread, part, err, pidGen>>
      BY <2>4 DEF HostProcess
    <3>2. Found' = Found /\ Wanted' = Wanted /\ Remaining' = Remaining
      BY <3>1 DEF Found, MountPoint, Mounts, DetectHostRoot, HasProc, Wanted, Remaining
    <3>3. ReadIsWhole' = ReadIsWhole
      BY <3>1, <3>2 DEF ReadIsWhole
    <3>4. CASE Take(p, Host)
      <4>1. proc[p] = None /\ proc' = [proc EXCEPT ![p] = Host] /\ reused' = (reused \/ (pc # "idle" /\ p = pid))
        BY <3>4 DEF Take
      <4>2. FetchIsOneStep'
        BY <3>1, <3>2, <4>1 DEF FetchIsOneStep, Succeeded
      <4>3. QED
        BY <3>1, <3>2, <3>3, <4>1, <4>2, FetchAssumption
    <3>5. CASE proc[p] = Host /\ proc' = [proc EXCEPT ![p] = None] /\ UNCHANGED reused
      <4>1. FetchIsOneStep'
        BY <3>1, <3>2, <3>5 DEF FetchIsOneStep, Succeeded
      <4>2. QED
        BY <3>1, <3>2, <3>3, <3>5, <4>1, FetchAssumption
    <3>6. QED
      BY <2>4, <3>4, <3>5 DEF HostProcess
  <2>5. ASSUME NEW c \in Container, Inspect(c) PROVE FetchInv'
    <3>1. pc' = "paths" /\ subject' = c /\ UNCHANGED <<deployment, kernel>>
      BY <2>5 DEF Inspect
    <3>2. ReadIsWhole'
      BY <3>1, RemainingIs, WantedIs DEF ReadIsWhole, Remaining, Wanted
    <3>3. pid' # 0 => proc'[pid'] = subject' /\ gen'[subject'] = pidGen'
      <4>1. proc' = proc /\ gen' = gen
        BY <3>1
      <4>2. CASE \E p \in Pid : proc[p] = c /\ pid' = p /\ pidGen' = gen[c] /\ gone' = FALSE
        BY <3>1, <4>1, <4>2
      <4>3. CASE ~Running(c) /\ pid' = 0 /\ pidGen' = 0 /\ gone' = TRUE
        BY <4>3
      <4>4. QED
        BY <2>5, <4>2, <4>3 DEF Inspect
    <3>4. FetchIsOneStep'
      BY <3>1 DEF FetchIsOneStep, Succeeded
    <3>5. QED
      BY <3>1, <3>2, <3>3, <3>4 DEF FileParts
  <2>6. CASE Paths
    <3>1. /\ pc = "paths" /\ pc' = "load"
          /\ UNCHANGED <<version, enabled, inContainer, private, proc, gen, dir, subject, pid, part, err, pidGen, reused>>
      BY <2>6 DEF Paths
    <3>2. pid \in Pid /\ path' = proc[pid] /\ path' # None
      BY <2>6, HostFound DEF Paths, ProcAt
    <3>3. pid # 0
      BY <3>2, FetchAssumption
    <3>4. ReadIsWhole'
      BY <3>1, WantedIs DEF ReadIsWhole, Remaining, Wanted
    <3>5. FetchIsOneStep'
      BY <3>1 DEF FetchIsOneStep, Succeeded
    <3>6. QED
      BY <3>1, <3>2, <3>3, <3>4, <3>5 DEF FileParts
  <2>7. CASE PathsFail
    <3>1. FetchIsOneStep' /\ pc' = "idle" /\ UNCHANGED kernel
      BY <2>7 DEF PathsFail, Return, FetchIsOneStep, Succeeded
    <3>2. QED
      BY <3>1 DEF FileParts
  <2>8. CASE Load
    <3>1. /\ pc = "load" /\ pc' = "stat" /\ unread' = enabled \cap StatParts
          /\ UNCHANGED <<version, enabled, inContainer, private, proc, gen, dir, subject, pid, path, part, err, pidGen, reused>>
      BY <2>8 DEF Load
    <3>2. Found /\ Found'
      BY <2>8, <3>1 DEF Load, Seen, Found, MountPoint, Mounts, DetectHostRoot, HasProc
    <3>3. Wanted' = Wanted /\ Remaining' = (enabled \cap StatParts) \cup FileParts \cup {"net"}
      BY <3>1 DEF Wanted, Remaining
    <3>4. ReadIsWhole'
      BY <3>1, <3>3, WantedIs DEF ReadIsWhole, Parts
    <3>5. FetchIsOneStep'
      BY <3>1 DEF FetchIsOneStep, Succeeded
    <3>6. QED
      BY <3>1, <3>2, <3>4, <3>5 DEF FileParts
  <2>9. CASE LoadFails
    <3>1. FetchIsOneStep' /\ pc' = "idle" /\ UNCHANGED kernel
      BY <2>9 DEF LoadFails, Return, FetchIsOneStep, Succeeded
    <3>2. QED
      BY <3>1 DEF FileParts
  <2>10. ASSUME NEW f \in StatParts, Stat(f) PROVE FetchInv'
    <3>1. /\ pc = "stat" /\ pc' = "stat" /\ f \in unread /\ unread' = unread \ {f}
          /\ part' = [part EXCEPT ![f] = Seen]
          /\ UNCHANGED <<version, enabled, inContainer, private, proc, gen, dir, subject, pid, path, err, pidGen, reused>>
      BY <2>10 DEF Stat
    <3>2. Found' = Found /\ Wanted' = Wanted
      BY <3>1 DEF Found, MountPoint, Mounts, DetectHostRoot, HasProc, Wanted
    <3>3. FetchIsOneStep'
      BY <3>1 DEF FetchIsOneStep, Succeeded
    <3>4. Wanted \ Remaining' \subseteq (Wanted \ Remaining) \cup {f}
      BY <3>1 DEF Remaining
    <3>5. ASSUME Found, pid \in Pid, proc[pid] = subject, gen[subject] = pidGen, path = subject, ReadIsWhole
          PROVE  ReadIsWhole'
      <4>1. Seen = [owner |-> subject, gen |-> pidGen]
        BY <3>1, <3>5, SeesSubject
      <4>2. \A g \in Wanted : g \in Parts
        BY WantedIs
      <4>3. QED
        BY <3>1, <3>2, <3>4, <3>5, <4>1, <4>2 DEF ReadIsWhole
    <3>6. QED
      BY <3>1, <3>2, <3>3, <3>5
  <2>11. CASE StatEnds
    <3>1. /\ pc = "stat" /\ unread = {} /\ pc' = FirstFile
          /\ UNCHANGED <<version, enabled, inContainer, private, proc, gen, dir, subject, pid, path, unread, part, err, pidGen, reused>>
      BY <2>11 DEF StatEnds
    <3>2. Found' = Found /\ Wanted' = Wanted
      BY <3>1 DEF Found, MountPoint, Mounts, DetectHostRoot, HasProc, Wanted
    <3>3. pc' = IF version = 1 THEN "blkio" ELSE "cpuset"
      BY <3>1 DEF FirstFile
    <3>4. FetchIsOneStep'
      BY <3>3 DEF FetchIsOneStep, Succeeded
    <3>5. Wanted \ Remaining' \subseteq Wanted \ Remaining
      <4>1. Remaining = FileParts \cup {"net"}
        BY <3>1 DEF Remaining
      <4>2. CASE version = 1
        <5>1. Remaining' = {"blkio", "shares", "soft_limit", "net"}
          BY <3>3, <4>2 DEF Remaining
        <5>2. QED
          BY <4>1, <4>2, <5>1, WantedIs DEF FileParts
      <4>3. CASE version = 2
        <5>1. Remaining' = {"cpuset", "net"}
          BY <3>3, <4>3 DEF Remaining
        <5>2. QED
          BY <4>1, <4>3, <5>1, WantedIs DEF FileParts
      <4>4. QED
        BY <4>2, <4>3
    <3>6. ReadIsWhole => ReadIsWhole'
      BY <3>1, <3>2, <3>5 DEF ReadIsWhole
    <3>7. QED
      BY <3>1, <3>2, <3>3, <3>4, <3>6 DEF FileParts
  <2>12. ASSUME NEW f \in FileParts, ReadFile(f) PROVE FetchInv'
    <3>1. /\ pc = f /\ pc' = AfterFile[f] /\ path' = IF pc' = "net" THEN None ELSE path
          /\ part' = [part EXCEPT ![f] = IF ControllerOf[f] \in enabled THEN Seen ELSE None]
          /\ UNCHANGED <<version, enabled, inContainer, private, proc, gen, dir, subject, pid, unread, err, pidGen, reused>>
      BY <2>12 DEF ReadFile
    <3>2. Found' = Found /\ Wanted' = Wanted
      BY <3>1 DEF Found, MountPoint, Mounts, DetectHostRoot, HasProc, Wanted
    <3>3. \/ f = "blkio" /\ pc' = "shares"
          \/ f = "shares" /\ pc' = "soft_limit"
          \/ f \in {"soft_limit", "cpuset"} /\ pc' = "net"
      <4>1. /\ AfterFile["blkio"] = "shares" /\ AfterFile["shares"] = "soft_limit"
            /\ AfterFile["soft_limit"] = "net" /\ AfterFile["cpuset"] = "net"
        BY DEF AfterFile
      <4>2. QED
        BY <3>1, <4>1 DEF FileParts
    <3>4. FetchIsOneStep'
      BY <3>3 DEF FetchIsOneStep, Succeeded
    <3>5. Remaining' = Remaining \ {f}
      BY <3>1, <3>3 DEF Remaining
    <3>6. Found /\ pid # 0 /\ pid \in Pid /\ subject \in Container
      BY <3>1 DEF FileParts
    <3>7. ASSUME proc[pid] = subject, gen[subject] = pidGen, path = subject, ReadIsWhole
          PROVE  ReadIsWhole'
      <4>1. Seen = [owner |-> subject, gen |-> pidGen]
        BY <3>6, <3>7, SeesSubject
      <4>2. \A g \in Wanted : g \in Parts /\ (g = f => ControllerOf[f] \in enabled)
        BY WantedIs
      <4>3. QED
        BY <3>1, <3>2, <3>5, <3>7, <4>1, <4>2 DEF ReadIsWhole
    <3>8. QED
      BY <3>1, <3>2, <3>3, <3>4, <3>6, <3>7 DEF FileParts
  <2>13. CASE Net
    <3>1. /\ pc = "net" /\ pc' = "idle"
          /\ UNCHANGED <<version, enabled, inContainer, private, proc, gen, dir, subject, pid, pidGen, reused>>
      BY <2>13 DEF Net, Return
    <3>2. pid \in Pid /\ proc[pid] # None /\ ProcAt(DetectHostRoot, pid) = proc[pid]
      BY <2>13, HostFound DEF Net, ProcAt
    <3>3. part' = [part EXCEPT !["net"] =
                     [owner |-> proc[pid], gen |-> IF proc[pid] = Host THEN 0 ELSE gen[proc[pid]]]]
      BY <2>13, <3>2 DEF Net
    <3>4. ASSUME ~reused
          PROVE  \A f \in Wanted : part'[f] = [owner |-> subject, gen |-> pidGen]
      <4>1. pid # 0 /\ subject \in Container /\ subject # Host
        BY <3>1, <3>2, FetchAssumption
      <4>2. proc[pid] = subject /\ gen[subject] = pidGen /\ ReadIsWhole
        BY <3>1, <3>2, <3>4, <4>1
      <4>3. Remaining = {"net"}
        BY <3>1 DEF Remaining
      <4>4. \A g \in Wanted : g \in Parts
        BY WantedIs
      <4>5. QED
        BY <3>3, <4>1, <4>2, <4>3, <4>4 DEF ReadIsWhole
    <3>5. FetchIsOneStep'
      BY <3>1, <3>4 DEF FetchIsOneStep, Wanted
    <3>6. QED
      BY <3>1, <3>5 DEF FileParts
  <2>14. CASE NetFails
    <3>1. FetchIsOneStep' /\ pc' = "idle" /\ UNCHANGED kernel
      BY <2>14 DEF NetFails, Return, FetchIsOneStep, Succeeded
    <3>2. QED
      BY <3>1 DEF FileParts
  <2>15. CASE UNCHANGED vars
    BY <2>15 DEF Found, MountPoint, Mounts, DetectHostRoot, HasProc, Wanted, Remaining, ReadIsWhole, FetchIsOneStep, Succeeded
  <2>16. QED
    BY <2>1, <2>2, <2>3, <2>4, <2>5, <2>6, <2>7, <2>8, <2>9, <2>10, <2>11, <2>12, <2>13, <2>14, <2>15 DEF Next, Environment, Fetch
<1>3. QED
  BY <1>1, <1>2, TypeCorrect, PTL DEF Spec

\* A fetch without error is whole and of the one incarnation inspected, as if it
\* had been made in one step.
THEOREM FetchIsOneStepCorrect == Spec => []FetchIsOneStep
<1>1. FetchInv => FetchIsOneStep
  BY DEF FetchInv
<1>2. QED
  BY <1>1, FetchInvCorrect, PTL

(***************************************************************************)
(* A fetch fails only when it has to.                                      *)
(***************************************************************************)

\* While the container runs, the cgroup of its path is there to be read.
LEMMA SubjectSeen ==
    ASSUME TypeOK, FetchInv, ~private, pid \in Pid, proc[pid] = subject,
           subject \in Container, path = subject
    PROVE  Seen # None
<1>1. Found
  BY HostFound DEF TypeOK, Found
<1>2. dir[subject] /\ subject # Host
  BY FetchAssumption DEF FetchInv
<1>3. gen[subject] \in Nat
  BY DEF TypeOK
<1>4. Seen = [owner |-> subject, gen |-> gen[subject]]
  BY <1>1, <1>2 DEF Seen
<1>5. [owner |-> subject, gen |-> gen[subject]] \in Origin
  BY <1>3 DEF Origin, Owner
<1>6. QED
  BY <1>4, <1>5, NoOrigin

\* While the container runs, the PID inspected is its own and so is the path.
THEOREM ErrorInvCorrect == Spec => []ErrorInv
<1>1. Init => ErrorInv
  BY DEF Init, ErrorInv, ErrorsJustified
<1>2. TypeOK /\ FetchInv /\ ErrorInv /\ [Next]_vars => ErrorInv'
  <2> SUFFICES ASSUME TypeOK, FetchInv, ErrorInv, [Next]_vars PROVE ErrorInv'
    OBVIOUS
  <2> USE DEF ErrorInv, vars, deployment, kernel, fetch, result, history
  <2>1. ASSUME NEW c \in Container, Start(c) PROVE ErrorInv'
    <3>1. PICK p \in Pid : Take(p, c)
      BY <2>1 DEF Start
    <3>2. UNCHANGED <<private, pc, subject, pid, path, err, gone>>
      BY <2>1 DEF Start
    <3>3. ErrorsJustified'
      BY <3>2 DEF ErrorsJustified
    <3>4. proc[p] = None /\ proc' = [proc EXCEPT ![p] = c]
      BY <3>1 DEF Take
    <3>5. pc # "idle" /\ ~gone => proc'[pid] = subject
      BY <3>4 DEF TypeOK
    <3>6. QED
      BY <3>2, <3>3, <3>5
  <2>2. ASSUME NEW c \in Container, Exit(c) PROVE ErrorInv'
    <3>1. /\ UNCHANGED <<private, pc, subject, pid, path, err>>
          /\ gone' = (gone \/ (pc # "idle" /\ c = subject))
          /\ proc' = [p \in Pid |-> IF proc[p] = c THEN None ELSE proc[p]]
      BY <2>2 DEF Exit
    <3>2. ErrorsJustified'
      BY <3>1 DEF ErrorsJustified
    <3>3. QED
      BY <3>1, <3>2
  <2>3. ASSUME NEW c \in Container, RemoveDir(c) PROVE ErrorInv'
    BY <2>3 DEF RemoveDir, ErrorsJustified
  <2>4. ASSUME NEW p \in Pid, HostProcess(p) PROVE ErrorInv'
    <3>1. UNCHANGED <<private, pc, subject, pid, path, err, gone>>
      BY <2>4 DEF HostProcess
    <3>2. ErrorsJustified'
      BY <3>1 DEF ErrorsJustified
    <3>3. /\ proc[p] \notin Container
          /\ \E o : proc' = [proc EXCEPT ![p] = o]
      BY <2>4, FetchAssumption DEF HostProcess, Take
    <3>4. pc # "idle" => subject \in Container
      BY DEF TypeOK
    <3>5. pc # "idle" /\ ~gone => proc'[pid] = subject
      BY <3>3, <3>4
    <3>6. QED
      BY <3>1, <3>2, <3>5
  <2>5. ASSUME NEW c \in Container, Inspect(c) PROVE ErrorInv'
    <3>1. pc' = "paths" /\ subject' = c /\ proc' = proc
      BY <2>5 DEF Inspect
    <3>2. ErrorsJustified'
      BY <3>1 DEF ErrorsJustified
    <3>3. ~gone' => pid' \in Pid /\ proc[pid'] = c
      <4>1. CASE \E p \in Pid : proc[p] = c /\ pid' = p /\ pidGen' = gen[c] /\ gone' = FALSE
        BY <4>1
      <4>2. CASE ~Running(c) /\ pid' = 0 /\ pidGen' = 0 /\ gone' = TRUE
        BY <4>2
      <4>3. QED
        BY <2>5, <4>1, <4>2 DEF Inspect
    <3>4. QED
      BY <3>1, <3>2, <3>3 DEF FileParts
  <2>6. CASE Paths
    <3>1. pc = "paths" /\ pc' = "load" /\ UNCHANGED <<proc, subject, pid, gone>>
      BY <2>6 DEF Paths
    <3>2. pid \in Pid => path' = proc[pid]
      BY <2>6, HostFound DEF Paths, TypeOK
    <3>3. ErrorsJustified'
      BY <3>1 DEF ErrorsJustified
    <3>4. QED
      BY <3>1, <3>2, <3>3
  <2>7. CASE PathsFail
    <3>1. /\ pc = "paths" /\ pc' = "idle" /\ UNCHANGED <<subject, pid, gone>>
          /\ ProcAt(DetectHostRoot, pid) \in Colon \cup {None}
      BY <2>7 DEF PathsFail, Return
    <3>2. ASSUME ~gone PROVE subject \in Colon
      <4>1. pid \in Pid /\ proc[pid] = subject /\ subject \in Container
        BY <3>1, <3>2 DEF TypeOK
      <4>2. ProcAt(DetectHostRoot, pid) = subject
        BY <4>1, HostFound DEF TypeOK
      <4>3. QED
        BY <3>1, <4>1, <4>2, FetchAssumption
    <3>3. QED
      BY <3>1, <3>2 DEF ErrorsJustified, FileParts
  <2>8. CASE Load
    BY <2>8 DEF Load, ErrorsJustified
  <2>9. CASE LoadFails
    <3>1. pc = "load" /\ Seen = None /\ pc' = "idle" /\ UNCHANGED <<private, subject, pid, gone>>
      BY <2>9 DEF LoadFails, Return
    <3>2. ASSUME ~gone PROVE private
      <4>1. pid \in Pid /\ proc[pid] = subject /\ path = subject /\ subject \in Container
        BY <3>1, <3>2 DEF TypeOK
      <4>2. QED
        BY <3>1, <4>1, SubjectSeen DEF TypeOK
    <3>3. QED
      BY <3>1, <3>2 DEF ErrorsJustified, FileParts
  <2>10. ASSUME NEW f \in StatParts, Stat(f) PROVE ErrorInv'
    BY <2>10 DEF Stat, ErrorsJustified
  <2>11. CASE StatEnds
    <3>1. pc = "stat" /\ pc' \in FileParts /\ UNCHANGED <<proc, subject, pid, path, gone>>
      BY <2>11 DEF StatEnds, FirstFile, FileParts
    <3>2. ErrorsJustified'
      BY <3>1 DEF ErrorsJustified, FileParts
    <3>3. QED
      BY <3>1, <3>2 DEF FileParts
  <2>12. ASSUME NEW f \in FileParts, ReadFile(f) PROVE ErrorInv'
    <3>1. /\ pc = f /\ pc' = AfterFile[f] /\ path' = IF pc' = "net" THEN None ELSE path
          /\ UNCHANGED <<proc, subject, pid, gone>>
      BY <2>12 DEF ReadFile
    <3>2. pc' \in {"net"} \cup FileParts /\ pc # "idle" /\ pc' # "idle"
      <4>1. /\ AfterFile["blkio"] = "shares" /\ AfterFile["shares"] = "soft_limit"
            /\ AfterFile["soft_limit"] = "net" /\ AfterFile["cpuset"] = "net"
        BY DEF AfterFile
      <4>2. QED
        BY <3>1, <4>1 DEF FileParts
    <3>3. ErrorsJustified'
      BY <3>2 DEF ErrorsJustified
    <3>4. pc' \in FileParts => path' = path
      BY <3>1, <3>2 DEF FileParts
    <3>5. pc' \notin {"load", "stat"}
      BY <3>2 DEF FileParts
    <3>6. QED
      BY <3>1, <3>2, <3>3, <3>4, <3>5
  <2>13. CASE Net
    <3>1. pc' = "idle" /\ ~err'
      BY <2>13 DEF Net, Return
    <3>2. QED
      BY <3>1 DEF ErrorsJustified, FileParts
  <2>14. CASE NetFails
    <3>1. /\ pc = "net" /\ pc' = "idle" /\ UNCHANGED <<subject, pid, gone>>
          /\ ProcAt(DetectHostRoot, pid) = None
      BY <2>14 DEF NetFails, Return
    <3>2. gone
      <4>1. SUFFICES ASSUME ~gone PROVE FALSE
        OBVIOUS
      <4>2. pid \in Pid /\ proc[pid] = subject /\ subject \in Container
        BY <3>1, <4>1 DEF TypeOK
      <4>3. QED
        BY <3>1, <4>2, HostFound, FetchAssumption DEF TypeOK
    <3>3. QED
      BY <3>1, <3>2 DEF ErrorsJustified, FileParts
  <2>15. CASE UNCHANGED vars
    BY <2>15 DEF ErrorsJustified
  <2>16. QED
    BY <2>1, <2>2, <2>3, <2>4, <2>5, <2>6, <2>7, <2>8, <2>9, <2>10, <2>11, <2>12, <2>13, <2>14, <2>15 DEF Next, Environment, Fetch
<1>3. QED
  BY <1>1, <1>2, TypeCorrect, FetchInvCorrect, PTL DEF Spec

\* Wherever the integration runs, a fetch fails only when the container did not
\* run all through it, has a colon in its path, or is hidden by a namespace.
THEOREM ErrorsJustifiedCorrect == Spec => []ErrorsJustified
<1>1. ErrorInv => ErrorsJustified
  BY DEF ErrorInv
<1>2. QED
  BY <1>1, ErrorInvCorrect, PTL

(***************************************************************************)
(* The count of a cpuset's CPUs.                                           *)
(***************************************************************************)

\* The CPUs of an interval of a cpuset's list.
CPUsOf(i) == i[1]..i[2]

\* Two intervals of a list have no CPU in common.
LEMMA IntervalsDisjoint ==
    ASSUME NEW s, s \subseteq Nat, NEW i \in CpuList(s), NEW j \in CpuList(s),
           NEW k \in CPUsOf(i), k \in CPUsOf(j)
    PROVE  i = j
<1>1. /\ i \in s \X s /\ i[1]..i[2] \subseteq s /\ i[1] - 1 \notin s /\ i[2] + 1 \notin s
      /\ j \in s \X s /\ j[1]..j[2] \subseteq s /\ j[1] - 1 \notin s /\ j[2] + 1 \notin s
  BY DEF CpuList
<1>2. i[1] \in Nat /\ i[2] \in Nat /\ j[1] \in Nat /\ j[2] \in Nat /\ k \in Int
  <2>1. i[1] \in s /\ i[2] \in s /\ j[1] \in s /\ j[2] \in s /\ k \in s
    BY <1>1 DEF CPUsOf
  <2>2. i[1] \in Nat /\ i[2] \in Nat /\ j[1] \in Nat /\ j[2] \in Nat /\ k \in Nat
    BY <2>1
  <2>3. QED
    BY <2>2
<1>3. i[1] <= k /\ k <= i[2] /\ j[1] <= k /\ k <= j[2]
  BY <1>2 DEF CPUsOf
<1>4. ~(i[1] < j[1])
  <2>1. i[1] < j[1] => j[1] - 1 \in i[1]..i[2]
    BY <1>2, <1>3
  <2>2. QED
    BY <1>1, <2>1
<1>5. ~(j[1] < i[1])
  <2>1. j[1] < i[1] => i[1] - 1 \in j[1]..j[2]
    BY <1>2, <1>3
  <2>2. QED
    BY <1>1, <2>1
<1>6. ~(i[2] < j[2])
  <2>1. i[2] < j[2] => i[2] + 1 \in j[1]..j[2]
    BY <1>2, <1>3
  <2>2. QED
    BY <1>1, <2>1
<1>7. ~(j[2] < i[2])
  <2>1. j[2] < i[2] => j[2] + 1 \in i[1]..i[2]
    BY <1>2, <1>3
  <2>2. QED
    BY <1>1, <2>1
<1>8. i[1] = j[1] /\ i[2] = j[2]
  BY <1>2, <1>4, <1>5, <1>6, <1>7
<1>9. QED
  BY <1>1, <1>8

\* The intervals of the list have all the CPUs, and no others.
LEMMA IntervalsCover ==
    ASSUME NEW s, s \subseteq Nat, IsFiniteSet(s)
    PROVE  UNION {CPUsOf(i) : i \in CpuList(s)} = s
<1>1. \A i \in CpuList(s) : CPUsOf(i) \subseteq s
  BY DEF CpuList, CPUsOf
<1>2. ASSUME NEW n \in s PROVE \E i \in CpuList(s) : n \in CPUsOf(i)
  <2> DEFINE A == {m \in Nat : m <= n /\ m..n \subseteq s}
             B == {m \in Nat : n <= m /\ m + 1 \notin s}
  <2>1. n \in A
    BY <1>2
  <2>2. PICK a \in A : \A m \in A : a <= m
    <3>1. A \in SUBSET Nat /\ A # {}
      BY <2>1
    <3> HIDE DEF A
    <3> QED
      BY <3>1, SmallestNumber
  <2>3. a \in Nat /\ a <= n /\ a..n \subseteq s /\ a \in s
    OBVIOUS
  <2>4. a - 1 \notin s
    <3>1. SUFFICES ASSUME a - 1 \in s PROVE FALSE
      OBVIOUS
    <3>2. a - 1 \in Nat /\ \A k \in (a - 1)..n : k = a - 1 \/ k \in a..n
      BY <3>1, <2>3
    <3>3. a - 1 \in A
      BY <3>1, <3>2, <2>3
    <3>4. QED
      BY <3>3, <2>2, <2>3
  <2>5. PICK b \in Nat : \A m \in s : m <= b
    <3>1. \A m \in s : m \in Nat
      OBVIOUS
    <3>2. QED
      BY <3>1, FiniteBounded
  <2>6. b \in B
    BY <2>5
  <2>7. PICK z \in B : \A m \in B : z <= m
    <3>1. B \in SUBSET Nat /\ B # {}
      BY <2>6
    <3> HIDE DEF B
    <3> QED
      BY <3>1, SmallestNumber
  <2>8. z \in Nat /\ n <= z /\ z + 1 \notin s
    OBVIOUS
  <2>9. \A k \in n..z : k \in s
    <3> SUFFICES ASSUME NEW k \in n..z, k # n PROVE k \in s
      BY <1>2
    <3>1. k - 1 \in Nat /\ n <= k - 1 /\ k - 1 < z
      BY <2>8, <1>2
    <3>2. k - 1 \notin B
      BY <2>7, <2>8, <3>1
    <3>3. QED
      BY <3>1, <3>2
  <2>10. a..z \subseteq s /\ z \in s
    <3>1. \A k \in a..z : k \in a..n \/ k \in n..z
      BY <2>3, <2>8, <1>2
    <3>2. z \in n..z
      BY <2>8, <1>2
    <3>3. QED
      BY <2>3, <2>9, <3>1, <3>2
  <2>11. <<a, z>> \in CpuList(s)
    BY <2>3, <2>4, <2>8, <2>10 DEF CpuList
  <2>12. n \in CPUsOf(<<a, z>>)
    BY <2>3, <2>8 DEF CPUsOf
  <2>13. QED
    BY <2>11, <2>12
<1>3. QED
  BY <1>1, <1>2

\* The number computed for an interval is the number of its CPUs.
LEMMA IntervalCounted ==
    ASSUME NEW s, s \subseteq Nat, NEW i \in CpuList(s)
    PROVE  IsFiniteSet(CPUsOf(i)) /\ IntervalSize(i) = Cardinality(CPUsOf(i)) /\ IntervalSize(i) \in Nat
<1>1. i[1] \in Nat /\ i[2] \in Nat /\ i[1] <= i[2]
  BY DEF CpuList
<1>2. IsFiniteSet(i[1]..i[2]) /\ Cardinality(i[1]..i[2]) = i[2] - i[1] + 1
  <2>1. i[1] \in Int /\ i[2] \in Int /\ ~(i[1] > i[2])
    BY <1>1
  <2>2. QED
    BY <2>1, FS_Interval
<1>3. IntervalSize(i) = i[2] - i[1] + 1
  BY <1>1 DEF IntervalSize
<1>4. QED
  BY <1>1, <1>2, <1>3 DEF CPUsOf

\* The sizes of the list's intervals sum to the number of CPUs in them.
LEMMA PartCounted ==
    ASSUME NEW s, s \subseteq Nat, IsFiniteSet(s)
    PROVE  LET size == [i \in CpuList(s) |-> IntervalSize(i)] IN
           SumOver(size, CpuList(s)) = Cardinality(UNION {CPUsOf(i) : i \in CpuList(s)})
<1> DEFINE size == [i \in CpuList(s) |-> IntervalSize(i)]
           Union(t) == UNION {CPUsOf(i) : i \in t}
           Bad == {t \in SUBSET CpuList(s) : SumOver(size, t) # Cardinality(Union(t))}
<1>1. IsFiniteSet(CpuList(s))
  <2>1. IsFiniteSet(s \X s) /\ CpuList(s) \subseteq s \X s
    BY FS_Product DEF CpuList
  <2>2. QED
    BY <2>1, FS_Subset
<1>2. SUFFICES ASSUME Bad # {} PROVE FALSE
  OBVIOUS
<1>3. PICK t \in Bad : \A u \in Bad : u \subseteq t => u = t
  <2>1. Bad \in SUBSET SUBSET CpuList(s)
    OBVIOUS
  <2> HIDE DEF Bad
  <2> QED
    BY <1>1, <1>2, <2>1, SmallestSubset
<1>4. t \in SUBSET CpuList(s) /\ SumOver(size, t) # Cardinality(Union(t))
  OBVIOUS
<1>5. t # {}
  <2>1. Union({}) = {}
    OBVIOUS
  <2>2. SumOver(size, {}) = 0
    BY SumEmpty
  <2>3. Cardinality(Union({})) = 0
    BY <2>1, FS_EmptySet
  <2>4. QED
    BY <1>4, <2>2, <2>3
<1> DEFINE c == Choice(t)
           r == t \ {c}
<1>6. c \in t
  BY <1>5 DEF Choice
<1>7. IsFiniteSet(t)
  BY <1>1, <1>4, FS_Subset
<1>8. SumOver(size, t) = size[c] + SumOver(size, r)
  BY <1>5, <1>7, SumChoice
<1> HIDE DEF c
<1>9. SumOver(size, r) = Cardinality(Union(r))
  <2>1. r \notin Bad /\ r \in SUBSET CpuList(s)
    BY <1>3, <1>4, <1>6
  <2> HIDE DEF r, Union
  <2> QED
    BY <2>1
<1>10. size[c] = Cardinality(CPUsOf(c)) /\ IsFiniteSet(CPUsOf(c)) /\ size[c] \in Nat
  BY <1>4, <1>6, IntervalCounted
<1>11. Union(t) = Union(r) \cup CPUsOf(c)
  BY <1>6
<1>12. Union(r) \cap CPUsOf(c) = {}
  BY <1>4, <1>6, IntervalsDisjoint
<1>13. IsFiniteSet(Union(r)) /\ Cardinality(Union(r)) \in Nat
  <2>1. Union(r) \subseteq s
    BY <1>4 DEF CpuList, CPUsOf
  <2> HIDE DEF Union
  <2> QED
    BY <2>1, FS_Subset, FS_CardinalityType
<1>14. Cardinality(Union(t)) = Cardinality(Union(r)) + Cardinality(CPUsOf(c))
  <2> DEFINE U == Union(r)
             V == CPUsOf(c)
  <2>1. IsFiniteSet(U) /\ IsFiniteSet(V) /\ U \cap V = {} /\ Cardinality(U) \in Nat
    BY <1>10, <1>12, <1>13
  <2>2. Union(t) = U \cup V
    BY <1>11
  <2> HIDE DEF U, V
  <2>3. Cardinality(U \cup V) = Cardinality(U) + Cardinality(V) - Cardinality(U \cap V)
    BY <2>1, FS_Union
  <2>4. Cardinality(U \cap V) = 0 /\ Cardinality(V) \in Nat
    BY <2>1, FS_EmptySet, FS_CardinalityType
  <2> HIDE DEF Union
  <2>5. Cardinality(Union(t)) = Cardinality(U) + Cardinality(V)
    BY <2>1, <2>2, <2>3, <2>4
  <2>6. QED
    BY <2>5 DEF U, V
<1>15. QED
  <2> HIDE DEF Union, r, size
  <2> QED
    BY <1>4, <1>8, <1>9, <1>10, <1>13, <1>14

\* The fold of the fetcher is the sum over the list.
LEMMA FoldIsSum ==
    ASSUME NEW s, s \subseteq Nat, IsFiniteSet(s)
    PROVE  countCpusetCPUs(CpuList(s)) = SumOver([i \in CpuList(s) |-> IntervalSize(i)], CpuList(s))
<1> DEFINE L == CpuList(s)
           size == [i \in L |-> IntervalSize(i)]
<1>1. IsFiniteSet(L)
  <2>1. IsFiniteSet(s \X s) /\ CpuList(s) \subseteq s \X s
    BY FS_Product DEF CpuList
  <2>2. QED
    BY <2>1, FS_Subset
<1> HIDE DEF L
<1>2. PICK g : SumsAll(g, size, L) /\ SumOver(size, L) = g[L]
  BY <1>1, SumUnfolds
<1>3. \A t \in SUBSET L : t # {} => Choice(t) \in L
  BY DEF Choice
<1>4. g = [t \in SUBSET L |-> IF t = {} THEN 0 ELSE IntervalSize(Choice(t)) + g[t \ {Choice(t)}]]
  BY <1>2, <1>3 DEF SumsAll, Unfolds
<1> DEFINE iter == CHOOSE k : k = [t \in SUBSET L |->
                      IF t = {} THEN 0 ELSE IntervalSize(Choice(t)) + k[t \ {Choice(t)}]]
<1>5. iter = [t \in SUBSET L |-> IF t = {} THEN 0 ELSE IntervalSize(Choice(t)) + iter[t \ {Choice(t)}]]
  BY <1>4
<1>6. countCpusetCPUs(L) = iter[L]
  BY DEF countCpusetCPUs, MapThenSumSet, MapThenFoldSet, Choice
<1> HIDE DEF iter
<1>7. SumsAll(iter, size, L)
  BY <1>3, <1>5 DEF SumsAll, Unfolds
<1>8. SumOver(size, L) = iter[L]
  <2> HIDE DEF size
  <2> QED
    BY <1>1, <1>7, SumSub
<1>9. QED
  BY <1>6, <1>8 DEF L

\* countCpusetCPUs counts the CPUs of any cpuset, whatever its intervals
\* (cgroup.go:45-77).
THEOREM CountCorrect ==
    ASSUME NEW s, s \subseteq Nat, IsFiniteSet(s)
    PROVE  countCpusetCPUs(CpuList(s)) = Cardinality(s)
BY FoldIsSum, PartCounted, IntervalsCover

\* The cpuset that was read stays as it was read to the end of the fetch.
THEOREM CpusetInvCorrect == Spec => []CpusetInv
<1>1. Init => CpusetInv
  BY DEF Init, CpusetInv, NothingRead, Parts, FileParts
<1>2. TypeOK /\ CpusetInv /\ [Next]_vars => CpusetInv'
  <2> SUFFICES ASSUME TypeOK, CpusetInv, [Next]_vars PROVE CpusetInv'
    OBVIOUS
  <2> USE DEF CpusetInv
  <2>1. CASE UNCHANGED <<part, online, cpus>>
    BY <2>1
  <2>2. ASSUME NEW c \in Container, Inspect(c) PROVE CpusetInv'
    BY <2>2 DEF Inspect, NothingRead, Parts, FileParts
  <2>3. ASSUME NEW f \in StatParts, Stat(f) PROVE CpusetInv'
    <3>1. f # "cpuset" /\ part' = [part EXCEPT ![f] = Seen] /\ UNCHANGED <<online, cpus>>
      BY <2>3 DEF Stat, StatParts, history
    <3>2. part'["cpuset"] = part["cpuset"]
      BY <3>1 DEF TypeOK
    <3>3. QED
      BY <3>1, <3>2
  <2>4. ASSUME NEW f \in FileParts, ReadFile(f) PROVE CpusetInv'
    <3> DEFINE seen == IF ControllerOf[f] \in enabled THEN Seen ELSE None
    <3>1. part' = [part EXCEPT ![f] = seen]
      BY <2>4 DEF ReadFile
    <3> HIDE DEF seen
    <3>2. CASE f # "cpuset"
      <4>1. part'["cpuset"] = part["cpuset"]
        BY <3>1, <3>2 DEF TypeOK
      <4>2. UNCHANGED <<cpus, online>>
        BY <2>4, <3>2 DEF ReadFile
      <4>3. QED
        BY <4>1, <4>2
    <3>3. CASE f = "cpuset"
      <4>1. part'["cpuset"] = seen
        BY <3>1, <3>3 DEF TypeOK, Parts, FileParts
      <4>2. seen # None => online' = countCpusetCPUs(CpuList(cpus'))
        BY <2>4, <3>3 DEF ReadFile, seen
      <4>3. QED
        BY <4>1, <4>2
    <3>4. QED
      BY <3>2, <3>3
  <2>5. CASE Net
    <3>1. part'["cpuset"] = part["cpuset"] /\ UNCHANGED <<online, cpus>>
      BY <2>5 DEF Net, TypeOK, Parts, FileParts, history
    <3>2. QED
      BY <3>1
  <2>6. QED
    BY <2>1, <2>2, <2>3, <2>4, <2>5
       DEF Next, Environment, Fetch, Start, Exit, RemoveDir, HostProcess, Paths, PathsFail,
           Load, LoadFails, StatEnds, NetFails, vars, fetch, result, history
<1>3. QED
  BY <1>1, <1>2, TypeCorrect, PTL DEF Spec

\* The number of CPUs reported is that of the CPUs in the cpuset read, whatever
\* list of intervals the kernel writes of it.
THEOREM CpusCountedCorrect == Spec => []CpusCounted
<1>1. TypeOK /\ CpusetInv => CpusCounted
  <2>1. TypeOK => cpus \subseteq Nat /\ IsFiniteSet(cpus)
    BY FetchAssumption, FS_Subset DEF TypeOK
  <2>2. QED
    BY <2>1, CountCorrect DEF CpusCounted, CpusetInv
<1>2. QED
  BY <1>1, TypeCorrect, CpusetInvCorrect, PTL

(***************************************************************************)
(* The fetch implements AtomicFetch.                                       *)
(***************************************************************************)

\* The running containers change with the process table only.
LEMMA UpSame ==
    ASSUME \A p \in Pid, c \in Container : proc'[p] = c <=> proc[p] = c
    PROVE  Up' = Up
BY DEF Up, Running

\* What a fetch found changes with its end only.
LEMMA GotSame ==
    ASSUME UNCHANGED <<version, enabled, pc, subject, part, err>>
    PROVE  Got' = Got
BY DEF Got, Succeeded, Wanted

\* A step of the fetch that neither begins nor ends it is none of AtomicFetch.
LEMMA FetchStutters ==
    ASSUME UNCHANGED <<deployment, kernel, subject, pidGen, gone, reused>>,
           pc # "idle", pc' # "idle"
    PROVE  UNCHANGED Atomic!vars
<1>1. Hidden' = Hidden /\ Wanted' = Wanted
  BY DEF Hidden, Wanted, deployment
<1>2. Up' = Up
  BY UpSame DEF kernel
<1>3. Got = Atomic!Nothing /\ Got' = Atomic!Nothing
  BY DEF Got, Succeeded, Atomic!Nothing
<1>4. QED
  BY <1>1, <1>2, <1>3 DEF Atomic!vars, Atomic!deployment, kernel

\* A fetch that returns its error does so for one of AtomicFetch's reasons.
LEMMA FetchErrs ==
    ASSUME UNCHANGED <<deployment, kernel, subject, pidGen, gone, reused>>,
           pc # "idle", pc' = "idle", err', ErrorsJustified', subject \in Container
    PROVE  Atomic!Fail
<1>1. Hidden' = Hidden /\ Wanted' = Wanted
  BY DEF Hidden, Wanted, deployment
<1>2. Up' = Up
  BY UpSame DEF kernel
<1>3. Got = Atomic!Nothing /\ Got' = Atomic!Nothing
  BY DEF Got, Succeeded, Atomic!Nothing
<1>4. gone \/ subject \in Hidden
  BY DEF ErrorsJustified, Hidden, deployment
<1>5. QED
  BY <1>1, <1>2, <1>3, <1>4 DEF Atomic!Fail, Atomic!deployment, kernel

\* Every step of CgroupFetch is a step of AtomicFetch or leaves it as it is
\* (cgroupv1.go:46-102, cgroupv2.go:47-100).
LEMMA AtomicStep ==
    ASSUME TypeOK, FetchInv, TypeOK', FetchInv', ErrorInv', [Next]_vars
    PROVE  [Atomic!Next]_Atomic!vars
<1> USE DEF vars, deployment, kernel, fetch, result, history
<1>0. None \notin Container /\ Host \notin Container
  BY FetchAssumption
<1>1. ASSUME NEW c \in Container, Start(c) PROVE Atomic!Start(c)
  <2>1. PICK p \in Pid : Take(p, c)
    BY <1>1 DEF Start
  <2>2. /\ proc[p] = None /\ proc' = [proc EXCEPT ![p] = c]
        /\ reused' = (reused \/ (pc # "idle" /\ p = pid))
    BY <2>1 DEF Take
  <2>3. /\ ~Running(c) /\ gen' = [gen EXCEPT ![c] = @ + 1]
        /\ UNCHANGED <<version, inContainer, private, enabled, pc, subject, part, err, pidGen, gone>>
    BY <1>1 DEF Start
  <2>4. c \notin Up /\ Up' = Up \cup {c}
    BY <1>0, <2>2, <2>3 DEF Up, Running, TypeOK
  <2>5. reused' \in {reused, reused \/ pc # "idle"}
    <3>1. reused \in BOOLEAN
      BY DEF TypeOK
    <3>2. QED
      BY <2>2, <3>1
  <2>6. Hidden' = Hidden /\ Wanted' = Wanted /\ Got' = Got
    BY <2>3, GotSame DEF Hidden, Wanted
  <2>7. QED
    BY <2>3, <2>4, <2>5, <2>6 DEF Atomic!Start, Atomic!deployment
<1>2. ASSUME NEW c \in Container, Exit(c) PROVE Atomic!Exit(c)
  <2>1. /\ Running(c) /\ proc' = [p \in Pid |-> IF proc[p] = c THEN None ELSE proc[p]]
        /\ gone' = (gone \/ (pc # "idle" /\ c = subject))
        /\ UNCHANGED <<version, inContainer, private, enabled, gen, pc, subject, part, err, pidGen, reused>>
    BY <1>2 DEF Exit
  <2>2. c \in Up /\ Up' = Up \ {c}
    BY <1>0, <2>1 DEF Up, Running
  <2>3. Hidden' = Hidden /\ Wanted' = Wanted /\ Got' = Got
    BY <2>1, GotSame DEF Hidden, Wanted
  <2>4. QED
    BY <2>1, <2>2, <2>3 DEF Atomic!Exit, Atomic!deployment
<1>3. ASSUME NEW c \in Container, RemoveDir(c) PROVE UNCHANGED Atomic!vars
  <2>1. UNCHANGED <<version, inContainer, private, enabled, proc, gen, pc, subject, part, err, pidGen, gone, reused>>
    BY <1>3 DEF RemoveDir
  <2>2. Hidden' = Hidden /\ Wanted' = Wanted /\ Got' = Got /\ Up' = Up
    BY <2>1, GotSame, UpSame DEF Hidden, Wanted
  <2>3. QED
    BY <2>1, <2>2 DEF Atomic!vars, Atomic!deployment
<1>4. ASSUME NEW p \in Pid, HostProcess(p) PROVE Atomic!HostProcess \/ UNCHANGED Atomic!vars
  <2>1. UNCHANGED <<version, inContainer, private, enabled, gen, pc, subject, part, err, pidGen, gone>>
    BY <1>4 DEF HostProcess
  <2>2. /\ \/ proc[p] = None /\ proc' = [proc EXCEPT ![p] = Host]
           \/ proc[p] = Host /\ proc' = [proc EXCEPT ![p] = None]
        /\ reused' \in {reused, reused \/ pc # "idle"}
    <3>1. reused \in BOOLEAN
      BY DEF TypeOK
    <3>2. QED
      BY <1>4, <3>1 DEF HostProcess, Take
  <2>3. \A q \in Pid, c \in Container : proc'[q] = c <=> proc[q] = c
    BY <1>0, <2>2 DEF TypeOK
  <2>4. Hidden' = Hidden /\ Wanted' = Wanted /\ Got' = Got /\ Up' = Up
    BY <2>1, <2>3, GotSame, UpSame DEF Hidden, Wanted
  <2>5. CASE reused' = reused
    BY <2>1, <2>4, <2>5 DEF Atomic!vars, Atomic!deployment
  <2>6. CASE reused' = (reused \/ pc # "idle")
    BY <2>1, <2>4, <2>6 DEF Atomic!HostProcess, Atomic!deployment
  <2>7. QED
    BY <2>2, <2>5, <2>6
<1>5. ASSUME NEW c \in Container, Inspect(c) PROVE Atomic!Inspect(c)
  <2>1. /\ pc = "idle" /\ pc' = "paths" /\ gen[c] > 0 /\ subject' = c /\ ~reused' /\ reused' = FALSE
        /\ UNCHANGED <<version, inContainer, private, enabled, proc, gen>>
    BY <1>5 DEF Inspect
  <2>2. /\ pidGen' = IF c \in Up THEN gen[c] ELSE 0
        /\ gone' = (c \notin Up)
    <3>1. CASE \E p \in Pid : proc[p] = c /\ pid' = p /\ pidGen' = gen[c] /\ gone' = FALSE
      <4>1. c \in Up
        BY <3>1 DEF Up, Running
      <4>2. QED
        BY <3>1, <4>1
    <3>2. CASE ~Running(c) /\ pid' = 0 /\ pidGen' = 0 /\ gone' = TRUE
      <4>1. c \notin Up
        BY <3>2 DEF Up
      <4>2. QED
        BY <3>2, <4>1
    <3>3. QED
      BY <1>5, <3>1, <3>2 DEF Inspect
  <2>3. Hidden' = Hidden /\ Wanted' = Wanted /\ Up' = Up
    BY <2>1, UpSame DEF Hidden, Wanted
  <2>4. Got' = Atomic!Nothing
    BY <2>1 DEF Got, Succeeded, Atomic!Nothing
  <2>5. QED
    BY <2>1, <2>2, <2>3, <2>4 DEF Atomic!Inspect, Atomic!deployment
<1>6. ASSUME Paths \/ Load \/ StatEnds \/ (\E f \in StatParts : Stat(f)) \/ (\E f \in FileParts : ReadFile(f))
      PROVE  UNCHANGED Atomic!vars
  <2>1. UNCHANGED <<deployment, kernel, subject, pidGen, gone, reused>>
    BY <1>6 DEF Paths, Load, StatEnds, Stat, ReadFile
  <2>2. pc # "idle" /\ pc' # "idle"
    BY <1>6 DEF Paths, Load, StatEnds, Stat, ReadFile, FirstFile, FileParts, AfterFile
  <2>3. QED
    BY <2>1, <2>2, FetchStutters
<1>7. ASSUME PathsFail \/ LoadFails \/ NetFails PROVE Atomic!Fail
  <2>1. UNCHANGED <<deployment, kernel, subject, pidGen, gone, reused>>
    BY <1>7 DEF PathsFail, LoadFails, NetFails
  <2>2. pc # "idle" /\ pc' = "idle" /\ err'
    BY <1>7 DEF PathsFail, LoadFails, NetFails, Return
  <2>3. subject \in Container /\ ErrorsJustified'
    BY <2>2 DEF TypeOK, ErrorInv
  <2>4. QED
    BY <2>1, <2>2, <2>3, FetchErrs
<1>8. ASSUME Net PROVE Atomic!Succeed
  <2>1. /\ pc = "net" /\ pc' = "idle" /\ ~err'
        /\ UNCHANGED <<version, inContainer, private, enabled, proc, gen, dir, subject, pid, pidGen, gone, reused>>
    BY <1>8 DEF Net, Return
  <2>2. Hidden' = Hidden /\ Wanted' = Wanted /\ Up' = Up
    BY <2>1, UpSame DEF Hidden, Wanted
  <2>3. subject \in Container /\ subject # None
    BY <1>0, <2>1 DEF TypeOK
  <2>4. Got' = [f \in Wanted |-> part'[f]]
    BY <2>1, <2>2, <2>3 DEF Got, Succeeded
  <2>5. \A f \in Wanted : part'[f] \in Origin \cup {None}
    BY WantedIs DEF TypeOK
  <2>6. Got' \in [Wanted -> Origin \cup {None}]
    BY <2>4, <2>5
  <2>7. ASSUME ~reused
        PROVE  /\ subject \in Up /\ gen[subject] = pidGen
               /\ Got' = [f \in Wanted |-> [owner |-> subject, gen |-> gen[subject]]]
    <3>1. pid \in Pid /\ proc[pid] # None
      BY <1>8, HostFound DEF Net, ProcAt
    <3>2. pid # 0
      BY <3>1, FetchAssumption
    <3>3. proc[pid] = subject /\ gen[subject] = pidGen
      BY <2>1, <2>7, <3>1, <3>2 DEF FetchInv
    <3>4. \A f \in Wanted : part'[f] = [owner |-> subject, gen |-> pidGen]
      <4>1. FetchIsOneStep' /\ Succeeded'
        BY <2>1, <2>3 DEF FetchInv, Succeeded
      <4>2. QED
        BY <2>1, <2>2, <2>7, <4>1 DEF FetchIsOneStep
    <3>5. QED
      BY <2>3, <2>4, <3>1, <3>3, <3>4 DEF Up, Running
  <2>8. QED
    BY <2>1, <2>2, <2>6, <2>7 DEF Atomic!Succeed, Atomic!Whole, Atomic!deployment
<1>9. ASSUME UNCHANGED vars PROVE UNCHANGED Atomic!vars
  <2>1. Hidden' = Hidden /\ Wanted' = Wanted /\ Got' = Got /\ Up' = Up
    BY <1>9, GotSame, UpSame DEF Hidden, Wanted
  <2>2. QED
    BY <1>9, <2>1 DEF Atomic!vars, Atomic!deployment
<1>10. QED
  BY <1>1, <1>2, <1>3, <1>4, <1>5, <1>6, <1>7, <1>8, <1>9 DEF Next, Environment, Fetch, Atomic!Next

\* Every fetch is one step of AtomicFetch, its last read or its error: the
\* values it returns are those of a container that runs at that instant as it
\* was inspected (metrics.go:120-150, cgroupv1.go:61-102, cgroupv2.go:57-99).
THEOREM FetchIsAtomic == Spec => ImplementsAtomic
<1>1. Init => Atomic!Init
  <2> SUFFICES ASSUME Init PROVE Atomic!Init
    OBVIOUS
  <2>1. Up = {}
    BY FetchAssumption DEF Init, Up, Running
  <2>2. Hidden \subseteq Container
    BY FetchAssumption DEF Hidden
  <2>3. Wanted \in (SUBSET Parts) \ {{}}
    <3>1. "net" \in Wanted /\ Wanted \subseteq Parts
      BY DEF Wanted, Parts, StatParts, FileParts
    <3>2. QED
      BY <3>1
  <2>4. Got = Atomic!Nothing
    BY DEF Init, Got, Succeeded, Atomic!Nothing
  <2>5. QED
    BY <2>1, <2>2, <2>3, <2>4 DEF Init, Atomic!Init
<1>2. QED
  BY <1>1, AtomicStep, TypeCorrect, FetchInvCorrect, ErrorInvCorrect, PTL
  DEF Spec, ImplementsAtomic, Atomic!Spec
=============================================================================
