------------------------- MODULE FargateClientProofs -------------------------
(***************************************************************************)
(* What FargateClient promises for every set of containers and every       *)
(* number of retries: what an execution costs when the endpoint does not   *)
(* answer, that no request uses up the attempts of another, and that the   *)
(* samples are complete and given the time their statistics arrived at.    *)
(*                                                                         *)
(* ClientInv is the inductive invariant of the loop; CountInv, on top of   *)
(* it, counts the attempts: each container sampled, and the list, accounts *)
(* for MaxRetries of them, the request in progress for those it has made.  *)
(***************************************************************************)
EXTENDS FargateClient, FiniteSetTheorems, TLAPS

Sampled == {c \in Container : payload[c] # None}

ClientInv ==
    /\ TypeOK
    /\ fstore["fargate-task-stats"] = None
    /\ pc \in {"setup", "list"} => Sampled = {}
    /\ pc = "setup" => tries = 0
    /\ pc \in {"loop", "fetch", "done"} =>
         /\ istore \in Task
         /\ todo \cap Sampled = {}
         /\ \A c \in Container : istore[c] # None <=> c \in todo \cup Sampled
    /\ pc = "done" => todo = {}
    /\ StampedOnArrival

CountInv ==
    /\ pc \in {"setup", "list"} => attempts = tries
    /\ pc \notin {"setup", "list"} =>
         attempts <= MaxRetries * (1 + Cardinality(Sampled)) + (IF pc = "fetch" THEN tries ELSE 0)
    /\ failures >= MaxRetries * Cardinality(Unreachable)
                     + (IF pc \in {"list", "fetch"} THEN tries ELSE 0)

-----------------------------------------------------------------------------
(* Lemmas.                                                                 *)

Errors == {"none", "unreachable", "malformed", "nostats"}

\* What a sample changes (fargate_inspector.go, sampler.go:109-146).
LEMMA ReportEffect ==
    ASSUME ClientInv, pc = "fetch", NEW err \in Errors, NEW arrived \in Nat, NEW time \in Nat,
           Report(cur, err, arrived, time)
    PROVE  /\ cur \in Container /\ cur \in todo /\ payload[cur] = None
           /\ payload' \in [Container -> Sample \cup {None}]
           /\ payload'[cur] # None /\ payload'[cur].err = err
           /\ payload'[cur].arrived = arrived /\ payload'[cur].time = time
           /\ \A c \in Container : c # cur => payload'[c] = payload[c]
           /\ todo' = todo \ {cur} /\ cur' = None /\ pc' = "loop"
  <1> DEFINE sample == [running |-> istore[cur] = "RUNNING", err |-> err,
                        arrived |-> arrived, time |-> time]
  <1>1. cur \in Container /\ cur \in todo /\ cur \notin Sampled
    BY NoneAssumption DEF ClientInv, TypeOK
  <1>2. /\ sample \in Sample
        /\ sample.err = err /\ sample.arrived = arrived /\ sample.time = time
    BY DEF Sample, Errors
  <1>3. payload' = [payload EXCEPT ![cur] = sample]
    BY DEF Report
  <1> HIDE DEF sample
  <1>4. sample # None
    BY <1>2, NoneAssumption
  <1>5. payload[cur] = None
    BY <1>1 DEF Sampled
  <1>6. payload' \in [Container -> Sample \cup {None}] /\ payload'[cur] = sample
    BY <1>1, <1>2, <1>3 DEF ClientInv, TypeOK
  <1>7. \A c \in Container : c # cur => payload'[c] = payload[c]
    BY <1>1, <1>3 DEF ClientInv, TypeOK
  <1> QED
    BY <1>1, <1>2, <1>4, <1>5, <1>6, <1>7 DEF Report

\* A sample keeps the loop's invariant, whatever its error and its times, if
\* statistics are given the time they arrived at.
LEMMA ReportKeeps ==
    ASSUME ClientInv, pc = "fetch", NEW err \in Errors, NEW arrived \in Nat, NEW time \in Nat,
           Report(cur, err, arrived, time), err = "none" => time = arrived,
           UNCHANGED <<known, istore>>,
           fstore' \in [Key -> Stats \cup {None}], fstore'["fargate-task-stats"] = None,
           tries' = 0, attempts' \in Nat, failures' \in 0..attempts'
    PROVE  ClientInv'
  <1>1. /\ cur \in Container /\ cur \in todo
        /\ payload' \in [Container -> Sample \cup {None}]
        /\ payload'[cur] # None /\ payload'[cur].err = err
        /\ payload'[cur].arrived = arrived /\ payload'[cur].time = time
        /\ \A c \in Container : c # cur => payload'[c] = payload[c]
        /\ todo' = todo \ {cur} /\ cur' = None /\ pc' = "loop"
    BY ReportEffect
  <1>2. TypeOK'
    BY <1>1, ConstantsAssumption DEF ClientInv, TypeOK
  <1>3. Sampled' = Sampled \cup {cur}
    BY <1>1 DEF Sampled
  <1>4. /\ istore' \in Task
        /\ todo' \cap Sampled' = {}
        /\ \A c \in Container : istore'[c] # None <=> c \in todo' \cup Sampled'
    BY <1>1, <1>3 DEF ClientInv
  <1>5. StampedOnArrival'
    BY <1>1 DEF ClientInv, StampedOnArrival
  <1> QED
    BY <1>1, <1>2, <1>4, <1>5 DEF ClientInv

\* The clock of the model is a number.
LEMMA ClockType == ASSUME TypeOK, attempts' \in Nat PROVE Clock \in Nat
  <1>1. IsFiniteSet({c \in Container : payload[c] # None})
    BY ConstantsAssumption, FS_Subset
  <1>2. Cardinality({c \in Container : payload[c] # None}) \in Nat
    BY <1>1, FS_CardinalityType
  <1> QED
    BY <1>2 DEF Clock

\* What a fetch through the store's lookup answers, for as long as nothing is
\* kept under the key that is looked up (fargate_fetcher.go:72-80).
LEMMA FetchReports ==
    ASSUME ClientInv, Fetch
    PROVE  /\ pc = "fetch" /\ attempts' = attempts + 1 /\ tries' = 0
           /\ UNCHANGED <<known, istore, failures>>
           /\ fstore' \in [Key -> Stats \cup {None}] /\ fstore'["fargate-task-stats"] = None
           /\ Clock \in Nat
           /\ \/ Report(cur, "none", Clock, Clock)
              \/ Report(cur, "nostats", 0, 0)
  <1>1. NotStored
    BY DEF ClientInv, NotStored
  <1>2. /\ pc = "fetch" /\ attempts' = attempts + 1 /\ tries' = 0
        /\ UNCHANGED <<known, istore, failures>>
        /\ fstore' = [fstore EXCEPT !["task-metadata-response"] = Answer]
        /\ Convert(Answer)
    BY <1>1 DEF Fetch, FetchThrough
  <1>3. attempts \in Nat /\ TypeOK
    BY DEF ClientInv, TypeOK
  <1>4. Clock \in Nat
    BY <1>2, <1>3, ClockType
  <1>5. Answer \in Stats /\ Answer.time = Clock
    BY <1>4 DEF Answer, Stats
  <1>6. fstore' \in [Key -> Stats \cup {None}] /\ fstore'["fargate-task-stats"] = None
    BY <1>2, <1>5 DEF ClientInv, TypeOK, Key
  <1>7. Report(cur, "none", Clock, Clock) \/ Report(cur, "nostats", 0, 0)
    BY <1>2, <1>5 DEF Convert
  <1> QED
    BY <1>2, <1>4, <1>6, <1>7

-----------------------------------------------------------------------------
(* The loop.                                                               *)

\* Nothing is to do at the start.
LEMMA ClientInit == Init => ClientInv
  <1> SUFFICES ASSUME Init PROVE ClientInv
    OBVIOUS
  <1>1. TypeOK
    BY ConstantsAssumption DEF Init, TypeOK, Status, Key, Ended
  <1>2. Sampled = {}
    BY DEF Init, Sampled
  <1>3. StampedOnArrival
    BY DEF Init, StampedOnArrival
  <1> QED
    BY <1>1, <1>2, <1>3 DEF Init, ClientInv, Key

\* Every step leaves each container of the response to do or with its sample
\* (sampler.go:89-148).
LEMMA ClientNext == ClientInv /\ [Next]_vars => ClientInv'
  <1> SUFFICES ASSUME ClientInv, [Next]_vars PROVE ClientInv'
    OBVIOUS
  <1> USE DEF ClientInv, store
  <1>1. ASSUME NEW c \in Container, Create(c) \/ Start(c) \/ Stop(c)
        PROVE  ClientInv'
    <2>1. /\ known' \in [Container -> Status \cup {None}]
          /\ UNCHANGED <<pc, tries, istore, fstore, todo, cur, payload, attempts, failures>>
      BY <1>1 DEF Create, Start, Stop, Advance, TypeOK, Status
    <2> QED
      BY <2>1 DEF TypeOK, Sampled, StampedOnArrival
  <1>2. ASSUME Setup PROVE ClientInv'
    BY <1>2 DEF Setup, TypeOK, Sampled, StampedOnArrival, Ended
  <1>3. ASSUME NextTry, AttemptFails, UNCHANGED <<known, pc, istore, fstore, todo, cur, payload>>,
               pc \in {"list", "fetch"}
        PROVE  ClientInv'
    <2>1. tries' \in 0..MaxRetries - 1 /\ attempts' \in Nat /\ failures' \in 0..attempts'
      BY <1>3, ConstantsAssumption DEF NextTry, AttemptFails, TypeOK
    <2> QED
      BY <1>3, <2>1 DEF TypeOK, Sampled, StampedOnArrival
  <1>4. ASSUME ListFails \/ ListMalformed PROVE ClientInv'
    <2>1. /\ tries' = 0 /\ attempts' \in Nat /\ failures' \in 0..attempts' /\ pc' = "failed"
          /\ UNCHANGED <<known, istore, fstore, todo, cur, payload>>
      BY <1>4 DEF ListFails, ListMalformed, GivesUp, AttemptFails, TypeOK
    <2> QED
      BY <2>1, ConstantsAssumption DEF TypeOK, Sampled, StampedOnArrival, Ended
  <1>5. ASSUME ContainerList PROVE ClientInv'
    <2>1. /\ pc = "list" /\ tries' = 0 /\ attempts' = attempts + 1 /\ istore' = known
          /\ pc' \in {"panic", "loop"} /\ (pc' = "loop" => todo' = Created)
          /\ (pc' = "panic" => todo' = todo)
          /\ UNCHANGED <<known, fstore, cur, payload, failures>>
      BY <1>5 DEF ContainerList
    <2>2. Sampled' = {} /\ istore' \in Task
      BY <2>1 DEF Sampled, TypeOK, Task
    <2>3. TypeOK'
      BY <2>1, <2>2, ConstantsAssumption DEF TypeOK, Ended, Created
    <2> QED
      BY <2>1, <2>2, <2>3 DEF Created, StampedOnArrival
  <1>6. ASSUME NEW c \in Container, ContainerInspect(c) PROVE ClientInv'
    BY <1>6, ConstantsAssumption DEF ContainerInspect, TypeOK, Sampled, StampedOnArrival
  <1>7. ASSUME FetchFails PROVE ClientInv'
    <2>1. /\ pc = "fetch" /\ tries' = 0 /\ attempts' \in Nat /\ failures' \in 0..attempts'
          /\ Report(cur, "unreachable", 0, 0) /\ UNCHANGED <<known, istore, fstore>>
      BY <1>7 DEF FetchFails, GivesUp, AttemptFails, TypeOK
    <2>2. fstore' \in [Key -> Stats \cup {None}] /\ fstore'["fargate-task-stats"] = None
      BY <2>1 DEF TypeOK
    <2> QED
      BY <2>1, <2>2, ReportKeeps DEF Errors
  <1>8. ASSUME FetchMalformed PROVE ClientInv'
    <2>1. /\ pc = "fetch" /\ tries' = 0 /\ attempts' \in Nat /\ failures' \in 0..attempts'
          /\ Report(cur, "malformed", 0, 0) /\ UNCHANGED <<known, istore, fstore>>
      BY <1>8 DEF FetchMalformed, TypeOK
    <2>2. fstore' \in [Key -> Stats \cup {None}] /\ fstore'["fargate-task-stats"] = None
      BY <2>1 DEF TypeOK
    <2> QED
      BY <2>1, <2>2, ReportKeeps DEF Errors
  <1>9. ASSUME Fetch PROVE ClientInv'
    <2>1. /\ pc = "fetch" /\ attempts' = attempts + 1 /\ tries' = 0
          /\ UNCHANGED <<known, istore, failures>>
          /\ fstore' \in [Key -> Stats \cup {None}] /\ fstore'["fargate-task-stats"] = None
          /\ Clock \in Nat
          /\ Report(cur, "none", Clock, Clock) \/ Report(cur, "nostats", 0, 0)
      BY <1>9, FetchReports
    <2>2. attempts' \in Nat /\ failures' \in 0..attempts'
      BY <2>1 DEF TypeOK
    <2>3. CASE Report(cur, "none", Clock, Clock)
      BY <2>1, <2>2, <2>3, ReportKeeps DEF Errors
    <2>4. CASE Report(cur, "nostats", 0, 0)
      BY <2>1, <2>2, <2>4, ReportKeeps DEF Errors
    <2> QED
      BY <2>1, <2>3, <2>4
  <1>10. ASSUME LoopEnds PROVE ClientInv'
    BY <1>10 DEF LoopEnds, TypeOK, Sampled, StampedOnArrival, Ended
  <1>11. ASSUME UNCHANGED vars PROVE ClientInv'
    BY <1>11 DEF vars, TypeOK, Sampled, StampedOnArrival
  <1> QED
    BY <1>1, <1>2, <1>3, <1>4, <1>5, <1>6, <1>7, <1>8, <1>9, <1>10, <1>11
       DEF Next, Environment, Execution, ListRetries, FetchRetries

\* A container of the task response is still to do or has its sample, and nothing is
\* stored under the key that is looked up (fargate_fetcher.go:73, 80).
THEOREM ClientInvCorrect == Spec => []ClientInv
  BY ClientInit, ClientNext, PTL DEF Spec

\* An execution that ends without error has a sample of exactly the containers
\* of the task, those that could not be read included
\* (fargate_inspector.go:41, sampler.go:89-147).
THEOREM CompleteCorrect == Spec => []Complete
  <1>1. ClientInv => Complete
    BY DEF ClientInv, Complete, Sampled
  <1> QED
    BY <1>1, ClientInvCorrect, PTL

\* Statistics are given the time they arrived at, because no lookup of the
\* store finds any (fargate_raw_metrics.go:13, fargate_fetcher.go:80).
THEOREM StampedCorrect == Spec => []StampedOnArrival
  <1>1. ClientInv => StampedOnArrival
    BY DEF ClientInv
  <1> QED
    BY <1>1, ClientInvCorrect, PTL

\* Every variable keeps its type, and no request makes more than MaxRetries
\* attempts (fargate_metadata.go:106-120).
THEOREM TypeCorrect == Spec => []TypeOK
  <1>1. ClientInv => TypeOK
    BY DEF ClientInv
  <1> QED
    BY <1>1, ClientInvCorrect, PTL

-----------------------------------------------------------------------------
(* The attempts.                                                           *)

\* The sets that are counted are finite.
LEMMA Counted ==
    ASSUME NEW S, S \subseteq Container
    PROVE  /\ IsFiniteSet(S) /\ Cardinality(S) \in Nat
           /\ Cardinality(S) <= Cardinality(Container)
           /\ Cardinality(Container) \in Nat
  <1>1. IsFiniteSet(Container)
    BY ConstantsAssumption
  <1>2. IsFiniteSet(S) /\ Cardinality(S) <= Cardinality(Container)
    BY <1>1, FS_Subset
  <1> QED
    BY <1>1, <1>2, FS_CardinalityType

\* A sample counts once, and as unreachable only with that error.
LEMMA ReportCounts ==
    ASSUME ClientInv, pc = "fetch", NEW err \in Errors, NEW arrived \in Nat, NEW time \in Nat,
           Report(cur, err, arrived, time)
    PROVE  /\ Cardinality(Sampled') = Cardinality(Sampled) + 1
           /\ Cardinality(Unreachable') = IF err = "unreachable" THEN Cardinality(Unreachable) + 1
                                                                ELSE Cardinality(Unreachable)
  <1>1. /\ cur \in Container /\ payload[cur] = None
        /\ payload'[cur] # None /\ payload'[cur].err = err
        /\ \A c \in Container : c # cur => payload'[c] = payload[c]
    BY ReportEffect
  <1>2. Sampled' = Sampled \cup {cur} /\ cur \notin Sampled
    BY <1>1 DEF Sampled
  <1>3. /\ Unreachable' = IF err = "unreachable" THEN Unreachable \cup {cur} ELSE Unreachable
        /\ cur \notin Unreachable
    BY <1>1 DEF Unreachable
  <1>4. IsFiniteSet(Sampled) /\ IsFiniteSet(Unreachable)
    BY Counted DEF Sampled, Unreachable
  <1>5. Cardinality(Sampled \cup {cur}) = Cardinality(Sampled) + 1
    BY <1>2, <1>4, FS_AddElement
  <1>6. Cardinality(Unreachable \cup {cur}) = Cardinality(Unreachable) + 1
    BY <1>3, <1>4, FS_AddElement
  <1> QED
    BY <1>2, <1>3, <1>5, <1>6

\* What a sample accounts for: one request, of at most MaxRetries attempts.
LEMMA ReportCountKeeps ==
    ASSUME ClientInv, CountInv, pc = "fetch",
           NEW err \in Errors, NEW arrived \in Nat, NEW time \in Nat,
           Report(cur, err, arrived, time), attempts' = attempts + 1,
           IF err = "unreachable" THEN GivesUp /\ failures' = failures + 1
                                  ELSE failures' = failures
    PROVE  CountInv'
  <1> DEFINE n == Cardinality(Sampled)
             u == Cardinality(Unreachable)
  <1>1. /\ Cardinality(Sampled') = n + 1
        /\ Cardinality(Unreachable') = IF err = "unreachable" THEN u + 1 ELSE u
    BY ReportCounts
  <1>2. n \in Nat /\ u \in Nat
    BY Counted DEF Sampled, Unreachable
  <1>3. /\ pc' = "loop" /\ attempts \in Nat /\ failures \in Nat
        /\ MaxRetries \in Nat \ {0} /\ tries \in 0..MaxRetries - 1
    BY ReportEffect, ConstantsAssumption DEF ClientInv, TypeOK
  <1>4. attempts <= MaxRetries * (1 + n) + tries /\ failures >= MaxRetries * u + tries
    BY <1>3 DEF CountInv
  <1> HIDE DEF n, u
  <1>5. /\ MaxRetries * (1 + (n + 1)) = MaxRetries * (1 + n) + MaxRetries
        /\ MaxRetries * (u + 1) = MaxRetries * u + MaxRetries
        /\ MaxRetries * (1 + n) \in Nat /\ MaxRetries * u \in Nat
    BY <1>2, <1>3
  <1>6. attempts' <= MaxRetries * (1 + (n + 1))
    BY <1>3, <1>4, <1>5
  <1>7. failures' >= MaxRetries * (IF err = "unreachable" THEN u + 1 ELSE u)
    <2>1. CASE err = "unreachable"
      BY <1>3, <1>4, <1>5, <2>1 DEF GivesUp
    <2>2. CASE err # "unreachable"
      BY <1>3, <1>4, <1>5, <2>2
    <2> QED
      BY <2>1, <2>2
  <1>8. MaxRetries * (IF err = "unreachable" THEN u + 1 ELSE u) \in Nat
    BY <1>2, <1>3
  <1>9. failures' \in Nat /\ attempts' \in Nat
    BY <1>3
  <1>10. /\ MaxRetries * (1 + (n + 1)) \in Nat
         /\ attempts' <= MaxRetries * (1 + (n + 1)) + 0
         /\ failures' >= MaxRetries * (IF err = "unreachable" THEN u + 1 ELSE u) + 0
    BY <1>2, <1>3, <1>6, <1>7, <1>8, <1>9
  <1>11. /\ attempts' <= MaxRetries * (1 + Cardinality(Sampled')) + 0
         /\ failures' >= MaxRetries * Cardinality(Unreachable') + 0
    BY <1>1, <1>10
  <1> QED
    BY <1>3, <1>11 DEF CountInv

\* No request has been made at the start.
LEMMA CountInit == Init => CountInv
  <1> SUFFICES ASSUME Init PROVE CountInv
    OBVIOUS
  <1>1. Unreachable = {}
    BY DEF Init, Unreachable
  <1>2. Cardinality(Unreachable) = 0
    BY <1>1, FS_EmptySet
  <1> QED
    BY <1>2, ConstantsAssumption DEF Init, CountInv

\* Every step keeps the counts of failures and attempts with the requests that
\* ended and the one in progress (fargate_metadata.go:105-121).
LEMMA CountNext == ClientInv /\ CountInv /\ [Next]_vars => CountInv'
  <1> SUFFICES ASSUME ClientInv, CountInv, [Next]_vars PROVE CountInv'
    OBVIOUS
  <1> DEFINE n == Cardinality(Sampled)
             u == Cardinality(Unreachable)
  <1> USE DEF store
  <1>1. /\ n \in Nat /\ u \in Nat /\ attempts \in Nat /\ failures \in Nat
        /\ MaxRetries \in Nat \ {0} /\ tries \in 0..MaxRetries - 1
    BY Counted, ConstantsAssumption DEF Sampled, Unreachable, ClientInv, TypeOK
  <1>2. MaxRetries * (1 + n) \in Nat /\ MaxRetries * u \in Nat /\ MaxRetries <= MaxRetries * (1 + n)
    BY <1>1
  <1>3. payload' = payload => Sampled' = Sampled /\ Unreachable' = Unreachable
    BY DEF Sampled, Unreachable
  <1>4. pc \in {"setup", "list"} => u = 0
    <2>1. pc \in {"setup", "list"} => Unreachable = {}
      BY DEF ClientInv, Sampled, Unreachable
    <2> QED
      BY <2>1, FS_EmptySet
  <1>5. ASSUME NEW c \in Container, Create(c) \/ Start(c) \/ Stop(c)
        PROVE  CountInv'
    <2>1. UNCHANGED <<pc, tries, payload, attempts, failures>>
      BY <1>5 DEF Create, Start, Stop, Advance
    <2> QED
      BY <1>3, <2>1 DEF CountInv
  <1>6. ASSUME Setup PROVE CountInv'
    <2>1. /\ pc = "setup" /\ pc' \in {"list", "failed"} /\ tries = 0
          /\ UNCHANGED <<tries, payload, attempts, failures>>
      BY <1>6 DEF Setup, ClientInv
    <2> QED
      BY <1>1, <1>2, <1>3, <2>1 DEF CountInv
  <1>7. ASSUME NextTry, AttemptFails, UNCHANGED <<pc, payload>>, pc \in {"list", "fetch"}
        PROVE  CountInv'
    BY <1>1, <1>2, <1>3, <1>7 DEF CountInv, NextTry, AttemptFails
  <1>8. ASSUME ListFails \/ ListMalformed PROVE CountInv'
    <2>1. /\ pc = "list" /\ pc' = "failed" /\ attempts' = attempts + 1
          /\ failures' \in {failures, failures + 1} /\ payload' = payload
      BY <1>8 DEF ListFails, ListMalformed, AttemptFails
    <2> QED
      BY <1>1, <1>2, <1>3, <2>1 DEF CountInv
  <1>9. ASSUME ContainerList PROVE CountInv'
    <2>1. /\ pc = "list" /\ pc' \in {"panic", "loop"} /\ attempts' = attempts + 1
          /\ UNCHANGED <<payload, failures>>
      BY <1>9 DEF ContainerList
    <2> QED
      BY <1>1, <1>2, <1>3, <2>1 DEF CountInv
  <1>10. ASSUME NEW c \in Container, ContainerInspect(c) PROVE CountInv'
    <2>1. /\ pc = "loop" /\ pc' = "fetch" /\ tries' = 0
          /\ UNCHANGED <<payload, attempts, failures>>
      BY <1>10 DEF ContainerInspect
    <2> QED
      BY <1>1, <1>2, <1>3, <2>1 DEF CountInv
  <1>11. ASSUME FetchFails PROVE CountInv'
    <2>1. /\ pc = "fetch" /\ GivesUp /\ attempts' = attempts + 1 /\ failures' = failures + 1
          /\ Report(cur, "unreachable", 0, 0)
      BY <1>11 DEF FetchFails, AttemptFails
    <2> QED
      BY <2>1, ReportCountKeeps DEF Errors
  <1>12. ASSUME FetchMalformed PROVE CountInv'
    <2>1. /\ pc = "fetch" /\ attempts' = attempts + 1 /\ failures' = failures
          /\ Report(cur, "malformed", 0, 0)
      BY <1>12 DEF FetchMalformed
    <2> QED
      BY <2>1, ReportCountKeeps DEF Errors
  <1>13. ASSUME Fetch PROVE CountInv'
    <2>1. /\ pc = "fetch" /\ attempts' = attempts + 1 /\ failures' = failures
          /\ Clock \in Nat
          /\ Report(cur, "none", Clock, Clock) \/ Report(cur, "nostats", 0, 0)
      BY <1>13, FetchReports
    <2>2. CASE Report(cur, "none", Clock, Clock)
      BY <2>1, <2>2, ReportCountKeeps DEF Errors
    <2>3. CASE Report(cur, "nostats", 0, 0)
      BY <2>1, <2>3, ReportCountKeeps DEF Errors
    <2> QED
      BY <2>1, <2>2, <2>3
  <1>14. ASSUME LoopEnds PROVE CountInv'
    <2>1. /\ pc = "loop" /\ pc' = "done"
          /\ UNCHANGED <<tries, payload, attempts, failures>>
      BY <1>14 DEF LoopEnds
    <2> QED
      BY <1>1, <1>2, <1>3, <2>1 DEF CountInv
  <1>15. ASSUME UNCHANGED vars PROVE CountInv'
    BY <1>3, <1>15 DEF CountInv, vars
  <1> QED
    BY <1>5, <1>6, <1>7, <1>8, <1>9, <1>10, <1>11, <1>12, <1>13, <1>14, <1>15
       DEF Next, Environment, Execution, ListRetries, FetchRetries

\* Failures and attempts are counted request by request
\* (fargate_metadata.go:105-121).
THEOREM CountInvCorrect == Spec => []CountInv
  BY CountInit, CountNext, ClientInvCorrect, PTL DEF Spec

\* A container goes without statistics only after MaxRetries failures of its
\* own request (fargate_metadata.go:109).
THEOREM AttemptsNotSharedCorrect == Spec => []AttemptsNotShared
  <1>1. ASSUME ClientInv, CountInv PROVE AttemptsNotShared
    <2>1. Cardinality(Unreachable) \in Nat
      BY Counted DEF Unreachable
    <2>2. /\ MaxRetries \in Nat /\ tries \in Nat /\ failures \in Nat
          /\ MaxRetries * Cardinality(Unreachable) \in Nat
      BY <1>1, <2>1, ConstantsAssumption DEF ClientInv, TypeOK
    <2> QED
      BY <1>1, <2>2 DEF CountInv, AttemptsNotShared
  <1> QED
    BY <1>1, ClientInvCorrect, CountInvCorrect, PTL

\* What an execution costs when nothing answers: MaxRetries attempts for the
\* list and for every container of the task (fargate_metadata.go:106-120).
THEOREM AttemptsBoundedCorrect == Spec => []AttemptsBounded
  <1>1. ASSUME ClientInv, CountInv PROVE AttemptsBounded
    <2> DEFINE n == Cardinality(Sampled)
               m == Cardinality(Container)
    <2>1. n \in Nat /\ m \in Nat /\ n <= m
      BY Counted DEF Sampled
    <2>2. /\ MaxRetries \in Nat \ {0} /\ tries \in 0..MaxRetries - 1 /\ attempts \in Nat
      BY <1>1, ConstantsAssumption DEF ClientInv, TypeOK
    <2>3. CASE pc \in {"setup", "list"}
      <3>1. attempts <= MaxRetries
        BY <1>1, <2>2, <2>3 DEF CountInv
      <3> HIDE DEF m
      <3>2. MaxRetries <= MaxRetries * (1 + m) /\ MaxRetries * (1 + m) \in Nat
        BY <2>1, <2>2
      <3> QED
        BY <2>2, <3>1, <3>2 DEF AttemptsBounded, m
    <2>4. CASE pc = "fetch"
      <3>1. n + 1 <= m
        <4>1. cur \in Container /\ cur \notin Sampled
          BY <1>1, <2>4 DEF ClientInv, TypeOK
        <4>2. IsFiniteSet(Sampled) /\ Sampled \cup {cur} \subseteq Container
          BY <4>1, Counted DEF Sampled
        <4>3. Cardinality(Sampled \cup {cur}) = n + 1
          BY <4>1, <4>2, FS_AddElement
        <4> QED
          BY <4>2, <4>3, Counted
      <3>2. attempts <= MaxRetries * (1 + n) + tries
        BY <1>1, <2>4 DEF CountInv
      <3> HIDE DEF m, n
      <3>3. /\ MaxRetries * (1 + n) + MaxRetries = MaxRetries * (1 + (n + 1))
            /\ MaxRetries * (1 + (n + 1)) <= MaxRetries * (1 + m)
            /\ MaxRetries * (1 + n) \in Nat /\ MaxRetries * (1 + m) \in Nat
            /\ MaxRetries * (1 + (n + 1)) \in Nat
        BY <2>1, <2>2, <3>1
      <3> QED
        BY <2>2, <3>2, <3>3 DEF AttemptsBounded, m
    <2>5. CASE pc \notin {"setup", "list", "fetch"}
      <3>1. attempts <= MaxRetries * (1 + n) + 0
        BY <1>1, <2>5 DEF CountInv
      <3> HIDE DEF m, n
      <3>2. /\ MaxRetries * (1 + n) <= MaxRetries * (1 + m)
            /\ MaxRetries * (1 + n) \in Nat /\ MaxRetries * (1 + m) \in Nat
        BY <2>1, <2>2
      <3> QED
        BY <2>2, <3>1, <3>2 DEF AttemptsBounded, m
    <2> QED
      BY <2>3, <2>4, <2>5
  <1> QED
    BY <1>1, ClientInvCorrect, CountInvCorrect, PTL
=============================================================================
