----------------------- MODULE ContainerSamplerProofs -----------------------
(* Theorems of ContainerSampler and of its refinement of CpuLedger, for    *)
(* every set of containers and every value of the constants.               *)
EXTENDS ContainerSamplerLedger, TLAPS

(***************************************************************************)
(* Type correctness.                                                       *)
(***************************************************************************)

\* A process that ends leaves its variables empty.
LEMMA ProcessEndsType ==
    ASSUME ProcessEnds
    PROVE  /\ pc' = "idle" /\ outcome' = "ok"
           /\ store' \in [Container -> Reading \cup {None}]
           /\ listed' = {} /\ up' = {} /\ todo' = {} /\ skipped' = {}
           /\ cur' = None /\ pidGen' = 0
           /\ payload' \in [Container -> Sample \cup {None}]
BY DEF ProcessEnds, NoReadings, NoSamples

\* A report is about a container of the list and keeps the samples' type.
LEMMA ReportType ==
    ASSUME TypeOK, NEW c \in Container, NEW err \in {"none", "inspect", "exited", "fetch"},
           NEW window \in Window \cup {None}, Report(c, err, window)
    PROVE  /\ payload' \in [Container -> Sample \cup {None}]
           /\ todo' \subseteq todo /\ pc' = "loop" /\ cur' = None /\ pidGen' = 0
<1>1. [running |-> c \in up, err |-> err, window |-> IF c \in up THEN window ELSE None] \in Sample
  BY DEF Sample
<1>2. QED
  BY <1>1 DEF TypeOK, Report

\* What a fetch reads is a reading.
LEMMA CPUReadingType ==
    ASSUME TypeOK, NEW c \in Container, NEW hasCPU \in BOOLEAN
    PROVE  CPUReading(c, hasCPU) \in Reading
BY DEF TypeOK, CPUReading, Reading

\* Every variable keeps its type, and the container between its inspection and
\* its fetch is one the loop has not finished (biz/metrics.go Process).
THEOREM TypeCorrect == Spec => []TypeOK
<1>1. Init => TypeOK
  <2> SUFFICES ASSUME Init PROVE TypeOK
    OBVIOUS
  <2>1. finished \in [Container -> Int]
    BY ConstantsAssumption DEF Init
  <2>2. QED
    BY <2>1 DEF Init, TypeOK, NoReadings, NoSamples, State, Steps
<1>2. TypeOK /\ [Next]_vars => TypeOK'
  <2> SUFFICES ASSUME TypeOK, [Next]_vars PROVE TypeOK'
    OBVIOUS
  <2> USE DEF TypeOK, vars, env, file, memory, history
  <2>1. ASSUME NEW c \in Container, Create(c) \/ Start(c) \/ Exit(c) \/ Remove(c)
        PROVE  TypeOK'
    <3>1. CASE Create(c)
      BY <3>1 DEF Create, State
    <3>2. CASE Start(c)
      BY <3>2 DEF Start, State
    <3>3. CASE Exit(c)
      BY <3>3 DEF Exit, State
    <3>4. CASE Remove(c)
      BY <3>4 DEF Remove, State
    <3>5. QED
      BY <2>1, <3>1, <3>2, <3>3, <3>4
  <2>2. CASE Tick \/ StepBack
    <3>1. now' \in Int
      BY <2>2, ConstantsAssumption DEF Tick, StepBack
    <3>2. QED
      BY <2>2, <3>1 DEF Tick, StepBack
  <2>3. CASE Launch
    BY <2>3 DEF Launch, Steps
  <2>4. CASE SetupFails
    BY <2>4, ProcessEndsType DEF SetupFails
  <2>5. CASE NewSampler
    BY <2>5 DEF NewSampler, Loaded, NoReadings, Steps
  <2>6. CASE ListFails
    BY <2>6 DEF ListFails, Abort, Steps
  <2>7. CASE ContainerList
    BY <2>7 DEF ContainerList, Steps
  <2>8. ASSUME NEW c \in Container, EntityFails(c)
        PROVE  TypeOK'
    BY <2>8 DEF EntityFails, Abort, Steps
  <2>9. ASSUME NEW c \in Container, InspectFails(c)
        PROVE  TypeOK'
    BY <2>9, ReportType DEF InspectFails, Steps
  <2>10. ASSUME NEW c \in Container, InspectExpired(c)
         PROVE  TypeOK'
    BY <2>10 DEF InspectExpired, Steps
  <2>11. ASSUME NEW c \in Container, InspectUnexpired(c)
         PROVE  TypeOK'
    BY <2>11, ReportType DEF InspectUnexpired, Steps
  <2>12. ASSUME NEW c \in Container, InspectLive(c)
         PROVE  TypeOK'
    BY <2>12 DEF InspectLive, Steps
  <2>13. CASE FetchFails
    BY <2>13, ReportType DEF FetchFails, Steps
  <2>14. CASE Fetch
    <3>1. cur \in Container
      BY <2>14 DEF Fetch
    <3>2. PICK hasCPU \in BOOLEAN, positive \in DurationPositive(store[cur], now) :
             LET r == CPUReading(cur, hasCPU) IN
             /\ positive => hasCPU /\ HasCPU(store[cur])
             /\ SetBaseline(cur, r)
             /\ Report(cur, "none", IF positive THEN [from |-> store[cur], to |-> r] ELSE None)
      BY <2>14 DEF Fetch
    <3> DEFINE r == CPUReading(cur, hasCPU)
               w == IF positive THEN [from |-> store[cur], to |-> r] ELSE None
    <3>3. r \in Reading
      BY <3>1, CPUReadingType
    <3>4. w \in Window \cup {None}
      BY <3>1, <3>2, <3>3 DEF Window, HasCPU
    <3>5. SetBaseline(cur, r) /\ Report(cur, "none", w)
      BY <3>2
    <3> HIDE DEF r, w
    <3>6. QED
      BY <2>14, <3>1, <3>3, <3>4, <3>5, ReportType DEF Fetch, SetBaseline, Steps
  <2>15. CASE FetchPanics
    BY <2>15, CPUReadingType DEF FetchPanics, SetBaseline, Abort, Steps
  <2>16. CASE LoopEnds
    BY <2>16 DEF LoopEnds, Steps
  <2>17. CASE Save
    BY <2>17, ProcessEndsType DEF Save, AfterSave, Steps
  <2>18. CASE SaveFails
    BY <2>18, ProcessEndsType DEF SaveFails, AfterSave, Steps
  <2>19. CASE Publish
    BY <2>19, ProcessEndsType DEF Publish
  <2>20. CASE PublishFails
    BY <2>20, ProcessEndsType DEF PublishFails
  <2>21. CASE Kill
    BY <2>21, ProcessEndsType DEF Kill
  <2>22. CASE KillInSave
    BY <2>22, ProcessEndsType DEF KillInSave, NoReadings
  <2>23. CASE UNCHANGED vars
    BY <2>23
  <2>24. QED
    BY <2>1, <2>2, <2>3, <2>4, <2>5, <2>6, <2>7, <2>8, <2>9, <2>10, <2>11, <2>12, <2>13,
       <2>14, <2>15, <2>16, <2>17, <2>18, <2>19, <2>20, <2>21, <2>22, <2>23
    DEF Next, Environment, Execution, Inspect
<1>3. QED
  BY <1>1, <1>2, PTL DEF Spec
(***************************************************************************)
(* The loop reaches every container once.                                  *)
(***************************************************************************)

\* What Fetch reports is a sample of its container.
LEMMA FetchReports ==
    ASSUME TypeOK, Fetch
    PROVE  \E w \in Window \cup {None} :
              /\ Report(cur, "none", w)
              /\ w # None => w.from = store[cur] /\ w.to = store'[cur] /\ w.to.run = run
<1>1. cur \in Container
  BY DEF TypeOK, Fetch
<1>2. PICK hasCPU \in BOOLEAN, positive \in DurationPositive(store[cur], now) :
         LET r == CPUReading(cur, hasCPU) IN
         /\ positive => hasCPU /\ HasCPU(store[cur])
         /\ SetBaseline(cur, r)
         /\ Report(cur, "none", IF positive THEN [from |-> store[cur], to |-> r] ELSE None)
  BY DEF Fetch
<1> DEFINE r == CPUReading(cur, hasCPU)
           w == IF positive THEN [from |-> store[cur], to |-> r] ELSE None
<1>3. r \in Reading /\ r.run = run
  BY <1>1, CPUReadingType DEF CPUReading
<1>4. w \in Window \cup {None}
  BY <1>1, <1>2, <1>3 DEF Window, HasCPU, TypeOK
<1>5. store'[cur] = r
  BY <1>1, <1>2 DEF SetBaseline, TypeOK
<1>6. w # None => w.from = store[cur] /\ w.to = r
  OBVIOUS
<1>7. Report(cur, "none", w)
  BY <1>2
<1> HIDE DEF r, w
<1>8. QED
  BY <1>3, <1>4, <1>5, <1>6, <1>7

\* A report moves one container from the list to the payload.
LEMMA ReportLoop ==
    ASSUME TypeOK, LoopInv, NEW c \in todo, NEW err \in {"none", "inspect", "exited", "fetch"},
           NEW window \in Window \cup {None}, Report(c, err, window),
           pc \in {"loop", "fetch"}, UNCHANGED <<listed, outcome, skipped>>
    PROVE  LoopInv'
<1>1. c \in Container /\ todo' = todo \ {c} /\ pc' = "loop"
  BY DEF Report, TypeOK
<1>2. payload'[c] # None /\ \A d \in Container \ {c} : payload'[d] = payload[d]
  <2>1. [running |-> c \in up, err |-> err, window |-> IF c \in up THEN window ELSE None] \in Sample
    BY DEF Sample
  <2>2. QED
    BY <1>1, <2>1, NoneAssumption DEF Report, TypeOK
<1>3. QED
  BY <1>1, <1>2 DEF LoopInv, TypeOK

\* While SampleAll runs, a listed container is to do, left out or sampled, and
\* only one of the three.
THEOREM LoopCorrect == Spec => []LoopInv
<1>1. Init => LoopInv
  BY DEF Init, LoopInv, NoSamples
<1>2. TypeOK /\ LoopInv /\ [Next]_vars => LoopInv'
  <2> SUFFICES ASSUME TypeOK, LoopInv, [Next]_vars PROVE LoopInv'
    OBVIOUS
  <2> USE DEF LoopInv, TypeOK, vars, env, file, memory, history
  <2>1. ASSUME NEW c \in Container, Create(c)
        PROVE  LoopInv'
    BY <2>1 DEF Create
  <2>2. ASSUME NEW c \in Container, Start(c)
        PROVE  LoopInv'
    BY <2>2 DEF Start
  <2>3. ASSUME NEW c \in Container, Exit(c)
        PROVE  LoopInv'
    BY <2>3 DEF Exit
  <2>4. ASSUME NEW c \in Container, Remove(c)
        PROVE  LoopInv'
    BY <2>4 DEF Remove
  <2>5. ASSUME NEW c \in Container, EntityFails(c)
        PROVE  LoopInv'
    BY <2>5 DEF EntityFails, Abort
  <2>6. ASSUME NEW c \in Container, InspectFails(c)
        PROVE  LoopInv'
    BY <2>6, ReportLoop DEF InspectFails
  <2>7. ASSUME NEW c \in Container, InspectExpired(c)
        PROVE  LoopInv'
    BY <2>7 DEF InspectExpired
  <2>8. ASSUME NEW c \in Container, InspectUnexpired(c)
        PROVE  LoopInv'
    BY <2>8, ReportLoop DEF InspectUnexpired
  <2>9. ASSUME NEW c \in Container, InspectLive(c)
        PROVE  LoopInv'
    BY <2>9 DEF InspectLive
  <2>10. CASE Tick
    BY <2>10 DEF Tick
  <2>11. CASE StepBack
    BY <2>11 DEF StepBack
  <2>12. CASE Launch
    BY <2>12 DEF Launch
  <2>13. CASE SetupFails
    BY <2>13 DEF SetupFails, ProcessEnds, NoSamples
  <2>14. CASE NewSampler
    BY <2>14 DEF NewSampler
  <2>15. CASE ListFails
    BY <2>15 DEF ListFails, Abort
  <2>16. CASE ContainerList
    BY <2>16 DEF ContainerList
  <2>17. CASE FetchFails
    BY <2>17, ReportLoop DEF FetchFails
  <2>18. CASE Fetch
    <3>1. \E w \in Window \cup {None} : Report(cur, "none", w)
      BY <2>18, FetchReports
    <3>2. QED
      BY <2>18, <3>1, ReportLoop DEF Fetch
  <2>19. CASE FetchPanics
    BY <2>19 DEF FetchPanics, Abort
  <2>20. CASE LoopEnds
    BY <2>20 DEF LoopEnds
  <2>21. CASE Save
    BY <2>21 DEF Save, AfterSave, ProcessEnds, NoSamples
  <2>22. CASE SaveFails
    BY <2>22 DEF SaveFails, AfterSave, ProcessEnds, NoSamples
  <2>23. CASE Publish
    BY <2>23 DEF Publish, ProcessEnds, NoSamples
  <2>24. CASE PublishFails
    BY <2>24 DEF PublishFails, ProcessEnds, NoSamples
  <2>25. CASE Kill
    BY <2>25 DEF Kill, ProcessEnds, NoSamples
  <2>26. CASE KillInSave
    BY <2>26 DEF KillInSave, ProcessEnds, NoSamples
  <2>27. CASE UNCHANGED vars
    BY <2>27
  <2>28. QED
    BY <2>1, <2>2, <2>3, <2>4, <2>5, <2>6, <2>7, <2>8, <2>9, <2>10, <2>11, <2>12, <2>13,
         <2>14, <2>15, <2>16, <2>17, <2>18, <2>19, <2>20, <2>21, <2>22, <2>23, <2>24, <2>25,
         <2>26, <2>27
    DEF Next, Environment, Execution, Inspect
<1>3. QED
  BY <1>1, <1>2, TypeCorrect, PTL DEF Spec

\* When SampleAll returns without error, every listed container has a sample or
\* was left out as expired: a failure of one costs nothing to the others.
THEOREM CompleteCorrect == Spec => []Complete
<1>1. TypeOK /\ LoopInv => Complete
  BY DEF TypeOK, LoopInv, Complete
<1>2. QED
  BY <1>1, TypeCorrect, LoopCorrect, PTL
(***************************************************************************)
(* What was dropped stays dropped.                                         *)
(***************************************************************************)

\* A report changes the payload of its container only.
LEMMA ReportPayload ==
    ASSUME TypeOK, NEW c \in Container, NEW err \in {"none", "inspect", "exited", "fetch"},
           NEW window \in Window \cup {None}, Report(c, err, window)
    PROVE  /\ pc' = "loop"
           /\ payload'[c] # None /\ payload'[c].err = err
           /\ payload'[c].window \in {window, None}
           /\ \A d \in Container \ {c} : payload'[d] = payload[d]
<1> DEFINE s == [running |-> c \in up, err |-> err,
                 window |-> IF c \in up THEN window ELSE None]
<1>1. s \in Sample
  BY DEF Sample
<1>2. payload' = [payload EXCEPT ![c] = s] /\ pc' = "loop"
  BY DEF Report
<1>3. s.err = err /\ s.window \in {window, None}
  OBVIOUS
<1> HIDE DEF s
<1>4. QED
  BY <1>1, <1>2, <1>3, NoneAssumption DEF TypeOK

\* A dropped container is removed, or still exited and expired.
THEOREM DroppedInvCorrect == Spec => []DroppedInv
<1>1. Init => DroppedInv
  BY NoneAssumption DEF Init, DroppedInv, DroppedStaysDropped
<1>2. TypeOK /\ LoopInv /\ DroppedInv /\ [Next]_vars => DroppedInv'
  <2> SUFFICES ASSUME TypeOK, LoopInv, DroppedInv, [Next]_vars PROVE DroppedInv'
    OBVIOUS
  <2> USE DEF DroppedInv, DroppedStaysDropped, TypeOK, vars, env, file, memory, history
  <2>1. ASSUME NEW c \in Container, Create(c)
        PROVE  DroppedInv'
    BY <2>1 DEF Create, TypeOK, Expired
  <2>2. ASSUME NEW c \in Container, Start(c)
        PROVE  DroppedInv'
    BY <2>2 DEF Start, TypeOK, Expired
  <2>3. ASSUME NEW c \in Container, Exit(c)
        PROVE  DroppedInv'
    BY <2>3 DEF Exit, TypeOK, Expired
  <2>4. ASSUME NEW c \in Container, Remove(c)
        PROVE  DroppedInv'
    BY <2>4 DEF Remove, TypeOK, Expired
  <2>5. ASSUME NEW c \in Container, EntityFails(c)
        PROVE  DroppedInv'
    BY <2>5 DEF EntityFails, Abort, Expired
  <2>6. ASSUME NEW c \in Container, InspectFails(c)
        PROVE  DroppedInv'
    BY <2>6, ReportPayload DEF InspectFails, Expired, TypeOK
  <2>7. ASSUME NEW c \in Container, InspectExpired(c)
        PROVE  DroppedInv'
    BY <2>7 DEF InspectExpired, Expired, LoopInv, TypeOK
  <2>8. ASSUME NEW c \in Container, InspectUnexpired(c)
        PROVE  DroppedInv'
    BY <2>8, ReportPayload DEF InspectUnexpired, Expired, TypeOK
  <2>9. ASSUME NEW c \in Container, InspectLive(c)
        PROVE  DroppedInv'
    BY <2>9 DEF InspectLive, Expired
  <2>10. CASE Tick
    BY <2>10, ConstantsAssumption DEF Tick, Expired
  <2>11. CASE StepBack
    BY <2>11 DEF StepBack
  <2>12. CASE Launch
    BY <2>12 DEF Launch, Expired
  <2>13. CASE SetupFails
    BY <2>13 DEF SetupFails, ProcessEnds, NoSamples, Expired
  <2>14. CASE NewSampler
    BY <2>14 DEF NewSampler, Loaded, NoReadings, Expired
  <2>15. CASE ListFails
    BY <2>15 DEF ListFails, Abort, Expired
  <2>16. CASE ContainerList
    BY <2>16 DEF ContainerList, Expired
  <2>17. CASE FetchFails
    BY <2>17, ReportPayload DEF FetchFails, Expired, TypeOK
  <2>18. CASE Fetch
    <3>1. \E w \in Window \cup {None} : Report(cur, "none", w)
      BY <2>18, FetchReports
    <3>2. QED
      BY <2>18, <3>1, ReportPayload DEF Fetch, Expired, TypeOK
  <2>19. CASE FetchPanics
    BY <2>19 DEF FetchPanics, Abort, Expired
  <2>20. CASE LoopEnds
    BY <2>20 DEF LoopEnds, Expired
  <2>21. CASE Save
    BY <2>21 DEF Save, AfterSave, ProcessEnds, NoSamples, Expired
  <2>22. CASE SaveFails
    BY <2>22 DEF SaveFails, AfterSave, ProcessEnds, NoSamples, Expired
  <2>23. CASE Publish
    BY <2>23 DEF Publish, ProcessEnds, NoSamples, Expired
  <2>24. CASE PublishFails
    BY <2>24 DEF PublishFails, ProcessEnds, NoSamples, Expired
  <2>25. CASE Kill
    BY <2>25 DEF Kill, ProcessEnds, NoSamples, Expired
  <2>26. CASE KillInSave
    BY <2>26 DEF KillInSave, ProcessEnds, NoSamples, NoReadings, Expired
  <2>27. CASE UNCHANGED vars
    BY <2>27 DEF Expired
  <2>28. QED
    BY <2>1, <2>2, <2>3, <2>4, <2>5, <2>6, <2>7, <2>8, <2>9, <2>10, <2>11, <2>12, <2>13,
         <2>14, <2>15, <2>16, <2>17, <2>18, <2>19, <2>20, <2>21, <2>22, <2>23, <2>24, <2>25,
         <2>26, <2>27
    DEF Next, Environment, Execution, Inspect
<1>3. QED
  BY <1>1, <1>2, TypeCorrect, LoopCorrect, PTL DEF Spec

\* No later execution reports what an earlier one left out as expired, except
\* with the error of a failed inspection (sampler.go:90-101).
THEOREM DroppedCorrect == Spec => []DroppedStaysDropped
<1>1. DroppedInv => DroppedStaysDropped
  BY DEF DroppedInv
<1>2. QED
  BY <1>1, DroppedInvCorrect, PTL

(***************************************************************************)
(* The baseline is the latest reading.                                     *)
(***************************************************************************)

\* Every way out of a fetch that read the container sets its baseline.
LEMMA FetchSets ==
    ASSUME TypeOK, Fetch \/ FetchPanics
    PROVE  \E r \in Reading : r.run = run /\ SetBaseline(cur, r)
<1>1. cur \in Container
  BY DEF TypeOK, Fetch, FetchPanics
<1>2. PICK hasCPU \in BOOLEAN : SetBaseline(cur, CPUReading(cur, hasCPU))
  BY DEF Fetch, FetchPanics
<1>3. CPUReading(cur, hasCPU) \in Reading /\ CPUReading(cur, hasCPU).run = run
  BY <1>1, CPUReadingType DEF CPUReading
<1>4. QED
  BY <1>2, <1>3

\* Store and file lag behind the latest reading only by executions that were not saved.
THEOREM BaselineInvCorrect == Spec => []BaselineInv
<1>1. Init => BaselineInv
  BY NoneAssumption DEF Init, BaselineInv, BaselineIsLatest, NoReadings
<1>2. TypeOK /\ BaselineInv /\ [Next]_vars => BaselineInv'
  <2> SUFFICES ASSUME TypeOK, BaselineInv, [Next]_vars PROVE BaselineInv'
    OBVIOUS
  <2> USE DEF BaselineInv, BaselineIsLatest, TypeOK, vars, env, file, memory, history
  <2>1. ASSUME NEW c \in Container, Create(c)
        PROVE  BaselineInv'
    BY <2>1 DEF Create
  <2>2. ASSUME NEW c \in Container, Start(c)
        PROVE  BaselineInv'
    BY <2>2 DEF Start
  <2>3. ASSUME NEW c \in Container, Exit(c)
        PROVE  BaselineInv'
    BY <2>3 DEF Exit
  <2>4. ASSUME NEW c \in Container, Remove(c)
        PROVE  BaselineInv'
    BY <2>4 DEF Remove
  <2>5. ASSUME NEW c \in Container, EntityFails(c)
        PROVE  BaselineInv'
    BY <2>5 DEF EntityFails, Abort
  <2>6. ASSUME NEW c \in Container, InspectFails(c)
        PROVE  BaselineInv'
    BY <2>6 DEF InspectFails, Report
  <2>7. ASSUME NEW c \in Container, InspectExpired(c)
        PROVE  BaselineInv'
    BY <2>7 DEF InspectExpired
  <2>8. ASSUME NEW c \in Container, InspectUnexpired(c)
        PROVE  BaselineInv'
    BY <2>8 DEF InspectUnexpired, Report
  <2>9. ASSUME NEW c \in Container, InspectLive(c)
        PROVE  BaselineInv'
    BY <2>9 DEF InspectLive
  <2>10. CASE Tick
    BY <2>10 DEF Tick
  <2>11. CASE StepBack
    BY <2>11 DEF StepBack
  <2>12. CASE Launch
    BY <2>12 DEF Launch
  <2>13. CASE SetupFails
    BY <2>13 DEF SetupFails, ProcessEnds, NoReadings
  <2>14. CASE NewSampler
    BY <2>14 DEF NewSampler, Loaded, NoReadings
  <2>15. CASE ListFails
    BY <2>15 DEF ListFails, Abort
  <2>16. CASE ContainerList
    BY <2>16 DEF ContainerList
  <2>17. CASE FetchFails
    BY <2>17 DEF FetchFails, Report
  <2>18. CASE Fetch
    <3>1. PICK r \in Reading : r.run = run /\ SetBaseline(cur, r)
      BY <2>18, FetchSets
    <3>2. pc' = "loop" /\ cur \in Container
      BY <2>18 DEF Fetch, Report
    <3>3. QED
      BY <2>18, <3>1, <3>2 DEF Fetch, SetBaseline
  <2>19. CASE FetchPanics
    <3>1. PICK r \in Reading : r.run = run /\ SetBaseline(cur, r)
      BY <2>19, FetchSets
    <3>2. pc' = "save" /\ cur \in Container
      BY <2>19 DEF FetchPanics, Abort
    <3>3. QED
      BY <2>19, <3>1, <3>2 DEF FetchPanics, SetBaseline
  <2>20. CASE LoopEnds
    BY <2>20 DEF LoopEnds
  <2>21. CASE Save
    BY <2>21 DEF Save, AfterSave, ProcessEnds, NoReadings
  <2>22. CASE SaveFails
    BY <2>22 DEF SaveFails, AfterSave, ProcessEnds, NoReadings
  <2>23. CASE Publish
    BY <2>23 DEF Publish, ProcessEnds, NoReadings
  <2>24. CASE PublishFails
    BY <2>24 DEF PublishFails, ProcessEnds, NoReadings
  <2>25. CASE Kill
    BY <2>25 DEF Kill, ProcessEnds, NoReadings, Steps
  <2>26. CASE KillInSave
    BY <2>26 DEF KillInSave, ProcessEnds, NoReadings
  <2>27. CASE UNCHANGED vars
    BY <2>27
  <2>28. QED
    BY <2>1, <2>2, <2>3, <2>4, <2>5, <2>6, <2>7, <2>8, <2>9, <2>10, <2>11, <2>12, <2>13,
         <2>14, <2>15, <2>16, <2>17, <2>18, <2>19, <2>20, <2>21, <2>22, <2>23, <2>24, <2>25,
         <2>26, <2>27
    DEF Next, Environment, Execution, Inspect
<1>3. QED
  BY <1>1, <1>2, TypeCorrect, PTL DEF Spec

\* Every execution that saved its store left the latest readings in the file.
THEOREM BaselineCorrect == Spec => []BaselineIsLatest
<1>1. BaselineInv => BaselineIsLatest
  BY DEF BaselineInv
<1>2. QED
  BY <1>1, BaselineInvCorrect, PTL

(***************************************************************************)
(* Published windows do not overlap.                                       *)
(***************************************************************************)

\* No baseline, in the file or in memory, reaches back before a published window.
THEOREM WindowInvCorrect == Spec => []WindowInv
<1>1. Init => WindowInv
  BY NoneAssumption DEF Init, WindowInv, NoReadings, NoSamples, NotCounted
<1>2. TypeOK /\ LoopInv /\ WindowInv /\ [Next]_vars => WindowInv'
  <2> SUFFICES ASSUME TypeOK, LoopInv, WindowInv, [Next]_vars PROVE WindowInv'
    OBVIOUS
  <2> USE DEF WindowInv, TypeOK, vars, env, file, memory, history
  <2>1. ASSUME NEW c \in Container, Create(c)
        PROVE  WindowInv'
    BY <2>1 DEF Create, NotCounted
  <2>2. ASSUME NEW c \in Container, Start(c)
        PROVE  WindowInv'
    BY <2>2 DEF Start, NotCounted
  <2>3. ASSUME NEW c \in Container, Exit(c)
        PROVE  WindowInv'
    BY <2>3 DEF Exit, NotCounted
  <2>4. ASSUME NEW c \in Container, Remove(c)
        PROVE  WindowInv'
    BY <2>4 DEF Remove, NotCounted
  <2>5. ASSUME NEW c \in Container, EntityFails(c)
        PROVE  WindowInv'
    BY <2>5 DEF EntityFails, Abort, NotCounted
  <2>6. ASSUME NEW c \in Container, InspectFails(c)
        PROVE  WindowInv'
    BY <2>6, ReportPayload, NoneAssumption DEF InspectFails, NotCounted
  <2>7. ASSUME NEW c \in Container, InspectExpired(c)
        PROVE  WindowInv'
    BY <2>7 DEF InspectExpired, NotCounted
  <2>8. ASSUME NEW c \in Container, InspectUnexpired(c)
        PROVE  WindowInv'
    BY <2>8, ReportPayload, NoneAssumption DEF InspectUnexpired, NotCounted
  <2>9. ASSUME NEW c \in Container, InspectLive(c)
        PROVE  WindowInv'
    BY <2>9 DEF InspectLive, NotCounted
  <2>10. CASE Tick
    BY <2>10 DEF Tick, NotCounted
  <2>11. CASE StepBack
    BY <2>11 DEF StepBack, NotCounted
  <2>12. CASE Launch
    <3>1. \A c \in Container : payload[c] = None
      BY <2>12 DEF Launch, LoopInv
    <3>2. QED
      BY <2>12, <3>1 DEF Launch, NotCounted
  <2>13. CASE SetupFails
    BY <2>13 DEF SetupFails, ProcessEnds, NoReadings, NoSamples, NotCounted
  <2>14. CASE NewSampler
    <3>1. \A c \in Container : payload[c] = None
      BY <2>14 DEF NewSampler, LoopInv
    <3>2. QED
      BY <2>14, <3>1 DEF NewSampler, Loaded, NoReadings, NotCounted
  <2>15. CASE ListFails
    BY <2>15 DEF ListFails, Abort, NotCounted
  <2>16. CASE ContainerList
    BY <2>16 DEF ContainerList, NotCounted
  <2>17. CASE FetchFails
    BY <2>17, ReportPayload, NoneAssumption DEF FetchFails, NotCounted
  <2>18. CASE Fetch
    <3>1. PICK r \in Reading : r.run = run /\ SetBaseline(cur, r)
      BY <2>18, FetchSets
    <3>2. PICK w \in Window \cup {None} :
             /\ Report(cur, "none", w)
             /\ w # None => w.from = store[cur] /\ w.to = store'[cur] /\ w.to.run = run
      BY <2>18, FetchReports
    <3>3. cur \in Container /\ cur \in todo
      BY <2>18 DEF Fetch
    <3>4. store'[cur] = r /\ \A d \in Container \ {cur} : store'[d] = store[d]
      BY <3>1, <3>3 DEF SetBaseline
    <3>5. /\ pc' = "loop" /\ payload'[cur] # None
          /\ payload'[cur].window \in {w, None}
          /\ \A d \in Container \ {cur} : payload'[d] = payload[d]
      BY <3>2, <3>3, ReportPayload
    <3>6. UNCHANGED <<disk, counted, run, unsaved>>
      BY <2>18 DEF Fetch
    <3>7. QED
      BY <3>1, <3>2, <3>3, <3>4, <3>5, <3>6 DEF NotCounted
  <2>19. CASE FetchPanics
    <3>1. PICK r \in Reading : r.run = run /\ SetBaseline(cur, r)
      BY <2>19, FetchSets
    <3>2. cur \in todo /\ cur \in Container
      BY <2>19 DEF FetchPanics
    <3>3. payload[cur] = None
      BY <3>2 DEF LoopInv
    <3>4. pc' = "save" /\ UNCHANGED <<disk, counted, run, unsaved, payload>>
      BY <2>19 DEF FetchPanics, Abort
    <3>5. store'[cur] = r /\ \A d \in Container \ {cur} : store'[d] = store[d]
      BY <3>1, <3>2 DEF SetBaseline
    <3>6. QED
      BY <3>1, <3>2, <3>3, <3>4, <3>5 DEF NotCounted
  <2>20. CASE LoopEnds
    BY <2>20 DEF LoopEnds, NotCounted
  <2>21. CASE Save
    <3>1. store \in [Container -> Reading \cup {None}]
      OBVIOUS
    <3>2. CASE outcome = "ok"
      BY <2>21, <3>1, <3>2 DEF Save, AfterSave, NotCounted
    <3>3. CASE outcome # "ok"
      BY <2>21, <3>1, <3>3 DEF Save, AfterSave, ProcessEnds, NoReadings, NoSamples, NotCounted
    <3>4. QED
      BY <3>2, <3>3
  <2>22. CASE SaveFails
    <3>1. store \in [Container -> Reading \cup {None}]
      OBVIOUS
    <3>2. CASE outcome = "ok"
      BY <2>22, <3>1, <3>2 DEF SaveFails, AfterSave, NotCounted
    <3>3. CASE outcome # "ok"
      BY <2>22, <3>1, <3>3 DEF SaveFails, AfterSave, ProcessEnds, NoReadings, NoSamples, NotCounted
    <3>4. QED
      BY <3>2, <3>3
  <2>23. CASE Publish
    <3>1. disk' = disk /\ run' = run /\ unsaved' = unsaved /\ pc' = "idle"
          /\ store' = NoReadings /\ payload' = NoSamples
      BY <2>23 DEF Publish, ProcessEnds
    <3>2. ASSUME NEW c \in Container
          PROVE  counted'[c] <= run /\ (disk[c] # None => disk[c].run >= counted'[c]
                                                       \/ counted'[c] \in unsaved)
      <4>1. CASE payload[c] # None /\ payload[c].window # None
        BY <2>23, <4>1 DEF Publish
      <4>2. CASE ~(payload[c] # None /\ payload[c].window # None)
        BY <2>23, <4>2 DEF Publish, NotCounted
      <4>3. QED
        BY <4>1, <4>2
    <3>3. QED
      BY <3>1, <3>2 DEF NotCounted, NoReadings, NoSamples
  <2>24. CASE PublishFails
    BY <2>24 DEF PublishFails, ProcessEnds, NoReadings, NoSamples, NotCounted
  <2>25. CASE Kill
    BY <2>25 DEF Kill, ProcessEnds, NoReadings, NoSamples, NotCounted
  <2>26. CASE KillInSave
    BY <2>26 DEF KillInSave, ProcessEnds, NoReadings, NoSamples, NotCounted
  <2>27. CASE UNCHANGED vars
    BY <2>27 DEF NotCounted
  <2>28. QED
    BY <2>1, <2>2, <2>3, <2>4, <2>5, <2>6, <2>7, <2>8, <2>9, <2>10, <2>11, <2>12, <2>13,
         <2>14, <2>15, <2>16, <2>17, <2>18, <2>19, <2>20, <2>21, <2>22, <2>23, <2>24, <2>25,
         <2>26, <2>27
    DEF Next, Environment, Execution, Inspect
<1>3. QED
  BY <1>1, <1>2, TypeCorrect, LoopCorrect, PTL DEF Spec

\* CPU time is published once, unless the execution that published it could
\* not save.
THEOREM WindowsDisjointCorrect == Spec => []WindowsDisjoint
<1>1. TypeOK /\ WindowInv => WindowsDisjoint
  BY NoneAssumption DEF TypeOK, WindowInv, WindowsDisjoint, NotCounted, Sample, Window
<1>2. QED
  BY <1>1, TypeCorrect, WindowInvCorrect, PTL

(***************************************************************************)
(* Only a container without CPU statistics can make the execution panic.   *)
(***************************************************************************)

\* The baselines of the containers whose CPU statistics can be read hold them,
\* in the file and in memory.
THEOREM PanicInvCorrect == Spec => []PanicInv
<1>1. Init => PanicInv
  BY NoneAssumption DEF Init, PanicInv, PanicOnlyWithoutCPU, NoReadings
<1>2. TypeOK /\ LoopInv /\ PanicInv /\ [Next]_vars => PanicInv'
  <2> SUFFICES ASSUME TypeOK, LoopInv, PanicInv, [Next]_vars PROVE PanicInv'
    OBVIOUS
  <2> USE DEF PanicInv, PanicOnlyWithoutCPU, LoopInv, TypeOK, vars, env, file, memory, history
  <2>1. ASSUME NEW c \in Container, Create(c)
        PROVE  PanicInv'
    BY <2>1 DEF Create
  <2>2. ASSUME NEW c \in Container, Start(c)
        PROVE  PanicInv'
    BY <2>2 DEF Start
  <2>3. ASSUME NEW c \in Container, Exit(c)
        PROVE  PanicInv'
    BY <2>3 DEF Exit
  <2>4. ASSUME NEW c \in Container, Remove(c)
        PROVE  PanicInv'
    BY <2>4 DEF Remove
  <2>5. ASSUME NEW c \in Container, EntityFails(c)
        PROVE  PanicInv'
    BY <2>5 DEF EntityFails, Abort
  <2>6. ASSUME NEW c \in Container, InspectFails(c)
        PROVE  PanicInv'
    BY <2>6 DEF InspectFails, Report
  <2>7. ASSUME NEW c \in Container, InspectExpired(c)
        PROVE  PanicInv'
    BY <2>7 DEF InspectExpired
  <2>8. ASSUME NEW c \in Container, InspectUnexpired(c)
        PROVE  PanicInv'
    BY <2>8 DEF InspectUnexpired, Report
  <2>9. ASSUME NEW c \in Container, InspectLive(c)
        PROVE  PanicInv'
    BY <2>9 DEF InspectLive
  <2>10. CASE Tick
    BY <2>10 DEF Tick
  <2>11. CASE StepBack
    BY <2>11 DEF StepBack
  <2>12. CASE Launch
    BY <2>12 DEF Launch
  <2>13. CASE SetupFails
    BY <2>13 DEF SetupFails, ProcessEnds, NoReadings
  <2>14. CASE NewSampler
    BY <2>14 DEF NewSampler, Loaded, NoReadings
  <2>15. CASE ListFails
    BY <2>15 DEF ListFails, Abort
  <2>16. CASE ContainerList
    BY <2>16 DEF ContainerList
  <2>17. CASE FetchFails
    BY <2>17 DEF FetchFails, Report
  <2>18. CASE Fetch
    <3>1. PICK hasCPU \in BOOLEAN :
             (hasCPU \/ cur \in LacksCPU) /\ SetBaseline(cur, CPUReading(cur, hasCPU))
      BY <2>18 DEF Fetch
    <3>2. CPUReading(cur, hasCPU).cpu = hasCPU /\ cur \in Container
      BY <2>18 DEF CPUReading, Fetch
    <3>3. disk' = disk /\ outcome' = "ok"
      BY <2>18 DEF Fetch
    <3>4. QED
      BY <3>1, <3>2, <3>3 DEF SetBaseline
  <2>19. CASE FetchPanics
    <3>1. cur \in Container /\ disk' = disk /\ cur' = cur
      BY <2>19 DEF FetchPanics
    <3>2. store[cur] # None
      BY <2>19 DEF FetchPanics, DurationPositive
    <3>3. PICK hasCPU \in BOOLEAN :
             /\ hasCPU \/ cur \in LacksCPU
             /\ ~(hasCPU /\ HasCPU(store[cur]))
             /\ SetBaseline(cur, CPUReading(cur, hasCPU))
      BY <2>19 DEF FetchPanics
    <3>4. cur \in LacksCPU
      BY <3>1, <3>2, <3>3 DEF HasCPU
    <3>5. QED
      BY <3>1, <3>3, <3>4 DEF SetBaseline
  <2>20. CASE LoopEnds
    BY <2>20 DEF LoopEnds
  <2>21. CASE Save
    BY <2>21 DEF Save, AfterSave, ProcessEnds, NoReadings
  <2>22. CASE SaveFails
    BY <2>22 DEF SaveFails, AfterSave, ProcessEnds, NoReadings
  <2>23. CASE Publish
    BY <2>23 DEF Publish, ProcessEnds, NoReadings
  <2>24. CASE PublishFails
    BY <2>24 DEF PublishFails, ProcessEnds, NoReadings
  <2>25. CASE Kill
    BY <2>25 DEF Kill, ProcessEnds, NoReadings
  <2>26. CASE KillInSave
    BY <2>26 DEF KillInSave, ProcessEnds, NoReadings
  <2>27. CASE UNCHANGED vars
    BY <2>27
  <2>28. QED
    BY <2>1, <2>2, <2>3, <2>4, <2>5, <2>6, <2>7, <2>8, <2>9, <2>10, <2>11, <2>12, <2>13,
         <2>14, <2>15, <2>16, <2>17, <2>18, <2>19, <2>20, <2>21, <2>22, <2>23, <2>24, <2>25,
         <2>26, <2>27
    DEF Next, Environment, Execution, Inspect
<1>3. QED
  BY <1>1, <1>2, TypeCorrect, LoopCorrect, PTL DEF Spec

\* cpu dereferences no missing baseline: it panics only for a container whose
\* cgroup showed no CPU statistics (metrics_all.go:126-142).
THEOREM PanicCorrect == Spec => []PanicOnlyWithoutCPU
<1>1. PanicInv => PanicOnlyWithoutCPU
  BY DEF PanicInv
<1>2. QED
  BY <1>1, PanicInvCorrect, PTL

(***************************************************************************)
(* The refinement: ContainerSampler keeps CpuLedger's promise.             *)
(***************************************************************************)

\* Within an execution the store is the file but for what the execution has
\* read, and every window of the payload starts at the file.
THEOREM LedgerInvCorrect == Spec => []LedgerInv
<1>1. Init => LedgerInv
  BY NoneAssumption DEF Init, LedgerInv, Read, NoReadings, NoSamples
<1>2. TypeOK /\ LoopInv /\ LedgerInv /\ [Next]_vars => LedgerInv'
  <2> SUFFICES ASSUME TypeOK, LoopInv, LedgerInv, [Next]_vars PROVE LedgerInv'
    OBVIOUS
  <2> USE DEF LedgerInv, Read, TypeOK, vars, env, file, memory, history
  <2>1. ASSUME NEW c \in Container, Create(c)
        PROVE  LedgerInv'
    BY <2>1 DEF Create
  <2>2. ASSUME NEW c \in Container, Start(c)
        PROVE  LedgerInv'
    BY <2>2 DEF Start
  <2>3. ASSUME NEW c \in Container, Exit(c)
        PROVE  LedgerInv'
    BY <2>3 DEF Exit
  <2>4. ASSUME NEW c \in Container, Remove(c)
        PROVE  LedgerInv'
    BY <2>4 DEF Remove
  <2>5. ASSUME NEW c \in Container, EntityFails(c)
        PROVE  LedgerInv'
    BY <2>5 DEF EntityFails, Abort
  <2>6. ASSUME NEW c \in Container, InspectFails(c)
        PROVE  LedgerInv'
    BY <2>6, ReportPayload, NoneAssumption DEF InspectFails, Report
  <2>7. ASSUME NEW c \in Container, InspectExpired(c)
        PROVE  LedgerInv'
    BY <2>7 DEF InspectExpired
  <2>8. ASSUME NEW c \in Container, InspectUnexpired(c)
        PROVE  LedgerInv'
    BY <2>8, ReportPayload, NoneAssumption DEF InspectUnexpired, Report
  <2>9. ASSUME NEW c \in Container, InspectLive(c)
        PROVE  LedgerInv'
    BY <2>9 DEF InspectLive
  <2>10. CASE Tick
    BY <2>10 DEF Tick
  <2>11. CASE StepBack
    BY <2>11 DEF StepBack
  <2>12. CASE Launch
    <3>1. \A c \in Container : payload[c] = None
      BY <2>12 DEF Launch, LoopInv
    <3>2. \A c \in Container : lastRead[c] # None => lastRead[c].run \in Nat
      BY DEF Reading
    <3>3. QED
      BY <2>12, <3>1, <3>2 DEF Launch
  <2>13. CASE SetupFails
    BY <2>13 DEF SetupFails, ProcessEnds, NoReadings, NoSamples
  <2>14. CASE NewSampler
    <3>1. \A c \in Container : payload[c] = None
      BY <2>14 DEF NewSampler, LoopInv
    <3>2. QED
      BY <2>14, <3>1 DEF NewSampler, Loaded, NoReadings
  <2>15. CASE ListFails
    BY <2>15 DEF ListFails, Abort
  <2>16. CASE ContainerList
    BY <2>16 DEF ContainerList
  <2>17. CASE FetchFails
    BY <2>17, ReportPayload, NoneAssumption DEF FetchFails, Report
  <2>18. CASE Fetch
    <3>1. PICK r \in Reading : r.run = run /\ SetBaseline(cur, r)
      BY <2>18, FetchSets
    <3>2. PICK w \in Window \cup {None} :
             /\ Report(cur, "none", w)
             /\ w # None => w.from = store[cur] /\ w.to = store'[cur] /\ w.to.run = run
      BY <2>18, FetchReports
    <3>3. cur \in Container /\ cur \in todo /\ pc = "fetch"
      BY <2>18 DEF Fetch
    <3>4. /\ store'[cur] = r /\ lastRead'[cur] = r
          /\ \A d \in Container \ {cur} : store'[d] = store[d] /\ lastRead'[d] = lastRead[d]
      BY <3>1, <3>3 DEF SetBaseline
    <3>5. /\ pc' = "loop" /\ todo' = todo \ {cur}
          /\ payload'[cur].window \in {w, None}
          /\ \A d \in Container \ {cur} : payload'[d] = payload[d]
      BY <3>2, <3>3, ReportPayload DEF Report
    <3>6. UNCHANGED <<disk, run>>
      BY <2>18 DEF Fetch
    <3>7. r # None
      BY NoneAssumption
    <3>8. w # None => w.from = disk[cur] /\ disk[cur] # None
      BY <3>2, <3>3, NoneAssumption DEF Window
    <3>9. QED
      BY <3>1, <3>3, <3>4, <3>5, <3>6, <3>7, <3>8
  <2>19. CASE FetchPanics
    <3>1. PICK r \in Reading : r.run = run /\ SetBaseline(cur, r)
      BY <2>19, FetchSets
    <3>2. cur \in todo /\ cur \in Container /\ pc = "fetch"
      BY <2>19 DEF FetchPanics
    <3>3. payload[cur] = None
      BY <3>2 DEF LoopInv
    <3>4. pc' = "save" /\ UNCHANGED <<disk, run, todo, payload>>
      BY <2>19 DEF FetchPanics, Abort
    <3>5. /\ store'[cur] = r /\ lastRead'[cur] = r
          /\ \A d \in Container \ {cur} : store'[d] = store[d] /\ lastRead'[d] = lastRead[d]
      BY <3>1, <3>2 DEF SetBaseline
    <3>6. r # None
      BY NoneAssumption
    <3>7. QED
      BY <3>1, <3>2, <3>3, <3>4, <3>5, <3>6
  <2>20. CASE LoopEnds
    BY <2>20 DEF LoopEnds
  <2>21. CASE Save
    <3>1. CASE outcome = "ok"
      BY <2>21, <3>1 DEF Save, AfterSave
    <3>2. CASE outcome # "ok"
      BY <2>21, <3>2 DEF Save, AfterSave, ProcessEnds, NoReadings, NoSamples
    <3>3. QED
      BY <3>1, <3>2
  <2>22. CASE SaveFails
    BY <2>22 DEF SaveFails, AfterSave, ProcessEnds, NoReadings, NoSamples
  <2>23. CASE Publish
    BY <2>23 DEF Publish, ProcessEnds, NoReadings, NoSamples
  <2>24. CASE PublishFails
    BY <2>24 DEF PublishFails, ProcessEnds, NoReadings, NoSamples
  <2>25. CASE Kill
    BY <2>25 DEF Kill, ProcessEnds, NoReadings, NoSamples
  <2>26. CASE KillInSave
    BY <2>26 DEF KillInSave, ProcessEnds, NoReadings, NoSamples
  <2>27. CASE UNCHANGED vars
    BY <2>27
  <2>28. QED
    BY <2>1, <2>2, <2>3, <2>4, <2>5, <2>6, <2>7, <2>8, <2>9, <2>10, <2>11, <2>12, <2>13, <2>14, <2>15, <2>16, <2>17, <2>18, <2>19, <2>20, <2>21, <2>22, <2>23, <2>24, <2>25, <2>26, <2>27
    DEF Next, Environment, Execution, Inspect
<1>3. QED
  BY <1>1, <1>2, TypeCorrect, LoopCorrect, PTL DEF Spec

(***************************************************************************)
(* The refinement.                                                         *)
(***************************************************************************)

\* The ledger does not see a step that leaves run, file and history alone and
\* neither opens, settles nor publishes.
LEMMA LedgerStutters ==
    ASSUME UNCHANGED <<run, disk, lastRead, counted, unsaved>>, Open' = Open,
           (pc # "publish" /\ pc' # "publish") \/ UNCHANGED <<pc, payload>>
    PROVE  UNCHANGED Ledger!vars
<1>1. ReadByRun' = ReadByRun
  BY DEF ReadByRun, Read
<1>2. \A c \in Container : WindowStart(c)' = WindowStart(c)
  BY DEF WindowStart
<1>3. QED
  BY <1>1, <1>2 DEF Ledger!vars

\* What a fetch reads is read for the ledger, and nothing else of it changes.
LEMMA LedgerReads ==
    ASSUME TypeOK, pc = "fetch", pc' \in {"loop", "save"},
           NEW r \in Reading, r.run = run, SetBaseline(cur, r),
           UNCHANGED <<run, disk, counted, unsaved>>
    PROVE  \E c \in Container : Ledger!Read(c)
<1>1. cur \in Container /\ Open /\ Open'
  BY DEF TypeOK, Open, Steps
<1>2. lastRead'[cur] = r /\ \A d \in Container \ {cur} : lastRead'[d] = lastRead[d]
  BY <1>1 DEF TypeOK, SetBaseline
<1>3. ReadByRun' = ReadByRun \cup {cur}
  BY <1>1, <1>2, NoneAssumption DEF ReadByRun, Read
<1>4. \A c \in Container : WindowStart(c) = 0 /\ WindowStart(c)' = 0
  BY DEF WindowStart
<1>5. QED
  BY <1>1, <1>3, <1>4 DEF Ledger!Read

\* The samples kept for publication draft the windows that start at the file.
LEMMA KeptDrafts ==
    ASSUME TypeOK, LedgerInv, pc = "save", pc' = "publish", UNCHANGED payload
    PROVE  \A c \in Container :
              /\ WindowStart(c)' \in Nat
              /\ WindowStart(c)' # 0 => c \in ReadByRun /\ WindowStart(c)' = RunOf(disk[c])
<1> SUFFICES ASSUME NEW c \in Container
             PROVE  /\ WindowStart(c)' \in Nat
                    /\ WindowStart(c)' # 0 => c \in ReadByRun /\ WindowStart(c)' = RunOf(disk[c])
  OBVIOUS
<1>1. CASE payload[c] # None /\ payload[c].window # None
  <2>1. payload[c].window \in Window
    BY <1>1 DEF TypeOK, Sample
  <2>2. Read(c) /\ payload[c].window.from = disk[c]
    BY <1>1 DEF LedgerInv
  <2>3. disk[c] \in Reading
    BY <2>1, <2>2 DEF Window
  <2>4. WindowStart(c)' = disk[c].run /\ RunOf(disk[c]) = disk[c].run
    BY <1>1, <2>2, <2>3, NoneAssumption DEF WindowStart, RunOf
  <2>5. QED
    BY <2>2, <2>3, <2>4 DEF ReadByRun, Open, Steps, Reading
<1>2. CASE ~(payload[c] # None /\ payload[c].window # None)
  BY <1>2 DEF WindowStart
<1>3. QED
  BY <1>1, <1>2

\* The saved store holds what was read, and of the rest what the file held.
LEMMA SavedBaselines ==
    ASSUME TypeOK, LedgerInv, pc = "save", disk' = store, NEW c \in Container
    PROVE  /\ RunOf(disk[c])' \in Nat
           /\ RunOf(disk[c])' \in IF c \in ReadByRun THEN {run} ELSE {0, RunOf(disk[c])}
<1>1. disk[c] \in Reading \cup {None} /\ store[c] \in Reading \cup {None}
  BY DEF TypeOK
<1>2. CASE Read(c)
  <2>1. store[c] = lastRead[c] /\ lastRead[c] # None /\ lastRead[c].run = run
    BY <1>2 DEF LedgerInv, Read
  <2>2. c \in ReadByRun
    BY <1>2 DEF ReadByRun, Open, Steps
  <2>3. QED
    BY <2>1, <2>2 DEF RunOf, TypeOK
<1>3. CASE ~Read(c)
  <2>1. store[c] \in {None, disk[c]}
    BY <1>3 DEF LedgerInv
  <2>2. c \notin ReadByRun
    BY <1>3 DEF ReadByRun
  <2>3. RunOf(disk[c]) \in Nat
    BY <1>1 DEF RunOf, Reading
  <2>4. QED
    BY <2>1, <2>2, <2>3 DEF RunOf
<1>4. QED
  BY <1>2, <1>3

\* Every step of the sampler is a step of the ledger or none.
LEMMA LedgerStep ==
    ASSUME TypeOK, LoopInv, LedgerInv, TypeOK', LedgerInv', [Next]_vars
    PROVE  [Ledger!Next]_Ledger!vars
<1> USE DEF vars, env, file, memory, history
<1>1. ASSUME NEW c \in Container, Create(c)
      PROVE  [Ledger!Next]_Ledger!vars
  BY <1>1, LedgerStutters DEF Create, Open
<1>2. ASSUME NEW c \in Container, Start(c)
      PROVE  [Ledger!Next]_Ledger!vars
  BY <1>2, LedgerStutters DEF Start, Open
<1>3. ASSUME NEW c \in Container, Exit(c)
      PROVE  [Ledger!Next]_Ledger!vars
  BY <1>3, LedgerStutters DEF Exit, Open
<1>4. ASSUME NEW c \in Container, Remove(c)
      PROVE  [Ledger!Next]_Ledger!vars
  BY <1>4, LedgerStutters DEF Remove, Open
<1>5. ASSUME NEW c \in Container, EntityFails(c)
      PROVE  [Ledger!Next]_Ledger!vars
  BY <1>5, LedgerStutters DEF EntityFails, Open, Steps, Abort
<1>6. ASSUME NEW c \in Container, InspectFails(c)
      PROVE  [Ledger!Next]_Ledger!vars
  BY <1>6, LedgerStutters DEF InspectFails, Open, Steps, Report
<1>7. ASSUME NEW c \in Container, InspectExpired(c)
      PROVE  [Ledger!Next]_Ledger!vars
  BY <1>7, LedgerStutters DEF InspectExpired, Open, Steps
<1>8. ASSUME NEW c \in Container, InspectUnexpired(c)
      PROVE  [Ledger!Next]_Ledger!vars
  BY <1>8, LedgerStutters DEF InspectUnexpired, Open, Steps, Report
<1>9. ASSUME NEW c \in Container, InspectLive(c)
      PROVE  [Ledger!Next]_Ledger!vars
  BY <1>9, LedgerStutters DEF InspectLive, Open, Steps
<1>10. CASE Tick
  BY <1>10, LedgerStutters DEF Tick, Open
<1>11. CASE StepBack
  BY <1>11, LedgerStutters DEF StepBack, Open
<1>12. CASE Launch
  <2>1. ~Open /\ Open'
    BY <1>12 DEF Launch, Open, Steps
  <2>2. ReadByRun = {} /\ ReadByRun' = {}
    BY <1>12, <2>1 DEF Launch, ReadByRun, LedgerInv
  <2>3. \A c \in Container : WindowStart(c) = 0 /\ WindowStart(c)' = 0
    BY <1>12 DEF Launch, WindowStart
  <2>4. Ledger!Begin
    BY <1>12, <2>1, <2>2, <2>3 DEF Launch, Ledger!Begin, Ledger!Nothing
  <2>5. QED
    BY <2>4 DEF Ledger!Next
<1>13. CASE SetupFails
  <2>1. Open /\ ~Open' /\ ReadByRun' = {}
    BY <1>13 DEF SetupFails, ProcessEnds, Open, Steps, ReadByRun
  <2>2. \A c \in Container : WindowStart(c)' = 0
    BY <1>13 DEF SetupFails, ProcessEnds, WindowStart
  <2>3. UNCHANGED <<run, disk, counted>> /\ unsaved' = unsaved \cup {run}
    BY <1>13 DEF SetupFails
  <2>4. Ledger!Fail
    BY <2>1, <2>2, <2>3 DEF Ledger!Fail, Ledger!Drafts
  <2>5. QED
    BY <2>4 DEF Ledger!Next
<1>14. CASE NewSampler
  BY <1>14, LedgerStutters DEF NewSampler, Open, Steps
<1>15. CASE ListFails
  BY <1>15, LedgerStutters DEF ListFails, Open, Steps, Abort
<1>16. CASE ContainerList
  BY <1>16, LedgerStutters DEF ContainerList, Open, Steps
<1>17. CASE FetchFails
  BY <1>17, LedgerStutters DEF FetchFails, Open, Steps, Report
<1>18. CASE LoopEnds
  BY <1>18, LedgerStutters DEF LoopEnds, Open, Steps
<1>19. CASE Fetch
  <2>1. PICK r \in Reading : r.run = run /\ SetBaseline(cur, r)
    BY <1>19, FetchSets
  <2>2. pc = "fetch" /\ pc' = "loop" /\ UNCHANGED <<run, disk, counted, unsaved>>
    BY <1>19 DEF Fetch, Report
  <2>3. QED
    BY <2>1, <2>2, LedgerReads DEF Ledger!Next
<1>20. CASE FetchPanics
  <2>1. PICK r \in Reading : r.run = run /\ SetBaseline(cur, r)
    BY <1>20, FetchSets
  <2>2. pc = "fetch" /\ pc' = "save" /\ UNCHANGED <<run, disk, counted, unsaved>>
    BY <1>20 DEF FetchPanics, Abort
  <2>3. QED
    BY <2>1, <2>2, LedgerReads DEF Ledger!Next
<1>21. CASE Save
  <2>1. Open /\ ~Open' /\ ReadByRun' = {}
    BY <1>21 DEF Save, AfterSave, ProcessEnds, Open, Steps, ReadByRun
  <2>2. UNCHANGED <<run, counted, unsaved>> /\ disk' = store /\ pc = "save"
    BY <1>21 DEF Save
  <2>3. Ledger!Drafts
    <3>1. CASE outcome = "ok"
      BY <1>21, <3>1, KeptDrafts DEF Save, AfterSave, Ledger!Drafts
    <3>2. CASE outcome # "ok"
      BY <1>21, <3>2 DEF Save, AfterSave, ProcessEnds, WindowStart, Ledger!Drafts
    <3>3. QED
      BY <3>1, <3>2
  <2>4. \A c \in Container :
           /\ RunOf(disk[c])' \in Nat
           /\ RunOf(disk[c])' \in IF c \in ReadByRun THEN {run} ELSE {0, RunOf(disk[c])}
    BY <2>2, SavedBaselines
  <2> DEFINE base == [c \in Container |-> RunOf(disk[c])]
             next == [c \in Container |-> RunOf(disk'[c])]
  <2>5. /\ next \in [Container -> Nat]
        /\ \A c \in Container :
              next[c] \in IF c \in ReadByRun THEN {run} ELSE {0, base[c]}
    BY <2>4 DEF RunOf
  <2>6. Ledger!Settle
    BY <2>1, <2>2, <2>3, <2>5 DEF Ledger!Settle, RunOf
  <2>7. QED
    BY <2>6 DEF Ledger!Next
<1>22. CASE SaveFails
  <2>1. Open /\ ~Open' /\ ReadByRun' = {}
    BY <1>22 DEF SaveFails, AfterSave, ProcessEnds, Open, Steps, ReadByRun
  <2>2. UNCHANGED <<run, disk, counted>> /\ unsaved' = unsaved \cup {run} /\ pc = "save"
    BY <1>22 DEF SaveFails
  <2>3. Ledger!Drafts
    <3>1. CASE outcome = "ok"
      BY <1>22, <3>1, KeptDrafts DEF SaveFails, AfterSave, Ledger!Drafts
    <3>2. CASE outcome # "ok"
      BY <1>22, <3>2 DEF SaveFails, AfterSave, ProcessEnds, WindowStart, Ledger!Drafts
    <3>3. QED
      BY <3>1, <3>2
  <2>4. Ledger!Fail
    BY <2>1, <2>2, <2>3 DEF Ledger!Fail
  <2>5. QED
    BY <2>4 DEF Ledger!Next
<1>23. CASE Publish
  <2>1. ~Open /\ Open' = Open /\ ReadByRun = {} /\ ReadByRun' = {}
    BY <1>23 DEF Publish, ProcessEnds, Open, Steps, ReadByRun
  <2>2. \A c \in Container : WindowStart(c)' = 0
    BY <1>23 DEF Publish, ProcessEnds, WindowStart
  <2>3. \A c \in Container :
           WindowStart(c) # 0 <=> payload[c] # None /\ payload[c].window # None
    BY <1>23 DEF Publish, WindowStart, LedgerInv
  <2>4. UNCHANGED <<run, disk, unsaved>>
    BY <1>23 DEF Publish
  <2>5. Ledger!Bill
    BY <1>23, <2>1, <2>2, <2>3, <2>4 DEF Publish, Ledger!Bill, Ledger!Nothing
  <2>6. QED
    BY <2>5 DEF Ledger!Next
<1>24. CASE PublishFails
  <2>1. ~Open /\ Open' = Open /\ ReadByRun = {} /\ ReadByRun' = {}
    BY <1>24 DEF PublishFails, ProcessEnds, Open, Steps, ReadByRun
  <2>2. \A c \in Container : WindowStart(c)' = 0
    BY <1>24 DEF PublishFails, ProcessEnds, WindowStart
  <2>3. UNCHANGED <<run, disk, counted, unsaved>>
    BY <1>24 DEF PublishFails
  <2>4. Ledger!Drop
    BY <2>1, <2>2, <2>3 DEF Ledger!Drop, Ledger!Nothing
  <2>5. QED
    BY <2>4 DEF Ledger!Next
<1>25. CASE Kill /\ pc # "publish"
  <2>1. Open /\ ~Open' /\ ReadByRun' = {}
    BY <1>25 DEF Kill, ProcessEnds, Open, Steps, ReadByRun
  <2>2. \A c \in Container : WindowStart(c)' = 0
    BY <1>25 DEF Kill, ProcessEnds, WindowStart
  <2>3. UNCHANGED <<run, disk, counted>> /\ unsaved' = unsaved \cup {run}
    BY <1>25 DEF Kill
  <2>4. Ledger!Fail
    BY <2>1, <2>2, <2>3 DEF Ledger!Fail, Ledger!Drafts
  <2>5. QED
    BY <2>4 DEF Ledger!Next
<1>26. CASE Kill /\ pc = "publish"
  <2>1. ~Open /\ Open' = Open /\ ReadByRun = {} /\ ReadByRun' = {}
    BY <1>26 DEF Kill, ProcessEnds, Open, Steps, ReadByRun
  <2>2. \A c \in Container : WindowStart(c)' = 0
    BY <1>26 DEF Kill, ProcessEnds, WindowStart
  <2>3. UNCHANGED <<run, disk, counted, unsaved>>
    BY <1>26 DEF Kill
  <2>4. Ledger!Drop
    BY <2>1, <2>2, <2>3 DEF Ledger!Drop, Ledger!Nothing
  <2>5. QED
    BY <2>4 DEF Ledger!Next
<1>27. CASE KillInSave
  <2>1. Open /\ ~Open' /\ ReadByRun' = {}
    BY <1>27 DEF KillInSave, ProcessEnds, Open, Steps, ReadByRun
  <2>2. \A c \in Container : WindowStart(c)' = 0
    BY <1>27 DEF KillInSave, ProcessEnds, WindowStart
  <2>3. UNCHANGED <<run, counted>> /\ unsaved' = unsaved \cup {run}
    BY <1>27 DEF KillInSave
  <2>4. \A c \in Container : RunOf(disk[c])' = 0
    BY <1>27 DEF KillInSave, NoReadings, RunOf
  <2>5. Ledger!Fail
    BY <2>1, <2>2, <2>3, <2>4 DEF Ledger!Fail, Ledger!Drafts, Ledger!Nothing
  <2>6. QED
    BY <2>5 DEF Ledger!Next
<1>28. CASE UNCHANGED vars
  BY <1>28, LedgerStutters DEF Open
<1>29. QED
  BY <1>1, <1>2, <1>3, <1>4, <1>5, <1>6, <1>7, <1>8, <1>9, <1>10, <1>11, <1>12, <1>13, <1>14, <1>15, <1>16, <1>17, <1>18, <1>19, <1>20, <1>21, <1>22, <1>23, <1>24, <1>25, <1>26, <1>27, <1>28
  DEF Next, Environment, Execution, Inspect

\* The integration settles every execution once and before it publishes, and
\* bills CPU time from the settled baselines only.
THEOREM LedgerImplemented == Spec => ImplementsLedger
<1>1. Init => Ledger!Init
  <2> SUFFICES ASSUME Init PROVE Ledger!Init
    OBVIOUS
  <2>1. ~Open /\ ReadByRun = {}
    BY DEF Init, Open, Steps, ReadByRun
  <2>2. \A c \in Container : WindowStart(c) = 0 /\ RunOf(disk[c]) = 0
    BY DEF Init, WindowStart, RunOf, NoReadings
  <2>3. QED
    BY <2>1, <2>2 DEF Init, Ledger!Init, Ledger!Nothing
<1>2. TypeOK /\ LoopInv /\ LedgerInv /\ TypeOK' /\ LedgerInv' /\ [Next]_vars
        => [Ledger!Next]_Ledger!vars
  BY LedgerStep
<1>3. QED
  BY <1>1, <1>2, TypeCorrect, LoopCorrect, LedgerInvCorrect, PTL
  DEF Spec, ImplementsLedger, Ledger!Spec

\* What CpuLedger's own theorem says of the integration.
Promise == INSTANCE CpuLedgerProofs WITH
    n      <- run,
    open   <- Open,
    read   <- ReadByRun,
    base   <- [c \in Container |-> RunOf(disk[c])],
    draft  <- [c \in Container |-> WindowStart(c)],
    billed <- counted,
    failed <- unsaved

\* The integration inherits the ledger's promise: at publication, no window
\* starts before the one last billed, unless that execution could not save
\* (docker.go:41, sampler.go:67-72).
THEOREM LedgerKept == Spec => []Ledger!BilledOnce
<1>1. Ledger!Init => Promise!Init
  BY DEF Ledger!Init, Promise!Init, Ledger!Nothing, Promise!Nothing
<1>2. [Ledger!Next]_Ledger!vars => [Promise!Next]_Promise!vars
  BY Zenon
  DEF Ledger!Next, Promise!Next, Ledger!vars, Promise!vars,
      Ledger!Begin, Promise!Begin, Ledger!Read, Promise!Read,
      Ledger!Settle, Promise!Settle, Ledger!Fail, Promise!Fail,
      Ledger!Bill, Promise!Bill, Ledger!Drop, Promise!Drop,
      Ledger!Drafts, Promise!Drafts, Ledger!Nothing, Promise!Nothing
<1>3. Promise!BilledOnce => Ledger!BilledOnce
  BY DEF Promise!BilledOnce, Ledger!BilledOnce
<1>4. QED
  BY <1>1, <1>2, <1>3, LedgerImplemented, Promise!BilledOnceCorrect, PTL
  DEF ImplementsLedger, Ledger!Spec, Promise!Spec
=============================================================================
