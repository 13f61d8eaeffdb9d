---------------------------- MODULE FargateClient ----------------------------
(***************************************************************************)
(* One execution on AWS Fargate: SampleAll's list, inspections and fetches *)
(* are answered by the two endpoints of the ECS task metadata service,     *)
(* each request with its retries, each answer with a store in memory       *)
(* before it (raw/aws/fargate_inspector.go, fargate_fetcher.go,            *)
(* fargate_metadata.go).  The containers of the task start and stop on     *)
(* their own.  Nothing survives the execution.                             *)
(***************************************************************************)
EXTENDS Integers, FiniteSets

CONSTANTS
    Container,   \* the containers of the task
    Unlabelled,  \* those whose metadata has no labels
    MaxRetries,  \* maxRetries: the attempts of one request
    None         \* no sample, no answer, no container

ASSUME ConstantsAssumption ==
    /\ IsFiniteSet(Container) /\ Unlabelled \subseteq Container
    /\ MaxRetries \in Nat \ {0}
    /\ None \notin Container

VARIABLES
    known,     \* the task agent's KnownStatus of each container
    pc,        \* "setup", "list", "loop", "fetch", or how SampleAll ended
    tries,     \* failed attempts of the request in progress
    istore,    \* the inspector's store: the task response
    fstore,    \* the fetcher's store: what each of its keys holds
    todo,      \* listed containers the loop has not reached
    cur,       \* the container inspected and not yet fetched
    payload,   \* the samples
    attempts,  \* the requests sent
    \* History, read by no action:
    failures   \* those that failed

store == <<istore, fstore>>
vars  == <<known, pc, tries, store, todo, cur, payload, attempts, failures>>

Key     == {"task-metadata-response", "fargate-task-stats"}
Ended   == {"done", "failed", "panic"}
Status  == {"PENDING", "RUNNING", "STOPPED"}
\* A task response: the status of every container created.
Task    == [Container -> Status \cup {None}]
\* A stats response: the containers there are statistics of, the others being
\* null, and when it arrived.
Stats   == [of : SUBSET Container, time : Nat]
\* A sample: whether the container was listed as running, the error of its
\* Process, when the statistics in it arrived, and the time they are given.
Sample  == [running : BOOLEAN, err : {"none", "unreachable", "malformed", "nostats"},
            arrived : Nat, time : Nat]

ASSUME NoneAssumption == None \notin Task /\ None \notin Stats /\ None \notin Sample /\ None \notin Status

TypeOK ==
    /\ known \in [Container -> Status \cup {None}]
    /\ pc \in {"setup", "list", "loop", "fetch"} \cup Ended
    /\ tries \in 0..MaxRetries - 1
    /\ istore \in Task \cup {None} /\ fstore \in [Key -> Stats \cup {None}]
    /\ todo \subseteq Container
    /\ cur \in Container \cup {None} /\ (pc = "fetch" => cur \in todo)
    /\ payload \in [Container -> Sample \cup {None}]
    /\ attempts \in Nat /\ failures \in 0..attempts

Init ==
    /\ known \in [Container -> {None, "RUNNING"}]
    /\ pc = "setup" /\ tries = 0
    /\ istore = None /\ fstore = [k \in Key |-> None]
    /\ todo = {} /\ cur = None
    /\ payload = [c \in Container |-> None]
    /\ attempts = 0 /\ failures = 0

-----------------------------------------------------------------------------
(* The task.                                                               *)

Advance(c, from, to) ==
    /\ known[c] = from
    /\ known' = [known EXCEPT ![c] = to]
    /\ UNCHANGED <<pc, tries, store, todo, cur, payload, attempts, failures>>

Create(c) == Advance(c, None, "PENDING")
Start(c)  == Advance(c, "PENDING", "RUNNING")
Stop(c)   == Advance(c, "RUNNING", "STOPPED")

-----------------------------------------------------------------------------
(* Requests: metadataResponse.                                             *)

\* Mutated form of NextTry: one more attempt, whatever the number.
TryForever == tries' = tries

\* Mutated form of NextTry: one attempt too many.
OneTryMore == tries < MaxRetries /\ tries' = tries + 1

\* An attempt failed, and another one is made.
NextTry == tries + 1 < MaxRetries /\ tries' = tries + 1

\* The last attempt failed.
GivesUp == tries + 1 = MaxRetries /\ tries' = 0

AttemptFails == attempts' = attempts + 1 /\ failures' = failures + 1

-----------------------------------------------------------------------------
(* The address of the endpoints, and ContainerList.                        *)

\* GetMetadataBaseURL: one of two environment variables.
Setup ==
    /\ pc = "setup"
    /\ pc' \in {"list", "failed"}
    /\ UNCHANGED <<known, tries, store, todo, cur, payload, attempts, failures>>

ListRetries ==
    /\ pc = "list"
    /\ NextTry
    /\ AttemptFails
    /\ UNCHANGED <<known, pc, store, todo, cur, payload>>

ListFails ==
    /\ pc = "list"
    /\ GivesUp
    /\ AttemptFails
    /\ pc' = "failed"
    /\ UNCHANGED <<known, store, todo, cur, payload>>

\* The answer is no JSON: the error is returned without another attempt.
ListMalformed ==
    /\ pc = "list"
    /\ attempts' = attempts + 1
    /\ pc' = "failed" /\ tries' = 0
    /\ UNCHANGED <<known, store, todo, cur, payload, failures>>

Created == {c \in Container : known[c] # None}

\* Labels are added to the map of the answer, which is nil without labels.
LabelsPanic == Created \cap Unlabelled # {}

ContainerList ==
    /\ pc = "list"
    /\ attempts' = attempts + 1
    /\ istore' = known
    /\ IF LabelsPanic THEN pc' = "panic" /\ UNCHANGED todo
                      ELSE pc' = "loop" /\ todo' = Created
    /\ tries' = 0
    /\ UNCHANGED <<known, fstore, cur, payload, failures>>

-----------------------------------------------------------------------------
(* The loop: ContainerInspect, Fetch and the sample.                       *)

Report(c, err, arrived, time) ==
    /\ payload' = [payload EXCEPT ![c] =
                     [running |-> istore[c] = "RUNNING", err |-> err,
                      arrived |-> arrived, time |-> time]]
    /\ todo' = todo \ {c}
    /\ cur' = None /\ pc' = "loop"

\* Mutated form of ContainerInspect: the fetch goes on with the attempts left.
InspectKeepsTries(c) ==
    /\ pc = "loop" /\ c \in todo
    /\ istore[c] # None
    /\ cur' = c /\ pc' = "fetch" /\ tries' = IF failures > 0 THEN MaxRetries - 1 ELSE 0
    /\ UNCHANGED <<known, store, todo, payload, attempts, failures>>

\* The store answers; no state comes with the container.
ContainerInspect(c) ==
    /\ pc = "loop" /\ c \in todo
    /\ istore[c] # None
    /\ cur' = c /\ pc' = "fetch" /\ tries' = 0
    /\ UNCHANGED <<known, store, todo, payload, attempts, failures>>

NotStored == fstore["fargate-task-stats"] = None

FetchRetries ==
    /\ pc = "fetch" /\ NotStored
    /\ NextTry
    /\ AttemptFails
    /\ UNCHANGED <<known, pc, store, todo, cur, payload>>

\* Mutated form of FetchFails: the loop is left.
FetchFailureEndsLoop ==
    /\ pc = "fetch" /\ NotStored
    /\ GivesUp
    /\ AttemptFails
    /\ cur' = None /\ pc' = "done"
    /\ UNCHANGED <<known, store, todo, payload>>

FetchFails ==
    /\ pc = "fetch" /\ NotStored
    /\ GivesUp
    /\ AttemptFails
    /\ Report(cur, "unreachable", 0, 0)
    /\ UNCHANGED <<known, store>>

FetchMalformed ==
    /\ pc = "fetch" /\ NotStored
    /\ attempts' = attempts + 1 /\ tries' = 0
    /\ Report(cur, "malformed", 0, 0)
    /\ UNCHANGED <<known, store, failures>>

\* The time, counted in the requests sent and the samples made.
Clock == attempts' + Cardinality({c \in Container : payload[c] # None})

\* The task agent's answer, null for what does not run.
Answer == [of |-> {c \in Container : known[c] = "RUNNING"}, time |-> Clock]

\* fargateRawMetrics: the answer's containers, given the time of the conversion.
Convert(answer) ==
    IF cur \in answer.of THEN Report(cur, "none", answer.time, Clock)
                         ELSE Report(cur, "nostats", 0, 0)

\* The store's answer, or the endpoint's, which is kept under key.
FetchThrough(key) ==
    /\ pc = "fetch"
    /\ LET answer == IF NotStored THEN Answer ELSE fstore["fargate-task-stats"] IN
       /\ attempts' = attempts + (IF NotStored THEN 1 ELSE 0)
       /\ fstore' = [fstore EXCEPT ![key] = answer]
       /\ Convert(answer)
    /\ tries' = 0
    /\ UNCHANGED <<known, istore, failures>>

\* Mutated form of Fetch: the answer is kept under the key it is looked up by.
FetchStored == FetchThrough("fargate-task-stats")

\* It is looked up by one key and kept under the other.
Fetch == FetchThrough("task-metadata-response")

\* Mutated form of LoopEnds: it waits for the containers of the task to start.
LoopEndsStarted ==
    /\ pc = "loop" /\ todo = {} /\ "PENDING" \notin {known[c] : c \in Container}
    /\ pc' = "done"
    /\ UNCHANGED <<known, tries, store, todo, cur, payload, attempts, failures>>

LoopEnds ==
    /\ pc = "loop" /\ todo = {}
    /\ pc' = "done"
    /\ UNCHANGED <<known, tries, store, todo, cur, payload, attempts, failures>>

-----------------------------------------------------------------------------

Environment == \E c \in Container : Create(c) \/ Start(c) \/ Stop(c)

Execution ==
    \/ Setup \/ ListRetries \/ ListFails \/ ListMalformed \/ ContainerList
    \/ \E c \in Container : ContainerInspect(c)
    \/ FetchRetries \/ FetchFails \/ FetchMalformed \/ Fetch \/ LoopEnds

Next == Environment \/ Execution

Spec == Init /\ [][Next]_vars

\* An attempt returns, within the HTTP client's timeout, and so do the others.
FairSpec == Spec /\ WF_vars(Execution)

-----------------------------------------------------------------------------
(* Properties.                                                             *)

Unreachable == {c \in Container : payload[c] # None /\ payload[c].err = "unreachable"}

\* Every request has all its attempts: a container is left without statistics
\* only after MaxRetries failures of its own, whatever failed before
\* (fargate_metadata.go:109).
AttemptsNotShared == failures >= MaxRetries * Cardinality(Unreachable)

\* What an unreachable endpoint costs, and with it the time an execution takes
\* before the agent stops it: the list's attempts and those of each container
\* (fargate_metadata.go:106-120).
AttemptsBounded == attempts <= MaxRetries * (1 + Cardinality(Container))

\* An execution that ends without error has a sample of every container of the
\* task, those that could not be read included.
Complete ==
    pc = "done" => \A c \in Container : payload[c] # None <=> istore[c] # None

\* The statistics of a sample are given the time they arrived at, so that the
\* CPU usage is divided by the time it took: a stored answer would be given a
\* later one (fargate_raw_metrics.go:13, fargate_fetcher.go:65-82).
StampedOnArrival ==
    \A c \in Container :
        payload[c] # None /\ payload[c].err = "none" => payload[c].time = payload[c].arrived

\* Every execution ends, whether or not the endpoint answers.
Terminates == <>(pc \in Ended)
=============================================================================
