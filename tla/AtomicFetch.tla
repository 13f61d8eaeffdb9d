----------------------------- MODULE AtomicFetch -----------------------------
(***************************************************************************)
(* What a fetch of a container's statistics promises: its values are those *)
(* of one instant, at which the container runs in the incarnation that was *)
(* inspected.  This is the fetch ContainerSampler takes as one step        *)
(* (biz/metrics.go Process: the inspection, then fetcher.Fetch).           *)
(* CgroupFetch keeps the promise with a dozen reads.                       *)
(*                                                                         *)
(* The promise has one exception: nothing tells the fetch that the PID it  *)
(* was given has gone to another process.                                  *)
(***************************************************************************)
EXTENDS Naturals

CONSTANTS Container, Part, Value

VARIABLES
    hidden,     \* the containers whose cgroup the integration cannot find
    wanted,     \* the parts a fetch has, both of the deployment
    up,         \* the containers that run
    gen,        \* the incarnation of each
    busy,       \* whether a fetch is under way
    subject,    \* the container fetched
    inspected,  \* its incarnation at the inspection, 0 when it did not run
    gone,       \* whether it has not run all through the fetch
    stolen,     \* whether its PID was given to another process
    got         \* the fetch's values, Nothing before the end or on an error

deployment == <<hidden, wanted>>
vars == <<deployment, up, gen, busy, subject, inspected, gone, stolen, got>>

Nothing == [p \in {} |-> p]

Init ==
    /\ hidden \subseteq Container /\ wanted \in (SUBSET Part) \ {{}}
    /\ up = {} /\ gen = [c \in Container |-> 0]
    /\ busy = FALSE /\ inspected = 0 /\ gone = FALSE /\ stolen = FALSE
    /\ got = Nothing

\* A new process may get the PID of the one inspected.
Start(c) ==
    /\ c \notin up
    /\ up' = up \cup {c} /\ gen' = [gen EXCEPT ![c] = @ + 1]
    /\ stolen' \in {stolen, stolen \/ busy}
    /\ UNCHANGED <<deployment, busy, subject, inspected, gone, got>>

Exit(c) ==
    /\ c \in up
    /\ up' = up \ {c}
    /\ gone' = (gone \/ (busy /\ c = subject))
    /\ UNCHANGED <<deployment, gen, busy, subject, inspected, stolen, got>>

HostProcess ==
    /\ stolen' = (stolen \/ busy)
    /\ UNCHANGED <<deployment, up, gen, busy, subject, inspected, gone, got>>

Inspect(c) ==
    /\ ~busy /\ gen[c] > 0
    /\ busy' = TRUE /\ subject' = c
    /\ inspected' = IF c \in up THEN gen[c] ELSE 0
    /\ gone' = (c \notin up) /\ stolen' = FALSE /\ got' = Nothing
    /\ UNCHANGED <<deployment, up, gen>>

Whole == [p \in wanted |-> [owner |-> subject, gen |-> gen[subject]]]

Succeed ==
    /\ busy /\ busy' = FALSE
    /\ IF stolen THEN got' \in [wanted -> Value]
                 ELSE /\ subject \in up /\ gen[subject] = inspected
                      /\ got' = Whole
    /\ UNCHANGED <<deployment, up, gen, subject, inspected, gone, stolen>>

Fail ==
    /\ busy /\ busy' = FALSE
    /\ gone \/ subject \in hidden
    /\ UNCHANGED <<deployment, up, gen, subject, inspected, gone, stolen, got>>

Next ==
    \/ \E c \in Container : Start(c) \/ Exit(c) \/ Inspect(c)
    \/ HostProcess \/ Succeed \/ Fail

Spec == Init /\ [][Next]_vars
=============================================================================
