------------------------------ MODULE CpuLedger ------------------------------
(***************************************************************************)
(* What the integration promises about CPU time, without saying how.       *)
(* Numbered executions read the counters of containers and bill windows of *)
(* CPU time, each from the durable baseline of its container to the        *)
(* execution's reading.  An execution settles once, before it bills        *)
(* anything: what it read becomes the baseline.  If it cannot, it is known *)
(* to have failed, and only then may time be billed again.                 *)
(* nri/sampler.go SampleAll, biz/metrics_all.go cpu and docker.go main     *)
(* keep this promise with a file, a deferred Set, a deferred Save and a    *)
(* publication after them.                                                 *)
(***************************************************************************)
EXTENDS Naturals

CONSTANT Container

VARIABLES
    n,        \* the latest execution
    open,     \* whether it has yet to settle
    read,     \* the containers it has read
    base,     \* the execution whose reading is a container's baseline, 0 for none
    draft,    \* where the window to be billed starts, 0 for none
    billed,   \* the latest execution that billed a container
    failed    \* the executions that could not settle

vars == <<n, open, read, base, draft, billed, failed>>

Nothing == [c \in Container |-> 0]

TypeOK ==
    /\ n \in Nat /\ open \in BOOLEAN /\ read \subseteq Container
    /\ base \in [Container -> Nat] /\ draft \in [Container -> Nat]
    /\ billed \in [Container -> Nat]
    /\ failed \subseteq Nat

Init ==
    /\ n = 0 /\ open = FALSE /\ read = {}
    /\ base = Nothing /\ draft = Nothing /\ billed = Nothing
    /\ failed = {}

Begin ==
    /\ ~open /\ draft = Nothing
    /\ n' = n + 1 /\ open' = TRUE
    /\ UNCHANGED <<read, base, draft, billed, failed>>

Read(c) ==
    /\ open
    /\ read' = read \cup {c}
    /\ UNCHANGED <<n, open, base, draft, billed, failed>>

\* The windows the execution leaves to be billed start at what it found.
Drafts ==
    /\ draft' \in [Container -> Nat]
    /\ \A c \in Container : draft'[c] # 0 => c \in read /\ draft'[c] = base[c]

\* A baseline not read again may be kept or lost, never go back.
Settle ==
    /\ open /\ open' = FALSE /\ read' = {}
    /\ Drafts
    /\ base' \in [Container -> Nat]
    /\ \A c \in Container : base'[c] \in IF c \in read THEN {n} ELSE {0, base[c]}
    /\ UNCHANGED <<n, billed, failed>>

\* The execution could not keep its readings, or not even what it found.
Fail ==
    /\ open /\ open' = FALSE /\ read' = {}
    /\ Drafts
    /\ base' \in {base, Nothing}
    /\ failed' = failed \cup {n}
    /\ UNCHANGED <<n, billed>>

Bill ==
    /\ ~open
    /\ billed' = [c \in Container |-> IF draft[c] # 0 THEN n ELSE billed[c]]
    /\ draft' = Nothing
    /\ UNCHANGED <<n, open, read, base, failed>>

Drop ==
    /\ ~open
    /\ draft' = Nothing
    /\ UNCHANGED <<n, open, read, base, billed, failed>>

Next == Begin \/ (\E c \in Container : Read(c)) \/ Settle \/ Fail \/ Bill \/ Drop

Spec == Init /\ [][Next]_vars
-----------------------------------------------------------------------------
\* No window to be billed starts before the last one billed, unless the
\* execution that billed it could not settle: CPU time is reported once.
BilledOnce ==
    \A c \in Container : draft[c] # 0 => draft[c] >= billed[c] \/ billed[c] \in failed

\* BilledOnce and what makes it inductive: the same of the baselines, and
\* nothing is of an execution to come.
BilledInv ==
    /\ BilledOnce
    /\ open => draft = Nothing
    /\ \A c \in Container :
          /\ billed[c] <= n
          /\ base[c] # 0 => base[c] >= billed[c] \/ billed[c] \in failed
          /\ draft[c] # 0 => base[c] = n \/ n \in failed
=============================================================================
