----------------------------- MODULE WindowsCpu -----------------------------
(***************************************************************************)
(* The CPU metrics on Windows (biz/metrics_windows.go cpu and cpuPercent). *)
(* The Docker API answers one request with two reads of the counters, the  *)
(* times of both and the counters of the second (raw/dockerapi/fetcher.go  *)
(* cpuMetrics).  Time and usage are counted in 100 ns intervals.           *)
(***************************************************************************)
EXTENDS Integers

CONSTANTS
    NumProcs,   \* processors of the host
    MaxTime,    \* bound of the clock
    None

VARIABLES
    now,      \* the host's clock
    used,     \* intervals of processor time the container has used
    preRead,  \* time of the first read of the request in progress, or None
    base,     \* the stored sample: its counters
    pair      \* the readings the metrics were last computed from: [base, cur]

vars == <<now, used, preRead, base, pair>>

\* The counters of an answer, and the times of its two reads.
Reading == [total : Nat, preRead : Nat, read : Nat]

TypeOK ==
    /\ now \in 0..MaxTime /\ used \in Nat
    /\ preRead \in 0..now \cup {None}
    /\ base \in Reading \cup {None}
    /\ pair \in [base : Reading, cur : Reading] \cup {None}

Init == now = 0 /\ used = 0 /\ preRead = None /\ base = None /\ pair = None

\* One interval, of which the container uses what the processors have.
Tick(n) ==
    /\ now < MaxTime
    /\ now' = now + 1 /\ used' = used + n
    /\ UNCHANGED <<preRead, base, pair>>

\* The daemon reads the counters a first time.
PreReads ==
    /\ preRead = None
    /\ preRead' = now
    /\ UNCHANGED <<now, used, base, pair>>

\* It reads them again and answers; cpu computes the metrics if there is a
\* baseline and time between the two reads, and stores the reading.
Sample ==
    /\ preRead # None
    /\ LET cur == [total |-> used, preRead |-> preRead, read |-> now] IN
       /\ pair' = IF base # None /\ now > preRead THEN [base |-> base, cur |-> cur] ELSE None
       /\ base' = cur
    /\ preRead' = None
    /\ UNCHANGED <<now, used>>

Next == PreReads \/ Sample \/ \E n \in 0..NumProcs : Tick(n)

Spec == Init /\ [][Next]_vars

intervalsUsed(p) == p.cur.total - p.base.total
passIntervals(p) == (p.cur.read - p.cur.preRead) * NumProcs

\* What a comment promises and the code does not do: the used intervals are
\* part of the "max number of 100ns intervals between the previous time read
\* and now" (metrics_windows.go:121), so that CPUPercent is at most 100.  The
\* previous time read is the request's own first read, and the usage counted is
\* since the previous execution.
UsedWithinIntervals == pair # None => intervalsUsed(pair) <= passIntervals(pair)
=============================================================================
