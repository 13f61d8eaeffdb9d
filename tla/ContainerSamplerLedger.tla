----------------------- MODULE ContainerSamplerLedger -----------------------
(* ContainerSampler keeps the promise of CpuLedger.                        *)
EXTENDS ContainerSampler

Read(c) == lastRead[c] # None /\ lastRead[c].run = run

RunOf(r) == IF r = None THEN 0 ELSE r.run

Open == pc \in Steps \ {"publish"}

ReadByRun == {c \in Container : Open /\ Read(c)}

\* The windows of the payload are drafts once the baselines are settled.
WindowStart(c) ==
    IF pc = "publish" /\ payload[c] # None /\ payload[c].window # None
    THEN payload[c].window.from.run ELSE 0

Ledger == INSTANCE CpuLedger WITH
    n      <- run,
    open   <- Open,
    read   <- ReadByRun,
    base   <- [c \in Container |-> RunOf(disk[c])],
    draft  <- [c \in Container |-> WindowStart(c)],
    billed <- counted,
    failed <- unsaved

\* Every execution settles once, before it publishes: all it read, and it alone,
\* becomes the baseline on disk, and what it publishes starts at a baseline it
\* found there, unless it is known to have failed (sampler.go:67-72,
\* docker.go:35-41, metrics_all.go:106-135).
ImplementsLedger == Ledger!Spec
-----------------------------------------------------------------------------
\* What the file, the memory and the payload hold of the execution under way:
\* the store is the file but for what was read, and a window starts at the file.
LedgerInv ==
    /\ pc # "idle" => run >= 1
    /\ \A c \in Container :
          /\ lastRead[c] # None => lastRead[c].run <= run
          /\ disk[c] # None => disk[c].run >= 1
          /\ pc \in {"setup", "list"} => ~Read(c)
          /\ pc \in {"loop", "fetch"} /\ c \in todo => ~Read(c)
          /\ pc \in {"list", "loop", "fetch", "save"} =>
                IF Read(c) THEN store[c] = lastRead[c] ELSE store[c] \in {None, disk[c]}
          /\ payload[c] # None /\ payload[c].window # None =>
                /\ payload[c].window.from.run >= 1
                /\ pc # "publish" => Read(c) /\ payload[c].window.from = disk[c]
=============================================================================
