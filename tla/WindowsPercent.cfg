SPECIFICATION Spec
CONSTANTS
    NumProcs = 2
    MaxTime = 5
    None = None
INVARIANTS UsedWithinIntervals
