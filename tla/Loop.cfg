SPECIFICATION Spec
CONSTANTS
    c1 = c1
    c2 = c2
    Container = {c1, c2}
    Anonymous = {}
    LacksCPU = {c2}
    ApiStats = FALSE
    ExitedTTL = 1
    CacheTTL = 1
    MaxTime = 1
    MaxGen = 1
    MaxRun = 2
    None = None
INVARIANTS TypeOK Complete DroppedStaysDropped PanicOnlyWithoutCPU
