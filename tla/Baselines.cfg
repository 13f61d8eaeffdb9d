SPECIFICATION Spec
CONSTANTS
    c1 = c1
    c2 = c2
    Container = {c1}
    Anonymous = {}
    LacksCPU = {c1}
    ApiStats = FALSE
    ExitedTTL = 1
    CacheTTL = 1
    MaxTime = 2
    MaxGen = 2
    MaxRun = 3
    None = None
INVARIANTS WindowsDisjoint BaselineIsLatest
PROPERTIES ImplementsLedger
