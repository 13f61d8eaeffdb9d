SPECIFICATION FairSpec
CONSTANTS
    c1 = c1
    c2 = c2
    Container = {c1, c2}
    Anonymous = {c2}
    LacksCPU = {}
    ApiStats = TRUE
    ExitedTTL = 0
    CacheTTL = 1
    MaxTime = 1
    MaxGen = 1
    MaxRun = 2
    None = None
INVARIANTS BaselineIsLatest
PROPERTIES Terminates
