SPECIFICATION Spec
CONSTANTS
    c1 = c1
    c2 = c2
    Container = {c1, c2}
    Colon = {c2}
    Pid = {1, 2}
    CPUs = {0, 1, 2}
    EnabledSets <- AllOrNot
    MaxGen = 2
    Host = Host
    None = None
INVARIANTS TypeOK FetchIsOneStep ErrorsJustified CpusCounted
PROPERTIES ImplementsAtomic
