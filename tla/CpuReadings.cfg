SPECIFICATION Spec
CONSTANTS
    CPUs = {c1, c2}
    Cpuset = {c1, c2}
    Fields = {"user", "system", "idle"}
    Second = 4
    Hz = 2
    Modulus = 64
    InitFields <- BootedOrNearTurn
    Loads <- FewLoads
    MaxDelay = 1
    MaxTime = 5
    None = None
INVARIANTS TypeOK DurationBounds UsedCoresBounded LimitCutsNoUsage SystemDeltaBounded CPUPercentBounded
