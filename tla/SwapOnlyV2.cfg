SPECIFICATION Spec
CONSTANTS
    Hosts <- CgroupV2
    MemLimit = 3
    HostSwap = 2
    Modulus = 64
    None = None
INVARIANTS SwapOnlyIsSwap
