SPECIFICATION Spec
CONSTANTS
    Hosts <- EveryHost
    MemLimit = 3
    HostSwap = 2
    Modulus = 64
    None = None
INVARIANTS TypeOK UsageIsAnonymous SwapNeverWraps UnlimitedIsZero SwapOnlyIsSwapV1 SwapWithinLimitV1
