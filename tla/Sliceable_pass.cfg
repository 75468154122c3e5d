CONSTANTS
    N = 8
    CacheSizes <- Sizes
    Prefetch = 3
    Cases <- AllCases
    Steps = {1, 2}
    None = None
SPECIFICATION ListSpec
INVARIANTS ListLikeInOrder StateRight
CHECK_DEADLOCK FALSE
