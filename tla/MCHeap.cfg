CONSTANTS
    PAGE_SIZE = 16
    HDR = 3
    ALIGN = 4
    SLACK = 4
    HeapPages = 2
    InitialFree <- FourPages
    Sizes = {0, 1, 12, 20}
    Arrays <- SmallArrays
    MaxLive = 3
    OtherUsers = {"boot", "ready"}
SPECIFICATION Spec
CHECK_DEADLOCK FALSE
INVARIANTS
    
    
    NoFreeNeighbours
    NoByteLost
