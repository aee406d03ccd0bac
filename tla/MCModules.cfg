CONSTANTS
    Images <- MCImages
    KernelSyms <- MCKernelSyms
    Blocks = {1, 2, 3, 4, 5}
    Span = 10
    MinSize = 4
    NULL = NULL
    MaxLoads = 3
    RegNames <- MCRegNames
SPECIFICATION Spec
CHECK_DEADLOCK FALSE
INVARIANTS
    BlocksAccountedFor
    
    
