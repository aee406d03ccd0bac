CONSTANTS
    PAGE_SIZE = 2
    Entries = 20
    Tables = 6
    Ram <- MCRam
    StackPages = 2
    HeapPages = 1
    PROC_HEAP_BASE = 88
    PROC_STACK_BASE = 199
    EspGap = 1
    MmapBase = 120
    FbPage = 100
    FbPages = 1
    Images <- MCImages
    Procs = {p1, p2}
    MaxCalls = 5
    Increments <- MCIncrements
    MmapCalls <- MCMmapCalls
SYMMETRY Perms
SPECIFICATION Spec
CHECK_DEADLOCK FALSE
INVARIANT ProcessKeepsItsPages
