CONSTANTS
    PAGE_SIZE = 4
    WordBits = 4
    WordBytes = 1
    AddrSpace = 64
    DefaultTop = 36
    LowMemory = 4
    KernelStart = 12
    KernelEnd = 15
    BootInfos <- AllMaps
SPECIFICATION Spec
INVARIANTS
    TypeOK
    FreeCountExact
    FailureMeansFull
    HeldAreSafe
    OnlyRamHandedOut
PROPERTY ImplementsPromise
