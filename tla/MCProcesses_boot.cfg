CONSTANTS
    p1 = p1
    p2 = p2
    p3 = p3
    Slots <- TwoSlots
    NULL = NULL
    KERNEL = KERNEL
    HUNG = HUNG
    VMod = 16
    MaxPid = 2
    ForkOffset = 10
    KernelDispatch = FALSE
SPECIFICATION FairSpec
CHECK_DEADLOCK FALSE
PROPERTY AddedProcessesRun
