CONSTANTS
    p1 = p1
    p2 = p2
    p3 = p3
    Slots <- ThreeSlots
    NULL = NULL
    KERNEL = KERNEL
    HUNG = HUNG
    VMod = 16
    MaxPid = 3
    ForkOffset = 10
    KernelDispatch = TRUE
SPECIFICATION Spec
CHECK_DEADLOCK FALSE
SYMMETRY SlotSymmetry
INVARIANTS
    TypeOK
    RunningIsCurrent
    StartedOnce
    ProcListExact
    
 
