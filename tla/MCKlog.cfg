CONSTANTS
    DIONNEX_KLOG_SIZE = 3
    LogChar = {"x", "y"}
    NUL = NUL
    MaxMessage = 4
SPECIFICATION KlogSpec
INVARIANT IndicesAgree
PROPERTY ImplementsWindow
