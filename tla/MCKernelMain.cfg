CONSTANTS
    Starts <- MCStarts
    Formats <- MCFormats
    MaxUpdates = 2
    NoTime = NoTime
    Boards <- MCBoards
    DiskSize = 3
    LbaSpan = 4
    Lbas = {0, 2, 5}
    Counts = {0, 2, 3}
    NoTransfer = NoTransfer
    VGA_WIDTH = 4
    VGA_HEIGHT = 3
    TabStop = 2
    CmdMax = 5
    Printable = {"a", " ", ">", "x"}
    Prompt <- MCPrompt
    Banner <- MCBanner
    Typed <- MCTyped
    Outputs <- MCOutputs
    MaxLines = 2
    NoWords = NoWords
    TaskPages <- MCTaskPages
    Priorities = {5, 12}
    MaxCreated = 3
    MaxTicks = 4
    TicksPerSwitch = 2
SPECIFICATION Spec
CHECK_DEADLOCK FALSE
INVARIANTS
    ReadingIsTrue
    DateAndStampAgree
    
    ScreenShowsCommand
    ParseFindsWords
    IdleKeepsProcessor
    
    FramesAccounted
PROPERTY BootReachesPrompt
