CONSTANTS
    Size = 4
    Letters = {"a"}
    Symbols = {"1"}
    DeadKeys = {"ctrl"}
    NONE = NONE
SPECIFICATION FairSpec
INVARIANT PlaceIsReaders
PROPERTIES
    
    ReadsReturn
