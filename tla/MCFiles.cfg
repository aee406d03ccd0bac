CONSTANTS
    RAMFS_MAX_FILES = 2
    RAMFS_MAX_DATA = 2
    Mod = 16
    ROOT = ROOT
    RAM = RAM
    PROC = PROC
    ModNodes = {m1}
    MountNames = {x}
    f = f
    g = g
    version = version
    Plain = {f, g}
    Odd = {slashed}
    ProcFiles = {version}
    ProcLength = {0, 3}
    NULL = NULL
    HUNG = HUNG
    Zero = Zero
    a = a
    b = b
    Chars = {a}
    OpenPaths <- MCOpenPaths
    Messages <- MCMessages
    Sizes <- MCSizes
    MaxMounts = 2
SPECIFICATION Spec
CHECK_DEADLOCK FALSE
INVARIANTS
    
    CopiesInBounds
    HandleNamesItsFile
 
