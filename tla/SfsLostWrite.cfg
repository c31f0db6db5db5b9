CONSTANTS
    Names = {a, b}
    NBLOCKS = 7
    SFS_NDIRECT = 1
    SFS_DBPERIDB = 2
    SFS_BLOCKSIZE = 2
    PERBLOCK = 4
    MaxTries = 2
    Faults = {"write"}
    MaxOpen = 2
    MaxWrite = 2
    TruncLens = {0}
CHECK_DEADLOCK FALSE
SPECIFICATION SeenSpec
VIEW Live
SYMMETRY NameSymmetry
INVARIANTS
    CleanIsOnDisk
