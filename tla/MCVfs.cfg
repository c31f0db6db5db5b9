CONSTANTS
    Menu = Menu
    lhd0 = lhd0
    lhd1 = lhd1
    h1 = h1
    h2 = h2
    Progs = {p}
    Handles = {h1, h2}
    DiskSeq <- TwoDisks
    Emu = emu0
    NONE = NONE
    GONE = GONE
CHECK_DEADLOCK FALSE
SPECIFICATION VfsSpec
SYMMETRY SameHandles
INVARIANTS
    VfsTypeOK
    RefsHeld
    HeldStaysMounted
PROPERTIES
    ShutdownLeavesBusy
