SPECIFICATION Spec
CONSTANTS
    SEG = 64
    STAB_SZ = 2
    Addrs <- MCAddrs
    Lens <- MCLens
    MaxOps = 2
INVARIANTS
    TypeOK
    Bitmap32Exact
    Bitmap64Exact
CHECK_DEADLOCK FALSE
