SPECIFICATION Spec
CONSTANTS
    Threads = {t1, t2}
    DIR_SZ = 2
    DIR_TABLE_SZ = 2
    DIR_PAGE_SZ = 2
    Starts <- MCStarts
    Lens = {1, 2}
    GivenTags <- MCGivenTags
    MaxOps = 3
    MaxFails = 1
SYMMETRY Symmetry
INVARIANTS
    TypeOK
    LastTagKept
    LookupInWindow
    FaultNeedsFailure
PROPERTIES
    ServesMap
CHECK_DEADLOCK FALSE
