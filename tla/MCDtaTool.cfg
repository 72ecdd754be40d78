SPECIFICATION Spec
CONSTANTS
    Threads = {t1, t2}
    Fds = {0, 3, 17}
    Bufs <- MCBufs
    Code = 16
    Counts = {0, 5}
    Knobs <- MCKnobs
    MaxSteps = 3
SYMMETRY Symmetry
INVARIANTS
    TypeOK
    FdsetRight
    TaintRight
    BranchesRight
CHECK_DEADLOCK FALSE
