CONSTANTS
    Lens <- MCLens
    Offs <- MCOffs
    Word = 2048
    Threads <- MCThreads
    CallsOf <- MCCallsOf
    Registered <- MCRegistered
    AnyCall = FALSE
    MaxSteps <- MCMaxSteps
SPECIFICATION Spec
INVARIANTS
    TypeOK
    NoStaleByte
    NoLostByte
    HookSeesCall
CHECK_DEADLOCK FALSE
