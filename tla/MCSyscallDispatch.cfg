CONSTANTS
    Size = 9
    Ptrs <- MCPtrs
    MaxLen = 2
    Word = 64
    Threads <- MCThreads
    CallsOf <- MCCallsOf
    Registered <- MCRegistered
    AnyCall = FALSE
    MaxSteps <- MCMaxSteps
SPECIFICATION Spec
INVARIANTS
    TypeOK
    NoStaleCell
    NoLostCell
    HookSeesCall
CHECK_DEADLOCK FALSE
