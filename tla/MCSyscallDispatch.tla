------------------------- MODULE MCSyscallDispatch -------------------------
(* SyscallDispatch with a thread that makes any call and one that reads. *)
EXTENDS SyscallDispatch

MCThreads == {"t1", "t2"}
MCCallsOf == [t \in MCThreads |-> IF t = "t1" THEN DOMAIN Params ELSE {"read"}]
MCPtrs == {1, 3, 5}
MCMaxSteps == [t \in MCThreads |-> 1]
MCRegistered == {"write"}
=============================================================================
