------------------------ MODULE MCSyscallDispatch32 ------------------------
(* SyscallDispatch32 with a thread that makes any call and one that reads and exits. *)
EXTENDS SyscallDispatch32

MCThreads == {"t1", "t2"}
MCCallsOf == [t \in MCThreads |->
    IF t = "t1" THEN (Known \ {"exit"}) \cup {"unknown"} ELSE {"time", "exit"}]
MCMaxSteps == [t \in MCThreads |-> 1]
MCLens == {0, 8, 12}
MCOffs == {0, 4}
MCRegistered == {"write"}
=============================================================================
