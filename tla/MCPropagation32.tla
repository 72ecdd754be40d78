------------------------- MODULE MCPropagation32 -------------------------
(* Two registers, memory for the frame of pusha, and two instructions.      *)
EXTENDS Propagation32

\* Bytes 0 and 8 of the memory, the lowest byte of EAX and the second of EDX.
MCInput == {<<Mem, 0>>, <<Mem, 8>>, <<EAX, 0>>, <<EDX, 1>>}
=============================================================================
