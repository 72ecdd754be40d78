------------------------------ MODULE MCDtaTool ------------------------------
(* Two threads, three descriptors and two buffers; descriptor 17 has the       *)
(* number of the recvmsg socket call.                                          *)
EXTENDS DtaTool, TLC

MCBufs == {0, 8}
MCKnobs == {[sin |-> TRUE, fs |-> TRUE, net |-> TRUE], [sin |-> TRUE, fs |-> FALSE, net |-> FALSE]}
Symmetry == Permutations(Threads)
=============================================================================
