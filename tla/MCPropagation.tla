--------------------------- MODULE MCPropagation ---------------------------
(***************************************************************************)
(* Two general registers of four bytes, a word of two bytes and a long of  *)
(* three, and memory of one quad, in which the narrower operands overlap.  *)
(* One source is enough: every routine distributes over unions.            *)
(***************************************************************************)
EXTENDS Propagation
=============================================================================
