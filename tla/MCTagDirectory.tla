---------------------------- MODULE MCTagDirectory ----------------------------
(* Two tables of two pages of two bytes; a range lies in a page, another       *)
(* crosses into the next table, and the address 11 shares its tag with the     *)
(* address 3.                                                                  *)
EXTENDS TagDirectory, TLC

MCStarts == {2, 11}
Symmetry == Permutations(Threads)
MCGivenTags == {{1, 2}}
===============================================================================
