------------------------------ MODULE MCBitmaps ------------------------------
(* Two segments of 64 bytes, two operations: masks inside a byte of the        *)
(* bitmap, across bytes, up to and across the end of the first segment;        *)
(* lengths with each of the paths of the range operations.                     *)
EXTENDS Bitmaps, FiniteSets

MCAddrs == {0, 3, 24, 30, 56, 60}
MCLens  == {0, 1, 3, 5, 6, 7, 8, 9, 12, 15, 16, 23, 33, 40, 47}
=============================================================================
