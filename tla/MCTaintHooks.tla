---------------------------- MODULE MCTaintHooks ----------------------------
(***************************************************************************)
(* Two subjects and two tags. The first reads any object, one more than     *)
(* there are tags, and writes b and c, so that an object is read and        *)
(* written; the second reads c, which the first wrote, and writes b.        *)
(***************************************************************************)
EXTENDS TaintHooks

CONSTANTS a, b, c, s1, s2

MCInbound  == [s \in Subjects |-> IF s = s1 THEN Objects ELSE {c}]
MCOutbound == [s \in Subjects |-> IF s = s1 THEN {b, c} ELSE {b}]
=============================================================================
