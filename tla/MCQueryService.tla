--------------------------- MODULE MCQueryService ---------------------------
(***************************************************************************)
(* Two queries whose replays write the same objects. q1 reaches two       *)
(* subjects that are one process to the server (same pid and path), q2 a    *)
(* process with a log and one without.                                      *)
(***************************************************************************)
EXTENDS QueryService, TLC

CONSTANTS q1, q2

MCReach == q1 :> {"s1", "s2"} @@ q2 :> {"s3", "s4"}
MCProcName == "s1" :> "p1" @@ "s2" :> "p1" @@ "s3" :> "p3" @@ "s4" :> "p4"
=============================================================================
