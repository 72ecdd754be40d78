------------------------------ MODULE JobLine ------------------------------
(***************************************************************************)
(* What the query service promises about a query, whatever happens to it:  *)
(* it is accepted at most once, the accepted queries that reach the line   *)
(* are served in the order in which they reached it, one at a time, each   *)
(* at most once, and a query that was served never comes back.             *)
(***************************************************************************)
EXTENDS Sequences

CONSTANT Queries

VARIABLES
    stage,   \* stage[q]: how far q has come
    line     \* the queries waiting to be served, in the order of their arrival

Stage == {"new", "accepted", "waiting", "serving", "served"}

Init ==
    /\ stage = [q \in Queries |-> "new"]
    /\ line = <<>>

Accept(q) ==
    /\ stage[q] = "new"
    /\ stage' = [stage EXCEPT ![q] = "accepted"]
    /\ line' = line

\* A query that is never enqueued stays "accepted" for ever.
Arrive(q) ==
    /\ stage[q] = "accepted"
    /\ stage' = [stage EXCEPT ![q] = "waiting"]
    /\ line' = Append(line, q)

Serve ==
    /\ line # <<>>
    /\ \A q \in Queries : stage[q] # "serving"
    /\ stage' = [stage EXCEPT ![Head(line)] = "serving"]
    /\ line' = Tail(line)

Leave(q) ==
    /\ stage[q] = "serving"
    /\ stage' = [stage EXCEPT ![q] = "served"]
    /\ line' = line

Next == Serve \/ \E q \in Queries : Accept(q) \/ Arrive(q) \/ Leave(q)

Spec == Init /\ [][Next]_<<stage, line>>
=============================================================================
