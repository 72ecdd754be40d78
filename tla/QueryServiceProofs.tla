------------------------ MODULE QueryServiceProofs ------------------------
(***************************************************************************)
(* Theorems about QueryService, for every set of queries, subjects,        *)
(* objects and recorded logs.                                              *)
(***************************************************************************)
EXTENDS QueryService, TLAPS

(* The type invariant: every step of the web process, the work horse, the  *)
(* alarm and the victims keeps the state well formed.                      *)
THEOREM TypeCorrect == Spec => []TypeOK
<1> USE QueryServiceAssumption
<1>1. Init => TypeOK
  <2> SUFFICES ASSUME Init PROVE TypeOK
    OBVIOUS
  <2>1. pc \in PC /\ queue \in Seq(Queries)
    BY DEF Init, PC
  <2>. QED
    BY <2>1 DEF Init, TypeOK
<1>2. TypeOK /\ [Next]_vars => TypeOK'
  <2> SUFFICES ASSUME TypeOK, [Next]_vars PROVE TypeOK'
    OBVIOUS
  <2> USE DEF TypeOK, tables, output, hist, web, PC, Unguarded, ReachTry, TaintTry, Handlers
  <2>1. ASSUME NEW q \in Queries, PostInsert(q) PROVE TypeOK'
    BY <2>1 DEF PostInsert, insert, Status
  <2>3. ASSUME PostEnqueue PROVE TypeOK'
    BY <2>3 DEF PostEnqueue, new_query
  <2>4. ASSUME PostLost PROVE TypeOK'
    BY <2>4 DEF PostLost
  <2>5. ASSUME Dequeue PROVE TypeOK'
    BY <2>5 DEF Dequeue, Goto
  <2>6. ASSUME HandleStart PROVE TypeOK'
    BY <2>6 DEF HandleStart, SetStatus, Goto, update_status, Status
  <2>7. ASSUME HandlePrepare PROVE TypeOK'
    BY <2>7 DEF HandlePrepare, SetStatus, Goto, update_status, Status
  <2>8. ASSUME HandleReplay PROVE TypeOK'
    BY <2>8 DEF HandleReplay, SetStatus, Goto, update_status, Status
  <2>9. ASSUME HandleFinished PROVE TypeOK'
    BY <2>9 DEF HandleFinished, SetStatus, Goto, update_status, Status
  <2>10. ASSUME Connect PROVE TypeOK'
    BY <2>10 DEF Connect, Goto
  <2>11. ASSUME LeaveReachTry PROVE TypeOK'
    BY <2>11 DEF LeaveReachTry, Goto
  <2>12. ASSUME EnterTry PROVE TypeOK'
    BY <2>12 DEF EnterTry, Goto
  <2>13. ASSUME LoopDone PROVE TypeOK'
    BY <2>13 DEF LoopDone, Goto
  <2>14. ASSUME LeaveTaintTry PROVE TypeOK'
    BY <2>14 DEF LeaveTaintTry, Goto
  <2>15. ASSUME LeaveTry PROVE TypeOK'
    BY <2>15 DEF LeaveTry, Goto
  <2>16. ASSUME Reachability PROVE TypeOK'
    BY <2>16 DEF Reachability, Goto
  <2>17. ASSUME proc_index PROVE TypeOK'
    BY <2>17 DEF proc_index, Goto
  <2>18. ASSUME get_subjects_to_taint PROVE TypeOK'
    BY <2>18 DEF get_subjects_to_taint, Goto, Representatives, TaintRows
  <2>19. ASSUME ResetOverlay PROVE TypeOK'
    BY <2>19 DEF ResetOverlay, reset_tag_overlay, Goto
  <2>20. ASSUME Fork PROVE TypeOK'
    <3>1. PICK s \in todo :
             LET v == [subject |-> s, query |-> cur, pin |-> FALSE]
             IN  todo' = todo \ {s} /\ child' = {v} /\ live' = live \cup {v}
      BY <2>20 DEF Fork
    <3>2. s \in Subjects /\ cur \in Queries
      BY <2>20 DEF Fork, Goto
    <3>3. [subject |-> s, query |-> cur, pin |-> FALSE] \in Victim
      BY <3>2 DEF Victim
    <3>. QED
      BY <2>20, <3>1, <3>3 DEF Fork, Goto
  <2>21. ASSUME Attach PROVE TypeOK'
    <3>1. \A v \in Victim : WithPin(v) \in Victim
      BY DEF Victim, WithPin
    <3>2. child' \subseteq Victim /\ live' \subseteq Victim
      BY <2>21, <3>1 DEF Attach
    <3>. QED
      BY <2>21, <3>2 DEF Attach, Goto
  <2>22. ASSUME WaitPid PROVE TypeOK'
    BY <2>22 DEF WaitPid, Goto, Victim
  <2>23. ASSUME SelectOverlay PROVE TypeOK'
    BY <2>23 DEF SelectOverlay, Goto, get_overlay
  <2>2. ASSUME publish PROVE TypeOK'
    BY <2>2 DEF publish
  <2>24. ASSUME Close PROVE TypeOK'
    BY <2>24 DEF Close, EndJob
  <2>25. ASSUME TimeoutReach PROVE TypeOK'
    BY <2>25 DEF TimeoutReach, HandleTimeout, EndJob, update_status, Status
  <2>26. ASSUME TimeoutTaint PROVE TypeOK'
    BY <2>26 DEF TimeoutTaint, HandleTimeout, EndJob, update_status, Status
  <2>27. ASSUME AlarmCaught PROVE TypeOK'
    BY <2>27 DEF AlarmCaught, AlarmRings, CatchTimeout
  <2>28. ASSUME AlarmInVictim PROVE TypeOK'
    BY <2>28 DEF AlarmInVictim, AlarmRings, CatchTimeout
  <2>29. ASSUME AlarmUncaught PROVE TypeOK'
    BY <2>29 DEF AlarmUncaught, AlarmRings, EndJob
  <2>30. ASSUME Fail PROVE TypeOK'
    BY <2>30 DEF Fail, EndJob
  <2>31. ASSUME HorseDies PROVE TypeOK'
    BY <2>31 DEF HorseDies, EndJob
  <2>32. ASSUME NEW v \in live, VictimExits(v) PROVE TypeOK'
    <3>1. v.query \in Queries /\ v.subject \in Subjects
      BY DEF Victim
    <3> QED BY <2>32, <3>1 DEF VictimExits
  <2>33. ASSUME NEW v \in live, NEW o \in Objects, VictimInserts(v, o) PROVE TypeOK'
    BY <2>33 DEF VictimInserts, Row, Victim
  <2>35. ASSUME NEW r \in buffer, Delivered(r) PROVE TypeOK'
    <3>1. cur \in Queries \cup {NoQuery} /\ r \in Row
      OBVIOUS
    <3> QED BY <2>35, <3>1 DEF Delivered
  <2>36. ASSUME NEW r \in buffer, GivenUp(r) PROVE TypeOK'
    BY <2>36 DEF GivenUp
  <2>34. ASSUME UNCHANGED vars PROVE TypeOK'
    BY <2>34 DEF vars
  <2>. QED
    BY <2>1, <2>2, <2>3, <2>4, <2>5, <2>6, <2>7, <2>8, <2>9, <2>10, <2>11, <2>12, <2>13,
       <2>14, <2>15, <2>16, <2>17, <2>18, <2>19, <2>20, <2>21, <2>22, <2>23, <2>24,
       <2>25, <2>26, <2>27, <2>28, <2>29, <2>30, <2>31, <2>32, <2>33, <2>34, <2>35, <2>36
       DEF Next, WebStep, WorkerStep, Alarm, ProducerStep, VictimStep
<1>. QED BY <1>1, <1>2, PTL DEF Spec
(* The web process, the queue and the worker agree on where a query is: the *)
(* queue holds each query at most once, a query waiting in the POST or in   *)
(* the queue has not been served, and only a query that reached the worker  *)
(* has a status beyond "inqueue".                                           *)
LineInv ==
    /\ \A i, j \in DOMAIN queue : queue[i] = queue[j] => i = j
    /\ \A i \in DOMAIN queue :
          doc[queue[i]] = InQueue /\ queue[i] \notin ended \cup {cur, req}
    /\ req # NoQuery => doc[req] = InQueue /\ req \notin ended \cup {cur}
    /\ pc # "idle" => cur \notin ended
    /\ \A q \in Queries : q \notin ended \cup {cur} => doc[q] \in {Absent, InQueue}
    /\ \A q \in ended : doc[q] # Absent

(* The statuses the current query can have at each step of handle_query.    *)
StatusAt(a) ==
    IF a = "start" THEN {InQueue}
    ELSE IF a \in {"connect", "reach", "reached", "prep", "timeout_reach"}
         THEN {ReachAnalysis}
    ELSE IF a \in {"index", "subjects", "reset", "replay"} THEN {Preparing}
    ELSE IF a = "timeout_taint"
         THEN {ReachAnalysis, Preparing, Replaying}
    ELSE IF a = "close" THEN {Finished}
    ELSE {Replaying}

StatusInv == pc # "idle" => doc[cur] \in StatusAt(pc)

(* The victim that create_victim waits for belongs to the current query and *)
(* is the only one of it alive; a victim of another query has outlived its  *)
(* job, which was not reported finished.                                    *)
InVictim == {"forked", "attach", "wait", "reaped"}   \* steps of create_victim

VictimInv ==
    /\ pc \notin InVictim => child = {}
    /\ \A v \in child : v.query = cur
    /\ pc = "forked" => \A v \in child : ~v.pin
    /\ pc \notin {"idle", "timeout_taint"} => \A v \in live : v.query = cur => v \in child
    /\ pc = "reaped" => child \cap live = {}
    /\ \A v \in live : v.query # cur => v.query \in ended /\ doc[v.query] # Finished
    /\ ~orphaned => live \subseteq child
    /\ pc = "timeout_taint" => \A v \in live : v.query = cur /\ v.pin => v \in term
    /\ TimedOutVictimsSignalled

(* What the current job has still to replay: every subject of its own       *)
(* subgraph with a recorded log stands for one that is to do, in the hands  *)
(* of create_victim, or gone.                                               *)
Searched == {"reached", "finish", "close"} \cup TaintTry   \* after the search
Selected == Searched \ {"reached", "prep", "index", "subjects"}   \* subjects chosen

ReplayInv ==
    /\ pc \in Searched => subgraph[cur] = Reach[cur]
    /\ pc \in Searched \ {"reached", "prep", "index"} => recIndex = Logged
    /\ pc \in Selected =>
          \A s \in Reach[cur] : ProcName[s] \in Logged =>
             \E t \in todo \cup {v.subject : v \in child} \cup gone[cur] :
                ProcName[t] = ProcName[s]
    /\ pc \in {"overlay", "publish", "finish", "close"} => todo = {}
    /\ FinishedAwaited

(* The victim that create_victim holds is alive or gone.                    *)
HeldInv == \A v \in child : v \in live \/ v.subject \in gone[v.query]

(* Where the rows of a query are: nowhere before its first replay, in the   *)
(* table while its job runs, and at the end with the producer.              *)
Untouched(q) ==
    /\ published[q] = {}
    /\ \A r \in inserted \cup unsent : r.qid # q

BeforeLoop == {"start", "connect", "reach", "reached", "prep", "index", "subjects",
               "reset", "replay", "timeout_reach"}
InLoop     == {"loop", "overlay"} \cup InVictim
AfterLoop  == {"publish", "finish", "close"}

RowInv ==
    /\ overlay \subseteq inserted
    /\ \A q \in Queries : q \notin ended \cup {cur} => Untouched(q)
    /\ pc \in BeforeLoop => Untouched(cur)
    /\ pc \in InLoop => published[cur] = {} /\ \A r \in unsent : r.qid # cur
    /\ pc # "idle" => {r \in inserted : r.qid = cur} \subseteq overlay
    /\ \A r \in records \cup buffer : r.qid = cur
    /\ pc \notin {"publish", "timeout_taint"} => records = {} /\ buffer = {}
    /\ pc \in AfterLoop =>
          {r \in inserted : r.qid = cur} =
             records \cup buffer \cup published[cur] \cup {r \in unsent : r.qid = cur}
    /\ FinishedPublished

(* Until a victim outlives its job, the table holds rows of the current     *)
(* query alone once it was reset.                                           *)
KeyInv ==
    /\ ~orphaned /\ pc \in {"replay"} \cup InLoop \cup AfterLoop =>
          \A r \in overlay : r.qid = cur
    /\ LostRowNeedsOrphan

(* The statuses differ from one another and from a missing document.        *)
LEMMA StatusesDiffer ==
    /\ Absent \notin {InQueue, ReachAnalysis, ReachTimedOut, Preparing, Replaying,
                      TaintTimedOut, Finished}
    /\ InQueue \notin {ReachAnalysis, ReachTimedOut, Preparing, Replaying, TaintTimedOut,
                       Finished}
    /\ ReachAnalysis \notin {ReachTimedOut, Preparing, Replaying, TaintTimedOut, Finished}
    /\ ReachTimedOut \notin {Preparing, Replaying, TaintTimedOut, Finished}
    /\ Preparing \notin {Replaying, TaintTimedOut, Finished}
    /\ Replaying \notin {TaintTimedOut, Finished}
    /\ TaintTimedOut # Finished
BY Zenon DEF Absent, InQueue, ReachAnalysis, ReachTimedOut, Preparing, Replaying,
             TaintTimedOut, Finished

(* Every step keeps the line and the statuses in order.                     *)
LEMMA LineStep ==
    TypeOK /\ LineInv /\ StatusInv /\ [Next]_vars => LineInv' /\ StatusInv'
<1> SUFFICES ASSUME TypeOK, LineInv, StatusInv, [Next]_vars PROVE LineInv' /\ StatusInv'
  OBVIOUS
<1> USE QueryServiceAssumption
<1>t. /\ doc \in [Queries -> Status \cup {Absent}]
      /\ req \in Queries \cup {NoQuery}
      /\ queue \in Seq(Queries)
      /\ ended \subseteq Queries
      /\ pc \in PC
      /\ cur \in IF pc = "idle" THEN {NoQuery} ELSE Queries
  BY DEF TypeOK
<1>1. ASSUME NEW q \in Queries, PostInsert(q) PROVE LineInv' /\ StatusInv'
  <2>1. /\ doc[q] = Absent /\ doc' = [doc EXCEPT ![q] = InQueue] /\ req' = q
        /\ UNCHANGED <<queue, ended, pc, cur>>
    BY <1>1 DEF PostInsert, insert
  <2>2. q # cur
    BY <2>1, <1>t, StatusesDiffer DEF StatusInv, StatusAt
  <2>3. q \notin ended /\ \A i \in DOMAIN queue : queue[i] # q
    BY <2>1, StatusesDiffer DEF LineInv
  <2> QED BY <2>1, <2>2, <2>3, <1>t, StatusesDiffer DEF LineInv, StatusInv
<1>2. ASSUME PostEnqueue PROVE LineInv' /\ StatusInv'
  <2>1. /\ queue' = Append(queue, req) /\ req \in Queries /\ req' = NoQuery
        /\ UNCHANGED <<doc, ended, pc, cur>>
    BY <1>2, <1>t DEF PostEnqueue, new_query
  <2>2. /\ Len(queue) \in Nat /\ queue'[Len(queue) + 1] = req
        /\ DOMAIN queue = 1..Len(queue) /\ DOMAIN queue' = 1..(Len(queue) + 1)
        /\ \A i \in DOMAIN queue : queue'[i] = queue[i]
    BY <2>1, <1>t
  <2>3. \A i \in DOMAIN queue' : i \in DOMAIN queue \/ i = Len(queue) + 1
    BY <2>2
  <2> QED BY <2>1, <2>2, <2>3, <1>t DEF LineInv, StatusInv
<1>3. ASSUME PostLost PROVE LineInv' /\ StatusInv'
  BY <1>3, <1>t DEF PostLost, LineInv, StatusInv
<1>4. ASSUME Dequeue PROVE LineInv' /\ StatusInv'
  <2>1. /\ queue # <<>> /\ cur' = Head(queue) /\ queue' = Tail(queue)
        /\ pc = "idle" /\ pc' = "start" /\ UNCHANGED <<doc, ended, req>>
    BY <1>4 DEF Dequeue, Goto
  <2>2. /\ Len(queue) \in Nat /\ Len(queue) # 0
        /\ DOMAIN queue = 1..Len(queue) /\ DOMAIN queue' = 1..(Len(queue) - 1)
        /\ cur' = queue[1]
        /\ \A i \in DOMAIN queue' : i + 1 \in DOMAIN queue /\ queue'[i] = queue[i + 1]
    BY <2>1, <1>t
  <2> QED BY <2>1, <2>2, <1>t DEF LineInv, StatusInv, StatusAt
<1>5. ASSUME HandleStart \/ HandlePrepare \/ HandleReplay \/ HandleFinished
      PROVE LineInv' /\ StatusInv'
  <2>1. /\ cur \in Queries /\ pc # "idle" /\ pc' # "idle"
        /\ \E s \in Status \ {Absent} : doc' = [doc EXCEPT ![cur] = s] /\ s \in StatusAt(pc')
        /\ UNCHANGED <<req, queue, ended, cur>>
    BY <1>5, <1>t, StatusesDiffer DEF HandleStart, HandlePrepare, HandleReplay, HandleFinished, SetStatus,
       Goto, update_status, Status, StatusAt
  <2> QED BY <2>1, <1>t DEF LineInv, StatusInv
<1>6. ASSUME \/ Connect \/ Reachability \/ LeaveReachTry \/ proc_index
             \/ get_subjects_to_taint \/ ResetOverlay \/ Fork \/ EnterTry \/ Attach
             \/ WaitPid \/ LeaveTry \/ LoopDone \/ SelectOverlay \/ publish
             \/ LeaveTaintTry \/ AlarmCaught \/ AlarmInVictim
      PROVE LineInv' /\ StatusInv'
  <2>1. /\ pc # "idle" /\ pc' # "idle" /\ StatusAt(pc) \subseteq StatusAt(pc')
        /\ UNCHANGED <<doc, req, queue, ended, cur>>
    BY <1>6 DEF Connect, Reachability, LeaveReachTry, proc_index, get_subjects_to_taint,
       ResetOverlay, Fork, EnterTry, Attach, WaitPid, LeaveTry, LoopDone, SelectOverlay,
       publish, LeaveTaintTry, AlarmCaught, AlarmInVictim, AlarmRings, CatchTimeout,
       Goto, StatusAt, web, ReachTry, TaintTry, Handlers
  <2> QED BY <2>1, <1>t DEF LineInv, StatusInv
<1>7. ASSUME Close \/ TimeoutReach \/ TimeoutTaint \/ AlarmUncaught \/ Fail \/ HorseDies
      PROVE LineInv' /\ StatusInv'
  <2>1. /\ pc # "idle" /\ pc' = "idle" /\ cur \in Queries /\ cur' = NoQuery
        /\ ended' = ended \cup {cur}
        /\ UNCHANGED <<req, queue>>
        /\ \/ doc' = doc /\ doc[cur] # Absent
           \/ \E s \in Status \ {Absent} : doc' = [doc EXCEPT ![cur] = s]
    BY <1>7, <1>t, StatusesDiffer DEF Close, TimeoutReach, TimeoutTaint, HandleTimeout, AlarmUncaught,
       AlarmRings, Fail, HorseDies, EndJob, web, update_status, Status, StatusInv,
       StatusAt
  <2> QED BY <2>1, <1>t DEF LineInv, StatusInv
<1>8. ASSUME ProducerStep \/ VictimStep \/ UNCHANGED vars PROVE LineInv' /\ StatusInv'
  <2>1. UNCHANGED <<doc, req, queue, ended, cur, pc>>
    BY <1>8 DEF ProducerStep, Delivered, GivenUp, VictimStep, VictimExits, VictimInserts,
       web, vars
  <2> QED BY <2>1 DEF LineInv, StatusInv
<1> QED BY <1>1, <1>2, <1>3, <1>4, <1>5, <1>6, <1>7, <1>8
        DEF Next, WebStep, WorkerStep, Alarm

(* The invariant of the line and the statuses holds in every reachable      *)
(* state.                                                                   *)
THEOREM LineCorrect == Spec => [](LineInv /\ StatusInv)
<1>1. Init => LineInv /\ StatusInv
  BY DEF Init, LineInv, StatusInv
<1> QED BY <1>1, LineStep, TypeCorrect, PTL DEF Spec

(* The rank of each status.                                                 *)
LEMMA Ranks ==
    /\ Rank(Absent) = 0 /\ Rank(InQueue) = 1 /\ Rank(ReachAnalysis) = 2
    /\ Rank(ReachTimedOut) = 3 /\ Rank(Preparing) = 3 /\ Rank(Replaying) = 4
    /\ Rank(TaintTimedOut) = 5 /\ Rank(Finished) = 5
BY StatusesDiffer DEF Rank

(* StatusMonotone: no step of any process takes the status that a client    *)
(* polls back. The status invariant says what update_status finds in the    *)
(* document at each step of handle_query.                                   *)
THEOREM StatusAdvances == Spec => StatusMonotone
<1>1. TypeOK /\ LineInv /\ StatusInv /\ [Next]_vars
        => [\A q \in Queries : doc'[q] = doc[q] \/ Rank(doc'[q]) > Rank(doc[q])]_vars
  <2> DEFINE Advances == \A q \in Queries : doc'[q] = doc[q] \/ Rank(doc'[q]) > Rank(doc[q])
  <2> SUFFICES ASSUME TypeOK, LineInv, StatusInv, Next PROVE Advances
    OBVIOUS
  <2>t. /\ doc \in [Queries -> Status \cup {Absent}]
        /\ cur \in IF pc = "idle" THEN {NoQuery} ELSE Queries
    BY DEF TypeOK
  <2>1. ASSUME NEW q \in Queries, PostInsert(q) PROVE Advances
    BY <2>1, <2>t, Ranks DEF PostInsert, insert
  <2>2. ASSUME NEW a, NEW s, NEW b, SetStatus(a, s, b), a # "idle",
               \A x \in StatusAt(a) : Rank(s) > Rank(x)
        PROVE Advances
    BY <2>2, <2>t DEF SetStatus, Goto, update_status, StatusInv
  <2>3. ASSUME HandleStart \/ HandlePrepare \/ HandleReplay \/ HandleFinished PROVE Advances
    <3>1. /\ \A x \in StatusAt("start") : x = InQueue
          /\ \A x \in StatusAt("prep") : x = ReachAnalysis
          /\ \A x \in StatusAt("replay") : x = Preparing
          /\ \A x \in StatusAt("finish") : x = Replaying
      BY DEF StatusAt
    <3> QED BY <2>2, <2>3, <3>1, Ranks
            DEF HandleStart, HandlePrepare, HandleReplay, HandleFinished
  <2>4. ASSUME TimeoutReach \/ TimeoutTaint PROVE Advances
    <3>1. /\ \A x \in StatusAt("timeout_reach") : x = ReachAnalysis
          /\ \A x \in StatusAt("timeout_taint") :
                x \in {ReachAnalysis, Preparing, Replaying}
      BY DEF StatusAt
    <3>2. /\ pc = "timeout_reach" \/ pc = "timeout_taint"
          /\ doc' = [doc EXCEPT ![cur] = IF pc = "timeout_reach" THEN ReachTimedOut
                                         ELSE TaintTimedOut]
      BY <2>4 DEF TimeoutReach, TimeoutTaint, HandleTimeout, update_status
    <3> QED BY <3>1, <3>2, <2>t, Ranks DEF StatusInv
  <2>5. ASSUME doc' = doc PROVE Advances
    BY <2>5
  <2>6. \/ \E q \in Queries : PostInsert(q)
        \/ HandleStart \/ HandlePrepare \/ HandleReplay \/ HandleFinished
        \/ TimeoutReach \/ TimeoutTaint
        \/ doc' = doc
    BY DEF Next, WebStep, PostEnqueue, PostLost, Dequeue, WorkerStep, Connect, Reachability,
       LeaveReachTry, proc_index, get_subjects_to_taint, ResetOverlay, Fork, EnterTry,
       Attach, WaitPid, LeaveTry, LoopDone, SelectOverlay, publish, LeaveTaintTry, Close,
       Alarm, AlarmCaught, AlarmInVictim, AlarmUncaught, Fail, HorseDies, ProducerStep,
       Delivered, GivenUp, VictimStep, VictimExits, VictimInserts, web
  <2> QED BY <2>1, <2>3, <2>4, <2>5, <2>6
<1> QED BY <1>1, TypeCorrect, LineCorrect, PTL DEF Spec, StatusMonotone

(* The service implements JobLine: queries are served in the order of their *)
(* POSTs, one at a time and at most once, whatever crashes. A POST that     *)
(* inserts the document is Accept, one that enqueues the job is Arrive, rq  *)
(* taking the head of the list is Serve, and every end of the job (return,  *)
(* timeout, failure or death of the horse) is Leave.                        *)
THEOREM ServiceImplementsLine == Spec => ServesLine
<1> DEFINE stageBar == [q \in Queries |-> StageOf(q)]
<1> USE QueryServiceAssumption
<1>1. Init => Line!Init
  BY DEF Init, Line!Init, StageOf
<1>2. TypeOK /\ LineInv /\ StatusInv /\ [Next]_vars => [Line!Next]_<<stageBar, queue>>
  <2> SUFFICES ASSUME TypeOK, LineInv, StatusInv, [Next]_vars
               PROVE  Line!Next \/ UNCHANGED <<stageBar, queue>>
    OBVIOUS
  <2>t. /\ doc \in [Queries -> Status \cup {Absent}]
        /\ req \in Queries \cup {NoQuery}
        /\ queue \in Seq(Queries)
        /\ ended \subseteq Queries
        /\ pc \in PC
        /\ cur \in IF pc = "idle" THEN {NoQuery} ELSE Queries
    BY DEF TypeOK
  <2>1. ASSUME NEW q \in Queries, PostInsert(q) PROVE Line!Accept(q)
    <3>1. /\ doc[q] = Absent /\ doc' = [doc EXCEPT ![q] = InQueue]
          /\ UNCHANGED <<queue, ended, cur>>
      BY <2>1 DEF PostInsert, insert
    <3>2. q \notin ended /\ \A i \in DOMAIN queue : queue[i] # q
      BY <3>1, StatusesDiffer DEF LineInv
    <3>3. q # cur
      BY <3>1, <2>t, StatusesDiffer DEF StatusInv, StatusAt
    <3>4. StageOf(q) = "new" /\ StageOf(q)' = "accepted"
      BY <3>1, <3>2, <3>3, <2>t, StatusesDiffer DEF StageOf
    <3>5. \A p \in Queries : p # q => StageOf(p)' = StageOf(p)
      BY <3>1, <2>t DEF StageOf
    <3>6. stageBar' = [stageBar EXCEPT ![q] = "accepted"]
      BY <3>4, <3>5
    <3> QED BY <3>1, <3>4, <3>6 DEF Line!Accept
  <2>2. ASSUME PostEnqueue PROVE req \in Queries /\ Line!Arrive(req)
    <3>1. /\ req \in Queries /\ queue' = Append(queue, req) /\ UNCHANGED <<doc, ended, cur>>
      BY <2>2, <2>t DEF PostEnqueue, new_query
    <3>2. /\ Len(queue) \in Nat /\ queue'[Len(queue) + 1] = req
          /\ DOMAIN queue = 1..Len(queue) /\ DOMAIN queue' = 1..(Len(queue) + 1)
          /\ \A i \in DOMAIN queue : i \in DOMAIN queue' /\ queue'[i] = queue[i]
      BY <3>1, <2>t
    <3>3. \A i \in DOMAIN queue' : i \in DOMAIN queue \/ i = Len(queue) + 1
      BY <3>2
    <3>4. /\ req \notin ended \cup {cur} /\ doc[req] # Absent
          /\ \A i \in DOMAIN queue : queue[i] # req
      BY <3>1, StatusesDiffer DEF LineInv
    <3>5. Len(queue) + 1 \in DOMAIN queue'
      BY <3>2
    <3>6. StageOf(req) = "accepted"
      BY <3>4 DEF StageOf
    <3>7. \A p \in Queries : p = req => StageOf(p)' = "waiting"
      BY <3>1, <3>2, <3>4, <3>5 DEF StageOf
    <3>8. \A p \in Queries : p # req => StageOf(p)' = StageOf(p)
      BY <3>1, <3>2, <3>3 DEF StageOf
    <3>9. stageBar' = [stageBar EXCEPT ![req] = "waiting"]
      BY <3>1, <3>7, <3>8
    <3> QED BY <3>1, <3>6, <3>9 DEF Line!Arrive
  <2>3. ASSUME Dequeue PROVE Line!Serve
    <3>1. /\ queue # <<>> /\ cur' = Head(queue) /\ queue' = Tail(queue) /\ cur = NoQuery
          /\ UNCHANGED <<doc, ended, req>>
      BY <2>3, <2>t DEF Dequeue, Goto
    <3>2. /\ Len(queue) \in Nat /\ 1 \in DOMAIN queue /\ cur' = queue[1] /\ cur' \in Queries
          /\ DOMAIN queue = 1..Len(queue) /\ DOMAIN queue' = 1..(Len(queue) - 1)
          /\ \A i \in DOMAIN queue' : i + 1 \in DOMAIN queue /\ queue'[i] = queue[i + 1]
      BY <3>1, <2>t
    <3>3. \A i \in DOMAIN queue : i = 1 \/ (i - 1 \in DOMAIN queue' /\ queue'[i - 1] = queue[i])
      BY <3>2
    <3>4. \A p \in Queries : p # queue[1] =>
             ((\E i \in DOMAIN queue : queue[i] = p) <=> (\E i \in DOMAIN queue' : queue'[i] = p))
      BY <3>2, <3>3
    <3>5. \A p \in Queries : p # queue[1] => StageOf(p)' = StageOf(p)
      BY <3>1, <3>4 DEF StageOf
    <3>6. \A p \in Queries : p = queue[1] => StageOf(p)' = "serving"
      BY <3>1, <3>2 DEF StageOf, LineInv
    <3>7. \A p \in Queries : StageOf(p) # "serving"
      BY <3>1 DEF StageOf
    <3>8. stageBar' = [stageBar EXCEPT ![Head(queue)] = "serving"]
      BY <3>1, <3>2, <3>5, <3>6
    <3> QED BY <3>1, <3>7, <3>8 DEF Line!Serve
  <2>4. ASSUME Close \/ TimeoutReach \/ TimeoutTaint \/ AlarmUncaught \/ Fail \/ HorseDies
        PROVE  cur \in Queries /\ Line!Leave(cur)
    <3>1. /\ pc # "idle" /\ cur \in Queries /\ cur' = NoQuery /\ ended' = ended \cup {cur}
          /\ queue' = queue
          /\ \A p \in Queries : p # cur => doc'[p] = doc[p]
      BY <2>4, <2>t DEF Close, TimeoutReach, TimeoutTaint, HandleTimeout, AlarmUncaught,
         AlarmRings, Fail, HorseDies, EndJob, web, update_status
    <3>2. StageOf(cur) = "serving"
      BY <3>1 DEF StageOf, LineInv
    <3>3. \A p \in Queries : StageOf(p)' = IF p = cur THEN "served" ELSE StageOf(p)
      BY <3>1 DEF StageOf
    <3>4. stageBar' = [stageBar EXCEPT ![cur] = "served"]
      BY <3>1, <3>3
    <3> QED BY <3>1, <3>2, <3>4 DEF Line!Leave
  <2>5. ASSUME HandleStart \/ HandlePrepare \/ HandleReplay \/ HandleFinished
        PROVE  UNCHANGED <<stageBar, queue>>
    <3>1. /\ UNCHANGED <<queue, ended, cur>>
          /\ \A p \in Queries : p # cur => doc'[p] = doc[p]
      BY <2>5, <2>t DEF HandleStart, HandlePrepare, HandleReplay, HandleFinished, SetStatus,
         update_status
    <3>2. \A p \in Queries : StageOf(p)' = StageOf(p)
      BY <3>1 DEF StageOf
    <3> QED BY <3>1, <3>2
  <2>6. ASSUME UNCHANGED <<doc, queue, ended, cur>> PROVE UNCHANGED <<stageBar, queue>>
    BY <2>6 DEF StageOf
  <2>7. \/ \E q \in Queries : PostInsert(q)
        \/ PostEnqueue \/ Dequeue
        \/ HandleStart \/ HandlePrepare \/ HandleReplay \/ HandleFinished
        \/ Close \/ TimeoutReach \/ TimeoutTaint \/ AlarmUncaught \/ Fail \/ HorseDies
        \/ UNCHANGED <<doc, queue, ended, cur>>
    BY DEF Next, WebStep, PostLost, WorkerStep, Connect, Reachability,
       LeaveReachTry, proc_index, get_subjects_to_taint, ResetOverlay, Fork, EnterTry,
       Attach, WaitPid, LeaveTry, LoopDone, SelectOverlay, publish, LeaveTaintTry,
       Alarm, AlarmCaught, AlarmInVictim, ProducerStep, Delivered, GivenUp, VictimStep,
       VictimExits, VictimInserts, web, vars
  <2> QED BY <2>1, <2>2, <2>3, <2>4, <2>5, <2>6, <2>7 DEF Line!Next
<1> QED BY <1>1, <1>2, TypeCorrect, LineCorrect, PTL DEF Spec, ServesLine, Line!Spec

(* pin is attached to the same victim.                                      *)
LEMMA WithPinFields ==
    ASSUME NEW v \in Victim
    PROVE  /\ WithPin(v) \in Victim /\ WithPin(v).query = v.query
           /\ WithPin(v).subject = v.subject /\ WithPin(v).pin = TRUE
BY DEF WithPin, Victim

(* Every step keeps the victims accounted for.                              *)
LEMMA VictimsStep ==
    TypeOK /\ LineInv /\ StatusInv /\ VictimInv /\ [Next]_vars => VictimInv'
<1> SUFFICES ASSUME TypeOK, LineInv, StatusInv, VictimInv, [Next]_vars PROVE VictimInv'
  OBVIOUS
<1>t. /\ doc \in [Queries -> Status \cup {Absent}]
      /\ queue \in Seq(Queries)
      /\ ended \subseteq Queries
      /\ pc \in PC
      /\ cur \in IF pc = "idle" THEN {NoQuery} ELSE Queries
      /\ child \subseteq Victim /\ live \subseteq Victim
      /\ NoQuery \notin Queries
  BY QueryServiceAssumption DEF TypeOK
<1>v. \A v \in Victim : v.query \in Queries
  BY DEF Victim
<1> USE DEF VictimInv, TimedOutVictimsSignalled, InVictim, Handlers
<1>1. ASSUME NEW q \in Queries, PostInsert(q) PROVE VictimInv'
  <2>1. /\ doc[q] = Absent /\ doc' = [doc EXCEPT ![q] = InQueue]
        /\ UNCHANGED <<ended, pc, cur, child, live, term, orphaned>>
    BY <1>1 DEF PostInsert, insert, hist
  <2> QED BY <2>1, <1>t, <1>v, StatusesDiffer
<1>2. ASSUME Dequeue PROVE VictimInv'
  <2>1. /\ queue # <<>> /\ cur' = Head(queue) /\ pc = "idle" /\ pc' = "start"
        /\ UNCHANGED <<doc, ended, child, live, term, orphaned>>
    BY <1>2 DEF Dequeue, Goto, hist
  <2>2. cur' = queue[1] /\ 1 \in DOMAIN queue
    BY <2>1, <1>t
  <2>3. cur' \notin ended /\ cur = NoQuery
    BY <2>1, <2>2, <1>t DEF LineInv
  <2> QED BY <2>1, <2>3, <1>t, <1>v
<1>3. ASSUME \/ HandleStart \/ HandlePrepare \/ HandleReplay \/ HandleFinished
             \/ Connect \/ Reachability \/ LeaveReachTry \/ proc_index
             \/ get_subjects_to_taint \/ ResetOverlay \/ LoopDone \/ SelectOverlay
             \/ publish \/ LeaveTaintTry
      PROVE VictimInv'
  <2>1. /\ pc \notin {"idle"} \cup InVictim \cup Handlers
        /\ pc' \notin {"idle"} \cup InVictim \cup Handlers
        /\ UNCHANGED <<ended, cur, child, live, term, orphaned>>
    BY <1>3 DEF HandleStart, HandlePrepare, HandleReplay, HandleFinished, SetStatus, Connect,
       Reachability, LeaveReachTry, proc_index, get_subjects_to_taint, ResetOverlay, LoopDone,
       SelectOverlay, publish, LeaveTaintTry, Goto, hist
  <2>2. \A q \in Queries : q # cur => doc'[q] = doc[q]
    BY <1>3, <1>t DEF HandleStart, HandlePrepare, HandleReplay, HandleFinished, SetStatus,
       Connect, Reachability, LeaveReachTry, proc_index, get_subjects_to_taint, ResetOverlay,
       LoopDone, SelectOverlay, publish, LeaveTaintTry, web, update_status
  <2>3. child = {} /\ \A v \in live : v.query # cur
    BY <2>1
  <2> QED BY <2>1, <2>2, <2>3, <1>t, <1>v
<1>4. ASSUME Fork PROVE VictimInv'
  <2>1. /\ pc = "loop" /\ pc' = "forked"
        /\ UNCHANGED <<doc, ended, cur, term, orphaned>>
    BY <1>4 DEF Fork, Goto, hist, web
  <2>2. PICK s \in todo : child' = {[subject |-> s, query |-> cur, pin |-> FALSE]}
                          /\ live' = live \cup {[subject |-> s, query |-> cur, pin |-> FALSE]}
    BY <1>4 DEF Fork
  <2> DEFINE w == [subject |-> s, query |-> cur, pin |-> FALSE]
  <2>3. w.query = cur /\ ~w.pin
    OBVIOUS
  <2>4. child' = {w} /\ live' = live \cup {w}
    BY <2>2
  <2> HIDE DEF w
  <2> QED BY <2>1, <2>3, <2>4, <1>t, <1>v
<1>5. ASSUME EnterTry PROVE VictimInv'
  BY <1>5, <1>t DEF EnterTry, Goto, hist, web
<1>6. ASSUME Attach PROVE VictimInv'
  <2>1. /\ pc = "attach" /\ pc' = "wait"
        /\ UNCHANGED <<doc, ended, cur, term, orphaned>>
        /\ child' = {WithPin(v) : v \in child}
        /\ live' = (live \ child) \cup {WithPin(v) : v \in child \cap live}
    BY <1>6 DEF Attach, Goto, hist, web
  <2>2. \A v \in child' : v.query = cur
    <3> SUFFICES ASSUME NEW u \in child PROVE WithPin(u).query = cur
      BY <2>1
    <3> QED BY <1>t, WithPinFields
  <2>3. \A v \in live' : v \in child' \/ (v \in live /\ v \notin child)
    BY <2>1
  <2>4. cur \notin ended /\ doc[cur] # TaintTimedOut
    BY <2>1, StatusesDiffer DEF LineInv, StatusInv, StatusAt
  <2> HIDE DEF WithPin
  <2>5. \A v \in live' : v \in child' \/ (v \in live /\ v.query # cur)
    BY <2>1, <2>3
  <2> QED BY <2>1, <2>2, <2>4, <2>5, <1>t, <1>v
<1>7. ASSUME WaitPid \/ LeaveTry PROVE VictimInv'
  <2>1. CASE WaitPid
    BY <2>1, <1>t DEF WaitPid, Goto, web, hist
  <2>2. CASE LeaveTry
    BY <2>2, <1>t DEF LeaveTry, Goto, web, hist
  <2> QED BY <1>7, <2>1, <2>2
<1>8. ASSUME AlarmCaught \/ AlarmInVictim PROVE VictimInv'
  <2>1. /\ pc \notin {"idle"} \cup Handlers /\ child' = {} /\ term \subseteq term'
        /\ UNCHANGED <<doc, ended, cur, live>>
    BY <1>8 DEF AlarmCaught, AlarmInVictim, AlarmRings, web
  <2>2. pc # "reaped"
    BY <1>8 DEF AlarmCaught, AlarmInVictim, CatchTimeout, ReachTry
  <2>3. pc' \in Handlers /\ (pc' = "timeout_reach" => pc \in ReachTry)
    BY <1>8 DEF AlarmCaught, AlarmInVictim, CatchTimeout, TaintTry
  <2>4. pc \in {"attach", "wait"} => term' = term \cup child
    BY <1>8 DEF AlarmCaught, AlarmInVictim
  <2>5. ~orphaned' => ~orphaned /\ child \cap live = {}
    BY <1>8 DEF AlarmCaught, AlarmInVictim
  <2>6. \A v \in live : v.query = cur /\ v.pin => v \in term'
    <3> SUFFICES ASSUME NEW v \in live, v.query = cur, v.pin PROVE v \in term'
      OBVIOUS
    <3>1. v \in child
      BY <2>1
    <3>2. pc \in {"attach", "wait"}
      BY <2>2, <3>1
    <3> QED BY <2>4, <3>1, <3>2
  <2>7. pc' = "timeout_reach" => \A v \in live : v.query # cur
    BY <2>1, <2>3 DEF ReachTry
  <2> QED BY <2>1, <2>3, <2>5, <2>6, <2>7, <1>t, <1>v
<1>9. ASSUME Close \/ TimeoutReach \/ TimeoutTaint \/ AlarmUncaught \/ Fail \/ HorseDies
      PROVE VictimInv'
  <2>1. /\ pc # "idle" /\ pc' = "idle" /\ cur' = NoQuery /\ ended' = ended \cup {cur}
        /\ child' = {} /\ orphaned' = (orphaned \/ child \cap live # {})
        /\ UNCHANGED <<live, term>>
        /\ \/ doc' = doc
           \/ pc = "timeout_reach" /\ doc' = [doc EXCEPT ![cur] = ReachTimedOut]
           \/ pc = "timeout_taint" /\ doc' = [doc EXCEPT ![cur] = TaintTimedOut]
    BY <1>9 DEF Close, TimeoutReach, TimeoutTaint, HandleTimeout, AlarmUncaught,
       AlarmRings, Fail, HorseDies, EndJob, web, update_status
  <2>2. doc[cur] = Finished => pc = "close"
    BY <2>1, StatusesDiffer DEF StatusInv, StatusAt
  <2>3. \A v \in live : v.query = cur => doc'[cur] # Finished
    BY <2>1, <2>2, <1>t, StatusesDiffer
  <2>4. \A v \in live : v.query # cur => v.query \in ended' /\ doc'[v.query] = doc[v.query]
    BY <2>1, <1>t, <1>v
  <2>5. doc'[cur] = TaintTimedOut => pc = "timeout_taint"
    BY <2>1, <1>t, StatusesDiffer DEF StatusInv, StatusAt
  <2>6. TimedOutVictimsSignalled'
    BY <2>1, <2>4, <2>5
  <2> QED BY <2>1, <2>3, <2>4, <2>6, <1>t, <1>v
<1>10. ASSUME NEW v \in live, VictimExits(v) PROVE VictimInv'
  BY <1>10 DEF VictimExits, web, hist
<1>11. ASSUME \/ PostEnqueue \/ PostLost \/ ProducerStep \/ UNCHANGED vars
              \/ \E v \in live : \E o \in Objects : VictimInserts(v, o)
       PROVE VictimInv'
  <2>1. UNCHANGED <<doc, ended, pc, cur, child, live, term, orphaned>>
    BY <1>11 DEF PostEnqueue, PostLost, ProducerStep, Delivered, GivenUp, VictimInserts, web,
       hist, vars
  <2> QED BY <2>1
<1> QED BY <1>1, <1>2, <1>3, <1>4, <1>5, <1>6, <1>7, <1>8, <1>9, <1>10, <1>11
        DEF Next, WebStep, WorkerStep, Alarm, VictimStep

(* The invariant of the victims holds in every reachable state.             *)
THEOREM VictimsCorrect == Spec => []VictimInv
<1>1. Init => VictimInv
  BY DEF Init, VictimInv, TimedOutVictimsSignalled, Handlers
<1> QED BY <1>1, VictimsStep, TypeCorrect, LineCorrect, PTL DEF Spec

(* TimedOutVictimsSignalled: a query reported as timed out during its taint *)
(* analysis leaves no pin tool running that create_victim did not signal.   *)
THEOREM TimedOutSignalled == Spec => []TimedOutVictimsSignalled
BY VictimsCorrect, PTL DEF VictimInv

(* A victim is forked alive, and ends only in VictimExits.                  *)
LEMMA HeldStep == TypeOK /\ HeldInv /\ [Next]_vars => HeldInv'
<1> SUFFICES ASSUME TypeOK, HeldInv, [Next]_vars PROVE HeldInv'
  OBVIOUS
<1>t. child \subseteq Victim /\ live \subseteq Victim /\ gone \in [Queries -> SUBSET Subjects]
  BY DEF TypeOK
<1>v. \A v \in Victim : v.query \in Queries /\ v.subject \in Subjects
  BY DEF Victim
<1>1. ASSUME child' \subseteq child, UNCHANGED <<live, gone>> PROVE HeldInv'
  BY <1>1 DEF HeldInv
<1>2. ASSUME \/ WebStep \/ Dequeue \/ ProducerStep \/ UNCHANGED vars
             \/ \E v \in live, o \in Objects : VictimInserts(v, o)
             \/ HandleStart \/ Connect \/ Reachability \/ LeaveReachTry \/ HandlePrepare
             \/ proc_index \/ get_subjects_to_taint \/ ResetOverlay \/ HandleReplay
             \/ EnterTry \/ WaitPid \/ LoopDone \/ SelectOverlay \/ publish
             \/ LeaveTaintTry \/ HandleFinished
      PROVE  HeldInv'
  <2>1. UNCHANGED <<child, live, gone>>
    BY <1>2 DEF WebStep, PostInsert, PostEnqueue, PostLost, Dequeue, ProducerStep, Delivered,
       GivenUp, VictimInserts, HandleStart, Connect, Reachability, LeaveReachTry,
       HandlePrepare, proc_index, get_subjects_to_taint, ResetOverlay, HandleReplay,
       EnterTry, WaitPid, LoopDone, SelectOverlay, publish, LeaveTaintTry, HandleFinished,
       SetStatus, hist, vars
  <2> QED BY <1>1, <2>1
<1>3. ASSUME LeaveTry \/ Close \/ TimeoutReach \/ TimeoutTaint \/ Alarm \/ Fail \/ HorseDies
      PROVE  HeldInv'
  <2>1. child' = {}
    BY <1>3 DEF LeaveTry, Close, TimeoutReach, TimeoutTaint, HandleTimeout, Alarm, AlarmCaught,
       AlarmInVictim, AlarmUncaught, Fail, HorseDies, EndJob
  <2> QED BY <2>1 DEF HeldInv
<1>4. ASSUME Fork PROVE HeldInv'
  <2>1. child' \subseteq live'
    BY <1>4 DEF Fork
  <2> QED BY <2>1 DEF HeldInv
<1>5. ASSUME Attach PROVE HeldInv'
  <2>1. /\ child' = {WithPin(v) : v \in child} /\ gone' = gone
        /\ live' = (live \ child) \cup {WithPin(v) : v \in child \cap live}
    BY <1>5 DEF Attach, hist
  <2>2. ASSUME NEW v \in child PROVE WithPin(v) \in live' \/ v.subject \in gone[v.query]
    BY <2>1 DEF HeldInv
  <2>3. ASSUME NEW w \in child' PROVE w \in live' \/ w.subject \in gone'[w.query]
    <3>1. PICK v \in child : w = WithPin(v)
      BY <2>1, <2>3
    <3>2. v \in Victim
      BY <1>t
    <3>3. w.query = v.query /\ w.subject = v.subject
      BY <3>1, <3>2, WithPinFields
    <3>4. w \in live' \/ v.subject \in gone[v.query]
      BY <2>2, <3>1
    <3> QED BY <2>1, <3>3, <3>4
  <2> QED BY <2>3 DEF HeldInv
<1>6. ASSUME NEW v \in live, VictimExits(v) PROVE HeldInv'
  <2>1. /\ child' = child /\ live' = live \ {v}
        /\ gone' = [gone EXCEPT ![v.query] = @ \cup {v.subject}]
    BY <1>6 DEF VictimExits
  <2>2. v.subject \in gone'[v.query]
    BY <2>1, <1>t, <1>v
  <2>3. \A q \in Queries : gone[q] \subseteq gone'[q]
    BY <2>1, <1>t
  <2> QED BY <2>1, <2>2, <2>3, <1>t, <1>v DEF HeldInv
<1> QED BY <1>2, <1>3, <1>4, <1>5, <1>6 DEF Next, WorkerStep, VictimStep

(* Every step keeps the account of what is still to be replayed.            *)
LEMMA ReplayStep ==
    TypeOK /\ StatusInv /\ VictimInv /\ HeldInv /\ ReplayInv /\ [Next]_vars => ReplayInv'
<1> SUFFICES ASSUME TypeOK, StatusInv, VictimInv, HeldInv, ReplayInv, [Next]_vars
             PROVE  ReplayInv'
  OBVIOUS
<1>t. /\ doc \in [Queries -> Status \cup {Absent}]
      /\ pc \in PC
      /\ cur \in IF pc = "idle" THEN {NoQuery} ELSE Queries
      /\ subgraph \in [Queries -> SUBSET Subjects]
      /\ gone \in [Queries -> SUBSET Subjects]
      /\ child \subseteq Victim
  BY DEF TypeOK
<1> DEFINE InHand == {v.subject : v \in child}
           Covered(U) == \A s \in Reach[cur] : ProcName[s] \in Logged =>
                            \E t \in U : ProcName[t] = ProcName[s]
<1>p. /\ Searched = {"reached", "prep", "index", "subjects", "reset", "replay", "loop",
                     "forked", "attach", "wait", "reaped", "overlay", "publish", "finish",
                     "close"}
      /\ Selected = {"reset", "replay", "loop", "forked", "attach", "wait", "reaped",
                     "overlay", "publish", "finish", "close"}
  BY DEF Searched, Selected, TaintTry
<1>i. /\ pc \in Searched => subgraph[cur] = Reach[cur]
      /\ pc \in Searched \ {"reached", "prep", "index"} => recIndex = Logged
      /\ pc \in Selected => Covered(todo \cup InHand \cup gone[cur])
      /\ pc \in {"overlay", "publish", "finish", "close"} => todo = {}
      /\ FinishedAwaited
  BY DEF ReplayInv
<1>g. ASSUME pc' \in Searched => subgraph'[cur'] = Reach[cur'],
             pc' \in Searched \ {"reached", "prep", "index"} => recIndex' = Logged,
             pc' \in Selected => Covered(todo \cup InHand \cup gone[cur])',
             pc' \in {"overlay", "publish", "finish", "close"} => todo' = {},
             FinishedAwaited'
      PROVE  ReplayInv'
  BY <1>g DEF ReplayInv
<1> HIDE DEF InHand, Covered
<1>1. ASSUME pc' \notin Searched, gone' = gone,
             \A q \in Queries : doc'[q] # doc[q] => doc'[q] # Finished
      PROVE  ReplayInv'
  <2>1. FinishedAwaited'
    BY <1>1, <1>i DEF FinishedAwaited
  <2> QED BY <1>1, <1>g, <1>p, <2>1
<1>2. ASSUME \/ \E q \in Queries : PostInsert(q)
             \/ PostEnqueue \/ PostLost
             \/ ProducerStep \/ VictimStep \/ UNCHANGED vars
      PROVE  ReplayInv'
  <2>1. /\ UNCHANGED <<pc, cur, subgraph, recIndex, todo, child>>
        /\ \A q \in Queries : doc'[q] # doc[q] => doc'[q] = InQueue
    BY <1>2, <1>t DEF PostInsert, insert, PostEnqueue, PostLost, ProducerStep, Delivered,
       GivenUp, VictimStep, VictimExits, VictimInserts, web, tables, hist, vars
  <2>2. \A q \in Queries : gone[q] \subseteq gone'[q]
    <3>1. \/ gone' = gone
          \/ \E v \in live : gone' = [gone EXCEPT ![v.query] = @ \cup {v.subject}]
      BY <1>2 DEF PostInsert, PostEnqueue, PostLost, ProducerStep, Delivered, GivenUp,
         VictimStep, VictimExits, VictimInserts, hist, vars
    <3> QED BY <3>1, <1>t
  <2>3. FinishedAwaited'
    BY <2>1, <2>2, <1>i, StatusesDiffer DEF FinishedAwaited
  <2>4. pc \in Selected => cur \in Queries
    BY <1>t, <1>p
  <2>5. pc' \in Selected => Covered(todo \cup InHand \cup gone[cur])'
    BY <2>1, <2>2, <2>4, <1>i DEF Covered, InHand
  <2> QED BY <2>1, <2>3, <2>5, <1>g, <1>i
<1>3. ASSUME \/ Dequeue \/ HandleStart \/ Connect
             \/ Close \/ TimeoutReach \/ TimeoutTaint \/ AlarmCaught \/ AlarmInVictim
             \/ AlarmUncaught \/ Fail \/ HorseDies
      PROVE  ReplayInv'
  <2>1. pc' \in {"start", "connect", "reach", "idle", "timeout_reach", "timeout_taint"}
    BY <1>3 DEF Dequeue, HandleStart, SetStatus, Connect, Goto, Close, TimeoutReach,
       TimeoutTaint, HandleTimeout, AlarmCaught, AlarmInVictim, CatchTimeout, AlarmUncaught,
       Fail, HorseDies, EndJob
  <2>2. gone' = gone
    BY <1>3 DEF Dequeue, HandleStart, SetStatus, Connect, Close, TimeoutReach,
       TimeoutTaint, HandleTimeout, AlarmCaught, AlarmInVictim, AlarmUncaught, Fail,
       HorseDies, hist
  <2>3. \A q \in Queries : doc'[q] # doc[q] =>
           doc'[q] \in {ReachAnalysis, ReachTimedOut, TaintTimedOut}
    BY <1>3, <1>t DEF Dequeue, HandleStart, SetStatus, Connect, Close, TimeoutReach,
       TimeoutTaint, HandleTimeout, AlarmCaught, AlarmInVictim, AlarmUncaught, Fail,
       HorseDies, update_status, web
  <2> QED BY <1>1, <2>1, <2>2, <2>3, <1>p, StatusesDiffer
<1>4. ASSUME Reachability PROVE ReplayInv'
  <2>1. /\ pc' = "reached" /\ subgraph'[cur'] = Reach[cur'] /\ UNCHANGED <<doc, gone>>
    BY <1>4, <1>t DEF Reachability, Goto, web, hist
  <2>2. FinishedAwaited'
    BY <2>1, <1>i DEF FinishedAwaited
  <2> QED BY <2>1, <2>2, <1>g, <1>p
<1>5. ASSUME LeaveReachTry \/ HandlePrepare PROVE ReplayInv'
  <2>1. /\ pc \in Searched /\ pc' \in {"prep", "index"}
        /\ UNCHANGED <<cur, subgraph, gone>>
        /\ \A q \in Queries : doc'[q] # doc[q] => doc'[q] = Preparing
    BY <1>5, <1>t, <1>p DEF LeaveReachTry, HandlePrepare, SetStatus, Goto, update_status, web,
       tables, hist
  <2>2. FinishedAwaited'
    BY <2>1, <1>i, StatusesDiffer DEF FinishedAwaited
  <2> QED BY <2>1, <2>2, <1>g, <1>i, <1>p
<1>6. ASSUME proc_index PROVE ReplayInv'
  <2>1. /\ pc = "index" /\ pc' = "subjects" /\ recIndex' = Logged
        /\ UNCHANGED <<doc, cur, subgraph, gone>>
    BY <1>6 DEF proc_index, Goto, web, hist
  <2>2. FinishedAwaited'
    BY <2>1, <1>i DEF FinishedAwaited
  <2> QED BY <2>1, <2>2, <1>g, <1>i, <1>p
<1>7. ASSUME get_subjects_to_taint PROVE ReplayInv'
  <2>1. /\ pc = "subjects" /\ pc' = "reset" /\ cur \in Queries
        /\ UNCHANGED <<doc, cur, subgraph, recIndex, gone>>
    BY <1>7, <1>t DEF get_subjects_to_taint, Goto, web, tables, hist
  <2>2. PICK T \in Representatives(TaintRows) : todo' = {s \in T : ProcName[s] \in recIndex}
    BY <1>7 DEF get_subjects_to_taint
  <2>3. Reach[cur] \subseteq TaintRows
    BY <2>1, <1>i, <1>p DEF TaintRows
  <2>4. \A s \in TaintRows : \E t \in T : ProcName[s] = ProcName[t]
    BY <2>2 DEF Representatives
  <2>5. Covered(todo \cup InHand \cup gone[cur])'
    BY <2>1, <2>2, <2>3, <2>4, <1>i, <1>p DEF Covered
  <2>6. FinishedAwaited'
    BY <2>1, <1>i DEF FinishedAwaited
  <2> QED BY <2>1, <2>5, <2>6, <1>g, <1>i, <1>p
<1>8. ASSUME \/ ResetOverlay \/ HandleReplay \/ EnterTry \/ LoopDone \/ SelectOverlay
             \/ publish \/ LeaveTaintTry \/ WaitPid
      PROVE  ReplayInv'
  <2>1. /\ pc \in Selected /\ pc' \in Selected
        /\ pc' \in {"overlay", "publish", "finish", "close"} => todo = {}
        /\ UNCHANGED <<cur, subgraph, recIndex, todo, child, gone>>
    BY <1>8, <1>i, <1>p DEF ResetOverlay, HandleReplay, SetStatus, EnterTry, LoopDone, SelectOverlay,
       publish, LeaveTaintTry, WaitPid, Goto, web, tables, hist
  <2>2. \A q \in Queries : doc'[q] # doc[q] => doc'[q] = Replaying
    BY <1>8, <1>t DEF ResetOverlay, HandleReplay, SetStatus, EnterTry, LoopDone, SelectOverlay,
       publish, LeaveTaintTry, WaitPid, update_status, web
  <2>3. FinishedAwaited'
    BY <2>1, <2>2, <1>i, StatusesDiffer DEF FinishedAwaited
  <2>4. Covered(todo \cup InHand \cup gone[cur])'
    BY <2>1, <1>i DEF Covered, InHand
  <2> QED BY <2>1, <2>3, <2>4, <1>g, <1>i, <1>p
<1>9. ASSUME Fork PROVE ReplayInv'
  <2>1. /\ pc = "loop" /\ pc' = "forked"
        /\ UNCHANGED <<doc, cur, subgraph, recIndex, gone>>
    BY <1>9 DEF Fork, Goto, web, tables, hist
  <2>2. PICK s \in todo : /\ todo' = todo \ {s}
                          /\ child' = {[subject |-> s, query |-> cur, pin |-> FALSE]}
    BY <1>9 DEF Fork
  <2>3. InHand' = {s}
    BY <2>2 DEF InHand
  <2>4. InHand = {}
    BY <2>1 DEF InHand, VictimInv, InVictim
  <2>5. todo \cup InHand \cup gone[cur] \subseteq todo' \cup InHand' \cup gone'[cur']
    BY <2>1, <2>2, <2>3, <2>4
  <2>6. Covered(todo \cup InHand \cup gone[cur])'
    BY <2>1, <2>5, <1>i, <1>p DEF Covered
  <2>7. FinishedAwaited'
    BY <2>1, <1>i DEF FinishedAwaited
  <2> QED BY <2>1, <2>6, <2>7, <1>g, <1>i, <1>p
<1>10. ASSUME Attach PROVE ReplayInv'
  <2>1. /\ pc = "attach" /\ pc' = "wait" /\ child' = {WithPin(v) : v \in child}
        /\ UNCHANGED <<doc, cur, subgraph, recIndex, todo, gone>>
    BY <1>10 DEF Attach, Goto, web, tables, hist
  <2>2. InHand' = InHand
    <3>1. InHand' = {WithPin(v).subject : v \in child}
      BY <2>1 DEF InHand
    <3>2. \A v \in child : WithPin(v).subject = v.subject
      BY <1>t, WithPinFields
    <3> QED BY <3>1, <3>2 DEF InHand
  <2>3. Covered(todo \cup InHand \cup gone[cur])'
    BY <2>1, <2>2, <1>i, <1>p DEF Covered
  <2>4. FinishedAwaited'
    BY <2>1, <1>i DEF FinishedAwaited
  <2> QED BY <2>1, <2>3, <2>4, <1>g, <1>i, <1>p
<1>11. ASSUME LeaveTry PROVE ReplayInv'
  <2>1. /\ pc = "reaped" /\ pc' = "loop" /\ child' = {}
        /\ UNCHANGED <<doc, cur, subgraph, recIndex, todo, gone>>
    BY <1>11 DEF LeaveTry, Goto, web, tables, hist
  <2>2. todo \cup InHand \cup gone[cur] \subseteq todo' \cup InHand' \cup gone'[cur']
    <3>1. \A v \in child : v.query = cur /\ v \notin live
      BY <2>1 DEF VictimInv
    <3> QED BY <2>1, <3>1 DEF HeldInv, InHand
  <2>3. Covered(todo \cup InHand \cup gone[cur])'
    BY <2>1, <2>2, <1>i, <1>p DEF Covered
  <2>4. FinishedAwaited'
    BY <2>1, <1>i DEF FinishedAwaited
  <2> QED BY <2>1, <2>3, <2>4, <1>g, <1>i, <1>p
<1>12. ASSUME HandleFinished PROVE ReplayInv'
  <2>1. /\ pc = "finish" /\ pc' = "close" /\ cur \in Queries
        /\ doc' = [doc EXCEPT ![cur] = Finished]
        /\ UNCHANGED <<cur, subgraph, recIndex, todo, child, gone>>
    BY <1>12, <1>t DEF HandleFinished, SetStatus, update_status, Goto, tables, hist
  <2>2. todo = {} /\ InHand = {} /\ InHand' = {}
    BY <2>1, <1>i DEF InHand, VictimInv, InVictim
  <2>3. Covered(gone[cur])
    BY <2>1, <2>2, <1>i, <1>p
  <2>4. Covered(todo \cup InHand \cup gone[cur])'
    BY <2>1, <2>3 DEF Covered
  <2>5. FinishedAwaited'
    BY <2>1, <2>3, <1>i, <1>t DEF FinishedAwaited, Covered
  <2> QED BY <2>1, <2>2, <2>4, <2>5, <1>g, <1>i, <1>p
<1> QED BY <1>2, <1>3, <1>4, <1>5, <1>6, <1>7, <1>8, <1>9, <1>10, <1>11, <1>12
        DEF Next, WebStep, WorkerStep, Alarm

(* FinishedAwaited: "Finished." means that every subject of the query's    *)
(* subgraph with a recorded log had a victim started for it that has ended,  *)
(* whether or not its replay succeeded.                                     *)
THEOREM FinishedMeansAwaited == Spec => []FinishedAwaited
<1>1. Init => ReplayInv
  BY StatusesDiffer DEF Init, ReplayInv, FinishedAwaited, Searched, Selected, TaintTry
<1>2. Init => HeldInv
  BY DEF Init, HeldInv
<1>3. Spec => []ReplayInv
  BY <1>1, <1>2, HeldStep, ReplayStep, TypeCorrect, LineCorrect, VictimsCorrect, PTL DEF Spec
<1> QED BY <1>3, PTL DEF ReplayInv

(* Every step keeps the account of the rows of each query.                  *)
LEMMA RowStep ==
    /\ TypeOK /\ LineInv /\ StatusInv /\ VictimInv /\ RowInv /\ [Next]_vars
    => RowInv'
<1> SUFFICES ASSUME TypeOK, LineInv, StatusInv, VictimInv, RowInv, [Next]_vars PROVE RowInv'
  OBVIOUS
<1>t. /\ doc \in [Queries -> Status \cup {Absent}]
      /\ queue \in Seq(Queries)
      /\ ended \subseteq Queries
      /\ pc \in PC
      /\ cur \in IF pc = "idle" THEN {NoQuery} ELSE Queries
      /\ live \subseteq Victim
      /\ published \in [Queries -> SUBSET Row]
      /\ overlay \subseteq Row /\ inserted \subseteq Row /\ unsent \subseteq Row
      /\ records \subseteq Row /\ buffer \subseteq Row
      /\ NoQuery \notin Queries
  BY QueryServiceAssumption DEF TypeOK
<1>v. (\A v \in Victim : v.query \in Queries) /\ (\A r \in Row : r.qid \in Queries)
  BY DEF Victim, Row
<1> USE DEF BeforeLoop, InLoop, InVictim, AfterLoop
<1>1. ASSUME \/ \E q \in Queries : PostInsert(q)
             \/ PostEnqueue \/ PostLost \/ UNCHANGED vars
             \/ \E v \in live : VictimExits(v)
      PROVE  RowInv'
  <2>1. /\ UNCHANGED <<pc, cur, ended, overlay, inserted, published, unsent, records, buffer>>
        /\ \A q \in Queries : doc'[q] # doc[q] => doc'[q] = InQueue
    BY <1>1, <1>t DEF PostInsert, insert, PostEnqueue, PostLost, VictimExits, web, tables,
       hist, output, vars
  <2> QED BY <2>1, StatusesDiffer DEF RowInv, Untouched, FinishedPublished
<1>2. ASSUME Dequeue PROVE RowInv'
  <2>1. /\ queue # <<>> /\ cur' = Head(queue) /\ pc = "idle" /\ pc' = "start"
        /\ UNCHANGED <<doc, ended, overlay, inserted, published, unsent, records, buffer>>
    BY <1>2 DEF Dequeue, Goto, tables, hist, output
  <2>2. cur' = queue[1] /\ 1 \in DOMAIN queue /\ queue[1] \in Queries
    BY <2>1, <1>t
  <2>3. cur' \notin ended /\ cur = NoQuery
    BY <2>1, <2>2, <1>t DEF LineInv
  <2>4. Untouched(cur)'
    BY <2>1, <2>2, <2>3, <1>t DEF RowInv, Untouched
  <2>5. \A q \in Queries : q \notin ended => Untouched(q)'
    BY <2>1, <2>3, <1>t DEF RowInv, Untouched
  <2> QED BY <2>1, <2>4, <2>5 DEF RowInv, Untouched, FinishedPublished
<1>3. ASSUME \/ HandleStart \/ Connect \/ Reachability \/ LeaveReachTry \/ HandlePrepare
             \/ proc_index \/ get_subjects_to_taint \/ ResetOverlay \/ HandleReplay
      PROVE  RowInv'
  <2>1. /\ pc \in BeforeLoop /\ pc' \in BeforeLoop \cup {"loop"} /\ cur \in Queries
        /\ overlay' \subseteq overlay
        /\ UNCHANGED <<cur, ended, inserted, published, unsent, records, buffer>>
    BY <1>3, <1>t DEF HandleStart, Connect, Reachability, LeaveReachTry, HandlePrepare,
       proc_index, get_subjects_to_taint, ResetOverlay, reset_tag_overlay, HandleReplay,
       SetStatus, Goto, tables, hist, output
  <2>2. \A q \in Queries : doc'[q] # doc[q] => doc'[q] \in {ReachAnalysis, Preparing, Replaying}
    BY <1>3, <1>t DEF HandleStart, Connect, Reachability, LeaveReachTry, HandlePrepare,
       proc_index, get_subjects_to_taint, ResetOverlay, HandleReplay, SetStatus,
       update_status, web
  <2>3. Untouched(cur) /\ \A q \in Queries : Untouched(q)' = Untouched(q)
    BY <2>1 DEF RowInv, Untouched
  <2>4. FinishedPublished'
    BY <2>1, <2>2, StatusesDiffer DEF RowInv, FinishedPublished
  <2>5. \A r \in inserted \cup unsent : r.qid # cur
    BY <2>3 DEF Untouched
  <2> QED BY <2>1, <2>3, <2>4, <2>5 DEF RowInv, Untouched
<1>4. ASSUME Fork \/ EnterTry \/ Attach \/ WaitPid \/ LeaveTry \/ LoopDone PROVE RowInv'
  <2>1. /\ pc \in InLoop /\ pc' \in InLoop
        /\ UNCHANGED <<doc, cur, ended, overlay, inserted, published, unsent, records, buffer>>
    BY <1>4 DEF Fork, EnterTry, Attach, WaitPid, LeaveTry, LoopDone, Goto, web, tables, hist,
       output
  <2> QED BY <2>1 DEF RowInv, Untouched, FinishedPublished
<1>5. ASSUME SelectOverlay PROVE RowInv'
  <2>1. /\ pc = "overlay" /\ pc' = "publish" /\ records' = {r \in overlay : r.qid = cur}
        /\ UNCHANGED <<doc, cur, ended, overlay, inserted, published, unsent, buffer>>
    BY <1>5 DEF SelectOverlay, get_overlay, Goto, web, tables, hist
  <2>2. /\ published[cur] = {} /\ {r \in unsent : r.qid = cur} = {} /\ buffer = {}
        /\ {r \in inserted : r.qid = cur} = {r \in overlay : r.qid = cur}
    BY <2>1 DEF RowInv
  <2> QED BY <2>1, <2>2 DEF RowInv, Untouched, FinishedPublished
<1>6. ASSUME publish \/ LeaveTaintTry PROVE RowInv'
  <2>1. /\ pc = "publish" /\ pc' \in {"publish", "finish"}
        /\ pc' = "finish" => records' = {} /\ buffer' = {}
        /\ records' \cup buffer' = records \cup buffer
        /\ UNCHANGED <<doc, cur, ended, overlay, inserted, published, unsent>>
    BY <1>6 DEF publish, LeaveTaintTry, Goto, web, tables, hist, output
  <2> QED BY <2>1 DEF RowInv, Untouched, FinishedPublished
<1>7. ASSUME HandleFinished PROVE RowInv'
  <2>1. /\ pc = "finish" /\ pc' = "close" /\ cur \in Queries
        /\ doc' = [doc EXCEPT ![cur] = Finished]
        /\ UNCHANGED <<cur, ended, overlay, inserted, published, unsent, records, buffer>>
    BY <1>7, <1>t DEF HandleFinished, SetStatus, update_status, Goto, tables, hist, output
  <2>2. {r \in inserted : r.qid = cur} = published[cur] \cup {r \in unsent : r.qid = cur}
    BY <2>1 DEF RowInv
  <2>3. FinishedPublished'
    BY <2>1, <2>2, <1>t DEF RowInv, FinishedPublished
  <2> QED BY <2>1, <2>3 DEF RowInv, Untouched
<1>8. ASSUME Close \/ TimeoutReach \/ TimeoutTaint \/ AlarmUncaught \/ Fail \/ HorseDies
      PROVE RowInv'
  <2>1. /\ pc' = "idle" /\ cur' = NoQuery /\ ended' = ended \cup {cur}
        /\ records' = {} /\ buffer' = {}
        /\ UNCHANGED <<overlay, inserted, published, unsent>>
    BY <1>8 DEF Close, TimeoutReach, TimeoutTaint, HandleTimeout, AlarmUncaught, Fail,
       HorseDies, EndJob, tables
  <2>2. \A q \in Queries : doc'[q] # doc[q] => doc'[q] \in {ReachTimedOut, TaintTimedOut}
    BY <1>8, <1>t DEF Close, TimeoutReach, TimeoutTaint, HandleTimeout, AlarmUncaught, Fail,
       HorseDies, web, update_status
  <2>3. FinishedPublished'
    BY <2>1, <2>2, StatusesDiffer DEF RowInv, FinishedPublished
  <2> QED BY <2>1, <2>3, <1>t DEF RowInv, Untouched
<1>9. ASSUME AlarmCaught \/ AlarmInVictim PROVE RowInv'
  <2>1. /\ pc # "idle"
        /\ UNCHANGED <<doc, cur, ended, overlay, inserted, published, unsent, records, buffer>>
    BY <1>9 DEF AlarmCaught, AlarmInVictim, AlarmRings, web, tables, output
  <2>2. pc' \in Handlers /\ (pc' = "timeout_reach" => pc \in ReachTry)
    BY <1>9 DEF AlarmCaught, AlarmInVictim, CatchTimeout, TaintTry, Handlers
  <2> QED BY <2>1, <2>2 DEF RowInv, Untouched, FinishedPublished, Handlers, ReachTry
<1>10. ASSUME NEW v \in live, NEW o \in Objects, VictimInserts(v, o) PROVE RowInv'
  <2> DEFINE r == [uuid |-> o, qid |-> v.query]
  <2>1. /\ \/ overlay' = overlay \cup {r} /\ inserted' = inserted \cup {r}
           \/ overlay' = overlay /\ inserted' = inserted
        /\ UNCHANGED <<doc, pc, cur, ended, published, unsent, records, buffer>>
    BY <1>10 DEF VictimInserts, web, output
  <2>2. r.qid = v.query /\ v.query \in Queries
    BY <1>t, <1>v
  <2> HIDE DEF r
  <2>3. v.query \in ended \cup {cur}
    BY DEF VictimInv
  <2>4. v.query = cur => pc \in InVictim \cup {"timeout_taint"}
    BY <2>2, <1>t DEF VictimInv
  <2>5. doc[v.query] # Finished
    BY <2>2, <2>4, <1>t, StatusesDiffer DEF VictimInv, StatusInv, StatusAt
  <2>6. overlay' \subseteq inserted'
    BY <2>1 DEF RowInv
  <2>7. \A q \in Queries : q # v.query => Untouched(q)' = Untouched(q)
    BY <2>1, <2>2 DEF Untouched
  <2>8. pc # "idle" => {x \in inserted' : x.qid = cur} \subseteq overlay'
    BY <2>1 DEF RowInv
  <2>9. \A q \in Queries : q # v.query =>
           {x \in inserted' : x.qid = q} = {x \in inserted : x.qid = q}
    BY <2>1, <2>2
  <2>10. FinishedPublished'
    BY <2>1, <2>5, <2>9 DEF RowInv, FinishedPublished
  <2>11. pc \in AfterLoop => {x \in inserted' : x.qid = cur} = {x \in inserted : x.qid = cur}
    BY <2>4, <2>9, <1>t
  <2>12. pc \in BeforeLoop => Untouched(cur)'
    BY <2>1, <2>4, <2>7, <1>t DEF RowInv, Untouched
  <2>13. \A q \in Queries : q \notin ended \cup {cur} => Untouched(q)'
    BY <2>3, <2>7 DEF RowInv
  <2> QED BY <2>1, <2>6, <2>8, <2>10, <2>11, <2>12, <2>13 DEF RowInv
<1>11. ASSUME NEW r \in buffer, Delivered(r) \/ GivenUp(r) PROVE RowInv'
  <2>1. /\ buffer' = buffer \ {r}
        /\ UNCHANGED <<doc, pc, cur, ended, overlay, inserted, records>>
        /\ \/ published' = [published EXCEPT ![cur] = @ \cup {r}] /\ unsent' = unsent
           \/ published' = published /\ unsent' = unsent \cup {r}
    BY <1>11 DEF Delivered, GivenUp, web, tables, hist
  <2>2. pc \in {"publish", "timeout_taint"} /\ r.qid = cur /\ cur \in Queries
    BY <1>t DEF RowInv
  <2>3. doc[cur] # Finished
    BY <2>2, StatusesDiffer DEF StatusInv, StatusAt
  <2>4. \A q \in Queries : q # cur =>
           published'[q] = published[q] /\ {x \in unsent' : x.qid = q} = {x \in unsent : x.qid = q}
    BY <2>1, <2>2, <1>t
  <2>5. published'[cur] \cup {x \in unsent' : x.qid = cur}
           = {r} \cup published[cur] \cup {x \in unsent : x.qid = cur}
    BY <2>1, <2>2, <1>t
  <2>6. FinishedPublished'
    BY <2>1, <2>3, <2>4 DEF RowInv, FinishedPublished
  <2>7. \A q \in Queries : q # cur /\ Untouched(q) => Untouched(q)'
    BY <2>1, <2>2, <2>4 DEF Untouched
  <2>8. records' \cup buffer' \cup published'[cur] \cup {x \in unsent' : x.qid = cur}
           = records \cup buffer \cup published[cur] \cup {x \in unsent : x.qid = cur}
    BY <2>1, <2>5
  <2> QED BY <2>1, <2>2, <2>6, <2>7, <2>8 DEF RowInv
<1> QED BY <1>1, <1>2, <1>3, <1>4, <1>5, <1>6, <1>7, <1>8, <1>9, <1>10, <1>11
        DEF Next, WebStep, WorkerStep, Alarm, ProducerStep, VictimStep

(* FinishedPublished: a finished query has published every row its replays  *)
(* inserted, but for what the producer gave up.                             *)
THEOREM FinishedMeansPublished == Spec => []FinishedPublished
<1>1. Init => RowInv
  BY StatusesDiffer DEF Init, RowInv, Untouched, FinishedPublished, BeforeLoop, InLoop,
     InVictim, AfterLoop
<1>2. Spec => []RowInv
  BY <1>1, RowStep, TypeCorrect, LineCorrect, VictimsCorrect, PTL DEF Spec
<1> QED BY <1>2, PTL DEF RowInv

(* Every step keeps the table free of other queries' rows, or has left a    *)
(* victim behind.                                                           *)
LEMMA KeyStep == TypeOK /\ VictimInv /\ KeyInv /\ [Next]_vars => KeyInv'
<1> SUFFICES ASSUME TypeOK, VictimInv, KeyInv, [Next]_vars PROVE KeyInv'
  OBVIOUS
<1> DEFINE Holding == {"replay"} \cup InLoop \cup AfterLoop
<1> USE DEF KeyInv, LostRowNeedsOrphan, InLoop, InVictim, AfterLoop
<1>1. ASSUME NEW v \in live, NEW o \in Objects, VictimInserts(v, o) PROVE KeyInv'
  <2> DEFINE r == [uuid |-> o, qid |-> v.query]
  <2>1. UNCHANGED <<pc, cur, orphaned>>
    BY <1>1 DEF VictimInserts
  <2>2. CASE orphaned
    BY <2>1, <2>2
  <2>3. CASE ~orphaned
    <3>1. v.query = cur /\ pc \in InVictim
      BY <2>3 DEF VictimInv
    <3>2. \A x \in overlay : x.uuid = o => x = r
      BY <2>3, <3>1 DEF TypeOK, Row
    <3>3. overlay' \subseteq overlay \cup {r} /\ dropped' = dropped
      BY <1>1, <3>2 DEF VictimInserts
    <3> QED BY <2>1, <2>3, <3>1, <3>3
  <2> QED BY <2>2, <2>3
<1>2. ASSUME ResetOverlay PROVE KeyInv'
  BY <1>2 DEF ResetOverlay, reset_tag_overlay, hist
<1>3. ASSUME /\ UNCHANGED <<overlay, dropped>> /\ (~orphaned' => ~orphaned)
             /\ pc' \in Holding => pc \in Holding /\ cur' = cur
      PROVE  KeyInv'
  BY <1>3
<1>4. ASSUME \/ \E q \in Queries : PostInsert(q)
             \/ PostEnqueue \/ PostLost \/ ProducerStep \/ UNCHANGED vars
             \/ \E v \in live : VictimExits(v)
             \/ HandleReplay \/ Fork \/ EnterTry \/ Attach \/ WaitPid \/ LeaveTry
             \/ LoopDone \/ SelectOverlay \/ publish \/ LeaveTaintTry \/ HandleFinished
      PROVE  KeyInv'
  <2>1. /\ UNCHANGED <<overlay, dropped, orphaned>>
        /\ pc' \in Holding => pc \in Holding /\ cur' = cur
    BY <1>4 DEF PostInsert, PostEnqueue, PostLost, ProducerStep, Delivered, GivenUp,
       VictimExits, HandleReplay, SetStatus, Fork, EnterTry, Attach, WaitPid, LeaveTry,
       LoopDone, SelectOverlay, publish, LeaveTaintTry, HandleFinished, Goto, tables, hist,
       vars
  <2> QED BY <1>3, <2>1
<1>5. ASSUME \/ Dequeue \/ HandleStart \/ Connect \/ Reachability \/ LeaveReachTry
             \/ HandlePrepare \/ proc_index \/ get_subjects_to_taint
             \/ Close \/ TimeoutReach \/ TimeoutTaint \/ AlarmCaught \/ AlarmInVictim
             \/ AlarmUncaught \/ Fail \/ HorseDies
      PROVE  KeyInv'
  <2>1. UNCHANGED <<overlay, dropped>>
    BY <1>5 DEF Dequeue, HandleStart, SetStatus, Connect, Reachability, LeaveReachTry,
       HandlePrepare, proc_index, get_subjects_to_taint, Close, TimeoutReach, TimeoutTaint,
       HandleTimeout, AlarmCaught, AlarmInVictim, AlarmUncaught, Fail, HorseDies, tables, hist
  <2>2. ~orphaned' => ~orphaned
    BY <1>5 DEF Dequeue, HandleStart, SetStatus, Connect, Reachability, LeaveReachTry,
       HandlePrepare, proc_index, get_subjects_to_taint, Close, TimeoutReach, TimeoutTaint,
       HandleTimeout, AlarmCaught, AlarmInVictim, AlarmUncaught, Fail, HorseDies, EndJob, hist
  <2>3. pc' \notin Holding
    BY <1>5 DEF Dequeue, HandleStart, SetStatus, Connect, Reachability, LeaveReachTry,
       HandlePrepare, proc_index, get_subjects_to_taint, Close, TimeoutReach, TimeoutTaint,
       HandleTimeout, AlarmCaught, AlarmInVictim, CatchTimeout, AlarmUncaught, Fail,
       HorseDies, EndJob, Goto
  <2> QED BY <1>3, <2>1, <2>2, <2>3
<1> QED BY <1>1, <1>2, <1>4, <1>5
        DEF Next, WebStep, WorkerStep, Alarm, VictimStep

(* LostRowNeedsOrphan: no row is lost to the primary key of tag_overlay     *)
(* unless a victim has outlived its job.                                    *)
THEOREM LostRowHasOrphan == Spec => []LostRowNeedsOrphan
<1>1. Init => KeyInv
  BY DEF Init, KeyInv, LostRowNeedsOrphan, InLoop, InVictim, AfterLoop
<1>2. Spec => []KeyInv
  BY <1>1, KeyStep, TypeCorrect, VictimsCorrect, PTL DEF Spec
<1> QED BY <1>2, PTL DEF KeyInv
=============================================================================
