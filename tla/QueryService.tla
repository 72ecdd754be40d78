---------------------------- MODULE QueryService ----------------------------
(***************************************************************************)
(* The query service of the replay server: the REST handler that accepts a *)
(* query (wsgi.py), the document store that holds its status               *)
(* (db_manager.py), the rq work queue, and the one rq worker that runs     *)
(* handle_query (queue_manager.py, analysis.py, replay_utils.py).          *)
(*                                                                         *)
(* Data is reduced to what the properties tell apart: a query to its id,   *)
(* the result of its reachability search to the subjects on its paths, a   *)
(* row of the tag overlay to the object it describes and the query whose   *)
(* replay wrote it.                                                        *)
(***************************************************************************)
EXTENDS Naturals, Sequences, FiniteSets

CONSTANTS
    Queries,      \* ids of the queries a client may post
    Subjects,     \* uuids of the recorded subjects
    Objects,      \* uuids of the objects a replayed subject can write
    ProcNames,    \* pid + executable name, the key of rec_index
    Reach,        \* subjects on the paths that the search of a query returns
    ProcName,     \* pid + path of a subject
    Logged,       \* the procnames that have a recorded log on disk
    NoQuery       \* no query

ASSUME QueryServiceAssumption ==
    /\ NoQuery \notin Queries
    /\ Reach \in [Queries -> SUBSET Subjects]
    /\ ProcName \in [Subjects -> ProcNames]
    /\ Logged \subseteq ProcNames

VARIABLES
    doc,        \* doc[q]: status field of the Mongo document of q
    req,        \* the query inserted by the POST in flight, not yet enqueued
    queue,      \* the redis list of the rq queue
    ended,      \* queries whose job has left the worker, for whatever reason
    pc,         \* where the work horse is in handle_query
    cur,        \* the query the work horse handles
    alarm,      \* the job's SIGALRM is still to come
    subgraph,   \* subgraph[q]: subjects of the committed subgraph rows of q
    recIndex,   \* procnames of table rec_index
    todo,       \* subjects with a logdir that the loop has still to replay
    records,    \* the rows that publish has still to hand to the producer
    buffer,     \* the rows in the producer, not yet on the topic
    child,      \* set holding the victim that create_victim waits for
    live,       \* the victims alive, each with its query
    term,       \* the victims that were sent SIGTERM
    overlay,    \* the rows of table tag_overlay
    published,  \* published[q]: rows published on the topic of q
    gone,       \* history: gone[q], subjects of which a victim forked for q has ended
    inserted,   \* history: every row a victim inserted
    dropped,    \* history: rows lost to the primary key of tag_overlay
    unsent,     \* history: rows the producer gave up on
    orphaned    \* history: some victim has outlived its job

web    == <<doc, req, queue>>
tables == <<subgraph, recIndex, overlay, published>>
output == <<records, buffer>>
hist   == <<gone, inserted, dropped, unsent, orphaned>>
vars   == <<doc, req, queue, ended, pc, cur, alarm, subgraph, recIndex,
            todo, records, buffer, child, live, term, overlay, published, gone,
            inserted, dropped, unsent, orphaned>>

-----------------------------------------------------------------------------
(* Values *)

Absent == "absent"                     \* no document with this _id

\* The status that the POST writes, and those of handle_query in program order. They are
\* not the options that the docstring of update_status lists ("inqueue, running,
\* finished."). prepare_replay would write the text of a ReplayError, but parse_ckpts
\* catches every one that is raised.
InQueue       == "inqueue"
ReachAnalysis == "Reachability Analysis"
ReachTimedOut == "timeout: reachability analysis"
Preparing     == "Preparing Replay"
Replaying     == "Replaying"
TaintTimedOut == "timeout: taint analysis"
Finished      == "Finished."

Status == {InQueue, ReachAnalysis, ReachTimedOut, Preparing, Replaying,
           TaintTimedOut, Finished}

\* Steps of handle_query, in program order.
Unguarded  == {"start", "connect", "finish", "close"}    \* in neither try block
ReachTry   == {"reach", "reached"}                       \* lines 31-32
TaintTry   == {"prep", "index", "subjects", "reset", "replay", "loop", "forked",
               "attach", "wait", "reaped", "overlay", "publish"}  \* lines 41-55
Handlers   == {"timeout_reach", "timeout_taint"}         \* the except clauses
PC         == {"idle"} \cup Unguarded \cup ReachTry \cup TaintTry \cup Handlers

Row    == [uuid : Objects, qid : Queries]
Victim == [subject : Subjects, query : Queries, pin : BOOLEAN]

-----------------------------------------------------------------------------
Init ==
    /\ doc = [q \in Queries |-> Absent]
    /\ req = NoQuery
    /\ queue = <<>>
    /\ ended = {}
    /\ pc = "idle"
    /\ cur = NoQuery
    /\ alarm = FALSE
    /\ subgraph = [q \in Queries |-> {}]
    /\ recIndex = {}
    /\ todo = {}
    /\ records = {} /\ buffer = {}
    /\ child = {}
    /\ live = {}
    /\ term = {}
    /\ overlay = {}
    /\ published = [q \in Queries |-> {}]
    /\ gone = [q \in Queries |-> {}]
    /\ inserted = {}
    /\ dropped = {}
    /\ unsent = {}
    /\ orphaned = FALSE

-----------------------------------------------------------------------------
(* REST requests. gunicorn runs one synchronous worker, so one request is  *)
(* served at a time; the rq worker is another process. GET reads, and       *)
(* DELETE answers "is canceled." and changes nothing: they take no step.    *)

\* Mutant of insert: save() instead of insert_one().
insert_Save(q) == doc' = [doc EXCEPT ![q] = InQueue]

\* Mutant of insert: the POST leaves the status to the schema's default.
insert_Default(q) ==
    /\ doc[q] = Absent
    /\ doc' = [doc EXCEPT ![q] = "Initialized."]

\* insert_one refuses a second document with the same _id.
insert(q) ==
    /\ doc[q] = Absent
    /\ doc' = [doc EXCEPT ![q] = InQueue]

\* Mutant of new_query: enqueue(..., at_front=True).
new_query_AtFront(q) == queue' = <<q>> \o queue

\* enqueue pushes the job at the end of the redis list.
new_query(q) == queue' = Append(queue, q)

\* POST, first half: the document is inserted with status "inqueue".
PostInsert(q) ==
    /\ req = NoQuery
    /\ insert(q)
    /\ req' = q
    /\ UNCHANGED <<queue, ended, pc, cur, alarm, todo, output, child, live, term,
                   tables, hist>>

\* POST, second half: the job is enqueued.
PostEnqueue ==
    /\ req # NoQuery
    /\ new_query(req)
    /\ req' = NoQuery
    /\ UNCHANGED <<doc, ended, pc, cur, alarm, todo, output, child, live, term,
                   tables, hist>>

\* The web worker dies, or redis refuses the job, between the two halves.
PostLost ==
    /\ req # NoQuery
    /\ req' = NoQuery
    /\ UNCHANGED <<doc, queue, ended, pc, cur, alarm, todo, output, child, live, term,
                   tables, hist>>

-----------------------------------------------------------------------------
(* The worker *)

\* update_status reads the document, sets the status and saves it; the query of
\* a missing document is None and has no status to set.
update_status(q, s) ==
    /\ doc[q] # Absent
    /\ doc' = [doc EXCEPT ![q] = s]

Goto(a, b) == pc = a /\ pc' = b

\* The job leaves the worker; a victim it still waited for is on its own.
EndJob ==
    /\ pc' = "idle"
    /\ cur' = NoQuery
    /\ alarm' = FALSE
    /\ ended' = ended \cup {cur}
    /\ todo' = {} /\ records' = {} /\ buffer' = {}
    /\ child' = {}
    /\ orphaned' = (orphaned \/ child \cap live # {})

\* rq pops the head of the list, forks the work horse and arms the alarm.
Dequeue ==
    /\ Goto("idle", "start")
    /\ queue # <<>>
    /\ cur' = Head(queue)
    /\ queue' = Tail(queue)
    /\ alarm' = TRUE
    /\ UNCHANGED <<doc, req, ended, todo, output, child, live, term, tables, hist>>

\* A step that only sets the status.
SetStatus(a, s, b) ==
    /\ Goto(a, b)
    /\ update_status(cur, s)
    /\ UNCHANGED <<req, queue, ended, cur, alarm, todo, output, child, live, term,
                   tables, hist>>

HandleStart    == SetStatus("start", ReachAnalysis, "connect")
HandlePrepare  == SetStatus("prep", Preparing, "index")
HandleReplay   == SetStatus("replay", Replaying, "loop")
HandleFinished == SetStatus("finish", Finished, "close")

\* Analysis(): the connections to neo4j, psql and kafka.
Connect ==
    /\ Goto("connect", "reach")
    /\ UNCHANGED <<web, ended, cur, alarm, todo, output, child, live, term, tables, hist>>

\* The search and the insertion of its subgraph, one psql transaction.
Reachability ==
    /\ Goto("reach", "reached")
    /\ subgraph' = [subgraph EXCEPT ![cur] = Reach[cur]]
    /\ UNCHANGED <<web, ended, cur, alarm, todo, output, child, live, term, recIndex, overlay,
                   published, hist>>

LeaveReachTry ==
    /\ Goto("reached", "prep")
    /\ UNCHANGED <<web, ended, cur, alarm, todo, output, child, live, term, tables, hist>>

\* proc_index empties rec_index and fills it from the logs on disk.
proc_index ==
    /\ Goto("index", "subjects")
    /\ recIndex' = Logged
    /\ UNCHANGED <<web, ended, cur, alarm, todo, output, child, live, term, subgraph, overlay,
                   published, hist>>

\* The rows joined from subject and subgraph: "subgraph.query_id = query_id"
\* compares the column with itself, so the rows of every query are returned.
TaintRows == UNION {subgraph[q] : q \in Queries}

\* One representative of each class of equal Subjects (same pid and path) is in
\* set(subjects); it gets a logdir when rec_index knows its procname.
Representatives(rows) ==
    {T \in SUBSET rows :
        /\ \A s, t \in T : ProcName[s] = ProcName[t] => s = t
        /\ \A s \in rows : \E t \in T : ProcName[s] = ProcName[t]}

get_subjects_to_taint ==
    /\ Goto("subjects", "reset")
    /\ \E T \in Representatives(TaintRows) :
          todo' = {s \in T : ProcName[s] \in recIndex}
    /\ UNCHANGED <<web, ended, cur, alarm, output, child, live, term, tables, hist>>

\* Mutant of reset_tag_overlay: CREATE TABLE IF NOT EXISTS.
reset_tag_overlay_Keep == overlay' = overlay

\* DROP TABLE and CREATE TABLE in one transaction.
reset_tag_overlay == overlay' = {}

ResetOverlay ==
    /\ Goto("reset", "replay")
    /\ reset_tag_overlay
    /\ UNCHANGED <<web, ended, cur, alarm, todo, output, child, live, term, subgraph, recIndex,
                   published, hist>>

\* Mutant of Fork: the overlay is reset before every victim.
Fork_Resets ==
    /\ Goto("loop", "forked")
    /\ \E s \in todo :
          LET v == [subject |-> s, query |-> cur, pin |-> FALSE]
          IN  /\ todo' = todo \ {s}
              /\ child' = {v}
              /\ live' = live \cup {v}
    /\ reset_tag_overlay
    /\ UNCHANGED <<web, ended, cur, alarm, output, term, subgraph, recIndex, published, hist>>

\* create_victim, up to the fork that precedes its try block.
Fork ==
    /\ Goto("loop", "forked")
    /\ \E s \in todo :
          LET v == [subject |-> s, query |-> cur, pin |-> FALSE]
          IN  /\ todo' = todo \ {s}
              /\ child' = {v}
              /\ live' = live \cup {v}
    /\ UNCHANGED <<web, ended, cur, alarm, output, term, tables, hist>>

\* The try block of create_victim begins: one second of sleep.
EnterTry ==
    /\ Goto("forked", "attach")
    /\ UNCHANGED <<web, ended, cur, alarm, todo, output, child, live, term, tables, hist>>

WithPin(v) == [v EXCEPT !.pin = TRUE]

\* attach starts pin on the victim; a victim already dead stays dead.
Attach ==
    /\ Goto("attach", "wait")
    /\ child' = {WithPin(v) : v \in child}
    /\ live' = (live \ child) \cup {WithPin(v) : v \in child \cap live}
    /\ UNCHANGED <<web, ended, cur, alarm, todo, output, term, tables, hist>>

\* Mutant of WaitPid: WNOHANG in place of the options 0.
WaitPid_NoHang ==
    /\ Goto("wait", "reaped")
    /\ UNCHANGED <<web, ended, cur, alarm, todo, output, child, live, term, tables, hist>>

\* waitpid returns when the victim is gone, however it ended: its exit status is only
\* printed.
WaitPid ==
    /\ Goto("wait", "reaped")
    /\ child \cap live = {}
    /\ UNCHANGED <<web, ended, cur, alarm, todo, output, child, live, term, tables, hist>>

\* create_victim returns and the loop goes on.
LeaveTry ==
    /\ Goto("reaped", "loop")
    /\ child' = {}
    /\ UNCHANGED <<web, ended, cur, alarm, todo, output, live, term, tables, hist>>

LoopDone ==
    /\ Goto("loop", "overlay")
    /\ todo = {}
    /\ UNCHANGED <<web, ended, cur, alarm, todo, output, child, live, term, tables, hist>>

\* get_overlay selects the rows of the query.
get_overlay(q) == {r \in overlay : r.qid = q}

SelectOverlay ==
    /\ Goto("overlay", "publish")
    /\ records' = get_overlay(cur)
    /\ UNCHANGED <<web, ended, cur, alarm, todo, buffer, child, live, term, tables, hist>>

\* publish hands the records one by one to the producer, which sends them to the
\* topic of the query on its own time.
publish ==
    /\ pc = "publish"
    /\ \E r \in records : records' = records \ {r} /\ buffer' = buffer \cup {r}
    /\ UNCHANGED <<web, ended, pc, cur, alarm, todo, child, live, term, tables, hist>>

\* Mutant of LeaveTaintTry: publish returns without the flush.
LeaveTaintTry_NoFlush ==
    /\ Goto("publish", "finish")
    /\ records = {}
    /\ UNCHANGED <<web, ended, cur, alarm, todo, output, child, live, term, tables, hist>>

\* flush waits until the producer has sent every record or given it up.
LeaveTaintTry ==
    /\ Goto("publish", "finish")
    /\ records = {} /\ buffer = {}
    /\ UNCHANGED <<web, ended, cur, alarm, todo, output, child, live, term, tables, hist>>

\* The connections are closed and handle_query returns.
Close ==
    /\ pc = "close"
    /\ EndJob
    /\ UNCHANGED <<web, live, term, tables, gone, inserted, dropped, unsent>>

\* The except clauses: the timeout becomes the status and handle_query returns.
HandleTimeout(a, s) ==
    /\ pc = a
    /\ update_status(cur, s)
    /\ EndJob
    /\ UNCHANGED <<req, queue, live, term, tables, gone, inserted, dropped, unsent>>

TimeoutReach == HandleTimeout("timeout_reach", ReachTimedOut)
TimeoutTaint == HandleTimeout("timeout_taint", TaintTimedOut)

-----------------------------------------------------------------------------
(* The job timeout: SIGALRM raises JobTimeoutException wherever the horse is *)

\* Where the exception leads from each step; "idle" is a job that fails. In the
\* window after waitpid the victim is gone and os.kill raises OSError instead.
CatchTimeout(a) ==
    IF a \in ReachTry THEN "timeout_reach"
    ELSE IF a \in TaintTry \ {"reaped"} THEN "timeout_taint"
    ELSE "idle"

AlarmRings ==
    /\ alarm
    /\ pc \notin {"idle"} \cup Handlers

AlarmCaught ==
    /\ AlarmRings
    /\ pc \notin {"attach", "wait"}
    /\ CatchTimeout(pc) # "idle"
    /\ pc' = CatchTimeout(pc)
    /\ alarm' = FALSE
    /\ child' = {}
    /\ orphaned' = (orphaned \/ child \cap live # {})
    /\ UNCHANGED <<web, ended, cur, todo, output, live, term, tables, gone,
                   inserted, dropped, unsent>>

\* Mutant of AlarmInVictim: the exception passes, the victim is not killed.
AlarmInVictim_NoKill ==
    /\ AlarmRings
    /\ pc \in {"attach", "wait"}
    /\ pc' = CatchTimeout(pc)
    /\ alarm' = FALSE
    /\ child' = {}
    /\ orphaned' = (orphaned \/ child \cap live # {})
    /\ UNCHANGED <<web, ended, cur, todo, output, live, term, tables, gone,
                   inserted, dropped, unsent>>

\* Mutant of AlarmInVictim: the victim is killed and waited for.
AlarmInVictim_Waits ==
    /\ AlarmRings
    /\ pc \in {"attach", "wait"}
    /\ pc' = "wait"
    /\ alarm' = FALSE
    /\ term' = term \cup child
    /\ UNCHANGED <<web, ended, cur, todo, output, child, live, tables, hist>>

\* The except clause of create_victim sends SIGTERM, which the victim need not
\* obey at once, and raises the exception again.
AlarmInVictim ==
    /\ AlarmRings
    /\ pc \in {"attach", "wait"}
    /\ pc' = CatchTimeout(pc)
    /\ alarm' = FALSE
    /\ term' = term \cup child
    /\ child' = {}
    /\ orphaned' = (orphaned \/ child \cap live # {})
    /\ UNCHANGED <<web, ended, cur, todo, output, live, tables, gone, inserted,
                   dropped, unsent>>

AlarmUncaught ==
    /\ AlarmRings
    /\ CatchTimeout(pc) = "idle"
    /\ EndJob
    /\ UNCHANGED <<web, live, term, tables, gone, inserted, dropped, unsent>>

Alarm == AlarmCaught \/ AlarmInVictim \/ AlarmUncaught

\* Any other exception (a database or pin out of reach) is not caught: rq moves
\* the job to its failed queue and the document keeps its last status. waitpid
\* and the return from it raise none.
Fail ==
    /\ pc \notin {"idle", "wait", "reaped"}
    /\ EndJob
    /\ UNCHANGED <<web, live, term, tables, gone, inserted, dropped, unsent>>

\* The work horse is killed; rq does not run the job again.
HorseDies ==
    /\ pc # "idle"
    /\ EndJob
    /\ UNCHANGED <<web, live, term, tables, gone, inserted, dropped, unsent>>

-----------------------------------------------------------------------------
(* The victims: replayed processes under pin *)

\* A tainted write of the replayed subject: one row per object. The key of the
\* table is the object alone, and the error of a second row is swallowed.
VictimInserts(v, o) ==
    LET r == [uuid |-> o, qid |-> v.query] IN
    /\ v.pin
    /\ IF \A x \in overlay : x.uuid # o
       THEN /\ overlay' = overlay \cup {r}
            /\ inserted' = inserted \cup {r}
            /\ dropped' = dropped
       ELSE /\ dropped' = IF r \in overlay THEN dropped ELSE dropped \cup {r}
            /\ UNCHANGED <<overlay, inserted>>
    /\ UNCHANGED <<web, ended, pc, cur, alarm, subgraph, recIndex, published,
                   todo, output, child, live, term, gone, unsent, orphaned>>

\* A victim ends, in one of many ways: its log is replayed, or breaks off, register_replay
\* or its exec raises in the child, with pin attached or before, or it obeys SIGTERM.
VictimExits(v) ==
    /\ live' = live \ {v}
    /\ gone' = [gone EXCEPT ![v.query] = @ \cup {v.subject}]
    /\ UNCHANGED <<web, ended, pc, cur, alarm, todo, output, child, term, tables, inserted,
                   dropped, unsent, orphaned>>

-----------------------------------------------------------------------------
(* The Kafka producer of the work horse, which runs beside it                 *)

Delivered(r) ==
    /\ buffer' = buffer \ {r}
    /\ published' = [published EXCEPT ![cur] = @ \cup {r}]
    /\ UNCHANGED <<web, ended, pc, cur, alarm, todo, records, child, live, term, subgraph,
                   recIndex, overlay, hist>>

\* A record that the brokers do not take is dropped. produce is given no callback,
\* so nobody is told.
GivenUp(r) ==
    /\ buffer' = buffer \ {r}
    /\ unsent' = unsent \cup {r}
    /\ UNCHANGED <<web, ended, pc, cur, alarm, todo, records, child, live, term, tables,
                   gone, inserted, dropped, orphaned>>

ProducerStep == \E r \in buffer : Delivered(r) \/ GivenUp(r)

-----------------------------------------------------------------------------
WorkerStep ==
    \/ HandleStart \/ Connect \/ Reachability \/ LeaveReachTry
    \/ HandlePrepare \/ proc_index \/ get_subjects_to_taint \/ ResetOverlay
    \/ HandleReplay \/ Fork \/ EnterTry \/ Attach \/ WaitPid \/ LeaveTry
    \/ LoopDone \/ SelectOverlay \/ publish \/ LeaveTaintTry \/ HandleFinished \/ Close
    \/ TimeoutReach \/ TimeoutTaint

WebStep ==
    \/ \E q \in Queries : PostInsert(q)
    \/ PostEnqueue \/ PostLost

VictimStep ==
    \E v \in live : VictimExits(v) \/ \E o \in Objects : VictimInserts(v, o)

Next == WebStep \/ Dequeue \/ WorkerStep \/ Alarm \/ Fail \/ HorseDies \/ ProducerStep \/ VictimStep

\* The worker is scheduled (supervisor restarts it) and the alarm was set; no
\* victim, no broker and no client need ever make a step.
Fairness == WF_vars(Dequeue) /\ WF_vars(WorkerStep) /\ WF_vars(Alarm)

Spec == Init /\ [][Next]_vars /\ Fairness

-----------------------------------------------------------------------------
(* Properties *)

\* Every part of the state has its type, and the work horse handles a query exactly
\* while it is not idle. A document never has the schema's default status, nor two of
\* the three that the docstring of update_status (db_manager.py:26) gives as options.
TypeOK ==
    /\ doc \in [Queries -> Status \cup {Absent}]
    /\ req \in Queries \cup {NoQuery}
    /\ queue \in Seq(Queries)
    /\ ended \subseteq Queries
    /\ pc \in PC
    /\ cur \in IF pc = "idle" THEN {NoQuery} ELSE Queries
    /\ alarm \in BOOLEAN
    /\ subgraph \in [Queries -> SUBSET Subjects]
    /\ recIndex \subseteq ProcNames
    /\ todo \subseteq Subjects
    /\ records \subseteq Row
    /\ buffer \subseteq Row
    /\ child \subseteq Victim
    /\ live \subseteq Victim
    /\ term \subseteq Victim
    /\ overlay \subseteq Row
    /\ published \in [Queries -> SUBSET Row]
    /\ gone \in [Queries -> SUBSET Subjects]
    /\ inserted \subseteq Row
    /\ dropped \subseteq Row
    /\ unsent \subseteq Row
    /\ orphaned \in BOOLEAN

\* How far a status is along handle_query; a timeout closes its phase.
Rank(s) ==
    CASE s = Absent -> 0
      [] s = InQueue -> 1
      [] s = ReachAnalysis -> 2
      [] s \in {ReachTimedOut, Preparing} -> 3
      [] s = Replaying -> 4
      [] s \in {TaintTimedOut, Finished} -> 5

\* A client that polls GET never sees a query go back: every write of the status
\* (POST in the web process, update_status in the work horse, its timeout
\* handlers) moves the query forward.
StatusMonotone ==
    [][\A q \in Queries : doc'[q] = doc[q] \/ Rank(doc'[q]) > Rank(doc[q])]_vars

\* "Finished." is only written once, for every subject of the query's own subgraph
\* whose process has a recorded log, a victim was started for this query and has ended
\* (of the subject, or of one with the same pid and path): no timeout, failure or crash,
\* and nothing another query left behind, makes a job report the end with a replay not
\* begun or still under way. It does not say that a replay succeeded: create_victim
\* takes a victim that failed for one that is done.
FinishedAwaited ==
    \A q \in Queries : doc[q] = Finished =>
        \A s \in Reach[q] : ProcName[s] \in Logged =>
            \E t \in gone[q] : ProcName[t] = ProcName[s]

\* A finished query has published every row its replays inserted in the overlay,
\* but for the records the producer gave up: the table is reset before the first
\* replay, never between two of them, is read only after the last victim is gone,
\* and what publish has handed over is sent before the query is reported finished.
FinishedPublished ==
    \A q \in Queries : doc[q] = Finished =>
        {r \in inserted : r.qid = q} = published[q] \cup {r \in unsent : r.qid = q}

\* A row is lost to the primary key of tag_overlay (the object alone, not the
\* object and the query) only after some victim has outlived its job: the reset
\* of each job removes the rows of the queries before it.
LostRowNeedsOrphan == dropped # {} => orphaned

\* A query reported as timed out during the taint analysis leaves no pin tool
\* running that was not told to stop.
TimedOutVictimsSignalled ==
    \A v \in live :
        v.pin /\ doc[v.query] = TaintTimedOut => v \in term

\* Every query that reaches the queue leaves the worker again, even if every
\* victim hangs: the alarm bounds the job.
QueuedJobsEnd == \A q \in Queries : (\E i \in DOMAIN queue : queue[i] = q) ~> q \in ended

-----------------------------------------------------------------------------
(* The service implements the line of jobs *)

StageOf(q) ==
    IF q \in ended THEN "served"
    ELSE IF cur = q THEN "serving"
    ELSE IF \E i \in DOMAIN queue : queue[i] = q THEN "waiting"
    ELSE IF doc[q] # Absent THEN "accepted"
    ELSE "new"

Line == INSTANCE JobLine WITH stage <- [q \in Queries |-> StageOf(q)], line <- queue

\* Queries are served in the order of their POSTs, one at a time and at most
\* once, across crashes of the web process and of the work horse.
ServesLine == Line!Spec

-----------------------------------------------------------------------------
(* What a comment says, and the code does not do *)

\* replay_utils.py: "Get subjects related to this query."
SubjectsOfQuery ==
    pc # "idle" => todo \subseteq Reach[cur]
=============================================================================
