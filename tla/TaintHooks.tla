----------------------------- MODULE TaintHooks -----------------------------
(***************************************************************************)
(* The system call hooks of the taint tool (dta_api64.cc) and the table     *)
(* they fill (theia_tag_overlay_insert of TheiaDB.cpp), through the replays *)
(* of the subjects of one query: a read from an inbound object gives its    *)
(* bytes the tag of the object, a write to an outbound object records the   *)
(* objects named by the tags of its bytes. Each replay is a process of its  *)
(* own; only the table outlives it.                                         *)
(*                                                                         *)
(* Four variables watch the tool and steer nothing: origin, the objects     *)
(* whose data is in each byte, held, those and the ones that were there     *)
(* before a read from an object that is not inbound, seen, the objects      *)
(* read, and last, the last write that was handled to its end.              *)
(***************************************************************************)
EXTENDS Naturals, FiniteSets

CONSTANTS
    Objects,     \* uuids of files and netflows
    None,        \* no subject, no write
    NoUuid,      \* the empty string, what a map answers for an unknown tag
    Subjects,    \* the subjects of the query
    Inbound,     \* what get_inbound_for_taint finds for each subject
    Outbound,    \* what get_outbound_for_taint finds for each subject
    Size,        \* bytes of memory
    TagMod,      \* number of values of unit_tag_t: 2^8, 2^16, 2^32 or 2^64
    Sinks,       \* the types of the writes: "EVENT_WRITE", "EVENT_SEND"
    DbFails,     \* whether statements of the database may fail
    MaxCalls     \* system calls and moves of the replayed programs

ASSUME TaintHooksAssumption ==
    /\ NoUuid \notin Objects
    /\ None \notin Subjects
    /\ Inbound \in [Subjects -> SUBSET Objects]
    /\ Outbound \in [Subjects -> SUBSET Objects]
    /\ Size \in Nat /\ MaxCalls \in Nat
    /\ TagMod \in Nat \ {0}
    /\ Sinks \subseteq {"EVENT_WRITE", "EVENT_SEND"}
    /\ DbFails \in BOOLEAN

VARIABLES
    replayed,            \* subjects whose replay has begun
    subject,             \* subject_uuid_global of the process
    state,               \* the process runs, has ended, or is broken by its own tool
    inbound, outbound,   \* the uuid arrays of the process
    tags,                \* tag_dir: tags of each byte
    uuid_to_tag,         \* map from objects to tags
    tag_to_tag_uuid,     \* map from tags to objects
    tag_counter,         \* next tag
    tag_counter_global,  \* next tag uuid
    overlay,             \* the table tag_overlay, whose primary key is uuid
    sink,                \* the write hook in progress
    calls,               \* system calls and moves made
    origin, held, seen, last   \* observers

process == <<subject, state, inbound, outbound>>
maps    == <<uuid_to_tag, tag_to_tag_uuid, tag_counter>>
vars    == <<replayed, process, tags, maps, tag_counter_global, overlay, sink, calls,
             origin, held, seen, last>>

Addr == 0 .. Size - 1
running == state = "running"

Put(f, k, v) == [x \in DOMAIN f \cup {k} |-> IF x = k THEN v ELSE f[x]]

\* The object that tag t stands for.
Name(t)  == IF t \in DOMAIN tag_to_tag_uuid THEN tag_to_tag_uuid[t] ELSE NoUuid
Names(T) == {Name(t) : t \in T}

\* More objects were read than there are tags, so that some share one.
Wrapped == Cardinality(DOMAIN uuid_to_tag) > TagMod

Init ==
    /\ replayed = {}
    /\ subject = None /\ state = "ended"
    /\ inbound = {} /\ outbound = {}
    /\ tags = [b \in Addr |-> {}]
    /\ uuid_to_tag = <<>> /\ tag_to_tag_uuid = <<>> /\ tag_counter = 0
    /\ tag_counter_global = 0
    /\ overlay = <<>>
    /\ sink = None
    /\ calls = 0
    /\ origin = [b \in Addr |-> {}]
    /\ held = origin
    /\ seen = {}
    /\ last = None

-----------------------------------------------------------------------------
(* The process *)

\* Mutant of Start: the shadow memory of the process before is kept.
Start_KeepsTags(s, known) ==
    /\ ~running
    /\ s \in Subjects \ replayed
    /\ known \in IF DbFails THEN BOOLEAN ELSE {TRUE}
    /\ replayed' = replayed \cup {s}
    /\ subject' = s /\ state' = "running"
    /\ inbound' = IF known THEN Inbound[s] ELSE {}
    /\ outbound' = Outbound[s]
    /\ uuid_to_tag' = <<>> /\ tag_to_tag_uuid' = <<>> /\ tag_counter' = 0
    /\ tag_counter_global' = 0
    /\ UNCHANGED <<tags, origin, held, overlay, sink, calls, seen, last>>

\* main: the tool is attached to the next victim. A lookup that fails answers -1,
\* and the loops over the array find nothing. The tag counter is never passed.
Start(s, known) ==
    /\ ~running
    /\ s \in Subjects \ replayed
    /\ known \in IF DbFails THEN BOOLEAN ELSE {TRUE}
    /\ replayed' = replayed \cup {s}
    /\ subject' = s /\ state' = "running"
    /\ inbound' = IF known THEN Inbound[s] ELSE {}
    /\ outbound' = Outbound[s]
    /\ tags' = [b \in Addr |-> {}]
    /\ origin' = [b \in Addr |-> {}]
    /\ held' = [b \in Addr |-> {}]
    /\ uuid_to_tag' = <<>> /\ tag_to_tag_uuid' = <<>> /\ tag_counter' = 0
    /\ tag_counter_global' = 0
    /\ UNCHANGED <<overlay, sink, calls, seen, last>>

\* The victim ends between two calls, or is killed in the middle of one.
Exit ==
    /\ running
    /\ state' = "ended"
    /\ sink' = None
    /\ UNCHANGED <<replayed, subject, inbound, outbound, tags, maps, tag_counter_global,
                   overlay, calls, origin, held, seen, last>>

Call == running /\ sink = None /\ calls < MaxCalls /\ calls' = calls + 1

\* The program copies a byte or computes with one (Propagation has the instructions).
Move(d, s) ==
    /\ Call
    /\ tags' = [tags EXCEPT ![d] = tags[s]]
    /\ origin' = [origin EXCEPT ![d] = origin[s]]
    /\ held' = [held EXCEPT ![d] = held[s]]
    /\ UNCHANGED <<replayed, process, maps, tag_counter_global, overlay, sink, seen, last>>

Combine(d, s) ==
    /\ Call
    /\ tags' = [tags EXCEPT ![d] = @ \cup tags[s]]
    /\ origin' = [origin EXCEPT ![d] = @ \cup origin[s]]
    /\ held' = [held EXCEPT ![d] = @ \cup held[s]]
    /\ UNCHANGED <<replayed, process, maps, tag_counter_global, overlay, sink, seen, last>>

-----------------------------------------------------------------------------
(* Reads *)

\* Mutant of NewTag: the counter is not advanced.
NewTag_SameCounter(o) ==
    /\ uuid_to_tag' = Put(uuid_to_tag, o, tag_counter)
    /\ tag_to_tag_uuid' = Put(tag_to_tag_uuid, tag_counter, o)
    /\ tag_counter' = tag_counter
    /\ tag_counter_global' = tag_counter_global + 1

\* Mutant of NewTag: the counter never wraps.
NewTag_NoWrap(o) ==
    /\ uuid_to_tag' = Put(uuid_to_tag, o, tag_counter)
    /\ tag_to_tag_uuid' = Put(tag_to_tag_uuid, tag_counter, o)
    /\ tag_counter' = tag_counter + 1
    /\ tag_counter_global' = tag_counter_global + 1

\* The first read of an object takes the next tag and the next tag uuid.
NewTag(o) ==
    /\ uuid_to_tag' = Put(uuid_to_tag, o, tag_counter)
    /\ tag_to_tag_uuid' = Put(tag_to_tag_uuid, tag_counter, o)
    /\ tag_counter' = (tag_counter + 1) % TagMod
    /\ tag_counter_global' = tag_counter_global + 1

\* post_read_hook and post_recvfrom_hook: n > 0 bytes of o were read to a.
post_read_hook(o, a, n) ==
    /\ Call
    /\ a + n <= Size
    /\ origin' = [b \in Addr |-> IF b \in a .. a + n - 1 THEN {o} \cap inbound ELSE origin[b]]
    /\ IF o \in inbound
       THEN /\ IF o \in DOMAIN uuid_to_tag THEN UNCHANGED <<maps, tag_counter_global>>
                                           ELSE NewTag(o)
            /\ tags' = [b \in Addr |-> IF b \in a .. a + n - 1 THEN {uuid_to_tag'[o]} ELSE tags[b]]
            /\ held' = [b \in Addr |-> IF b \in a .. a + n - 1 THEN {o} ELSE held[b]]
            /\ seen' = seen \cup {o}
       ELSE UNCHANGED <<maps, tag_counter_global, tags, held, seen>>
    /\ UNCHANGED <<replayed, process, overlay, sink, last>>

-----------------------------------------------------------------------------
(* Writes *)

\* post_write_hook and post_sendto_hook: n > 0 bytes from a were written to o.
post_write_hook(o, type, a, n) ==
    /\ Call
    /\ a + n <= Size
    /\ o \in outbound
    /\ sink' = [uuid |-> o, type |-> type, at |-> a, end |-> a + n, origins |-> {}, flow |-> {}]
    /\ last' = None
    /\ UNCHANGED <<replayed, process, tags, maps, tag_counter_global, overlay, origin, held, seen>>

\* Mutant of theia_tag_overlay_insert: a row that exists is left alone.
theia_tag_overlay_insert_Once(uuid, type, origins, tag_uuid) ==
    IF uuid \notin DOMAIN overlay
    THEN Put(overlay, uuid, [type |-> type, origins |-> origins,
                             tag_uuid |-> tag_uuid, subject |-> subject])
    ELSE overlay

\* The row is looked up by uuid and query, and updated by uuid, type and query.
theia_tag_overlay_insert(uuid, type, origins, tag_uuid) ==
    IF uuid \notin DOMAIN overlay
    THEN Put(overlay, uuid, [type |-> type, origins |-> origins,
                             tag_uuid |-> tag_uuid, subject |-> subject])
    ELSE IF overlay[uuid].type = type
    THEN [overlay EXCEPT ![uuid].origins = origins]
    ELSE overlay

\* One byte of the loop. The origins add up over the bytes; a statement that fails
\* is logged and forgotten; pack_uuids of an empty set erases a character before
\* the string, which throws, is survived without a row, or kills the process.
SinkByte ==
    LET origins == sink.origins \cup Names(tags[sink.at])
        flow    == sink.flow \cup origin[sink.at]
        done(ok) ==
            IF sink.at + 1 < sink.end
            THEN /\ sink' = [sink EXCEPT !.at = @ + 1, !.origins = origins, !.flow = flow]
                 /\ last' = last
            ELSE /\ sink' = None
                 /\ last' = [uuid |-> sink.uuid, type |-> sink.type, flow |-> flow,
                             ok |-> ok /\ ~Wrapped]
    IN
    /\ running /\ sink # None
    /\ tag_counter_global' = tag_counter_global + 1
    /\ \/ /\ origins # {}
          /\ overlay' = theia_tag_overlay_insert(sink.uuid, sink.type, origins, tag_counter_global)
          /\ state' = state
          /\ done(TRUE)
       \/ /\ DbFails
          /\ overlay' = overlay
          /\ state' = state
          /\ done(FALSE)
       \/ /\ origins = {}
          /\ overlay' = overlay
          /\ \/ state' = state /\ done(TRUE)
             \/ state' = "broken" /\ sink' = None /\ last' = last
    /\ UNCHANGED <<replayed, subject, inbound, outbound, tags, maps, calls, origin, held, seen>>

Next ==
    \/ \E s \in Subjects, known \in BOOLEAN : Start(s, known)
    \/ Exit
    \/ \E d, s \in Addr : Move(d, s) \/ Combine(d, s)
    \/ \E o \in Objects, a \in Addr, n \in 1 .. Size :
          \/ post_read_hook(o, a, n)
          \/ \E type \in Sinks : post_write_hook(o, type, a, n)
    \/ SinkByte

Spec == Init /\ [][Next]_vars

-----------------------------------------------------------------------------
(* Properties *)

Uuid == Objects \cup {NoUuid}
Row  == [type : Sinks, origins : SUBSET Uuid, tag_uuid : Nat, subject : Subjects]

\* Every part of the state has its type; the tags are values of unit_tag_t, whatever
\* the number of inbound objects.
TypeOK ==
    /\ replayed \subseteq Subjects
    /\ subject \in Subjects \cup {None}
    /\ state \in {"running", "ended", "broken"}
    /\ inbound \subseteq Objects /\ outbound \subseteq Objects
    /\ tags \in [Addr -> SUBSET (0 .. TagMod - 1)]
    /\ DOMAIN uuid_to_tag \subseteq Objects
    /\ \A o \in DOMAIN uuid_to_tag : uuid_to_tag[o] \in 0 .. TagMod - 1
    /\ DOMAIN tag_to_tag_uuid \subseteq 0 .. TagMod - 1
    /\ \A t \in DOMAIN tag_to_tag_uuid : tag_to_tag_uuid[t] \in Objects
    /\ tag_counter \in 0 .. TagMod - 1
    /\ tag_counter_global \in Nat
    /\ DOMAIN overlay \subseteq Objects
    /\ \A o \in DOMAIN overlay : overlay[o] \in Row
    /\ sink # None => sink.at \in Addr /\ sink.end \in sink.at + 1 .. Size
    /\ calls \in 0 .. MaxCalls
    /\ origin \in [Addr -> SUBSET Objects]
    /\ held \in [Addr -> SUBSET Objects]
    /\ seen \subseteq Objects

\* No origin is lost: the tags of a byte name every inbound object whose data the
\* program moved into it, across reads of any object in any order, until there are
\* more objects than tags.
NoLostOrigin == Wrapped \/ \A b \in Addr : origin[b] \subseteq Names(tags[b])

\* What the table says was read: every origin of a row is an inbound object that
\* some replay of the query read before, never the name of an unknown tag.
OriginsWereRead == \A o \in DOMAIN overlay : overlay[o].origins \subseteq seen

\* What was written is in the table: when the hook has handled a write to its end
\* and the database took the last statement, the row of the object has all the
\* origins of the bytes written, unless it is of another type: then the UPDATE,
\* which asks for the type, finds no row.
SinkRecorded ==
    last # None /\ last.ok /\ last.flow # {} =>
        /\ last.uuid \in DOMAIN overlay
        /\ overlay[last.uuid].type = last.type => last.flow \subseteq overlay[last.uuid].origins

\* No origin is invented: whatever tags are given out anew, moved and combined, a
\* byte names only objects whose data is in it, or was until a read from an object
\* that is not inbound, which post_read_hook lets pass, overwrote it.
NoStaleOrigin == Wrapped \/ \A b \in Addr : Names(tags[b]) \subseteq held[b]
=============================================================================
