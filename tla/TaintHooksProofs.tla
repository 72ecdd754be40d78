-------------------------- MODULE TaintHooksProofs --------------------------
(***************************************************************************)
(* Proofs about TaintHooks for all subjects, objects, tags, sizes of memory   *)
(* and sequences of calls, statements of the database that fail included.     *)
(*                                                                           *)
(* None of the properties is inductive. That a byte names what it holds needs *)
(* the two maps to be inverse to each other, which needs the counter to be    *)
(* the number of objects read and every tag given out to be below it; that a  *)
(* row has the origins of a write needs what the hook has gathered so far to  *)
(* cover the bytes it has passed.                                            *)
(***************************************************************************)
EXTENDS TaintHooks, Integers, FiniteSetTheorems, TLAPS

-----------------------------------------------------------------------------
(* The inductive invariant. The maps: every tag given out has a name, the     *)
(* name was read, and until the counter wraps the tags below it are the ones  *)
(* given out and the two maps are inverse to each other.                      *)
MapInv ==
    LET n == Cardinality(DOMAIN uuid_to_tag) IN
    /\ IsFiniteSet(DOMAIN uuid_to_tag) /\ DOMAIN uuid_to_tag \subseteq Objects
    /\ \A o \in DOMAIN uuid_to_tag : uuid_to_tag[o] \in DOMAIN tag_to_tag_uuid
    /\ DOMAIN tag_to_tag_uuid \subseteq 0 .. TagMod - 1
    /\ \A t \in DOMAIN tag_to_tag_uuid : tag_to_tag_uuid[t] \in seen
    /\ tag_counter \in 0 .. TagMod - 1
    /\ ~Wrapped => /\ tag_counter = IF n = TagMod THEN 0 ELSE n
                   /\ \A o \in DOMAIN uuid_to_tag : tag_to_tag_uuid[uuid_to_tag[o]] = o
                   /\ \A t \in DOMAIN tag_to_tag_uuid : t < n

(* The bytes: every tag of a byte was given out, some tag of a byte names an  *)
(* object whose data is in it, and every tag names one that is held.          *)
ByteInv ==
    /\ tags \in [Addr -> SUBSET DOMAIN tag_to_tag_uuid]
    /\ origin \in [Addr -> SUBSET Objects] /\ held \in [Addr -> SUBSET Objects]
    /\ ~Wrapped => \A b \in Addr :
          /\ \A o \in origin[b] : \E t \in tags[b] : tag_to_tag_uuid[t] = o
          /\ \A t \in tags[b] : tag_to_tag_uuid[t] \in held[b]

(* The write hook in progress: the origins it has gathered were read, and are *)
(* at least those of the bytes it has passed; no finished write is watched.   *)
SinkInv ==
    sink # None =>
        /\ running /\ last = None
        /\ sink \in [uuid : Objects, type : Sinks, at : Nat, end : Nat,
                     origins : SUBSET seen, flow : SUBSET Objects]
        /\ sink.at < sink.end /\ sink.end <= Size
        /\ Wrapped \/ sink.flow \subseteq sink.origins

(* The table, and the rest of the process.                                    *)
RowInv ==
    /\ DOMAIN overlay \subseteq Objects
    /\ \A o \in DOMAIN overlay : overlay[o] \in Row
    /\ OriginsWereRead /\ SinkRecorded

ProcessInv ==
    /\ replayed \subseteq Subjects /\ subject \in Subjects \cup {None}
    /\ state \in {"running", "ended", "broken"} /\ (running => subject \in Subjects)
    /\ inbound \subseteq Objects /\ outbound \subseteq Objects
    /\ tag_counter_global \in Nat /\ calls \in 0 .. MaxCalls /\ seen \subseteq Objects

HooksInv == MapInv /\ ByteInv /\ SinkInv /\ RowInv /\ ProcessInv

-----------------------------------------------------------------------------
(* Remainders by the number of tags.                                          *)
LEMMA Mod ==
    ASSUME NEW x \in Nat, NEW M \in Nat \ {0}
    PROVE  x % M \in 0 .. M - 1 /\ (x < M => x % M = x) /\ M % M = 0
<1>1. M \in Nat /\ M > 0
  OBVIOUS
<1>2. x % M \in Nat /\ x % M < M
  BY <1>1
<1>3. x = M * (x \div M) + (x % M) /\ x \div M \in Int
  BY <1>1
<1>4. ASSUME x < M PROVE x % M = x
  BY <1>1, <1>4
<1>5. M % M = 0
  BY <1>1
<1> QED BY <1>1, <1>2, <1>4, <1>5

(* Whether tags are shared depends on the maps alone.                         *)
LEMMA WrappedSame ==
    ASSUME UNCHANGED uuid_to_tag PROVE Wrapped' <=> Wrapped
BY DEF Wrapped

(* A step that leaves the maps alone.                                         *)
LEMMA MapsSame ==
    ASSUME MapInv, UNCHANGED <<uuid_to_tag, tag_to_tag_uuid, tag_counter>>, seen \subseteq seen'
    PROVE  MapInv'
BY WrappedSame DEF MapInv

(* A step that leaves the table, the objects read and the last write alone.   *)
LEMMA RowsSame ==
    ASSUME RowInv, UNCHANGED <<overlay, last>>, seen \subseteq seen'
    PROVE  RowInv'
<1>1. /\ DOMAIN overlay' \subseteq Objects /\ \A o \in DOMAIN overlay' : overlay'[o] \in Row
      /\ OriginsWereRead'
  BY DEF RowInv, OriginsWereRead
<1>2. SinkRecorded'
  BY DEF RowInv, SinkRecorded
<1> QED BY <1>1, <1>2 DEF RowInv

(* The empty maps of a new process.                                           *)
LEMMA MapsEmpty ==
    ASSUME uuid_to_tag = <<>>, tag_to_tag_uuid = <<>>, tag_counter = 0 PROVE MapInv /\ ~Wrapped
<1>1. DOMAIN uuid_to_tag = {} /\ DOMAIN tag_to_tag_uuid = {}
  OBVIOUS
<1>2. IsFiniteSet(DOMAIN uuid_to_tag) /\ Cardinality(DOMAIN uuid_to_tag) = 0
  BY <1>1, FS_EmptySet
<1>3. TagMod \in Nat \ {0} /\ 0 \in 0 .. TagMod - 1
  BY TaintHooksAssumption
<1> QED BY <1>1, <1>2, <1>3 DEF MapInv, Wrapped

-----------------------------------------------------------------------------
(* A replay begins with a process of its own: only the table stays.           *)
LEMMA StartStep ==
    ASSUME HooksInv, NEW s \in Subjects, NEW known \in BOOLEAN, Start(s, known)
    PROVE  HooksInv'
<1>1. /\ ~running /\ subject' = s /\ state' = "running" /\ replayed' = replayed \cup {s}
      /\ inbound' = (IF known THEN Inbound[s] ELSE {}) /\ outbound' = Outbound[s]
      /\ tags' = [b \in Addr |-> {}] /\ origin' = [b \in Addr |-> {}] /\ held' = [b \in Addr |-> {}]
      /\ uuid_to_tag' = <<>> /\ tag_to_tag_uuid' = <<>> /\ tag_counter' = 0
      /\ tag_counter_global' = 0 /\ UNCHANGED <<overlay, sink, calls, seen, last>>
  BY DEF Start
<1>2. MapInv'
  <2>1. DOMAIN uuid_to_tag' = {} /\ DOMAIN tag_to_tag_uuid' = {}
    BY <1>1
  <2>2. IsFiniteSet(DOMAIN uuid_to_tag') /\ Cardinality(DOMAIN uuid_to_tag') = 0
    BY <2>1, FS_EmptySet
  <2>3. TagMod \in Nat \ {0} /\ 0 \in 0 .. TagMod - 1
    BY TaintHooksAssumption
  <2> QED BY <1>1, <2>1, <2>2, <2>3 DEF MapInv
<1>3. ByteInv'
  BY <1>1 DEF ByteInv
<1>4. SinkInv'
  BY <1>1 DEF HooksInv, SinkInv
<1>5. RowInv'
  BY <1>1, RowsSame DEF HooksInv
<1>6. ProcessInv'
  <2>1. Inbound[s] \subseteq Objects /\ Outbound[s] \subseteq Objects
    BY TaintHooksAssumption
  <2> QED BY <1>1, <2>1 DEF HooksInv, ProcessInv, running
<1> QED BY <1>2, <1>3, <1>4, <1>5, <1>6 DEF HooksInv

(* The victim ends, in the middle of a write or not.                          *)
LEMMA ExitStep ==
    ASSUME HooksInv, Exit PROVE HooksInv'
<1>1. /\ state' = "ended" /\ sink' = None
      /\ UNCHANGED <<replayed, subject, inbound, outbound, tags, uuid_to_tag, tag_to_tag_uuid,
                     tag_counter, tag_counter_global, overlay, calls, origin, held, seen, last>>
  BY DEF Exit, maps
<1>2. MapInv' /\ RowInv'
  BY <1>1, MapsSame, RowsSame DEF HooksInv
<1>3. ByteInv'
  BY <1>1, WrappedSame DEF HooksInv, ByteInv
<1>4. SinkInv' /\ ProcessInv'
  BY <1>1 DEF HooksInv, SinkInv, ProcessInv, running
<1> QED BY <1>2, <1>3, <1>4 DEF HooksInv

(* A byte is copied, or combined with another, with its tags.                 *)
LEMMA MoveStep ==
    ASSUME HooksInv, NEW d \in Addr, NEW s \in Addr, Move(d, s) \/ Combine(d, s)
    PROVE  HooksInv'
<1>1. /\ sink = None /\ calls < MaxCalls /\ calls' = calls + 1
      /\ UNCHANGED <<replayed, subject, state, inbound, outbound, uuid_to_tag, tag_to_tag_uuid,
                     tag_counter, tag_counter_global, overlay, sink, seen, last>>
  BY DEF Move, Combine, Call, process, maps
<1>2. /\ tags \in [Addr -> SUBSET DOMAIN tag_to_tag_uuid]
      /\ origin \in [Addr -> SUBSET Objects] /\ held \in [Addr -> SUBSET Objects]
  BY DEF HooksInv, ByteInv
<1>3. \E T \in SUBSET {d, s} :
         /\ tags' = [tags EXCEPT ![d] = UNION {tags[x] : x \in T}]
         /\ origin' = [origin EXCEPT ![d] = UNION {origin[x] : x \in T}]
         /\ held' = [held EXCEPT ![d] = UNION {held[x] : x \in T}]
  <2>1. CASE Move(d, s)
    <3>1. \A f : UNION {f[x] : x \in {s}} = f[s]
      OBVIOUS
    <3> QED BY <2>1, <3>1 DEF Move
  <2>2. CASE Combine(d, s)
    <3>1. \A f : UNION {f[x] : x \in {d, s}} = f[d] \cup f[s]
      OBVIOUS
    <3> QED BY <2>2, <3>1 DEF Combine
  <2> QED BY <2>1, <2>2
<1>4. PICK T \in SUBSET {d, s} :
         /\ tags' = [tags EXCEPT ![d] = UNION {tags[x] : x \in T}]
         /\ origin' = [origin EXCEPT ![d] = UNION {origin[x] : x \in T}]
         /\ held' = [held EXCEPT ![d] = UNION {held[x] : x \in T}]
  BY <1>3
<1>5. T \subseteq Addr
  OBVIOUS
<1>6. /\ tags' \in [Addr -> SUBSET DOMAIN tag_to_tag_uuid]
      /\ origin' \in [Addr -> SUBSET Objects] /\ held' \in [Addr -> SUBSET Objects]
  BY <1>2, <1>4, <1>5
<1>7. \A b \in Addr : \/ tags'[b] = tags[b] /\ origin'[b] = origin[b] /\ held'[b] = held[b]
                      \/ /\ tags'[b] = UNION {tags[x] : x \in T}
                         /\ origin'[b] = UNION {origin[x] : x \in T}
                         /\ held'[b] = UNION {held[x] : x \in T}
  BY <1>2, <1>4
<1>8. ASSUME ~Wrapped, NEW b \in Addr
      PROVE  /\ \A o \in origin'[b] : \E t \in tags'[b] : tag_to_tag_uuid[t] = o
             /\ \A t \in tags'[b] : tag_to_tag_uuid[t] \in held'[b]
  <2>1. \A x \in Addr : /\ \A o \in origin[x] : \E t \in tags[x] : tag_to_tag_uuid[t] = o
                        /\ \A t \in tags[x] : tag_to_tag_uuid[t] \in held[x]
    BY <1>8 DEF HooksInv, ByteInv
  <2>2. CASE tags'[b] = tags[b] /\ origin'[b] = origin[b] /\ held'[b] = held[b]
    BY <2>1, <2>2
  <2>3. CASE /\ tags'[b] = UNION {tags[x] : x \in T}
             /\ origin'[b] = UNION {origin[x] : x \in T}
             /\ held'[b] = UNION {held[x] : x \in T}
    <3>1. ASSUME NEW o \in origin'[b] PROVE \E t \in tags'[b] : tag_to_tag_uuid[t] = o
      <4>1. PICK x \in T : o \in origin[x]
        BY <2>3, <3>1
      <4> QED BY <1>5, <2>1, <2>3, <4>1
    <3>2. ASSUME NEW t \in tags'[b] PROVE tag_to_tag_uuid[t] \in held'[b]
      <4>1. PICK x \in T : t \in tags[x]
        BY <2>3, <3>2
      <4> QED BY <1>5, <2>1, <2>3, <4>1
    <3> QED BY <3>1, <3>2
  <2> QED BY <1>7, <2>2, <2>3
<1>9. ByteInv'
  BY <1>1, <1>6, <1>8, WrappedSame DEF ByteInv
<1>10. MapInv' /\ RowInv'
  BY <1>1, MapsSame, RowsSame DEF HooksInv
<1>11. SinkInv'
  BY <1>1 DEF SinkInv
<1>12. ProcessInv'
  <2>1. calls' \in 0 .. MaxCalls
    BY <1>1, TaintHooksAssumption DEF HooksInv, ProcessInv
  <2> QED BY <1>1, <2>1 DEF HooksInv, ProcessInv, running
<1> QED BY <1>9, <1>10, <1>11, <1>12 DEF HooksInv

(* The maps when an inbound object is read: its tag names it, tags that were  *)
(* given out keep their names, and a process whose tags are shared stays so.  *)
LEMMA ReadMaps ==
    ASSUME HooksInv, NEW o \in Objects, seen' = seen \cup {o},
           IF o \in DOMAIN uuid_to_tag THEN UNCHANGED <<maps, tag_counter_global>> ELSE NewTag(o)
    PROVE  /\ MapInv' /\ tag_counter_global' \in Nat
           /\ DOMAIN tag_to_tag_uuid \subseteq DOMAIN tag_to_tag_uuid'
           /\ uuid_to_tag'[o] \in DOMAIN tag_to_tag_uuid'
           /\ ~Wrapped' => /\ ~Wrapped
                           /\ tag_to_tag_uuid'[uuid_to_tag'[o]] = o
                           /\ \A t \in DOMAIN tag_to_tag_uuid : tag_to_tag_uuid'[t] = tag_to_tag_uuid[t]
<1> DEFINE D == DOMAIN uuid_to_tag  n == Cardinality(D)
<1>m. MapInv /\ tag_counter_global \in Nat /\ TagMod \in Nat \ {0}
  BY TaintHooksAssumption DEF HooksInv, ProcessInv
<1>1. CASE o \in D
  <2>1. UNCHANGED <<uuid_to_tag, tag_to_tag_uuid, tag_counter, tag_counter_global>>
    BY <1>1 DEF maps
  <2>2. MapInv'
    BY <1>m, <2>1, MapsSame
  <2>3. uuid_to_tag[o] \in DOMAIN tag_to_tag_uuid /\ (~Wrapped => tag_to_tag_uuid[uuid_to_tag[o]] = o)
    BY <1>m, <1>1 DEF MapInv
  <2> QED BY <1>m, <2>1, <2>2, <2>3, WrappedSame
<1>2. CASE o \notin D
  <2> DEFINE c == tag_counter
  <2>1. /\ uuid_to_tag' = Put(uuid_to_tag, o, c) /\ tag_to_tag_uuid' = Put(tag_to_tag_uuid, c, o)
        /\ tag_counter' = (c + 1) % TagMod /\ tag_counter_global' = tag_counter_global + 1
    BY <1>2 DEF NewTag
  <2>2. /\ DOMAIN uuid_to_tag' = D \cup {o} /\ uuid_to_tag'[o] = c
        /\ \A x \in D : uuid_to_tag'[x] = uuid_to_tag[x]
    BY <1>2, <2>1 DEF Put
  <2>3. /\ DOMAIN tag_to_tag_uuid' = DOMAIN tag_to_tag_uuid \cup {c} /\ tag_to_tag_uuid'[c] = o
        /\ \A t \in DOMAIN tag_to_tag_uuid : t # c => tag_to_tag_uuid'[t] = tag_to_tag_uuid[t]
    BY <2>1 DEF Put
  <2>4. /\ IsFiniteSet(D) /\ n \in Nat /\ IsFiniteSet(DOMAIN uuid_to_tag')
        /\ Cardinality(DOMAIN uuid_to_tag') = n + 1
    <3>1. IsFiniteSet(D)
      BY <1>m DEF MapInv
    <3>2. /\ IsFiniteSet(D \cup {o})
          /\ Cardinality(D \cup {o}) = IF o \in D THEN Cardinality(D) ELSE Cardinality(D) + 1
      BY <3>1, FS_AddElement
    <3> QED BY <1>2, <2>2, <3>1, <3>2, FS_CardinalityType
  <2>5. /\ D \subseteq Objects /\ c \in 0 .. TagMod - 1 /\ DOMAIN tag_to_tag_uuid \subseteq 0 .. TagMod - 1
        /\ \A x \in D : uuid_to_tag[x] \in DOMAIN tag_to_tag_uuid
        /\ \A t \in DOMAIN tag_to_tag_uuid : tag_to_tag_uuid[t] \in seen
    BY <1>m DEF MapInv
  <2>6. ~Wrapped' => n + 1 <= TagMod /\ n < TagMod /\ ~Wrapped
    BY <1>m, <2>4 DEF Wrapped
  <2>7. ~Wrapped => /\ c = IF n = TagMod THEN 0 ELSE n
                    /\ \A x \in D : tag_to_tag_uuid[uuid_to_tag[x]] = x
                    /\ \A t \in DOMAIN tag_to_tag_uuid : t < n
    BY <1>m DEF MapInv
  <2> HIDE DEF n, D, c
  <2>8. ~Wrapped' => c = n /\ \A t \in DOMAIN tag_to_tag_uuid : t # c /\ t < n
    BY <1>m, <2>4, <2>6, <2>7
  <2>9. tag_counter' \in 0 .. TagMod - 1 /\ (~Wrapped' => tag_counter' = IF n + 1 = TagMod THEN 0 ELSE n + 1)
    <3>1. c + 1 \in Nat
      BY <1>m, <2>5
    <3>2. (c + 1) % TagMod \in 0 .. TagMod - 1
      BY <1>m, <3>1, Mod
    <3>3. c + 1 < TagMod => (c + 1) % TagMod = c + 1
      BY <1>m, <3>1, Mod
    <3>4. TagMod % TagMod = 0
      BY <1>m, Mod
    <3>5. ASSUME ~Wrapped' PROVE tag_counter' = IF n + 1 = TagMod THEN 0 ELSE n + 1
      <4>1. c = n /\ n + 1 <= TagMod
        BY <2>6, <2>8, <3>5
      <4>2. CASE n + 1 = TagMod
        BY <2>1, <3>4, <4>1, <4>2
      <4>3. CASE n + 1 # TagMod
        <5>1. c + 1 < TagMod
          BY <1>m, <2>4, <4>1, <4>3
        <5> QED BY <2>1, <3>3, <4>1, <4>3, <5>1
      <4> QED BY <4>2, <4>3
    <3> QED BY <2>1, <3>2, <3>5
  <2>10. ~Wrapped' => \A x \in D \cup {o} : tag_to_tag_uuid'[uuid_to_tag'[x]] = x
    BY <1>2, <2>2, <2>3, <2>5, <2>6, <2>7, <2>8 DEF D
  <2>11. ~Wrapped' => \A t \in DOMAIN tag_to_tag_uuid' : t < n + 1
    <3>1. \A t \in DOMAIN tag_to_tag_uuid : t \in Int
      BY <2>5
    <3> QED BY <2>3, <2>4, <2>8, <3>1
  <2>12. MapInv'
    <3>1. \A x \in DOMAIN uuid_to_tag' : uuid_to_tag'[x] \in DOMAIN tag_to_tag_uuid'
      BY <2>2, <2>3, <2>5
    <3>2. \A t \in DOMAIN tag_to_tag_uuid' : tag_to_tag_uuid'[t] \in seen'
      BY <2>3, <2>5
    <3>3. DOMAIN tag_to_tag_uuid' \subseteq 0 .. TagMod - 1 /\ DOMAIN uuid_to_tag' \subseteq Objects
      BY <2>2, <2>3, <2>5
    <3> QED BY <2>2, <2>4, <2>9, <2>10, <2>11, <3>1, <3>2, <3>3 DEF MapInv
  <2> QED BY <1>m, <2>1, <2>2, <2>3, <2>6, <2>8, <2>12
<1> QED BY <1>1, <1>2

(* A read: the bytes get the tag of an inbound object, and keep theirs when   *)
(* the object is not inbound.                                                 *)
LEMMA ReadStep ==
    ASSUME HooksInv, NEW o \in Objects, NEW a \in Addr, NEW n \in 1 .. Size, post_read_hook(o, a, n)
    PROVE  HooksInv'
<1> DEFINE In == a .. a + n - 1
<1>1. /\ sink = None /\ calls < MaxCalls /\ calls' = calls + 1
      /\ origin' = [b \in Addr |-> IF b \in In THEN {o} \cap inbound ELSE origin[b]]
      /\ UNCHANGED <<replayed, subject, state, inbound, outbound, overlay, sink, last>>
  BY DEF post_read_hook, Call, process
<1>2. /\ tags \in [Addr -> SUBSET DOMAIN tag_to_tag_uuid]
      /\ origin \in [Addr -> SUBSET Objects] /\ held \in [Addr -> SUBSET Objects]
      /\ ~Wrapped => \A b \in Addr : /\ \A x \in origin[b] : \E t \in tags[b] : tag_to_tag_uuid[t] = x
                                     /\ \A t \in tags[b] : tag_to_tag_uuid[t] \in held[b]
  BY DEF HooksInv, ByteInv
<1> HIDE DEF In
<1>3. origin' \in [Addr -> SUBSET Objects]
  BY <1>1, <1>2
<1>4. calls' \in 0 .. MaxCalls
  BY <1>1, TaintHooksAssumption DEF HooksInv, ProcessInv
<1>5. CASE o \in inbound
  <2> DEFINE k == uuid_to_tag'[o]
  <2>1. /\ IF o \in DOMAIN uuid_to_tag THEN UNCHANGED <<maps, tag_counter_global>> ELSE NewTag(o)
        /\ tags' = [b \in Addr |-> IF b \in In THEN {k} ELSE tags[b]]
        /\ held' = [b \in Addr |-> IF b \in In THEN {o} ELSE held[b]]
        /\ seen' = seen \cup {o}
    BY <1>5 DEF post_read_hook, In
  <2>2. /\ MapInv' /\ tag_counter_global' \in Nat
        /\ DOMAIN tag_to_tag_uuid \subseteq DOMAIN tag_to_tag_uuid' /\ k \in DOMAIN tag_to_tag_uuid'
        /\ ~Wrapped' => /\ ~Wrapped /\ tag_to_tag_uuid'[k] = o
                        /\ \A t \in DOMAIN tag_to_tag_uuid : tag_to_tag_uuid'[t] = tag_to_tag_uuid[t]
    BY <2>1, ReadMaps
  <2> HIDE DEF k
  <2>3. tags' \in [Addr -> SUBSET DOMAIN tag_to_tag_uuid'] /\ held' \in [Addr -> SUBSET Objects]
    BY <1>2, <2>1, <2>2
  <2>4. ASSUME ~Wrapped', NEW b \in Addr
        PROVE  /\ \A x \in origin'[b] : \E t \in tags'[b] : tag_to_tag_uuid'[t] = x
               /\ \A t \in tags'[b] : tag_to_tag_uuid'[t] \in held'[b]
    <3>1. CASE b \in In
      <4>1. origin'[b] = {o} \cap inbound /\ tags'[b] = {k} /\ held'[b] = {o}
        BY <1>1, <2>1, <3>1
      <4> QED BY <2>2, <2>4, <4>1
    <3>2. CASE b \notin In
      <4>1. origin'[b] = origin[b] /\ tags'[b] = tags[b] /\ held'[b] = held[b]
        BY <1>1, <2>1, <3>2
      <4>2. tags[b] \subseteq DOMAIN tag_to_tag_uuid
        BY <1>2
      <4> QED BY <1>2, <2>2, <2>4, <4>1, <4>2
    <3> QED BY <3>1, <3>2
  <2>5. ByteInv'
    BY <1>3, <2>3, <2>4 DEF ByteInv
  <2>6. RowInv'
    BY <1>1, <2>1, RowsSame DEF HooksInv
  <2>7. SinkInv'
    BY <1>1 DEF SinkInv
  <2>8. ProcessInv'
    BY <1>1, <1>4, <2>1, <2>2 DEF HooksInv, ProcessInv, running
  <2> QED BY <2>2, <2>5, <2>6, <2>7, <2>8 DEF HooksInv
<1>6. CASE o \notin inbound
  <2>1. UNCHANGED <<uuid_to_tag, tag_to_tag_uuid, tag_counter, tag_counter_global, tags, held, seen>>
    BY <1>6 DEF post_read_hook, maps
  <2>2. \A b \in Addr : origin'[b] \subseteq origin[b]
    BY <1>1, <1>6
  <2>3. ByteInv'
    BY <1>2, <1>3, <2>1, <2>2, WrappedSame DEF ByteInv
  <2>4. MapInv' /\ RowInv'
    BY <1>1, <2>1, MapsSame, RowsSame DEF HooksInv
  <2>5. SinkInv'
    BY <1>1 DEF SinkInv
  <2>6. ProcessInv'
    BY <1>1, <1>4, <2>1 DEF HooksInv, ProcessInv, running
  <2> QED BY <2>3, <2>4, <2>5, <2>6 DEF HooksInv
<1> QED BY <1>5, <1>6

(* A write begins: nothing gathered yet, and no finished write is watched.    *)
LEMMA WriteStep ==
    ASSUME HooksInv, NEW o \in Objects, NEW type \in Sinks, NEW a \in Addr, NEW n \in 1 .. Size,
           post_write_hook(o, type, a, n)
    PROVE  HooksInv'
<1>1. /\ running /\ calls < MaxCalls /\ calls' = calls + 1 /\ a + n <= Size /\ last' = None
      /\ sink' = [uuid |-> o, type |-> type, at |-> a, end |-> a + n, origins |-> {}, flow |-> {}]
      /\ UNCHANGED <<replayed, subject, state, inbound, outbound, tags, uuid_to_tag, tag_to_tag_uuid,
                     tag_counter, tag_counter_global, overlay, origin, held, seen>>
  BY DEF post_write_hook, Call, process, maps
<1>2. MapInv'
  BY <1>1, MapsSame DEF HooksInv
<1>3. ByteInv'
  BY <1>1, WrappedSame DEF HooksInv, ByteInv
<1>4. SinkInv'
  <2>1. a \in Nat /\ n \in Nat /\ a + n \in Nat /\ a < a + n
    BY TaintHooksAssumption DEF Addr
  <2> QED BY <1>1, <2>1 DEF SinkInv, running
<1>5. RowInv'
  BY <1>1 DEF HooksInv, RowInv, OriginsWereRead, SinkRecorded
<1>6. ProcessInv'
  <2>1. calls' \in 0 .. MaxCalls
    BY <1>1, TaintHooksAssumption DEF HooksInv, ProcessInv
  <2> QED BY <1>1, <2>1 DEF HooksInv, ProcessInv, running
<1> QED BY <1>2, <1>3, <1>4, <1>5, <1>6 DEF HooksInv

(* What theia_tag_overlay_insert leaves in the table.                         *)
LEMMA InsertFacts ==
    ASSUME RowInv, subject \in Subjects, seen \subseteq Objects,
           NEW uuid \in Objects, NEW type \in Sinks, NEW origins \in SUBSET seen, NEW tag_uuid \in Nat
    PROVE  LET new == theia_tag_overlay_insert(uuid, type, origins, tag_uuid) IN
           /\ DOMAIN new = DOMAIN overlay \cup {uuid}
           /\ \A o \in DOMAIN new : new[o] \in Row /\ new[o].origins \subseteq seen
           /\ new[uuid].type = type => new[uuid].origins = origins
<1> DEFINE new == theia_tag_overlay_insert(uuid, type, origins, tag_uuid)
           row == [type |-> type, origins |-> origins, tag_uuid |-> tag_uuid, subject |-> subject]
<1>1. \A o \in DOMAIN overlay : overlay[o] \in Row /\ overlay[o].origins \subseteq seen
  BY DEF RowInv, OriginsWereRead
<1>2. origins \in SUBSET Uuid
  BY DEF Uuid
<1>3. row \in Row /\ row.type = type /\ row.origins = origins
  BY <1>2 DEF Row
<1>4. CASE uuid \notin DOMAIN overlay
  <2>1. new = Put(overlay, uuid, row)
    BY <1>4 DEF theia_tag_overlay_insert
  <2> HIDE DEF new, row
  <2>2. /\ DOMAIN new = DOMAIN overlay \cup {uuid} /\ new[uuid] = row
        /\ \A o \in DOMAIN overlay : new[o] = overlay[o]
    BY <1>4, <2>1 DEF Put
  <2>3. \A o \in DOMAIN new : new[o] \in Row /\ new[o].origins \subseteq seen
    BY <1>1, <1>3, <2>2
  <2>4. new[uuid].type = type => new[uuid].origins = origins
    BY <1>3, <2>2
  <2> QED BY <2>2, <2>3, <2>4 DEF new
<1>5. CASE uuid \in DOMAIN overlay /\ overlay[uuid].type = type
  <2> DEFINE r == [overlay[uuid] EXCEPT !.origins = origins]
  <2>1. new = [overlay EXCEPT ![uuid] = r]
    BY <1>5 DEF theia_tag_overlay_insert
  <2>2. r \in Row /\ r.origins = origins
    BY <1>1, <1>2, <1>5 DEF Row
  <2> HIDE DEF new, r
  <2>3. /\ DOMAIN new = DOMAIN overlay /\ new[uuid] = r
        /\ \A o \in DOMAIN overlay : o # uuid => new[o] = overlay[o]
    BY <1>5, <2>1
  <2>4. \A o \in DOMAIN new : new[o] \in Row /\ new[o].origins \subseteq seen
    BY <1>1, <2>2, <2>3
  <2> QED BY <1>5, <2>2, <2>3, <2>4 DEF new
<1>6. CASE uuid \in DOMAIN overlay /\ overlay[uuid].type # type
  <2>1. new = overlay
    BY <1>6 DEF theia_tag_overlay_insert
  <2> QED BY <1>1, <1>6, <2>1
<1> QED BY <1>4, <1>5, <1>6

(* One byte of a write. Until tags are shared, the origins gathered are at    *)
(* least those of the bytes passed, so that the row has them in the end.      *)
LEMMA SinkStep ==
    ASSUME HooksInv, SinkByte PROVE HooksInv'
<1> DEFINE at == sink.at
           origins == sink.origins \cup Names(tags[at])
           flow == sink.flow \cup origin[at]
           More == [sink EXCEPT !.at = @ + 1, !.origins = origins, !.flow = flow]
           Done(ok) == [uuid |-> sink.uuid, type |-> sink.type, flow |-> flow, ok |-> ok /\ ~Wrapped]
           row == theia_tag_overlay_insert(sink.uuid, sink.type, origins, tag_counter_global)
<1>1. /\ running /\ sink # None /\ tag_counter_global' = tag_counter_global + 1
      /\ UNCHANGED <<replayed, subject, inbound, outbound, tags, uuid_to_tag, tag_to_tag_uuid,
                     tag_counter, calls, origin, held, seen>>
  BY DEF SinkByte, maps
<1>2. /\ last = None /\ sink.at < sink.end /\ sink.end <= Size
      /\ sink \in [uuid : Objects, type : Sinks, at : Nat, end : Nat,
                   origins : SUBSET seen, flow : SUBSET Objects]
      /\ Wrapped \/ sink.flow \subseteq sink.origins
  BY <1>1 DEF HooksInv, SinkInv
<1>3. /\ sink.uuid \in Objects /\ sink.type \in Sinks /\ at \in Nat /\ sink.end \in Nat /\ at \in Addr
      /\ sink.origins \subseteq seen /\ sink.flow \subseteq Objects
  BY <1>2, TaintHooksAssumption DEF Addr
<1>4. /\ \A t \in tags[at] : t \in DOMAIN tag_to_tag_uuid /\ tag_to_tag_uuid[t] \in seen
      /\ origin[at] \subseteq Objects
      /\ ~Wrapped => \A o \in origin[at] : \E t \in tags[at] : tag_to_tag_uuid[t] = o
  BY <1>3 DEF HooksInv, ByteInv, MapInv
<1>5. Names(tags[at]) \subseteq seen /\ (~Wrapped => origin[at] \subseteq Names(tags[at]))
  BY <1>4 DEF Names, Name
<1>6. origins \in SUBSET seen /\ flow \in SUBSET Objects /\ (~Wrapped => flow \subseteq origins)
  BY <1>2, <1>3, <1>4, <1>5
<1>7. /\ \/ overlay' = row \/ overlay' = overlay
      /\ \/ sink' = None
         \/ sink' = More /\ at + 1 < sink.end /\ last' = last /\ state' = state
      /\ state' \in {state, "broken"}
      /\ \/ last' = last
         \/ last' = Done(FALSE)
         \/ last' = Done(TRUE) /\ overlay' = row
         \/ last' = Done(TRUE) /\ origins = {}
  BY DEF SinkByte
<1> HIDE DEF origins, flow
<1>8. MapInv'
  BY <1>1, MapsSame DEF HooksInv
<1>9. ByteInv'
  BY <1>1, WrappedSame DEF HooksInv, ByteInv
<1>10. SinkInv'
  <2>1. CASE sink' = None
    BY <2>1 DEF SinkInv
  <2>2. CASE sink' = More /\ at + 1 < sink.end /\ last' = last /\ state' = state
    <3>1. /\ sink' \in [uuid : Objects, type : Sinks, at : Nat, end : Nat,
                        origins : SUBSET seen, flow : SUBSET Objects]
          /\ sink'.at = at + 1 /\ sink'.end = sink.end /\ sink'.origins = origins /\ sink'.flow = flow
      <4>1. at + 1 \in Nat
        BY <1>3
      <4> QED BY <1>2, <1>6, <2>2, <4>1
    <3> QED BY <1>1, <1>2, <1>6, <2>2, <3>1, WrappedSame DEF SinkInv, running
  <2> QED BY <1>7, <2>1, <2>2
<1>11. subject \in Subjects /\ seen \subseteq Objects /\ tag_counter_global \in Nat
  BY <1>1 DEF HooksInv, ProcessInv
<1>12. /\ DOMAIN row = DOMAIN overlay \cup {sink.uuid}
       /\ \A o \in DOMAIN row : row[o] \in Row /\ row[o].origins \subseteq seen
       /\ row[sink.uuid].type = sink.type => row[sink.uuid].origins = origins
  <2>1. RowInv
    BY DEF HooksInv
  <2>2. PICK u \in Objects, ty \in Sinks, og \in SUBSET seen, g \in Nat :
           u = sink.uuid /\ ty = sink.type /\ og = origins /\ g = tag_counter_global
    BY <1>3, <1>6, <1>11
  <2>3. PICK r : r = theia_tag_overlay_insert(u, ty, og, g)
    OBVIOUS
  <2>4. /\ DOMAIN r = DOMAIN overlay \cup {u}
        /\ \A o \in DOMAIN r : r[o] \in Row /\ r[o].origins \subseteq seen
        /\ r[u].type = ty => r[u].origins = og
    BY <1>11, <2>1, <2>3, InsertFacts, ZenonT(60)
  <2>5. row = r
    BY <2>2, <2>3
  <2> HIDE DEF row
  <2> QED BY <2>2, <2>4, <2>5
<1> HIDE DEF row
<1>13. /\ DOMAIN overlay' \subseteq Objects
       /\ \A o \in DOMAIN overlay' : overlay'[o] \in Row /\ overlay'[o].origins \subseteq seen
  <2>1. CASE overlay' = row
    BY <1>3, <1>12, <2>1 DEF HooksInv, RowInv
  <2>2. CASE overlay' = overlay
    BY <2>2 DEF HooksInv, RowInv, OriginsWereRead
  <2> QED BY <1>7, <2>1, <2>2
<1>14. SinkRecorded'
  <2>1. CASE last' = last
    BY <1>2, <2>1 DEF SinkRecorded
  <2>2. CASE last' = Done(FALSE)
    <3>1. last'.ok = FALSE
      BY <2>2
    <3> QED BY <3>1 DEF SinkRecorded
  <2>3. CASE last' = Done(TRUE) /\ overlay' = row
    <3>1. last'.uuid = sink.uuid /\ last'.type = sink.type /\ last'.flow = flow /\ (last'.ok => ~Wrapped)
      BY <2>3
    <3> QED BY <1>6, <1>12, <2>3, <3>1 DEF SinkRecorded
  <2>4. CASE last' = Done(TRUE) /\ origins = {}
    <3>1. last'.flow = flow /\ (last'.ok => ~Wrapped)
      BY <2>4
    <3> QED BY <1>6, <2>4, <3>1 DEF SinkRecorded
  <2> QED BY <1>7, <2>1, <2>2, <2>3, <2>4
<1>15. RowInv'
  BY <1>1, <1>13, <1>14 DEF RowInv, OriginsWereRead
<1>16. ProcessInv'
  BY <1>1, <1>7, <1>11 DEF HooksInv, ProcessInv, running
<1> QED BY <1>8, <1>9, <1>10, <1>15, <1>16 DEF HooksInv

-----------------------------------------------------------------------------
(* The invariant holds whatever the subjects, the objects and the tags, and   *)
(* whichever calls the replayed programs make.                                *)
THEOREM HooksCorrect == Spec => []HooksInv
<1>1. Init => HooksInv
  <2> SUFFICES ASSUME Init PROVE HooksInv
    OBVIOUS
  <2>1. MapInv
    BY MapsEmpty DEF Init
  <2>2. ByteInv
    BY DEF Init, ByteInv
  <2>3. SinkInv
    BY DEF Init, SinkInv
  <2>4. RowInv
    <3>1. DOMAIN overlay = {} /\ last = None
      BY DEF Init
    <3> QED BY <3>1 DEF RowInv, OriginsWereRead, SinkRecorded
  <2>5. ProcessInv
    BY TaintHooksAssumption DEF Init, ProcessInv, running
  <2> QED BY <2>1, <2>2, <2>3, <2>4, <2>5 DEF HooksInv
<1>2. HooksInv /\ [Next]_vars => HooksInv'
  <2> SUFFICES ASSUME HooksInv, [Next]_vars PROVE HooksInv'
    OBVIOUS
  <2>1. CASE UNCHANGED vars
    <3>1. UNCHANGED <<replayed, subject, state, inbound, outbound, tags, uuid_to_tag, tag_to_tag_uuid,
                      tag_counter, tag_counter_global, overlay, sink, calls, origin, held, seen, last>>
      BY <2>1 DEF vars, process, maps
    <3>2. MapInv' /\ RowInv'
      BY <3>1, MapsSame, RowsSame DEF HooksInv
    <3>3. ByteInv'
      BY <3>1, WrappedSame DEF HooksInv, ByteInv
    <3>4. SinkInv' /\ ProcessInv'
      BY <3>1, WrappedSame DEF HooksInv, SinkInv, ProcessInv, running
    <3> QED BY <3>2, <3>3, <3>4 DEF HooksInv
  <2>2. CASE \E s \in Subjects, known \in BOOLEAN : Start(s, known)
    BY <2>2, StartStep
  <2>3. CASE Exit
    BY <2>3, ExitStep
  <2>4. CASE \E d, s \in Addr : Move(d, s) \/ Combine(d, s)
    BY <2>4, MoveStep
  <2>5. CASE \E o \in Objects, a \in Addr, n \in 1 .. Size :
                \/ post_read_hook(o, a, n)
                \/ \E type \in Sinks : post_write_hook(o, type, a, n)
    BY <2>5, ReadStep, WriteStep
  <2>6. CASE SinkByte
    BY <2>6, SinkStep
  <2> QED BY <2>1, <2>2, <2>3, <2>4, <2>5, <2>6 DEF Next
<1> QED BY <1>1, <1>2, PTL DEF Spec

(* Every part of the state has its type; the tags are values of unit_tag_t    *)
(* however many objects post_read_hook meets.                                 *)
THEOREM TypeCorrect == Spec => []TypeOK
<1>1. HooksInv => TypeOK
  <2> SUFFICES ASSUME HooksInv PROVE TypeOK
    OBVIOUS
  <2>1. /\ DOMAIN uuid_to_tag \subseteq Objects /\ DOMAIN tag_to_tag_uuid \subseteq 0 .. TagMod - 1
        /\ \A o \in DOMAIN uuid_to_tag : uuid_to_tag[o] \in 0 .. TagMod - 1
        /\ \A t \in DOMAIN tag_to_tag_uuid : tag_to_tag_uuid[t] \in Objects
        /\ tag_counter \in 0 .. TagMod - 1
    BY DEF HooksInv, MapInv, ProcessInv
  <2>2. /\ tags \in [Addr -> SUBSET (0 .. TagMod - 1)]
        /\ origin \in [Addr -> SUBSET Objects] /\ held \in [Addr -> SUBSET Objects]
    BY <2>1 DEF HooksInv, ByteInv
  <2>3. sink # None => sink.at \in Addr /\ sink.end \in sink.at + 1 .. Size
    <3>1. sink # None => /\ sink.at \in Nat /\ sink.end \in Nat
                         /\ sink.at < sink.end /\ sink.end <= Size
      BY DEF HooksInv, SinkInv
    <3> QED BY <3>1, TaintHooksAssumption DEF Addr
  <2>4. DOMAIN overlay \subseteq Objects /\ \A o \in DOMAIN overlay : overlay[o] \in Row
    BY DEF HooksInv, RowInv
  <2> QED BY <2>1, <2>2, <2>3, <2>4 DEF TypeOK, HooksInv, ProcessInv
<1> QED BY <1>1, HooksCorrect, PTL

(* No tag of an inbound object is lost between the read that post_read_hook   *)
(* handles and the bytes the program moves its data to, as long as there are  *)
(* at least as many values of unit_tag_t as objects read.                     *)
THEOREM OriginsKept == Spec => []NoLostOrigin
<1>1. HooksInv => NoLostOrigin
  <2> SUFFICES ASSUME HooksInv, ~Wrapped, NEW b \in Addr, NEW o \in origin[b]
               PROVE  o \in Names(tags[b])
    BY DEF NoLostOrigin
  <2>1. PICK t \in tags[b] : tag_to_tag_uuid[t] = o
    BY DEF HooksInv, ByteInv
  <2>2. t \in DOMAIN tag_to_tag_uuid
    BY DEF HooksInv, ByteInv
  <2> QED BY <2>1, <2>2 DEF Names, Name
<1> QED BY <1>1, HooksCorrect, PTL

(* No origin is invented: under the same condition a byte names only objects  *)
(* whose data is in it, or was until a read that post_read_hook lets pass.    *)
THEOREM OriginsHeld == Spec => []NoStaleOrigin
<1>1. HooksInv => NoStaleOrigin
  <2> SUFFICES ASSUME HooksInv, ~Wrapped, NEW b \in Addr, NEW t \in tags[b]
               PROVE  Name(t) \in held[b]
    BY DEF NoStaleOrigin, Names
  <2>1. t \in DOMAIN tag_to_tag_uuid /\ tag_to_tag_uuid[t] \in held[b]
    BY DEF HooksInv, ByteInv
  <2> QED BY <2>1 DEF Name
<1> QED BY <1>1, HooksCorrect, PTL

(* Every origin in the table tag_overlay is an inbound object that a replay   *)
(* of the query read before, tags shared or not.                              *)
THEOREM TableOriginsRead == Spec => []OriginsWereRead
<1>1. HooksInv => OriginsWereRead
  BY DEF HooksInv, RowInv
<1> QED BY <1>1, HooksCorrect, PTL

(* A write that post_write_hook handled to its end, with the last statement   *)
(* taken by the database, has its origins in the row of the object.           *)
THEOREM WritesRecorded == Spec => []SinkRecorded
<1>1. HooksInv => SinkRecorded
  BY DEF HooksInv, RowInv
<1> QED BY <1>1, HooksCorrect, PTL
=============================================================================
