------------------------------- MODULE Bitmaps -------------------------------
(***************************************************************************)
(* The two bitmap builds of the shadow memory side by side: tagmap.c (32-bit  *)
(* libdft) and tagmap64.cc with default tags. Each operation of the tagmap    *)
(* API is applied to both maps and to tagged, the set of bytes that the       *)
(* operation names.                                                          *)
(*                                                                           *)
(* Two departures of the code from the set are recorded as they happen:       *)
(* skipped holds the bytes that the last loop of tagmap_clrn leaves or        *)
(* scrambles, and behind the bytes that a word of the segmented bitmap has    *)
(* behind the end of its segment.                                            *)
(***************************************************************************)
EXTENDS Naturals

CONSTANTS SEG, STAB_SZ,
          Addrs, Lens,     \* addresses and lengths of the operations
          MaxOps           \* bound on the operations of a behaviour

M32 == INSTANCE Tagmap32
M64 == INSTANCE Tagmap64

ASSUME BitmapsAssumption ==
    /\ SEG \in Nat \ {0} /\ SEG % 8 = 0
    /\ STAB_SZ \in Nat \ {0} /\ MaxOps \in Nat
    /\ Addrs \subseteq Nat /\ Lens \subseteq Nat
    /\ \A a \in Addrs, n \in Lens : a + n + 16 <= SEG * STAB_SZ

VARIABLES map32, map64, tagged, skipped, behind, ops

vars == <<map32, map64, tagged, skipped, behind, ops>>

Space == 0 .. SEG * STAB_SZ - 1
Range(a, n) == {a + i : i \in 0 .. n - 1}

\* The bytes of [a, a + n) whose bits an operation looks for behind the end of
\* a segment: those of one mask of at most eight bits, or of a word of 32 bits.
Behind(a, n) ==
    IF n <= M64!ALIGN_OFF_MAX THEN {x \in Range(a, n) : M64!SegOf(x) # M64!SegOf(a)}
    ELSE UNION {{x \in Range(M64!WordAt(a, k), M64!ASSERT_FAST) : M64!SegOf(x) # M64!SegOf(M64!WordAt(a, k))} :
                   k \in 0 .. M64!Words(a, n) - 1}

\* The last loop of tagmap_clrn stays at its first address.
Skipped(a, n) ==
    LET r == M32!RestLen(a, n) IN
    IF n <= M32!ALIGN_OFF_MAX \/ r \in (0 .. 8) \ {7} THEN {}
    ELSE Range(M32!Rest(a, n), IF r < 16 THEN 16 ELSE r)

Init ==
    /\ map32 = M32!tagmap_alloc /\ map64 = M64!tagmap_alloc
    /\ tagged = {} /\ skipped = {} /\ behind = {} /\ ops = 0

-----------------------------------------------------------------------------
Apply(new32, new64, newTagged, a, n) ==
    /\ ops < MaxOps /\ ops' = ops + 1
    /\ map32' = new32 /\ map64' = new64 /\ tagged' = newTagged
    /\ behind' = behind \cup Behind(a, n)

Width == {1, 2, 4, 8}

\* tagmap_setb, setw, setl and setq.
Set(a, w) ==
    /\ Apply(CASE w = 1 -> M32!tagmap_setb(map32, a) [] w = 2 -> M32!tagmap_setw(map32, a)
               [] w = 4 -> M32!tagmap_setl(map32, a) [] w = 8 -> M32!tagmap_setq(map32, a),
             CASE w = 1 -> M64!tagmap_setb(map64, a) [] w = 2 -> M64!tagmap_setw(map64, a)
               [] w = 4 -> M64!tagmap_setl(map64, a) [] w = 8 -> M64!tagmap_setq(map64, a),
             tagged \cup Range(a, w), a, w)
    /\ UNCHANGED skipped

\* tagmap_clrb, clrw, clrl and clrq.
Clr(a, w) ==
    /\ Apply(CASE w = 1 -> M32!tagmap_clrb(map32, a) [] w = 2 -> M32!tagmap_clrw(map32, a)
               [] w = 4 -> M32!tagmap_clrl(map32, a) [] w = 8 -> M32!tagmap_clrq(map32, a),
             CASE w = 1 -> M64!tagmap_clrb(map64, a) [] w = 2 -> M64!tagmap_clrw(map64, a)
               [] w = 4 -> M64!tagmap_clrl(map64, a) [] w = 8 -> M64!tagmap_clrq(map64, a),
             tagged \ Range(a, w), a, w)
    /\ UNCHANGED skipped

SetN(a, n) ==
    /\ Apply(M32!tagmap_setn(map32, a, n), M64!tagmap_setn(map64, a, n), tagged \cup Range(a, n), a, n)
    /\ UNCHANGED skipped

ClrN(a, n) ==
    /\ Apply(M32!tagmap_clrn(map32, a, n), M64!tagmap_clrn(map64, a, n), tagged \ Range(a, n), a, n)
    /\ skipped' = skipped \cup Skipped(a, n)

\* A question allocates the segments that it looks into.
IsSetN(a, n) ==
    LET segs == M64!issetn_segs(map64, a, n)
        alloc[s \in 0 .. STAB_SZ] ==
            IF s = 0 THEN map64
            ELSE IF s - 1 \in segs THEN M64!_tagmap_alloc_seg(alloc[s - 1], s - 1) ELSE alloc[s - 1]
    IN /\ ops < MaxOps /\ ops' = ops + 1
       /\ map64' = alloc[STAB_SZ]
       /\ UNCHANGED <<map32, tagged, skipped, behind>>

\* tagmap_clean of tagmap64.cc frees every segment; in tagmap.c the same is
\* tagmap_free and tagmap_alloc.
Clean ==
    /\ ops < MaxOps /\ ops' = ops + 1
    /\ map64' = M64!tagmap_clean(map64)
    /\ map32' = M32!tagmap_alloc /\ tagged' = {} /\ skipped' = {} /\ behind' = {}

Next ==
    \/ \E a \in Addrs, w \in Width : Set(a, w) \/ Clr(a, w)
    \/ \E a \in Addrs, n \in Lens : SetN(a, n) \/ ClrN(a, n) \/ IsSetN(a, n)
    \/ Clean

Spec == Init /\ [][Next]_vars

-----------------------------------------------------------------------------
(* Every bit that is set belongs to an allocated segment: freeing or           *)
(* reallocating a segment never leaves the tags of its previous use.           *)
TypeOK ==
    /\ map32 \subseteq Space /\ tagged \subseteq Space
    /\ map64 \in [bits : SUBSET Space, segs : SUBSET (0 .. STAB_SZ - 1)]
    /\ \A x \in map64.bits : M64!SegOf(x) \in map64.segs

(* tagmap.c: whatever sequence of operations ran, with masks that cross bytes  *)
(* of the bitmap and ranges of any alignment, exactly the named bytes are      *)
(* tagged, but for those the last loop of tagmap_clrn skips; and every         *)
(* question about a range is answered so.                                      *)
Bitmap32Exact ==
    /\ map32 \ skipped = tagged \ skipped
    /\ \A a \in Addrs, n \in Lens :
          Range(a, n) \cap skipped = {} =>
              (M32!tagmap_issetn(map32, a, n) <=> tagged \cap Range(a, n) # {})

(* tagmap64.cc, default tags: the same, across segments that are allocated on  *)
(* first use, but for the bytes a word has behind the end of its segment.      *)
Bitmap64Exact ==
    /\ map64.bits \ (skipped \cup behind) = tagged \ (skipped \cup behind)
    /\ \A a \in Addrs, n \in Lens :
          Range(a, n) \cap (skipped \cup behind \cup Behind(a, n)) = {} =>
              (M64!tagmap_issetn(map64, a, n) <=> tagged \cap Range(a, n) # {})
=============================================================================
