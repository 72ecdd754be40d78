------------------------------ MODULE Tagmap64 ------------------------------
(***************************************************************************)
(* The shadow memory of the 64-bit libdft built with default tags             *)
(* (tagmap64.cc without USE_CUSTOM_TAG): the bitmap is cut into segments,     *)
(* STAB, each allocated when an address of it is first used. A map is a       *)
(* record: bits, the addresses whose bit is set, and segs, the allocated      *)
(* segments. A word of the bitmap that reaches over the end of its segment    *)
(* lies partly behind the allocated block: those bits are not in the map.     *)
(***************************************************************************)
EXTENDS Naturals

CONSTANTS SEG, STAB_SZ     \* addresses of a segment, number of segments

LOCAL INSTANCE FiniteSetsExt

ALIGN_OFF_MAX == 8
ASSERT_FAST   == 32

VIRT2BIT(addr) == addr % 8
ADDR_MASK(addr) == addr % (SEG * STAB_SZ)
SegOf(addr) == ADDR_MASK(addr) \div SEG

tagmap_alloc == [bits |-> {}, segs |-> {}]
\* Mutant of tagmap_clean: the bits stay where the segments were.
tagmap_clean_Keeps(m) == [m EXCEPT !.segs = {}]

tagmap_clean(m) == [bits |-> {}, segs |-> {}]

\* Mutant of _tagmap_alloc_seg: the old segment is cleared with the new one.
_tagmap_alloc_seg_Again(m, idx) == [bits |-> {a \in m.bits : SegOf(a) # idx}, segs |-> m.segs \cup {idx}]

\* A new segment is cleared.
_tagmap_alloc_seg(m, idx) ==
    IF idx \in m.segs THEN m
    ELSE [bits |-> {a \in m.bits : SegOf(a) # idx}, segs |-> m.segs \cup {idx}]

\* The segment of an address is there before its entry is used.
VIRT2ENTRY(m, addr) == _tagmap_alloc_seg(m, SegOf(addr))

\* The bits of an entry of w bits at addr, and those of them that a mask of n bits selects.
Entry(addr, w) ==
    {a \in {ADDR_MASK(addr) - VIRT2BIT(addr) + j : j \in 0 .. w - 1} : SegOf(a) = SegOf(addr) /\ a < SEG * STAB_SZ}
MaskAt(addr, n, w) ==
    Entry(addr, w) \cap (ADDR_MASK(addr) .. ADDR_MASK(addr) + n - 1)

SetMask(m, addr, n) == LET v == VIRT2ENTRY(m, addr) IN [v EXCEPT !.bits = @ \cup MaskAt(addr, n, 16)]
ClrMask(m, addr, n) == LET v == VIRT2ENTRY(m, addr) IN [v EXCEPT !.bits = @ \ MaskAt(addr, n, 16)]
GetMask(m, addr, n) == m.bits \cap MaskAt(addr, n, 16)

tagmap_setb(m, addr) == SetMask(m, addr, 1)
tagmap_clrb(m, addr) == ClrMask(m, addr, 1)
tagmap_getb(m, addr) == GetMask(m, addr, 1)
tagmap_setw(m, addr) == SetMask(m, addr, 2)
tagmap_clrw(m, addr) == ClrMask(m, addr, 2)
tagmap_getw(m, addr) == GetMask(m, addr, 2)
tagmap_setl(m, addr) == SetMask(m, addr, 4)
tagmap_clrl(m, addr) == ClrMask(m, addr, 4)
tagmap_getl(m, addr) == GetMask(m, addr, 4)
tagmap_setq(m, addr) == SetMask(m, addr, 8)
tagmap_clrq(m, addr) == ClrMask(m, addr, 8)
tagmap_getq(m, addr) == GetMask(m, addr, 8)

-----------------------------------------------------------------------------
(* Ranges: up to eight bytes with one mask; otherwise up to the next byte of   *)
(* the bitmap, 32 bytes at a time, and the rest in masks of eight.             *)

AlignOff(addr) == (ALIGN_OFF_MAX - VIRT2BIT(addr)) % ALIGN_OFF_MAX
Aligned(addr)  == addr + AlignOff(addr)
Words(addr, n) == (n - AlignOff(addr)) \div ASSERT_FAST
WordAt(addr, k) == Aligned(addr) + ASSERT_FAST * k
RestAt(addr, n) == WordAt(addr, Words(addr, n))
RestLen(addr, n) == addr + n - RestAt(addr, n)
Masks(n) == (n + 7) \div 8
MaskLen(n, k) == IF n - 8 * k < 8 THEN n - 8 * k ELSE 8

HeadSet(m, addr)     == GetMask(m, addr, AlignOff(addr)) # {}
WordsSet(m, addr, n) == \E k \in 0 .. Words(addr, n) - 1 : m.bits \cap Entry(WordAt(addr, k), ASSERT_FAST) # {}
RestSet(m, addr, n)  == \E k \in 0 .. Masks(RestLen(addr, n)) - 1 :
                           GetMask(m, RestAt(addr, n) + 8 * k, MaskLen(RestLen(addr, n), k)) # {}

tagmap_issetn(m, addr, n) ==
    IF n <= ALIGN_OFF_MAX THEN GetMask(m, addr, n) # {}
    ELSE HeadSet(m, addr) \/ WordsSet(m, addr, n) \/ RestSet(m, addr, n)

\* The segments that issetn allocates: those of the masks it reads before it returns.
issetn_segs(m, addr, n) ==
    LET head  == IF AlignOff(addr) = 0 THEN {} ELSE {SegOf(addr)}
        words == {SegOf(WordAt(addr, k)) : k \in 0 .. Words(addr, n) - 1}
        rest  == {SegOf(RestAt(addr, n) + 8 * k) : k \in 0 .. Masks(RestLen(addr, n)) - 1}
    IN CASE n = 0 -> {}
         [] n \in 1 .. ALIGN_OFF_MAX -> {SegOf(addr)}
         [] OTHER -> head \cup (IF HeadSet(m, addr) THEN {}
                                ELSE words \cup (IF WordsSet(m, addr, n) THEN {} ELSE rest))

\* The mask before the aligned address, in one switch.
Head(Op(_, _, _), m, addr) == IF AlignOff(addr) = 0 THEN m ELSE Op(m, addr, AlignOff(addr))

\* The loops over the words of 32 bits.
SetWords(m, addr, n) ==
    LET step[k \in 0 .. Words(addr, n)] ==
            IF k = 0 THEN m
            ELSE LET v == VIRT2ENTRY(step[k - 1], WordAt(addr, k - 1))
                 IN [v EXCEPT !.bits = @ \cup Entry(WordAt(addr, k - 1), ASSERT_FAST)]
    IN step[Words(addr, n)]
ClrWords(m, addr, n) ==
    LET step[k \in 0 .. Words(addr, n)] ==
            IF k = 0 THEN m
            ELSE LET v == VIRT2ENTRY(step[k - 1], WordAt(addr, k - 1))
                 IN [v EXCEPT !.bits = @ \ Entry(WordAt(addr, k - 1), ASSERT_FAST)]
    IN step[Words(addr, n)]

\* The last loop of setn, which advances the address.
SetRest(m, addr, n) ==
    LET step[k \in 0 .. Masks(n)] ==
            IF k = 0 THEN m ELSE SetMask(step[k - 1], addr + 8 * (k - 1), MaskLen(n, k - 1))
    IN step[Masks(n)]

tagmap_setn(m, addr, n) ==
    IF n = 0 THEN m
    ELSE IF n <= ALIGN_OFF_MAX THEN SetMask(m, addr, n)
    ELSE SetRest(SetWords(Head(SetMask, m, addr), addr, n), RestAt(addr, n), RestLen(addr, n))

\* With seven bytes left the entry is multiplied by the complement of the mask, -128.
Value(m, addr) == MapThenSumSet(LAMBDA a : 2^(a - ADDR_MASK(addr)), m.bits \cap Entry(addr, 16))
MulEntry(m, addr) ==
    LET v == ((512 - (Value(m, addr) % 512)) % 512) * 128
        e == Entry(addr, 16)
        u == VIRT2ENTRY(m, addr)
    IN [u EXCEPT !.bits = (@ \ e) \cup {a \in e : (v \div 2^(a - ADDR_MASK(addr))) % 2 = 1}]

\* The last loop of clrn does not advance the address.
ClrRest(m, addr, n) ==
    LET m8 == IF n >= 8 THEN tagmap_clrq(m, addr) ELSE m
        r  == n % 8
    IN IF r = 0 THEN m8 ELSE IF r = 7 THEN MulEntry(m8, addr) ELSE ClrMask(m8, addr, r)

tagmap_clrn(m, addr, n) ==
    IF n = 0 THEN m
    ELSE IF n <= ALIGN_OFF_MAX THEN ClrMask(m, addr, n)
    ELSE ClrRest(ClrWords(Head(ClrMask, m, addr), addr, n), RestAt(addr, n), RestLen(addr, n))
=============================================================================
