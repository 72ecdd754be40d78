------------------------------ MODULE Tagmap32 ------------------------------
(***************************************************************************)
(* The shadow memory of the 32-bit libdft (tagmap.c): a bitmap with one bit  *)
(* for every byte of the address space. A bitmap is the set of the addresses  *)
(* whose bit is 1; the code reads and writes it in words of 8, 16 and 32      *)
(* bits, at the bitmap byte VIRT2BYTE(addr), with masks shifted by            *)
(* VIRT2BIT(addr).                                                           *)
(***************************************************************************)
EXTENDS Naturals

LOCAL INSTANCE FiniteSetsExt

VIRT2BYTE(addr) == addr \div 8
VIRT2BIT(addr)  == addr % 8

ALIGN_OFF_MAX == 8
ASSERT_FAST   == 32

\* The bitmap is mapped with all bits 0.
tagmap_alloc == {}

\* The w bits of the word at addr, and those that a mask of n bits selects in it.
BitmapWord(addr, w) == {8 * VIRT2BYTE(addr) + j : j \in 0 .. w - 1}
Mask(addr, n, w) == {8 * VIRT2BYTE(addr) + j :
                        j \in (VIRT2BIT(addr) .. VIRT2BIT(addr) + n - 1) \cap (0 .. w - 1)}

tagmap_setb(b, addr) == b \cup Mask(addr, 1, 8)
tagmap_clrb(b, addr) == b \ Mask(addr, 1, 8)
tagmap_getb(b, addr) == b \cap Mask(addr, 1, 8)
tagmap_setw(b, addr) == b \cup Mask(addr, 2, 16)
tagmap_clrw(b, addr) == b \ Mask(addr, 2, 16)
tagmap_getw(b, addr) == b \cap Mask(addr, 2, 16)
tagmap_setl(b, addr) == b \cup Mask(addr, 4, 16)
tagmap_clrl(b, addr) == b \ Mask(addr, 4, 16)
tagmap_getl(b, addr) == b \cap Mask(addr, 4, 16)
tagmap_setq(b, addr) == b \cup Mask(addr, 8, 16)
tagmap_clrq(b, addr) == b \ Mask(addr, 8, 16)
tagmap_getq(b, addr) == b \cap Mask(addr, 8, 16)

-----------------------------------------------------------------------------
(* Ranges of num bytes: at most eight with one mask; otherwise up to the next  *)
(* byte of the bitmap, 32 bytes at a time, and what remains in masks of eight. *)

\* The bits of one mask of num bits, as the three switches of a routine pick it.
Chunk(addr, num) ==
    IF num \in 1 .. ALIGN_OFF_MAX THEN Mask(addr, num, IF num = 1 THEN 8 ELSE 16) ELSE {}

\* Bytes to the next address whose bit is the first of a byte of the bitmap.
AlignOff(addr) == (ALIGN_OFF_MAX - VIRT2BIT(addr)) % ALIGN_OFF_MAX

\* The words of 32 bits that fit into the num bytes from the aligned address addr.
Fast(addr, num) ==
    UNION {BitmapWord(addr + ASSERT_FAST * k, ASSERT_FAST) : k \in 0 .. (num \div ASSERT_FAST) - 1}
FastLen(num) == ASSERT_FAST * (num \div ASSERT_FAST)

\* Mutant of Tail: the address of the last loop does not advance.
Tail_Stays(addr, num) == Chunk(addr, IF num < 8 THEN num ELSE 8)

\* The masks of the last loop of setn and issetn, which advances the address.
Tail(addr, num) ==
    UNION {Chunk(addr + 8 * k, IF num - 8 * k < 8 THEN num - 8 * k ELSE 8) :
              k \in 0 .. (num + 7) \div 8 - 1}

Aligned(addr)    == addr + AlignOff(addr)
Body(addr, num)  == num - AlignOff(addr)
Rest(addr, num)  == Aligned(addr) + FastLen(Body(addr, num))
RestLen(addr, n) == Body(addr, n) - FastLen(Body(addr, n))

tagmap_issetn(b, addr, num) ==
    IF num <= ALIGN_OFF_MAX THEN b \cap Chunk(addr, num) # {}
    ELSE \/ b \cap Chunk(addr, AlignOff(addr)) # {}
         \/ b \cap Fast(Aligned(addr), Body(addr, num)) # {}
         \/ b \cap Tail(Rest(addr, num), RestLen(addr, num)) # {}

tagmap_setn(b, addr, num) ==
    IF num <= ALIGN_OFF_MAX THEN b \cup Chunk(addr, num)
    ELSE b \cup Chunk(addr, AlignOff(addr))
           \cup Fast(Aligned(addr), Body(addr, num))
           \cup Tail(Rest(addr, num), RestLen(addr, num))

\* With seven bytes left the word is not masked but multiplied (*=) by the
\* complement of the mask: by -128, modulo 2^16, as the address is aligned.
Value(b, addr) ==
    MapThenSumSet(LAMBDA j : IF 8 * VIRT2BYTE(addr) + j \in b THEN 2^j ELSE 0, 0 .. 15)
NegTimes128(x) == ((512 - (x % 512)) % 512) * 128
MulWord(b, addr) ==
    LET v == NegTimes128(Value(b, addr)) IN
    (b \ BitmapWord(addr, 16)) \cup
        {8 * VIRT2BYTE(addr) + j : j \in {i \in 0 .. 15 : (v \div 2^i) % 2 = 1}}

\* The last loop of clrn does not advance the address: the masks of eight, and
\* then what is left over, are all applied at addr.
ClrTail(b, addr, num) ==
    LET b8 == IF num >= 8 THEN tagmap_clrq(b, addr) ELSE b
        r  == num % 8
    IN  IF r = 7 THEN MulWord(b8, addr) ELSE b8 \ Chunk(addr, r)

tagmap_clrn(b, addr, num) ==
    IF num <= ALIGN_OFF_MAX THEN b \ Chunk(addr, num)
    ELSE ClrTail((b \ Chunk(addr, AlignOff(addr))) \ Fast(Aligned(addr), Body(addr, num)),
                 Rest(addr, num), RestLen(addr, num))
=============================================================================
