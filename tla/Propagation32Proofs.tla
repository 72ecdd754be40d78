------------------------- MODULE Propagation32Proofs -------------------------
(***************************************************************************)
(* Proofs about Propagation32, for every set of registers, every size of the  *)
(* memory, every operand, range and frame in it, and every program:           *)
(*                                                                           *)
(*   - the routines of tagmap.c that work on ranges act on exactly the bytes  *)
(*     of their range, at every alignment and for every length, except for    *)
(*     the last loop of tagmap_clrn;                                          *)
(*   - every tag is on a byte of the context or of the memory (TypeCorrect);  *)
(*   - the classes of Sound lose no flow (FlowKept);                          *)
(*   - the classes of Precise leave no stale tag (NoTagStale).                *)
(*                                                                           *)
(* The inductive invariant adds to the types that what the processor does     *)
(* keeps to its own bytes (TypeInv): the scratch register, in which xchg and  *)
(* cmpxchg save tags, is not among them.                                      *)
(***************************************************************************)
EXTENDS Propagation32, TLAPS

-----------------------------------------------------------------------------
(* The masks and loops of the bitmap, as ranges of addresses *)

\* An address is the bit VIRT2BIT of the byte VIRT2BYTE of the bitmap.
LEMMA ByteBit ==
    ASSUME NEW a \in Nat
    PROVE  VIRT2BYTE(a) \in Nat /\ VIRT2BIT(a) \in 0 .. 7 /\ a = 8 * VIRT2BYTE(a) + VIRT2BIT(a)
BY DEF VIRT2BYTE, VIRT2BIT

\* A mask that fits into its word selects the bits of n addresses from a.
LEMMA MaskSpan ==
    ASSUME NEW a \in Nat, NEW n \in Nat, NEW w \in Nat, VIRT2BIT(a) + n <= w
    PROVE  Mask(a, n, w) = a .. a + n - 1
<1> DEFINE q == VIRT2BYTE(a)
           r == VIRT2BIT(a)
<1>1. q \in Nat /\ r \in 0 .. 7 /\ a = 8 * q + r
  BY ByteBit
<1>2. Mask(a, n, w) = {8 * q + j : j \in (r .. r + n - 1) \cap (0 .. w - 1)}
  BY DEF Mask
<1> HIDE DEF q, r
<1>3. r + n <= w
  BY DEF r
<1>4. (r .. r + n - 1) \cap (0 .. w - 1) = r .. r + n - 1
  BY <1>1, <1>3
<1>5. ASSUME NEW x, x \in Mask(a, n, w) PROVE x \in a .. a + n - 1
  <2>1. PICK j \in r .. r + n - 1 : x = 8 * q + j
    BY <1>2, <1>4, <1>5
  <2>2. QED BY <1>1, <2>1
<1>6. ASSUME NEW x \in a .. a + n - 1 PROVE x \in Mask(a, n, w)
  <2>1. r + (x - a) \in r .. r + n - 1 /\ x = 8 * q + (r + (x - a))
    BY <1>1
  <2>2. QED BY <1>2, <1>4, <2>1
<1>7. QED BY <1>5, <1>6

LEMMA ChunkSpan ==
    ASSUME NEW a \in Nat, NEW n \in 0 .. 8 PROVE Chunk(a, n) = a .. a + n - 1
<1>1. VIRT2BIT(a) \in 0 .. 7
  BY ByteBit
<1>2. CASE n = 0
  BY <1>2 DEF Chunk, ALIGN_OFF_MAX
<1>3. CASE n = 1
  BY <1>1, <1>3, MaskSpan DEF Chunk, ALIGN_OFF_MAX
<1>4. CASE n \notin {0, 1}
  BY <1>1, <1>4, MaskSpan DEF Chunk, ALIGN_OFF_MAX
<1>5. QED BY <1>2, <1>3, <1>4

\* A word at a multiple of eight starts with the bit of its address.
LEMMA WordSpan ==
    ASSUME NEW a \in Nat, VIRT2BIT(a) = 0, NEW w \in Nat
    PROVE  BitmapWord(a, w) = a .. a + w - 1
<1>1. BitmapWord(a, w) = {a + j : j \in 0 .. w - 1}
  <2>1. 8 * VIRT2BYTE(a) = a
    BY ByteBit
  <2>2. QED BY <2>1 DEF BitmapWord
<1>2. ASSUME NEW x \in a .. a + w - 1 PROVE x \in BitmapWord(a, w)
  <2>1. x - a \in 0 .. w - 1 /\ x = a + (x - a)
    OBVIOUS
  <2>2. QED BY <1>1, <2>1
<1>3. ASSUME NEW x, x \in BitmapWord(a, w) PROVE x \in a .. a + w - 1
  BY <1>1, <1>3
<1>4. QED BY <1>2, <1>3

\* The words of the fast loop, one after the other, are a range.
LEMMA FastSpan ==
    ASSUME NEW a \in Nat, VIRT2BIT(a) = 0, NEW n \in Nat
    PROVE  Fast(a, n) = a .. a + FastLen(n) - 1
<1> DEFINE m == n \div 32
           word(k) == BitmapWord(a + 32 * k, 32)
<1>1. m \in Nat /\ FastLen(n) = 32 * m
  BY DEF FastLen, ASSERT_FAST
<1>2. Fast(a, n) = UNION {word(k) : k \in 0 .. m - 1}
  BY DEF Fast, ASSERT_FAST
<1>3. ASSUME NEW k \in Nat PROVE word(k) = a + 32 * k .. a + 32 * k + 31
  <2>1. VIRT2BIT(a + 32 * k) = 0
    BY DEF VIRT2BIT
  <2>2. a + 32 * k + 32 - 1 = a + 32 * k + 31
    OBVIOUS
  <2>3. QED BY <2>1, <2>2, WordSpan
<1> HIDE DEF m, word
<1>4. ASSUME NEW x, x \in Fast(a, n) PROVE x \in a .. a + FastLen(n) - 1
  <2>1. PICK k \in 0 .. m - 1 : x \in word(k)
    BY <1>2, <1>4
  <2>2. x \in a + 32 * k .. a + 32 * k + 31
    <3>1. k \in Nat
      BY <1>1
    <3>2. word(k) = a + 32 * k .. a + 32 * k + 31
      BY <1>3, <3>1
    <3>3. QED BY <2>1, <3>2
  <2>3. QED BY <1>1, <2>2
<1>5. ASSUME NEW x \in a .. a + FastLen(n) - 1 PROVE x \in Fast(a, n)
  <2>1. PICK y : y = x - a
    OBVIOUS
  <2>2. y \in 0 .. 32 * m - 1
    BY <1>1, <2>1
  <2>3. PICK k : k = y \div 32
    OBVIOUS
  <2>4. k \in 0 .. m - 1 /\ y \in 32 * k .. 32 * k + 31
    BY <1>1, <2>2, <2>3
  <2>5. x \in word(k)
    <3>1. word(k) = a + 32 * k .. a + 32 * k + 31
      BY <1>1, <1>3, <2>4
    <3>2. QED BY <1>1, <2>1, <2>4, <3>1
  <2>6. QED BY <1>2, <2>4, <2>5
<1>6. QED BY <1>4, <1>5

\* So are the masks of the last loop, which advances the address.
LEMMA TailSpan ==
    ASSUME NEW a \in Nat, NEW n \in Nat
    PROVE  Tail(a, n) = a .. a + n - 1
<1> DEFINE m == (n + 7) \div 8
           len(k) == IF n - 8 * k < 8 THEN n - 8 * k ELSE 8
           part(k) == Chunk(a + 8 * k, len(k))
<1>1. m \in Nat /\ 8 * m < n + 8 /\ n <= 8 * m
  OBVIOUS
<1>2. Tail(a, n) = UNION {part(k) : k \in 0 .. m - 1}
  BY DEF Tail
<1>3. ASSUME NEW k \in 0 .. m - 1
      PROVE  len(k) \in 1 .. 8 /\ part(k) = a + 8 * k .. a + 8 * k + len(k) - 1
  <2>1. len(k) \in 1 .. 8 /\ a + 8 * k \in Nat
    BY <1>1
  <2> HIDE DEF len
  <2>2. len(k) \in 0 .. 8
    BY <2>1
  <2>3. part(k) = (a + 8 * k) .. (a + 8 * k) + len(k) - 1
    BY <2>1, <2>2, ChunkSpan
  <2>4. QED BY <2>1, <2>3
<1>4. ASSUME NEW x, x \in Tail(a, n) PROVE x \in a .. a + n - 1
  <2>1. PICK k \in 0 .. m - 1 : x \in part(k)
    BY <1>2, <1>4
  <2>2. x \in a + 8 * k .. a + 8 * k + len(k) - 1
    BY <1>3, <2>1
  <2>3. QED BY <1>1, <2>2
<1>5. ASSUME NEW x \in a .. a + n - 1 PROVE x \in Tail(a, n)
  <2>1. PICK y : y = x - a
    OBVIOUS
  <2>2. PICK k : k = y \div 8
    OBVIOUS
  <2>3. k \in 0 .. m - 1 /\ y \in 8 * k .. 8 * k + len(k) - 1
    BY <1>1, <2>1, <2>2
  <2>4. x \in part(k)
    <3>1. x \in a + 8 * k .. a + 8 * k + len(k) - 1
      BY <2>1, <2>3
    <3>2. QED BY <1>3, <2>3, <3>1
  <2>5. QED BY <1>2, <2>3, <2>4
<1>6. QED BY <1>4, <1>5

\* A range of more than eight bytes: up to an aligned address, words, and the rest.
LEMMA RangeParts ==
    ASSUME NEW a \in Nat, NEW n \in Nat, n > 8
    PROVE  /\ AlignOff(a) \in 0 .. 7 /\ Aligned(a) \in Nat /\ VIRT2BIT(Aligned(a)) = 0
           /\ Aligned(a) = a + AlignOff(a) /\ a <= Aligned(a)
           /\ Body(a, n) \in Nat /\ Aligned(a) + Body(a, n) = a + n
           /\ RestLen(a, n) \in 0 .. 31 /\ Rest(a, n) \in Nat /\ VIRT2BIT(Rest(a, n)) = 0
           /\ FastLen(Body(a, n)) \in Nat /\ Aligned(a) + FastLen(Body(a, n)) = Rest(a, n)
           /\ Aligned(a) <= Rest(a, n) /\ Rest(a, n) + RestLen(a, n) = a + n
           /\ Rest(a, n) <= a + n
<1>1. AlignOff(a) \in 0 .. 7 /\ VIRT2BIT(Aligned(a)) = 0
  BY DEF AlignOff, Aligned, ALIGN_OFF_MAX, VIRT2BIT
<1>2. Aligned(a) = a + AlignOff(a) /\ Body(a, n) = n - AlignOff(a)
  BY DEF Aligned, Body
<1>3. Aligned(a) \in Nat /\ a <= Aligned(a) /\ Body(a, n) \in Nat /\ Aligned(a) + Body(a, n) = a + n
  BY <1>1, <1>2
<1>4. PICK m : m = Body(a, n) \div 32
  OBVIOUS
<1>5. m \in Nat /\ FastLen(Body(a, n)) = 32 * m /\ Body(a, n) - 32 * m \in 0 .. 31
  <2>1. FastLen(Body(a, n)) = 32 * m
    BY <1>4 DEF FastLen, ASSERT_FAST
  <2>2. PICK y \in Nat : y = Body(a, n)
    BY <1>3
  <2>3. y \div 32 \in Nat /\ y - 32 * (y \div 32) \in 0 .. 31
    OBVIOUS
  <2>4. QED BY <1>4, <2>1, <2>2, <2>3
<1>6. Rest(a, n) = Aligned(a) + 32 * m /\ RestLen(a, n) = Body(a, n) - 32 * m
  BY <1>5 DEF Rest, RestLen
<1>7. VIRT2BIT(Rest(a, n)) = 0
  BY <1>1, <1>3, <1>5, <1>6 DEF VIRT2BIT
<1>8. RestLen(a, n) \in 0 .. 31 /\ Rest(a, n) \in Nat /\ Aligned(a) <= Rest(a, n)
  BY <1>3, <1>5, <1>6
<1>9. Rest(a, n) + RestLen(a, n) = a + n /\ Rest(a, n) <= a + n
  BY <1>3, <1>5, <1>6
<1>10. FastLen(Body(a, n)) \in Nat /\ Aligned(a) + FastLen(Body(a, n)) = Rest(a, n)
  BY <1>5, <1>6
<1>11. QED BY <1>1, <1>2, <1>3, <1>7, <1>8, <1>9, <1>10

\* tagmap_setn tags the bytes of its range and no other, at any alignment and length.
LEMMA SetnSpan ==
    ASSUME NEW b, NEW a \in Nat, NEW n \in Nat
    PROVE  tagmap_setn(b, a, n) = b \cup (a .. a + n - 1)
<1>1. CASE n <= 8
  <2>1. n \in 0 .. 8
    BY <1>1
  <2>2. Chunk(a, n) = a .. a + n - 1
    BY <2>1, ChunkSpan
  <2>3. QED BY <1>1, <2>2 DEF tagmap_setn, ALIGN_OFF_MAX
<1>2. CASE n > 8
  <2>1. tagmap_setn(b, a, n) = ((b \cup Chunk(a, AlignOff(a)))
            \cup Fast(Aligned(a), Body(a, n))) \cup Tail(Rest(a, n), RestLen(a, n))
    BY <1>2 DEF tagmap_setn, ALIGN_OFF_MAX
  <2>2. Chunk(a, AlignOff(a)) = a .. Aligned(a) - 1
    <3>1. AlignOff(a) \in 0 .. 8 /\ Aligned(a) = a + AlignOff(a)
      BY <1>2, RangeParts
    <3>2. Chunk(a, AlignOff(a)) = a .. a + AlignOff(a) - 1
      BY <3>1, ChunkSpan
    <3>3. QED BY <3>1, <3>2
  <2>3. Fast(Aligned(a), Body(a, n)) = Aligned(a) .. Rest(a, n) - 1
    <3>1. /\ Aligned(a) \in Nat /\ VIRT2BIT(Aligned(a)) = 0 /\ Body(a, n) \in Nat
          /\ FastLen(Body(a, n)) \in Nat
          /\ Aligned(a) + FastLen(Body(a, n)) = Rest(a, n)
      BY <1>2, RangeParts
    <3>2. Fast(Aligned(a), Body(a, n)) = Aligned(a) .. Aligned(a) + FastLen(Body(a, n)) - 1
      BY <3>1, FastSpan
    <3>3. QED BY <3>1, <3>2
  <2>4. Tail(Rest(a, n), RestLen(a, n)) = Rest(a, n) .. a + n - 1
    <3>1. Rest(a, n) \in Nat /\ RestLen(a, n) \in 0 .. 31 /\ Rest(a, n) + RestLen(a, n) = a + n
      BY <1>2, RangeParts
    <3>2. Tail(Rest(a, n), RestLen(a, n)) = Rest(a, n) .. Rest(a, n) + RestLen(a, n) - 1
      <4>1. RestLen(a, n) \in Nat
        BY <3>1
      <4>2. QED BY <3>1, <4>1, TailSpan
    <3>3. Rest(a, n) + RestLen(a, n) - 1 = a + n - 1
      BY <3>1
    <3>4. QED BY <3>2, <3>3
  <2>5. (a .. Aligned(a) - 1) \cup (Aligned(a) .. Rest(a, n) - 1) \cup (Rest(a, n) .. a + n - 1)
            = a .. a + n - 1
    <3>1. /\ Aligned(a) \in Nat /\ a <= Aligned(a) /\ Aligned(a) <= Rest(a, n)
          /\ Rest(a, n) \in Nat /\ Rest(a, n) <= a + n
      BY <1>2, RangeParts
    <3>2. QED BY <3>1
  <2>6. QED BY <2>1, <2>2, <2>3, <2>4, <2>5
<1>3. QED BY <1>1, <1>2

\* tagmap_clrn is exact up to eight bytes.
LEMMA ClrnShort ==
    ASSUME NEW b, NEW a \in Nat, NEW n \in 0 .. 8
    PROVE  tagmap_clrn(b, a, n) = b \ (a .. a + n - 1)
<1>1. Chunk(a, n) = a .. a + n - 1
  BY ChunkSpan
<1>2. QED BY <1>1 DEF tagmap_clrn, ALIGN_OFF_MAX

\* With more it tags nothing but in a word that it multiplies.
LEMMA ClrnBounded ==
    ASSUME NEW b, NEW a \in Nat, NEW n \in Nat
    PROVE  tagmap_clrn(b, a, n) \subseteq b \cup (0 .. a + n + 8)
<1>1. CASE n <= 8
  BY <1>1, ClrnShort
<1>2. CASE n > 8
  <2> DEFINE c == (b \ Chunk(a, AlignOff(a))) \ Fast(Aligned(a), Body(a, n))
             x == Rest(a, n)
             m == RestLen(a, n)
             c8 == IF m >= 8 THEN tagmap_clrq(c, x) ELSE c
  <2>1. tagmap_clrn(b, a, n) = IF m % 8 = 7 THEN MulWord(c8, x) ELSE c8 \ Chunk(x, m % 8)
    BY <1>2 DEF tagmap_clrn, ALIGN_OFF_MAX, ClrTail
  <2>2. c8 \subseteq b
    BY DEF tagmap_clrq
  <2>3. m \in 0 .. 31 /\ x \in Nat /\ VIRT2BIT(x) = 0 /\ x + m = a + n
    BY <1>2, RangeParts
  <2> HIDE DEF c8, x, m
  <2>4. MulWord(c8, x) \subseteq c8 \cup BitmapWord(x, 16)
    BY DEF MulWord, BitmapWord
  <2>5. CASE m % 8 = 7
    <3>1. m >= 7
      BY <2>3, <2>5
    <3>2. BitmapWord(x, 16) = x .. x + 15
      BY <2>3, WordSpan
    <3>3. QED BY <2>1, <2>2, <2>3, <2>4, <2>5, <3>1, <3>2
  <2>6. QED BY <2>1, <2>2, <2>5
<1>3. QED BY <1>1, <1>2

\* With more it clears nothing but in its range and in a word that it multiplies.
LEMMA ClrnKeeps ==
    ASSUME NEW b, NEW a \in Nat, NEW n \in Nat, ~(n > 8 /\ RestLen(a, n) % 8 = 7)
    PROVE  b \ (a .. a + n - 1) \subseteq tagmap_clrn(b, a, n)
<1>1. CASE n <= 8
  BY <1>1, ClrnShort
<1>2. CASE n > 8
  <2> DEFINE c == (b \ Chunk(a, AlignOff(a))) \ Fast(Aligned(a), Body(a, n))
             x == Rest(a, n)
             m == RestLen(a, n)
             c8 == IF m >= 8 THEN tagmap_clrq(c, x) ELSE c
  <2>1. tagmap_clrn(b, a, n) = c8 \ Chunk(x, m % 8)
    BY <1>2 DEF tagmap_clrn, ALIGN_OFF_MAX, ClrTail
  <2>2. Chunk(a, AlignOff(a)) = a .. Aligned(a) - 1
    <3>1. AlignOff(a) \in 0 .. 8 /\ Aligned(a) = a + AlignOff(a)
      BY <1>2, RangeParts
    <3>2. Chunk(a, AlignOff(a)) = a .. a + AlignOff(a) - 1
      BY <3>1, ChunkSpan
    <3>3. QED BY <3>1, <3>2
  <2>3. Fast(Aligned(a), Body(a, n)) = Aligned(a) .. Rest(a, n) - 1
    <3>1. /\ Aligned(a) \in Nat /\ VIRT2BIT(Aligned(a)) = 0 /\ Body(a, n) \in Nat
          /\ FastLen(Body(a, n)) \in Nat
          /\ Aligned(a) + FastLen(Body(a, n)) = Rest(a, n)
      BY <1>2, RangeParts
    <3>2. Fast(Aligned(a), Body(a, n)) = Aligned(a) .. Aligned(a) + FastLen(Body(a, n)) - 1
      BY <3>1, FastSpan
    <3>3. QED BY <3>1, <3>2
  <2>4. m \in 0 .. 31 /\ x \in Nat /\ VIRT2BIT(x) = 0 /\ x + m = a + n /\ Aligned(a) <= x
        /\ Aligned(a) \in Nat /\ a <= Aligned(a) /\ x <= a + n
    BY <1>2, RangeParts
  <2>5. b \ (a .. a + n - 1) \subseteq c
    BY <2>2, <2>3, <2>4
  <2>6. b \ (a .. a + n - 1) \subseteq c8
    <3>1. CASE m >= 8
      <4>1. Mask(x, 8, 16) = x .. x + 8 - 1
        BY <2>4, MaskSpan
      <4>2. c8 = c \ (x .. x + 7)
        BY <3>1, <4>1, <2>4 DEF tagmap_clrq
      <4>3. x .. x + 7 \subseteq a .. a + n - 1
        BY <2>4, <3>1
      <4>4. QED BY <2>5, <4>2, <4>3
    <3>2. QED BY <2>5, <3>1
  <2> HIDE DEF c8, c, x, m
  <2>7. m % 8 \in 0 .. 7 /\ m % 8 <= m
    BY <2>4
  <2>8. Chunk(x, m % 8) = x .. x + (m % 8) - 1
    <3>1. m % 8 \in 0 .. 8
      BY <2>7
    <3>2. QED BY <2>4, <3>1, ChunkSpan
  <2>9. QED BY <2>1, <2>4, <2>6, <2>7, <2>8
<1>3. QED BY <1>1, <1>2

-----------------------------------------------------------------------------
(* Operands *)

\* The bytes that the processor has: no scratch register, and the memory alone.
Real == ((Gpr \cup {Xmm}) \X (0 .. 3)) \cup ({Mem} \X (0 .. Size - 1))

\* All bytes of d are in L.
Within(d, L) == \A k \in 0 .. d.len - 1 : <<d.base, d.off + k>> \in L

Bases == Gpr \cup {Scratch, Mem, Xmm}
Plain(d) ==
    /\ d.base \in Bases /\ d.base # Scratch /\ d.off \in Nat /\ d.len \in {1, 2, 4}
    /\ Within(d, Real)

LEMMA OpFields ==
    ASSUME NEW b, NEW o, NEW n PROVE Op(b, o, n).base = b /\ Op(b, o, n).off = o /\ Op(b, o, n).len = n
BY DEF Op

LEMMA RealLoc == Real \subseteq Loc
<1>1. 0 .. Size - 1 \subseteq 0 .. Size + 8
  BY Propagation32Assumption
<1>2. QED BY <1>1 DEF Real, Loc

LEMMA RegReal ==
    ASSUME NEW r \in Gpr \cup {Xmm}, NEW n \in {1, 2, 4} PROVE Plain(Reg(r, n))
<1>1. Reg(r, n).base = r /\ Reg(r, n).off = 0 /\ Reg(r, n).len = n
  BY DEF Reg, Op
<1>2. r \in Bases /\ r # Scratch
  BY DEF Bases, Gpr, Xmm, Scratch
<1>3. Within(Reg(r, n), Real)
  BY <1>1 DEF Within, Real
<1>4. QED BY <1>1, <1>2, <1>3 DEF Plain

LEMMA HalfReal ==
    ASSUME NEW r \in Gpr, NEW o \in {0, 1} PROVE Plain(Op(r, o, 1))
<1>1. Op(r, o, 1).base = r /\ Op(r, o, 1).off = o /\ Op(r, o, 1).len = 1
  BY DEF Op
<1>2. r \in Bases /\ r # Scratch
  BY DEF Bases, Gpr, Scratch
<1>3. Within(Op(r, o, 1), Real)
  BY <1>1 DEF Within, Real
<1>4. QED BY <1>1, <1>2, <1>3 DEF Plain

LEMMA MemReal ==
    ASSUME NEW a \in Nat, NEW n \in Nat, a + n <= Size
    PROVE  Within(Op(Mem, a, n), Real)
<1>1. Op(Mem, a, n).base = Mem /\ Op(Mem, a, n).off = a /\ Op(Mem, a, n).len = n
  BY DEF Op
<1>2. \A k \in 0 .. n - 1 : a + k \in 0 .. Size - 1
  BY Propagation32Assumption
<1>3. QED BY <1>1, <1>2 DEF Within, Real

LEMMA RegPlain == ASSUME NEW d \in RegOperand PROVE Plain(d) /\ d.base \in Gpr /\ d.off \in {0, 1}
<1>1. CASE \E r \in Regs, n \in {2, 4} : d = Reg(r, n)
  <2>1. PICK r \in Regs, n \in {2, 4} : d = Reg(r, n)
    BY <1>1
  <2>2. r \in Gpr
    BY Propagation32Assumption
  <2>3. Plain(d)
    BY <2>1, <2>2, RegReal
  <2>4. QED BY <2>1, <2>2, <2>3 DEF Reg, Op
<1>2. CASE \E r \in Regs \cap (EBX .. EAX), o \in {0, 1} : d = Op(r, o, 1)
  <2>1. PICK r \in Regs, o \in {0, 1} : d = Op(r, o, 1)
    BY <1>2
  <2>2. r \in Gpr
    BY Propagation32Assumption
  <2>3. Plain(d)
    BY <2>1, <2>2, HalfReal
  <2>4. QED BY <2>1, <2>2, <2>3 DEF Op
<1>3. QED BY <1>1, <1>2 DEF RegOperand

LEMMA MemPlain ==
    ASSUME NEW d \in MemOperand PROVE Plain(d) /\ d.base = Mem /\ d.off + d.len <= Size
<1>1. PICK a \in Starts, n \in {1, 2, 4} : d = Op(Mem, a, n)
  BY DEF MemOperand
<1>2. d.base = Mem /\ d.off = a /\ d.len = n
  BY <1>1, OpFields
<1>3. a \in Nat
  BY Propagation32Assumption
<1>4. d.off + d.len <= Size
  BY DEF MemOperand
<1>5. Within(d, Real)
  BY <1>1, <1>2, <1>3, <1>4, MemReal
<1>6. Mem \in Bases /\ Mem # Scratch
  BY DEF Bases, Mem, Scratch
<1>7. QED BY <1>2, <1>3, <1>4, <1>5, <1>6 DEF Plain

LEMMA OperandPlain == ASSUME NEW d \in Operand PROVE Plain(d)
BY RegPlain, MemPlain DEF Operand

\* Two register operands of the same width have the same bytes or no common one.
LEMMA SameOrApart ==
    ASSUME NEW d \in RegOperand, NEW s \in SameLen(d, RegOperand)
    PROVE  d = s \/ Bytes(d) \cap Bytes(s) = {}
<1>1. s \in RegOperand /\ s.len = d.len
  BY DEF SameLen
<1>2. \A e \in RegOperand : e = Op(e.base, e.off, e.len) /\ e.off \in {0, 1} /\ e.len \in {1, 2, 4}
                            /\ (e.len # 1 => e.off = 0)
  BY DEF RegOperand, Reg, Op
<1>3. CASE d.base = s.base /\ d.off = s.off
  BY <1>1, <1>2, <1>3
<1>4. CASE d.base # s.base
  BY <1>4 DEF Bytes
<1>5. CASE d.off # s.off
  <2>1. d.len = 1 /\ s.len = 1
    BY <1>1, <1>2, <1>5
  <2>2. \A k \in 0 .. 1 - 1 : k = 0
    OBVIOUS
  <2>3. QED BY <1>1, <1>2, <1>5, <2>1, <2>2 DEF Bytes
<1>6. QED BY <1>3, <1>4, <1>5

-----------------------------------------------------------------------------
(* Routines stay among the bytes they are given *)

LEMMA PutIn ==
    ASSUME NEW L, NEW t, t \subseteq L, NEW d, NEW B, \A k \in B : <<d.base, d.off + k>> \in L
    PROVE  Put(t, d, B) \subseteq L
BY DEF Put

LEMMA ClrIn == ASSUME NEW L, NEW t, t \subseteq L, NEW d PROVE Clr(t, d) \subseteq L
BY DEF Clr

LEMMA XferIn ==
    ASSUME NEW L, NEW t, t \subseteq L, NEW d, NEW s, d.len \in {1, 2, 4}, s.len \in {1, 2, 4},
           s.len <= d.len, Within(d, L)
    PROVE  Xfer(t, d, s) \subseteq L
<1>1. \A k \in Get(t, s) : k \in 0 .. d.len - 1
  BY DEF Get
<1>2. \A k \in Get(t, s) : <<d.base, d.off + k>> \in L
  BY <1>1 DEF Within
<1>3. QED BY <1>2, PutIn DEF Xfer

LEMMA CombineIn ==
    ASSUME NEW L, NEW t, t \subseteq L, NEW d, NEW s, d.len \in {1, 2, 4}, s.len \in {1, 2, 4},
           s.len <= d.len, Within(d, L)
    PROVE  Combine(t, d, s) \subseteq L
<1> DEFINE B == Get(t, d) \cup Get(t, s)
<1>1. \A k \in B : k \in 0 .. d.len - 1
  BY DEF Get
<1>2. \A k \in B : <<d.base, d.off + k>> \in L
  BY <1>1 DEF Within
<1>3. Put(t, d, B) \subseteq L
  BY <1>2, PutIn
<1>4. QED BY <1>3 DEF Combine

LEMMA SwapIn ==
    ASSUME NEW L, NEW t, t \subseteq L, NEW d, NEW s, d.len \in {1, 2, 4}, s.len = d.len,
           Within(d, L), Within(s, L)
    PROVE  Swap(t, d, s) \subseteq L
<1>1. Xfer(t, d, s) \subseteq L
  BY XferIn
<1>2. \A k \in Get(t, d) : <<s.base, s.off + k>> \in L
  BY DEF Within, Get
<1>3. QED BY <1>1, <1>2, PutIn DEF Swap

LEMMA FillIn ==
    ASSUME NEW L, NEW t, t \subseteq L, NEW d, Within(d, L), NEW b
    PROVE  Fill(t, d, b) \subseteq L
BY DEF Fill, Within, Bytes

LEMMA ExtendIn ==
    ASSUME NEW L, NEW t, t \subseteq L, NEW d, NEW s, Within(d, L)
    PROVE  Extend(t, d, s) \subseteq L
<1> DEFINE B == {k \in 0 .. d.len - 1 : k % s.len \in Get(t, s)}
<1>1. \A k \in B : <<d.base, d.off + k>> \in L
  BY DEF Within
<1>2. Put(t, d, B) \subseteq L
  BY <1>1, PutIn
<1>3. QED BY <1>2 DEF Extend

LEMMA CpuXaddIn ==
    ASSUME NEW L, NEW t, t \subseteq L, NEW d, NEW s, d.len \in {1, 2, 4}, s.len = d.len,
           Within(d, L), Within(s, L)
    PROVE  Put(Xfer(t, s, d), d, Get(t, d) \cup Get(t, s)) \subseteq L
<1> DEFINE B == Get(t, d) \cup Get(t, s)
<1>1. \A k \in B : <<d.base, d.off + k>> \in L
  BY DEF Within, Get
<1>2. Xfer(t, s, d) \subseteq L
  BY XferIn
<1>3. QED BY <1>1, <1>2, PutIn

LEMMA XaddIn ==
    ASSUME NEW L, NEW t, t \subseteq L, NEW d, NEW s, d.len \in {1, 2, 4}, s.len = d.len,
           Within(d, L), Within(s, L)
    PROVE  xadd_r2r(t, d, s) \subseteq L
<1> DEFINE B == Get(t, d) \cup Get(t, s)
<1>1. \A k \in B : <<d.base, d.off + k>> \in L /\ <<s.base, s.off + k>> \in L
  BY DEF Within, Get
<1>2. Clr(t, Reg(d.base, 4)) \subseteq L
  BY ClrIn
<1>3. Put(Clr(t, Reg(d.base, 4)), d, B) \subseteq L
  BY <1>1, <1>2, PutIn
<1>4. \A k \in Get(t, d) : <<s.base, s.off + k>> \in L
  BY <1>1
<1>5. Put(Put(Clr(t, Reg(d.base, 4)), d, B), s, Get(t, d)) \subseteq L
  BY <1>3, <1>4, PutIn
<1>6. QED BY <1>5 DEF xadd_r2r

\* The scratch register is part of the context.
LEMMA ScratchLoc == Within(Reg(Scratch, 4), Loc) /\ Reg(Scratch, 4).len = 4
BY DEF Within, Loc, Reg, Op

LEMMA PlainLoc == ASSUME NEW d, Plain(d) PROVE Within(d, Loc) /\ d.len \in {1, 2, 4}
BY RealLoc DEF Plain, Within

LEMMA RegLen == ASSUME NEW r, NEW n PROVE Reg(r, n).len = n /\ Reg(r, n).base = r /\ Reg(r, n).off = 0
BY DEF Reg, Op

LEMMA Accumulator ==
    /\ EAX \in Gpr /\ EDX \in Gpr /\ EBX \in Gpr /\ ECX \in Gpr /\ EBP \in Gpr /\ ESP \in Gpr
    /\ AL = Op(EAX, 0, 1) /\ AH = Op(EAX, 1, 1) /\ AL = Reg(EAX, 1)
BY DEF EAX, EDX, EBX, ECX, EBP, ESP, Gpr, AL, AH, Reg

LEMMA HiLoReal ==
    ASSUME NEW n \in {1, 2, 4}
    PROVE  Plain(Hi(n)) /\ Plain(Lo(n)) /\ Hi(n).len = n /\ Lo(n).len = n
<1>1. CASE n = 1
  <2>1. Plain(AH) /\ Plain(AL)
    BY Accumulator, HalfReal
  <2>2. QED BY <1>1, <2>1 DEF Hi, Lo, AL, AH, Op
<1>2. CASE n # 1
  <2>1. Hi(n) = Reg(EDX, n) /\ Lo(n) = Reg(EAX, n)
    BY <1>2 DEF Hi, Lo
  <2>2. QED BY <2>1, Accumulator, RegReal, RegLen
<1>3. QED BY <1>1, <1>2

LEMMA PairIn ==
    ASSUME NEW L, NEW t, t \subseteq L, NEW s, s.len \in {1, 2, 4},
           Within(Hi(s.len), L), Within(Lo(s.len), L)
    PROVE  CombinePair(t, s) \subseteq L
<1>1. Hi(s.len).len = s.len /\ Lo(s.len).len = s.len
  BY HiLoReal
<1>2. Combine(t, Hi(s.len), s) \subseteq L
  BY <1>1, CombineIn
<1>3. Combine(Combine(t, Hi(s.len), s), Lo(s.len), s) \subseteq L
  BY <1>1, <1>2, CombineIn
<1>4. QED BY <1>3 DEF CombinePair

LEMMA FillPairIn ==
    ASSUME NEW L, NEW t, t \subseteq L, NEW n, NEW b, Within(Hi(n), L), Within(Lo(n), L)
    PROVE  FillPair(t, n, b) \subseteq L
BY FillIn DEF FillPair

LEMMA MemBytes ==
    ASSUME NEW l \in Loc, l[1] = Mem PROVE l = <<Mem, l[2]>> /\ l[2] \in 0 .. Size + 8
<1>1. Mem \notin Gpr \cup {Scratch, Xmm}
  BY DEF Mem, Gpr, Scratch, Xmm
<1>2. QED BY <1>1 DEF Loc

LEMMA BitmapIn ==
    ASSUME NEW t, t \subseteq Loc PROVE Bitmap(t) \subseteq 0 .. Size + 8
BY MemBytes DEF Bitmap

LEMMA WithBitmapIn ==
    ASSUME NEW t, t \subseteq Loc, NEW b, b \subseteq 0 .. Size + 8 PROVE WithBitmap(t, b) \subseteq Loc
BY DEF WithBitmap, Loc

LEMMA LessWordIn ==
    ASSUME NEW t, t \subseteq Loc, NEW m, Plain(m), m.base = Mem, NEW B
    PROVE  LessWord(t, m, B) \subseteq Loc
<1>1. m.off \in Nat /\ m.off <= Size - 1
  <2>1. <<Mem, m.off + 0>> \in Real /\ m.off \in Nat
    BY DEF Plain, Within
  <2>2. Mem \notin Gpr \cup {Xmm}
    BY DEF Mem, Gpr, Xmm
  <2>3. m.off + 0 \in 0 .. Size - 1
    BY <2>1, <2>2 DEF Real
  <2>4. QED BY <2>1, <2>3
<1>2. VIRT2BYTE(m.off) \in Nat /\ 8 * VIRT2BYTE(m.off) <= m.off
  BY <1>1, ByteBit
<1>3. 8 * VIRT2BYTE(m.off) \in 0 .. Size + 8
  BY <1>1, <1>2, Propagation32Assumption
<1>4. <<Mem, 8 * VIRT2BYTE(m.off)>> \in Loc
  BY <1>3 DEF Loc
<1>5. Clr(t, m) \subseteq Loc
  BY ClrIn
<1>6. QED BY <1>4, <1>5 DEF LessWord

LEMMA XaddMemIn ==
    ASSUME NEW t, t \subseteq Loc, NEW r, Plain(r), NEW m, Plain(m), m.base = Mem, r.len = m.len
    PROVE  /\ xadd_r2m_opb(t, r, m) \subseteq Loc
           /\ xadd_r2m_opw(t, r, m) \subseteq Loc
           /\ xadd_r2m_opl(t, r, m) \subseteq Loc
<1> DEFINE B == Get(t, r) \cup Get(t, m)
           lost == {<<Mem, a>> : a \in BitmapWord(m.off, 16) \ Mask(m.off, 4, 16)}
<1>1. /\ Within(r, Loc) /\ r.len \in {1, 2, 4}
      /\ Within(m, Loc) /\ m.len \in {1, 2, 4}
  BY PlainLoc
<1>2. xadd_r2m_opb(t, r, m) \subseteq Loc
  <2>1. xadd_r2m_opb(t, r, m) = xadd_r2r(t, r, m)
    BY DEF xadd_r2m_opb, xadd_r2r
  <2>2. xadd_r2r(t, r, m) \subseteq Loc
    BY <1>1, XaddIn
  <2>3. QED BY <2>1, <2>2
<1>3. \A k \in B : <<r.base, r.off + k>> \in Loc /\ <<m.base, m.off + k>> \in Loc
  BY <1>1 DEF Within, Get
<1>4. Put(Clr(t, Reg(r.base, 4)), r, B) \subseteq Loc
  <2>1. Clr(t, Reg(r.base, 4)) \subseteq Loc
    BY ClrIn
  <2>2. QED BY <1>3, <2>1, PutIn
<1>5. xadd_r2m_opw(t, r, m) \subseteq Loc
  BY <1>4, LessWordIn DEF xadd_r2m_opw
<1>6. Xfer(t, r, m) \ lost \subseteq Loc
  <2>1. Xfer(t, r, m) \subseteq Loc
    BY <1>1, XferIn
  <2>2. QED BY <2>1
<1>7. Put(Xfer(t, r, m) \ lost, m, B) \subseteq Loc
  BY <1>3, <1>6, PutIn
<1>8. Get(t, m) \cup Get(t, r) = B
  OBVIOUS
<1>9. xadd_r2m_opl(t, r, m) \subseteq Loc
  BY <1>7, <1>8 DEF xadd_r2m_opl
<1>10. QED BY <1>2, <1>5, <1>9

LEMMA ExchangeIn ==
    ASSUME NEW t, t \subseteq Loc, NEW d, Plain(d), NEW s, Plain(s), d.len = 4, s.len = 4
    PROVE  /\ Xfer(Xfer(Xfer(t, Reg(Scratch, 4), d), d, s), s, Reg(Scratch, 4)) \subseteq Loc
           /\ xadd_opl(t, d, s) \subseteq Loc
<1> DEFINE x == Reg(Scratch, 4)
           t1 == Xfer(t, x, d)
           t2 == Xfer(t1, d, s)
           t3 == Xfer(t2, s, x)
<1>1. Within(d, Loc) /\ Within(s, Loc) /\ Within(x, Loc) /\ x.len = 4
  BY PlainLoc, ScratchLoc
<1> HIDE DEF x
<1>2. t1 \subseteq Loc
  BY <1>1, XferIn
<1> HIDE DEF t1
<1>3. t2 \subseteq Loc
  BY <1>1, <1>2, XferIn
<1> HIDE DEF t2
<1>4. t3 \subseteq Loc
  BY <1>1, <1>3, XferIn
<1> HIDE DEF t3
<1>5. Combine(t3, d, s) \subseteq Loc
  BY <1>1, <1>4, CombineIn
<1>6. QED BY <1>4, <1>5 DEF xadd_opl, t1, t2, t3, x

LEMMA CmpxchgIn ==
    ASSUME NEW t, t \subseteq Loc, NEW d, Plain(d), NEW s, Plain(s), d.len = s.len
    PROVE  /\ cmpxchg_fast(t, d) \subseteq Loc
           /\ cmpxchg_slow(cmpxchg_fast(t, d), d, s) \subseteq Loc
<1> DEFINE x == Reg(Scratch, 4)
           e == Reg(EAX, 4)
           f == Reg(EAX, d.len)
           t1 == Xfer(t, x, e)
           t2 == Xfer(t1, f, d)
           t3 == Xfer(t2, e, x)
<1>1. Within(d, Loc) /\ Within(x, Loc) /\ x.len = 4 /\ d.len \in {1, 2, 4}
  BY PlainLoc, ScratchLoc
<1>2. Within(e, Loc) /\ e.len = 4 /\ Within(f, Loc) /\ f.len = d.len
  BY <1>1, Accumulator, RegReal, PlainLoc, RegLen
<1> HIDE DEF x, e, f
<1>3. t1 \subseteq Loc
  BY <1>1, <1>2, XferIn
<1> HIDE DEF t1
<1>4. t2 \subseteq Loc
  BY <1>1, <1>2, <1>3, XferIn
<1> HIDE DEF t2
<1>5. t3 \subseteq Loc
  BY <1>1, <1>2, <1>4, XferIn
<1> HIDE DEF t3
<1>6. Xfer(t3, d, s) \subseteq Loc
  BY <1>1, <1>5, XferIn
<1>7. cmpxchg_fast(t, d) = t2
  BY DEF cmpxchg_fast, t2, t1, x, e, f
<1>8. QED BY <1>4, <1>6, <1>7 DEF cmpxchg_slow, t3, x, e

\* The range of rep stos, and the one that the tool takes for it.
Lowest(addr, n, m, down) == IF down THEN (addr + n) - m ELSE addr
Taken(addr, m, down)     == IF down THEN (addr + 1) - m ELSE addr
Reaches(addr, n, m, down) ==
    addr + n <= Size /\ IF down THEN m <= addr + 1 ELSE addr + m <= Size

LEMMA StosRange ==
    ASSUME NEW addr \in Starts, NEW n \in {1, 2, 4}, NEW m \in Nat, NEW down \in BOOLEAN,
           Reaches(addr, n, m, down)
    PROVE  /\ Lowest(addr, n, m, down) \in Nat /\ Lowest(addr, n, m, down) + m <= Size
           /\ Taken(addr, m, down) \in Nat /\ Taken(addr, m, down) + m <= Size
<1>1. addr \in Nat /\ addr <= Size - 1 /\ Size \in Nat
  BY Propagation32Assumption
<1>2. CASE down
  BY <1>1, <1>2 DEF Lowest, Taken, Reaches
<1>3. CASE ~down
  BY <1>1, <1>3 DEF Lowest, Taken, Reaches
<1>4. QED BY <1>2, <1>3

LEMMA StosnIn ==
    ASSUME NEW t, t \subseteq Real, NEW lo \in Nat, NEW n \in {1, 2, 4}, NEW c \in Nat,
           NEW m \in Nat, m = c * n, lo + m <= Size
    PROVE  Stosn(t, lo, n, c) \subseteq Real
<1> DEFINE B == {k \in 0 .. m - 1 : k % n \in Get(t, Reg(EAX, n))}
           d == Op(Mem, lo, m)
<1>1. Within(d, Real)
  BY MemReal
<1>2. d.len = m
  BY DEF Op
<1>3. \A k \in B : <<d.base, d.off + k>> \in Real
  BY <1>1, <1>2 DEF Within
<1>4. Put(t, d, B) \subseteq Real
  BY <1>3, PutIn
<1>5. QED BY <1>4 DEF Stosn

LEMMA SetRangeIn ==
    ASSUME NEW t, t \subseteq Loc, NEW a \in Nat, NEW m \in Nat, a + m <= Size
    PROVE  /\ WithBitmap(t, tagmap_setn(Bitmap(t), a, m)) \subseteq Loc
           /\ WithBitmap(t, tagmap_clrn(Bitmap(t), a, m)) \subseteq Loc
<1>1. Bitmap(t) \subseteq 0 .. Size + 8
  BY BitmapIn
<1>2. tagmap_setn(Bitmap(t), a, m) \subseteq 0 .. Size + 8
  <2>1. a .. a + m - 1 \subseteq 0 .. Size + 8
    BY Propagation32Assumption
  <2>2. QED BY <1>1, <2>1, SetnSpan
<1>3. tagmap_clrn(Bitmap(t), a, m) \subseteq 0 .. Size + 8
  <2>1. 0 .. a + m + 8 \subseteq 0 .. Size + 8
    BY Propagation32Assumption
  <2>2. QED BY <1>1, <2>1, ClrnBounded
<1>4. QED BY <1>2, <1>3, WithBitmapIn

LEMMA SavedIn ==
    ASSUME NEW L, Real \subseteq L, NEW t, t \subseteq L, NEW addr \in Nat, NEW n \in {2, 4},
           addr + 8 * n <= Size
    PROVE  Saved(t, addr, n) \subseteq L
<1> DEFINE B == {k \in 0 .. (8 * n) - 1 : <<k \div n, k % n>> \in t}
           d == Op(Mem, addr, 8 * n)
<1>1. Within(d, Real)
  BY MemReal
<1>2. d.len = 8 * n
  BY DEF Op
<1>3. \A k \in B : <<d.base, d.off + k>> \in L
  BY <1>1, <1>2 DEF Within
<1>4. Put(t, d, B) \subseteq L
  BY <1>3, PutIn
<1>5. QED BY <1>4 DEF Saved

LEMMA RestoredIn ==
    ASSUME NEW t, NEW addr, NEW n \in {2, 4}
    PROVE  /\ t \subseteq Loc => Restored(t, addr, n) \subseteq Loc
           /\ t \subseteq Real => CpuRestored(t, addr, n) \subseteq Real
<1>1. (Gpr \ {ESP}) \X (0 .. n - 1) \subseteq Real
  <2>1. 0 .. n - 1 \subseteq 0 .. 3
    OBVIOUS
  <2>2. QED BY <2>1 DEF Real
<1>2. QED BY <1>1, RealLoc DEF Restored, CpuRestored

LEMMA UnionGet ==
    ASSUME NEW t, NEW R, NEW n, \A r \in R : r.len = n
    PROVE  UNION {Get(t, r) : r \in R} \subseteq 0 .. n - 1
BY DEF Get

LEMMA LeaIn ==
    ASSUME NEW t, t \subseteq Loc, NEW d, Plain(d), NEW R
    PROVE  lea_r2r(t, d, R) \subseteq Loc
<1> DEFINE indx(r) == IF d.len = 4 THEN REG32_INDX(r) ELSE REG16_INDX(r)
           B == UNION {Get(t, Reg(indx(r), d.len)) : r \in R}
<1>1. \A r \in R : Reg(indx(r), d.len).len = d.len
  BY RegLen
<1>2. \A k \in B : k \in 0 .. d.len - 1
  BY <1>1 DEF Get
<1>3. \A k \in B : <<d.base, d.off + k>> \in Loc
  BY <1>2, PlainLoc DEF Within
<1>4. Put(t, d, B) \subseteq Loc
  BY <1>3, PutIn
<1>5. QED BY <1>4 DEF lea_r2r

-----------------------------------------------------------------------------
(* Type correctness *)

\* What is known of the data keeps to the bytes of the processor.
TypeInv == TypeOK /\ must \subseteq Real /\ may \subseteq Real

Typed == tags' \subseteq Loc /\ must' \subseteq Real /\ may' \subseteq Real

LEMMA UseTyped == ASSUME TypeInv, NEW c, Use(c), Typed PROVE TypeInv'
<1>1. used' \subseteq Program
  BY DEF Use, TypeInv, TypeOK
<1>2. count' \in 0 .. MaxIns
  BY Propagation32Assumption DEF Use, TypeInv, TypeOK
<1>3. QED BY <1>1, <1>2, RealLoc DEF Typed, TypeInv, TypeOK

\* The processor's half of an instruction.
LEMMA CpuTyped ==
    ASSUME TypeInv, NEW d, Plain(d), NEW s, Plain(s), s.len <= d.len
    PROVE  /\ CpuMove(d, s) => must' \subseteq Real /\ may' \subseteq Real
           /\ CpuArith(d, s) => must' \subseteq Real /\ may' \subseteq Real
           /\ CpuClear(d) => must' \subseteq Real /\ may' \subseteq Real
           /\ CpuImul3(d, s) => must' \subseteq Real /\ may' \subseteq Real
<1>1. must \subseteq Real /\ may \subseteq Real
  BY DEF TypeInv
<1>2. Within(d, Real) /\ d.len \in {1, 2, 4} /\ s.len \in {1, 2, 4}
  BY DEF Plain
<1>3. Xfer(must, d, s) \subseteq Real /\ Xfer(may, d, s) \subseteq Real
  BY <1>1, <1>2, XferIn
<1>4. Combine(must, d, s) \subseteq Real
  BY <1>1, <1>2, CombineIn
<1>5. \A b : Fill(may, d, b) \subseteq Real
  BY <1>1, <1>2, FillIn
<1>6. Clr(must, d) \subseteq Real /\ Clr(may, d) \subseteq Real
  BY <1>1, ClrIn
<1>7. QED BY <1>3, <1>4, <1>5, <1>6 DEF CpuMove, CpuArith, CpuClear, CpuImul3, Cpu

\* A routine that moves or combines, and one that clears.
LEMMA TagsTyped ==
    ASSUME TypeInv, NEW d, Plain(d), NEW s, Plain(s), s.len <= d.len
    PROVE  Xfer(tags, d, s) \subseteq Loc /\ Combine(tags, d, s) \subseteq Loc
           /\ Extend(tags, d, s) \subseteq Loc /\ Clr(tags, d) \subseteq Loc
<1>1. tags \subseteq Loc
  BY DEF TypeInv, TypeOK
<1>2. Within(d, Loc) /\ d.len \in {1, 2, 4} /\ s.len \in {1, 2, 4}
  BY PlainLoc
<1>3. QED BY <1>1, <1>2, XferIn, CombineIn, ExtendIn, ClrIn

LEMMA ClearTyped ==
    ASSUME TypeInv, NEW d, Plain(d), r_clr(d) \/ tagmap_clr(d)
    PROVE  tags' \subseteq Loc
<1>1. tags \subseteq Loc
  BY DEF TypeInv, TypeOK
<1>2. CASE r_clr(d)
  BY <1>1, <1>2, ClrIn DEF r_clr
<1>3. CASE tagmap_clr(d)
  <2>1. d.len \in {1, 2, 4}
    BY DEF Plain
  <2>2. PICK b : tags' = WithBitmap(tags, b) /\ b \subseteq Bitmap(tags)
    BY <1>3, <2>1 DEF tagmap_clr, tagmap_clrb, tagmap_clrw, tagmap_clrl
  <2>3. QED BY <1>1, <2>2, BitmapIn, WithBitmapIn
<1>4. QED BY <1>2, <1>3

LEMMA SignTyped ==
    ASSUME TypeInv, NEW d, Plain(d), NEW s, CpuSignExtend(d, s)
    PROVE  must' \subseteq Real /\ may' \subseteq Real
<1> DEFINE B == {k \in 0 .. d.len - 1 : (IF k < s.len THEN k ELSE s.len - 1) \in Get(must, s)}
           C == {k \in 0 .. d.len - 1 : IF k < s.len THEN k \in Get(may, s) ELSE Any(may, {s})}
<1>1. must \subseteq Real /\ may \subseteq Real /\ Within(d, Real)
  BY DEF TypeInv, Plain
<1>2. must' = Put(must, d, B) /\ may' = Put(may, d, C)
  BY DEF CpuSignExtend, Cpu
<1>3. (\A k \in B : <<d.base, d.off + k>> \in Real) /\ (\A k \in C : <<d.base, d.off + k>> \in Real)
  BY <1>1 DEF Within
<1> HIDE DEF B, C
<1>4. Put(must, d, B) \subseteq Real /\ Put(may, d, C) \subseteq Real
  BY <1>1, <1>3, PutIn
<1>5. QED BY <1>2, <1>4

\* Division and multiplication.
LEMMA PairTyped ==
    ASSUME TypeInv, NEW s, Plain(s)
    PROVE  /\ CombinePair(tags, s) \subseteq Loc
           /\ CombinePair(tags, ReadAsByte(s)) \subseteq Loc
           /\ CpuDiv(s) => must' \subseteq Real /\ may' \subseteq Real
           /\ CpuMul(s) => must' \subseteq Real /\ may' \subseteq Real
<1>1. tags \subseteq Loc /\ must \subseteq Real /\ may \subseteq Real /\ s.len \in {1, 2, 4}
  BY DEF TypeInv, TypeOK, Plain
<1>2. \A n \in {1, 2, 4} : /\ Within(Hi(n), Real) /\ Within(Lo(n), Real)
                           /\ Within(Hi(n), Loc) /\ Within(Lo(n), Loc)
  BY HiLoReal, PlainLoc DEF Plain
<1>3. CombinePair(tags, s) \subseteq Loc
  BY <1>1, <1>2, PairIn
<1>4. CombinePair(tags, ReadAsByte(s)) \subseteq Loc
  <2>1. ReadAsByte(s).len = 1
    BY DEF ReadAsByte, Op
  <2>2. QED BY <1>1, <1>2, <2>1, PairIn
<1>5. CombinePair(must, s) \subseteq Real
  BY <1>1, <1>2, PairIn
<1>6. CombinePair(Xfer(must, Hi(s.len), Lo(s.len)), s) \subseteq Real
  <2>1. Xfer(must, Hi(s.len), Lo(s.len)) \subseteq Real
    BY <1>1, <1>2, HiLoReal, XferIn
  <2>2. QED BY <1>1, <1>2, <2>1, PairIn
<1>7. \A b : FillPair(may, s.len, b) \subseteq Real
  BY <1>1, <1>2, FillPairIn
<1>8. QED BY <1>3, <1>4, <1>5, <1>6, <1>7 DEF CpuDiv, CpuMul, Cpu

LEMMA MovesTyped ==
    ASSUME TypeInv, NEW d, Plain(d), NEW s, Plain(s), s.len = d.len, NEW c \in BOOLEAN
    PROVE  /\ MovRegs(d, s) \/ MovLoad(d, s) \/ MovStore(d, s) => TypeInv'
           /\ Movs(d, s) \/ PushReg(d, s) \/ PushMem(d, s) \/ PopReg(d, s) \/ PopMem(d, s) => TypeInv'
           /\ CmovRegs(d, s, c) \/ CmovLoad(d, s, c) => TypeInv'
           /\ BitscanRegs(d, s) \/ BitscanLoad(d, s) => TypeInv'
<1>1. s.len <= d.len
  BY DEF Plain
<1>2. Xfer(tags, d, s) \subseteq Loc
  BY <1>1, TagsTyped
<1>3. CpuMove(d, s) => must' \subseteq Real /\ may' \subseteq Real
  BY <1>1, CpuTyped
<1>4. r2m_xfer(d, s) => tags' = Xfer(tags, d, s)
  BY DEF r2m_xfer, r2m_xfer_opb, r2m_xfer_opw, r2m_xfer_opl
<1>5. MovRegs(d, s) \/ MovLoad(d, s) \/ MovStore(d, s) => TypeInv'
  BY <1>2, <1>3, <1>4, UseTyped
     DEF MovRegs, MovLoad, MovStore, r2r_xfer, m2r_xfer, Typed
<1>6. Movs(d, s) \/ PushReg(d, s) \/ PushMem(d, s) \/ PopReg(d, s) \/ PopMem(d, s) => TypeInv'
  BY <1>2, <1>3, <1>4, UseTyped
     DEF Movs, PushReg, PushMem, PopReg, PopMem, m2m_xfer, m2r_xfer, Typed
<1>7. CmovRegs(d, s, c) \/ CmovLoad(d, s, c) => TypeInv'
  <2>1. tags \subseteq Loc /\ must \subseteq Real /\ may \subseteq Real
    BY DEF TypeInv, TypeOK
  <2>2. CASE c
    BY <1>2, <1>3, <2>2, UseTyped DEF CmovRegs, CmovLoad, r2r_xfer, m2r_xfer, Typed
  <2>3. CASE ~c
    BY <2>1, <2>3, UseTyped DEF CmovRegs, CmovLoad, Cpu, Typed
  <2>4. QED BY <2>2, <2>3
<1>8. BitscanOf(d, s) => must' \subseteq Real /\ may' \subseteq Real
  <2> DEFINE B == IF Any(must, {s}) THEN {0} ELSE {}
  <2>1. must \subseteq Real /\ may \subseteq Real /\ Within(d, Real) /\ d.len \in {1, 2, 4}
    BY DEF TypeInv, Plain
  <2>2. \A k \in B : <<d.base, d.off + k>> \in Real
    BY <2>1 DEF Within
  <2> HIDE DEF B
  <2>3. Put(must, d, B) \subseteq Real
    BY <2>1, <2>2, PutIn
  <2>4. \A b : Fill(may, d, b) \subseteq Real
    BY <2>1, FillIn
  <2>5. QED BY <2>3, <2>4 DEF BitscanOf, Cpu, B
<1>9. BitscanRegs(d, s) \/ BitscanLoad(d, s) => TypeInv'
  <2>1. BitscanRegs(d, s) \/ BitscanLoad(d, s) => Typed
    BY <1>2, <1>8 DEF BitscanRegs, BitscanLoad, r2r_xfer, m2r_xfer, Typed
  <2>2. BitscanRegs(d, s) \/ BitscanLoad(d, s) => Use("bitscan")
    BY DEF BitscanRegs, BitscanLoad, BitscanOf
  <2>3. QED BY <2>1, <2>2, UseTyped
<1>10. QED BY <1>5, <1>6, <1>7, <1>9

LEMMA ArithTyped ==
    ASSUME TypeInv, NEW d, Plain(d), NEW s, Plain(s), s.len = d.len, NEW c \in BOOLEAN
    PROVE  /\ BinaryLoad(d, s) \/ BinaryStore(d, s) \/ ImulRegs(d, s) \/ ImulLoad(d, s) => TypeInv'
           /\ Imul3Regs(d, s) \/ Imul3Load(d, s) => TypeInv'
           /\ BinaryRegs(d, s, c) \/ BinaryBytes(d, s, c) => TypeInv'
<1>1. s.len <= d.len
  BY DEF Plain
<1>2. Combine(tags, d, s) \subseteq Loc /\ Clr(tags, d) \subseteq Loc
  BY <1>1, TagsTyped
<1>3. /\ CpuArith(d, s) => must' \subseteq Real /\ may' \subseteq Real
      /\ CpuImul3(d, s) => must' \subseteq Real /\ may' \subseteq Real
      /\ CpuClear(d) => must' \subseteq Real /\ may' \subseteq Real
  BY <1>1, CpuTyped
<1>4. BinaryLoad(d, s) \/ BinaryStore(d, s) \/ ImulRegs(d, s) \/ ImulLoad(d, s) => TypeInv'
  BY <1>2, <1>3, UseTyped
     DEF BinaryLoad, BinaryStore, ImulRegs, ImulLoad, r2r_binary, m2r_binary, r2m_binary, Typed
<1>5. Imul3Regs(d, s) \/ Imul3Load(d, s) => TypeInv'
  BY <1>2, <1>3, UseTyped DEF Imul3Regs, Imul3Load, r2r_binary, m2r_binary, Typed
<1>6. BinaryOp(d, s, c) => Typed
  BY <1>2, <1>3 DEF BinaryOp, r_clr, r2r_binary, Typed
<1>7. BinaryRegs(d, s, c) \/ BinaryBytes(d, s, c) => TypeInv'
  BY <1>6, UseTyped DEF BinaryRegs, BinaryBytes
<1>8. QED BY <1>4, <1>5, <1>7

LEMMA ExchangesTyped ==
    ASSUME TypeInv, NEW d, Plain(d), NEW s, Plain(s), s.len = d.len, NEW c \in BOOLEAN
    PROVE  /\ XchgRegs(d, s) \/ XaddRegs(d, s) \/ Cmpxchg8(d, s) => TypeInv'
           /\ CmpxchgRegs(d, s, c) \/ CmpxchgMem(d, s, c) => TypeInv'
           /\ s.base = Mem => (XchgMem(d, s) => TypeInv')
           /\ d.base = Mem => (XaddMem(d, s) => TypeInv')
<1>1. tags \subseteq Loc /\ must \subseteq Real /\ may \subseteq Real
  BY DEF TypeInv, TypeOK
<1>2. /\ s.len <= d.len /\ d.len \in {1, 2, 4} /\ s.len \in {1, 2, 4}
      /\ Within(d, Real) /\ Within(s, Real) /\ Within(d, Loc) /\ Within(s, Loc)
  BY PlainLoc DEF Plain
<1>3. /\ Swap(tags, d, s) \subseteq Loc
      /\ Swap(must, d, s) \subseteq Real /\ Swap(may, d, s) \subseteq Real
  BY <1>1, <1>2, SwapIn
<1>4. XchgRegs(d, s) => TypeInv'
  <2>1. xchg_r2r(d, s) => tags' \subseteq Loc
    <3>1. CASE d.len < 4
      BY <1>3, <3>1 DEF xchg_r2r
    <3>2. CASE d.len = 4
      <4>1. Xfer(Xfer(Xfer(tags, Reg(Scratch, 4), d), d, s), s, Reg(Scratch, 4)) \subseteq Loc
        BY <1>1, <3>2, ExchangeIn
      <4>2. QED BY <3>2, <4>1 DEF xchg_r2r
    <3>3. QED BY <1>2, <3>1, <3>2
  <2>2. QED BY <1>3, <2>1, UseTyped DEF XchgRegs, Cpu, Typed
<1>5. CpuXadd(d, s) => must' \subseteq Real /\ may' \subseteq Real
  <2>1. Put(Xfer(must, s, d), d, Get(must, d) \cup Get(must, s)) \subseteq Real
    BY <1>1, <1>2, CpuXaddIn
  <2>2. Xfer(may, s, d) \subseteq Real
    BY <1>1, <1>2, XferIn
  <2>3. \A b : Fill(Xfer(may, s, d), d, b) \subseteq Real
    BY <1>2, <2>2, FillIn
  <2>4. QED BY <2>1, <2>3 DEF CpuXadd, Cpu
<1>6. XaddRegs(d, s) => TypeInv'
  <2>1. d.len = 4 => xadd_opl(tags, d, s) \subseteq Loc
    BY <1>1, <1>2, ExchangeIn
  <2>2. xadd_r2r(tags, d, s) \subseteq Loc
    BY <1>1, <1>2, XaddIn
  <2>3. XaddRegs(d, s) => Typed
    BY <1>5, <2>1, <2>2 DEF XaddRegs, Typed
  <2>4. XaddRegs(d, s) => \E k : Use(k)
    BY DEF XaddRegs
  <2>5. QED BY <2>3, <2>4, UseTyped
<1>7. Cmpxchg8(d, s) => TypeInv'
  <2>1. d.len = 1 => (CpuMove(AL, d) => must' \subseteq Real /\ may' \subseteq Real)
    <3>1. Plain(AL) /\ AL.len = 1
      BY Accumulator, HalfReal, OpFields
    <3>2. QED BY <3>1, CpuTyped
  <2>2. CpuMove(d, s) => must' \subseteq Real /\ may' \subseteq Real
    BY <1>2, CpuTyped
  <2>3. QED BY <1>1, <2>1, <2>2, UseTyped DEF Cmpxchg8, Typed
<1>8. CmpxchgOp(d, s, c) => TypeInv'
  <2>1. /\ cmpxchg_fast(tags, d) \subseteq Loc
        /\ cmpxchg_slow(cmpxchg_fast(tags, d), d, s) \subseteq Loc
    BY <1>1, CmpxchgIn
  <2>2. CpuMove(d, s) => must' \subseteq Real /\ may' \subseteq Real
    BY <1>2, CpuTyped
  <2>3. CpuMove(Reg(EAX, d.len), d) => must' \subseteq Real /\ may' \subseteq Real
    <3>1. Plain(Reg(EAX, d.len)) /\ d.len <= Reg(EAX, d.len).len
      BY <1>2, Accumulator, RegReal, RegLen
    <3>2. QED BY <3>1, CpuTyped
  <2>4. CmpxchgOp(d, s, c) => Typed
    BY <2>1, <2>2, <2>3 DEF CmpxchgOp, Typed
  <2>5. QED BY <2>4, UseTyped DEF CmpxchgOp
<1>9. CmpxchgRegs(d, s, c) \/ CmpxchgMem(d, s, c) => TypeInv'
  BY <1>8 DEF CmpxchgRegs, CmpxchgMem
<1>10. s.base = Mem => (XchgMem(d, s) => TypeInv')
  <2>1. SUFFICES ASSUME s.base = Mem, XchgMem(d, s) PROVE TypeInv'
    OBVIOUS
  <2>2. LessWord(Xfer(tags, d, s), s, Get(tags, d)) \subseteq Loc
    <3>1. Xfer(tags, d, s) \subseteq Loc
      BY <1>1, <1>2, XferIn
    <3>2. QED BY <2>1, <3>1, LessWordIn
  <2>3. Typed
    BY <1>3, <2>1, <2>2 DEF XchgMem, xchg_m2r_op, xchg_m2r_opw, Cpu, Typed
  <2>4. \E k : Use(k)
    BY <2>1 DEF XchgMem
  <2>5. QED BY <2>3, <2>4, UseTyped
<1>11. d.base = Mem => (XaddMem(d, s) => TypeInv')
  <2>1. SUFFICES ASSUME d.base = Mem, XaddMem(d, s) PROVE TypeInv'
    OBVIOUS
  <2>2. /\ xadd_r2m_opb(tags, s, d) \subseteq Loc
        /\ xadd_r2m_opw(tags, s, d) \subseteq Loc
        /\ xadd_r2m_opl(tags, s, d) \subseteq Loc
    BY <1>1, <2>1, XaddMemIn
  <2>3. tags' \subseteq Loc
    BY <1>2, <2>1, <2>2 DEF XaddMem
  <2>4. QED BY <1>5, <2>1, <2>3, UseTyped DEF XaddMem, Typed
<1>12. QED BY <1>4, <1>6, <1>7, <1>9, <1>10, <1>11

LEMMA ClearsTyped ==
    ASSUME TypeInv, NEW d, Plain(d)
    PROVE  /\ MovImm(d) \/ PushImm(d) \/ Setcc(d) \/ Stmxcsr(d) \/ Smsw(d) => TypeInv'
           /\ Lar(d) \/ Pushf(d) \/ CallNear(d) => TypeInv'
<1>1. (r_clr(d) \/ tagmap_clr(d)) => tags' \subseteq Loc
  BY ClearTyped
<1>2. CpuClear(d) => must' \subseteq Real /\ may' \subseteq Real
  <2>1. d.len <= d.len
    BY DEF Plain
  <2>2. QED BY <2>1, CpuTyped
<1>3. QED BY <1>1, <1>2, UseTyped
             DEF MovImm, PushImm, Setcc, Stmxcsr, Smsw, Lar, Pushf, CallNear, Typed

LEMMA OthersTyped ==
    ASSUME TypeInv, NEW d, Plain(d)
    PROVE  /\ BinaryImm(d) \/ Shift(d) => TypeInv'
           /\ Div(d) \/ Mul(d) \/ Imul1(d) \/ DivMem(d) \/ MulMem(d) \/ Imul1Mem(d) => TypeInv'
           /\ Default(d, Reg(Xmm, 4)) \/ Default(Reg(Xmm, 4), d) => TypeInv'
           /\ Stos(d) \/ Lods(d) \/ Enter(d) \/ Leave(d) => TypeInv'
<1>1. tags \subseteq Loc /\ must \subseteq Real /\ may \subseteq Real
  BY DEF TypeInv, TypeOK
<1>2. d.len \in {1, 2, 4} /\ d.len <= d.len /\ Within(d, Real) /\ Within(d, Loc)
  BY PlainLoc DEF Plain
<1>3. \A b : Fill(may, d, b) \subseteq Real
  BY <1>1, <1>2, FillIn
<1>4. BinaryImm(d) => TypeInv'
  BY <1>1, <1>3, UseTyped DEF BinaryImm, Cpu, Typed
<1>5. Shift(d) => TypeInv'
  <2> DEFINE B == {k \in 1 .. d.len - 1 : k - 1 \in Get(must, d)}
  <2>1. \A k \in B : <<d.base, d.off + k>> \in Real
    BY <1>2 DEF Within
  <2>2. Put(must, d, B) \subseteq Real
    BY <1>1, <2>1, PutIn
  <2> HIDE DEF B
  <2>3. QED BY <1>1, <1>3, <2>2, UseTyped DEF Shift, Cpu, Typed, B
<1>6. Div(d) \/ Mul(d) \/ Imul1(d) \/ DivMem(d) \/ MulMem(d) \/ Imul1Mem(d) => TypeInv'
  <2>1. Div(d) \/ Mul(d) \/ Imul1(d) => TypeInv'
    BY PairTyped, UseTyped DEF Div, Mul, Imul1, r2r_ternary, Typed
  <2>2. DivMem(d) \/ MulMem(d) \/ Imul1Mem(d) => TypeInv'
    BY PairTyped, UseTyped DEF DivMem, MulMem, Imul1Mem, m2r_ternary, Typed
  <2>3. QED BY <2>1, <2>2
<1>7. Plain(Reg(Xmm, 4)) /\ Reg(Xmm, 4).len = 4
  BY RegReal, RegLen
<1>8. Default(d, Reg(Xmm, 4)) \/ Default(Reg(Xmm, 4), d) => TypeInv'
  <2>1. d.len = Reg(Xmm, 4).len /\ CpuMove(d, Reg(Xmm, 4)) => must' \subseteq Real /\ may' \subseteq Real
    BY <1>2, <1>7, CpuTyped
  <2>2. d.len = Reg(Xmm, 4).len /\ CpuMove(Reg(Xmm, 4), d) => must' \subseteq Real /\ may' \subseteq Real
    BY <1>2, <1>7, CpuTyped
  <2>3. QED BY <1>1, <2>1, <2>2, UseTyped DEF Default, Typed
<1>9. PICK e : e = Reg(EAX, d.len)
  OBVIOUS
<1>10. Plain(e) /\ e.len = d.len
  BY <1>2, <1>9, Accumulator, RegReal, RegLen
<1>11. Stos(d) => TypeInv'
  <2>1. r2m_xfer(d, e) => tags' \subseteq Loc
    BY <1>2, <1>10, TagsTyped DEF r2m_xfer, r2m_xfer_opb, r2m_xfer_opw, r2m_xfer_opl
  <2>2. CpuMove(d, e) => must' \subseteq Real /\ may' \subseteq Real
    BY <1>2, <1>10, CpuTyped
  <2>3. QED BY <1>9, <2>1, <2>2, UseTyped DEF Stos, Typed
<1>12. Lods(d) => TypeInv'
  <2>1. m2r_xfer(e, d) => tags' \subseteq Loc
    BY <1>2, <1>10, TagsTyped DEF m2r_xfer
  <2>2. CpuMove(e, d) => must' \subseteq Real /\ may' \subseteq Real
    BY <1>2, <1>10, CpuTyped
  <2>3. QED BY <1>9, <2>1, <2>2, UseTyped DEF Lods, Typed
<1>13. Enter(d) => TypeInv'
  <2> DEFINE b == Reg(EBP, 4)
             p == Reg(ESP, 4)
  <2>1. Within(b, Real) /\ b.len = 4 /\ p.len = 4
    BY Accumulator, RegReal, RegLen DEF Plain
  <2> HIDE DEF b, p
  <2>2. ASSUME NEW t, t \subseteq Real, d.len = 4 PROVE Xfer(Xfer(t, d, b), b, p) \subseteq Real
    <3>1. Xfer(t, d, b) \subseteq Real
      BY <1>2, <2>1, <2>2, XferIn
    <3>2. QED BY <2>1, <3>1, XferIn
  <2>3. QED BY <1>1, <2>2, UseTyped DEF Enter, Cpu, Typed, b, p
<1>14. Leave(d) => TypeInv'
  <2> DEFINE b == Reg(EBP, d.len)
             p == Reg(ESP, d.len)
             f(t) == Xfer(Xfer(t, p, b), b, d)
  <2>1. Plain(b) /\ Plain(p) /\ b.len = d.len /\ p.len = d.len
    BY <1>2, Accumulator, RegReal, RegLen
  <2>2. Within(b, Real) /\ Within(p, Real) /\ Within(b, Loc) /\ Within(p, Loc)
    BY <2>1, PlainLoc DEF Plain
  <2> HIDE DEF b, p
  <2>3. ASSUME NEW L, NEW t, t \subseteq L, Within(b, L), Within(p, L) PROVE f(t) \subseteq L
    <3>1. Xfer(t, p, b) \subseteq L
      BY <1>2, <2>1, <2>3, XferIn
    <3>2. QED BY <1>2, <2>1, <2>3, <3>1, XferIn
  <2>4. f(tags) \subseteq Loc /\ f(must) \subseteq Real /\ f(may) \subseteq Real
    BY <1>1, <2>2, <2>3
  <2>5. QED BY <2>4, UseTyped DEF Leave, Cpu, Typed, b, p
<1>15. QED BY <1>4, <1>5, <1>6, <1>8, <1>11, <1>12, <1>13, <1>14

LEMMA ExtensionsTyped ==
    ASSUME TypeInv, NEW d, Plain(d), NEW s, Plain(s)
    PROVE  MovsxRegs(d, s) \/ MovzxRegs(d, s) \/ MovsxLoad(d, s) \/ MovzxLoad(d, s) => TypeInv'
<1>1. SUFFICES ASSUME s.len <= d.len,
                      MovsxRegs(d, s) \/ MovzxRegs(d, s) \/ MovsxLoad(d, s) \/ MovzxLoad(d, s)
               PROVE  TypeInv'
  BY DEF MovsxRegs, MovzxRegs, MovsxLoad, MovzxLoad, Plain
<1>2. PICK b : b = ReadAsByte(s)
  OBVIOUS
<1>3. tags \subseteq Loc /\ d.len \in {1, 2, 4} /\ Within(d, Loc) /\ b.len = 1
  BY <1>2, PlainLoc, OpFields DEF TypeInv, TypeOK, ReadAsByte
<1>4. Xfer(tags, d, s) \subseteq Loc /\ Extend(tags, d, s) \subseteq Loc
  BY <1>1, TagsTyped
<1>5. Xfer(tags, d, b) \subseteq Loc /\ Extend(tags, d, b) \subseteq Loc
  BY <1>3, XferIn, ExtendIn
<1>6. /\ CpuMove(d, s) => must' \subseteq Real /\ may' \subseteq Real
      /\ CpuSignExtend(d, s) => must' \subseteq Real /\ may' \subseteq Real
  BY <1>1, CpuTyped, SignTyped
<1>7. Typed
  BY <1>1, <1>2, <1>4, <1>5, <1>6 DEF MovsxRegs, MovzxRegs, MovsxLoad, MovzxLoad, movsx_r2r,
     movzx_r2r, movsx_m2r, movzx_m2r, Typed
<1>8. \E k : Use(k)
  BY <1>1 DEF MovsxRegs, MovzxRegs, MovsxLoad, MovzxLoad
<1>9. QED BY <1>7, <1>8, UseTyped

LEMMA FixedTyped ==
    ASSUME TypeInv, Lahf \/ Salc \/ Rdtsc \/ Cpuid \/ Cbw \/ Cwd \/ Cdq \/ Cwde
    PROVE  TypeInv'
<1>1. tags \subseteq Loc /\ must \subseteq Real /\ may \subseteq Real
  BY DEF TypeInv, TypeOK
<1>2. Plain(AL) /\ Plain(AH) /\ AL.len = 1 /\ AH.len = 1
  BY Accumulator, HalfReal, OpFields
<1>3. \A n \in {2, 4} : /\ Plain(Reg(EAX, n)) /\ Reg(EAX, n).len = n
                        /\ Plain(Reg(EDX, n)) /\ Reg(EDX, n).len = n
  BY Accumulator, RegReal, RegLen
<1>4. CASE Lahf \/ Salc
  <2>1. \A d : Clr(tags, d) \subseteq Loc /\ Clr(must, d) \subseteq Real /\ Clr(may, d) \subseteq Real
    BY <1>1, ClrIn
  <2>2. QED BY <1>4, <2>1, UseTyped DEF Lahf, Salc, CpuClear, Cpu, Typed
<1>5. CASE Rdtsc \/ Cpuid
  <2>1. r_clrl2(tags) \subseteq Loc
    BY <1>1 DEF r_clrl2, Clr
  <2>2. r_clrl4(tags) \subseteq Loc
    BY <2>1 DEF r_clrl4, Clr
  <2>3. QED BY <1>1, <1>5, <2>1, <2>2, UseTyped DEF Rdtsc, Cpuid, CpuClearRegs, Cpu, Typed
<1>6. ASSUME NEW d, NEW s, Plain(d), Plain(s), s.len = d.len, SignInto(d, s) PROVE TypeInv'
  <2>1. Within(d, Real) /\ s.len <= d.len
    BY <1>6 DEF Plain
  <2>2. \A b : Fill(must, d, b) \subseteq Real /\ Fill(may, d, b) \subseteq Real
    BY <1>1, <2>1, FillIn
  <2>3. Xfer(tags, d, s) \subseteq Loc
    BY <1>6, <2>1, TagsTyped
  <2>4. Typed
    BY <1>6, <2>2, <2>3 DEF SignInto, Cpu, Typed
  <2>5. \E k : Use(k)
    BY <1>6 DEF SignInto
  <2>6. QED BY <2>4, <2>5, UseTyped
<1>7. CASE Cbw
  BY <1>2, <1>6, <1>7 DEF Cbw
<1>8. CASE Cwd
  BY <1>3, <1>6, <1>8 DEF Cwd
<1>9. CASE Cdq
  BY <1>3, <1>6, <1>9 DEF Cdq
<1>10. CASE Cwde
  <2>1. cwde(tags) \subseteq Loc
    BY <1>1, <1>3, PlainLoc, ExtendIn DEF cwde
  <2>2. must' \subseteq Real /\ may' \subseteq Real
    BY <1>3, <1>10, SignTyped DEF Cwde
  <2>3. QED BY <1>10, <2>1, <2>2, UseTyped DEF Cwde, Typed
<1>11. QED BY <1>4, <1>5, <1>7, <1>8, <1>9, <1>10

LEMMA StringsTyped ==
    ASSUME TypeInv, NEW a \in Starts, NEW n \in {1, 2, 4}, NEW c \in Counts, NEW down \in BOOLEAN,
           RepStos(a, n, c, down)
    PROVE  TypeInv'
<1>1. tags \subseteq Loc /\ must \subseteq Real /\ may \subseteq Real
  BY DEF TypeInv, TypeOK
<1>2. c \in Nat
  BY Propagation32Assumption
<1>3. PICK m \in Nat : m = c * n
  BY <1>2
<1>4. Reaches(a, n, m, down)
  BY <1>3 DEF RepStos, Reaches
<1>5. PICK lo, x : lo = Lowest(a, n, m, down) /\ x = Taken(a, m, down)
  OBVIOUS
<1>6. lo \in Nat /\ lo + m <= Size /\ x \in Nat /\ x + m <= Size
  BY <1>4, <1>5, StosRange
<1>7. Stosn(must, lo, n, c) \subseteq Real /\ Stosn(may, lo, n, c) \subseteq Real
  BY <1>1, <1>2, <1>3, <1>6, StosnIn
<1>8. must' = Stosn(must, lo, n, c) /\ may' = Stosn(may, lo, n, c)
  BY <1>3, <1>5 DEF RepStos, Cpu, Lowest
<1>9. tags' = r2m_xfer_n(tags, a, n, c, down)
  BY DEF RepStos, r2m_xfer_opbn, r2m_xfer_opwn, r2m_xfer_opln
<1>10. tags' \in {WithBitmap(tags, tagmap_setn(Bitmap(tags), x, m)),
                  WithBitmap(tags, tagmap_clrn(Bitmap(tags), x, m))}
  BY <1>3, <1>5, <1>9 DEF r2m_xfer_n, Taken
<1>11. tags' \subseteq Loc
  BY <1>1, <1>6, <1>10, SetRangeIn
<1>12. Typed
  BY <1>7, <1>8, <1>11 DEF Typed
<1>13. \E k : Use(k)
  BY DEF RepStos
<1>14. QED BY <1>12, <1>13, UseTyped

LEMMA FramesTyped ==
    ASSUME TypeInv, NEW a \in Frames, NEW n \in {2, 4}, Pusha(a, n) \/ Popa(a, n)
    PROVE  TypeInv'
<1>1. tags \subseteq Loc /\ must \subseteq Real /\ may \subseteq Real
  BY DEF TypeInv, TypeOK
<1>2. a \in Nat /\ a + 8 * n <= Size
  BY Propagation32Assumption DEF Pusha, Popa
<1>3. CASE Pusha(a, n)
  <2>1. Saved(tags, a, n) \subseteq Loc
    BY <1>1, <1>2, RealLoc, SavedIn
  <2>2. Saved(must, a, n) \subseteq Real /\ Saved(may, a, n) \subseteq Real
    BY <1>1, <1>2, SavedIn
  <2>3. tags' = Saved(tags, a, n)
    BY <1>3 DEF Pusha, r2m_save_opw, r2m_save_opl
  <2>4. QED BY <1>3, <2>1, <2>2, <2>3, UseTyped DEF Pusha, Cpu, Typed
<1>4. CASE Popa(a, n)
  <2>1. tags' = Restored(tags, a, n)
    BY <1>4 DEF Popa, m2r_restore_opw, m2r_restore_opl
  <2>2. Typed
    BY <1>1, <1>4, <2>1, RestoredIn DEF Popa, Cpu, Typed
  <2>3. \E k : Use(k)
    BY <1>4 DEF Popa
  <2>4. QED BY <2>2, <2>3, UseTyped
<1>5. QED BY <1>3, <1>4

LEMMA LeaTyped == ASSUME TypeInv, NEW d, Plain(d), NEW R, Lea(d, R) PROVE TypeInv'
<1>1. tags \subseteq Loc /\ must \subseteq Real /\ may \subseteq Real /\ Within(d, Real)
  BY DEF TypeInv, TypeOK, Plain
<1> DEFINE low == {Reg(r.base, d.len) : r \in R}
           B == UNION {Get(must, r) : r \in low}
<1>2. \A r \in low : r.len = d.len
  BY RegLen
<1>3. B \subseteq 0 .. d.len - 1
  BY <1>2 DEF Get
<1>4. Put(must, d, B) \subseteq Real
  <2>1. \A k \in B : <<d.base, d.off + k>> \in Real
    BY <1>1, <1>3 DEF Within
  <2>2. QED BY <1>1, <2>1, PutIn
<1>5. \A b : Fill(may, d, b) \subseteq Real
  BY <1>1, FillIn
<1>6. lea_r2r(tags, d, R) \subseteq Loc
  BY <1>1, LeaIn
<1> HIDE DEF low, B
<1>7. Typed
  BY <1>4, <1>5, <1>6 DEF Lea, Cpu, Typed, low, B
<1>8. \E k : Use(k)
  BY DEF Lea
<1>9. QED BY <1>7, <1>8, UseTyped

LEMMA TypeStep == ASSUME TypeInv, [Next]_vars PROVE TypeInv'
<1>1. CASE Lahf \/ Salc \/ Rdtsc \/ Cpuid \/ Cbw \/ Cwd \/ Cdq \/ Cwde
  BY <1>1, FixedTyped
<1>2. CASE \E d \in Operand :
              \/ MovImm(d) \/ Setcc(d) \/ Smsw(d) \/ BinaryImm(d) \/ Shift(d)
              \/ Default(d, Reg(Xmm, 4)) \/ Default(Reg(Xmm, 4), d)
  BY <1>2, OperandPlain, ClearsTyped, OthersTyped
<1>3. CASE \E d \in RegOperand : Lar(d) \/ Div(d) \/ Mul(d) \/ Imul1(d)
  BY <1>3, RegPlain, ClearsTyped, OthersTyped
<1>4. CASE \E d \in MemOperand :
              \/ PushImm(d) \/ Stmxcsr(d) \/ Pushf(d) \/ CallNear(d) \/ Stos(d) \/ Enter(d)
              \/ Lods(d) \/ Leave(d) \/ DivMem(d) \/ MulMem(d) \/ Imul1Mem(d)
  BY <1>4, MemPlain, ClearsTyped, OthersTyped
<1>5. CASE \E d \in RegOperand : \E s \in SameLen(d, RegOperand) :
              \/ MovRegs(d, s) \/ BitscanRegs(d, s) \/ ImulRegs(d, s) \/ Imul3Regs(d, s)
              \/ XchgRegs(d, s) \/ XaddRegs(d, s) \/ Cmpxchg8(d, s)
              \/ \E c \in BOOLEAN : \/ CmovRegs(d, s, c) \/ CmpxchgRegs(d, s, c)
                                    \/ BinaryRegs(d, s, c) \/ BinaryBytes(d, s, c)
  <2>1. PICK d \in RegOperand, s \in RegOperand : s.len = d.len
            /\ \/ MovRegs(d, s) \/ BitscanRegs(d, s) \/ ImulRegs(d, s) \/ Imul3Regs(d, s)
               \/ XchgRegs(d, s) \/ XaddRegs(d, s) \/ Cmpxchg8(d, s)
               \/ \E c \in BOOLEAN : \/ CmovRegs(d, s, c) \/ CmpxchgRegs(d, s, c)
                                     \/ BinaryRegs(d, s, c) \/ BinaryBytes(d, s, c)
    BY <1>5 DEF SameLen
  <2>2. Plain(d) /\ Plain(s) /\ TRUE \in BOOLEAN
    BY RegPlain
  <2>3. QED BY <2>1, <2>2, MovesTyped, ArithTyped, ExchangesTyped
<1>6. CASE \E d \in RegOperand : \E s \in SameLen(d, MemOperand) :
              \/ MovLoad(d, s) \/ BitscanLoad(d, s) \/ PopReg(d, s) \/ BinaryLoad(d, s)
              \/ ImulLoad(d, s) \/ Imul3Load(d, s) \/ XchgMem(d, s)
              \/ \E c \in BOOLEAN : CmovLoad(d, s, c)
  <2>1. PICK d \in RegOperand, s \in MemOperand : s.len = d.len
            /\ \/ MovLoad(d, s) \/ BitscanLoad(d, s) \/ PopReg(d, s) \/ BinaryLoad(d, s)
               \/ ImulLoad(d, s) \/ Imul3Load(d, s) \/ XchgMem(d, s)
               \/ \E c \in BOOLEAN : CmovLoad(d, s, c)
    BY <1>6 DEF SameLen
  <2>2. Plain(d) /\ Plain(s) /\ s.base = Mem /\ TRUE \in BOOLEAN
    BY RegPlain, MemPlain
  <2>3. QED BY <2>1, <2>2, MovesTyped, ArithTyped, ExchangesTyped
<1>7. CASE \E d \in MemOperand : \E s \in SameLen(d, RegOperand) :
              \/ MovStore(d, s) \/ PushReg(d, s) \/ BinaryStore(d, s) \/ XaddMem(d, s) \/ Cmpxchg8(d, s)
              \/ \E c \in BOOLEAN : CmpxchgMem(d, s, c)
  <2>1. PICK d \in MemOperand, s \in RegOperand : s.len = d.len
            /\ \/ MovStore(d, s) \/ PushReg(d, s) \/ BinaryStore(d, s) \/ XaddMem(d, s) \/ Cmpxchg8(d, s)
               \/ \E c \in BOOLEAN : CmpxchgMem(d, s, c)
    BY <1>7 DEF SameLen
  <2>2. Plain(d) /\ Plain(s) /\ d.base = Mem /\ TRUE \in BOOLEAN
    BY RegPlain, MemPlain
  <2>3. QED BY <2>1, <2>2, MovesTyped, ArithTyped, ExchangesTyped
<1>8. CASE \E d \in MemOperand : \E s \in SameLen(d, MemOperand) :
              Movs(d, s) \/ PushMem(d, s) \/ PopMem(d, s)
  <2>1. PICK d \in MemOperand, s \in MemOperand : s.len = d.len
            /\ (Movs(d, s) \/ PushMem(d, s) \/ PopMem(d, s))
    BY <1>8 DEF SameLen
  <2>2. Plain(d) /\ Plain(s) /\ TRUE \in BOOLEAN
    BY MemPlain
  <2>3. QED BY <2>1, <2>2, MovesTyped
<1>9. CASE \E d, s \in RegOperand : MovsxRegs(d, s) \/ MovzxRegs(d, s)
  BY <1>9, RegPlain, ExtensionsTyped
<1>10. CASE \E d \in RegOperand, s \in MemOperand : MovsxLoad(d, s) \/ MovzxLoad(d, s)
  BY <1>10, RegPlain, MemPlain, ExtensionsTyped
<1>11. CASE \E d \in RegOperand : Lea(d, {}) \/ \E b, i \in Regs : Lea(d, {Reg(b, 4), Reg(i, 4)})
  BY <1>11, RegPlain, LeaTyped
<1>12. CASE \E a \in Starts, n \in {1, 2, 4}, c \in Counts, down \in BOOLEAN : RepStos(a, n, c, down)
  BY <1>12, StringsTyped
<1>13. CASE \E a \in Frames, n \in {2, 4} : Pusha(a, n) \/ Popa(a, n)
  BY <1>13, FramesTyped
<1>14. CASE UNCHANGED vars
  BY <1>14 DEF vars, TypeInv, TypeOK
<1>15. QED BY <1>1, <1>2, <1>3, <1>4, <1>5, <1>6, <1>7, <1>8, <1>9, <1>10, <1>11, <1>12, <1>13,
              <1>14 DEF Next

LEMMA TypeInit == ASSUME Init PROVE TypeInv
<1>1. tags \subseteq Real
  <2>1. Input \subseteq Real
    BY Propagation32Assumption DEF Real
  <2>2. QED BY <2>1 DEF Init
<1>2. QED BY <1>1, RealLoc, Propagation32Assumption DEF Init, TypeInv, TypeOK

\* Whatever the program, and however its ranges lie in the bitmap, the routines leave tags
\* on bytes of the context and of the memory, and behind it only where the last loop of
\* tagmap_clrn multiplies a word.
THEOREM TypeCorrect == Spec => []TypeOK
<1>1. Init => TypeInv
  BY TypeInit
<1>2. TypeInv /\ [Next]_vars => TypeInv'
  BY TypeStep
<1>3. TypeInv => TypeOK
  BY DEF TypeInv
<1>4. QED BY <1>1, <1>2, <1>3, PTL DEF Spec

-----------------------------------------------------------------------------
(* Routines are monotone *)

LEMMA PutMono ==
    ASSUME NEW t, NEW u, t \subseteq u, NEW d, NEW B, NEW C, B \subseteq C
    PROVE  Put(t, d, B) \subseteq Put(u, d, C)
BY DEF Put

LEMMA GetMono == ASSUME NEW t, NEW u, t \subseteq u, NEW s PROVE Get(t, s) \subseteq Get(u, s)
BY DEF Get

LEMMA XferMono ==
    ASSUME NEW t, NEW u, t \subseteq u, NEW d, NEW s PROVE Xfer(t, d, s) \subseteq Xfer(u, d, s)
BY GetMono, PutMono DEF Xfer

LEMMA CombineMono ==
    ASSUME NEW t, NEW u, t \subseteq u, NEW d, NEW s
    PROVE  Combine(t, d, s) \subseteq Combine(u, d, s) /\ Xfer(t, d, s) \subseteq Combine(u, d, s)
<1>1. Get(t, d) \subseteq Get(u, d) /\ Get(t, s) \subseteq Get(u, s)
  BY GetMono
<1>2. /\ Get(t, d) \cup Get(t, s) \subseteq Get(u, d) \cup Get(u, s)
      /\ Get(t, s) \subseteq Get(u, d) \cup Get(u, s)
  BY <1>1
<1>3. QED BY <1>2, PutMono DEF Combine, Xfer

LEMMA ClrMono == ASSUME NEW t, NEW u, t \subseteq u, NEW d PROVE Clr(t, d) \subseteq Clr(u, d)
BY DEF Clr

LEMMA SwapMono ==
    ASSUME NEW t, NEW u, t \subseteq u, NEW d, NEW s PROVE Swap(t, d, s) \subseteq Swap(u, d, s)
BY GetMono, XferMono, PutMono DEF Swap

LEMMA PairMono ==
    ASSUME NEW t, NEW u, t \subseteq u, NEW s PROVE CombinePair(t, s) \subseteq CombinePair(u, s)
<1>1. Combine(t, Hi(s.len), s) \subseteq Combine(u, Hi(s.len), s)
  BY CombineMono
<1>2. QED BY <1>1, CombineMono DEF CombinePair

LEMMA SavedMono ==
    ASSUME NEW t, NEW u, t \subseteq u, NEW a, NEW n PROVE Saved(t, a, n) \subseteq Saved(u, a, n)
<1> DEFINE B(v) == {k \in 0 .. (8 * n) - 1 : <<k \div n, k % n>> \in v}
<1>1. B(t) \subseteq B(u)
  OBVIOUS
<1> HIDE DEF B
<1>2. Put(t, Op(Mem, a, 8 * n), B(t)) \subseteq Put(u, Op(Mem, a, 8 * n), B(u))
  BY <1>1, PutMono
<1>3. QED BY <1>2 DEF Saved, B

-----------------------------------------------------------------------------
(* Through the scratch register *)

LEMMA ScratchKept ==
    ASSUME NEW t, NEW d, NEW s, s.base # Scratch
    PROVE  Get(Xfer(t, Reg(Scratch, 4), d), s) = Get(t, s)
<1>1. Reg(Scratch, 4).base = Scratch
  BY RegLen
<1>2. \A k : \A j : <<s.base, s.off + k>> # <<Scratch, j>>
  OBVIOUS
<1>3. QED BY <1>1, <1>2 DEF Get, Xfer, Put, Bytes

LEMMA ScratchHolds ==
    ASSUME NEW t, NEW d, d.len = 4
    PROVE  Get(Xfer(t, Reg(Scratch, 4), d), Reg(Scratch, 4)) = Get(t, d)
<1> DEFINE x == Reg(Scratch, 4)
<1>1. x.base = Scratch /\ x.off = 0 /\ x.len = 4
  BY RegLen
<1> HIDE DEF x
<1>2. Bytes(x) = {<<Scratch, 0 + k>> : k \in 0 .. 3}
  BY <1>1 DEF Bytes
<1>3. Get(t, d) \subseteq 0 .. 3
  BY DEF Get
<1>4. ASSUME NEW k \in 0 .. 3 PROVE <<Scratch, 0 + k>> \in Xfer(t, x, d) <=> k \in Get(t, d)
  <2>1. <<Scratch, 0 + k>> \in Bytes(x)
    BY <1>2
  <2>2. <<Scratch, 0 + k>> \in Xfer(t, x, d) <=> \E j \in Get(t, d) : <<Scratch, 0 + k>> = <<Scratch, 0 + j>>
    BY <1>1, <2>1 DEF Xfer, Put
  <2>3. QED BY <1>3, <2>2
<1>5. Get(Xfer(t, x, d), x) = {k \in 0 .. 3 : <<Scratch, 0 + k>> \in Xfer(t, x, d)}
  BY <1>1 DEF Get
<1>6. QED BY <1>3, <1>4, <1>5 DEF x

LEMMA OtherBase ==
    ASSUME NEW t, NEW d, NEW s, NEW x, d.base # x.base
    PROVE  Get(Xfer(t, d, s), x) = Get(t, x)
<1>1. \A k : \A j : <<x.base, x.off + k>> # <<d.base, d.off + j>>
  OBVIOUS
<1>2. QED BY <1>1 DEF Get, Xfer, Put, Bytes

\* An exchange of longs through the scratch register is an exchange.
LEMMA Exchanged ==
    ASSUME NEW t, NEW d, Plain(d), NEW s, Plain(s), d.len = 4, s.len = 4
    PROVE  Xfer(Xfer(Xfer(t, Reg(Scratch, 4), d), d, s), s, Reg(Scratch, 4))
               = Swap(Xfer(t, Reg(Scratch, 4), d), d, s)
<1> DEFINE x == Reg(Scratch, 4)
           t1 == Xfer(t, x, d)
<1>1. d.base # Scratch /\ x.base = Scratch
  BY RegLen DEF Plain
<1>2. Get(t1, d) = Get(t, d)
  BY <1>1, ScratchKept
<1>3. Get(t1, x) = Get(t, d)
  BY ScratchHolds
<1> HIDE DEF x, t1
<1>4. Get(Xfer(t1, d, s), x) = Get(t1, x)
  BY <1>1, OtherBase
<1>5. Xfer(Xfer(t1, d, s), s, x) = Swap(t1, d, s)
  BY <1>2, <1>3, <1>4 DEF Xfer, Swap
<1>6. QED BY <1>5 DEF x, t1

\* The slow path of cmpxchg undoes what the fast path did to the accumulator.
LEMMA CmpxchgUndone ==
    ASSUME NEW t, NEW d, Plain(d), NEW s
    PROVE  cmpxchg_slow(cmpxchg_fast(t, d), d, s)
               = Xfer(Xfer(t, Reg(Scratch, 4), Reg(EAX, 4)), d, s)
<1> DEFINE x == Reg(Scratch, 4)
           e == Reg(EAX, 4)
           f == Reg(EAX, d.len)
           t1 == Xfer(t, x, e)
           t2 == Xfer(t1, f, d)
<1>1. /\ x.base = Scratch /\ e.base = EAX /\ e.off = 0 /\ e.len = 4
      /\ f.base = EAX /\ f.off = 0 /\ f.len = d.len /\ d.len \in {1, 2, 4}
      /\ EAX # Scratch
  BY RegLen DEF Plain, EAX, Scratch
<1>2. Get(t1, x) = Get(t, e) /\ Get(t1, e) = Get(t, e)
  BY <1>1, ScratchHolds, ScratchKept
<1> HIDE DEF x, e, f, t1
<1>3. Get(t2, x) = Get(t1, x)
  BY <1>1, OtherBase
<1>4. Xfer(t2, e, x) = Put(t2, e, Get(t1, e))
  BY <1>2, <1>3 DEF Xfer
<1>5. Put(t2, e, Get(t1, e)) = t1
  <2>1. Bytes(f) \subseteq Bytes(e) /\ Get(t1, d) \subseteq 0 .. d.len - 1
    BY <1>1 DEF Bytes, Get
  <2>2. t2 \ Bytes(e) = t1 \ Bytes(e)
    <3>1. \A k \in Get(t1, d) : <<f.base, f.off + k>> \in Bytes(f)
      BY <1>1, <2>1 DEF Bytes
    <3>2. QED BY <2>1, <3>1 DEF Xfer, Put
  <2>3. {<<e.base, e.off + k>> : k \in Get(t1, e)} = t1 \cap Bytes(e)
    BY DEF Get, Bytes
  <2>4. QED BY <2>2, <2>3 DEF Put
<1>6. QED BY <1>4, <1>5 DEF cmpxchg_slow, cmpxchg_fast, x, e, f, t1, t2

LEMMA PutGet ==
    ASSUME NEW t, NEW d, d.off \in Nat, d.len \in Nat, NEW B, B \subseteq 0 .. d.len - 1
    PROVE  Get(Put(t, d, B), d) = B
<1>1. ASSUME NEW k \in 0 .. d.len - 1 PROVE <<d.base, d.off + k>> \in Put(t, d, B) <=> k \in B
  <2>1. <<d.base, d.off + k>> \in Bytes(d)
    BY DEF Bytes
  <2>2. \A j \in B : <<d.base, d.off + k>> = <<d.base, d.off + j>> => k = j
    OBVIOUS
  <2>3. QED BY <2>1, <2>2 DEF Put
<1>2. QED BY <1>1 DEF Get

Apart(d, s) == Bytes(d) \cap Bytes(s) = {}

LEMMA PutApart ==
    ASSUME NEW t, NEW d, NEW s, Apart(d, s), NEW B, B \subseteq 0 .. d.len - 1
    PROVE  Get(Put(t, d, B), s) = Get(t, s)
<1>1. \A k \in B : <<d.base, d.off + k>> \in Bytes(d)
  BY DEF Bytes
<1>2. \A k \in 0 .. s.len - 1 : <<s.base, s.off + k>> \in Bytes(s)
  BY DEF Bytes
<1>3. QED BY <1>1, <1>2 DEF Get, Put, Apart

LEMMA PutSame == ASSUME NEW t, NEW d PROVE Put(t, d, Get(t, d)) = t
<1>1. {<<d.base, d.off + k>> : k \in Get(t, d)} = t \cap Bytes(d)
  BY DEF Get, Bytes
<1>2. QED BY <1>1 DEF Put

\* xadd of longs: the exchange, and then the sum, is the sum and the old value.
LEMMA XaddSwap ==
    ASSUME NEW t, NEW d, Plain(d), NEW s, Plain(s), d.len = s.len,
           d = s \/ Bytes(d) \cap Bytes(s) = {}
    PROVE  Combine(Swap(t, d, s), d, s) = Put(Xfer(t, s, d), d, Get(t, d) \cup Get(t, s))
<1>1. CASE d = s
  <2>1. Xfer(t, d, d) = t
    BY PutSame DEF Xfer
  <2>2. Swap(t, d, d) = t
    BY <2>1, PutSame DEF Swap
  <2>3. QED BY <1>1, <2>1, <2>2 DEF Combine
<1>2. CASE Bytes(d) \cap Bytes(s) = {}
  <2> DEFINE D == Get(t, d)
             S == Get(t, s)
             u == Put(Put(t, d, S), s, D)
             v == Put(t, s, D)
             B == D \cup S
  <2>1. d.len \in Nat /\ s.len \in Nat /\ d.off \in Nat /\ s.off \in Nat
    BY DEF Plain
  <2>2. D \subseteq 0 .. d.len - 1 /\ S \subseteq 0 .. d.len - 1
    BY DEF Get
  <2> HIDE DEF D, S
  <2>3. Get(u, s) = D
    BY <2>1, <2>2, PutGet
  <2>4. Get(u, d) = S
    <3>1. Get(u, d) = Get(Put(t, d, S), d)
      <4>1. Apart(s, d) /\ D \subseteq 0 .. s.len - 1
        BY <1>2, <2>2 DEF Apart
      <4>2. PICK w : w = Put(t, d, S)
        OBVIOUS
      <4>3. Get(Put(w, s, D), d) = Get(w, d)
        BY <4>1, PutApart
      <4>4. QED BY <4>2, <4>3
    <3>2. QED BY <2>1, <2>2, <3>1, PutGet
  <2>5. u \ Bytes(d) = v \ Bytes(d)
    <3>1. \A k \in S : <<d.base, d.off + k>> \in Bytes(d)
      BY <2>2 DEF Bytes
    <3>2. \A k \in D : <<s.base, s.off + k>> \in Bytes(s)
      BY <2>2 DEF Bytes
    <3>3. QED BY <3>1, <3>2 DEF Put
  <2>6. Put(u, d, B) = Put(v, d, B)
    BY <2>5 DEF Put
  <2>7. Swap(t, d, s) = u /\ Xfer(t, s, d) = v
    BY DEF Swap, Xfer, D, S
  <2>8. Combine(u, d, s) = Put(u, d, B)
    <3>1. Get(u, d) \cup Get(u, s) = B
      BY <2>3, <2>4
    <3>2. QED BY <3>1 DEF Combine
  <2>9. QED BY <2>6, <2>7, <2>8 DEF D, S
<1>3. QED BY <1>1, <1>2

-----------------------------------------------------------------------------
(* The bitmap, as tags of the memory *)

LEMMA BitmapAll ==
    ASSUME NEW t, t \subseteq Loc, NEW b
    PROVE  \A l \in t : l[1] = Mem => (l \in WithBitmap(t, b) <=> l[2] \in b) /\ l[2] \in Bitmap(t)
<1> SUFFICES ASSUME NEW l \in t, l[1] = Mem
             PROVE  (l \in WithBitmap(t, b) <=> l[2] \in b) /\ l[2] \in Bitmap(t)
  OBVIOUS
<1>1. l = <<Mem, l[2]>>
  BY MemBytes
<1>2. QED BY <1>1 DEF WithBitmap, Bitmap

LEMMA RangeBytes ==
    ASSUME NEW o \in Nat, NEW n \in Nat
    PROVE  Bytes(Op(Mem, o, n)) = {Mem} \X (o .. o + n - 1)
<1>1. Bytes(Op(Mem, o, n)) = {<<Mem, o + k>> : k \in 0 .. n - 1}
  BY OpFields DEF Bytes
<1>2. ASSUME NEW x \in o .. o + n - 1 PROVE <<Mem, x>> \in Bytes(Op(Mem, o, n))
  <2>1. x - o \in 0 .. n - 1 /\ x = o + (x - o)
    OBVIOUS
  <2>2. QED BY <1>1, <2>1
<1>3. ASSUME NEW k \in 0 .. n - 1 PROVE o + k \in o .. o + n - 1
  OBVIOUS
<1>4. QED BY <1>1, <1>2, <1>3

Marked(t, d) == t \cup Bytes(d)

\* A range cleared in the bitmap, or no more than that.
LEMMA BitmapMinus ==
    ASSUME NEW t, t \subseteq Loc, NEW o \in Nat, NEW n \in Nat, NEW b
    PROVE  /\ b = Bitmap(t) \ (o .. o + n - 1) => WithBitmap(t, b) = Clr(t, Op(Mem, o, n))
           /\ Bitmap(t) \ (o .. o + n - 1) \subseteq b => Clr(t, Op(Mem, o, n)) \subseteq WithBitmap(t, b)
<1> DEFINE R == o .. o + n - 1
<1>1. Bytes(Op(Mem, o, n)) = {Mem} \X R
  BY RangeBytes
<1>2. \A l \in t : l[1] = Mem => /\ l \in WithBitmap(t, b) <=> l[2] \in b
                                 /\ l[2] \in Bitmap(t) /\ l = <<Mem, l[2]>>
  BY BitmapAll, MemBytes
<1>3. \A l \in t : l[1] # Mem => l \in WithBitmap(t, b) /\ l \notin Bytes(Op(Mem, o, n))
  BY <1>1 DEF WithBitmap
<1>4. \A l \in t : l[1] = Mem => (l \in Bytes(Op(Mem, o, n)) <=> l[2] \in R)
  BY <1>1, <1>2
<1>5. \A l \in WithBitmap(t, b) : b \subseteq Bitmap(t) => l \in t
  <2>1. \A x \in Bitmap(t) : <<Mem, x>> \in t
    BY MemBytes DEF Bitmap
  <2>2. QED BY <2>1 DEF WithBitmap
<1> HIDE DEF R
<1>6. b = Bitmap(t) \ R => WithBitmap(t, b) = t \ Bytes(Op(Mem, o, n))
  <2>1. SUFFICES ASSUME b = Bitmap(t) \ R PROVE WithBitmap(t, b) = t \ Bytes(Op(Mem, o, n))
    OBVIOUS
  <2>2. ASSUME NEW l \in t PROVE l \in WithBitmap(t, b) <=> l \notin Bytes(Op(Mem, o, n))
    BY <1>2, <1>3, <1>4, <2>1
  <2>3. WithBitmap(t, b) \subseteq t
    BY <1>5, <2>1
  <2>4. QED BY <2>2, <2>3
<1>7. Bitmap(t) \ R \subseteq b => t \ Bytes(Op(Mem, o, n)) \subseteq WithBitmap(t, b)
  <2>1. SUFFICES ASSUME Bitmap(t) \ R \subseteq b, NEW l \in t, l \notin Bytes(Op(Mem, o, n))
                 PROVE  l \in WithBitmap(t, b)
    OBVIOUS
  <2>2. QED BY <1>2, <1>3, <1>4, <2>1
<1>8. QED BY <1>6, <1>7 DEF R, Clr

LEMMA BitmapPlus ==
    ASSUME NEW t, t \subseteq Loc, NEW o \in Nat, NEW n \in Nat,
           NEW b, b = Bitmap(t) \cup (o .. o + n - 1)
    PROVE  WithBitmap(t, b) = Marked(t, Op(Mem, o, n))
<1> DEFINE R == o .. o + n - 1
<1>b. b = Bitmap(t) \cup R
  OBVIOUS
<1>1. Bytes(Op(Mem, o, n)) = {Mem} \X R
  BY RangeBytes
<1> HIDE DEF R
<1>2. \A x \in Bitmap(t) : <<Mem, x>> \in t
  BY MemBytes DEF Bitmap
<1>3. \A l \in t : l \in WithBitmap(t, b)
  <2>1. \A l \in t : l[1] = Mem => (l \in WithBitmap(t, b) <=> l[2] \in b) /\ l[2] \in Bitmap(t)
    BY BitmapAll
  <2>2. \A l \in t : l[1] # Mem => l \in WithBitmap(t, b)
    BY DEF WithBitmap
  <2>3. QED BY <1>b, <2>1, <2>2
<1>4. Bytes(Op(Mem, o, n)) \subseteq WithBitmap(t, b)
  BY <1>b, <1>1 DEF WithBitmap
<1>5. WithBitmap(t, b) \subseteq t \cup Bytes(Op(Mem, o, n))
  BY <1>b, <1>1, <1>2 DEF WithBitmap
<1>6. WithBitmap(t, b) = t \cup Bytes(Op(Mem, o, n))
  BY <1>3, <1>4, <1>5
<1>7. QED BY <1>6 DEF Marked

\* tagmap_clrb, clrw and clrl clear the bytes of their operand, at any address.
LEMMA TagmapClr ==
    ASSUME tags \subseteq Loc, NEW d, Plain(d), tagmap_clr(d)
    PROVE  tags' = Clr(tags, d)
<1>1. d.off \in Nat /\ d.len \in {1, 2, 4} /\ d.base = Mem
  BY DEF Plain, tagmap_clr
<1>2. VIRT2BIT(d.off) \in 0 .. 7
  BY <1>1, ByteBit
<1>3. /\ Mask(d.off, 1, 8) = d.off .. d.off + 1 - 1
      /\ Mask(d.off, 2, 16) = d.off .. d.off + 2 - 1
      /\ Mask(d.off, 4, 16) = d.off .. d.off + 4 - 1
  BY <1>1, <1>2, MaskSpan
<1>4. tags' = WithBitmap(tags, Bitmap(tags) \ (d.off .. d.off + d.len - 1))
  BY <1>1, <1>3 DEF tagmap_clr, tagmap_clrb, tagmap_clrw, tagmap_clrl
<1>5. tags' = Clr(tags, Op(Mem, d.off, d.len))
  <2>1. PICK o \in Nat : o = d.off
    BY <1>1
  <2>2. PICK n \in Nat : n = d.len
    BY <1>1
  <2>3. PICK b : b = Bitmap(tags) \ (o .. o + n - 1)
    OBVIOUS
  <2>4. WithBitmap(tags, b) = Clr(tags, Op(Mem, o, n))
    BY <2>3, BitmapMinus
  <2>5. QED BY <1>4, <2>1, <2>2, <2>3, <2>4
<1>6. Bytes(Op(Mem, d.off, d.len)) = Bytes(d)
  BY <1>1, OpFields DEF Bytes
<1>7. QED BY <1>5, <1>6 DEF Clr

LEMMA Cleared ==
    ASSUME TypeInv, NEW d, Plain(d), r_clr(d) \/ tagmap_clr(d) PROVE tags' = Clr(tags, d)
BY TagmapClr DEF TypeInv, TypeOK, r_clr

\* A range is tagged; it is cleared, and no tag outside of it; up to eight bytes are cleared.
LEMMA RangeSet ==
    ASSUME tags \subseteq Loc, NEW a \in Nat, NEW m \in Nat
    PROVE  WithBitmap(tags, tagmap_setn(Bitmap(tags), a, m)) = Marked(tags, Op(Mem, a, m))
<1>1. PICK b : b = tagmap_setn(Bitmap(tags), a, m)
  OBVIOUS
<1>2. b = Bitmap(tags) \cup (a .. a + m - 1)
  BY <1>1, SetnSpan
<1>3. WithBitmap(tags, b) = Marked(tags, Op(Mem, a, m))
  BY <1>2, BitmapPlus
<1>4. QED BY <1>1, <1>3

LEMMA RangeKept ==
    ASSUME tags \subseteq Loc, NEW a \in Nat, NEW m \in Nat, ~Multiplied(a, m)
    PROVE  Clr(tags, Op(Mem, a, m)) \subseteq WithBitmap(tags, tagmap_clrn(Bitmap(tags), a, m))
<1>1. PICK b : b = tagmap_clrn(Bitmap(tags), a, m)
  OBVIOUS
<1>2. Bitmap(tags) \ (a .. a + m - 1) \subseteq b
  BY <1>1, ClrnKeeps DEF Multiplied, ALIGN_OFF_MAX
<1>3. Bitmap(tags) \ (a .. a + m - 1) \subseteq b => Clr(tags, Op(Mem, a, m)) \subseteq WithBitmap(tags, b)
  BY BitmapMinus
<1>4. QED BY <1>1, <1>2, <1>3

LEMMA RangeCleared ==
    ASSUME tags \subseteq Loc, NEW a \in Nat, NEW m \in 0 .. 8
    PROVE  WithBitmap(tags, tagmap_clrn(Bitmap(tags), a, m)) = Clr(tags, Op(Mem, a, m))
<1>1. PICK b : b = tagmap_clrn(Bitmap(tags), a, m)
  OBVIOUS
<1>2. b = Bitmap(tags) \ (a .. a + m - 1) /\ m \in Nat
  BY <1>1, ClrnShort
<1>3. WithBitmap(tags, b) = Clr(tags, Op(Mem, a, m))
  BY <1>2, BitmapMinus
<1>4. QED BY <1>1, <1>3

\* popa from a multiple of eight reads the bits of the bytes that the processor reads.
LEMMA RestoredExact ==
    ASSUME NEW t, NEW a \in Nat, NEW n \in {2, 4}, VIRT2BIT(a) = 0
    PROVE  Restored(t, a, n) = CpuRestored(t, a, n)
<1> DEFINE per == 8 \div n
           bit(i, k) == LET x == a + 8 * (i \div per) IN
                        8 * VIRT2BYTE(x) + VIRT2BIT(x + n * (i % per)) + k
<1>1. ASSUME NEW i \in Gpr, NEW k \in 0 .. n - 1 PROVE bit(i, k) = a + n * i + k
  <2>1. i \in 0 .. 7
    BY DEF Gpr
  <2>2. PICK p \in Nat : p = i \div per
    BY <2>1
  <2>3. PICK q \in Nat : q = i % per
    BY <2>1
  <2>4. per \in {2, 4} /\ n * per = 8 /\ i = per * p + q /\ q < per
    <3>1. CASE n = 2
      BY <2>1, <2>2, <2>3, <3>1
    <3>2. CASE n = 4
      BY <2>1, <2>2, <2>3, <3>2
    <3>3. QED BY <3>1, <3>2
  <2>5. PICK x \in Nat : x = a + 8 * p
    BY <2>2
  <2>6. x % 8 = 0 /\ 8 * (x \div 8) = x
    BY <2>5 DEF VIRT2BIT
  <2>7. n * q \in 0 .. 7
    BY <2>4
  <2>8. (x + n * q) % 8 = n * q
    BY <2>6, <2>7
  <2>9. bit(i, k) = x + n * q + k
    BY <2>2, <2>3, <2>5, <2>6, <2>8 DEF VIRT2BYTE, VIRT2BIT
  <2>10. n * i = 8 * p + n * q
    BY <2>4
  <2>11. n * i \in Nat /\ n * q \in Nat
    BY <2>1, <2>3
  <2>12. QED BY <2>5, <2>9, <2>10, <2>11
<1>2. {l \in (Gpr \ {ESP}) \X (0 .. n - 1) : <<Mem, bit(l[1], l[2])>> \in t}
        = {l \in (Gpr \ {ESP}) \X (0 .. n - 1) : <<Mem, a + n * l[1] + l[2]>> \in t}
  BY <1>1
<1> HIDE DEF bit
<1>3. QED BY <1>2 DEF Restored, CpuRestored, bit, per

-----------------------------------------------------------------------------
(* No flow is lost *)

\* The classes whose routines lose no tag, at any address and for any operands.
Sound == {"plain", "imul3", "div", "stosb", "stosn", "popa"}

\* A step of one instruction that, when its class is one of them, keeps to the flow.
Followed == \E c : Use(c) /\ (c \in Sound /\ must \subseteq tags => must' \subseteq tags')

LEMMA FlowUse ==
    ASSUME NEW c, Use(c), c \in Sound /\ must \subseteq tags => must' \subseteq tags'
    PROVE  Followed
BY DEF Followed

LEMMA OtherUse == ASSUME NEW c, Use(c), c \notin Sound PROVE Followed
BY DEF Followed

LEMMA MovesFlow ==
    ASSUME NEW d, NEW s, NEW c \in BOOLEAN
    PROVE  /\ MovRegs(d, s) \/ MovLoad(d, s) \/ MovStore(d, s) => Followed
           /\ Movs(d, s) \/ PushReg(d, s) \/ PushMem(d, s) \/ PopReg(d, s) \/ PopMem(d, s) => Followed
           /\ CmovRegs(d, s, c) \/ CmovLoad(d, s, c) => Followed
           /\ BitscanRegs(d, s) \/ BitscanLoad(d, s) => Followed
<1>1. must \subseteq tags => Xfer(must, d, s) \subseteq Xfer(tags, d, s)
  BY XferMono
<1>2. r2m_xfer(d, s) => tags' = Xfer(tags, d, s)
  BY DEF r2m_xfer, r2m_xfer_opb, r2m_xfer_opw, r2m_xfer_opl
<1>3. MovRegs(d, s) \/ MovLoad(d, s) \/ MovStore(d, s) => Followed
  BY <1>1, <1>2, FlowUse DEF MovRegs, MovLoad, MovStore, r2r_xfer, m2r_xfer, CpuMove, Cpu
<1>4. Movs(d, s) \/ PushReg(d, s) \/ PushMem(d, s) \/ PopReg(d, s) \/ PopMem(d, s) => Followed
  BY <1>1, <1>2, FlowUse
     DEF Movs, PushReg, PushMem, PopReg, PopMem, m2m_xfer, m2r_xfer, CpuMove, Cpu
<1>5. CmovRegs(d, s, c) \/ CmovLoad(d, s, c) => Followed
  <2>1. CASE c
    BY <1>1, <2>1, FlowUse DEF CmovRegs, CmovLoad, r2r_xfer, m2r_xfer, CpuMove, Cpu
  <2>2. CASE ~c
    BY <2>2, FlowUse DEF CmovRegs, CmovLoad, Cpu
  <2>3. QED BY <2>1, <2>2
<1>6. BitscanRegs(d, s) \/ BitscanLoad(d, s) => Followed
  <2>1. "bitscan" \notin Sound
    BY DEF Sound
  <2>2. QED BY <2>1, OtherUse DEF BitscanRegs, BitscanLoad, BitscanOf
<1>7. QED BY <1>3, <1>4, <1>5, <1>6

LEMMA ArithFlow ==
    ASSUME NEW d, NEW s, NEW c \in BOOLEAN
    PROVE  /\ BinaryLoad(d, s) \/ BinaryStore(d, s) \/ ImulRegs(d, s) \/ ImulLoad(d, s) => Followed
           /\ Imul3Regs(d, s) \/ Imul3Load(d, s) => Followed
           /\ BinaryRegs(d, s, c) \/ BinaryBytes(d, s, c) => Followed
<1>1. must \subseteq tags => /\ Combine(must, d, s) \subseteq Combine(tags, d, s)
                             /\ Xfer(must, d, s) \subseteq Combine(tags, d, s)
                             /\ Clr(must, d) \subseteq Clr(tags, d)
  BY CombineMono, ClrMono
<1>2. BinaryLoad(d, s) \/ BinaryStore(d, s) \/ ImulRegs(d, s) \/ ImulLoad(d, s) => Followed
  BY <1>1, FlowUse DEF BinaryLoad, BinaryStore, ImulRegs, ImulLoad, r2r_binary, m2r_binary,
     r2m_binary, CpuArith, Cpu
<1>3. Imul3Regs(d, s) \/ Imul3Load(d, s) => Followed
  BY <1>1, FlowUse DEF Imul3Regs, Imul3Load, r2r_binary, m2r_binary, CpuImul3, Cpu
<1>4. BinaryOp(d, s, c) /\ must \subseteq tags => must' \subseteq tags'
  BY <1>1 DEF BinaryOp, r_clr, r2r_binary, CpuClear, CpuArith, Cpu
<1>5. BinaryRegs(d, s, c) \/ BinaryBytes(d, s, c) => Followed
  BY <1>4, FlowUse DEF BinaryRegs, BinaryBytes
<1>6. QED BY <1>2, <1>3, <1>5

\* The scratch register holds nothing that the processor knows of.
LEMMA ScratchFree ==
    ASSUME TypeInv, must \subseteq tags, NEW d, d.len = 4
    PROVE  must \subseteq Xfer(tags, Reg(Scratch, 4), d)
<1>1. \A l \in Bytes(Reg(Scratch, 4)) : l[1] = Scratch
  BY RegLen DEF Bytes
<1>2. \A l \in must : l[1] # Scratch
  BY DEF TypeInv, Real, Gpr, Xmm, Mem, Scratch
<1>3. QED BY <1>1, <1>2 DEF Xfer, Put

LEMMA ExchangesFlow ==
    ASSUME TypeInv, NEW d, Plain(d), NEW s, Plain(s), s.len = d.len, NEW c \in BOOLEAN
    PROVE  /\ XchgRegs(d, s) \/ XchgMem(d, s) => Followed
           /\ XaddMem(d, s) \/ Cmpxchg8(d, s) => Followed
           /\ d = s \/ Bytes(d) \cap Bytes(s) = {} => (XaddRegs(d, s) => Followed)
           /\ CmpxchgRegs(d, s, c) \/ CmpxchgMem(d, s, c) => Followed
<1> DEFINE x == Reg(Scratch, 4)
<1>1. d.len \in {1, 2, 4} /\ s.len \in {1, 2, 4}
  BY DEF Plain
<1>2. must \subseteq tags => Swap(must, d, s) \subseteq Swap(tags, d, s)
  BY SwapMono
<1>3. ASSUME must \subseteq tags, d.len = 4
      PROVE  Swap(must, d, s) \subseteq Swap(Xfer(tags, x, d), d, s)
  <2>1. PICK u : u = Xfer(tags, x, d)
    OBVIOUS
  <2>2. must \subseteq u
    BY <1>3, <2>1, ScratchFree
  <2>3. QED BY <2>1, <2>2, SwapMono
<1>4. XchgRegs(d, s) => Followed
  <2>1. ASSUME xchg_r2r(d, s), must \subseteq tags PROVE Swap(must, d, s) \subseteq tags'
    <3>1. CASE d.len < 4
      BY <1>2, <2>1, <3>1 DEF xchg_r2r
    <3>2. CASE d.len = 4
      <4>1. tags' = Swap(Xfer(tags, x, d), d, s)
        BY <2>1, <3>2, Exchanged DEF xchg_r2r
      <4>2. QED BY <1>3, <2>1, <3>2, <4>1
    <3>3. QED BY <1>1, <3>1, <3>2
  <2>2. QED BY <2>1, FlowUse DEF XchgRegs, Cpu
<1>5. XchgMem(d, s) => Followed
  <2>1. CASE d.len = 2
    <3>1. "xchgw" \notin Sound
      BY DEF Sound
    <3>2. QED BY <2>1, <3>1, OtherUse DEF XchgMem
  <2>2. CASE d.len # 2
    BY <1>2, <2>2, FlowUse DEF XchgMem, xchg_m2r_op, xchg_m2r_opw, Cpu
  <2>3. QED BY <2>1, <2>2
<1>6. XaddMem(d, s) \/ Cmpxchg8(d, s) => Followed
  <2>1. "xaddmem" \notin Sound /\ "cmpxchg8" \notin Sound
    BY DEF Sound
  <2>2. QED BY <2>1, OtherUse DEF XaddMem, Cmpxchg8
<1>7. ASSUME d = s \/ Bytes(d) \cap Bytes(s) = {}, XaddRegs(d, s) PROVE Followed
  <2>1. CASE d.len # 4
    <3>1. "xadd" \notin Sound
      BY DEF Sound
    <3>2. QED BY <1>7, <2>1, <3>1, OtherUse DEF XaddRegs
  <2>2. CASE d.len = 4
    <3> DEFINE u == Xfer(tags, x, d)
    <3>1. tags' = Combine(Swap(u, d, s), d, s)
      BY <1>7, <2>2, Exchanged DEF XaddRegs, xadd_opl
    <3>2. must' = Combine(Swap(must, d, s), d, s)
      BY <1>7, XaddSwap DEF XaddRegs, CpuXadd, Cpu
    <3>3. must \subseteq tags => Swap(must, d, s) \subseteq Swap(u, d, s)
      BY <1>3, <2>2
    <3> HIDE DEF u
    <3>4. PICK v, w : v = Swap(must, d, s) /\ w = Swap(u, d, s)
      OBVIOUS
    <3>5. v \subseteq w => Combine(v, d, s) \subseteq Combine(w, d, s)
      BY CombineMono
    <3>6. must \subseteq tags => must' \subseteq tags'
      BY <3>1, <3>2, <3>3, <3>4, <3>5
    <3>7. QED BY <1>7, <2>2, <3>6, FlowUse DEF XaddRegs
  <2>3. QED BY <2>1, <2>2
<1>8. CmpxchgOp(d, s, c) => Followed
  <2> DEFINE u == Xfer(tags, x, Reg(EAX, 4))
  <2>1. must \subseteq tags => must \subseteq u
    <3>1. Reg(EAX, 4).len = 4
      BY RegLen
    <3>2. QED BY <3>1, ScratchFree
  <2>2. cmpxchg_fast(tags, d) = Xfer(u, Reg(EAX, d.len), d)
    BY DEF cmpxchg_fast
  <2>3. cmpxchg_slow(cmpxchg_fast(tags, d), d, s) = Xfer(u, d, s)
    BY CmpxchgUndone
  <2> HIDE DEF u
  <2>4. must \subseteq tags => /\ Xfer(must, d, s) \subseteq Xfer(u, d, s)
                               /\ Xfer(must, Reg(EAX, d.len), d) \subseteq Xfer(u, Reg(EAX, d.len), d)
    BY <2>1, XferMono
  <2>5. CASE c
    BY <2>3, <2>4, <2>5, FlowUse DEF CmpxchgOp, CpuMove, Cpu
  <2>6. CASE ~c
    BY <2>2, <2>4, <2>6, FlowUse DEF CmpxchgOp, CpuMove, Cpu
  <2>7. QED BY <2>5, <2>6
<1>9. QED BY <1>4, <1>5, <1>6, <1>7, <1>8 DEF CmpxchgRegs, CmpxchgMem

LEMMA ClearsFlow ==
    ASSUME TypeInv, NEW d, Plain(d)
    PROVE  /\ MovImm(d) \/ PushImm(d) \/ Setcc(d) \/ Stmxcsr(d) \/ Smsw(d) => Followed
           /\ Lar(d) \/ Pushf(d) \/ CallNear(d) => Followed
<1>1. (r_clr(d) \/ tagmap_clr(d)) => tags' = Clr(tags, d)
  BY Cleared
<1>2. must \subseteq tags => Clr(must, d) \subseteq Clr(tags, d)
  BY ClrMono
<1>3. QED BY <1>1, <1>2, FlowUse
             DEF MovImm, PushImm, Setcc, Stmxcsr, Smsw, Lar, Pushf, CallNear, CpuClear, Cpu

LEMMA OthersFlow ==
    ASSUME NEW d
    PROVE  /\ BinaryImm(d) \/ Shift(d) => Followed
           /\ Div(d) \/ Mul(d) \/ Imul1(d) \/ DivMem(d) \/ MulMem(d) \/ Imul1Mem(d) => Followed
           /\ Default(d, Reg(Xmm, 4)) \/ Default(Reg(Xmm, 4), d) => Followed
           /\ Stos(d) \/ Lods(d) \/ Enter(d) \/ Leave(d) => Followed
<1>1. \A e, s : must \subseteq tags => Xfer(must, e, s) \subseteq Xfer(tags, e, s)
  BY XferMono
<1>2. /\ "shift" \notin Sound /\ "mul" \notin Sound /\ "memdiv" \notin Sound
      /\ "sse" \notin Sound /\ "enter" \notin Sound
  BY DEF Sound
<1>3. BinaryImm(d) \/ Shift(d) => Followed
  <2>1. BinaryImm(d) => Followed
    BY FlowUse DEF BinaryImm, Cpu
  <2>2. Shift(d) => Followed
    BY <1>2, OtherUse DEF Shift
  <2>3. QED BY <2>1, <2>2
<1>4. Div(d) => Followed
  <2>1. must \subseteq tags => CombinePair(must, d) \subseteq CombinePair(tags, d)
    BY PairMono
  <2>2. QED BY <2>1, FlowUse DEF Div, r2r_ternary, CpuDiv, Cpu
<1>5. Mul(d) \/ Imul1(d) \/ DivMem(d) \/ MulMem(d) \/ Imul1Mem(d) => Followed
  BY <1>2, OtherUse DEF Mul, Imul1, DivMem, MulMem, Imul1Mem
<1>6. Default(d, Reg(Xmm, 4)) \/ Default(Reg(Xmm, 4), d) \/ Enter(d) => Followed
  BY <1>2, OtherUse DEF Default, Enter
<1>7. Stos(d) => Followed
  <2>1. PICK e : e = Reg(EAX, d.len)
    OBVIOUS
  <2>2. r2m_xfer(d, e) => tags' = Xfer(tags, d, e)
    BY DEF r2m_xfer, r2m_xfer_opb, r2m_xfer_opw, r2m_xfer_opl
  <2>3. QED BY <1>1, <2>1, <2>2, FlowUse DEF Stos, CpuMove, Cpu
<1>8. Lods(d) => Followed
  BY <1>1, FlowUse DEF Lods, m2r_xfer, CpuMove, Cpu
<1>9. Leave(d) => Followed
  <2> DEFINE b == Reg(EBP, d.len)
             p == Reg(ESP, d.len)
  <2>1. PICK v, w : v = Xfer(must, p, b) /\ w = Xfer(tags, p, b)
    OBVIOUS
  <2>2. must \subseteq tags => v \subseteq w
    BY <1>1, <2>1
  <2>3. v \subseteq w => Xfer(v, b, d) \subseteq Xfer(w, b, d)
    BY XferMono
  <2>4. Leave(d) => Use("plain") /\ must' = Xfer(v, b, d) /\ tags' = Xfer(w, b, d)
    BY <2>1 DEF Leave, Cpu
  <2>5. QED BY <2>2, <2>3, <2>4, FlowUse
<1>10. QED BY <1>3, <1>4, <1>5, <1>6, <1>7, <1>8, <1>9

\* A byte of memory is read as the byte it is.
LEMMA ByteRead ==
    ASSUME NEW t, NEW s, s.len = 1 PROVE Get(t, ReadAsByte(s)) = Get(t, s) /\ ReadAsByte(s).len = 1
BY OpFields DEF Get, ReadAsByte

\* The sign of a byte, and its tag, fill the destination.
LEMMA SignByte ==
    ASSUME NEW t, NEW d, d.len \in {1, 2, 4}, NEW s, s.len = 1, NEW b, b.len = 1, Get(t, b) = Get(t, s)
    PROVE  Extend(t, d, b) = Put(t, d, {k \in 0 .. d.len - 1 :
                                          (IF k < s.len THEN k ELSE s.len - 1) \in Get(t, s)})
<1>1. \A k \in 0 .. d.len - 1 : k % b.len = 0 /\ (IF k < s.len THEN k ELSE s.len - 1) = 0
  OBVIOUS
<1>2. QED BY <1>1 DEF Extend

LEMMA ExtensionsFlow ==
    ASSUME NEW d, Plain(d), NEW s, Plain(s)
    PROVE  MovsxRegs(d, s) \/ MovzxRegs(d, s) \/ MovsxLoad(d, s) \/ MovzxLoad(d, s) => Followed
<1> DEFINE B(t) == {k \in 0 .. d.len - 1 : (IF k < s.len THEN k ELSE s.len - 1) \in Get(t, s)}
<1>1. d.len \in {1, 2, 4} /\ s.len \in {1, 2, 4}
  BY DEF Plain
<1>2. CASE s.len # 1
  <2>1. "movsxw" \notin Sound /\ "memext" \notin Sound
    BY DEF Sound
  <2>2. MovzxRegs(d, s) => Followed
    <3>1. must \subseteq tags => Xfer(must, d, s) \subseteq Xfer(tags, d, s)
      BY XferMono
    <3>2. QED BY <3>1, FlowUse DEF MovzxRegs, movzx_r2r, CpuMove, Cpu
  <2>3. QED BY <1>2, <2>1, <2>2, OtherUse DEF MovsxRegs, MovsxLoad, MovzxLoad
<1>3. CASE s.len = 1
  <2>1. PICK b : b = ReadAsByte(s)
    OBVIOUS
  <2>2. Get(tags, b) = Get(tags, s) /\ b.len = 1
    BY <1>3, <2>1, ByteRead
  <2>3. Extend(tags, d, s) = Put(tags, d, B(tags)) /\ Extend(tags, d, b) = Put(tags, d, B(tags))
    BY <1>1, <1>3, <2>2, SignByte
  <2>4. Xfer(tags, d, b) = Xfer(tags, d, s)
    BY <2>2 DEF Xfer
  <2>5. must \subseteq tags => Put(must, d, B(must)) \subseteq Put(tags, d, B(tags))
    <3>1. must \subseteq tags => B(must) \subseteq B(tags)
      BY GetMono
    <3> HIDE DEF B
    <3>2. QED BY <3>1, PutMono
  <2>6. must \subseteq tags => Xfer(must, d, s) \subseteq Xfer(tags, d, s)
    BY XferMono
  <2>7. CpuSignExtend(d, s) => must' = Put(must, d, B(must))
    BY DEF CpuSignExtend, Cpu
  <2>8. MovsxRegs(d, s) \/ MovsxLoad(d, s) => tags' = Put(tags, d, B(tags)) /\ must' = Put(must, d, B(must))
    BY <2>1, <2>3, <2>7 DEF MovsxRegs, MovsxLoad, movsx_r2r, movsx_m2r
  <2>9. MovzxRegs(d, s) \/ MovzxLoad(d, s) => tags' = Xfer(tags, d, s) /\ must' = Xfer(must, d, s)
    BY <2>1, <2>4 DEF MovzxRegs, MovzxLoad, movzx_r2r, movzx_m2r, CpuMove, Cpu
  <2>10. MovsxRegs(d, s) \/ MovzxRegs(d, s) \/ MovsxLoad(d, s) \/ MovzxLoad(d, s) => Use("plain")
    BY <1>3 DEF MovsxRegs, MovzxRegs, MovsxLoad, MovzxLoad
  <2> HIDE DEF B
  <2>11. QED BY <2>5, <2>6, <2>8, <2>9, <2>10, FlowUse
<1>4. QED BY <1>2, <1>3

LEMMA FixedFlow ==
    ASSUME Lahf \/ Salc \/ Rdtsc \/ Cpuid \/ Cbw \/ Cwd \/ Cdq \/ Cwde
    PROVE  Followed
<1>1. CASE Lahf \/ Salc
  <2>1. must \subseteq tags => \A d : Clr(must, d) \subseteq Clr(tags, d)
    BY ClrMono
  <2>2. QED BY <1>1, <2>1, FlowUse DEF Lahf, Salc, CpuClear, Cpu
<1>2. \A r : \A l \in Bytes(Reg(r, 4)) : l[1] = r
  BY RegLen DEF Bytes
<1>3. \A l \in tags : l[1] \notin {EAX, EDX} => l \in r_clrl2(tags)
  BY <1>2 DEF r_clrl2, Clr
<1>4. \A l \in tags : l[1] \notin {EAX, EBX, ECX, EDX} => l \in r_clrl4(tags)
  BY <1>2, <1>3 DEF r_clrl4, Clr
<1>5. CASE Rdtsc
  <2>1. must \subseteq tags => must' \subseteq tags'
    BY <1>3, <1>5 DEF Rdtsc, CpuClearRegs, Cpu
  <2>2. QED BY <1>5, <2>1, FlowUse DEF Rdtsc
<1>6. CASE Cpuid
  <2>1. must \subseteq tags => must' \subseteq tags'
    BY <1>4, <1>6 DEF Cpuid, CpuClearRegs, Cpu
  <2>2. QED BY <1>6, <2>1, FlowUse DEF Cpuid
<1>7. CASE Cbw
  <2>1. /\ AL.len = 1 /\ AH.base = EAX /\ AH.off = 1 /\ AH.len = 1 /\ Bytes(AH) = {<<EAX, 1 + 0>>}
    BY OpFields, 0 .. 1 - 1 = {0} DEF AL, AH, Bytes
  <2>2. must' = Fill(must, AH, 0 \in Get(must, AL)) /\ tags' = Xfer(tags, AH, AL) /\ Use("plain")
    BY <1>7, <2>1 DEF Cbw, SignInto, Cpu
  <2>3. must \subseteq tags => Get(must, AL) \subseteq Get(tags, AL)
    BY GetMono
  <2>4. 0 \in Get(tags, AL) => <<EAX, 1 + 0>> \in tags'
    BY <2>1, <2>2 DEF Xfer, Put
  <2>5. must \subseteq tags => must \ Bytes(AH) \subseteq tags'
    BY <2>2 DEF Xfer, Put
  <2>6. must' \subseteq (must \ Bytes(AH)) \cup (IF 0 \in Get(must, AL) THEN {<<EAX, 1 + 0>>} ELSE {})
    BY <2>1, <2>2 DEF Fill
  <2>7. must \subseteq tags => must' \subseteq tags'
    BY <2>3, <2>4, <2>5, <2>6
  <2>8. QED BY <2>2, <2>7, FlowUse
<1>8. CASE Cwd \/ Cdq \/ Cwde
  <2>1. "movsxw" \notin Sound
    BY DEF Sound
  <2>2. Reg(EAX, 2).len = 2 /\ Reg(EAX, 4).len = 4
    BY RegLen
  <2>3. QED BY <1>8, <2>1, <2>2, OtherUse DEF Cwd, Cdq, Cwde, SignInto
<1>9. QED BY <1>1, <1>5, <1>6, <1>7, <1>8

LEMMA StringsFlow ==
    ASSUME TypeInv, NEW a \in Starts, NEW n \in {1, 2, 4}, NEW c \in Counts, NEW down \in BOOLEAN,
           RepStos(a, n, c, down)
    PROVE  Followed
<1> DEFINE k == IF down THEN "std" ELSE IF n = 1 /\ c <= 8 THEN "stosb"
                ELSE IF Multiplied(a, c * n) THEN "stosm" ELSE "stosn"
<1>1. Use(k)
  BY DEF RepStos
<1>2. a \in Nat /\ c \in Nat
  BY Propagation32Assumption
<1>3. PICK m \in Nat : m = c * n
  BY <1>2
<1>4. k \in Sound => ~down /\ ~Multiplied(a, m)
  BY <1>2, <1>3 DEF Sound, Multiplied, ALIGN_OFF_MAX
<1> HIDE DEF k
<1>5. ASSUME ~down, ~Multiplied(a, m), must \subseteq tags PROVE must' \subseteq tags'
  <2> DEFINE e == Reg(EAX, n)
             d == Op(Mem, a, m)
             B == {j \in 0 .. m - 1 : j % n \in Get(must, e)}
  <2>1. must' = Put(must, d, B)
    BY <1>3, <1>5 DEF RepStos, Stosn, Cpu
  <2>2. tags' = WithBitmap(tags, IF Any(tags, {e}) THEN tagmap_setn(Bitmap(tags), a, m)
                                                   ELSE tagmap_clrn(Bitmap(tags), a, m))
    BY <1>3, <1>5 DEF RepStos, r2m_xfer_opbn, r2m_xfer_opwn, r2m_xfer_opln, r2m_xfer_n
  <2>3. WithBitmap(tags, tagmap_setn(Bitmap(tags), a, m)) = Marked(tags, d)
    BY <1>2, RangeSet DEF TypeInv, TypeOK
  <2>4. Clr(tags, d) \subseteq WithBitmap(tags, tagmap_clrn(Bitmap(tags), a, m))
    BY <1>2, <1>5, RangeKept DEF TypeInv, TypeOK
  <2>5. Put(must, d, B) \subseteq must \cup Bytes(d)
    <3>1. d.len = m
      BY OpFields
    <3>2. QED BY <3>1 DEF Put, Bytes
  <2>6. CASE Any(tags, {e})
    BY <1>5, <2>1, <2>2, <2>3, <2>5, <2>6 DEF Marked
  <2>7. CASE ~Any(tags, {e})
    <3>1. B = {}
      BY <1>5, <2>7, GetMono DEF Any
    <3>2. Put(must, d, B) = must \ Bytes(d)
      BY <3>1 DEF Put
    <3>3. QED BY <1>5, <2>1, <2>2, <2>4, <2>7, <3>2 DEF Clr
  <2>8. QED BY <2>6, <2>7
<1>6. QED BY <1>1, <1>4, <1>5, FlowUse

LEMMA FramesFlow ==
    ASSUME NEW a \in Frames, NEW n \in {2, 4}, Pusha(a, n) \/ Popa(a, n)
    PROVE  Followed
<1>1. a \in Nat
  BY Propagation32Assumption
<1>2. CASE Pusha(a, n)
  <2>1. must \subseteq tags => Saved(must, a, n) \subseteq Saved(tags, a, n)
    BY SavedMono
  <2>2. tags' = Saved(tags, a, n)
    BY <1>2 DEF Pusha, r2m_save_opw, r2m_save_opl
  <2>3. QED BY <1>2, <2>1, <2>2, FlowUse DEF Pusha, Cpu
<1>3. CASE Popa(a, n)
  <2>1. tags' = Restored(tags, a, n) /\ must' = CpuRestored(must, a, n)
    BY <1>3 DEF Popa, m2r_restore_opw, m2r_restore_opl, Cpu
  <2>2. CASE VIRT2BIT(a) = 0
    <3>1. tags' = CpuRestored(tags, a, n)
      BY <1>1, <2>1, <2>2, RestoredExact
    <3>2. must \subseteq tags => CpuRestored(must, a, n) \subseteq CpuRestored(tags, a, n)
      BY DEF CpuRestored
    <3>3. Use("popa")
      BY <1>3, <2>2 DEF Popa
    <3>4. QED BY <2>1, <3>1, <3>2, <3>3, FlowUse
  <2>3. CASE VIRT2BIT(a) # 0
    <3>1. "popaoff" \notin Sound
      BY DEF Sound
    <3>2. QED BY <1>3, <2>3, <3>1, OtherUse DEF Popa
  <2>4. QED BY <2>2, <2>3
<1>4. QED BY <1>2, <1>3

LEMMA LeaFlow ==
    ASSUME NEW d, Plain(d), NEW R, \A r \in R : r.len = 4, Lea(d, R) PROVE Followed
<1> DEFINE indx(r) == IF d.len = 4 THEN REG32_INDX(r) ELSE REG16_INDX(r)
           B(t) == UNION {Get(t, Reg(r.base, d.len)) : r \in R}
<1>1. CASE d.len = 2 /\ R # {}
  <2>1. "lea16" \notin Sound
    BY DEF Sound
  <2>2. QED BY <1>1, <2>1, OtherUse DEF Lea
<1>2. CASE ~(d.len = 2 /\ R # {})
  <2>1. \A r \in R : indx(r) = r.base
    BY <1>2 DEF Plain, Lea, REG32_INDX
  <2>2. tags' = Put(tags, d, UNION {Get(tags, Reg(indx(r), d.len)) : r \in R})
    BY DEF Lea, lea_r2r
  <2> HIDE DEF indx
  <2>3. UNION {Get(tags, Reg(indx(r), d.len)) : r \in R} = B(tags)
    BY <2>1
  <2>4. must' = Put(must, d, UNION {Get(must, r) : r \in {Reg(q.base, d.len) : q \in R}})
    BY DEF Lea, Cpu
  <2>5. UNION {Get(must, r) : r \in {Reg(q.base, d.len) : q \in R}} = B(must)
    OBVIOUS
  <2>6. must \subseteq tags => B(must) \subseteq B(tags)
    BY GetMono
  <2>7. Use("plain")
    BY <1>2 DEF Lea
  <2> HIDE DEF B
  <2>8. must \subseteq tags => Put(must, d, B(must)) \subseteq Put(tags, d, B(tags))
    BY <2>6, PutMono
  <2>9. QED BY <2>2, <2>3, <2>4, <2>5, <2>7, <2>8, FlowUse
<1>3. QED BY <1>1, <1>2

LEMMA FlowStep == ASSUME TypeInv, Next PROVE Followed
<1>1. CASE Lahf \/ Salc \/ Rdtsc \/ Cpuid \/ Cbw \/ Cwd \/ Cdq \/ Cwde
  BY <1>1, FixedFlow
<1>2. CASE \E d \in Operand :
              \/ MovImm(d) \/ Setcc(d) \/ Smsw(d) \/ BinaryImm(d) \/ Shift(d)
              \/ Default(d, Reg(Xmm, 4)) \/ Default(Reg(Xmm, 4), d)
  BY <1>2, OperandPlain, ClearsFlow, OthersFlow
<1>3. CASE \E d \in RegOperand : Lar(d) \/ Div(d) \/ Mul(d) \/ Imul1(d)
  BY <1>3, RegPlain, ClearsFlow, OthersFlow
<1>4. CASE \E d \in MemOperand :
              \/ PushImm(d) \/ Stmxcsr(d) \/ Pushf(d) \/ CallNear(d) \/ Stos(d) \/ Enter(d)
              \/ Lods(d) \/ Leave(d) \/ DivMem(d) \/ MulMem(d) \/ Imul1Mem(d)
  BY <1>4, MemPlain, ClearsFlow, OthersFlow
<1>5. CASE \E d \in RegOperand : \E s \in SameLen(d, RegOperand) :
              \/ MovRegs(d, s) \/ BitscanRegs(d, s) \/ ImulRegs(d, s) \/ Imul3Regs(d, s)
              \/ XchgRegs(d, s) \/ XaddRegs(d, s) \/ Cmpxchg8(d, s)
              \/ \E c \in BOOLEAN : \/ CmovRegs(d, s, c) \/ CmpxchgRegs(d, s, c)
                                    \/ BinaryRegs(d, s, c) \/ BinaryBytes(d, s, c)
  <2>1. PICK d \in RegOperand : \E s \in SameLen(d, RegOperand) :
               \/ MovRegs(d, s) \/ BitscanRegs(d, s) \/ ImulRegs(d, s) \/ Imul3Regs(d, s)
               \/ XchgRegs(d, s) \/ XaddRegs(d, s) \/ Cmpxchg8(d, s)
               \/ \E c \in BOOLEAN : \/ CmovRegs(d, s, c) \/ CmpxchgRegs(d, s, c)
                                     \/ BinaryRegs(d, s, c) \/ BinaryBytes(d, s, c)
    BY <1>5
  <2>p. PICK s \in SameLen(d, RegOperand) :
               \/ MovRegs(d, s) \/ BitscanRegs(d, s) \/ ImulRegs(d, s) \/ Imul3Regs(d, s)
               \/ XchgRegs(d, s) \/ XaddRegs(d, s) \/ Cmpxchg8(d, s)
               \/ \E c \in BOOLEAN : \/ CmovRegs(d, s, c) \/ CmpxchgRegs(d, s, c)
                                     \/ BinaryRegs(d, s, c) \/ BinaryBytes(d, s, c)
    BY <2>1
  <2>2. s \in RegOperand /\ s.len = d.len /\ (d = s \/ Bytes(d) \cap Bytes(s) = {})
    BY SameOrApart DEF SameLen
  <2>3. Plain(d) /\ Plain(s) /\ TRUE \in BOOLEAN
    BY <2>2, RegPlain
  <2>4. QED BY <2>p, <2>2, <2>3, MovesFlow, ArithFlow, ExchangesFlow
<1>6. CASE \E d \in RegOperand : \E s \in SameLen(d, MemOperand) :
              \/ MovLoad(d, s) \/ BitscanLoad(d, s) \/ PopReg(d, s) \/ BinaryLoad(d, s)
              \/ ImulLoad(d, s) \/ Imul3Load(d, s) \/ XchgMem(d, s)
              \/ \E c \in BOOLEAN : CmovLoad(d, s, c)
  <2>1. PICK d \in RegOperand, s \in MemOperand : s.len = d.len
            /\ \/ MovLoad(d, s) \/ BitscanLoad(d, s) \/ PopReg(d, s) \/ BinaryLoad(d, s)
               \/ ImulLoad(d, s) \/ Imul3Load(d, s) \/ XchgMem(d, s)
               \/ \E c \in BOOLEAN : CmovLoad(d, s, c)
    BY <1>6 DEF SameLen
  <2>2. Plain(d) /\ Plain(s) /\ TRUE \in BOOLEAN
    BY RegPlain, MemPlain
  <2>3. QED BY <2>1, <2>2, MovesFlow, ArithFlow, ExchangesFlow
<1>7. CASE \E d \in MemOperand : \E s \in SameLen(d, RegOperand) :
              \/ MovStore(d, s) \/ PushReg(d, s) \/ BinaryStore(d, s) \/ XaddMem(d, s) \/ Cmpxchg8(d, s)
              \/ \E c \in BOOLEAN : CmpxchgMem(d, s, c)
  <2>1. PICK d \in MemOperand, s \in RegOperand : s.len = d.len
            /\ \/ MovStore(d, s) \/ PushReg(d, s) \/ BinaryStore(d, s) \/ XaddMem(d, s) \/ Cmpxchg8(d, s)
               \/ \E c \in BOOLEAN : CmpxchgMem(d, s, c)
    BY <1>7 DEF SameLen
  <2>2. Plain(d) /\ Plain(s) /\ TRUE \in BOOLEAN
    BY RegPlain, MemPlain
  <2>3. QED BY <2>1, <2>2, MovesFlow, ArithFlow, ExchangesFlow
<1>8. CASE \E d \in MemOperand : \E s \in SameLen(d, MemOperand) :
              Movs(d, s) \/ PushMem(d, s) \/ PopMem(d, s)
  <2>1. TRUE \in BOOLEAN
    OBVIOUS
  <2>2. QED BY <1>8, <2>1, MovesFlow
<1>9. CASE \E d, s \in RegOperand : MovsxRegs(d, s) \/ MovzxRegs(d, s)
  BY <1>9, RegPlain, ExtensionsFlow
<1>10. CASE \E d \in RegOperand, s \in MemOperand : MovsxLoad(d, s) \/ MovzxLoad(d, s)
  BY <1>10, RegPlain, MemPlain, ExtensionsFlow
<1>11. CASE \E d \in RegOperand : Lea(d, {}) \/ \E b, i \in Regs : Lea(d, {Reg(b, 4), Reg(i, 4)})
  <2>1. ASSUME NEW d \in RegOperand, Lea(d, {}) PROVE Followed
    <3>1. Plain(d) /\ \A r \in {} : r.len = 4
      BY RegPlain
    <3>2. QED BY <2>1, <3>1, LeaFlow
  <2>2. ASSUME NEW d \in RegOperand, NEW b, NEW i, Lea(d, {Reg(b, 4), Reg(i, 4)}) PROVE Followed
    <3>1. Plain(d) /\ \A r \in {Reg(b, 4), Reg(i, 4)} : r.len = 4
      BY RegPlain, RegLen
    <3>2. QED BY <2>2, <3>1, LeaFlow
  <2>3. QED BY <1>11, <2>1, <2>2
<1>12. CASE \E a \in Starts, n \in {1, 2, 4}, c \in Counts, down \in BOOLEAN : RepStos(a, n, c, down)
  BY <1>12, StringsFlow
<1>13. CASE \E a \in Frames, n \in {2, 4} : Pusha(a, n) \/ Popa(a, n)
  BY <1>13, FramesFlow
<1>14. QED BY <1>1, <1>2, <1>3, <1>4, <1>5, <1>6, <1>7, <1>8, <1>9, <1>10, <1>11, <1>12, <1>13
              DEF Next

\* The classes of Sound lose no flow: programs made of their instructions, in any order, on
\* any registers and at any addresses, tag every byte that they fill from a tagged one.
THEOREM FlowKept == ASSUME KeepFlow \subseteq Sound PROVE Spec => []NoLostFlow
<1>1. Init => TypeInv /\ NoLostFlow
  BY TypeInit DEF Init, NoLostFlow
<1>2. TypeInv /\ NoLostFlow /\ [Next]_vars => NoLostFlow'
  <2>1. SUFFICES ASSUME TypeInv, NoLostFlow, [Next]_vars PROVE NoLostFlow'
    OBVIOUS
  <2>2. CASE Next
    <3>1. PICK c : Use(c) /\ (c \in Sound /\ must \subseteq tags => must' \subseteq tags')
      BY <2>1, <2>2, FlowStep DEF Followed
    <3>2. used' = used \cup {c}
      BY <3>1 DEF Use
    <3>3. QED BY <2>1, <3>1, <3>2 DEF NoLostFlow
  <2>3. CASE UNCHANGED vars
    BY <2>1, <2>3 DEF NoLostFlow, vars
  <2>4. QED BY <2>1, <2>2, <2>3
<1>3. TypeInv /\ [Next]_vars => TypeInv'
  BY TypeStep
<1>4. QED BY <1>1, <1>2, <1>3, PTL DEF Spec

-----------------------------------------------------------------------------
(* No tag is stale *)

\* What is in u covers the tags of t, but those of the scratch register.
Covers(u, t) == \A l \in t : l[1] # Scratch => l \in u

LEMMA CoverGet ==
    ASSUME NEW t, NEW u, Covers(u, t), NEW s, s.base # Scratch PROVE Get(t, s) \subseteq Get(u, s)
BY DEF Covers, Get

LEMMA CoverPut ==
    ASSUME NEW t, NEW u, Covers(u, t), NEW d, NEW B, NEW C, B \subseteq C
    PROVE  Covers(Put(u, d, C), Put(t, d, B))
BY DEF Covers, Put

LEMMA CoverClr == ASSUME NEW t, NEW u, Covers(u, t), NEW d PROVE Covers(Clr(u, d), Clr(t, d))
BY DEF Covers, Clr

LEMMA CoverXfer ==
    ASSUME NEW t, NEW u, Covers(u, t), NEW d, NEW s, s.base # Scratch
    PROVE  Covers(Xfer(u, d, s), Xfer(t, d, s))
BY CoverGet, CoverPut DEF Xfer

LEMMA CoverSwap ==
    ASSUME NEW t, NEW u, Covers(u, t), NEW d, NEW s, d.base # Scratch, s.base # Scratch
    PROVE  Covers(Swap(u, d, s), Swap(t, d, s))
<1>1. PICK v, w : v = Xfer(t, d, s) /\ w = Xfer(u, d, s)
  OBVIOUS
<1>2. Covers(w, v) /\ Get(t, d) \subseteq Get(u, d)
  BY <1>1, CoverXfer, CoverGet
<1>3. Covers(Put(w, s, Get(u, d)), Put(v, s, Get(t, d)))
  BY <1>2, CoverPut
<1>4. QED BY <1>1, <1>3 DEF Swap

\* What is saved in the scratch register is not looked at.
LEMMA CoverScratch ==
    ASSUME NEW t, NEW u, Covers(u, t), NEW s PROVE Covers(u, Xfer(t, Reg(Scratch, 4), s))
<1>1. Reg(Scratch, 4).base = Scratch
  BY RegLen
<1>2. QED BY <1>1 DEF Covers, Xfer, Put

\* Tags on some bytes of d are covered once d is marked as a whole.
LEMMA CoverFill ==
    ASSUME NEW t, NEW u, Covers(u, t), NEW d, NEW B, B \subseteq 0 .. d.len - 1,
           NEW b \in BOOLEAN, B # {} => b
    PROVE  Covers(Fill(u, d, b), Put(t, d, B))
<1>1. \A k \in B : <<d.base, d.off + k>> \in Bytes(d)
  BY DEF Bytes
<1>2. CASE b
  BY <1>1, <1>2 DEF Covers, Fill, Put
<1>3. CASE ~b
  <2>1. B = {}
    BY <1>3
  <2>2. Put(t, d, B) = t \ Bytes(d)
    BY <2>1 DEF Put
  <2>3. Fill(u, d, b) = u \ Bytes(d)
    BY <1>3 DEF Fill
  <2>4. QED BY <2>2, <2>3 DEF Covers
<1>4. QED BY <1>2, <1>3

LEMMA CoverAny ==
    ASSUME NEW t, NEW u, Covers(u, t), NEW s, s.base # Scratch, Get(t, s) # {},
           NEW S, s \in S
    PROVE  Any(u, S)
BY CoverGet DEF Any

LEMMA AnyBoolean == ASSUME NEW t, NEW S PROVE Any(t, S) \in BOOLEAN
BY DEF Any

\* The sum of d and s, or s in the place of d.
LEMMA CoverSum ==
    ASSUME NEW t, NEW u, Covers(u, t), NEW d, NEW s, d.base # Scratch, s.base # Scratch, s.len = d.len
    PROVE  /\ Covers(Fill(u, d, Any(u, {d, s})), Combine(t, d, s))
           /\ Covers(Fill(u, d, Any(u, {s})), Xfer(t, d, s))
           /\ Covers(Fill(u, d, Any(u, {d})), t)
<1>1. Get(t, d) \subseteq 0 .. d.len - 1 /\ Get(t, s) \subseteq 0 .. d.len - 1
  BY DEF Get
<1>2. Covers(Fill(u, d, Any(u, {d, s})), Combine(t, d, s))
  <2>1. PICK B : B = Get(t, d) \cup Get(t, s)
    OBVIOUS
  <2>2. PICK b \in BOOLEAN : b <=> Any(u, {d, s})
    BY AnyBoolean
  <2>3. B # {} => b
    BY <2>1, <2>2, CoverAny
  <2>4. B \subseteq 0 .. d.len - 1
    BY <1>1, <2>1
  <2>5. Covers(Fill(u, d, b), Put(t, d, B))
    BY <2>3, <2>4, CoverFill
  <2>6. QED BY <2>1, <2>2, <2>5 DEF Combine, Fill
<1>3. Covers(Fill(u, d, Any(u, {s})), Xfer(t, d, s))
  <2>1. PICK b \in BOOLEAN : b <=> Any(u, {s})
    BY AnyBoolean
  <2>2. Get(t, s) # {} => b
    BY <2>1, CoverAny
  <2>3. Covers(Fill(u, d, b), Put(t, d, Get(t, s)))
    BY <1>1, <2>2, CoverFill
  <2>4. QED BY <2>1, <2>3 DEF Xfer, Fill
<1>4. Covers(Fill(u, d, Any(u, {d})), t)
  <2>1. PICK b \in BOOLEAN : b <=> Any(u, {d})
    BY AnyBoolean
  <2>2. Get(t, d) # {} => b
    BY <2>1, CoverAny
  <2>3. Covers(Fill(u, d, b), Put(t, d, Get(t, d)))
    BY <1>1, <2>2, CoverFill
  <2>4. QED BY <2>1, <2>3, PutSame DEF Fill
<1>5. QED BY <1>2, <1>3, <1>4

LEMMA CombineNone == ASSUME NEW t, NEW d, NEW s, Get(t, d) = {}, Get(t, s) = {} PROVE Combine(t, d, s) = t
<1>1. Get(t, d) \cup Get(t, s) = Get(t, d)
  OBVIOUS
<1>2. QED BY <1>1, PutSame DEF Combine

LEMMA CombineAdds ==
    ASSUME NEW t, NEW d, NEW s, s.len = d.len PROVE Combine(t, d, s) \subseteq t \cup Bytes(d)
<1>1. Get(t, d) \cup Get(t, s) \subseteq 0 .. d.len - 1
  BY DEF Get
<1>2. QED BY <1>1 DEF Combine, Put, Bytes

InPair(q, n) == Bytes(Hi(q.len)) \cup Bytes(Lo(q.len)) \subseteq Bytes(Hi(n)) \cup Bytes(Lo(n))
PairRead(t, n, s) == Any(t, {Hi(n), Lo(n), s})
PartOf(t, q, s) == Get(t, q) # {} => Get(t, s) # {}

\* A division reads and marks the pair of the width of its operand; the tool, which may
\* take another width, stays within that pair.
LEMMA CoverPair ==
    ASSUME NEW t, NEW u, Covers(u, t), NEW q, q.len \in {1, 2, 4}, NEW s, NEW n \in {1, 2, 4},
           s.base # Scratch, PartOf(t, q, s), InPair(q, n),
           NEW b \in BOOLEAN, b <=> PairRead(u, n, s)
    PROVE  Covers(FillPair(u, n, b), CombinePair(t, q))
<1>1. PICK h, k, H, L : h = Hi(q.len) /\ k = Lo(q.len) /\ H = Hi(n) /\ L = Lo(n)
  OBVIOUS
<1>2. /\ h.len = q.len /\ k.len = q.len
      /\ H.base # Scratch /\ L.base # Scratch
  BY <1>1, HiLoReal DEF Plain
<1>3. CombinePair(t, q) = Combine(Combine(t, h, q), k, q)
  BY <1>1 DEF CombinePair
<1>4. CASE b
  <2>1. FillPair(u, n, b) = (u \cup Bytes(H)) \cup Bytes(L)
    BY <1>1, <1>4 DEF FillPair, Fill
  <2>2. PICK v : v = Combine(t, h, q)
    OBVIOUS
  <2>3. v \subseteq t \cup Bytes(h) /\ Combine(v, k, q) \subseteq v \cup Bytes(k)
    BY <1>2, <2>2, CombineAdds
  <2>4. QED BY <1>1, <1>3, <2>1, <2>2, <2>3 DEF Covers, InPair
<1>5. CASE ~b
  <2>1. Get(u, H) = {} /\ Get(u, L) = {} /\ Get(u, s) = {}
    BY <1>1, <1>5 DEF PairRead, Any
  <2>2. Get(t, H) = {} /\ Get(t, L) = {} /\ Get(t, s) = {}
    BY <1>2, <2>1, CoverGet
  <2>3. \A l \in Bytes(H) \cup Bytes(L) : l \notin t
    BY <2>2 DEF Get, Bytes
  <2>4. Get(t, h) = {} /\ Get(t, k) = {} /\ Get(t, q) = {}
    <3>1. \A l \in Bytes(h) \cup Bytes(k) : l \notin t
      BY <1>1, <2>3 DEF InPair
    <3>2. QED BY <2>2, <3>1 DEF Get, Bytes, PartOf
  <2>5. CombinePair(t, q) = t
    BY <1>3, <2>4, CombineNone
  <2>6. FillPair(u, n, b) = (u \ Bytes(H)) \ Bytes(L)
    BY <1>1, <1>5 DEF FillPair, Fill
  <2>7. QED BY <2>3, <2>5, <2>6 DEF Covers
<1>6. QED BY <1>4, <1>5

\* The classes whose routines leave no stale tag, at any address and for any operands.
Precise == {"plain", "bitscan", "movsxw", "div", "memdiv", "xadd", "stosb", "shift", "popa"}

\* A step of one instruction that, when its class is one of them, adds no stale tag.
Covered == \E c : Use(c) /\ (c \in Precise /\ Covers(may, tags) => Covers(may', tags'))

LEMMA CoverUse ==
    ASSUME NEW c, Use(c), c \in Precise /\ Covers(may, tags) => Covers(may', tags')
    PROVE  Covered
BY DEF Covered

LEMMA LooseUse == ASSUME NEW c, Use(c), c \notin Precise PROVE Covered
BY DEF Covered

LEMMA MovesClean ==
    ASSUME NEW d, NEW s, Plain(d), Plain(s), s.len = d.len, NEW c \in BOOLEAN
    PROVE  /\ MovRegs(d, s) \/ MovLoad(d, s) \/ MovStore(d, s) => Covered
           /\ Movs(d, s) \/ PushReg(d, s) \/ PushMem(d, s) \/ PopReg(d, s) \/ PopMem(d, s) => Covered
           /\ CmovRegs(d, s, c) \/ CmovLoad(d, s, c) => Covered
           /\ BitscanRegs(d, s) \/ BitscanLoad(d, s) => Covered
<1>1. d.base # Scratch /\ s.base # Scratch
  BY DEF Plain
<1>2. Covers(may, tags) => Covers(Xfer(may, d, s), Xfer(tags, d, s))
  BY <1>1, CoverXfer
<1>3. r2m_xfer(d, s) => tags' = Xfer(tags, d, s)
  BY DEF r2m_xfer, r2m_xfer_opb, r2m_xfer_opw, r2m_xfer_opl
<1>4. MovRegs(d, s) \/ MovLoad(d, s) \/ MovStore(d, s) => Covered
  BY <1>2, <1>3, CoverUse DEF MovRegs, MovLoad, MovStore, r2r_xfer, m2r_xfer, CpuMove, Cpu
<1>5. Movs(d, s) \/ PushReg(d, s) \/ PushMem(d, s) \/ PopReg(d, s) \/ PopMem(d, s) => Covered
  BY <1>2, <1>3, CoverUse
     DEF Movs, PushReg, PushMem, PopReg, PopMem, m2m_xfer, m2r_xfer, CpuMove, Cpu
<1>6. CmovRegs(d, s, c) \/ CmovLoad(d, s, c) => Covered
  <2>1. CASE c
    BY <1>2, <2>1, CoverUse DEF CmovRegs, CmovLoad, r2r_xfer, m2r_xfer, CpuMove, Cpu
  <2>2. CASE ~c
    BY <2>2, CoverUse DEF CmovRegs, CmovLoad, Cpu
  <2>3. QED BY <2>1, <2>2
<1>7. BitscanRegs(d, s) \/ BitscanLoad(d, s) => Covered
  <2>1. Covers(may, tags) => Covers(Fill(may, d, Any(may, {s})), Xfer(tags, d, s))
    BY <1>1, CoverSum
  <2>2. QED BY <2>1, CoverUse DEF BitscanRegs, BitscanLoad, BitscanOf, r2r_xfer, m2r_xfer, Cpu
<1>8. QED BY <1>4, <1>5, <1>6, <1>7

LEMMA ArithClean ==
    ASSUME NEW d, NEW s, Plain(d), Plain(s), s.len = d.len, NEW c \in BOOLEAN
    PROVE  /\ BinaryLoad(d, s) \/ BinaryStore(d, s) \/ ImulRegs(d, s) \/ ImulLoad(d, s) => Covered
           /\ Imul3Regs(d, s) \/ Imul3Load(d, s) => Covered
           /\ BinaryRegs(d, s, c) \/ BinaryBytes(d, s, c) => Covered
<1>1. d.base # Scratch /\ s.base # Scratch
  BY DEF Plain
<1>2. Covers(may, tags) => Covers(Fill(may, d, Any(may, {d, s})), Combine(tags, d, s))
  BY <1>1, CoverSum
<1>3. Covers(may, tags) => Covers(Clr(may, d), Clr(tags, d))
  BY CoverClr
<1>4. BinaryLoad(d, s) \/ BinaryStore(d, s) \/ ImulRegs(d, s) \/ ImulLoad(d, s) => Covered
  BY <1>2, CoverUse DEF BinaryLoad, BinaryStore, ImulRegs, ImulLoad, r2r_binary, m2r_binary,
     r2m_binary, CpuArith, Cpu
<1>5. Imul3Regs(d, s) \/ Imul3Load(d, s) => Covered
  <2>1. "imul3" \notin Precise
    BY DEF Precise
  <2>2. QED BY <2>1, LooseUse DEF Imul3Regs, Imul3Load
<1>6. BinaryOp(d, s, c) /\ Covers(may, tags) => Covers(may', tags')
  BY <1>2, <1>3 DEF BinaryOp, r_clr, r2r_binary, CpuClear, CpuArith, Cpu
<1>7. BinaryRegs(d, s, c) \/ BinaryBytes(d, s, c) => Covered
  BY <1>6, CoverUse DEF BinaryRegs, BinaryBytes
<1>8. QED BY <1>4, <1>5, <1>7

\* xadd of bytes and words.
LEMMA CoverXadd ==
    ASSUME NEW t, NEW u, Covers(u, t), NEW d, NEW s, d.base # Scratch, s.base # Scratch, s.len = d.len
    PROVE  Covers(Fill(Xfer(u, s, d), d, Any(u, {d, s})), xadd_r2r(t, d, s))
<1>1. PICK b \in BOOLEAN : b <=> Any(u, {d, s})
  BY AnyBoolean
<1>2. PICK z : z = Clr(t, Reg(d.base, 4))
  OBVIOUS
<1>3. PICK D, B : D = Get(t, d) /\ B = Get(t, d) \cup Get(t, s)
  OBVIOUS
<1>4. Covers(u, z)
  BY <1>2 DEF Covers, Clr
<1>5. B # {} => b
  BY <1>1, <1>3, CoverAny
<1>6. D \subseteq B /\ D \subseteq Get(u, d) /\ B \subseteq 0 .. d.len - 1
  BY <1>3, CoverGet DEF Get
<1>7. \A k \in B : <<d.base, d.off + k>> \in Bytes(d)
  BY <1>6 DEF Bytes
<1>8. Covers(Fill(Xfer(u, s, d), d, b), Put(Put(z, d, B), s, D))
  <2>1. CASE b
    BY <1>4, <1>6, <1>7, <2>1 DEF Covers, Fill, Xfer, Put
  <2>2. CASE ~b
    <3>1. B = {} /\ D = {}
      BY <1>5, <1>6, <2>2
    <3>2. QED BY <1>4, <2>2, <3>1 DEF Covers, Fill, Xfer, Put
  <2>3. QED BY <2>1, <2>2
<1>9. QED BY <1>1, <1>2, <1>3, <1>8 DEF xadd_r2r, Fill

LEMMA ExchangesClean ==
    ASSUME NEW d, Plain(d), NEW s, Plain(s), s.len = d.len, NEW c \in BOOLEAN
    PROVE  /\ XchgRegs(d, s) \/ XchgMem(d, s) => Covered
           /\ XaddMem(d, s) \/ Cmpxchg8(d, s) => Covered
           /\ d = s \/ Bytes(d) \cap Bytes(s) = {} => (XaddRegs(d, s) => Covered)
           /\ CmpxchgRegs(d, s, c) \/ CmpxchgMem(d, s, c) => Covered
<1> DEFINE x == Reg(Scratch, 4)
<1>1. d.len \in {1, 2, 4} /\ d.base # Scratch /\ s.base # Scratch
  BY DEF Plain
<1>2. Covers(may, tags) => Covers(Swap(may, d, s), Swap(tags, d, s))
  BY <1>1, CoverSwap
<1>3. XchgRegs(d, s) => Covered
  <2>1. ASSUME xchg_r2r(d, s), Covers(may, tags) PROVE Covers(Swap(may, d, s), tags')
    <3>1. CASE d.len < 4
      BY <1>2, <2>1, <3>1 DEF xchg_r2r
    <3>2. CASE d.len = 4
      <4>1. PICK u : u = Xfer(tags, x, d)
        OBVIOUS
      <4>2. tags' = Swap(u, d, s)
        BY <2>1, <3>2, <4>1, Exchanged DEF xchg_r2r
      <4>3. Covers(may, u)
        BY <2>1, <4>1, CoverScratch
      <4>4. QED BY <1>1, <4>2, <4>3, CoverSwap
    <3>3. QED BY <1>1, <3>1, <3>2
  <2>2. QED BY <2>1, CoverUse DEF XchgRegs, Cpu
<1>4. XchgMem(d, s) => Covered
  <2>1. CASE d.len = 2
    <3>1. "xchgw" \notin Precise
      BY DEF Precise
    <3>2. QED BY <2>1, <3>1, LooseUse DEF XchgMem
  <2>2. CASE d.len # 2
    BY <1>2, <2>2, CoverUse DEF XchgMem, xchg_m2r_op, xchg_m2r_opw, Cpu
  <2>3. QED BY <2>1, <2>2
<1>5. XaddMem(d, s) \/ Cmpxchg8(d, s) => Covered
  <2>1. "xaddmem" \notin Precise /\ "cmpxchg8" \notin Precise
    BY DEF Precise
  <2>2. QED BY <2>1, LooseUse DEF XaddMem, Cmpxchg8
<1>6. ASSUME d = s \/ Bytes(d) \cap Bytes(s) = {}, XaddRegs(d, s) PROVE Covered
  <2>1. may' = Fill(Xfer(may, s, d), d, Any(may, {d, s}))
    BY <1>6 DEF XaddRegs, CpuXadd, Cpu
  <2>2. CASE d.len # 4
    <3>1. tags' = xadd_r2r(tags, d, s)
      BY <1>6, <2>2 DEF XaddRegs
    <3>2. Covers(may, tags) => Covers(may', tags')
      BY <1>1, <2>1, <3>1, CoverXadd
    <3>3. QED BY <1>6, <2>2, <3>2, CoverUse DEF XaddRegs
  <2>3. CASE d.len = 4
    <3>1. PICK u : u = Xfer(tags, x, d)
      OBVIOUS
    <3>2. tags' = Combine(Swap(u, d, s), d, s)
      BY <1>6, <2>3, <3>1, Exchanged DEF XaddRegs, xadd_opl
    <3>3. PICK v, w, B : v = Xfer(u, s, d) /\ w = Xfer(may, s, d) /\ B = Get(u, d) \cup Get(u, s)
      OBVIOUS
    <3>4. tags' = Put(v, d, B)
      BY <1>6, <3>2, <3>3, XaddSwap
    <3>5. PICK b \in BOOLEAN : b <=> Any(may, {d, s})
      BY AnyBoolean
    <3>6. ASSUME Covers(may, tags) PROVE Covers(may', tags')
      <4>1. Covers(may, u)
        BY <3>1, <3>6, CoverScratch
      <4>2. Covers(w, v)
        BY <1>1, <3>3, <4>1, CoverXfer
      <4>3. B # {} => b
        BY <1>1, <3>3, <3>5, <4>1, CoverAny
      <4>4. B \subseteq 0 .. d.len - 1
        BY <3>3 DEF Get
      <4>5. Covers(Fill(w, d, b), Put(v, d, B))
        BY <4>2, <4>3, <4>4, CoverFill
      <4>6. QED BY <2>1, <3>3, <3>4, <3>5, <4>5 DEF Fill
    <3>7. QED BY <1>6, <2>3, <3>6, CoverUse DEF XaddRegs
  <2>4. QED BY <2>2, <2>3
<1>7. CmpxchgOp(d, s, c) => Covered
  <2>1. PICK u : u = Xfer(tags, x, Reg(EAX, 4))
    OBVIOUS
  <2>2. Covers(may, tags) => Covers(may, u)
    BY <2>1, CoverScratch
  <2>3. cmpxchg_fast(tags, d) = Xfer(u, Reg(EAX, d.len), d)
    BY <2>1 DEF cmpxchg_fast
  <2>4. cmpxchg_slow(cmpxchg_fast(tags, d), d, s) = Xfer(u, d, s)
    BY <2>1, CmpxchgUndone
  <2>5. Covers(may, tags) => /\ Covers(Xfer(may, d, s), Xfer(u, d, s))
                             /\ Covers(Xfer(may, Reg(EAX, d.len), d), Xfer(u, Reg(EAX, d.len), d))
    BY <1>1, <2>2, CoverXfer
  <2>6. CASE c
    BY <2>4, <2>5, <2>6, CoverUse DEF CmpxchgOp, CpuMove, Cpu
  <2>7. CASE ~c
    BY <2>3, <2>5, <2>7, CoverUse DEF CmpxchgOp, CpuMove, Cpu
  <2>8. QED BY <2>6, <2>7
<1>8. QED BY <1>3, <1>4, <1>5, <1>6, <1>7 DEF CmpxchgRegs, CmpxchgMem

LEMMA ClearsClean ==
    ASSUME TypeInv, NEW d, Plain(d)
    PROVE  /\ MovImm(d) \/ PushImm(d) \/ Setcc(d) \/ Stmxcsr(d) \/ Smsw(d) => Covered
           /\ Lar(d) \/ Pushf(d) \/ CallNear(d) => Covered
<1>1. (r_clr(d) \/ tagmap_clr(d)) => tags' = Clr(tags, d)
  BY Cleared
<1>2. Covers(may, tags) => Covers(Clr(may, d), Clr(tags, d))
  BY CoverClr
<1>3. QED BY <1>1, <1>2, CoverUse
             DEF MovImm, PushImm, Setcc, Stmxcsr, Smsw, Lar, Pushf, CallNear, CpuClear, Cpu

LEMMA DivisionsClean == ASSUME NEW s, Plain(s), Div(s) \/ DivMem(s) PROVE Covered
<1>1. s.len \in {1, 2, 4} /\ s.base # Scratch
  BY DEF Plain
<1>2. CASE Div(s)
  <2>1. PICK n \in {1, 2, 4} : n = s.len
    BY <1>1
  <2>b. PICK b \in BOOLEAN : b <=> PairRead(may, n, s)
    BY AnyBoolean DEF PairRead
  <2>2. ASSUME Covers(may, tags) PROVE Covers(FillPair(may, n, b), CombinePair(tags, s))
    <3>1. InPair(s, n) /\ PartOf(tags, s, s)
      BY <2>1 DEF InPair, PartOf
    <3>2. QED BY <1>1, <2>b, <2>2, <3>1, CoverPair
  <2>3. may' = FillPair(may, n, b) /\ tags' = CombinePair(tags, s) /\ Use("div")
    BY <1>2, <2>1, <2>b DEF Div, r2r_ternary, CpuDiv, Cpu, FillPair, Fill, PairRead
  <2>4. QED BY <2>2, <2>3, CoverUse
<1>3. CASE DivMem(s)
  <2>1. PICK q : q = ReadAsByte(s)
    OBVIOUS
  <2>2. q.base = s.base /\ q.off = s.off /\ q.len = 1
    BY <2>1, OpFields DEF ReadAsByte
  <2>3. Get(tags, q) # {} => Get(tags, s) # {}
    BY <1>1, <2>2 DEF Get
  <2>4. Bytes(Hi(1)) \cup Bytes(Lo(1)) \subseteq Bytes(Hi(s.len)) \cup Bytes(Lo(s.len))
    <3>1. CASE s.len = 1
      BY <3>1
    <3>2. CASE s.len # 1
      <4>1. Lo(s.len) = Reg(EAX, s.len) /\ Lo(1) = AL /\ Hi(1) = AH
        BY <3>2 DEF Lo, Hi
      <4>2. Bytes(Reg(EAX, s.len)) = {<<EAX, 0 + k>> : k \in 0 .. s.len - 1}
        BY RegLen DEF Bytes
      <4>3. 0 \in 0 .. s.len - 1 /\ 1 \in 0 .. s.len - 1
        BY <1>1, <3>2
      <4>4. <<EAX, 0 + 0>> \in Bytes(Reg(EAX, s.len)) /\ <<EAX, 0 + 1>> \in Bytes(Reg(EAX, s.len))
        BY <4>2, <4>3
      <4>5. Bytes(AL) = {<<EAX, 0 + 0>>} /\ Bytes(AH) = {<<EAX, 1 + 0>>}
        BY OpFields, 0 .. 1 - 1 = {0} DEF AL, AH, Bytes
      <4>6. QED BY <4>1, <4>4, <4>5
    <3>3. QED BY <3>1, <3>2
  <2>5. PICK n \in {1, 2, 4} : n = s.len
    BY <1>1
  <2>b. PICK b \in BOOLEAN : b <=> PairRead(may, n, s)
    BY AnyBoolean DEF PairRead
  <2>6. ASSUME Covers(may, tags) PROVE Covers(FillPair(may, n, b), CombinePair(tags, q))
    <3>1. q.len \in {1, 2, 4}
      BY <2>2
    <3>2. InPair(q, n) /\ PartOf(tags, q, s)
      BY <2>2, <2>3, <2>4, <2>5 DEF InPair, PartOf
    <3>3. QED BY <1>1, <2>b, <2>6, <3>1, <3>2, CoverPair
  <2>7. may' = FillPair(may, n, b) /\ tags' = CombinePair(tags, q) /\ Use("memdiv")
    BY <1>3, <2>1, <2>5, <2>b DEF DivMem, m2r_ternary, CpuDiv, Cpu, FillPair, Fill, PairRead
  <2>8. QED BY <2>6, <2>7, CoverUse
<1>4. QED BY <1>2, <1>3

LEMMA OthersClean ==
    ASSUME NEW d, Plain(d)
    PROVE  /\ BinaryImm(d) \/ Shift(d) => Covered
           /\ Mul(d) \/ Imul1(d) \/ MulMem(d) \/ Imul1Mem(d) => Covered
           /\ Default(d, Reg(Xmm, 4)) \/ Default(Reg(Xmm, 4), d) => Covered
           /\ Stos(d) \/ Lods(d) \/ Enter(d) \/ Leave(d) => Covered
<1>1. d.base # Scratch /\ d.len \in {1, 2, 4}
  BY DEF Plain
<1>2. "mul" \notin Precise /\ "sse" \notin Precise /\ "enter" \notin Precise
  BY DEF Precise
<1>3. BinaryImm(d) \/ Shift(d) => Covered
  <2>1. Covers(may, tags) => Covers(Fill(may, d, Any(may, {d})), tags)
    BY <1>1, CoverSum
  <2>2. QED BY <2>1, CoverUse DEF BinaryImm, Shift, Cpu
<1>4. Mul(d) \/ Imul1(d) \/ MulMem(d) \/ Imul1Mem(d) => Covered
  BY <1>2, LooseUse DEF Mul, Imul1, MulMem, Imul1Mem
<1>5. Default(d, Reg(Xmm, 4)) \/ Default(Reg(Xmm, 4), d) \/ Enter(d) => Covered
  BY <1>2, LooseUse DEF Default, Enter
<1>6. PICK e : e = Reg(EAX, d.len)
  OBVIOUS
<1>7. e.base # Scratch
  BY <1>6, RegLen DEF EAX, Scratch
<1>8. Covers(may, tags) => /\ Covers(Xfer(may, d, e), Xfer(tags, d, e))
                           /\ Covers(Xfer(may, e, d), Xfer(tags, e, d))
  BY <1>1, <1>7, CoverXfer
<1>9. Stos(d) => Covered
  <2>1. r2m_xfer(d, e) => tags' = Xfer(tags, d, e)
    BY DEF r2m_xfer, r2m_xfer_opb, r2m_xfer_opw, r2m_xfer_opl
  <2>2. QED BY <1>6, <1>8, <2>1, CoverUse DEF Stos, CpuMove, Cpu
<1>10. Lods(d) => Covered
  BY <1>6, <1>8, CoverUse DEF Lods, m2r_xfer, CpuMove, Cpu
<1>11. Leave(d) => Covered
  <2> DEFINE b == Reg(EBP, d.len)
             p == Reg(ESP, d.len)
  <2>1. PICK v, w : v = Xfer(may, p, b) /\ w = Xfer(tags, p, b)
    OBVIOUS
  <2>2. b.base # Scratch
    BY RegLen DEF EBP, Scratch
  <2>3. Covers(may, tags) => Covers(v, w)
    BY <2>1, <2>2, CoverXfer
  <2>4. Covers(v, w) => Covers(Xfer(v, b, d), Xfer(w, b, d))
    BY <1>1, CoverXfer
  <2>5. Leave(d) => Use("plain") /\ may' = Xfer(v, b, d) /\ tags' = Xfer(w, b, d)
    BY <2>1 DEF Leave, Cpu
  <2>6. QED BY <2>3, <2>4, <2>5, CoverUse
<1>12. QED BY <1>3, <1>4, <1>5, <1>9, <1>10, <1>11

\* The source is repeated over the destination, whose added bytes hold the sign.
LEMMA CoverExtend ==
    ASSUME NEW t, NEW u, Covers(u, t), NEW d, d.len \in {1, 2, 4}, NEW s, s.base # Scratch,
           s.len \in {1, 2, 4}, NEW q, q.len = s.len, Get(t, q) = Get(t, s)
    PROVE  Covers(Put(u, d, {k \in 0 .. d.len - 1 :
                               IF k < s.len THEN k \in Get(u, s) ELSE Any(u, {s})}), Extend(t, d, q))
<1> DEFINE B == {k \in 0 .. d.len - 1 : k % q.len \in Get(t, q)}
           C == {k \in 0 .. d.len - 1 : IF k < s.len THEN k \in Get(u, s) ELSE Any(u, {s})}
<1>1. ASSUME NEW k \in B PROVE k \in C
  <2>1. CASE k < s.len
    <3>1. k % q.len = k
      BY <2>1
    <3>2. QED BY <2>1, <3>1, CoverGet
  <2>2. CASE ~(k < s.len)
    <3>1. Get(t, s) # {}
      OBVIOUS
    <3>2. Any(u, {s})
      BY <3>1, CoverAny
    <3>3. QED BY <2>2, <3>2
  <2>3. QED BY <2>1, <2>2
<1>2. B \subseteq C
  BY <1>1
<1> HIDE DEF B, C
<1>3. Covers(Put(u, d, C), Put(t, d, B))
  BY <1>2, CoverPut
<1>4. QED BY <1>3 DEF Extend, B, C

LEMMA ExtensionsClean ==
    ASSUME NEW d, Plain(d), NEW s, Plain(s)
    PROVE  MovsxRegs(d, s) \/ MovzxRegs(d, s) \/ MovsxLoad(d, s) \/ MovzxLoad(d, s) => Covered
<1> DEFINE C == {k \in 0 .. d.len - 1 : IF k < s.len THEN k \in Get(may, s) ELSE Any(may, {s})}
<1>1. d.len \in {1, 2, 4} /\ s.len \in {1, 2, 4} /\ s.base # Scratch
  BY DEF Plain
<1>2. CpuSignExtend(d, s) => may' = Put(may, d, C)
  BY DEF CpuSignExtend, Cpu
<1>3. MovsxRegs(d, s) => Covered
  <2>1. Covers(may, tags) => Covers(Put(may, d, C), Extend(tags, d, s))
    BY <1>1, CoverExtend
  <2> HIDE DEF C
  <2>2. MovsxRegs(d, s) /\ Covers(may, tags) => Covers(may', tags')
    BY <1>2, <2>1 DEF MovsxRegs, movsx_r2r
  <2>3. QED BY <2>2, CoverUse DEF MovsxRegs
<1>4. Covers(may, tags) => Covers(Xfer(may, d, s), Xfer(tags, d, s))
  BY <1>1, CoverXfer
<1>5. MovzxRegs(d, s) => Covered
  BY <1>4, CoverUse DEF MovzxRegs, movzx_r2r, CpuMove, Cpu
<1>6. CASE s.len = 1
  <2>1. PICK b : b = ReadAsByte(s)
    OBVIOUS
  <2>2. Get(tags, b) = Get(tags, s) /\ b.len = s.len
    BY <1>6, <2>1, ByteRead
  <2>3. Covers(may, tags) => Covers(Put(may, d, C), Extend(tags, d, b))
    BY <1>1, <2>2, CoverExtend
  <2> HIDE DEF C
  <2>4. MovsxLoad(d, s) => Covered
    <3>1. MovsxLoad(d, s) /\ Covers(may, tags) => Covers(may', tags')
      BY <1>2, <2>1, <2>3 DEF MovsxLoad, movsx_m2r
    <3>2. QED BY <3>1, CoverUse DEF MovsxLoad
  <2>5. MovzxLoad(d, s) => Covered
    <3>1. MovzxLoad(d, s) => tags' = Xfer(tags, d, s) /\ may' = Xfer(may, d, s)
      BY <2>1, <2>2 DEF MovzxLoad, movzx_m2r, Xfer, CpuMove, Cpu
    <3>2. QED BY <1>4, <3>1, CoverUse DEF MovzxLoad
  <2>6. QED BY <1>3, <1>5, <2>4, <2>5
<1>7. CASE s.len # 1
  <2>1. "memext" \notin Precise
    BY DEF Precise
  <2>2. QED BY <1>3, <1>5, <1>7, <2>1, LooseUse DEF MovsxLoad, MovzxLoad
<1>8. QED BY <1>6, <1>7

LEMMA FixedClean ==
    ASSUME TypeInv, Lahf \/ Salc \/ Rdtsc \/ Cpuid \/ Cbw \/ Cwd \/ Cdq \/ Cwde
    PROVE  Covered
<1>1. CASE Lahf \/ Salc
  <2>1. Covers(may, tags) => \A d : Covers(Clr(may, d), Clr(tags, d))
    BY CoverClr
  <2>2. QED BY <1>1, <2>1, CoverUse DEF Lahf, Salc, CpuClear, Cpu
<1>2. ASSUME NEW r \in Gpr, NEW l \in tags, l[1] = r PROVE l \in Bytes(Reg(r, 4))
  <2>1. l \in Loc /\ r # Mem
    BY DEF TypeInv, TypeOK, Gpr, Mem
  <2>2. l[2] \in 0 .. 3 /\ l = <<r, l[2]>>
    BY <1>2, <2>1 DEF Loc
  <2>3. Bytes(Reg(r, 4)) = {<<r, 0 + k>> : k \in 0 .. 3}
    BY RegLen DEF Bytes
  <2>4. l[2] = 0 + l[2]
    BY <2>2
  <2>5. QED BY <2>2, <2>3, <2>4
<1>3. r_clrl2(tags) \subseteq tags /\ \A l \in r_clrl2(tags) : l[1] \notin {EAX, EDX}
  BY <1>2, Accumulator DEF r_clrl2, Clr
<1>4. r_clrl4(tags) \subseteq tags /\ \A l \in r_clrl4(tags) : l[1] \notin {EAX, EBX, ECX, EDX}
  BY <1>2, <1>3, Accumulator DEF r_clrl4, Clr
<1>5. CASE Rdtsc
  <2>1. Covers(may, tags) => Covers(may', tags')
    BY <1>3, <1>5 DEF Rdtsc, CpuClearRegs, Cpu, Covers
  <2>2. QED BY <1>5, <2>1, CoverUse DEF Rdtsc
<1>6. CASE Cpuid
  <2>1. Covers(may, tags) => Covers(may', tags')
    BY <1>4, <1>6 DEF Cpuid, CpuClearRegs, Cpu, Covers
  <2>2. QED BY <1>6, <2>1, CoverUse DEF Cpuid
<1>7. ASSUME NEW d, NEW s, d.base # Scratch, s.base # Scratch, s.len = d.len, SignInto(d, s) PROVE Covered
  <2>1. Covers(may, tags) => Covers(Fill(may, d, Any(may, {s})), Xfer(tags, d, s))
    BY <1>7, CoverSum
  <2>2. Covers(may, tags) => Covers(may', tags')
    BY <1>7, <2>1 DEF SignInto, Cpu
  <2>3. QED BY <1>7, <2>2, CoverUse DEF SignInto
<1>8. EAX # Scratch /\ EDX # Scratch
  BY DEF EAX, EDX, Scratch
<1>9. CASE Cbw
  BY <1>7, <1>8, <1>9, OpFields DEF Cbw, AL, AH
<1>10. CASE Cwd
  BY <1>7, <1>8, <1>10, RegLen DEF Cwd
<1>11. CASE Cdq
  BY <1>7, <1>8, <1>11, RegLen DEF Cdq
<1>12. CASE Cwde
  <2>1. PICK d, s : d = Reg(EAX, 4) /\ s = Reg(EAX, 2)
    OBVIOUS
  <2>2. d.len \in {1, 2, 4} /\ s.len \in {1, 2, 4} /\ s.base # Scratch /\ s.len = s.len
    BY <1>8, <2>1, RegLen
  <2> DEFINE C == {k \in 0 .. d.len - 1 : IF k < s.len THEN k \in Get(may, s) ELSE Any(may, {s})}
  <2>3. Covers(may, tags) => Covers(Put(may, d, C), Extend(tags, d, s))
    BY <2>2, CoverExtend
  <2>4. may' = Put(may, d, C) /\ tags' = Extend(tags, d, s) /\ Use("movsxw")
    BY <1>12, <2>1 DEF Cwde, cwde, CpuSignExtend, Cpu
  <2> HIDE DEF C
  <2>5. QED BY <2>3, <2>4, CoverUse
<1>13. QED BY <1>1, <1>5, <1>6, <1>9, <1>10, <1>11, <1>12

LEMMA StringsClean ==
    ASSUME TypeInv, NEW a \in Starts, NEW n \in {1, 2, 4}, NEW c \in Counts, NEW down \in BOOLEAN,
           RepStos(a, n, c, down)
    PROVE  Covered
<1> DEFINE k == IF down THEN "std" ELSE IF n = 1 /\ c <= 8 THEN "stosb"
                ELSE IF Multiplied(a, c * n) THEN "stosm" ELSE "stosn"
<1>1. Use(k)
  BY DEF RepStos
<1>2. a \in Nat /\ c \in Nat
  BY Propagation32Assumption
<1>3. k \in Precise => ~down /\ n = 1 /\ c \in 0 .. 8
  BY <1>2 DEF Precise
<1> HIDE DEF k
<1>4. ASSUME ~down, n = 1, c \in 0 .. 8, Covers(may, tags) PROVE Covers(may', tags')
  <2> DEFINE e == Reg(EAX, 1)
             d == Op(Mem, a, c)
             B == {j \in 0 .. c - 1 : j % 1 \in Get(may, e)}
  <2>1. c * n = c
    BY <1>2, <1>4
  <2>2. may' = Put(may, d, B)
    BY <1>4, <2>1 DEF RepStos, Stosn, Cpu
  <2>3. tags' = WithBitmap(tags, IF Any(tags, {e}) THEN tagmap_setn(Bitmap(tags), a, c)
                                                   ELSE tagmap_clrn(Bitmap(tags), a, c))
    BY <1>4, <2>1 DEF RepStos, r2m_xfer_opbn, r2m_xfer_n
  <2>4. WithBitmap(tags, tagmap_setn(Bitmap(tags), a, c)) = Marked(tags, d)
    BY <1>2, RangeSet DEF TypeInv, TypeOK
  <2>5. WithBitmap(tags, tagmap_clrn(Bitmap(tags), a, c)) = Clr(tags, d)
    BY <1>2, <1>4, RangeCleared DEF TypeInv, TypeOK
  <2>6. e.base # Scratch /\ e.len = 1 /\ d.len = c
    BY RegLen, OpFields DEF EAX, Scratch
  <2> HIDE DEF e, d
  <2>7. CASE Any(tags, {e})
    <3>1. Get(tags, e) # {} /\ Get(tags, e) \subseteq Get(may, e)
      BY <1>4, <2>6, <2>7, CoverGet DEF Any
    <3>2. 0 \in Get(may, e)
      <4>1. \A j \in Get(may, e) : j = 0
        BY <2>6, 0 .. 1 - 1 = {0} DEF Get
      <4>2. QED BY <3>1, <4>1
    <3>3. ASSUME NEW j \in 0 .. c - 1 PROVE j \in B
      <4>1. j % 1 = 0
        BY <1>2
      <4>2. QED BY <3>2, <4>1
    <3>4. Bytes(d) \subseteq Put(may, d, B)
      BY <2>6, <3>3 DEF Put, Bytes
    <3>5. may \ Bytes(d) \subseteq Put(may, d, B)
      BY DEF Put
    <3>6. tags' = Marked(tags, d)
      BY <2>3, <2>4, <2>7
    <3> HIDE DEF B
    <3>7. QED BY <1>4, <2>2, <3>4, <3>5, <3>6 DEF Covers, Marked
  <2>8. CASE ~Any(tags, {e})
    <3>1. tags' = Clr(tags, d)
      BY <2>3, <2>5, <2>8
    <3>2. may \ Bytes(d) \subseteq Put(may, d, B)
      BY DEF Put
    <3> HIDE DEF B
    <3>3. QED BY <1>4, <2>2, <3>1, <3>2 DEF Covers, Clr
  <2>9. QED BY <2>7, <2>8
<1>5. QED BY <1>1, <1>3, <1>4, CoverUse

LEMMA FramesClean ==
    ASSUME NEW a \in Frames, NEW n \in {2, 4}, Pusha(a, n) \/ Popa(a, n)
    PROVE  Covered
<1>1. a \in Nat
  BY Propagation32Assumption
<1>2. CASE Pusha(a, n)
  <2> DEFINE d == Op(Mem, a, 8 * n)
             B(t) == {k \in 0 .. (8 * n) - 1 : <<k \div n, k % n>> \in t}
  <2>1. tags' = Put(tags, d, B(tags)) /\ may' = Put(may, d, B(may)) /\ Use("plain")
    BY <1>2 DEF Pusha, r2m_save_opw, r2m_save_opl, Saved, Cpu
  <2>2. \A k \in 0 .. (8 * n) - 1 : k \div n # Scratch
    <3>1. CASE n = 2
      BY <3>1 DEF Scratch
    <3>2. CASE n = 4
      BY <3>2 DEF Scratch
    <3>3. QED BY <3>1, <3>2
  <2>3. Covers(may, tags) => B(tags) \subseteq B(may)
    <3>1. SUFFICES ASSUME Covers(may, tags), NEW k \in B(tags) PROVE k \in B(may)
      OBVIOUS
    <3>2. PICK i, j : i = k \div n /\ j = k % n
      OBVIOUS
    <3>3. <<i, j>> \in tags /\ i # Scratch
      BY <2>2, <3>2
    <3>4. <<i, j>> \in may
      BY <3>1, <3>3 DEF Covers
    <3>5. QED BY <3>2, <3>4
  <2> HIDE DEF B, d
  <2>4. Covers(may, tags) => Covers(Put(may, d, B(may)), Put(tags, d, B(tags)))
    BY <2>3, CoverPut
  <2>5. QED BY <2>1, <2>4, CoverUse
<1>3. CASE Popa(a, n)
  <2>1. tags' = Restored(tags, a, n) /\ may' = CpuRestored(may, a, n)
    BY <1>3 DEF Popa, m2r_restore_opw, m2r_restore_opl, Cpu
  <2>2. CASE VIRT2BIT(a) = 0
    <3>1. tags' = CpuRestored(tags, a, n)
      BY <1>1, <2>1, <2>2, RestoredExact
    <3>2. Covers(may, tags) => Covers(CpuRestored(may, a, n), CpuRestored(tags, a, n))
      <4>1. SUFFICES ASSUME Covers(may, tags), NEW l \in CpuRestored(tags, a, n), l[1] # Scratch
                     PROVE  l \in CpuRestored(may, a, n)
        BY DEF Covers
      <4>2. CASE l \in tags /\ (l[1] \in Gpr \ {ESP} => l[2] >= n)
        BY <4>1, <4>2 DEF CpuRestored, Covers
      <4>3. CASE l \in (Gpr \ {ESP}) \X (0 .. n - 1) /\ <<Mem, a + n * l[1] + l[2]>> \in tags
        <5>1. PICK x : x = a + n * l[1] + l[2]
          OBVIOUS
        <5>2. <<Mem, x>> \in may
          BY <4>1, <4>3, <5>1 DEF Covers, Mem, Scratch
        <5>3. QED BY <4>3, <5>1, <5>2 DEF CpuRestored
      <4>4. QED BY <4>2, <4>3 DEF CpuRestored
    <3>3. Use("popa")
      BY <1>3, <2>2 DEF Popa
    <3>4. QED BY <2>1, <3>1, <3>2, <3>3, CoverUse
  <2>3. CASE VIRT2BIT(a) # 0
    <3>1. "popaoff" \notin Precise
      BY DEF Precise
    <3>2. QED BY <1>3, <2>3, <3>1, LooseUse DEF Popa
  <2>4. QED BY <2>2, <2>3
<1>4. QED BY <1>2, <1>3

LEMMA LeaClean ==
    ASSUME NEW d, Plain(d), NEW R, \A r \in R : r.len = 4 /\ r.base # Scratch, Lea(d, R) PROVE Covered
<1> DEFINE indx(r) == IF d.len = 4 THEN REG32_INDX(r) ELSE REG16_INDX(r)
           B == UNION {Get(tags, Reg(r.base, d.len)) : r \in R}
           low == {Reg(r.base, d.len) : r \in R}
<1>1. CASE d.len = 2 /\ R # {}
  <2>1. "lea16" \notin Precise
    BY DEF Precise
  <2>2. QED BY <1>1, <2>1, LooseUse DEF Lea
<1>2. CASE ~(d.len = 2 /\ R # {})
  <2>1. \A r \in R : indx(r) = r.base
    BY <1>2 DEF Plain, Lea, REG32_INDX
  <2>2. tags' = Put(tags, d, UNION {Get(tags, Reg(indx(r), d.len)) : r \in R})
    BY DEF Lea, lea_r2r
  <2> HIDE DEF indx
  <2>3. UNION {Get(tags, Reg(indx(r), d.len)) : r \in R} = B
    BY <2>1
  <2>4. PICK b \in BOOLEAN : b <=> Any(may, low)
    BY AnyBoolean
  <2>5. may' = Fill(may, d, b) /\ Use("plain")
    BY <1>2, <2>4 DEF Lea, Cpu, Fill
  <2>6. B \subseteq 0 .. d.len - 1
    <3>1. \A r \in R : Get(tags, Reg(r.base, d.len)) \subseteq 0 .. d.len - 1
      BY RegLen DEF Get
    <3>2. QED BY <3>1
  <2>7. ASSUME Covers(may, tags), B # {} PROVE b
    <3>1. PICK r \in R : Get(tags, Reg(r.base, d.len)) # {}
      BY <2>7
    <3>2. PICK q : q = Reg(r.base, d.len)
      OBVIOUS
    <3>3. q \in low /\ q.base # Scratch
      BY <3>2, RegLen
    <3>4. Any(may, low)
      <4> HIDE DEF low
      <4>1. QED BY <2>7, <3>1, <3>2, <3>3, CoverAny
    <3>5. QED BY <2>4, <3>4
  <2> HIDE DEF B
  <2>8. Covers(may, tags) => Covers(Fill(may, d, b), Put(tags, d, B))
    BY <2>6, <2>7, CoverFill
  <2>9. QED BY <2>2, <2>3, <2>5, <2>8, CoverUse
<1>3. QED BY <1>1, <1>2

LEMMA CleanStep == ASSUME TypeInv, Next PROVE Covered
<1>1. CASE Lahf \/ Salc \/ Rdtsc \/ Cpuid \/ Cbw \/ Cwd \/ Cdq \/ Cwde
  BY <1>1, FixedClean
<1>2. CASE \E d \in Operand :
              \/ MovImm(d) \/ Setcc(d) \/ Smsw(d) \/ BinaryImm(d) \/ Shift(d)
              \/ Default(d, Reg(Xmm, 4)) \/ Default(Reg(Xmm, 4), d)
  BY <1>2, OperandPlain, ClearsClean, OthersClean
<1>3. CASE \E d \in RegOperand : Lar(d) \/ Div(d) \/ Mul(d) \/ Imul1(d)
  BY <1>3, RegPlain, ClearsClean, DivisionsClean, OthersClean
<1>4. CASE \E d \in MemOperand :
              \/ PushImm(d) \/ Stmxcsr(d) \/ Pushf(d) \/ CallNear(d) \/ Stos(d) \/ Enter(d)
              \/ Lods(d) \/ Leave(d) \/ DivMem(d) \/ MulMem(d) \/ Imul1Mem(d)
  BY <1>4, MemPlain, ClearsClean, DivisionsClean, OthersClean
<1>5. CASE \E d \in RegOperand : \E s \in SameLen(d, RegOperand) :
              \/ MovRegs(d, s) \/ BitscanRegs(d, s) \/ ImulRegs(d, s) \/ Imul3Regs(d, s)
              \/ XchgRegs(d, s) \/ XaddRegs(d, s) \/ Cmpxchg8(d, s)
              \/ \E c \in BOOLEAN : \/ CmovRegs(d, s, c) \/ CmpxchgRegs(d, s, c)
                                    \/ BinaryRegs(d, s, c) \/ BinaryBytes(d, s, c)
  <2>1. PICK d \in RegOperand : \E s \in SameLen(d, RegOperand) :
               \/ MovRegs(d, s) \/ BitscanRegs(d, s) \/ ImulRegs(d, s) \/ Imul3Regs(d, s)
               \/ XchgRegs(d, s) \/ XaddRegs(d, s) \/ Cmpxchg8(d, s)
               \/ \E c \in BOOLEAN : \/ CmovRegs(d, s, c) \/ CmpxchgRegs(d, s, c)
                                     \/ BinaryRegs(d, s, c) \/ BinaryBytes(d, s, c)
    BY <1>5
  <2>p. PICK s \in SameLen(d, RegOperand) :
               \/ MovRegs(d, s) \/ BitscanRegs(d, s) \/ ImulRegs(d, s) \/ Imul3Regs(d, s)
               \/ XchgRegs(d, s) \/ XaddRegs(d, s) \/ Cmpxchg8(d, s)
               \/ \E c \in BOOLEAN : \/ CmovRegs(d, s, c) \/ CmpxchgRegs(d, s, c)
                                     \/ BinaryRegs(d, s, c) \/ BinaryBytes(d, s, c)
    BY <2>1
  <2>2. s \in RegOperand /\ s.len = d.len /\ (d = s \/ Bytes(d) \cap Bytes(s) = {})
    BY SameOrApart DEF SameLen
  <2>3. Plain(d) /\ Plain(s) /\ TRUE \in BOOLEAN
    BY <2>2, RegPlain
  <2>4. QED BY <2>p, <2>2, <2>3, MovesClean, ArithClean, ExchangesClean
<1>6. CASE \E d \in RegOperand : \E s \in SameLen(d, MemOperand) :
              \/ MovLoad(d, s) \/ BitscanLoad(d, s) \/ PopReg(d, s) \/ BinaryLoad(d, s)
              \/ ImulLoad(d, s) \/ Imul3Load(d, s) \/ XchgMem(d, s)
              \/ \E c \in BOOLEAN : CmovLoad(d, s, c)
  <2>1. PICK d \in RegOperand, s \in MemOperand : s.len = d.len
            /\ \/ MovLoad(d, s) \/ BitscanLoad(d, s) \/ PopReg(d, s) \/ BinaryLoad(d, s)
               \/ ImulLoad(d, s) \/ Imul3Load(d, s) \/ XchgMem(d, s)
               \/ \E c \in BOOLEAN : CmovLoad(d, s, c)
    BY <1>6 DEF SameLen
  <2>2. Plain(d) /\ Plain(s) /\ TRUE \in BOOLEAN
    BY RegPlain, MemPlain
  <2>3. QED BY <2>1, <2>2, MovesClean, ArithClean, ExchangesClean
<1>7. CASE \E d \in MemOperand : \E s \in SameLen(d, RegOperand) :
              \/ MovStore(d, s) \/ PushReg(d, s) \/ BinaryStore(d, s) \/ XaddMem(d, s) \/ Cmpxchg8(d, s)
              \/ \E c \in BOOLEAN : CmpxchgMem(d, s, c)
  <2>1. PICK d \in MemOperand, s \in RegOperand : s.len = d.len
            /\ \/ MovStore(d, s) \/ PushReg(d, s) \/ BinaryStore(d, s) \/ XaddMem(d, s) \/ Cmpxchg8(d, s)
               \/ \E c \in BOOLEAN : CmpxchgMem(d, s, c)
    BY <1>7 DEF SameLen
  <2>2. Plain(d) /\ Plain(s) /\ TRUE \in BOOLEAN
    BY RegPlain, MemPlain
  <2>3. QED BY <2>1, <2>2, MovesClean, ArithClean, ExchangesClean
<1>8. CASE \E d \in MemOperand : \E s \in SameLen(d, MemOperand) :
              Movs(d, s) \/ PushMem(d, s) \/ PopMem(d, s)
  <2>1. PICK d \in MemOperand, s \in MemOperand : s.len = d.len
            /\ (Movs(d, s) \/ PushMem(d, s) \/ PopMem(d, s))
    BY <1>8 DEF SameLen
  <2>2. Plain(d) /\ Plain(s) /\ TRUE \in BOOLEAN
    BY MemPlain
  <2>3. QED BY <2>1, <2>2, MovesClean
<1>9. CASE \E d, s \in RegOperand : MovsxRegs(d, s) \/ MovzxRegs(d, s)
  BY <1>9, RegPlain, ExtensionsClean
<1>10. CASE \E d \in RegOperand, s \in MemOperand : MovsxLoad(d, s) \/ MovzxLoad(d, s)
  BY <1>10, RegPlain, MemPlain, ExtensionsClean
<1>11. CASE \E d \in RegOperand : Lea(d, {}) \/ \E b, i \in Regs : Lea(d, {Reg(b, 4), Reg(i, 4)})
  <2>1. ASSUME NEW d \in RegOperand, Lea(d, {}) PROVE Covered
    <3>1. Plain(d) /\ \A r \in {} : r.len = 4 /\ r.base # Scratch
      BY RegPlain
    <3>2. QED BY <2>1, <3>1, LeaClean
  <2>2. ASSUME NEW d \in RegOperand, NEW b \in Regs, NEW i \in Regs,
               Lea(d, {Reg(b, 4), Reg(i, 4)})
        PROVE  Covered
    <3>1. Plain(d)
      BY RegPlain
    <3>2. b # Scratch /\ i # Scratch
      BY Propagation32Assumption DEF Gpr, Scratch
    <3>3. \A r \in {Reg(b, 4), Reg(i, 4)} : r.len = 4 /\ r.base # Scratch
      BY <3>2, RegLen
    <3>4. QED BY <2>2, <3>1, <3>3, LeaClean
  <2>3. QED BY <1>11, <2>1, <2>2
<1>12. CASE \E a \in Starts, n \in {1, 2, 4}, c \in Counts, down \in BOOLEAN : RepStos(a, n, c, down)
  BY <1>12, StringsClean
<1>13. CASE \E a \in Frames, n \in {2, 4} : Pusha(a, n) \/ Popa(a, n)
  BY <1>13, FramesClean
<1>14. QED BY <1>1, <1>2, <1>3, <1>4, <1>5, <1>6, <1>7, <1>8, <1>9, <1>10, <1>11, <1>12, <1>13
              DEF Next

\* The classes of Precise leave no stale tag: programs made of their instructions, in any
\* order, on any registers and at any addresses, tag no byte that a tagged one has not
\* influenced.
THEOREM NoTagStale == ASSUME KeepClean \subseteq Precise PROVE Spec => []NoStaleTag
<1>1. Init => TypeInv /\ NoStaleTag
  BY TypeInit DEF Init, NoStaleTag
<1>2. TypeInv /\ NoStaleTag /\ [Next]_vars => NoStaleTag'
  <2>1. SUFFICES ASSUME TypeInv, NoStaleTag, [Next]_vars PROVE NoStaleTag'
    OBVIOUS
  <2>2. CASE Next
    <3>1. PICK c : Use(c) /\ (c \in Precise /\ Covers(may, tags) => Covers(may', tags'))
      BY <2>1, <2>2, CleanStep DEF Covered
    <3>2. used' = used \cup {c}
      BY <3>1 DEF Use
    <3>3. QED BY <2>1, <3>1, <3>2 DEF NoStaleTag, Covers
  <2>3. CASE UNCHANGED vars
    BY <2>1, <2>3 DEF NoStaleTag, vars
  <2>4. QED BY <2>1, <2>2, <2>3
<1>3. TypeInv /\ [Next]_vars => TypeInv'
  BY TypeStep
<1>4. QED BY <1>1, <1>2, <1>3, PTL DEF Spec
=============================================================================
