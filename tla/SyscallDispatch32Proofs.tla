----------------------- MODULE SyscallDispatch32Proofs -----------------------
(***************************************************************************)
(* Proofs about SyscallDispatch32. HookSeesCall needs the table and the       *)
(* threads only (DispatchInv). That the tags are exactly those of the data    *)
(* that is there (MemoryInv) rests on two facts: tagmap_clrn clears each      *)
(* range as a whole at every alignment (ClrnExact), and of every row of the   *)
(* table the hook or the default handling clears what the kernel wrote        *)
(* (RowRight, for all rows AllExact).                                         *)
(***************************************************************************)
EXTENDS SyscallDispatch32, WellFoundedInduction, FiniteSetTheorems, TLAPS

-----------------------------------------------------------------------------
(* Induction over the numbers, as a fact about sets *)

LEMMA LeastMember ==
    ASSUME NEW T \in SUBSET Nat, T # {} PROVE \E x \in T : \A y \in T : x <= y
<1> DEFINE R == OpToRel(<, Nat)
<1>1. IsWellFoundedOn(R, Nat)
  BY NatLessThanWellFounded, Zenon
<1>2. \A x, y \in Nat : y < x => <<y, x>> \in R
  BY DEF OpToRel
<1> HIDE DEF R
<1>3. PICK x \in T : \A y \in T : ~(<<y, x>> \in R)
  BY <1>1, WFMin, Zenon
<1>4. ASSUME NEW y \in T PROVE x <= y
  <2>1. ~(y < x)
    BY <1>2, <1>3, Zenon
  <2>2. x \in Nat /\ y \in Nat
    OBVIOUS
  <2>3. QED BY <2>1, <2>2, SMT
<1>5. QED BY <1>4, Zenon

LEMMA Induction ==
    ASSUME NEW S, 0 \in S, \A n \in Nat : n \in S => n + 1 \in S PROVE \A n \in Nat : n \in S
<1>1. SUFFICES ASSUME Nat \ S # {} PROVE FALSE
  BY Zenon
<1>2. PICK x \in Nat \ S : \A y \in Nat \ S : x <= y
  BY <1>1, LeastMember, Zenon
<1>3. x # 0 /\ x - 1 \in Nat
  BY <1>2
<1>4. x - 1 \in S
  BY <1>2, <1>3
<1>5. QED BY <1>3, <1>4, <1>2

\* A function defined by its first value and a step from each value to the next exists.
Steps(f, c, g, n) == f[0] = c /\ \A i \in 1 .. n : f[i] = g[i][f[i - 1]]

LEMMA RecursionExists ==
    ASSUME NEW V, NEW c \in V, NEW n \in Nat, NEW g, \A i \in 1 .. n : \A x \in V : g[i][x] \in V
    PROVE  \E f \in [0 .. n -> V] : Steps(f, c, g, n)
<1> DEFINE S == {k \in Nat : k <= n => \E f \in [0 .. k -> V] : Steps(f, c, g, k)}
<1>1. 0 \in S
  <2> DEFINE f == [i \in 0 .. 0 |-> c]
  <2>1. f \in [0 .. 0 -> V] /\ Steps(f, c, g, 0)
    BY DEF Steps
  <2>2. QED BY <2>1, Zenon
<1>2. ASSUME NEW k \in Nat, k \in S PROVE k + 1 \in S
  <2>1. CASE ~(k + 1 <= n)
    BY <2>1
  <2>2. CASE k + 1 <= n
    <3>1. PICK f \in [0 .. k -> V] : Steps(f, c, g, k)
      BY <1>2, <2>2
    <3> DEFINE h == [i \in 0 .. k + 1 |-> IF i = k + 1 THEN g[k + 1][f[k]] ELSE f[i]]
    <3>2. g[k + 1][f[k]] \in V
      BY <2>2
    <3>3. h \in [0 .. k + 1 -> V]
      BY <3>2
    <3>4. h[0] = c
      BY <3>1 DEF Steps
    <3>5. ASSUME NEW i \in 1 .. k + 1 PROVE h[i] = g[i][h[i - 1]]
      <4>1. CASE i = k + 1
        <5>1. h[i] = g[i][f[k]] /\ h[i - 1] = f[k]
          BY <4>1
        <5>2. QED BY <5>1, Zenon
      <4>2. CASE i # k + 1
        <5>1. i \in 1 .. k /\ i - 1 \in 0 .. k
          BY <4>2
        <5>2. h[i] = f[i] /\ h[i - 1] = f[i - 1]
          BY <5>1
        <5>3. f[i] = g[i][f[i - 1]]
          BY <3>1, <5>1, Zenon DEF Steps
        <5> HIDE DEF h
        <5>4. QED BY <5>2, <5>3, Zenon
      <4>3. QED BY <4>1, <4>2
    <3>6. \E f0 \in [0 .. k + 1 -> V] : Steps(f0, c, g, k + 1)
      <4> HIDE DEF h
      <4>1. QED BY <3>3, <3>4, <3>5, Zenon DEF Steps
    <3>7. QED BY <3>6
  <2>3. QED BY <2>1, <2>2
<1> HIDE DEF S
<1>3. n \in S
  BY <1>1, <1>2, Induction, Zenon
<1>4. QED BY <1>3 DEF S

-----------------------------------------------------------------------------
(* tagmap_clrn at every alignment *)

\* An address is the bit Tagmap!VIRT2BIT of the byte Tagmap!VIRT2BYTE of the bitmap.
LEMMA ByteBit ==
    ASSUME NEW a \in Nat
    PROVE  Tagmap!VIRT2BYTE(a) \in Nat /\ Tagmap!VIRT2BIT(a) \in 0 .. 7
             /\ a = 8 * Tagmap!VIRT2BYTE(a) + Tagmap!VIRT2BIT(a)
BY DEF Tagmap!VIRT2BYTE, Tagmap!VIRT2BIT

\* A mask that fits into its word selects the bits of n addresses from a.
LEMMA MaskSpan ==
    ASSUME NEW a \in Nat, NEW n \in Nat, NEW w \in Nat, Tagmap!VIRT2BIT(a) + n <= w
    PROVE  Tagmap!Mask(a, n, w) = a .. a + n - 1
<1> DEFINE q == Tagmap!VIRT2BYTE(a)
           r == Tagmap!VIRT2BIT(a)
<1>1. q \in Nat /\ r \in 0 .. 7 /\ a = 8 * q + r
  BY ByteBit
<1>2. Tagmap!Mask(a, n, w) = {8 * q + j : j \in (r .. r + n - 1) \cap (0 .. w - 1)}
  BY DEF Tagmap!Mask
<1> HIDE DEF q, r
<1>3. r + n <= w
  BY DEF r
<1>4. (r .. r + n - 1) \cap (0 .. w - 1) = r .. r + n - 1
  BY <1>1, <1>3
<1>5. ASSUME NEW x, x \in Tagmap!Mask(a, n, w) PROVE x \in a .. a + n - 1
  <2>1. PICK j \in r .. r + n - 1 : x = 8 * q + j
    BY <1>2, <1>4, <1>5
  <2>2. QED BY <1>1, <2>1
<1>6. ASSUME NEW x \in a .. a + n - 1 PROVE x \in Tagmap!Mask(a, n, w)
  <2>1. r + (x - a) \in r .. r + n - 1 /\ x = 8 * q + (r + (x - a))
    BY <1>1
  <2>2. QED BY <1>2, <1>4, <2>1
<1>7. QED BY <1>5, <1>6

LEMMA ChunkSpan ==
    ASSUME NEW a \in Nat, NEW n \in 0 .. 8 PROVE Tagmap!Chunk(a, n) = a .. a + n - 1
<1>1. Tagmap!VIRT2BIT(a) \in 0 .. 7
  BY ByteBit
<1>2. CASE n = 0
  BY <1>2 DEF Tagmap!Chunk, Tagmap!ALIGN_OFF_MAX
<1>3. CASE n = 1
  BY <1>1, <1>3, MaskSpan DEF Tagmap!Chunk, Tagmap!ALIGN_OFF_MAX
<1>4. CASE n \notin {0, 1}
  BY <1>1, <1>4, MaskSpan DEF Tagmap!Chunk, Tagmap!ALIGN_OFF_MAX
<1>5. QED BY <1>2, <1>3, <1>4

\* A word at a multiple of eight starts with the bit of its address.
LEMMA WordSpan ==
    ASSUME NEW a \in Nat, Tagmap!VIRT2BIT(a) = 0, NEW w \in Nat
    PROVE  Tagmap!BitmapWord(a, w) = a .. a + w - 1
<1>1. Tagmap!BitmapWord(a, w) = {a + j : j \in 0 .. w - 1}
  <2>1. 8 * Tagmap!VIRT2BYTE(a) = a
    BY ByteBit
  <2>2. QED BY <2>1 DEF Tagmap!BitmapWord
<1>2. ASSUME NEW x \in a .. a + w - 1 PROVE x \in Tagmap!BitmapWord(a, w)
  <2>1. x - a \in 0 .. w - 1 /\ x = a + (x - a)
    OBVIOUS
  <2>2. QED BY <1>1, <2>1
<1>3. ASSUME NEW x, x \in Tagmap!BitmapWord(a, w) PROVE x \in a .. a + w - 1
  BY <1>1, <1>3
<1>4. QED BY <1>2, <1>3

\* The words of the fast loop, one after the other, are a range.
LEMMA FastSpan ==
    ASSUME NEW a \in Nat, Tagmap!VIRT2BIT(a) = 0, NEW n \in Nat
    PROVE  Tagmap!Fast(a, n) = a .. a + Tagmap!FastLen(n) - 1
<1> DEFINE m == n \div 32
           word(k) == Tagmap!BitmapWord(a + 32 * k, 32)
<1>1. m \in Nat /\ Tagmap!FastLen(n) = 32 * m
  BY DEF Tagmap!FastLen, Tagmap!ASSERT_FAST
<1>2. Tagmap!Fast(a, n) = UNION {word(k) : k \in 0 .. m - 1}
  BY DEF Tagmap!Fast, Tagmap!ASSERT_FAST
<1>3. ASSUME NEW k \in Nat PROVE word(k) = a + 32 * k .. a + 32 * k + 31
  <2>1. Tagmap!VIRT2BIT(a + 32 * k) = 0
    BY DEF Tagmap!VIRT2BIT
  <2>2. a + 32 * k + 32 - 1 = a + 32 * k + 31
    OBVIOUS
  <2>3. QED BY <2>1, <2>2, WordSpan
<1> HIDE DEF m, word
<1>4. ASSUME NEW x, x \in Tagmap!Fast(a, n) PROVE x \in a .. a + Tagmap!FastLen(n) - 1
  <2>1. PICK k \in 0 .. m - 1 : x \in word(k)
    BY <1>2, <1>4
  <2>2. x \in a + 32 * k .. a + 32 * k + 31
    <3>1. k \in Nat
      BY <1>1
    <3>2. word(k) = a + 32 * k .. a + 32 * k + 31
      BY <1>3, <3>1
    <3>3. QED BY <2>1, <3>2
  <2>3. QED BY <1>1, <2>2
<1>5. ASSUME NEW x \in a .. a + Tagmap!FastLen(n) - 1 PROVE x \in Tagmap!Fast(a, n)
  <2>1. PICK y : y = x - a
    OBVIOUS
  <2>2. y \in 0 .. 32 * m - 1
    BY <1>1, <2>1
  <2>3. PICK k : k = y \div 32
    OBVIOUS
  <2>4. k \in 0 .. m - 1 /\ y \in 32 * k .. 32 * k + 31
    BY <1>1, <2>2, <2>3
  <2>5. x \in word(k)
    <3>1. word(k) = a + 32 * k .. a + 32 * k + 31
      BY <1>1, <1>3, <2>4
    <3>2. QED BY <1>1, <2>1, <2>4, <3>1
  <2>6. QED BY <1>2, <2>4, <2>5
<1>6. QED BY <1>4, <1>5

\* A range of more than eight bytes: up to an aligned address, words, and the rest.
LEMMA RangeParts ==
    ASSUME NEW a \in Nat, NEW n \in Nat, n > 8
    PROVE  /\ Tagmap!AlignOff(a) \in 0 .. 7 /\ Tagmap!Aligned(a) \in Nat
                /\ Tagmap!VIRT2BIT(Tagmap!Aligned(a)) = 0
           /\ Tagmap!Aligned(a) = a + Tagmap!AlignOff(a) /\ a <= Tagmap!Aligned(a)
           /\ Tagmap!Body(a, n) \in Nat /\ Tagmap!Aligned(a) + Tagmap!Body(a, n) = a + n
           /\ Tagmap!RestLen(a, n) \in 0 .. 31 /\ Tagmap!Rest(a, n) \in Nat
                /\ Tagmap!VIRT2BIT(Tagmap!Rest(a, n)) = 0
           /\ Tagmap!FastLen(Tagmap!Body(a, n)) \in Nat /\ Tagmap!Aligned(a) + Tagmap!FastLen(Tagmap!Body(a, n)) = Tagmap!Rest(a, n)
           /\ Tagmap!Aligned(a) <= Tagmap!Rest(a, n) /\ Tagmap!Rest(a, n) + Tagmap!RestLen(a, n) = a + n
           /\ Tagmap!Rest(a, n) <= a + n
<1>1. Tagmap!AlignOff(a) \in 0 .. 7 /\ Tagmap!VIRT2BIT(Tagmap!Aligned(a)) = 0
  BY DEF Tagmap!AlignOff, Tagmap!Aligned, Tagmap!ALIGN_OFF_MAX, Tagmap!VIRT2BIT
<1>2. Tagmap!Aligned(a) = a + Tagmap!AlignOff(a) /\ Tagmap!Body(a, n) = n - Tagmap!AlignOff(a)
  BY DEF Tagmap!Aligned, Tagmap!Body
<1>3. Tagmap!Aligned(a) \in Nat /\ a <= Tagmap!Aligned(a) /\ Tagmap!Body(a, n) \in Nat
        /\ Tagmap!Aligned(a) + Tagmap!Body(a, n) = a + n
  BY <1>1, <1>2
<1>4. PICK m : m = Tagmap!Body(a, n) \div 32
  OBVIOUS
<1>5. m \in Nat /\ Tagmap!FastLen(Tagmap!Body(a, n)) = 32 * m /\ Tagmap!Body(a, n) - 32 * m \in 0 .. 31
  <2>1. Tagmap!FastLen(Tagmap!Body(a, n)) = 32 * m
    BY <1>4 DEF Tagmap!FastLen, Tagmap!ASSERT_FAST
  <2>2. PICK y \in Nat : y = Tagmap!Body(a, n)
    BY <1>3
  <2>3. y \div 32 \in Nat /\ y - 32 * (y \div 32) \in 0 .. 31
    OBVIOUS
  <2>4. QED BY <1>4, <2>1, <2>2, <2>3
<1>6. Tagmap!Rest(a, n) = Tagmap!Aligned(a) + 32 * m /\ Tagmap!RestLen(a, n) = Tagmap!Body(a, n) - 32 * m
  BY <1>5 DEF Tagmap!Rest, Tagmap!RestLen
<1>7. Tagmap!VIRT2BIT(Tagmap!Rest(a, n)) = 0
  BY <1>1, <1>3, <1>5, <1>6 DEF Tagmap!VIRT2BIT
<1>8. Tagmap!RestLen(a, n) \in 0 .. 31 /\ Tagmap!Rest(a, n) \in Nat
        /\ Tagmap!Aligned(a) <= Tagmap!Rest(a, n)
  BY <1>3, <1>5, <1>6
<1>9. Tagmap!Rest(a, n) + Tagmap!RestLen(a, n) = a + n /\ Tagmap!Rest(a, n) <= a + n
  BY <1>3, <1>5, <1>6
<1>10. Tagmap!FastLen(Tagmap!Body(a, n)) \in Nat /\ Tagmap!Aligned(a) + Tagmap!FastLen(Tagmap!Body(a, n)) = Tagmap!Rest(a, n)
  BY <1>5, <1>6
<1>11. QED BY <1>1, <1>2, <1>3, <1>7, <1>8, <1>9, <1>10

\* Tagmap!tagmap_clrn is exact up to eight bytes.
LEMMA ClrnShort ==
    ASSUME NEW b, NEW a \in Nat, NEW n \in 0 .. 8
    PROVE  Tagmap!tagmap_clrn(b, a, n) = b \ (a .. a + n - 1)
<1>1. Tagmap!Chunk(a, n) = a .. a + n - 1
  BY ChunkSpan
<1>2. QED BY <1>1 DEF Tagmap!tagmap_clrn, Tagmap!ALIGN_OFF_MAX

\* It is exact on the ranges that Exact describes.
LEMMA ClrnExact ==
    ASSUME NEW b, NEW a \in Nat, NEW n \in Nat, Exact(a, n)
    PROVE  Tagmap!tagmap_clrn(b, a, n) = b \ (a .. a + n - 1)
<1>1. CASE n <= 8
  BY <1>1, ClrnShort
<1>2. CASE n > 8
  <2> DEFINE c == (b \ Tagmap!Chunk(a, Tagmap!AlignOff(a))) \ Tagmap!Fast(Tagmap!Aligned(a), Tagmap!Body(a, n))
             x == Tagmap!Rest(a, n)
             m == Tagmap!RestLen(a, n)
             c8 == IF m >= 8 THEN Tagmap!tagmap_clrq(c, x) ELSE c
  <2>0. m \in 0 .. 8 /\ m # 7
    BY <1>2 DEF Exact, Tagmap!ALIGN_OFF_MAX
  <2>1. Tagmap!tagmap_clrn(b, a, n) = c8 \ Tagmap!Chunk(x, m % 8)
    <3>1. m % 8 # 7
      BY <2>0
    <3>2. QED BY <1>2, <3>1 DEF Tagmap!tagmap_clrn, Tagmap!ALIGN_OFF_MAX, Tagmap!ClrTail
  <2>2. x \in Nat /\ Tagmap!VIRT2BIT(x) = 0 /\ x + m = a + n
    BY <1>2, RangeParts
  <2>3. Tagmap!Chunk(a, Tagmap!AlignOff(a)) = a .. Tagmap!Aligned(a) - 1
    <3>1. Tagmap!AlignOff(a) \in 0 .. 8 /\ Tagmap!Aligned(a) = a + Tagmap!AlignOff(a)
      BY <1>2, RangeParts
    <3>2. Tagmap!Chunk(a, Tagmap!AlignOff(a)) = a .. a + Tagmap!AlignOff(a) - 1
      BY <3>1, ChunkSpan
    <3>3. QED BY <3>1, <3>2
  <2>4. Tagmap!Fast(Tagmap!Aligned(a), Tagmap!Body(a, n)) = Tagmap!Aligned(a) .. x - 1
    <3>1. /\ Tagmap!Aligned(a) \in Nat /\ Tagmap!VIRT2BIT(Tagmap!Aligned(a)) = 0
          /\ Tagmap!Body(a, n) \in Nat /\ Tagmap!FastLen(Tagmap!Body(a, n)) \in Nat
          /\ Tagmap!Aligned(a) + Tagmap!FastLen(Tagmap!Body(a, n)) = x
      BY <1>2, RangeParts
    <3>2. Tagmap!Fast(Tagmap!Aligned(a), Tagmap!Body(a, n))
              = Tagmap!Aligned(a) .. Tagmap!Aligned(a) + Tagmap!FastLen(Tagmap!Body(a, n)) - 1
      BY <3>1, FastSpan
    <3>3. QED BY <3>1, <3>2
  <2>5. c8 \ Tagmap!Chunk(x, m % 8) = c \ (x .. x + m - 1)
    <3>1. CASE m < 7
      <4>1. m % 8 = m /\ m \in 0 .. 8 /\ ~(m >= 8)
        BY <2>0, <3>1
      <4>2. Tagmap!Chunk(x, m) = x .. x + m - 1
        BY <2>2, <4>1, ChunkSpan
      <4> HIDE DEF c, x, m
      <4>3. QED BY <4>1, <4>2
    <3>2. CASE m = 8
      <4>1. m % 8 = 0 /\ m >= 8 /\ 0 \in 0 .. 8
        BY <3>2
      <4>2. Tagmap!Chunk(x, 0) = {}
        BY DEF Tagmap!Chunk
      <4>3. Tagmap!Mask(x, 8, 16) = x .. x + 8 - 1
        BY <2>2, MaskSpan
      <4>4. Tagmap!tagmap_clrq(c, x) = c \ (x .. x + m - 1)
        BY <3>2, <4>3 DEF Tagmap!tagmap_clrq
      <4> HIDE DEF c, x, m
      <4>5. QED BY <4>1, <4>2, <4>4
    <3>3. m < 7 \/ m = 8
      <4> HIDE DEF m
      <4>1. QED BY <2>0
    <3> HIDE DEF c, c8, x, m
    <3>4. QED BY <3>1, <3>2, <3>3, Zenon
  <2>6. /\ Tagmap!Aligned(a) \in Nat /\ a <= Tagmap!Aligned(a) /\ Tagmap!Aligned(a) <= x /\ x <= a + n
    BY <1>2, RangeParts
  <2>7. c = (b \ (a .. Tagmap!Aligned(a) - 1)) \ (Tagmap!Aligned(a) .. x - 1)
    BY <2>3, <2>4
  <2> HIDE DEF c, c8, x, m
  <2>8. a + n - 1 = x + m - 1
    BY <2>0, <2>2
  <2>9. Tagmap!tagmap_clrn(b, a, n) = c \ (x .. a + n - 1)
    BY <2>1, <2>5, <2>8
  <2>10. PICK y \in Nat : y = Tagmap!Aligned(a)
    BY <2>6
  <2>11. c = (b \ (a .. y - 1)) \ (y .. x - 1)
    BY <2>7, <2>10
  <2>12. a <= y /\ y <= x /\ x <= a + n /\ x \in Nat
    BY <2>2, <2>6, <2>10
  <2>13. (a .. y - 1) \cup (y .. x - 1) \cup (x .. a + n - 1) = a .. a + n - 1
    BY <2>10, <2>12
  <2>14. QED BY <2>9, <2>11, <2>13
<1>3. QED BY <1>1, <1>2

-----------------------------------------------------------------------------
(* What a sequence of clears covers *)

Ranges == Seq(Nat \X Nat)

\* The bytes of the first n ranges, and of all of them.
SpansTo(s, n) == UNION {s[i][1] .. s[i][1] + s[i][2] - 1 : i \in 1 .. n}
Spans(s)      == SpansTo(s, Len(s))

LEMMA AfterSpans ==
    ASSUME NEW b, NEW s \in Ranges, \A i \in DOMAIN s : Exact(s[i][1], s[i][2])
    PROVE  AfterClears(b, s) = b \ Spans(s)
<1> DEFINE N0 == Len(s)
           Clear(f) == [i \in 0 .. N0 |-> IF i = 0 THEN b
                            ELSE Tagmap!tagmap_clrn(f[i - 1], s[i][1], s[i][2])]
           after == CHOOSE f : f = Clear(f)
           w == [i \in 0 .. N0 |-> b \ SpansTo(s, i)]
<1>1. AfterClears(b, s) = after[N0]
  BY DEF AfterClears
<1>2. N0 \in Nat /\ \A i \in 1 .. N0 : s[i][1] \in Nat /\ s[i][2] \in Nat /\ Exact(s[i][1], s[i][2])
  <2>1. \A i \in 1 .. N0 : s[i] \in Nat \X Nat /\ i \in DOMAIN s
    BY DEF Ranges
  <2>2. QED BY <2>1 DEF Ranges
<1>3. ASSUME NEW i \in 1 .. N0
      PROVE  SpansTo(s, i) = SpansTo(s, i - 1) \cup (s[i][1] .. s[i][1] + s[i][2] - 1)
  <2>1. 1 .. i = (1 .. i - 1) \cup {i}
    BY <1>2
  <2>2. QED BY <2>1 DEF SpansTo
<1>4. SpansTo(s, 0) = {}
  BY DEF SpansTo
<1>5. ASSUME NEW i \in 1 .. N0, NEW x, x = b \ SpansTo(s, i - 1)
      PROVE  Tagmap!tagmap_clrn(x, s[i][1], s[i][2]) = b \ SpansTo(s, i)
  <2>1. Tagmap!tagmap_clrn(x, s[i][1], s[i][2]) = x \ (s[i][1] .. s[i][1] + s[i][2] - 1)
    BY <1>2, ClrnExact
  <2>2. QED BY <1>3, <1>5, <2>1
<1>6. w = Clear(w)
  <2>1. ASSUME NEW i \in 0 .. N0
        PROVE  w[i] = IF i = 0 THEN b ELSE Tagmap!tagmap_clrn(w[i - 1], s[i][1], s[i][2])
    <3>1. CASE i = 0
      BY <1>4, <3>1
    <3>2. CASE i # 0
      <4>1. i \in 1 .. N0 /\ i - 1 \in 0 .. N0
        BY <1>2, <3>2
      <4>2. w[i] = b \ SpansTo(s, i) /\ w[i - 1] = b \ SpansTo(s, i - 1)
        BY <4>1
      <4> HIDE DEF w
      <4>3. QED BY <1>5, <3>2, <4>1, <4>2
    <3>3. QED BY <3>1, <3>2
  <2>2. w = [i \in 0 .. N0 |-> w[i]]
    OBVIOUS
  <2> HIDE DEF w, N0
  <2>3. QED BY <2>1, <2>2, Zenon
<1>7. after = Clear(after)
  <2> HIDE DEF w, Clear
  <2>1. QED BY <1>6, Zenon
<1> HIDE DEF after, w
<1>8. after[0] = b /\ \A i \in 1 .. N0 : after[i] = Tagmap!tagmap_clrn(after[i - 1], s[i][1], s[i][2])
  <2>1. \A i \in 0 .. N0 : after[i] = IF i = 0 THEN b
                            ELSE Tagmap!tagmap_clrn(after[i - 1], s[i][1], s[i][2])
    <3> HIDE DEF N0
    <3>1. QED BY <1>7, Zenon
  <2>2. 0 \in 0 .. N0 /\ \A i \in 1 .. N0 : i \in 0 .. N0 /\ i # 0
    BY <1>2
  <2> HIDE DEF N0
  <2>3. QED BY <2>1, <2>2, Zenon
<1> DEFINE S == {i \in Nat : i <= N0 => after[i] = b \ SpansTo(s, i)}
<1> HIDE DEF N0
<1>9. 0 \in S
  BY <1>4, <1>8
<1>10. ASSUME NEW i \in Nat, i \in S PROVE i + 1 \in S
  <2>1. CASE i + 1 <= N0
    <3>1. i + 1 \in 1 .. N0 /\ (i + 1) - 1 = i /\ after[i] = b \ SpansTo(s, i)
      BY <1>10, <2>1, <1>2
    <3> HIDE DEF S
    <3>2. after[i + 1] = Tagmap!tagmap_clrn(after[i], s[i + 1][1], s[i + 1][2])
      BY <1>8, <3>1
    <3>3. after[i + 1] = b \ SpansTo(s, i + 1)
      BY <1>5, <3>1, <3>2
    <3>4. QED BY <3>3 DEF S
  <2>2. CASE ~(i + 1 <= N0)
    BY <2>2
  <2>3. QED BY <2>1, <2>2
<1> HIDE DEF S
<1>11. N0 \in S
  BY <1>2, <1>9, <1>10, Induction, Zenon
<1>12. after[N0] = b \ SpansTo(s, N0)
  BY <1>11 DEF S
<1>13. QED BY <1>1, <1>12 DEF Spans, N0

\* The calls of tagmap_clrn in s reach the bytes w of the program and no others.
Covers(s, w) == s \in Ranges /\ Spans(s) \cap Byte = w

LEMMA ByteNat == Byte \subseteq Nat /\ \A x \in Byte : x >= 32
BY DEF Byte, Base, Room

LEMMA CoversNone == Covers(None, {})
<1>1. None \in Ranges /\ Len(None) = 0
  BY DEF Ranges, None
<1>2. QED BY <1>1 DEF Covers, Spans, SpansTo

LEMMA CoversSpan ==
    ASSUME NEW p \in Nat, NEW n \in Nat PROVE Covers(Clr(p, n), (p .. p + n - 1) \cap Byte)
<1>1. Clr(p, n) \in Ranges /\ Len(Clr(p, n)) = 1 /\ Clr(p, n)[1] = <<p, n>>
  BY DEF Ranges, Clr
<1>2. 1 .. 1 = {1} /\ <<p, n>>[1] = p /\ <<p, n>>[2] = n
  OBVIOUS
<1>3. Spans(Clr(p, n)) = p .. p + n - 1
  BY <1>1, <1>2 DEF Spans, SpansTo
<1>4. QED BY <1>1, <1>3 DEF Covers

LEMMA CoversClr ==
    ASSUME NEW p \in Nat, NEW n \in Nat, p # Null PROVE Covers(Clr(p, n), Bytes(p, n))
BY CoversSpan DEF Bytes

\* Nothing of the program is at NULL, nor right behind it.
LEMMA CoversNull == ASSUME NEW n \in 0 .. 32 PROVE Covers(Clr(Null, n), {})
<1>1. Covers(Clr(0, n), (0 .. 0 + n - 1) \cap Byte)
  BY CoversSpan
<1>2. (0 .. 0 + n - 1) \cap Byte = {}
  BY ByteNat
<1>3. QED BY <1>1, <1>2 DEF Null

LEMMA CoversJoin ==
    ASSUME NEW s, NEW t, NEW v, NEW w, Covers(s, v), Covers(t, w)
    PROVE  Covers(s \o t, v \cup w)
<1>1. s \in Ranges /\ t \in Ranges
  BY DEF Covers
<1>2. s \o t \in Ranges /\ Len(s \o t) = Len(s) + Len(t) /\ Len(s) \in Nat /\ Len(t) \in Nat
  BY <1>1 DEF Ranges
<1>3. \A i \in 1 .. Len(s) : (s \o t)[i] = s[i]
  BY <1>1 DEF Ranges
<1>4. \A i \in 1 .. Len(t) : (s \o t)[Len(s) + i] = t[i]
  BY <1>1 DEF Ranges
<1> DEFINE m == Len(s)
           n == Len(t)
           u == s \o t
           Cells(q) == q[1] .. q[1] + q[2] - 1
<1>5. m \in Nat /\ n \in Nat /\ Len(u) = m + n
  BY <1>2
<1>6. (\A i \in 1 .. m : u[i] = s[i]) /\ (\A i \in 1 .. n : u[m + i] = t[i])
  BY <1>3, <1>4
<1>7. /\ Spans(u) = UNION {Cells(u[i]) : i \in 1 .. m + n}
      /\ Spans(s) = UNION {Cells(s[i]) : i \in 1 .. m}
      /\ Spans(t) = UNION {Cells(t[i]) : i \in 1 .. n}
  BY <1>5 DEF Spans, SpansTo
<1> HIDE DEF m, n, u, Cells
<1>8. ASSUME NEW x, x \in Spans(u) PROVE x \in Spans(s) \cup Spans(t)
  <2>1. PICK i \in 1 .. m + n : x \in Cells(u[i])
    BY <1>7, <1>8
  <2>2. CASE i <= m
    <3>1. i \in 1 .. m
      BY <1>5, <2>2
    <3>2. QED BY <1>6, <1>7, <2>1, <3>1, Zenon
  <2>3. CASE ~(i <= m)
    <3>1. PICK j : j = i - m
      OBVIOUS
    <3>2. j \in 1 .. n /\ i = m + j
      BY <1>5, <2>3, <3>1
    <3>3. QED BY <1>6, <1>7, <2>1, <3>2, Zenon
  <2>4. QED BY <2>2, <2>3
<1>9. ASSUME NEW x, x \in Spans(s) PROVE x \in Spans(u)
  <2>1. PICK i \in 1 .. m : x \in Cells(s[i])
    BY <1>7, <1>9
  <2>2. i \in 1 .. m + n
    BY <1>5
  <2>3. QED BY <1>6, <1>7, <2>1, <2>2, Zenon
<1>10. ASSUME NEW x, x \in Spans(t) PROVE x \in Spans(u)
  <2>1. PICK i \in 1 .. n : x \in Cells(t[i])
    BY <1>7, <1>10
  <2>2. m + i \in 1 .. m + n
    BY <1>5
  <2>3. QED BY <1>6, <1>7, <2>1, <2>2, Zenon
<1>11. Spans(u) = Spans(s) \cup Spans(t)
  BY <1>8, <1>9, <1>10
<1>12. Spans(s \o t) = Spans(s) \cup Spans(t)
  BY <1>11 DEF u
<1>13. QED BY <1>2, <1>12 DEF Covers

\* The calls made for each element of an array.
Pieces(w, n) == UNION {w[i] : i \in 1 .. n}

LEMMA CoversEach ==
    ASSUME NEW n \in Nat, NEW f, NEW w, \A i \in 1 .. n : Covers(f[i], w[i])
    PROVE  Covers(Each(f, n), Pieces(w, n))
<1> DEFINE Join(g) == [i \in 0 .. n |-> IF i = 0 THEN None ELSE g[i - 1] \o f[i]]
           upto == CHOOSE g : g = Join(g)
<1>1. Each(f, n) = upto[n]
  BY DEF Each
<1>2. PICK g \in [0 .. n -> Ranges] : Steps(g, None, [i \in 1 .. n |-> [x \in Ranges |-> x \o f[i]]], n)
  <2> DEFINE step == [i \in 1 .. n |-> [x \in Ranges |-> x \o f[i]]]
  <2>1. None \in Ranges
    BY CoversNone DEF Covers
  <2>2. ASSUME NEW i \in 1 .. n, NEW x \in Ranges PROVE step[i][x] \in Ranges
    <3>1. f[i] \in Ranges
      BY DEF Covers
    <3>2. x \o f[i] \in Ranges
      BY <3>1 DEF Ranges
    <3>3. QED BY <3>2
  <2> HIDE DEF step
  <2>3. \E g \in [0 .. n -> Ranges] : Steps(g, None, step, n)
    BY <2>1, <2>2, RecursionExists, Zenon
  <2>4. QED BY <2>3, Zenon DEF step
<1>3. g = Join(g)
  <2>1. ASSUME NEW i \in 0 .. n PROVE g[i] = IF i = 0 THEN None ELSE g[i - 1] \o f[i]
    <3>1. CASE i = 0
      BY <1>2, <3>1 DEF Steps
    <3>2. CASE i # 0
      <4>1. i \in 1 .. n /\ i - 1 \in 0 .. n
        BY <3>2
      <4>2. g[i] = [x \in Ranges |-> x \o f[i]][g[i - 1]]
        BY <1>2, <4>1, Zenon DEF Steps
      <4>3. g[i - 1] \in Ranges
        BY <1>2, <4>1
      <4>4. QED BY <3>2, <4>2, <4>3, Zenon
    <3>3. QED BY <3>1, <3>2
  <2>2. g = [i \in 0 .. n |-> g[i]]
    OBVIOUS
  <2>3. QED BY <2>1, <2>2, Zenon
<1>4. upto = Join(upto)
  <2> HIDE DEF Join
  <2>1. QED BY <1>3, Zenon
<1> HIDE DEF upto
<1>5. \A i \in 0 .. n : upto[i] = IF i = 0 THEN None ELSE upto[i - 1] \o f[i]
  BY <1>4, Zenon
<1> HIDE DEF Join
<1> DEFINE all(i) == UNION {w[j] : j \in 1 .. i}
           S == {i \in Nat : i <= n => Covers(upto[i], all(i))}
<1>6. 0 \in S
  <2>1. upto[0] = None
    BY <1>5
  <2>2. all(0) = {}
    OBVIOUS
  <2>3. QED BY <2>1, <2>2, CoversNone
<1>7. ASSUME NEW i \in Nat, i \in S PROVE i + 1 \in S
  <2>1. CASE i + 1 <= n
    <3>1. i + 1 \in 1 .. n /\ i + 1 \in 0 .. n /\ i + 1 # 0 /\ (i + 1) - 1 = i
      BY <2>1
    <3>2. Covers(upto[i], all(i))
      BY <1>7, <2>1
    <3>3. upto[i + 1] = upto[i] \o f[i + 1]
      BY <1>5, <3>1
    <3>4. all(i + 1) = all(i) \cup w[i + 1]
      <4>1. 1 .. i + 1 = (1 .. i) \cup {i + 1}
        OBVIOUS
      <4>2. QED BY <4>1
    <3> HIDE DEF all
    <3>5. Covers(upto[i + 1], all(i + 1))
      <4>1. Covers(f[i + 1], w[i + 1])
        BY <3>1
      <4>2. Covers(upto[i] \o f[i + 1], all(i) \cup w[i + 1])
        BY <3>2, <4>1, CoversJoin
      <4>3. QED BY <3>3, <3>4, <4>2
    <3>6. QED BY <3>5
  <2>2. CASE ~(i + 1 <= n)
    BY <2>2
  <2>3. QED BY <2>1, <2>2
<1>8. n \in S
  <2> HIDE DEF S
  <2>1. QED BY <1>6, <1>7, Induction, Zenon
<1>9. QED BY <1>1, <1>8 DEF Pieces

\* An array of iovecs.
IsVector(v) == Len(v) \in Nat /\ \A i \in 1 .. Len(v) : v[i].base \in Nat \ {0} /\ v[i].len \in Nat

\* What remains of tot after n bytes.
Left(tot, n) == IF tot <= n THEN 0 ELSE tot - n

LEMMA LeftLess ==
    \A tot, x, l \in Nat : Left(tot, x + l) = Left(tot, x) - Least(Left(tot, x), l)
BY DEF Left, Least

\* The loop over the iovecs covers the stream of bytes that they make up.
LEMMA CoversVector ==
    ASSUME NEW v, IsVector(v), NEW n \in 0 .. Len(v), NEW tot \in Nat
    PROVE  /\ Covers(ClearVector(v, n, tot), Stream(v, n, tot))
           /\ tot = 0 => Stream(v, n, tot) = {}
<1> DEFINE L == Len(v)
           Sum(f) == [i \in 1 .. L + 1 |-> IF i = 1 THEN 0 ELSE f[i - 1] + v[i - 1].len]
           before == CHOOSE f : f = Sum(f)
           Rem(f) == [i \in 0 .. n |->
                        IF i = 0 THEN tot ELSE f[i - 1] - Least(f[i - 1], v[i].len)]
           left == CHOOSE f : f = Rem(f)
           calls == [i \in 1 .. n |-> IF left[i - 1] > 0 THEN Clr(v[i].base, left[i - 1] - left[i])
                                      ELSE None]
           part == [i \in 1 .. n |->
                       Bytes(v[i].base, IF tot <= before[i] THEN 0 ELSE Least(v[i].len, tot - before[i]))]
<1>1. ClearVector(v, n, tot) = Each(calls, n)
  BY DEF ClearVector
<1>2. Stream(v, n, tot) = UNION {part[i] : i \in 1 .. n}
  <2>1. Stream(v, n, tot) = UNION {Bytes(v[i].base, IF tot <= before[i] THEN 0
                                   ELSE Least(v[i].len, tot - before[i])) : i \in 1 .. n}
    BY DEF Stream
  <2> HIDE DEF before
  <2>2. QED BY <2>1
<1>3. L \in Nat /\ n \in Nat /\ n <= L /\ \A i \in 1 .. L : v[i].base \in Nat \ {0} /\ v[i].len \in Nat
  BY DEF IsVector
<1> HIDE DEF L
<1>4. PICK g \in [0 .. L -> Nat] : Steps(g, 0, [i \in 1 .. L |-> [x \in Nat |-> x + v[i].len]], L)
  <2> DEFINE step == [i \in 1 .. L |-> [x \in Nat |-> x + v[i].len]]
  <2>1. \A i \in 1 .. L : \A x \in Nat : step[i][x] \in Nat
    BY <1>3
  <2>2. 0 \in Nat
    OBVIOUS
  <2> HIDE DEF step
  <2>3. \E g \in [0 .. L -> Nat] : Steps(g, 0, step, L)
    BY <1>3, <2>1, <2>2, RecursionExists, Zenon
  <2>4. QED BY <2>3, Zenon DEF step
<1>5. g[0] = 0 /\ \A i \in 1 .. L : g[i] = g[i - 1] + v[i].len
  <2>1. g[0] = 0
    BY <1>4 DEF Steps
  <2>2. ASSUME NEW i \in 1 .. L PROVE g[i] = g[i - 1] + v[i].len
    <3>1. g[i] = [x \in Nat |-> x + v[i].len][g[i - 1]]
      BY <1>4, Zenon DEF Steps
    <3>2. g[i - 1] \in Nat
      BY <1>3, <1>4
    <3>3. QED BY <3>1, <3>2, Zenon
  <2>3. QED BY <2>1, <2>2
<1> DEFINE h == [i \in 1 .. L + 1 |-> g[i - 1]]
<1>6. h = Sum(h)
  <2>1. ASSUME NEW i \in 1 .. L + 1 PROVE h[i] = IF i = 1 THEN 0 ELSE h[i - 1] + v[i - 1].len
    <3>1. CASE i = 1
      BY <1>5, <3>1
    <3>2. CASE i # 1
      <4>1. i - 1 \in 1 .. L /\ i - 1 \in 1 .. L + 1
        BY <1>3, <3>2
      <4>2. h[i] = g[i - 1] /\ h[i - 1] = g[(i - 1) - 1]
        BY <4>1
      <4>3. g[i - 1] = g[(i - 1) - 1] + v[i - 1].len
        BY <1>5, <4>1
      <4> HIDE DEF h
      <4>4. QED BY <3>2, <4>2, <4>3
    <3>3. QED BY <3>1, <3>2
  <2>2. h = [i \in 1 .. L + 1 |-> h[i]]
    OBVIOUS
  <2> HIDE DEF h
  <2>3. QED BY <2>1, <2>2, Zenon
<1>7. before = Sum(before)
  <2> HIDE DEF Sum, h
  <2>1. QED BY <1>6, Zenon
<1> HIDE DEF before
<1>8. \A i \in 1 .. L + 1 : before[i] = IF i = 1 THEN 0 ELSE before[i - 1] + v[i - 1].len
  BY <1>7, Zenon
<1>9. \A i \in 0 .. L : i + 1 \in 1 .. L + 1 /\ before[i + 1] = g[i]
  <2> DEFINE S == {i \in Nat : i <= L => before[i + 1] = g[i]}
  <2>1. 0 \in S
    BY <1>3, <1>5, <1>8
  <2>2. ASSUME NEW i \in Nat, i \in S PROVE i + 1 \in S
    <3>1. CASE i + 1 <= L
      <4>1. /\ (i + 1) + 1 \in 1 .. L + 1 /\ (i + 1) + 1 # 1 /\ ((i + 1) + 1) - 1 = i + 1
            /\ i + 1 \in 1 .. L /\ (i + 1) - 1 = i
        <5>1. L \in Nat /\ i + 1 <= L
          BY <1>3, <3>1
        <5>2. QED BY <5>1, SMT
      <4>2. before[i + 1] = g[i]
        BY <2>2, <3>1, <1>3
      <4>3. before[(i + 1) + 1] = before[i + 1] + v[i + 1].len
        BY <1>8, <4>1
      <4>4. g[i + 1] = g[i] + v[i + 1].len
        BY <1>5, <4>1
      <4>5. QED BY <4>2, <4>3, <4>4
    <3>2. CASE ~(i + 1 <= L)
      BY <3>2
    <3>3. QED BY <3>1, <3>2
  <2>3. \A i \in Nat : i \in S
    <3> HIDE DEF S
    <3>1. QED BY <2>1, <2>2, Induction, Zenon
  <2>4. QED BY <1>3, <2>3
<1> DEFINE q == [i \in 0 .. n |-> Left(tot, g[i])]
<1>10. q = Rem(q)
  <2>1. ASSUME NEW i \in 0 .. n
        PROVE  q[i] = IF i = 0 THEN tot ELSE q[i - 1] - Least(q[i - 1], v[i].len)
    <3>1. CASE i = 0
      BY <1>5, <3>1 DEF Left
    <3>2. CASE i # 0
      <4>1. i \in 1 .. L /\ i - 1 \in 0 .. n /\ i \in 0 .. L /\ i - 1 \in 0 .. L
        BY <1>3, <3>2
      <4>2. q[i] = Left(tot, g[i]) /\ q[i - 1] = Left(tot, g[i - 1])
        BY <4>1
      <4>3. g[i] = g[i - 1] + v[i].len /\ g[i - 1] \in Nat /\ v[i].len \in Nat
        BY <1>3, <1>4, <1>5, <4>1
      <4>4. Left(tot, g[i]) = Left(tot, g[i - 1]) - Least(Left(tot, g[i - 1]), v[i].len)
        <5>1. Left(tot, g[i - 1] + v[i].len) = Left(tot, g[i - 1]) - Least(Left(tot, g[i - 1]), v[i].len)
          BY <4>3, LeftLess, Zenon
        <5>2. QED BY <4>3, <5>1, Zenon
      <4> HIDE DEF q
      <4>5. QED BY <3>2, <4>2, <4>4
    <3>3. QED BY <3>1, <3>2
  <2>2. q = [i \in 0 .. n |-> q[i]]
    OBVIOUS
  <2> HIDE DEF q
  <2>3. QED BY <2>1, <2>2, Zenon
<1>11. left = Rem(left)
  <2> HIDE DEF Rem, q
  <2>1. QED BY <1>10, Zenon
<1> HIDE DEF left
<1>12. \A i \in 0 .. n : left[i] = IF i = 0 THEN tot ELSE left[i - 1] - Least(left[i - 1], v[i].len)
  BY <1>11, Zenon
<1>13. \A i \in 0 .. n : left[i] = Left(tot, g[i])
  <2> DEFINE S == {i \in Nat : i <= n => left[i] = Left(tot, g[i])}
  <2>1. 0 \in S
    BY <1>5, <1>12 DEF Left
  <2>2. ASSUME NEW i \in Nat, i \in S PROVE i + 1 \in S
    <3>1. CASE i + 1 <= n
      <4>1. /\ i + 1 \in 0 .. n /\ i + 1 # 0 /\ (i + 1) - 1 = i
            /\ i + 1 \in 1 .. L /\ i \in 0 .. L
        BY <1>3, <3>1
      <4>2. left[i] = Left(tot, g[i])
        BY <2>2, <3>1
      <4>3. left[i + 1] = left[i] - Least(left[i], v[i + 1].len)
        BY <1>12, <4>1
      <4>4. g[i + 1] = g[i] + v[i + 1].len /\ g[i] \in Nat /\ v[i + 1].len \in Nat
        BY <1>3, <1>4, <1>5, <4>1
      <4>5. Left(tot, g[i + 1]) = Left(tot, g[i]) - Least(Left(tot, g[i]), v[i + 1].len)
        <5>1. Left(tot, g[i] + v[i + 1].len) = Left(tot, g[i]) - Least(Left(tot, g[i]), v[i + 1].len)
          BY <4>4, LeftLess, Zenon
        <5>2. QED BY <4>4, <5>1, Zenon
      <4>6. QED BY <4>2, <4>3, <4>5
    <3>2. CASE ~(i + 1 <= n)
      BY <3>2
    <3>3. QED BY <3>1, <3>2
  <2>3. \A i \in Nat : i \in S
    <3> HIDE DEF S
    <3>1. QED BY <2>1, <2>2, Induction, Zenon
  <2>4. QED BY <1>3, <2>3
<1>14. ASSUME NEW i \in 1 .. n PROVE Covers(calls[i], part[i])
  <2>1. i - 1 \in 0 .. n /\ i \in 0 .. n /\ i - 1 \in 0 .. L /\ i \in 1 .. L /\ (i - 1) + 1 = i
    BY <1>3
  <2>2. before[i] = g[i - 1] /\ left[i - 1] = Left(tot, g[i - 1])
    BY <1>9, <1>13, <2>1
  <2>3. left[i - 1] - left[i] = Least(left[i - 1], v[i].len)
    <3>1. left[i] = left[i - 1] - Least(left[i - 1], v[i].len)
      BY <1>12, <2>1
    <3>2. g[i - 1] \in Nat /\ v[i].len \in Nat
      BY <1>3, <1>4, <2>1
    <3>3. QED BY <2>2, <3>1, <3>2 DEF Left, Least
  <2>4. g[i - 1] \in Nat /\ v[i].len \in Nat /\ v[i].base \in Nat \ {0}
    BY <1>3, <1>4, <2>1
  <2>5. CASE tot <= g[i - 1]
    <3>1. calls[i] = None
      BY <2>2, <2>4, <2>5 DEF Left
    <3>2. part[i] = {}
      <4>1. part[i] = Bytes(v[i].base, 0)
        BY <2>2, <2>5
      <4>2. Bytes(v[i].base, 0) = {}
        BY <2>4 DEF Bytes
      <4>3. QED BY <4>1, <4>2
    <3> HIDE DEF calls, part
    <3>3. QED BY <3>1, <3>2, CoversNone
  <2>6. CASE ~(tot <= g[i - 1])
    <3> DEFINE size == Least(v[i].len, tot - g[i - 1])
    <3>1. size \in Nat /\ Least(left[i - 1], v[i].len) = size /\ left[i - 1] > 0
      <4>1. PICK x, y, z : x = g[i - 1] /\ y = v[i].len /\ z = left[i - 1]
        OBVIOUS
      <4>2. x \in Nat /\ y \in Nat /\ tot \in Nat /\ ~(tot <= x) /\ z = tot - x
        BY <2>2, <2>4, <2>6, <4>1 DEF Left
      <4>3. Least(y, tot - x) \in Nat /\ Least(z, y) = Least(y, tot - x) /\ z > 0
        BY <4>2, SMT DEF Least
      <4>4. QED BY <4>1, <4>3
    <3>2. calls[i] = Clr(v[i].base, size)
      BY <2>3, <3>1
    <3>3. part[i] = Bytes(v[i].base, size)
      BY <2>2, <2>6
    <3>4. Covers(Clr(v[i].base, size), Bytes(v[i].base, size))
      <4> HIDE DEF size
      <4>1. v[i].base \in Nat /\ v[i].base # Null
        BY <2>4 DEF Null
      <4>2. QED BY <3>1, <4>1, CoversClr
    <3> HIDE DEF size, calls, part
    <3>5. QED BY <3>2, <3>3, <3>4
  <2>7. QED BY <2>5, <2>6
<1>15. ASSUME tot = 0, NEW i \in 1 .. n PROVE part[i] = {}
  <2>1. i - 1 \in 0 .. L /\ i \in 1 .. L /\ (i - 1) + 1 = i
    BY <1>3
  <2>2. before[i] = g[i - 1] /\ g[i - 1] \in Nat
    BY <1>4, <1>9, <2>1
  <2>3. part[i] = Bytes(v[i].base, 0)
    BY <1>15, <2>2
  <2>4. v[i].base \in Nat
    BY <1>3, <2>1
  <2>5. Bytes(v[i].base, 0) = {}
    BY <2>4 DEF Bytes
  <2> HIDE DEF part
  <2>6. QED BY <2>3, <2>5
<1> HIDE DEF calls, part
<1>16. Covers(Each(calls, n), Pieces(part, n))
  <2>1. n \in Nat /\ \A i \in 1 .. n : Covers(calls[i], part[i])
    BY <1>3, <1>14
  <2>2. QED BY <2>1, CoversEach, Zenon
<1>17. tot = 0 => Stream(v, n, tot) = {}
  BY <1>2, <1>15
<1>18. QED BY <1>1, <1>2, <1>16, <1>17 DEF Pieces

-----------------------------------------------------------------------------
(* The rows of the table *)

Len12 == 0 .. STRUCT

\* A row as the table has it: no pre hook, a post hook only where it saves the arguments,
\* lengths only where the call is handled, and of its own arguments (but for waitid).
Good(nr, d) ==
    /\ d \in [nargs : 0 .. 6, save_args : BOOLEAN, retval_args : BOOLEAN,
              map_args : [0 .. 5 -> Len12], pre : {NoHook}, post : {d.post}]
    /\ d.post # NoHook => d.save_args = TRUE
    /\ \A i \in 0 .. 5 : d.map_args[i] > 0 => d.retval_args = TRUE
    /\ \A i \in 0 .. 5 : i >= d.nargs /\ d.map_args[i] > 0 => nr = "waitid" /\ i = 4

LEMMA Sizes ==
    /\ 0 \in Len12 /\ SHORT \in Len12 /\ INT \in Len12 /\ LONG \in Len12
    /\ PAIR \in Len12 /\ STRUCT \in Len12
    /\ 1 \in 0 .. 6 /\ 2 \in 0 .. 6 /\ 3 \in 0 .. 6 /\ 4 \in 0 .. 6 /\ 5 \in 0 .. 6 /\ 6 \in 0 .. 6
BY DEF Len12, SHORT, INT, LONG, PAIR, STRUCT

LEMMA DescGood ==
    ASSUME NEW nr, NEW n \in 0 .. 6, NEW save \in BOOLEAN, NEW retval \in BOOLEAN, NEW post, NEW lens,
           \A i \in 0 .. 5 : lens[i + 1] \in Len12,
           post # NoHook => save = TRUE,
           \A i \in 0 .. 5 : lens[i + 1] > 0 => retval = TRUE,
           \A i \in 0 .. 5 : i >= n /\ lens[i + 1] > 0 => nr = "waitid" /\ i = 4
    PROVE  Good(nr, Desc(n, save, retval, lens, post))
<1> DEFINE f == [i \in 0 .. 5 |-> lens[i + 1]]
           d == Desc(n, save, retval, lens, post)
<1>1. d.nargs = n /\ d.save_args = save /\ d.retval_args = retval /\ d.map_args = f
      /\ d.pre = NoHook /\ d.post = post
  BY DEF Desc
<1>2. f \in [0 .. 5 -> Len12] /\ \A i \in 0 .. 5 : f[i] = lens[i + 1]
  OBVIOUS
<1>3. d \in [nargs : 0 .. 6, save_args : BOOLEAN, retval_args : BOOLEAN,
              map_args : [0 .. 5 -> Len12], pre : {NoHook}, post : {d.post}]
  <2> HIDE DEF f
  <2>1. d = [nargs |-> n, save_args |-> save, retval_args |-> retval, map_args |-> f,
             pre |-> NoHook, post |-> post]
    BY DEF Desc, f
  <2>2. QED BY <1>2, <2>1
<1> HIDE DEF f, d
<1>4. Good(nr, d)
  BY <1>1, <1>2, <1>3 DEF Good
<1>5. QED BY <1>4 DEF d

LEMMA NoLensZero == \A i \in 0 .. 5 : NoLens[i + 1] = 0
BY DEF NoLens

LEMMA HookGood == ASSUME NEW nr, NEW n \in 0 .. 6, NEW h PROVE Good(nr, Hook(n, h))
<1>1. \A i \in 0 .. 5 : NoLens[i + 1] = 0 /\ NoLens[i + 1] \in Len12 /\ ~(NoLens[i + 1] > 0)
  BY NoLensZero, Sizes
<1>2. Good(nr, Desc(n, TRUE, FALSE, NoLens, h))
  BY <1>1, DescGood
<1>3. QED BY <1>2, Zenon DEF Hook

LEMMA PlainGood == ASSUME NEW nr, NEW n \in 0 .. 6 PROVE Good(nr, Plain(n))
<1>1. \A i \in 0 .. 5 : NoLens[i + 1] = 0 /\ NoLens[i + 1] \in Len12 /\ ~(NoLens[i + 1] > 0)
  BY NoLensZero, Sizes
<1>2. Good(nr, Desc(n, FALSE, FALSE, NoLens, NoHook))
  BY <1>1, DescGood
<1>3. QED BY <1>2, Zenon DEF Plain

LEMMA ResultGood ==
    ASSUME NEW nr, NEW n \in 0 .. 6, NEW lens, \A i \in 0 .. 5 : lens[i + 1] \in Len12,
           \A i \in 0 .. 5 : i >= n /\ lens[i + 1] > 0 => nr = "waitid" /\ i = 4
    PROVE  Good(nr, Result(n, lens))
<1>1. Good(nr, Desc(n, FALSE, TRUE, lens, NoHook))
  BY DescGood
<1>2. QED BY <1>1, Zenon DEF Result

\* The lengths of a row with n arguments.
LEMMA ResultsGood ==
    ASSUME NEW nr
    PROVE  /\ Good(nr, Result(0, NoLens))
           /\ \A a \in Len12 : Good(nr, Result(1, <<a, 0, 0, 0, 0, 0>>))
           /\ \A a, b \in Len12 : Good(nr, Result(2, <<a, b, 0, 0, 0, 0>>))
           /\ \A a, b, c \in Len12 : Good(nr, Result(3, <<a, b, c, 0, 0, 0>>))
           /\ \A a, b, c, d \in Len12 : Good(nr, Result(4, <<a, b, c, d, 0, 0>>))
           /\ \A a, b, c, d, e \in Len12 : Good(nr, Result(5, <<a, b, c, d, e, 0>>))
           /\ \A a, b, c, d, e, f \in Len12 : Good(nr, Result(6, <<a, b, c, d, e, f>>))
<1>1. ASSUME NEW n \in 0 .. 6, NEW a \in Len12, NEW b \in Len12, NEW c \in Len12, NEW d \in Len12,
             NEW e \in Len12, NEW f \in Len12,
             n < 6 => f = 0, n < 5 => e = 0, n < 4 => d = 0, n < 3 => c = 0, n < 2 => b = 0, n < 1 => a = 0
      PROVE  Good(nr, Result(n, <<a, b, c, d, e, f>>))
  <2> DEFINE lens == <<a, b, c, d, e, f>>
  <2>1. \A i \in 0 .. 5 : lens[i + 1] \in Len12 /\ (i >= n => lens[i + 1] = 0)
    BY <1>1
  <2> HIDE DEF lens
  <2>2. Good(nr, Result(n, lens))
    BY <2>1, ResultGood
  <2>3. QED BY <2>2 DEF lens
<1>2. 0 \in Len12
  BY Sizes
<1>3. Good(nr, Result(0, NoLens))
  BY <1>1, <1>2 DEF NoLens
<1>4. \A a \in Len12 : Good(nr, Result(1, <<a, 0, 0, 0, 0, 0>>))
  <2>1. 1 \in 0 .. 6 /\ ~(1 < 1)
    OBVIOUS
  <2>2. QED BY <1>1, <1>2, <2>1, Zenon
<1>5. \A a, b \in Len12 : Good(nr, Result(2, <<a, b, 0, 0, 0, 0>>))
  <2>1. 2 \in 0 .. 6 /\ ~(2 < 1) /\ ~(2 < 2)
    OBVIOUS
  <2>2. QED BY <1>1, <1>2, <2>1, Zenon
<1>6. \A a, b, c \in Len12 : Good(nr, Result(3, <<a, b, c, 0, 0, 0>>))
  <2>1. 3 \in 0 .. 6 /\ ~(3 < 1) /\ ~(3 < 2) /\ ~(3 < 3)
    OBVIOUS
  <2>2. QED BY <1>1, <1>2, <2>1, Zenon
<1>7. \A a, b, c, d \in Len12 : Good(nr, Result(4, <<a, b, c, d, 0, 0>>))
  <2>1. 4 \in 0 .. 6 /\ ~(4 < 1) /\ ~(4 < 2) /\ ~(4 < 3) /\ ~(4 < 4)
    OBVIOUS
  <2>2. QED BY <1>1, <1>2, <2>1, Zenon
<1>8. \A a, b, c, d, e \in Len12 : Good(nr, Result(5, <<a, b, c, d, e, 0>>))
  <2>1. 5 \in 0 .. 6 /\ ~(5 < 1) /\ ~(5 < 2) /\ ~(5 < 3) /\ ~(5 < 4) /\ ~(5 < 5)
    OBVIOUS
  <2>2. QED BY <1>1, <1>2, <2>1, Zenon
<1>9. ASSUME NEW a \in Len12, NEW b \in Len12, NEW c \in Len12, NEW d \in Len12,
             NEW e \in Len12, NEW f \in Len12
      PROVE  Good(nr, Result(6, <<a, b, c, d, e, f>>))
  <2>1. 6 \in 0 .. 6 /\ ~(6 < 6) /\ ~(6 < 5) /\ ~(6 < 4) /\ ~(6 < 3) /\ ~(6 < 2) /\ ~(6 < 1)
    OBVIOUS
  <2>2. QED BY <1>1, <2>1, Zenon
<1>10. QED BY <1>3, <1>4, <1>5, <1>6, <1>7, <1>8, <1>9

LEMMA WaitidGood == Good("waitid", Result(4, <<0, 0, STRUCT, 0, STRUCT, 0>>))
<1> DEFINE lens == <<0, 0, STRUCT, 0, STRUCT, 0>>
<1>1. \A i \in 0 .. 5 : lens[i + 1] \in Len12 /\ (i >= 4 => lens[i + 1] = 0 \/ i = 4)
  BY Sizes
<1> HIDE DEF lens
<1>2. Good("waitid", Result(4, lens))
  BY <1>1, ResultGood
<1>3. QED BY <1>2 DEF lens

LEMMA Domain1 ==
    DOMAIN Rows1 = {"exit", "read", "write", "open", "waitpid", "time", "stat", "fstat",
                    "ftime", "pipe", "times", "ioctl", "fcntl", "olduname", "ustat",
                    "sigaction"}
BY Zenon DEF Rows1

LEMMA Domain2 ==
    DOMAIN Rows2 = {"sigpending", "old_getrlimit", "getrusage", "gettimeofday",
                    "getgroups16", "old_select", "lstat", "readlink", "old_readdir",
                    "old_mmap", "statfs", "fstatfs", "socketcall", "syslog", "setitimer",
                    "getitimer", "newstat", "newlstat", "newfstat", "uname", "vm86old",
                    "wait4", "sysinfo", "ipc", "clone", "newuname", "modify_ldt",
                    "adjtimex", "sigprocmask", "quotactl", "llseek", "getdents", "select"}
BY Zenon DEF Rows2

LEMMA Domain3 ==
    DOMAIN Rows3 = {"readv", "sysctl", "sched_getparam", "sched_rr_get_interval",
                    "nanosleep", "getresuid16", "ptregs_vm86", "poll", "nfsservctl",
                    "getresgid16", "rt_sigaction", "rt_sigprocmask", "rt_sigpending",
                    "rt_sigtimedwait", "rt_sigqueueinfo", "pread64", "getcwd", "capget",
                    "sigaltstack", "sendfile", "getrlimit", "mmap2", "stat64", "lstat64",
                    "fstat64", "getgroups", "getresuid", "getresgid"}
BY Zenon DEF Rows3

LEMMA Domain4 ==
    DOMAIN Rows4 = {"mincore", "getdents64", "fcntl64", "getxattr", "listxattr",
                    "sendfile64", "sched_getaffinity", "get_thread_area", "io_setup",
                    "io_getevents", "io_cancel", "lookup_dcookie", "epoll_wait",
                    "timer_create", "timer_settime", "timer_gettime", "clock_gettime",
                    "clock_getres", "clock_nanosleep", "statfs64", "fstatfs64",
                    "get_mempolicy", "mq_timedreceive", "mq_getsetattr", "waitid"}
BY Zenon DEF Rows4

LEMMA Domain5 ==
    DOMAIN Rows5 = {"fstatat64", "readlinkat", "pselect6", "ppoll", "get_robust_list",
                    "splice", "move_pages", "getcpu", "epoll_pwait", "timerfd_settime",
                    "timerfd_gettime", "pipe2", "preadv", "rt_tgsigqueueinfo",
                    "perf_event_open", "recvmmsg", "prlimit64", "name_to_handle_at",
                    "open_by_handle_at", "clock_adjtime"}
BY Zenon DEF Rows5

LEMMA Rows1Good == \A nr \in DOMAIN Rows1 : Good(nr, Rows1[nr])
<1>1. /\ Good("exit", Rows1["exit"]) /\ Good("read", Rows1["read"])
      /\ Good("write", Rows1["write"]) /\ Good("open", Rows1["open"])
      /\ Good("waitpid", Rows1["waitpid"]) /\ Good("time", Rows1["time"])
      /\ Good("stat", Rows1["stat"]) /\ Good("fstat", Rows1["fstat"])
      /\ Good("ftime", Rows1["ftime"])
  BY HookGood, PlainGood, ResultsGood, Sizes, ZenonT(30) DEF Rows1
<1>2. /\ Good("pipe", Rows1["pipe"]) /\ Good("times", Rows1["times"])
      /\ Good("ioctl", Rows1["ioctl"]) /\ Good("fcntl", Rows1["fcntl"])
      /\ Good("olduname", Rows1["olduname"]) /\ Good("ustat", Rows1["ustat"])
      /\ Good("sigaction", Rows1["sigaction"])
  BY HookGood, PlainGood, ResultsGood, Sizes, ZenonT(30) DEF Rows1
<1>3. QED BY <1>1, <1>2, Domain1, Zenon

LEMMA Rows2Good == \A nr \in DOMAIN Rows2 : Good(nr, Rows2[nr])
<1>1. /\ Good("sigpending", Rows2["sigpending"]) /\ Good("old_getrlimit", Rows2["old_getrlimit"])
      /\ Good("getrusage", Rows2["getrusage"]) /\ Good("gettimeofday", Rows2["gettimeofday"])
      /\ Good("getgroups16", Rows2["getgroups16"]) /\ Good("old_select", Rows2["old_select"])
      /\ Good("lstat", Rows2["lstat"]) /\ Good("readlink", Rows2["readlink"])
      /\ Good("old_readdir", Rows2["old_readdir"])
  BY HookGood, PlainGood, ResultsGood, Sizes, ZenonT(30) DEF Rows2
<1>2. /\ Good("old_mmap", Rows2["old_mmap"]) /\ Good("statfs", Rows2["statfs"])
      /\ Good("fstatfs", Rows2["fstatfs"]) /\ Good("socketcall", Rows2["socketcall"])
      /\ Good("syslog", Rows2["syslog"]) /\ Good("setitimer", Rows2["setitimer"])
      /\ Good("getitimer", Rows2["getitimer"]) /\ Good("newstat", Rows2["newstat"])
      /\ Good("newlstat", Rows2["newlstat"])
  BY HookGood, PlainGood, ResultsGood, Sizes, ZenonT(30) DEF Rows2
<1>3. /\ Good("newfstat", Rows2["newfstat"]) /\ Good("uname", Rows2["uname"])
      /\ Good("vm86old", Rows2["vm86old"]) /\ Good("wait4", Rows2["wait4"])
      /\ Good("sysinfo", Rows2["sysinfo"]) /\ Good("ipc", Rows2["ipc"])
      /\ Good("clone", Rows2["clone"]) /\ Good("newuname", Rows2["newuname"])
      /\ Good("modify_ldt", Rows2["modify_ldt"])
  BY HookGood, PlainGood, ResultsGood, Sizes, ZenonT(30) DEF Rows2
<1>4. /\ Good("adjtimex", Rows2["adjtimex"]) /\ Good("sigprocmask", Rows2["sigprocmask"])
      /\ Good("quotactl", Rows2["quotactl"]) /\ Good("llseek", Rows2["llseek"])
      /\ Good("getdents", Rows2["getdents"]) /\ Good("select", Rows2["select"])
  BY HookGood, PlainGood, ResultsGood, Sizes, ZenonT(30) DEF Rows2
<1>5. QED BY <1>1, <1>2, <1>3, <1>4, Domain2, Zenon

LEMMA Rows3Good == \A nr \in DOMAIN Rows3 : Good(nr, Rows3[nr])
<1>1. /\ Good("readv", Rows3["readv"]) /\ Good("sysctl", Rows3["sysctl"])
      /\ Good("sched_getparam", Rows3["sched_getparam"]) /\ Good("sched_rr_get_interval", Rows3["sched_rr_get_interval"])
      /\ Good("nanosleep", Rows3["nanosleep"]) /\ Good("getresuid16", Rows3["getresuid16"])
      /\ Good("ptregs_vm86", Rows3["ptregs_vm86"]) /\ Good("poll", Rows3["poll"])
      /\ Good("nfsservctl", Rows3["nfsservctl"])
  BY HookGood, PlainGood, ResultsGood, Sizes, ZenonT(30) DEF Rows3
<1>2. /\ Good("getresgid16", Rows3["getresgid16"]) /\ Good("rt_sigaction", Rows3["rt_sigaction"])
      /\ Good("rt_sigprocmask", Rows3["rt_sigprocmask"]) /\ Good("rt_sigpending", Rows3["rt_sigpending"])
      /\ Good("rt_sigtimedwait", Rows3["rt_sigtimedwait"]) /\ Good("rt_sigqueueinfo", Rows3["rt_sigqueueinfo"])
      /\ Good("pread64", Rows3["pread64"]) /\ Good("getcwd", Rows3["getcwd"])
      /\ Good("capget", Rows3["capget"])
  BY HookGood, PlainGood, ResultsGood, Sizes, ZenonT(30) DEF Rows3
<1>3. /\ Good("sigaltstack", Rows3["sigaltstack"]) /\ Good("sendfile", Rows3["sendfile"])
      /\ Good("getrlimit", Rows3["getrlimit"]) /\ Good("mmap2", Rows3["mmap2"])
      /\ Good("stat64", Rows3["stat64"]) /\ Good("lstat64", Rows3["lstat64"])
      /\ Good("fstat64", Rows3["fstat64"]) /\ Good("getgroups", Rows3["getgroups"])
      /\ Good("getresuid", Rows3["getresuid"])
  BY HookGood, PlainGood, ResultsGood, Sizes, ZenonT(30) DEF Rows3
<1>4. /\ Good("getresgid", Rows3["getresgid"])
  BY HookGood, PlainGood, ResultsGood, Sizes, ZenonT(30) DEF Rows3
<1>5. QED BY <1>1, <1>2, <1>3, <1>4, Domain3, Zenon

LEMMA Rows4Good == \A nr \in DOMAIN Rows4 : Good(nr, Rows4[nr])
<1>1. /\ Good("mincore", Rows4["mincore"]) /\ Good("getdents64", Rows4["getdents64"])
      /\ Good("fcntl64", Rows4["fcntl64"]) /\ Good("getxattr", Rows4["getxattr"])
      /\ Good("listxattr", Rows4["listxattr"]) /\ Good("sendfile64", Rows4["sendfile64"])
      /\ Good("sched_getaffinity", Rows4["sched_getaffinity"])
           /\ Good("get_thread_area", Rows4["get_thread_area"])
      /\ Good("io_setup", Rows4["io_setup"])
  BY HookGood, PlainGood, ResultsGood, Sizes, ZenonT(30) DEF Rows4
<1>2. /\ Good("io_getevents", Rows4["io_getevents"]) /\ Good("io_cancel", Rows4["io_cancel"])
      /\ Good("lookup_dcookie", Rows4["lookup_dcookie"]) /\ Good("epoll_wait", Rows4["epoll_wait"])
      /\ Good("timer_create", Rows4["timer_create"]) /\ Good("timer_settime", Rows4["timer_settime"])
      /\ Good("timer_gettime", Rows4["timer_gettime"]) /\ Good("clock_gettime", Rows4["clock_gettime"])
      /\ Good("clock_getres", Rows4["clock_getres"])
  BY HookGood, PlainGood, ResultsGood, Sizes, ZenonT(30) DEF Rows4
<1>3. /\ Good("clock_nanosleep", Rows4["clock_nanosleep"]) /\ Good("statfs64", Rows4["statfs64"])
      /\ Good("fstatfs64", Rows4["fstatfs64"]) /\ Good("get_mempolicy", Rows4["get_mempolicy"])
      /\ Good("mq_timedreceive", Rows4["mq_timedreceive"]) /\ Good("mq_getsetattr", Rows4["mq_getsetattr"])
      /\ Good("waitid", Rows4["waitid"])
  BY HookGood, PlainGood, ResultsGood, Sizes, WaitidGood, ZenonT(30) DEF Rows4
<1>4. QED BY <1>1, <1>2, <1>3, Domain4, Zenon

LEMMA Rows5Good == \A nr \in DOMAIN Rows5 : Good(nr, Rows5[nr])
<1>1. /\ Good("fstatat64", Rows5["fstatat64"]) /\ Good("readlinkat", Rows5["readlinkat"])
      /\ Good("pselect6", Rows5["pselect6"]) /\ Good("ppoll", Rows5["ppoll"])
      /\ Good("get_robust_list", Rows5["get_robust_list"]) /\ Good("splice", Rows5["splice"])
      /\ Good("move_pages", Rows5["move_pages"]) /\ Good("getcpu", Rows5["getcpu"])
      /\ Good("epoll_pwait", Rows5["epoll_pwait"])
  BY HookGood, PlainGood, ResultsGood, Sizes, ZenonT(30) DEF Rows5
<1>2. /\ Good("timerfd_settime", Rows5["timerfd_settime"]) /\ Good("timerfd_gettime", Rows5["timerfd_gettime"])
      /\ Good("pipe2", Rows5["pipe2"]) /\ Good("preadv", Rows5["preadv"])
      /\ Good("rt_tgsigqueueinfo", Rows5["rt_tgsigqueueinfo"])
           /\ Good("perf_event_open", Rows5["perf_event_open"])
      /\ Good("recvmmsg", Rows5["recvmmsg"]) /\ Good("prlimit64", Rows5["prlimit64"])
      /\ Good("name_to_handle_at", Rows5["name_to_handle_at"])
  BY HookGood, PlainGood, ResultsGood, Sizes, ZenonT(30) DEF Rows5
<1>3. /\ Good("open_by_handle_at", Rows5["open_by_handle_at"])
           /\ Good("clock_adjtime", Rows5["clock_adjtime"])
  BY HookGood, PlainGood, ResultsGood, Sizes, ZenonT(30) DEF Rows5
<1>4. QED BY <1>1, <1>2, <1>3, Domain5, Zenon
LEMMA RowAt ==
    /\ \A nr \in DOMAIN Rows1 : syscall_desc[nr] = Rows1[nr]
    /\ \A nr \in DOMAIN Rows2 : syscall_desc[nr] = Rows2[nr]
    /\ \A nr \in DOMAIN Rows3 : syscall_desc[nr] = Rows3[nr]
    /\ \A nr \in DOMAIN Rows4 : syscall_desc[nr] = Rows4[nr]
    /\ \A nr \in DOMAIN Rows5 : syscall_desc[nr] = Rows5[nr]
<1>1. /\ DOMAIN Rows1 \cap UNION {DOMAIN Rows2, DOMAIN Rows3, DOMAIN Rows4, DOMAIN Rows5} = {}
      /\ DOMAIN Rows2 \cap UNION {DOMAIN Rows3, DOMAIN Rows4, DOMAIN Rows5} = {}
      /\ DOMAIN Rows3 \cap UNION {DOMAIN Rows4, DOMAIN Rows5} = {}
      /\ DOMAIN Rows4 \cap DOMAIN Rows5 = {}
  BY Domain1, Domain2, Domain3, Domain4, Domain5, SMT
<1>2. QED BY <1>1, SMT DEF Known, syscall_desc

LEMMA TableGood == \A nr \in Known : Good(nr, syscall_desc[nr])
BY Rows1Good, Rows2Good, Rows3Good, Rows4Good, Rows5Good, RowAt, Zenon DEF Known

LEMMA Names == NoNr \notin Known /\ Unknown \notin Known /\ "restart_syscall" \notin Known
               /\ "no_context" \notin Known /\ "unknown" \notin Known
BY Domain1, Domain2, Domain3, Domain4, Domain5, SMT DEF Known, NoNr, Unknown

-----------------------------------------------------------------------------
(* Whatever is registered, the end of a call sees that call *)

Hooks == {NoHook, "tool_hook"} \cup {syscall_desc[nr].post : nr \in Known}
DescType == [nargs : 0 .. 6, save_args : BOOLEAN, retval_args : BOOLEAN,
             map_args : [0 .. 5 -> Len12], pre : Hooks, post : Hooks]

HookSaves(d) == (d.pre # NoHook => d.save_args) /\ (d.post # NoHook => d.save_args)

\* A row that the tool may have changed.
RowOK(nr, d) == d \in DescType /\ HookSaves(d) /\ d.nargs = syscall_desc[nr].nargs

TableInv == DOMAIN desc = Registered /\ \A nr \in Registered : RowOK(nr, desc[nr])

ThreadInv ==
    /\ DOMAIN ctx = Threads /\ DOMAIN call = Threads
    /\ started \in BOOLEAN
    /\ ~started => \A t \in Threads : ctx[t] = NoCtx /\ call[t] = NoCall

DispatchInv == TableInv /\ ThreadInv /\ HookSeesCall

LEMMA TableOK == \A nr \in Known : RowOK(nr, syscall_desc[nr])
<1>1. NoHook \in Hooks /\ \A nr \in Known : syscall_desc[nr].post \in Hooks
  BY Zenon DEF Hooks
<1>2. ASSUME NEW nr \in Known PROVE RowOK(nr, syscall_desc[nr])
  <2>1. Good(nr, syscall_desc[nr])
    BY TableGood
  <2> DEFINE d == syscall_desc[nr]
  <2>2. d \in [nargs : 0 .. 6, save_args : BOOLEAN, retval_args : BOOLEAN,
              map_args : [0 .. 5 -> Len12], pre : {NoHook}, post : {d.post}]
        /\ (d.post # NoHook => d.save_args = TRUE) /\ d.post \in Hooks
    BY <1>1, <2>1 DEF Good
  <2> HIDE DEF d
  <2>3. d \in DescType /\ HookSaves(d)
    BY <1>1, <2>2 DEF DescType, HookSaves
  <2>4. QED BY <2>3 DEF RowOK, d
<1>3. QED BY <1>2

LEMMA RowIs == ASSUME TableInv, NEW nr \in Known PROVE RowOK(nr, Row(nr))
BY TableOK, Zenon DEF TableInv, Row

LEMMA NoCallIs == NoCall.nr = NoNr /\ NoCall.done = FALSE /\ NoCall.out = Answer(0, {})
BY DEF NoCall, Call

LEMMA InitDispatch == Init => DispatchInv
<1> SUFFICES ASSUME Init PROVE DispatchInv
  OBVIOUS
<1>1. TableInv
  <2>1. DOMAIN desc = Registered /\ \A nr \in Registered : desc[nr] = syscall_desc[nr] /\ nr \in Known
    BY SyscallDispatch32Assumption, Zenon DEF Init
  <2>2. QED BY <2>1, TableOK, Zenon DEF TableInv
<1>2. \A t \in Threads : call[t].nr = NoNr
  BY NoCallIs DEF Init
<1>3. ThreadInv
  BY DEF Init, ThreadInv
<1>4. HookSeesCall
  BY <1>2, Names, Zenon DEF HookSeesCall
<1>5. QED BY <1>1, <1>3, <1>4 DEF DispatchInv

\* What registering does to a row.
LEMMA RegisterRow ==
    ASSUME NEW nr, NEW d0, RowOK(nr, d0),
           NEW d \in {syscall_set_pre(d0, "tool_hook"), syscall_set_post(d0, "tool_hook"),
                      syscall_clr_pre(d0), syscall_clr_post(d0)}
    PROVE  RowOK(nr, d)
<1>0. d0 \in DescType /\ HookSaves(d0) /\ d0.nargs = syscall_desc[nr].nargs
  BY DEF RowOK
<1>1. "tool_hook" \in Hooks /\ NoHook \in Hooks
  BY DEF Hooks
<1>2. CASE d = syscall_set_pre(d0, "tool_hook")
  BY <1>0, <1>1, <1>2 DEF syscall_set_pre, DescType, HookSaves, RowOK
<1>3. CASE d = syscall_set_post(d0, "tool_hook")
  BY <1>0, <1>1, <1>3 DEF syscall_set_post, DescType, HookSaves, RowOK
<1>4. CASE d = syscall_clr_pre(d0)
  BY <1>0, <1>1, <1>4 DEF syscall_clr_pre, DescType, HookSaves, RowOK
<1>5. CASE d = syscall_clr_post(d0)
  BY <1>0, <1>1, <1>5 DEF syscall_clr_post, DescType, HookSaves, RowOK
<1>6. QED BY <1>2, <1>3, <1>4, <1>5

LEMMA RegisterStep ==
    ASSUME DispatchInv, NEW nr \in Registered, Register(nr) PROVE DispatchInv'
<1>1. PICK d \in {syscall_set_pre(desc[nr], "tool_hook"), syscall_set_post(desc[nr], "tool_hook"),
                  syscall_clr_pre(desc[nr]), syscall_clr_post(desc[nr])} :
          desc' = [desc EXCEPT ![nr] = d]
  BY Zenon DEF Register
<1>2. UNCHANGED <<started, ctx, call>> /\ ~started
  BY DEF Register
<1>3. DOMAIN desc = Registered /\ \A n \in Registered : RowOK(n, desc[n])
  BY DEF DispatchInv, TableInv
<1>4. RowOK(nr, d)
  BY <1>3, RegisterRow
<1>5. TableInv'
  BY <1>1, <1>3, <1>4 DEF TableInv
<1>6. ThreadInv'
  BY <1>2 DEF DispatchInv, ThreadInv
<1>7. \A t \in Threads : call'[t].nr = NoNr
  BY <1>2, NoCallIs DEF DispatchInv, ThreadInv
<1>8. HookSeesCall'
  BY <1>7, Names, Zenon DEF HookSeesCall
<1>9. QED BY <1>5, <1>6, <1>8 DEF DispatchInv

\* The part of HookSeesCall about one thread.
SeesCall(c, k) ==
    /\ k.nr # NoNr => c # NoCtx
    /\ k.nr \in Known =>
          /\ c.nr = k.nr
          /\ Row(k.nr).pre # NoHook \/ Row(k.nr).post # NoHook \/ Row(k.nr).retval_args =>
                \A i \in 0 .. Row(k.nr).nargs - 1 : c.arg[i] = k.arg[i]
    /\ k.nr # NoNr /\ k.nr \notin Known => c.nr = Unknown

LEMMA SeesCallIff == HookSeesCall <=> \A t \in Threads : SeesCall(ctx[t], call[t])
BY Zenon DEF HookSeesCall, SeesCall

\* A step of thread t that leaves the table alone keeps the invariant if it keeps the part
\* about t.
LEMMA ThreadStep ==
    ASSUME DispatchInv, NEW t \in Threads, NEW c, NEW k, started,
           desc' = desc, started' = started,
           DOMAIN ctx' = Threads, ctx'[t] = c, \A u \in Threads \ {t} : ctx'[u] = ctx[u],
           DOMAIN call' = Threads, call'[t] = k, \A u \in Threads \ {t} : call'[u] = call[u],
           SeesCall(c, k)
    PROVE  DispatchInv'
<1>1. TableInv'
  BY DEF DispatchInv, TableInv
<1>2. ThreadInv'
  BY DEF DispatchInv, ThreadInv
<1>3. ASSUME NEW u \in Threads PROVE SeesCall(ctx'[u], call'[u])
  <2>1. SeesCall(ctx[u], call[u])
    BY SeesCallIff DEF DispatchInv
  <2>2. CASE u = t
    BY <2>2 DEF DispatchInv, ThreadInv
  <2>3. CASE u # t
    BY <2>1, <2>3 DEF DispatchInv, ThreadInv
  <2>4. QED BY <2>2, <2>3
<1>4. HookSeesCall'
  BY <1>3, Zenon DEF HookSeesCall, SeesCall, Row
<1>5. QED BY <1>1, <1>2, <1>4 DEF DispatchInv

LEMMA CallMoves ==
    ASSUME ThreadInv, NEW t \in Threads, NEW k, call' = [call EXCEPT ![t] = k]
    PROVE  DOMAIN call' = Threads /\ call'[t] = k /\ \A u \in Threads \ {t} : call'[u] = call[u]
BY DEF ThreadInv

\* sysenter_save leaves the call in the context of the thread.
Entered(t, nr, a) ==
    LET old   == ctx[t]
        saved == [i \in 0 .. 5 |-> IF i < Row(nr).nargs THEN a[i] ELSE old.arg[i]]
    IN IF nr \notin Known THEN Ctx(Unknown, old.arg, old.ret)
       ELSE Ctx(nr, IF Saves(nr) THEN saved ELSE old.arg, old.ret)

LEMMA EnterSaves ==
    ASSUME TableInv, NEW t, NEW nr, NEW a, NEW k, k.nr = nr, k.arg = a
    PROVE  SeesCall(Entered(t, nr, a), k)
<1> DEFINE saved == [i \in 0 .. 5 |-> IF i < Row(nr).nargs THEN a[i] ELSE ctx[t].arg[i]]
           c == Entered(t, nr, a)
<1>1. CASE nr \notin Known
  <2>1. c.nr = Unknown
    BY <1>1 DEF Ctx, Entered
  <2>2. c # NoCtx
    <3>1. NoCtx.nr = "no_context" /\ Unknown # "no_context"
      BY DEF NoCtx, Ctx, Unknown
    <3> HIDE DEF c
    <3>2. QED BY <2>1, <3>1
  <2> HIDE DEF c
  <2>3. SeesCall(c, k)
    BY <1>1, <2>1, <2>2 DEF SeesCall
  <2>4. QED BY <2>3 DEF c
<1>2. CASE nr \in Known
  <2>1. Row(nr) \in DescType /\ HookSaves(Row(nr))
    BY <1>2, RowIs DEF RowOK
  <2>2. ASSUME Row(nr).pre # NoHook \/ Row(nr).post # NoHook \/ Row(nr).retval_args
        PROVE  \A i \in 0 .. Row(nr).nargs - 1 : c.arg[i] = a[i]
    <3>1. Saves(nr)
      BY <2>1, <2>2, Zenon DEF HookSaves, Saves
    <3>2. c.arg = saved
      BY <1>2, <3>1 DEF Ctx, Entered
    <3>3. Row(nr).nargs \in 0 .. 6
      BY <2>1 DEF DescType
    <3>4. \A i \in 0 .. Row(nr).nargs - 1 : i \in 0 .. 5 /\ i < Row(nr).nargs
      BY <3>3, SMT
    <3>5. QED BY <3>2, <3>4, Zenon
  <2>3. c.nr = nr
    BY <1>2 DEF Ctx, Entered
  <2>4. c # NoCtx
    <3>1. NoCtx.nr = "no_context" /\ nr # "no_context"
      BY <1>2, Names DEF NoCtx, Ctx
    <3> HIDE DEF c
    <3>2. QED BY <2>3, <3>1
  <2> HIDE DEF c
  <2>5. SeesCall(c, k)
    BY <1>2, <2>2, <2>3, <2>4, Zenon DEF SeesCall
  <2>6. QED BY <2>5 DEF c
<1>3. QED BY <1>1, <1>2

\* The arguments and the memory of a call that a thread makes.
Args(a0, a1, a2, a3, a4, a5) == [i \in 0 .. 5 |-> <<a0, a1, a2, a3, a4, a5>>[i + 1]]

EnterWith(t, nr, a, m) ==
    /\ DOMAIN a = 0 .. 5 /\ \A i \in 0 .. 5 : a[i] \in ParamsAt(nr, i)
    /\ m \in Mems(Name(nr), a)
    /\ AnyCall \/ ExpectedArgs(nr, a, m)
    /\ sysenter_save(t, nr, a)
    /\ call' = [call EXCEPT ![t] = Call(nr, a, m, Answer(0, {}), FALSE)]

LEMMA ArgsIn ==
    ASSUME NEW nr, NEW a0 \in ParamsAt(nr, 0), NEW a1 \in ParamsAt(nr, 1), NEW a2 \in ParamsAt(nr, 2),
           NEW a3 \in ParamsAt(nr, 3), NEW a4 \in ParamsAt(nr, 4), NEW a5 \in ParamsAt(nr, 5)
    PROVE  /\ DOMAIN Args(a0, a1, a2, a3, a4, a5) = 0 .. 5
           /\ \A i \in 0 .. 5 : Args(a0, a1, a2, a3, a4, a5)[i] \in ParamsAt(nr, i)
<1> DEFINE a == Args(a0, a1, a2, a3, a4, a5)
<1>1. a[0] = a0 /\ a[1] = a1 /\ a[2] = a2 /\ a[3] = a3 /\ a[4] = a4 /\ a[5] = a5 /\ DOMAIN a = 0 .. 5
  BY SMT DEF Args
<1>2. \A i \in 0 .. 5 : i = 0 \/ i = 1 \/ i = 2 \/ i = 3 \/ i = 4 \/ i = 5
  OBVIOUS
<1> HIDE DEF a
<1>3. \A i \in 0 .. 5 : a[i] \in ParamsAt(nr, i)
  BY <1>1, <1>2, Zenon
<1>4. QED BY <1>1, <1>3 DEF a

LEMMA EnterIs == ASSUME NEW t, NEW nr, Enter(t, nr) PROVE \E a, m : EnterWith(t, nr, a, m)
<1>1. PICK a0 \in ParamsAt(nr, 0), a1 \in ParamsAt(nr, 1), a2 \in ParamsAt(nr, 2),
           a3 \in ParamsAt(nr, 3), a4 \in ParamsAt(nr, 4), a5 \in ParamsAt(nr, 5) :
        \E m \in Mems(Name(nr), Args(a0, a1, a2, a3, a4, a5)) :
           /\ AnyCall \/ ExpectedArgs(nr, Args(a0, a1, a2, a3, a4, a5), m)
           /\ sysenter_save(t, nr, Args(a0, a1, a2, a3, a4, a5))
           /\ call' = [call EXCEPT ![t] =
                           Call(nr, Args(a0, a1, a2, a3, a4, a5), m, Answer(0, {}), FALSE)]
  BY ZenonT(30) DEF Enter, Args
<1> DEFINE a == Args(a0, a1, a2, a3, a4, a5)
<1>2. PICK m \in Mems(Name(nr), a) :
         /\ AnyCall \/ ExpectedArgs(nr, a, m)
         /\ sysenter_save(t, nr, a)
         /\ call' = [call EXCEPT ![t] = Call(nr, a, m, Answer(0, {}), FALSE)]
  BY <1>1, Zenon
<1>3. DOMAIN a = 0 .. 5 /\ \A i \in 0 .. 5 : a[i] \in ParamsAt(nr, i)
  BY ArgsIn
<1> HIDE DEF a
<1>4. EnterWith(t, nr, a, m)
  BY <1>2, <1>3, Zenon DEF EnterWith
<1>5. QED BY <1>4, Zenon

LEMMA EnterStep ==
    ASSUME DispatchInv, NEW t \in Threads, NEW nr, Enter(t, nr) PROVE DispatchInv'
<1>1. PICK a, m : /\ sysenter_save(t, nr, a)
                  /\ call' = [call EXCEPT ![t] = Call(nr, a, m, Answer(0, {}), FALSE)]
  BY EnterIs, Zenon DEF EnterWith
<1>2. desc' = desc /\ started' = started
  BY DEF Enter
<1>3. ctx' = [ctx EXCEPT ![t] = Entered(t, nr, a)] /\ DOMAIN ctx = Threads
  <2> DEFINE saved == [i \in 0 .. 5 |-> IF i < Row(nr).nargs THEN a[i] ELSE ctx[t].arg[i]]
             c == IF nr \notin Known THEN Ctx(Unknown, ctx[t].arg, ctx[t].ret)
                  ELSE Ctx(nr, IF Saves(nr) THEN saved ELSE ctx[t].arg, ctx[t].ret)
  <2>1. ctx' = [ctx EXCEPT ![t] = c]
    BY <1>1, Zenon DEF sysenter_save
  <2>2. c = Entered(t, nr, a)
    BY DEF Entered
  <2> HIDE DEF c
  <2>3. QED BY <2>1, <2>2 DEF DispatchInv, ThreadInv
<1>4. /\ DOMAIN ctx' = Threads /\ ctx'[t] = Entered(t, nr, a)
      /\ \A u \in Threads \ {t} : ctx'[u] = ctx[u]
  BY <1>3
<1> DEFINE k == Call(nr, a, m, Answer(0, {}), FALSE)
<1>5. k.nr = nr /\ k.arg = a
  BY DEF Call
<1> HIDE DEF k
<1>6. SeesCall(Entered(t, nr, a), k)
  BY <1>5, EnterSaves, Zenon DEF DispatchInv
<1>7. DOMAIN call' = Threads /\ call'[t] = k /\ \A u \in Threads \ {t} : call'[u] = call[u]
  BY <1>1, CallMoves DEF DispatchInv, k
<1>8. started
  BY DEF DispatchInv, ThreadInv, Enter
<1>9. QED BY <1>2, <1>4, <1>6, <1>7, <1>8, ThreadStep, Zenon

\* A thread in a call: the program has started.
LEMMA InCall ==
    ASSUME DispatchInv, NEW t \in Threads, call[t].nr # NoNr \/ call[t].done PROVE started
BY NoCallIs DEF DispatchInv, ThreadInv

LEMMA KernelStep ==
    ASSUME DispatchInv, NEW t \in Threads, Kernel(t) PROVE DispatchInv'
<1>1. PICK k : call' = [call EXCEPT ![t] = Call(call[t].nr, call[t].arg, call[t].mem, k, TRUE)]
  BY Zenon DEF Kernel
<1>2. call[t].nr # NoNr /\ UNCHANGED <<desc, started, ctx>>
  BY DEF Kernel
<1>3. DOMAIN ctx' = Threads
  BY <1>2 DEF DispatchInv, ThreadInv
<1>4. SeesCall(ctx[t], call[t])
  BY SeesCallIff DEF DispatchInv
<1> DEFINE after == Call(call[t].nr, call[t].arg, call[t].mem, k, TRUE)
<1>5. after.nr = call[t].nr /\ after.arg = call[t].arg
  BY DEF Call
<1>6. SeesCall(ctx[t], after)
  BY <1>4, <1>5, Zenon DEF SeesCall
<1> HIDE DEF after
<1>7. DOMAIN call' = Threads /\ call'[t] = after /\ \A u \in Threads \ {t} : call'[u] = call[u]
  BY <1>1, CallMoves DEF DispatchInv, after
<1>8. QED BY <1>2, <1>3, <1>6, <1>7, InCall, ThreadStep

\* A thread in no call.
LEMMA SeesNone == \A c : SeesCall(c, NoCall)
BY Names, NoCallIs, Zenon DEF SeesCall

LEMMA ExitStep ==
    ASSUME DispatchInv, NEW t \in Threads, sysexit_save(t) PROVE DispatchInv'
<1>1. call' = [call EXCEPT ![t] = NoCall] /\ UNCHANGED <<desc, started>> /\ call[t].done
  BY DEF sysexit_save
<1>2. DOMAIN ctx' = Threads /\ \A u \in Threads \ {t} : ctx'[u] = ctx[u]
  <2> DEFINE c == Ctx(ctx[t].nr, ctx[t].arg, call[t].out.ret)
  <2>1. ctx' = ctx \/ ctx' = [ctx EXCEPT ![t] = c]
    BY DEF sysexit_save
  <2> HIDE DEF c
  <2>2. QED BY <2>1 DEF DispatchInv, ThreadInv
<1>3. SeesCall(ctx'[t], NoCall)
  BY SeesNone
<1>4. DOMAIN call' = Threads /\ call'[t] = NoCall /\ \A u \in Threads \ {t} : call'[u] = call[u]
  BY <1>1, CallMoves DEF DispatchInv
<1>5. QED BY <1>1, <1>2, <1>3, <1>4, InCall, ThreadStep

\* A thread comes or goes.
LEMMA AllocStep ==
    ASSUME DispatchInv, NEW t \in Threads, thread_alloc(t) PROVE DispatchInv'
<1>1. started /\ ctx[t] = NoCtx /\ ctx' = [ctx EXCEPT ![t] = NewCtx] /\ UNCHANGED <<desc, started, call>>
  BY DEF thread_alloc
<1>2. SeesCall(NoCtx, call[t])
  BY <1>1, SeesCallIff DEF DispatchInv
<1>3. call[t].nr = NoNr
  BY <1>2, Zenon DEF SeesCall
<1>4. SeesCall(NewCtx, call[t])
  BY <1>3, Names, Zenon DEF SeesCall
<1>5. /\ DOMAIN ctx' = Threads /\ ctx'[t] = NewCtx /\ \A u \in Threads \ {t} : ctx'[u] = ctx[u]
      /\ DOMAIN call' = Threads /\ call'[t] = call[t] /\ \A u \in Threads \ {t} : call'[u] = call[u]
  BY <1>1 DEF DispatchInv, ThreadInv
<1>6. QED BY <1>1, <1>4, <1>5, ThreadStep, Zenon

LEMMA FreeStep ==
    ASSUME DispatchInv, NEW t \in Threads, thread_free(t) PROVE DispatchInv'
<1>1. /\ call[t].nr = "exit" /\ ctx' = [ctx EXCEPT ![t] = NoCtx] /\ call' = [call EXCEPT ![t] = NoCall]
      /\ UNCHANGED <<desc, started>>
  BY DEF thread_free
<1>2. started
  BY <1>1, InCall DEF NoNr
<1>3. DOMAIN ctx' = Threads /\ ctx'[t] = NoCtx /\ \A u \in Threads \ {t} : ctx'[u] = ctx[u]
  BY <1>1 DEF DispatchInv, ThreadInv
<1>4. DOMAIN call' = Threads /\ call'[t] = NoCall /\ \A u \in Threads \ {t} : call'[u] = call[u]
  BY <1>1, CallMoves DEF DispatchInv
<1>5. QED BY <1>1, <1>2, <1>3, <1>4, SeesNone, ThreadStep, Zenon

LEMMA NextDispatch == DispatchInv /\ [Next]_vars => DispatchInv'
<1> SUFFICES ASSUME DispatchInv, [Next]_vars PROVE DispatchInv'
  OBVIOUS
<1>1. ASSUME UNCHANGED <<desc, ctx, call>>, started' \in {started, TRUE} PROVE DispatchInv'
  <2>1. TableInv'
    BY <1>1 DEF DispatchInv, TableInv
  <2>2. ThreadInv'
    BY <1>1 DEF DispatchInv, ThreadInv
  <2>3. HookSeesCall'
    <3>1. desc' = desc /\ ctx' = ctx /\ call' = call
      BY <1>1
    <3>2. QED BY <3>1, Zenon DEF DispatchInv, HookSeesCall, Row
  <2>4. QED BY <2>1, <2>2, <2>3 DEF DispatchInv
<1>2. CASE UNCHANGED vars
  BY <1>1, <1>2 DEF vars
<1>3. CASE \E nr \in Registered : Register(nr)
  BY <1>3, RegisterStep
<1>4. CASE StartProgram
  BY <1>1, <1>4 DEF StartProgram
<1>5. ASSUME NEW t \in Threads, thread_alloc(t) \/ thread_free(t) \/ Kernel(t) \/ sysexit_save(t)
      PROVE  DispatchInv'
  BY <1>5, AllocStep, FreeStep, KernelStep, ExitStep
<1>6. ASSUME NEW t \in Threads, NEW nr \in CallsOf[t], Enter(t, nr) PROVE DispatchInv'
  BY <1>6, EnterStep
<1>7. QED BY <1>2, <1>3, <1>4, <1>5, <1>6 DEF Next

(* For any threads that come and go, any calls and any descriptors registered     *)
(* before the program starts, the hook or the default handling that sysexit_save  *)
(* runs at the end of a call finds a live context with its number and all its     *)
(* arguments.                                                                      *)
THEOREM CallsSeen == Spec => []HookSeesCall
<1>1. DispatchInv => HookSeesCall
  BY DEF DispatchInv
<1>2. QED BY InitDispatch, NextDispatch, <1>1, PTL DEF Spec

-----------------------------------------------------------------------------
(* What a hook has to clear *)

Failed == Answer(Minus1, {})

\* The call x, which passes and is answered what the call b is, as Expected describes it.
Foreseen(nr, a, m, k) ==
    /\ ExpectedArgs(nr, a, m)
    /\ k.ret = 0 => ~Reads(nr, a)
    /\ HasPeer(nr, a) => k.olen <= m.len
Happens(nr, b, a, m, k) ==
    /\ \A i \in 0 .. 5 : a[i] \in HookParams[b][i + 1]
    /\ m \in Mems(b, a) /\ k \in HookSuccess(b, a, m) \cup {Failed}
    /\ Foreseen(nr, a, m, k)

\* What a hook of a call with n arguments finds: the arguments, the result, the memory.
Sees(n, c, a, m, k) ==
    /\ DOMAIN c = {"arg", "ret", "mem", "out"} /\ \A i \in 0 .. n - 1 : c.arg[i] = a[i]
    /\ c.ret = k.ret /\ c.mem = m /\ c.out = k

\* The calls of tagmap_clrn reach the bytes that the kernel wrote, and no others.
Right(s, k) == Covers(s, k.wrote) /\ k.ret \in 0 .. Word - 1

\* What sysexit_save clears for a row.
Cleared(d, c) ==
    IF ~(d.save_args \/ d.retval_args) THEN None
    ELSE IF d.post # NoHook THEN Clears(d.post, c) ELSE DefaultClears(d, c)

\* The row of a call is right.
Outcome(nr, a, m, k) ==
    /\ \A i \in 0 .. 5 : a[i] \in ParamsAt(nr, i)
    /\ m \in Mems(Name(nr), a) /\ k \in Answers(nr, a, m)
    /\ Foreseen(nr, a, m, k)
    /\ Long(k.ret) < 0 /\ nr \in Known => syscall_desc[nr].post # NoHook

RowRight(nr) ==
    \A a, m, k, c :
        /\ Outcome(nr, a, m, k)
        /\ LET d == syscall_desc[nr]
           IN  d.post # NoHook \/ d.retval_args => Sees(d.nargs, c, a, m, k)
        => Right(Cleared(syscall_desc[nr], c), k)

HookExact(nr, b, n, h) ==
    \A a, m, k, c : Happens(nr, b, a, m, k) /\ Sees(n, c, a, m, k) => Right(Clears(h, c), k)

\* A call with a hook of the table: it is enough to show what the hook itself clears.
LEMMA RowExact ==
    ASSUME NEW nr, NEW b, NEW n \in 0 .. 6, NEW h, syscall_desc[nr] = Hook(n, h), h # NoHook,
           Name(nr) = b, b \in DOMAIN HookParams, HookExact(nr, b, n, h)
    PROVE  RowRight(nr)
<1> DEFINE d == syscall_desc[nr]
<1>1. d.nargs = n /\ d.save_args = TRUE /\ d.post = h
  BY DEF Hook, Desc
<1> HIDE DEF d
<1>2. \A c : Cleared(d, c) = Clears(h, c)
  BY <1>1, Zenon DEF Cleared
<1>3. ASSUME NEW a, NEW m, NEW k, NEW c, Outcome(nr, a, m, k), Sees(n, c, a, m, k)
      PROVE  Right(Clears(h, c), k)
  <2>1. \A i \in 0 .. 5 : a[i] \in HookParams[b][i + 1]
    BY <1>3, Zenon DEF Outcome, ParamsAt
  <2>2. k \in HookSuccess(b, a, m) \cup {Failed}
    BY <1>3, SMT DEF Outcome, Answers, Failed
  <2>3. Happens(nr, b, a, m, k)
    BY <1>3, <2>1, <2>2, Zenon DEF Outcome, Happens
  <2>4. QED BY <1>3, <2>3, Zenon DEF HookExact
<1>4. QED BY <1>1, <1>2, <1>3, Zenon DEF RowRight, d

\* The values of the arguments, and results no larger than them.
LEMMA Numbers ==
    /\ \A r \in 0 .. 256 : Long(r) = r /\ r \in 0 .. Word - 1
    /\ Long(Minus1) = -1 /\ Minus1 \in 0 .. Word - 1
BY Syscalls32Assumption DEF Long, Minus1

LEMMA Buffers ==
    \A i \in 0 .. 5 : /\ \A p \in B(i) : p \in 32 .. 256
                      /\ \A p \in P(i) : p \in 32 .. 256 \/ p = Null
                      /\ Area(i) \in 32 .. 256
<1>1. \A o \in Offs : o \in 0 .. 4
  BY Syscalls32Assumption DEF Room, STRUCT
<1>2. ASSUME NEW i \in 0 .. 5 PROVE (\A p \in B(i) : p \in 32 .. 256) /\ Area(i) \in 32 .. 256
  BY <1>1 DEF B, Area, Base, Room
<1>3. QED BY <1>2 DEF P

LEMMA Lengths12 == N \subseteq 0 .. 12
BY Syscalls32Assumption DEF N, STRUCT

LEMMA FailedIs == Failed.ret = Minus1 /\ Failed.wrote = {} /\ Long(Failed.ret) = -1
                  /\ \A c, p, unit : c.ret = Minus1 => ClearRet(c, p, unit) = None
BY Numbers DEF Failed, Answer, AnswerMsg, ClearRet

LEMMA FailedRight == ASSUME NEW k, k = Failed PROVE Right(None, k)
BY FailedIs, CoversNone, Numbers DEF Right

LEMMA AnswerIs ==
    ASSUME NEW r, NEW w PROVE Answer(r, w).ret = r /\ Answer(r, w).wrote = w
BY DEF Answer, AnswerMsg

\* A transfer of as many units as the call returns, to a buffer or to NULL.
LEMMA UnitsRight ==
    ASSUME NEW p \in Nat, NEW n \in 0 .. 12, NEW unit \in 1 .. 12, NEW k, NEW c, c.ret = k.ret,
           (\E r \in 0 .. n : k = Answer(r, Bytes(p, unit * r))) \/ k = Failed
    PROVE  (p # Null => Right(ClearRet(c, p, unit), k)) /\ (p = Null => Right(None, k))
<1>1. CASE k = Failed
  BY <1>1, FailedIs, FailedRight
<1>2. ASSUME NEW r \in 0 .. n, k = Answer(r, Bytes(p, unit * r))
      PROVE  (p # Null => Right(ClearRet(c, p, unit), k)) /\ (p = Null => Right(None, k))
  <2>1. r \in 0 .. 256 /\ k.ret = r /\ k.wrote = Bytes(p, unit * r)
    BY <1>2, AnswerIs
  <2>2. Long(c.ret) = r /\ c.ret = r /\ k.ret \in 0 .. Word - 1
    BY <2>1, Numbers
  <2>3. CASE p = Null
    BY <2>1, <2>2, <2>3, CoversNone DEF Right, Bytes
  <2>4. CASE p # Null /\ r = 0
    <3>1. ClearRet(c, p, unit) = None
      BY <2>2, <2>4 DEF ClearRet
    <3>2. unit * r = 0
      BY <2>4
    <3>3. Bytes(p, 0) = {}
      BY DEF Bytes
    <3>4. QED BY <2>1, <2>2, <2>4, <3>1, <3>2, <3>3, CoversNone DEF Right
  <2>5. CASE p # Null /\ r # 0
    <3>1. ClearRet(c, p, unit) = Clr(p, unit * r)
      BY <2>1, <2>2, <2>5 DEF ClearRet
    <3>2. unit * r \in Nat
      OBVIOUS
    <3>3. Covers(Clr(p, unit * r), Bytes(p, unit * r))
      BY <2>5, <3>2, CoversClr
    <3>4. QED BY <2>1, <2>2, <2>5, <3>1, <3>3 DEF Right
  <2>6. QED BY <2>3, <2>4, <2>5
<1>3. QED BY <1>1, <1>2

LEMMA TransferRight ==
    ASSUME NEW p \in Nat, NEW n \in 0 .. 12, NEW k, NEW c, c.ret = k.ret,
           k \in Transfers(p, n) \/ k = Failed
    PROVE  (p # Null => Right(ClearRet(c, p, 1), k)) /\ (p = Null => Right(None, k))
<1>1. k \in Transfers(p, n) => \E r \in 0 .. n : k = Answer(r, Bytes(p, 1 * r))
  <2>1. ASSUME NEW r \in {0, n \div 2, n} PROVE r \in 0 .. n /\ 1 * r = r
    OBVIOUS
  <2>2. QED BY <2>1 DEF Transfers
<1>2. 1 \in 1 .. 12
  OBVIOUS
<1>3. QED BY <1>1, <1>2, UnitsRight, Zenon

-----------------------------------------------------------------------------
(* The names of the calls *)

LEMMA Arities == 1 \in 0 .. 6 /\ 2 \in 0 .. 6 /\ 3 \in 0 .. 6 /\ 4 \in 0 .. 6
                 /\ 5 \in 0 .. 6 /\ 6 \in 0 .. 6
OBVIOUS

\* Where buffers may be.
Ptrs == 32 .. 256

LEMMA PtrNat == \A p \in Ptrs : p \in Nat /\ p # Null
BY DEF Ptrs, Null

LEMMA BufferAt ==
    /\ \A p \in B(0) : p \in Ptrs
    /\ \A p \in P(0) : p \in Ptrs \cup {Null}
    /\ Area(0) \in Ptrs
    /\ \A p \in B(1) : p \in Ptrs
    /\ \A p \in P(1) : p \in Ptrs \cup {Null}
    /\ Area(1) \in Ptrs
    /\ \A p \in B(2) : p \in Ptrs
    /\ \A p \in P(2) : p \in Ptrs \cup {Null}
    /\ Area(2) \in Ptrs
    /\ \A p \in B(3) : p \in Ptrs
    /\ \A p \in P(3) : p \in Ptrs \cup {Null}
    /\ Area(3) \in Ptrs
    /\ \A p \in B(4) : p \in Ptrs
    /\ \A p \in P(4) : p \in Ptrs \cup {Null}
    /\ Area(4) \in Ptrs
    /\ \A p \in B(5) : p \in Ptrs
    /\ \A p \in P(5) : p \in Ptrs \cup {Null}
    /\ Area(5) \in Ptrs
<1>1. \A i \in 0 .. 5 : /\ \A p \in B(i) : p \in Ptrs
                        /\ \A p \in P(i) : p \in Ptrs \cup {Null}
                        /\ Area(i) \in Ptrs
  <2>1. TAKE i \in 0 .. 5
  <2>2. /\ \A p \in B(i) : p \in Ptrs
        /\ \A p \in P(i) : p \in Ptrs \/ p = Null
        /\ Area(i) \in Ptrs
    BY Buffers, Zenon DEF Ptrs
  <2>3. QED BY <2>2, Zenon
<1>2. 0 \in 0 .. 5 /\ 1 \in 0 .. 5 /\ 2 \in 0 .. 5 /\ 3 \in 0 .. 5 /\ 4 \in 0 .. 5 /\ 5 \in 0 .. 5
  OBVIOUS
<1>3. QED BY <1>1, <1>2, Zenon

LEMMA NullNat == \A p \in Ptrs \cup {Null} : p \in Nat
BY DEF Ptrs, Null

LEMMA Small == \A n \in N : n \in 0 .. 12
BY Lengths12

LEMMA LikeNames == DOMAIN Like = {"readlink", "pread64", "getdents64", "lookup_dcookie",
                              "modify_ldt", "fcntl64", "ppoll", "epoll_pwait", "preadv",
                              "nfsservctl"}
BY Zenon DEF Like

LEMMA HookNames ==
    DOMAIN HookParams = {"read", "readlinkat", "getcwd", "write", "getgroups16", "getgroups",
                         "listxattr", "getxattr", "epoll_wait", "io_getevents", "poll",
                         "mq_timedreceive", "get_mempolicy", "mincore", "old_mmap", "mmap2",
                         "rt_sigpending", "fcntl", "quotactl", "syslog", "sysctl", "readv",
                         "ipc", "socketcall", "recvmmsg", "ioctl"}
BY SMT DEF HookParams

LEMMA LikeIs ==
    /\ Like["readlink"] = "read"
    /\ Like["pread64"] = "read"
    /\ Like["getdents64"] = "read"
    /\ Like["lookup_dcookie"] = "read"
    /\ Like["modify_ldt"] = "read"
    /\ Like["fcntl64"] = "fcntl"
    /\ Like["ppoll"] = "poll"
    /\ Like["epoll_pwait"] = "epoll_wait"
    /\ Like["preadv"] = "readv"
    /\ Like["nfsservctl"] = "ioctl"
BY Zenon DEF Like

LEMMA Names32 ==
    /\ Name("readlink") = "read"
    /\ Name("pread64") = "read"
    /\ Name("getdents64") = "read"
    /\ Name("lookup_dcookie") = "read"
    /\ Name("modify_ldt") = "read"
    /\ Name("fcntl64") = "fcntl"
    /\ Name("ppoll") = "poll"
    /\ Name("epoll_pwait") = "epoll_wait"
    /\ Name("preadv") = "readv"
    /\ Name("nfsservctl") = "ioctl"
    /\ Name("read") = "read"
    /\ Name("readlinkat") = "readlinkat"
    /\ Name("getcwd") = "getcwd"
    /\ Name("write") = "write"
    /\ Name("getgroups16") = "getgroups16"
    /\ Name("getgroups") = "getgroups"
    /\ Name("listxattr") = "listxattr"
    /\ Name("getxattr") = "getxattr"
    /\ Name("epoll_wait") = "epoll_wait"
    /\ Name("io_getevents") = "io_getevents"
    /\ Name("poll") = "poll"
    /\ Name("mq_timedreceive") = "mq_timedreceive"
    /\ Name("get_mempolicy") = "get_mempolicy"
    /\ Name("mincore") = "mincore"
    /\ Name("old_mmap") = "old_mmap"
    /\ Name("mmap2") = "mmap2"
    /\ Name("rt_sigpending") = "rt_sigpending"
    /\ Name("fcntl") = "fcntl"
    /\ Name("quotactl") = "quotactl"
    /\ Name("syslog") = "syslog"
    /\ Name("sysctl") = "sysctl"
    /\ Name("readv") = "readv"
    /\ Name("ipc") = "ipc"
    /\ Name("socketcall") = "socketcall"
    /\ Name("recvmmsg") = "recvmmsg"
    /\ Name("ioctl") = "ioctl"
<1>1. \A nr : nr \in DOMAIN Like => Name(nr) = Like[nr]
  BY Zenon DEF Name
<1>2. \A nr : nr \notin DOMAIN Like => Name(nr) = nr
  BY Zenon DEF Name
<1>3. QED BY <1>1, <1>2, LikeNames, LikeIs, SMT

LEMMA ArgIn ==
    ASSUME NEW b, NEW a, \A i \in 0 .. 5 : a[i] \in HookParams[b][i + 1],
           NEW v0, NEW v1, NEW v2, NEW v3, NEW v4, NEW v5,
           HookParams[b] = <<v0, v1, v2, v3, v4, v5>>
    PROVE  a[0] \in v0 /\ a[1] \in v1 /\ a[2] \in v2 /\ a[3] \in v3 /\ a[4] \in v4 /\ a[5] \in v5
<1>1. HookParams[b][1] = v0 /\ HookParams[b][2] = v1 /\ HookParams[b][3] = v2
      /\ HookParams[b][4] = v3 /\ HookParams[b][5] = v4 /\ HookParams[b][6] = v5
  OBVIOUS
<1>2. \A i \in 0 .. 5 : a[i] \in HookParams[b][i + 1]
  OBVIOUS
<1>3. QED BY <1>1, <1>2

LEMMA Params_read == \A a : (\A i \in 0 .. 5 : a[i] \in HookParams["read"][i + 1]) =>
    /\ a[0] \in Z
    /\ a[1] \in B(1)
    /\ a[2] \in N
    /\ a[3] \in Z
    /\ a[4] \in Z
    /\ a[5] \in Z
<1>1. HookParams["read"] = <<Z, B(1), N, Z, Z, Z>>
  BY Zenon DEF HookParams
<1>2. QED BY <1>1, ArgIn, Zenon

LEMMA Params_readlinkat == \A a : (\A i \in 0 .. 5 : a[i] \in HookParams["readlinkat"][i + 1]) =>
    /\ a[0] \in Z
    /\ a[1] \in Z
    /\ a[2] \in B(2)
    /\ a[3] \in N
    /\ a[4] \in Z
    /\ a[5] \in Z
<1>1. HookParams["readlinkat"] = <<Z, Z, B(2), N, Z, Z>>
  BY Zenon DEF HookParams
<1>2. QED BY <1>1, ArgIn, Zenon

LEMMA Params_getcwd == \A a : (\A i \in 0 .. 5 : a[i] \in HookParams["getcwd"][i + 1]) =>
    /\ a[0] \in B(0)
    /\ a[1] \in N
    /\ a[2] \in Z
    /\ a[3] \in Z
    /\ a[4] \in Z
    /\ a[5] \in Z
<1>1. HookParams["getcwd"] = <<B(0), N, Z, Z, Z, Z>>
  BY Zenon DEF HookParams
<1>2. QED BY <1>1, ArgIn, Zenon

LEMMA Params_write == \A a : (\A i \in 0 .. 5 : a[i] \in HookParams["write"][i + 1]) =>
    /\ a[0] \in Z
    /\ a[1] \in B(1)
    /\ a[2] \in {INT}
    /\ a[3] \in Z
    /\ a[4] \in Z
    /\ a[5] \in Z
<1> DEFINE v2 == {INT}
<1>1. HookParams["write"] = <<Z, B(1), v2, Z, Z, Z>>
  BY Zenon DEF HookParams
<1> HIDE DEF v2
<1>2. ASSUME NEW a, \A i \in 0 .. 5 : a[i] \in HookParams["write"][i + 1]
      PROVE  a[0] \in Z /\ a[1] \in B(1) /\ a[2] \in v2 /\ a[3] \in Z /\ a[4] \in Z /\ a[5] \in Z
  BY <1>1, <1>2, ArgIn, Zenon
<1>3. QED BY <1>2, Zenon DEF v2

LEMMA Params_getgroups16 == \A a : (\A i \in 0 .. 5 : a[i] \in HookParams["getgroups16"][i + 1]) =>
    /\ a[0] \in Vec
    /\ a[1] \in P(1)
    /\ a[2] \in Z
    /\ a[3] \in Z
    /\ a[4] \in Z
    /\ a[5] \in Z
<1>1. HookParams["getgroups16"] = <<Vec, P(1), Z, Z, Z, Z>>
  BY Zenon DEF HookParams
<1>2. QED BY <1>1, ArgIn, Zenon

LEMMA Params_getgroups == \A a : (\A i \in 0 .. 5 : a[i] \in HookParams["getgroups"][i + 1]) =>
    /\ a[0] \in Vec
    /\ a[1] \in P(1)
    /\ a[2] \in Z
    /\ a[3] \in Z
    /\ a[4] \in Z
    /\ a[5] \in Z
<1>1. HookParams["getgroups"] = <<Vec, P(1), Z, Z, Z, Z>>
  BY Zenon DEF HookParams
<1>2. QED BY <1>1, ArgIn, Zenon

LEMMA Params_listxattr == \A a : (\A i \in 0 .. 5 : a[i] \in HookParams["listxattr"][i + 1]) =>
    /\ a[0] \in Z
    /\ a[1] \in P(1)
    /\ a[2] \in N
    /\ a[3] \in Z
    /\ a[4] \in Z
    /\ a[5] \in Z
<1>1. HookParams["listxattr"] = <<Z, P(1), N, Z, Z, Z>>
  BY Zenon DEF HookParams
<1>2. QED BY <1>1, ArgIn, Zenon

LEMMA Params_getxattr == \A a : (\A i \in 0 .. 5 : a[i] \in HookParams["getxattr"][i + 1]) =>
    /\ a[0] \in Z
    /\ a[1] \in Z
    /\ a[2] \in P(2)
    /\ a[3] \in N
    /\ a[4] \in Z
    /\ a[5] \in Z
<1>1. HookParams["getxattr"] = <<Z, Z, P(2), N, Z, Z>>
  BY Zenon DEF HookParams
<1>2. QED BY <1>1, ArgIn, Zenon

LEMMA Params_epoll_wait == \A a : (\A i \in 0 .. 5 : a[i] \in HookParams["epoll_wait"][i + 1]) =>
    /\ a[0] \in Z
    /\ a[1] \in B(1)
    /\ a[2] \in {0, 1}
    /\ a[3] \in Z
    /\ a[4] \in Z
    /\ a[5] \in Z
<1> DEFINE v2 == {0, 1}
<1>1. HookParams["epoll_wait"] = <<Z, B(1), v2, Z, Z, Z>>
  BY Zenon DEF HookParams
<1> HIDE DEF v2
<1>2. ASSUME NEW a, \A i \in 0 .. 5 : a[i] \in HookParams["epoll_wait"][i + 1]
      PROVE  a[0] \in Z /\ a[1] \in B(1) /\ a[2] \in v2 /\ a[3] \in Z /\ a[4] \in Z /\ a[5] \in Z
  BY <1>1, <1>2, ArgIn, Zenon
<1>3. QED BY <1>2, Zenon DEF v2

LEMMA Params_io_getevents == \A a : (\A i \in 0 .. 5 : a[i] \in HookParams["io_getevents"][i + 1]) =>
    /\ a[0] \in Z
    /\ a[1] \in Z
    /\ a[2] \in {0, 1}
    /\ a[3] \in B(3)
    /\ a[4] \in P(4)
    /\ a[5] \in Z
<1> DEFINE v2 == {0, 1}
<1>1. HookParams["io_getevents"] = <<Z, Z, v2, B(3), P(4), Z>>
  BY Zenon DEF HookParams
<1> HIDE DEF v2
<1>2. ASSUME NEW a, \A i \in 0 .. 5 : a[i] \in HookParams["io_getevents"][i + 1]
      PROVE  a[0] \in Z /\ a[1] \in Z /\ a[2] \in v2 /\ a[3] \in B(3) /\ a[4] \in P(4) /\ a[5] \in Z
  BY <1>1, <1>2, ArgIn, Zenon
<1>3. QED BY <1>2, Zenon DEF v2

LEMMA Params_poll == \A a : (\A i \in 0 .. 5 : a[i] \in HookParams["poll"][i + 1]) =>
    /\ a[0] \in B(0)
    /\ a[1] \in Vec
    /\ a[2] \in Z
    /\ a[3] \in Z
    /\ a[4] \in Z
    /\ a[5] \in Z
<1>1. HookParams["poll"] = <<B(0), Vec, Z, Z, Z, Z>>
  BY Zenon DEF HookParams
<1>2. QED BY <1>1, ArgIn, Zenon

LEMMA Params_mq_timedreceive == \A a : (\A i \in 0 .. 5 : a[i] \in HookParams["mq_timedreceive"][i + 1]) =>
    /\ a[0] \in Z
    /\ a[1] \in B(1)
    /\ a[2] \in N
    /\ a[3] \in P(3)
    /\ a[4] \in Z
    /\ a[5] \in Z
<1>1. HookParams["mq_timedreceive"] = <<Z, B(1), N, P(3), Z, Z>>
  BY Zenon DEF HookParams
<1>2. QED BY <1>1, ArgIn, Zenon

LEMMA Params_get_mempolicy == \A a : (\A i \in 0 .. 5 : a[i] \in HookParams["get_mempolicy"][i + 1]) =>
    /\ a[0] \in P(0)
    /\ a[1] \in P(1)
    /\ a[2] \in Z
    /\ a[3] \in Z
    /\ a[4] \in 0 .. 4
    /\ a[5] \in Z
<1> DEFINE v4 == 0 .. 4
<1>1. HookParams["get_mempolicy"] = <<P(0), P(1), Z, Z, v4, Z>>
  BY Zenon DEF HookParams
<1> HIDE DEF v4
<1>2. ASSUME NEW a, \A i \in 0 .. 5 : a[i] \in HookParams["get_mempolicy"][i + 1]
      PROVE  a[0] \in P(0) /\ a[1] \in P(1) /\ a[2] \in Z /\ a[3] \in Z /\ a[4] \in v4 /\ a[5] \in Z
  BY <1>1, <1>2, ArgIn, Zenon
<1>3. QED BY <1>2, Zenon DEF v4

LEMMA Params_mincore == \A a : (\A i \in 0 .. 5 : a[i] \in HookParams["mincore"][i + 1]) =>
    /\ a[0] \in Z
    /\ a[1] \in {1, PAGE_SZ + 1}
    /\ a[2] \in B(2)
    /\ a[3] \in Z
    /\ a[4] \in Z
    /\ a[5] \in Z
<1> DEFINE v1 == {1, PAGE_SZ + 1}
<1>1. HookParams["mincore"] = <<Z, v1, B(2), Z, Z, Z>>
  BY Zenon DEF HookParams
<1> HIDE DEF v1
<1>2. ASSUME NEW a, \A i \in 0 .. 5 : a[i] \in HookParams["mincore"][i + 1]
      PROVE  a[0] \in Z /\ a[1] \in v1 /\ a[2] \in B(2) /\ a[3] \in Z /\ a[4] \in Z /\ a[5] \in Z
  BY <1>1, <1>2, ArgIn, Zenon
<1>3. QED BY <1>2, Zenon DEF v1

LEMMA Params_old_mmap == \A a : (\A i \in 0 .. 5 : a[i] \in HookParams["old_mmap"][i + 1]) =>
    /\ a[0] \in B(0)
    /\ a[1] \in {0, PAGE_SZ + 1}
    /\ a[2] \in Z
    /\ a[3] \in Z
    /\ a[4] \in Z
    /\ a[5] \in Z
<1> DEFINE v1 == {0, PAGE_SZ + 1}
<1>1. HookParams["old_mmap"] = <<B(0), v1, Z, Z, Z, Z>>
  BY Zenon DEF HookParams
<1> HIDE DEF v1
<1>2. ASSUME NEW a, \A i \in 0 .. 5 : a[i] \in HookParams["old_mmap"][i + 1]
      PROVE  a[0] \in B(0) /\ a[1] \in v1 /\ a[2] \in Z /\ a[3] \in Z /\ a[4] \in Z /\ a[5] \in Z
  BY <1>1, <1>2, ArgIn, Zenon
<1>3. QED BY <1>2, Zenon DEF v1

LEMMA Params_mmap2 == \A a : (\A i \in 0 .. 5 : a[i] \in HookParams["mmap2"][i + 1]) =>
    /\ a[0] \in Z
    /\ a[1] \in {1, PAGE_SZ, PAGE_SZ + 1}
    /\ a[2] \in Z
    /\ a[3] \in {0, 1}
    /\ a[4] \in Z
    /\ a[5] \in Z
<1> DEFINE v1 == {1, PAGE_SZ, PAGE_SZ + 1}
           v3 == {0, 1}
<1>1. HookParams["mmap2"] = <<Z, v1, Z, v3, Z, Z>>
  BY Zenon DEF HookParams
<1> HIDE DEF v1, v3
<1>2. ASSUME NEW a, \A i \in 0 .. 5 : a[i] \in HookParams["mmap2"][i + 1]
      PROVE  a[0] \in Z /\ a[1] \in v1 /\ a[2] \in Z /\ a[3] \in v3 /\ a[4] \in Z /\ a[5] \in Z
  BY <1>1, <1>2, ArgIn, Zenon
<1>3. QED BY <1>2, Zenon DEF v1, v3

LEMMA Params_rt_sigpending == \A a : (\A i \in 0 .. 5 : a[i] \in HookParams["rt_sigpending"][i + 1]) =>
    /\ a[0] \in B(0)
    /\ a[1] \in N
    /\ a[2] \in Z
    /\ a[3] \in Z
    /\ a[4] \in Z
    /\ a[5] \in Z
<1>1. HookParams["rt_sigpending"] = <<B(0), N, Z, Z, Z, Z>>
  BY Zenon DEF HookParams
<1>2. QED BY <1>1, ArgIn, Zenon

LEMMA Params_fcntl == \A a : (\A i \in 0 .. 5 : a[i] \in HookParams["fcntl"][i + 1]) =>
    /\ a[0] \in Z
    /\ a[1] \in {F.GETFL, F.GETLK}
    /\ a[2] \in P(2)
    /\ a[3] \in Z
    /\ a[4] \in Z
    /\ a[5] \in Z
<1> DEFINE v1 == {F.GETFL, F.GETLK}
<1>1. HookParams["fcntl"] = <<Z, v1, P(2), Z, Z, Z>>
  BY Zenon DEF HookParams
<1> HIDE DEF v1
<1>2. ASSUME NEW a, \A i \in 0 .. 5 : a[i] \in HookParams["fcntl"][i + 1]
      PROVE  a[0] \in Z /\ a[1] \in v1 /\ a[2] \in P(2) /\ a[3] \in Z /\ a[4] \in Z /\ a[5] \in Z
  BY <1>1, <1>2, ArgIn, Zenon
<1>3. QED BY <1>2, Zenon DEF v1

LEMMA Params_quotactl == \A a : (\A i \in 0 .. 5 : a[i] \in HookParams["quotactl"][i + 1]) =>
    /\ a[0] \in {QCMD(Q.GETQUOTA, 0), QCMD(Q.SETQUOTA, 0)}
    /\ a[1] \in Z
    /\ a[2] \in Z
    /\ a[3] \in B(3)
    /\ a[4] \in Z
    /\ a[5] \in Z
<1> DEFINE v0 == {QCMD(Q.GETQUOTA, 0), QCMD(Q.SETQUOTA, 0)}
<1>1. HookParams["quotactl"] = <<v0, Z, Z, B(3), Z, Z>>
  BY Zenon DEF HookParams
<1> HIDE DEF v0
<1>2. ASSUME NEW a, \A i \in 0 .. 5 : a[i] \in HookParams["quotactl"][i + 1]
      PROVE  a[0] \in v0 /\ a[1] \in Z /\ a[2] \in Z /\ a[3] \in B(3) /\ a[4] \in Z /\ a[5] \in Z
  BY <1>1, <1>2, ArgIn, Zenon
<1>3. QED BY <1>2, Zenon DEF v0

LEMMA Params_syslog == \A a : (\A i \in 0 .. 5 : a[i] \in HookParams["syslog"][i + 1]) =>
    /\ a[0] \in {2, 10}
    /\ a[1] \in B(1)
    /\ a[2] \in N
    /\ a[3] \in Z
    /\ a[4] \in Z
    /\ a[5] \in Z
<1> DEFINE v0 == {2, 10}
<1>1. HookParams["syslog"] = <<v0, B(1), N, Z, Z, Z>>
  BY Zenon DEF HookParams
<1> HIDE DEF v0
<1>2. ASSUME NEW a, \A i \in 0 .. 5 : a[i] \in HookParams["syslog"][i + 1]
      PROVE  a[0] \in v0 /\ a[1] \in B(1) /\ a[2] \in N /\ a[3] \in Z /\ a[4] \in Z /\ a[5] \in Z
  BY <1>1, <1>2, ArgIn, Zenon
<1>3. QED BY <1>2, Zenon DEF v0

LEMMA Params_sysctl == \A a : (\A i \in 0 .. 5 : a[i] \in HookParams["sysctl"][i + 1]) =>
    /\ a[0] \in Z
    /\ a[1] \in Z
    /\ a[2] \in Z
    /\ a[3] \in Z
    /\ a[4] \in Z
    /\ a[5] \in Z
<1>1. HookParams["sysctl"] = <<Z, Z, Z, Z, Z, Z>>
  BY Zenon DEF HookParams
<1>2. QED BY <1>1, ArgIn, Zenon

LEMMA Params_readv == \A a : (\A i \in 0 .. 5 : a[i] \in HookParams["readv"][i + 1]) =>
    /\ a[0] \in Z
    /\ a[1] \in Z
    /\ a[2] \in Vec
    /\ a[3] \in Z
    /\ a[4] \in Z
    /\ a[5] \in Z
<1>1. HookParams["readv"] = <<Z, Z, Vec, Z, Z, Z>>
  BY Zenon DEF HookParams
<1>2. QED BY <1>1, ArgIn, Zenon

LEMMA Params_ipc == \A a : (\A i \in 0 .. 5 : a[i] \in HookParams["ipc"][i + 1]) =>
    /\ a[0] \in IpcCalls
    /\ a[1] \in Z
    /\ a[2] \in IpcCmds
    /\ a[3] \in {IPC.RMID + IPC_FIX, IPC.STAT + IPC_FIX}
    /\ a[4] \in B(4)
    /\ a[5] \in Z
<1> DEFINE v3 == {IPC.RMID + IPC_FIX, IPC.STAT + IPC_FIX}
<1>1. HookParams["ipc"] = <<IpcCalls, Z, IpcCmds, v3, B(4), Z>>
  BY Zenon DEF HookParams
<1> HIDE DEF v3
<1>2. ASSUME NEW a, \A i \in 0 .. 5 : a[i] \in HookParams["ipc"][i + 1]
      PROVE  a[0] \in IpcCalls /\ a[1] \in Z /\ a[2] \in IpcCmds /\ a[3] \in v3 /\ a[4] \in B(4)
               /\ a[5] \in Z
  BY <1>1, <1>2, ArgIn, Zenon
<1>3. QED BY <1>2, Zenon DEF v3

LEMMA Params_socketcall == \A a : (\A i \in 0 .. 5 : a[i] \in HookParams["socketcall"][i + 1]) =>
    /\ a[0] \in SocketCalls
    /\ a[1] \in Z
    /\ a[2] \in Z
    /\ a[3] \in Z
    /\ a[4] \in Z
    /\ a[5] \in Z
<1>1. HookParams["socketcall"] = <<SocketCalls, Z, Z, Z, Z, Z>>
  BY Zenon DEF HookParams
<1>2. QED BY <1>1, ArgIn, Zenon

LEMMA Params_recvmmsg == \A a : (\A i \in 0 .. 5 : a[i] \in HookParams["recvmmsg"][i + 1]) =>
    /\ a[0] \in Z
    /\ a[1] \in {Area(1)}
    /\ a[2] \in {1}
    /\ a[3] \in Z
    /\ a[4] \in P(4)
    /\ a[5] \in Z
<1> DEFINE v1 == {Area(1)}
           v2 == {1}
<1>1. HookParams["recvmmsg"] = <<Z, v1, v2, Z, P(4), Z>>
  BY Zenon DEF HookParams
<1> HIDE DEF v1, v2
<1>2. ASSUME NEW a, \A i \in 0 .. 5 : a[i] \in HookParams["recvmmsg"][i + 1]
      PROVE  a[0] \in Z /\ a[1] \in v1 /\ a[2] \in v2 /\ a[3] \in Z /\ a[4] \in P(4) /\ a[5] \in Z
  BY <1>1, <1>2, ArgIn, Zenon
<1>3. QED BY <1>2, Zenon DEF v1, v2

LEMMA Params_ioctl == \A a : (\A i \in 0 .. 5 : a[i] \in HookParams["ioctl"][i + 1]) =>
    /\ a[0] \in Z
    /\ a[1] \in Z
    /\ a[2] \in P(2)
    /\ a[3] \in Z
    /\ a[4] \in Z
    /\ a[5] \in Z
<1>1. HookParams["ioctl"] = <<Z, Z, P(2), Z, Z, Z>>
  BY Zenon DEF HookParams
<1>2. QED BY <1>1, ArgIn, Zenon

LEMMA ReadExact == RowRight("read")
<1>1. syscall_desc["read"] = Hook(3, "post_read_hook")
  BY RowAt, Domain1, Zenon DEF Rows1
<1>2. Name("read") = "read" /\ "read" \in DOMAIN HookParams
  BY Names32, HookNames, Zenon
<1>3. HookExact("read", "read", 3, "post_read_hook")
  <2>1. SUFFICES ASSUME NEW a, NEW m, NEW k, NEW c, Happens("read", "read", a, m, k),
                        Sees(3, c, a, m, k)
        PROVE  Right(post_read_hook(c), k)
    BY Zenon DEF HookExact, Clears
  <2>2. a[1] \in B(1) /\ a[2] \in N
    BY <2>1, Params_read, Zenon DEF Happens
  <2>4. k \in Transfers(a[1], a[2]) \/ k = Failed
    BY <2>1, SMT DEF Happens, HookSuccess
  <2>5. c.ret = k.ret /\ c.arg[1] = a[1]
    BY <2>1, SMT DEF Sees
  <2>6. a[1] \in Nat /\ a[2] \in 0 .. 12 /\ a[1] # Null
    BY <2>2, BufferAt, PtrNat, Small, NullNat, Zenon
  <2>7. (a[1] # Null => Right(ClearRet(c, a[1], 1), k)) /\ (a[1] = Null => Right(None, k))
    BY <2>4, <2>5, <2>6, TransferRight, Zenon
  <2>8. QED BY <2>5, <2>6, <2>7, Zenon DEF post_read_hook
<1>4. QED BY <1>1, <1>2, <1>3, RowExact, Arities, Zenon DEF NoHook

LEMMA ReadlinkExact == RowRight("readlink")
<1>1. syscall_desc["readlink"] = Hook(3, "post_read_hook")
  BY RowAt, Domain2, Zenon DEF Rows2
<1>2. Name("readlink") = "read" /\ "read" \in DOMAIN HookParams
  BY Names32, HookNames, Zenon
<1>3. HookExact("readlink", "read", 3, "post_read_hook")
  <2>1. SUFFICES ASSUME NEW a, NEW m, NEW k, NEW c, Happens("readlink", "read", a, m, k),
                        Sees(3, c, a, m, k)
        PROVE  Right(post_read_hook(c), k)
    BY Zenon DEF HookExact, Clears
  <2>2. a[1] \in B(1) /\ a[2] \in N
    BY <2>1, Params_read, Zenon DEF Happens
  <2>4. k \in Transfers(a[1], a[2]) \/ k = Failed
    BY <2>1, SMT DEF Happens, HookSuccess
  <2>5. c.ret = k.ret /\ c.arg[1] = a[1]
    BY <2>1, SMT DEF Sees
  <2>6. a[1] \in Nat /\ a[2] \in 0 .. 12 /\ a[1] # Null
    BY <2>2, BufferAt, PtrNat, Small, NullNat, Zenon
  <2>7. (a[1] # Null => Right(ClearRet(c, a[1], 1), k)) /\ (a[1] = Null => Right(None, k))
    BY <2>4, <2>5, <2>6, TransferRight, Zenon
  <2>8. QED BY <2>5, <2>6, <2>7, Zenon DEF post_read_hook
<1>4. QED BY <1>1, <1>2, <1>3, RowExact, Arities, Zenon DEF NoHook

LEMMA Pread64Exact == RowRight("pread64")
<1>1. syscall_desc["pread64"] = Hook(4, "post_read_hook")
  BY RowAt, Domain3, Zenon DEF Rows3
<1>2. Name("pread64") = "read" /\ "read" \in DOMAIN HookParams
  BY Names32, HookNames, Zenon
<1>3. HookExact("pread64", "read", 4, "post_read_hook")
  <2>1. SUFFICES ASSUME NEW a, NEW m, NEW k, NEW c, Happens("pread64", "read", a, m, k),
                        Sees(4, c, a, m, k)
        PROVE  Right(post_read_hook(c), k)
    BY Zenon DEF HookExact, Clears
  <2>2. a[1] \in B(1) /\ a[2] \in N
    BY <2>1, Params_read, Zenon DEF Happens
  <2>4. k \in Transfers(a[1], a[2]) \/ k = Failed
    BY <2>1, SMT DEF Happens, HookSuccess
  <2>5. c.ret = k.ret /\ c.arg[1] = a[1]
    BY <2>1, SMT DEF Sees
  <2>6. a[1] \in Nat /\ a[2] \in 0 .. 12 /\ a[1] # Null
    BY <2>2, BufferAt, PtrNat, Small, NullNat, Zenon
  <2>7. (a[1] # Null => Right(ClearRet(c, a[1], 1), k)) /\ (a[1] = Null => Right(None, k))
    BY <2>4, <2>5, <2>6, TransferRight, Zenon
  <2>8. QED BY <2>5, <2>6, <2>7, Zenon DEF post_read_hook
<1>4. QED BY <1>1, <1>2, <1>3, RowExact, Arities, Zenon DEF NoHook

LEMMA Getdents64Exact == RowRight("getdents64")
<1>1. syscall_desc["getdents64"] = Hook(3, "post_getdents_hook")
  BY RowAt, Domain4, Zenon DEF Rows4
<1>2. Name("getdents64") = "read" /\ "read" \in DOMAIN HookParams
  BY Names32, HookNames, Zenon
<1>3. HookExact("getdents64", "read", 3, "post_getdents_hook")
  <2>1. SUFFICES ASSUME NEW a, NEW m, NEW k, NEW c, Happens("getdents64", "read", a, m, k),
                        Sees(3, c, a, m, k)
        PROVE  Right(post_getdents_hook(c), k)
    BY Zenon DEF HookExact, Clears
  <2>2. a[1] \in B(1) /\ a[2] \in N
    BY <2>1, Params_read, Zenon DEF Happens
  <2>4. k \in Transfers(a[1], a[2]) \/ k = Failed
    BY <2>1, SMT DEF Happens, HookSuccess
  <2>5. c.ret = k.ret /\ c.arg[1] = a[1]
    BY <2>1, SMT DEF Sees
  <2>6. a[1] \in Nat /\ a[2] \in 0 .. 12 /\ a[1] # Null
    BY <2>2, BufferAt, PtrNat, Small, NullNat, Zenon
  <2>7. (a[1] # Null => Right(ClearRet(c, a[1], 1), k)) /\ (a[1] = Null => Right(None, k))
    BY <2>4, <2>5, <2>6, TransferRight, Zenon
  <2>8. QED BY <2>5, <2>6, <2>7, Zenon DEF post_getdents_hook
<1>4. QED BY <1>1, <1>2, <1>3, RowExact, Arities, Zenon DEF NoHook

LEMMA LookupDcookieExact == RowRight("lookup_dcookie")
<1>1. syscall_desc["lookup_dcookie"] = Hook(3, "post_lookup_dcookie_hook")
  BY RowAt, Domain4, Zenon DEF Rows4
<1>2. Name("lookup_dcookie") = "read" /\ "read" \in DOMAIN HookParams
  BY Names32, HookNames, Zenon
<1>3. HookExact("lookup_dcookie", "read", 3, "post_lookup_dcookie_hook")
  <2>1. SUFFICES ASSUME NEW a, NEW m, NEW k, NEW c, Happens("lookup_dcookie", "read", a, m, k),
                        Sees(3, c, a, m, k)
        PROVE  Right(post_lookup_dcookie_hook(c), k)
    BY Zenon DEF HookExact, Clears
  <2>2. a[1] \in B(1) /\ a[2] \in N
    BY <2>1, Params_read, Zenon DEF Happens
  <2>4. k \in Transfers(a[1], a[2]) \/ k = Failed
    BY <2>1, SMT DEF Happens, HookSuccess
  <2>5. c.ret = k.ret /\ c.arg[1] = a[1]
    BY <2>1, SMT DEF Sees
  <2>6. a[1] \in Nat /\ a[2] \in 0 .. 12 /\ a[1] # Null
    BY <2>2, BufferAt, PtrNat, Small, NullNat, Zenon
  <2>7. (a[1] # Null => Right(ClearRet(c, a[1], 1), k)) /\ (a[1] = Null => Right(None, k))
    BY <2>4, <2>5, <2>6, TransferRight, Zenon
  <2>8. QED BY <2>5, <2>6, <2>7, Zenon DEF post_lookup_dcookie_hook
<1>4. QED BY <1>1, <1>2, <1>3, RowExact, Arities, Zenon DEF NoHook

LEMMA ModifyLdtExact == RowRight("modify_ldt")
<1>1. syscall_desc["modify_ldt"] = Hook(3, "post_modify_ldt_hook")
  BY RowAt, Domain2, Zenon DEF Rows2
<1>2. Name("modify_ldt") = "read" /\ "read" \in DOMAIN HookParams
  BY Names32, HookNames, Zenon
<1>3. HookExact("modify_ldt", "read", 3, "post_modify_ldt_hook")
  <2>1. SUFFICES ASSUME NEW a, NEW m, NEW k, NEW c, Happens("modify_ldt", "read", a, m, k),
                        Sees(3, c, a, m, k)
        PROVE  Right(post_modify_ldt_hook(c), k)
    BY Zenon DEF HookExact, Clears
  <2>2. a[1] \in B(1) /\ a[2] \in N
    BY <2>1, Params_read, Zenon DEF Happens
  <2>4. k \in Transfers(a[1], a[2]) \/ k = Failed
    BY <2>1, SMT DEF Happens, HookSuccess
  <2>5. c.ret = k.ret /\ c.arg[1] = a[1]
    BY <2>1, SMT DEF Sees
  <2>6. a[1] \in Nat /\ a[2] \in 0 .. 12 /\ a[1] # Null
    BY <2>2, BufferAt, PtrNat, Small, NullNat, Zenon
  <2>7. (a[1] # Null => Right(ClearRet(c, a[1], 1), k)) /\ (a[1] = Null => Right(None, k))
    BY <2>4, <2>5, <2>6, TransferRight, Zenon
  <2>8. QED BY <2>5, <2>6, <2>7, Zenon DEF post_modify_ldt_hook
<1>4. QED BY <1>1, <1>2, <1>3, RowExact, Arities, Zenon DEF NoHook

LEMMA ReadlinkatExact == RowRight("readlinkat")
<1>1. syscall_desc["readlinkat"] = Hook(4, "post_readlinkat_hook")
  BY RowAt, Domain5, Zenon DEF Rows5
<1>2. Name("readlinkat") = "readlinkat" /\ "readlinkat" \in DOMAIN HookParams
  BY Names32, HookNames, Zenon
<1>3. HookExact("readlinkat", "readlinkat", 4, "post_readlinkat_hook")
  <2>1. SUFFICES ASSUME NEW a, NEW m, NEW k, NEW c, Happens("readlinkat", "readlinkat", a, m, k),
                        Sees(4, c, a, m, k)
        PROVE  Right(post_readlinkat_hook(c), k)
    BY Zenon DEF HookExact, Clears
  <2>2. a[2] \in B(2) /\ a[3] \in N
    BY <2>1, Params_readlinkat, Zenon DEF Happens
  <2>4. k \in Transfers(a[2], a[3]) \/ k = Failed
    BY <2>1, SMT DEF Happens, HookSuccess
  <2>5. c.ret = k.ret /\ c.arg[2] = a[2]
    BY <2>1, SMT DEF Sees
  <2>6. a[2] \in Nat /\ a[3] \in 0 .. 12 /\ a[2] # Null
    BY <2>2, BufferAt, PtrNat, Small, NullNat, Zenon
  <2>7. (a[2] # Null => Right(ClearRet(c, a[2], 1), k)) /\ (a[2] = Null => Right(None, k))
    BY <2>4, <2>5, <2>6, TransferRight, Zenon
  <2>8. QED BY <2>5, <2>6, <2>7, Zenon DEF post_readlinkat_hook
<1>4. QED BY <1>1, <1>2, <1>3, RowExact, Arities, Zenon DEF NoHook

LEMMA GetcwdExact == RowRight("getcwd")
<1>1. syscall_desc["getcwd"] = Hook(2, "post_getcwd_hook")
  BY RowAt, Domain3, Zenon DEF Rows3
<1>2. Name("getcwd") = "getcwd" /\ "getcwd" \in DOMAIN HookParams
  BY Names32, HookNames, Zenon
<1>3. HookExact("getcwd", "getcwd", 2, "post_getcwd_hook")
  <2>1. SUFFICES ASSUME NEW a, NEW m, NEW k, NEW c, Happens("getcwd", "getcwd", a, m, k),
                        Sees(2, c, a, m, k)
        PROVE  Right(post_getcwd_hook(c), k)
    BY Zenon DEF HookExact, Clears
  <2>2. a[0] \in B(0) /\ a[1] \in N
    BY <2>1, Params_getcwd, Zenon DEF Happens
  <2>4. k \in Transfers(a[0], a[1]) \/ k = Failed
    BY <2>1, SMT DEF Happens, HookSuccess
  <2>5. c.ret = k.ret /\ c.arg[0] = a[0]
    BY <2>1, SMT DEF Sees
  <2>6. a[0] \in Nat /\ a[1] \in 0 .. 12 /\ a[0] # Null
    BY <2>2, BufferAt, PtrNat, Small, NullNat, Zenon
  <2>7. (a[0] # Null => Right(ClearRet(c, a[0], 1), k)) /\ (a[0] = Null => Right(None, k))
    BY <2>4, <2>5, <2>6, TransferRight, Zenon
  <2>8. QED BY <2>5, <2>6, <2>7, Zenon DEF post_getcwd_hook
<1>4. QED BY <1>1, <1>2, <1>3, RowExact, Arities, Zenon DEF NoHook

LEMMA ListxattrExact == RowRight("listxattr")
<1>1. syscall_desc["listxattr"] = Hook(3, "post_listxattr_hook")
  BY RowAt, Domain4, Zenon DEF Rows4
<1>2. Name("listxattr") = "listxattr" /\ "listxattr" \in DOMAIN HookParams
  BY Names32, HookNames, Zenon
<1>3. HookExact("listxattr", "listxattr", 3, "post_listxattr_hook")
  <2>1. SUFFICES ASSUME NEW a, NEW m, NEW k, NEW c, Happens("listxattr", "listxattr", a, m, k),
                        Sees(3, c, a, m, k)
        PROVE  Right(post_listxattr_hook(c), k)
    BY Zenon DEF HookExact, Clears
  <2>2. a[1] \in P(1) /\ a[2] \in N
    BY <2>1, Params_listxattr, Zenon DEF Happens
  <2>3. a[2] > 0
    BY <2>1, SMT DEF Happens, Foreseen, ExpectedArgs
  <2>4. k \in Transfers(a[1], a[2]) \/ k = Failed
    BY <2>1, <2>3, SMT DEF Happens, HookSuccess, Sized
  <2>5. c.ret = k.ret /\ c.arg[1] = a[1]
    BY <2>1, SMT DEF Sees
  <2>6. a[1] \in Nat /\ a[2] \in 0 .. 12
    BY <2>2, BufferAt, PtrNat, Small, NullNat, Zenon
  <2>7. (a[1] # Null => Right(ClearRet(c, a[1], 1), k)) /\ (a[1] = Null => Right(None, k))
    BY <2>4, <2>5, <2>6, TransferRight, Zenon
  <2>8. QED BY <2>5, <2>6, <2>7, Zenon DEF post_listxattr_hook
<1>4. QED BY <1>1, <1>2, <1>3, RowExact, Arities, Zenon DEF NoHook

LEMMA GetxattrExact == RowRight("getxattr")
<1>1. syscall_desc["getxattr"] = Hook(4, "post_getxattr_hook")
  BY RowAt, Domain4, Zenon DEF Rows4
<1>2. Name("getxattr") = "getxattr" /\ "getxattr" \in DOMAIN HookParams
  BY Names32, HookNames, Zenon
<1>3. HookExact("getxattr", "getxattr", 4, "post_getxattr_hook")
  <2>1. SUFFICES ASSUME NEW a, NEW m, NEW k, NEW c, Happens("getxattr", "getxattr", a, m, k),
                        Sees(4, c, a, m, k)
        PROVE  Right(post_getxattr_hook(c), k)
    BY Zenon DEF HookExact, Clears
  <2>2. a[2] \in P(2) /\ a[3] \in N
    BY <2>1, Params_getxattr, Zenon DEF Happens
  <2>3. a[3] > 0
    BY <2>1, SMT DEF Happens, Foreseen, ExpectedArgs
  <2>4. k \in Transfers(a[2], a[3]) \/ k = Failed
    BY <2>1, <2>3, SMT DEF Happens, HookSuccess, Sized
  <2>5. c.ret = k.ret /\ c.arg[2] = a[2]
    BY <2>1, SMT DEF Sees
  <2>6. a[2] \in Nat /\ a[3] \in 0 .. 12
    BY <2>2, BufferAt, PtrNat, Small, NullNat, Zenon
  <2>7. (a[2] # Null => Right(ClearRet(c, a[2], 1), k)) /\ (a[2] = Null => Right(None, k))
    BY <2>4, <2>5, <2>6, TransferRight, Zenon
  <2>8. QED BY <2>5, <2>6, <2>7, Zenon DEF post_getxattr_hook
<1>4. QED BY <1>1, <1>2, <1>3, RowExact, Arities, Zenon DEF NoHook

-----------------------------------------------------------------------------
(* Calls that return how many structures they wrote *)

LEMMA ClrAt ==
    \A p \in Ptrs \cup {Null}, n \in 0 .. 32 :
        /\ Covers(Clr(p, n), Bytes(p, n))
        /\ Covers(IF p = Null THEN None ELSE Clr(p, n), Bytes(p, n))
<1> SUFFICES ASSUME NEW p \in Ptrs \cup {Null}, NEW n \in 0 .. 32
             PROVE  /\ Covers(Clr(p, n), Bytes(p, n))
                    /\ Covers(IF p = Null THEN None ELSE Clr(p, n), Bytes(p, n))
  OBVIOUS
<1>1. n \in Nat
  OBVIOUS
<1>2. CASE p = Null
  <2>1. Bytes(p, n) = {}
    BY <1>2 DEF Bytes
  <2>2. QED BY <1>2, <2>1, CoversNull, CoversNone
<1>3. CASE p # Null
  <2>1. p \in Nat
    BY NullNat
  <2>2. QED BY <1>1, <1>3, <2>1, CoversClr
<1>4. QED BY <1>2, <1>3

\* An answer of the kernel that is no failure.
LEMMA AnswerValue ==
    ASSUME NEW r \in 0 .. 256, NEW w
    PROVE  /\ Answer(r, w).ret = r /\ Answer(r, w).wrote = w /\ Long(Answer(r, w).ret) = r
           /\ Answer(r, w).ret \in 0 .. Word - 1
BY AnswerIs, Numbers

LEMMA AnswerRight ==
    ASSUME NEW r \in 0 .. 256, NEW w, NEW s, Covers(s, w) PROVE Right(s, Answer(r, w))
BY AnswerValue DEF Right

\* A call that failed.
LEMMA Fails ==
    ASSUME NEW k, NEW c, k = Failed, c.ret = k.ret
    PROVE  /\ Long(c.ret) = -1 /\ Long(c.ret) <= 0 /\ Long(c.ret) < 0 /\ ~(Long(c.ret) >= 0)
           /\ c.ret = Minus1
BY FailedIs

LEMMA ItemsRight ==
    ASSUME NEW p \in Nat, NEW n \in 0 .. 12, NEW unit \in 1 .. 12, NEW k, NEW c, c.ret = k.ret,
           k \in Items(p, n, unit) \/ k = Failed
    PROVE  (p # Null => Right(ClearRet(c, p, unit), k)) /\ (p = Null => Right(None, k))
<1>1. k \in Items(p, n, unit) => \E r \in 0 .. n : k = Answer(r, Bytes(p, unit * r))
  BY DEF Items
<1>2. QED BY <1>1, UnitsRight

LEMMA Units == SHORT \in 1 .. 12 /\ INT \in 1 .. 12 /\ LONG \in 1 .. 12 /\ PAIR \in 1 .. 12
                 /\ STRUCT \in 1 .. 12
               /\ LONG = INT
BY DEF SHORT, INT, LONG, PAIR, STRUCT

LEMMA Getgroups16Exact == RowRight("getgroups16")
<1>1. syscall_desc["getgroups16"] = Hook(2, "post_getgroups16_hook")
  BY RowAt, Domain2, Zenon DEF Rows2
<1>2. Name("getgroups16") = "getgroups16" /\ "getgroups16" \in DOMAIN HookParams
  BY Names32, HookNames, Zenon
<1>3. HookExact("getgroups16", "getgroups16", 2, "post_getgroups16_hook")
  <2>1. SUFFICES ASSUME NEW a, NEW m, NEW k, NEW c, Happens("getgroups16", "getgroups16", a, m, k),
                        Sees(2, c, a, m, k)
        PROVE  Right(post_getgroups16_hook(c), k)
    BY Zenon DEF HookExact, Clears
  <2>2. /\ a[0] \in Vec
        /\ a[1] \in P(1)
    BY <2>1, Params_getgroups16, Zenon DEF Happens
  <2>3. a[0] > 0
    BY <2>1, SMT DEF Happens, Foreseen, ExpectedArgs
  <2>4. k \in Items(a[1], a[0], SHORT) \/ k = Failed
    BY <2>1, <2>2, <2>3, SMT DEF Happens, HookSuccess, Vec
  <2>5. c.ret = k.ret /\ c.arg[1] = a[1]
    BY <2>1, SMT DEF Sees
  <2>6. a[0] \in 0 .. 12
    BY <2>2 DEF Vec
  <2>7. a[1] \in Nat
    BY <2>2, BufferAt, PtrNat, NullNat, Zenon
  <2>8. (a[1] # Null => Right(ClearRet(c, a[1], SHORT), k)) /\ (a[1] = Null => Right(None, k))
    BY <2>4, <2>5, <2>6, <2>7, Units, ItemsRight, Zenon
  <2>9. QED BY <2>5, <2>7, <2>8, Zenon DEF post_getgroups16_hook
<1>4. QED BY <1>1, <1>2, <1>3, RowExact, Arities, Zenon DEF NoHook

LEMMA GetgroupsExact == RowRight("getgroups")
<1>1. syscall_desc["getgroups"] = Hook(2, "post_getgroups_hook")
  BY RowAt, Domain3, Zenon DEF Rows3
<1>2. Name("getgroups") = "getgroups" /\ "getgroups" \in DOMAIN HookParams
  BY Names32, HookNames, Zenon
<1>3. HookExact("getgroups", "getgroups", 2, "post_getgroups_hook")
  <2>1. SUFFICES ASSUME NEW a, NEW m, NEW k, NEW c, Happens("getgroups", "getgroups", a, m, k),
                        Sees(2, c, a, m, k)
        PROVE  Right(post_getgroups_hook(c), k)
    BY Zenon DEF HookExact, Clears
  <2>2. /\ a[0] \in Vec
        /\ a[1] \in P(1)
    BY <2>1, Params_getgroups, Zenon DEF Happens
  <2>3. a[0] > 0
    BY <2>1, SMT DEF Happens, Foreseen, ExpectedArgs
  <2>4. k \in Items(a[1], a[0], INT) \/ k = Failed
    BY <2>1, <2>2, <2>3, SMT DEF Happens, HookSuccess, Vec
  <2>5. c.ret = k.ret /\ c.arg[1] = a[1]
    BY <2>1, SMT DEF Sees
  <2>6. a[0] \in 0 .. 12
    BY <2>2 DEF Vec
  <2>7. a[1] \in Nat
    BY <2>2, BufferAt, PtrNat, NullNat, Zenon
  <2>8. (a[1] # Null => Right(ClearRet(c, a[1], INT), k)) /\ (a[1] = Null => Right(None, k))
    BY <2>4, <2>5, <2>6, <2>7, Units, ItemsRight, Zenon
  <2>9. QED BY <2>5, <2>7, <2>8, Zenon DEF post_getgroups_hook
<1>4. QED BY <1>1, <1>2, <1>3, RowExact, Arities, Zenon DEF NoHook

LEMMA EpollWaitExact == RowRight("epoll_wait")
<1>1. syscall_desc["epoll_wait"] = Hook(4, "post_epoll_wait_hook")
  BY RowAt, Domain4, Zenon DEF Rows4
<1>2. Name("epoll_wait") = "epoll_wait" /\ "epoll_wait" \in DOMAIN HookParams
  BY Names32, HookNames, Zenon
<1>3. HookExact("epoll_wait", "epoll_wait", 4, "post_epoll_wait_hook")
  <2>1. SUFFICES ASSUME NEW a, NEW m, NEW k, NEW c, Happens("epoll_wait", "epoll_wait", a, m, k),
                        Sees(4, c, a, m, k)
        PROVE  Right(post_epoll_wait_hook(c), k)
    BY Zenon DEF HookExact, Clears
  <2>2. /\ a[2] \in {0, 1}
        /\ a[1] \in B(1)
    BY <2>1, Params_epoll_wait, Zenon DEF Happens
  <2>4. k \in Items(a[1], a[2], STRUCT) \/ k = Failed
    BY <2>1, <2>2, SMT DEF Happens, HookSuccess
  <2>5. c.ret = k.ret /\ c.arg[1] = a[1]
    BY <2>1, SMT DEF Sees
  <2>6. a[2] \in 0 .. 12
    BY <2>2 DEF Vec
  <2>7. a[1] \in Nat /\ a[1] # Null
    BY <2>2, BufferAt, PtrNat, NullNat, Zenon
  <2>8. (a[1] # Null => Right(ClearRet(c, a[1], STRUCT), k)) /\ (a[1] = Null => Right(None, k))
    BY <2>4, <2>5, <2>6, <2>7, Units, ItemsRight, Zenon
  <2>9. QED BY <2>5, <2>7, <2>8, Zenon DEF post_epoll_wait_hook
<1>4. QED BY <1>1, <1>2, <1>3, RowExact, Arities, Zenon DEF NoHook

LEMMA EpollPwaitExact == RowRight("epoll_pwait")
<1>1. syscall_desc["epoll_pwait"] = Hook(6, "post_epoll_wait_hook")
  BY RowAt, Domain5, Zenon DEF Rows5
<1>2. Name("epoll_pwait") = "epoll_wait" /\ "epoll_wait" \in DOMAIN HookParams
  BY Names32, HookNames, Zenon
<1>3. HookExact("epoll_pwait", "epoll_wait", 6, "post_epoll_wait_hook")
  <2>1. SUFFICES ASSUME NEW a, NEW m, NEW k, NEW c, Happens("epoll_pwait", "epoll_wait", a, m, k),
                        Sees(6, c, a, m, k)
        PROVE  Right(post_epoll_wait_hook(c), k)
    BY Zenon DEF HookExact, Clears
  <2>2. /\ a[2] \in {0, 1}
        /\ a[1] \in B(1)
    BY <2>1, Params_epoll_wait, Zenon DEF Happens
  <2>4. k \in Items(a[1], a[2], STRUCT) \/ k = Failed
    BY <2>1, <2>2, SMT DEF Happens, HookSuccess
  <2>5. c.ret = k.ret /\ c.arg[1] = a[1]
    BY <2>1, SMT DEF Sees
  <2>6. a[2] \in 0 .. 12
    BY <2>2 DEF Vec
  <2>7. a[1] \in Nat /\ a[1] # Null
    BY <2>2, BufferAt, PtrNat, NullNat, Zenon
  <2>8. (a[1] # Null => Right(ClearRet(c, a[1], STRUCT), k)) /\ (a[1] = Null => Right(None, k))
    BY <2>4, <2>5, <2>6, <2>7, Units, ItemsRight, Zenon
  <2>9. QED BY <2>5, <2>7, <2>8, Zenon DEF post_epoll_wait_hook
<1>4. QED BY <1>1, <1>2, <1>3, RowExact, Arities, Zenon DEF NoHook

LEMMA IoGeteventsExact == RowRight("io_getevents")
<1>1. syscall_desc["io_getevents"] = Hook(5, "post_io_getevents_hook")
  BY RowAt, Domain4, Zenon DEF Rows4
<1>2. Name("io_getevents") = "io_getevents" /\ "io_getevents" \in DOMAIN HookParams
  BY Names32, HookNames, Zenon
<1>3. HookExact("io_getevents", "io_getevents", 5, "post_io_getevents_hook")
  <2>1. SUFFICES ASSUME NEW a, NEW m, NEW k, NEW c, Happens("io_getevents", "io_getevents", a, m, k),
                        Sees(5, c, a, m, k)
        PROVE  Right(post_io_getevents_hook(c), k)
    BY Zenon DEF HookExact, Clears
  <2>2. a[2] \in {0, 1} /\ a[3] \in B(3)
    BY <2>1, Params_io_getevents, Zenon DEF Happens
  <2>3. a[4] = Null
    BY <2>1, SMT DEF Happens, Foreseen, ExpectedArgs
  <2>4. k \in Items(a[3], a[2], STRUCT) \/ k = Failed
    BY <2>1, <2>2, SMT DEF Happens, HookSuccess
  <2>5. c.ret = k.ret /\ c.arg[3] = a[3] /\ c.arg[4] = a[4]
    BY <2>1, SMT DEF Sees
  <2>6. a[2] \in 0 .. 12
    BY <2>2
  <2>7. a[3] \in Nat /\ a[3] # Null
    BY <2>2, BufferAt, PtrNat, Zenon
  <2>8. Right(ClearRet(c, a[3], STRUCT), k)
    BY <2>4, <2>5, <2>6, <2>7, Units, ItemsRight, Zenon
  <2>9. post_io_getevents_hook(c) = IF Long(c.ret) <= 0 THEN None ELSE ClearRet(c, a[3], STRUCT) \o None
    BY <2>3, <2>5, Zenon DEF post_io_getevents_hook, ClearRet
  <2>10. Right(ClearRet(c, a[3], STRUCT) \o None, k)
    <3>1. Covers(ClearRet(c, a[3], STRUCT), k.wrote) /\ k.ret \in 0 .. Word - 1
      BY <2>8, Zenon DEF Right
    <3>2. Covers(ClearRet(c, a[3], STRUCT) \o None, k.wrote \cup {})
      BY <3>1, CoversNone, CoversJoin, Zenon
    <3>3. k.wrote \cup {} = k.wrote
      OBVIOUS
    <3>4. QED BY <3>1, <3>2, <3>3, Zenon DEF Right
  <2>11. QED
    <3>1. CASE Long(c.ret) <= 0
      BY <2>8, <2>9, <3>1, Zenon DEF ClearRet
    <3>2. CASE ~(Long(c.ret) <= 0)
      BY <2>9, <2>10, <3>2, Zenon
    <3>3. QED BY <3>1, <3>2, Zenon
<1>4. QED BY <1>1, <1>2, <1>3, RowExact, Arities, Zenon DEF NoHook

LEMMA MqTimedreceiveExact == RowRight("mq_timedreceive")
<1>1. syscall_desc["mq_timedreceive"] = Hook(5, "post_mq_timedreceive_hook")
  BY RowAt, Domain4, Zenon DEF Rows4
<1>2. Name("mq_timedreceive") = "mq_timedreceive" /\ "mq_timedreceive" \in DOMAIN HookParams
  BY Names32, HookNames, Zenon
<1>3. HookExact("mq_timedreceive", "mq_timedreceive", 5, "post_mq_timedreceive_hook")
  <2>1. SUFFICES ASSUME NEW a, NEW m, NEW k, NEW c, Happens("mq_timedreceive", "mq_timedreceive", a, m, k),
                        Sees(5, c, a, m, k)
        PROVE  Right(post_mq_timedreceive_hook(c), k)
    BY Zenon DEF HookExact, Clears
  <2>2. a[1] \in B(1) /\ a[2] \in N /\ a[3] \in P(3)
    BY <2>1, Params_mq_timedreceive, Zenon DEF Happens
  <2>3. k.ret # 0
    BY <2>1, SMT DEF Happens, Foreseen, Reads
  <2>4. (\E r \in {0, a[2]} : k = Answer(r, Bytes(a[1], r) \cup Bytes(a[3], INT))) \/ k = Failed
    BY <2>1, SMT DEF Happens, HookSuccess
  <2>5. c.ret = k.ret /\ c.arg[1] = a[1] /\ c.arg[3] = a[3]
    BY <2>1, SMT DEF Sees
  <2>6. a[1] \in Ptrs \cup {Null} /\ a[3] \in Ptrs \cup {Null} /\ a[2] \in 0 .. 12
    BY <2>2, BufferAt, Small, SMT
  <2>7. CASE k = Failed
    BY <2>5, <2>7, Fails, FailedRight, Zenon DEF post_mq_timedreceive_hook
  <2>8. CASE k # Failed
    <3> DEFINE w == Bytes(a[1], a[2]) \cup Bytes(a[3], INT)
    <3>1. k = Answer(a[2], w)
      BY <2>3, <2>4, <2>8, AnswerIs
    <3>2. a[2] \in 0 .. 256 /\ a[2] \in 0 .. 32 /\ LONG \in 0 .. 32
      BY <2>6, Units
    <3>3. k.ret = a[2] /\ Long(k.ret) = a[2]
      <4> HIDE DEF w
      <4>1. QED BY <3>1, <3>2, AnswerValue, SMT
    <3>4. Covers(Clr(a[1], a[2]) \o IF a[3] = Null THEN None ELSE Clr(a[3], LONG),
                 Bytes(a[1], a[2]) \cup Bytes(a[3], LONG))
      BY <2>6, <3>2, ClrAt, CoversJoin, Zenon
    <3>5. ~(Long(c.ret) <= 0)
      BY <2>3, <2>5, <2>6, <3>3
    <3>6. post_mq_timedreceive_hook(c) = Clr(a[1], a[2]) \o IF a[3] = Null THEN None ELSE Clr(a[3], LONG)
      BY <2>5, <3>3, <3>5, Zenon DEF post_mq_timedreceive_hook
    <3>7. Covers(post_mq_timedreceive_hook(c), w)
      BY <3>4, <3>6, Units, Zenon
    <3> HIDE DEF w
    <3>8. QED BY <3>1, <3>2, <3>7, AnswerRight, Zenon
  <2>9. QED BY <2>7, <2>8, Zenon
<1>4. QED BY <1>1, <1>2, <1>3, RowExact, Arities, Zenon DEF NoHook

LEMMA SyslogExact == RowRight("syslog")
<1>1. syscall_desc["syslog"] = Hook(3, "post_syslog_hook")
  BY RowAt, Domain2, Zenon DEF Rows2
<1>2. Name("syslog") = "syslog" /\ "syslog" \in DOMAIN HookParams
  BY Names32, HookNames, Zenon
<1>3. HookExact("syslog", "syslog", 3, "post_syslog_hook")
  <2>1. SUFFICES ASSUME NEW a, NEW m, NEW k, NEW c, Happens("syslog", "syslog", a, m, k),
                        Sees(3, c, a, m, k)
        PROVE  Right(post_syslog_hook(c), k)
    BY Zenon DEF HookExact, Clears
  <2>2. a[1] \in B(1) /\ a[2] \in N
    BY <2>1, Params_syslog, Zenon DEF Happens
  <2>3. a[0] = 2 \/ a[0] = 10
    BY <2>1, Params_syslog DEF Happens
  <2>4. c.ret = k.ret /\ c.arg[0] = a[0] /\ c.arg[1] = a[1]
    BY <2>1, SMT DEF Sees
  <2>5. a[1] \in Nat /\ a[1] # Null /\ a[2] \in 0 .. 12
    BY <2>2, BufferAt, PtrNat, Small, Zenon
  <2>6. CASE a[0] = 2
    <3>1. k \in Transfers(a[1], a[2]) \/ k = Failed
      BY <2>1, <2>6, SMT DEF Happens, HookSuccess
    <3>2. Right(ClearRet(c, a[1], 1), k)
      BY <2>4, <2>5, <3>1, TransferRight, Zenon
    <3>3. post_syslog_hook(c) = ClearRet(c, a[1], 1)
      BY <2>4, <2>6 DEF post_syslog_hook
    <3>4. QED BY <3>2, <3>3, Zenon
  <2>7. CASE a[0] = 10
    <3>1. k = Answer(a[2], {}) \/ k = Failed
      BY <2>1, <2>7, SMT DEF Happens, HookSuccess
    <3>2. post_syslog_hook(c) = None
      BY <2>4, <2>7 DEF post_syslog_hook
    <3>3. a[2] \in 0 .. 256
      BY <2>5
    <3>4. Right(None, Answer(a[2], {}))
      BY <3>3, AnswerRight, CoversNone, Zenon
    <3>5. QED BY <3>1, <3>2, <3>4, FailedRight, Zenon
  <2>8. QED BY <2>3, <2>6, <2>7, Zenon
<1>4. QED BY <1>1, <1>2, <1>3, RowExact, Arities, Zenon DEF NoHook

-----------------------------------------------------------------------------
(* Calls with one answer, and what a hook clears after it *)

LEMMA OneAnswer ==
    ASSUME NEW r \in 0 .. 256, NEW w, NEW s, Covers(s, w), NEW k, NEW c, c.ret = k.ret,
           k = Answer(r, w) \/ k = Failed, NEW h,
           Long(c.ret) = -1 /\ c.ret = Minus1 => h = None,
           Long(c.ret) = r /\ c.ret = r => h = s
    PROVE  Right(h, k)
<1>1. CASE k = Failed
  BY <1>1, Fails, FailedRight
<1>2. CASE k = Answer(r, w)
  <2>1. c.ret = r /\ Long(c.ret) = r
    BY <1>2, AnswerValue
  <2>2. Right(s, k)
    BY <1>2, AnswerRight
  <2>3. QED BY <2>1, <2>2
<1>3. QED BY <1>1, <1>2

LEMMA MincoreExact == RowRight("mincore")
<1>1. syscall_desc["mincore"] = Hook(3, "post_mincore_hook")
  BY RowAt, Domain4, Zenon DEF Rows4
<1>2. Name("mincore") = "mincore" /\ "mincore" \in DOMAIN HookParams
  BY Names32, HookNames, Zenon
<1>3. HookExact("mincore", "mincore", 3, "post_mincore_hook")
  <2>1. SUFFICES ASSUME NEW a, NEW m, NEW k, NEW c, Happens("mincore", "mincore", a, m, k),
                        Sees(3, c, a, m, k)
        PROVE  Right(post_mincore_hook(c), k)
    BY Zenon DEF HookExact, Clears
  <2>2. a[1] \in {1, PAGE_SZ + 1} /\ a[2] \in B(2)
    BY <2>1, Params_mincore, Zenon DEF Happens
  <2>3. c.ret = k.ret /\ c.arg[1] = a[1] /\ c.arg[2] = a[2]
    BY <2>1, SMT DEF Sees
  <2>4. a[2] \in Ptrs
    BY <2>2, BufferAt, Zenon
  <2>5. (a[1] + PAGE_SZ - 1) \div PAGE_SZ \in 0 .. 32
    BY <2>2 DEF PAGE_SZ
  <2> DEFINE n == (a[1] + PAGE_SZ - 1) \div PAGE_SZ
             w == Bytes(a[2], n)
             s == Clr(a[2], n)
  <2>6. k = Answer(0, w) \/ k = Failed
    BY <2>1, SMT DEF Happens, HookSuccess, Ceil
  <2>7. Covers(s, w)
    BY <2>4, <2>5, ClrAt, Zenon
  <2>8. post_mincore_hook(c) = IF Long(c.ret) < 0 THEN None ELSE s
    BY <2>3, Zenon DEF post_mincore_hook
  <2> HIDE DEF w, s
  <2>9. QED BY <2>3, <2>6, <2>7, <2>8, OneAnswer
<1>4. QED BY <1>1, <1>2, <1>3, RowExact, Arities, Zenon DEF NoHook

LEMMA RtSigpendingExact == RowRight("rt_sigpending")
<1>1. syscall_desc["rt_sigpending"] = Hook(2, "post_rt_sigpending_hook")
  BY RowAt, Domain3, Zenon DEF Rows3
<1>2. Name("rt_sigpending") = "rt_sigpending" /\ "rt_sigpending" \in DOMAIN HookParams
  BY Names32, HookNames, Zenon
<1>3. HookExact("rt_sigpending", "rt_sigpending", 2, "post_rt_sigpending_hook")
  <2>1. SUFFICES ASSUME NEW a, NEW m, NEW k, NEW c, Happens("rt_sigpending", "rt_sigpending", a, m, k),
                        Sees(2, c, a, m, k)
        PROVE  Right(post_rt_sigpending_hook(c), k)
    BY Zenon DEF HookExact, Clears
  <2>2. a[0] \in B(0) /\ a[1] \in N
    BY <2>1, Params_rt_sigpending, Zenon DEF Happens
  <2>3. c.ret = k.ret /\ c.arg[0] = a[0] /\ c.arg[1] = a[1]
    BY <2>1, SMT DEF Sees
  <2>4. a[0] \in Ptrs /\ a[1] \in 0 .. 12
    BY <2>2, BufferAt, Small, Zenon
  <2>5. a[1] \in 0 .. 32
    BY <2>4
  <2> DEFINE w == Bytes(a[0], a[1])
             s == Clr(a[0], a[1])
  <2>6. k = Answer(0, w) \/ k = Failed
    BY <2>1, SMT DEF Happens, HookSuccess
  <2>7. Covers(s, w)
    BY <2>4, <2>5, ClrAt, Zenon
  <2>8. post_rt_sigpending_hook(c) = IF Long(c.ret) < 0 THEN None ELSE s
    BY <2>3, Zenon DEF post_rt_sigpending_hook
  <2> HIDE DEF w, s
  <2>9. QED BY <2>3, <2>6, <2>7, <2>8, OneAnswer
<1>4. QED BY <1>1, <1>2, <1>3, RowExact, Arities, Zenon DEF NoHook

LEMMA FcntlExact == RowRight("fcntl")
<1>1. syscall_desc["fcntl"] = Hook(3, "post_fcntl_hook")
  BY RowAt, Domain1, Zenon DEF Rows1
<1>2. Name("fcntl") = "fcntl" /\ "fcntl" \in DOMAIN HookParams
  BY Names32, HookNames, Zenon
<1>3. HookExact("fcntl", "fcntl", 3, "post_fcntl_hook")
  <2>1. SUFFICES ASSUME NEW a, NEW m, NEW k, NEW c, Happens("fcntl", "fcntl", a, m, k),
                        Sees(3, c, a, m, k)
        PROVE  Right(post_fcntl_hook(c), k)
    BY Zenon DEF HookExact, Clears
  <2>2. a[2] \in P(2)
    BY <2>1, Params_fcntl, Zenon DEF Happens
  <2>3. c.ret = k.ret /\ c.arg[1] = a[1] /\ c.arg[2] = a[2]
    BY <2>1, SMT DEF Sees
  <2>4. a[2] \in Ptrs \cup {Null} /\ STRUCT \in 0 .. 32
    BY <2>2, BufferAt, Units
  <2> DEFINE lock == a[1] = F.GETLK
             w == IF lock THEN Bytes(a[2], STRUCT) ELSE {}
             s == IF lock THEN Clr(a[2], STRUCT) ELSE None
  <2>5. k = Answer(0, w) \/ k = Failed
    BY <2>1, SMT DEF Happens, HookSuccess
  <2>6. Covers(s, w)
    BY <2>4, ClrAt, CoversNone, Zenon
  <2>7. post_fcntl_hook(c) = IF Long(c.ret) >= 0 THEN s ELSE None
    BY <2>3, Zenon DEF post_fcntl_hook
  <2> HIDE DEF w, s
  <2>8. QED BY <2>3, <2>5, <2>6, <2>7, OneAnswer
<1>4. QED BY <1>1, <1>2, <1>3, RowExact, Arities, Zenon DEF NoHook

LEMMA Fcntl64Exact == RowRight("fcntl64")
<1>1. syscall_desc["fcntl64"] = Hook(3, "post_fcntl_hook")
  BY RowAt, Domain4, Zenon DEF Rows4
<1>2. Name("fcntl64") = "fcntl" /\ "fcntl" \in DOMAIN HookParams
  BY Names32, HookNames, Zenon
<1>3. HookExact("fcntl64", "fcntl", 3, "post_fcntl_hook")
  <2>1. SUFFICES ASSUME NEW a, NEW m, NEW k, NEW c, Happens("fcntl64", "fcntl", a, m, k),
                        Sees(3, c, a, m, k)
        PROVE  Right(post_fcntl_hook(c), k)
    BY Zenon DEF HookExact, Clears
  <2>2. a[2] \in P(2)
    BY <2>1, Params_fcntl, Zenon DEF Happens
  <2>3. c.ret = k.ret /\ c.arg[1] = a[1] /\ c.arg[2] = a[2]
    BY <2>1, SMT DEF Sees
  <2>4. a[2] \in Ptrs \cup {Null} /\ STRUCT \in 0 .. 32
    BY <2>2, BufferAt, Units
  <2> DEFINE lock == a[1] = F.GETLK
             w == IF lock THEN Bytes(a[2], STRUCT) ELSE {}
             s == IF lock THEN Clr(a[2], STRUCT) ELSE None
  <2>5. k = Answer(0, w) \/ k = Failed
    BY <2>1, SMT DEF Happens, HookSuccess
  <2>6. Covers(s, w)
    BY <2>4, ClrAt, CoversNone, Zenon
  <2>7. post_fcntl_hook(c) = IF Long(c.ret) >= 0 THEN s ELSE None
    BY <2>3, Zenon DEF post_fcntl_hook
  <2> HIDE DEF w, s
  <2>8. QED BY <2>3, <2>5, <2>6, <2>7, OneAnswer
<1>4. QED BY <1>1, <1>2, <1>3, RowExact, Arities, Zenon DEF NoHook

LEMMA QuotactlExact == RowRight("quotactl")
<1>1. syscall_desc["quotactl"] = Hook(4, "post_quotactl_hook")
  BY RowAt, Domain2, Zenon DEF Rows2
<1>2. Name("quotactl") = "quotactl" /\ "quotactl" \in DOMAIN HookParams
  BY Names32, HookNames, Zenon
<1>3. HookExact("quotactl", "quotactl", 4, "post_quotactl_hook")
  <2>1. SUFFICES ASSUME NEW a, NEW m, NEW k, NEW c, Happens("quotactl", "quotactl", a, m, k),
                        Sees(4, c, a, m, k)
        PROVE  Right(post_quotactl_hook(c), k)
    BY Zenon DEF HookExact, Clears
  <2>2. a[0] = QCMD(Q.SETQUOTA, 0)
    <3>1. a[0] \in {QCMD(Q.GETQUOTA, 0), QCMD(Q.SETQUOTA, 0)}
      BY <2>1, Params_quotactl, Zenon DEF Happens
    <3>2. a[0] # QCMD(Q.GETQUOTA, 0)
      BY <2>1, SMT DEF Happens, Foreseen, ExpectedArgs
    <3>3. QED BY <3>1, <3>2
  <2>3. c.ret = k.ret /\ c.arg[0] = a[0]
    BY <2>1, SMT DEF Sees
  <2>4. QCMD(Q.GETQUOTA, 0) = 4 /\ QCMD(Q.SETQUOTA, 0) = 8 /\ Q.GETQUOTA = 1
    BY DEF QCMD, Q
  <2>5. k = Answer(0, {}) \/ k = Failed
    <3>1. a[0] # QCMD(Q.GETQUOTA, 0)
      BY <2>2, <2>4
    <3>2. QED BY <2>1, <3>1, SMT DEF Happens, HookSuccess
  <2>6. post_quotactl_hook(c) = None
    BY <2>2, <2>3, <2>4, SMT DEF post_quotactl_hook
  <2>7. 0 \in 0 .. 256
    OBVIOUS
  <2>8. QED BY <2>3, <2>5, <2>6, <2>7, CoversNone, OneAnswer
<1>4. QED BY <1>1, <1>2, <1>3, RowExact, Arities, Zenon DEF NoHook

LEMMA Mmap2Exact == RowRight("mmap2")
<1>1. syscall_desc["mmap2"] = Hook(6, "post_mmap_hook")
  BY RowAt, Domain3, Zenon DEF Rows3
<1>2. Name("mmap2") = "mmap2" /\ "mmap2" \in DOMAIN HookParams
  BY Names32, HookNames, Zenon
<1>3. HookExact("mmap2", "mmap2", 6, "post_mmap_hook")
  <2>1. SUFFICES ASSUME NEW a, NEW m, NEW k, NEW c, Happens("mmap2", "mmap2", a, m, k),
                        Sees(6, c, a, m, k)
        PROVE  Right(post_mmap_hook(c), k)
    BY Zenon DEF HookExact, Clears
  <2>2. a[1] \in {1, PAGE_SZ, PAGE_SZ + 1}
    BY <2>1, Params_mmap2, Zenon DEF Happens
  <2>3. a[1] % PAGE_SZ # 0 /\ a[3] = 0
    BY <2>1, SMT DEF Happens, Foreseen, ExpectedArgs
  <2>4. c.ret = k.ret /\ c.arg[1] = a[1] /\ c.arg[3] = a[3]
    BY <2>1, SMT DEF Sees
  <2> DEFINE n == PAGE_SZ * Ceil(a[1], PAGE_SZ)
             w == Bytes(Page, n)
             s == Clr(Page, n)
  <2>5. k = Answer(Page, w) \/ k = Failed
    BY <2>1, SMT DEF Happens, HookSuccess
  <2>6. n = (IF a[1] < PAGE_SZ THEN PAGE_SZ ELSE a[1] + PAGE_SZ - (a[1] % PAGE_SZ)) /\ n \in Nat
    BY <2>2, <2>3 DEF PAGE_SZ, Ceil
  <2>7. Page \in 0 .. 256 /\ Page \in Nat /\ Page # Null
    BY DEF Page, PAGE_SZ, Null
  <2>8. Covers(s, w)
    BY <2>6, <2>7, CoversClr, Zenon
  <2>9. post_mmap_hook(c) = IF c.ret = Minus1 THEN None ELSE Clr(c.ret, n)
    BY <2>3, <2>4, <2>6, SMT DEF post_mmap_hook
  <2>10. Minus1 # Page
    BY <2>7, Syscalls32Assumption DEF Minus1
  <2>11. c.ret = Page => post_mmap_hook(c) = s
    BY <2>9, <2>10
  <2>12. c.ret = Minus1 => post_mmap_hook(c) = None
    BY <2>9
  <2> DEFINE h == post_mmap_hook(c)
  <2>13. (c.ret = Page => h = s) /\ (c.ret = Minus1 => h = None)
    BY <2>11, <2>12, Zenon
  <2> HIDE DEF w, s, n, h
  <2>14. c.ret = k.ret /\ (k = Answer(Page, w) \/ k = Failed) /\ Page \in 0 .. 256
    BY <2>4, <2>5, <2>7
  <2>15. Right(h, k)
    BY <2>8, <2>13, <2>14, OneAnswer
  <2>16. QED BY <2>15 DEF h
<1>4. QED BY <1>1, <1>2, <1>3, RowExact, Arities, Zenon DEF NoHook

LEMMA OldMmapExact == RowRight("old_mmap")
<1>1. syscall_desc["old_mmap"] = Hook(6, "post_mmap_hook")
  BY RowAt, Domain2, Zenon DEF Rows2
<1>2. Name("old_mmap") = "old_mmap" /\ "old_mmap" \in DOMAIN HookParams
  BY Names32, HookNames, Zenon
<1>3. HookExact("old_mmap", "old_mmap", 6, "post_mmap_hook")
  <2>1. SUFFICES ASSUME NEW a, NEW m, NEW k, NEW c, Happens("old_mmap", "old_mmap", a, m, k),
                        Sees(6, c, a, m, k)
        PROVE  Right(post_mmap_hook(c), k)
    BY Zenon DEF HookExact, Clears
  <2>2. a[1] \in {0, PAGE_SZ + 1} /\ a[3] = 0
    BY <2>1, Params_old_mmap DEF Happens, Z
  <2>3. a[1] < PAGE_SZ /\ m.len < PAGE_SZ
    BY <2>1, SMT DEF Happens, Foreseen, ExpectedArgs
  <2>4. m.len = 1
    <3>1. m \in {Mem(ZeroArgs, <<>>, Null, Null, n, Null) : n \in {1, PAGE_SZ + 1}}
      BY <2>1, SMT DEF Happens, Mems
    <3>2. m.len \in {1, PAGE_SZ + 1}
      BY <3>1 DEF Mem
    <3>3. QED BY <2>3, <3>2 DEF PAGE_SZ
  <2>5. c.ret = k.ret /\ c.arg[1] = a[1] /\ c.arg[3] = a[3]
    BY <2>1, SMT DEF Sees
  <2> DEFINE w == Bytes(Page, PAGE_SZ)
             s == Clr(Page, PAGE_SZ)
  <2>6. k = Answer(Page, w) \/ k = Failed
    <3>1. PAGE_SZ * Ceil(m.len, PAGE_SZ) = PAGE_SZ
      BY <2>4 DEF PAGE_SZ, Ceil
    <3>2. k = Answer(Page, Bytes(Page, PAGE_SZ * Ceil(m.len, PAGE_SZ))) \/ k = Failed
      BY <2>1, SMT DEF Happens, HookSuccess
    <3>3. QED BY <3>1, <3>2
  <2>7. Page \in 0 .. 256 /\ Page \in Nat /\ Page # Null /\ PAGE_SZ \in Nat
    BY DEF Page, PAGE_SZ, Null
  <2>8. Covers(s, w)
    BY <2>7, CoversClr, Zenon
  <2>9. post_mmap_hook(c) = IF c.ret = Minus1 THEN None ELSE Clr(c.ret, PAGE_SZ)
    BY <2>2, <2>3, <2>5, SMT DEF post_mmap_hook
  <2>10. Minus1 # Page
    BY <2>7, Syscalls32Assumption DEF Minus1
  <2> DEFINE h == post_mmap_hook(c)
  <2>11. (c.ret = Page => h = s) /\ (c.ret = Minus1 => h = None)
    BY <2>9, <2>10
  <2> HIDE DEF w, s, h
  <2>12. c.ret = k.ret /\ (k = Answer(Page, w) \/ k = Failed) /\ Page \in 0 .. 256
    BY <2>5, <2>6, <2>7
  <2>13. Right(h, k)
    BY <2>8, <2>11, <2>12, OneAnswer
  <2>14. QED BY <2>13 DEF h
<1>4. QED BY <1>1, <1>2, <1>3, RowExact, Arities, Zenon DEF NoHook

-----------------------------------------------------------------------------
(* Calls that fill several buffers *)

\* The memory of a program, and an answer with a length.
LEMMA MemIs ==
    \A args, iov, name, control, len, word :
        LET m == Mem(args, iov, name, control, len, word)
        IN  /\ m.args = args /\ m.iov = iov /\ m.name = name /\ m.control = control
            /\ m.len = len /\ m.word = word
BY DEF Mem

LEMMA AnswerMsgIs ==
    \A ret, r, l, n, w :
        LET k == AnswerMsg(ret, r, l, n, w)
        IN  k.ret = ret /\ k.mlen = r /\ k.olen = l /\ k.clen = n /\ k.wrote = w
BY DEF AnswerMsg

\* The hook of a call that was answered with one or more.
LEMMA RightOf ==
    ASSUME NEW h, NEW k, Covers(h, k.wrote), k.ret \in 0 .. 256 PROVE Right(h, k)
BY Numbers DEF Right

LEMMA GetMempolicyExact == RowRight("get_mempolicy")
<1>1. syscall_desc["get_mempolicy"] = Hook(5, "post_get_mempolicy_hook")
  BY RowAt, Domain4, Zenon DEF Rows4
<1>2. Name("get_mempolicy") = "get_mempolicy" /\ "get_mempolicy" \in DOMAIN HookParams
  BY Names32, HookNames, Zenon
<1>3. HookExact("get_mempolicy", "get_mempolicy", 5, "post_get_mempolicy_hook")
  <2>1. SUFFICES ASSUME NEW a, NEW m, NEW k, NEW c, Happens("get_mempolicy", "get_mempolicy", a, m, k),
                        Sees(5, c, a, m, k)
        PROVE  Right(post_get_mempolicy_hook(c), k)
    BY Zenon DEF HookExact, Clears
  <2>2. a[0] \in P(0) /\ a[1] \in P(1) /\ a[4] \in 0 .. 4
    BY <2>1, Params_get_mempolicy, Zenon DEF Happens
  <2>3. c.ret = k.ret /\ c.arg[0] = a[0] /\ c.arg[1] = a[1] /\ c.arg[4] = a[4]
    BY <2>1, SMT DEF Sees
  <2>4. /\ a[0] \in Ptrs \cup {Null} /\ a[1] \in Ptrs \cup {Null}
        /\ INT \in 0 .. 32 /\ LONG \in 0 .. 32
    BY <2>2, BufferAt, Units
  <2> DEFINE fst == Bytes(a[0], INT)
             snd == Bytes(a[1], LONG)
             mode == Clr(a[0], INT)
             nodes == Clr(a[1], LONG)
             mode0 == IF a[0] = Null THEN None ELSE mode
             nodes0 == IF a[1] = Null THEN None ELSE nodes
             flags == a[4]
             addrOnly == Bit(flags, MPOL_F.ADDR) /\ ~Bit(flags, MPOL_F.NODE)
             s == IF flags = 0 THEN mode \o nodes
                  ELSE IF Bit(flags, MPOL_F.MEMS_ALLOWED) THEN nodes
                  ELSE IF addrOnly THEN mode0 \o nodes0
                  ELSE IF Bit(flags, MPOL_F.NODE) THEN mode ELSE None
  <2>5. post_get_mempolicy_hook(c) = IF Long(c.ret) < 0 THEN None ELSE s
    BY <2>3, Zenon DEF post_get_mempolicy_hook
  <2>6. /\ Covers(mode, fst) /\ Covers(mode0, fst) /\ Covers(nodes, snd) /\ Covers(nodes0, snd)
    BY <2>4, ClrAt, Zenon
  <2>7. Covers(mode \o nodes, fst \cup snd) /\ Covers(mode0 \o nodes0, fst \cup snd)
    <3> HIDE DEF mode, nodes, mode0, nodes0, fst, snd
    <3>1. QED BY <2>6, CoversJoin
  <2>8. (Bit(flags, 4) => fst = {}) /\ (Bit(flags, 1) => snd = {})
    <3>1. (Bit(flags, 4) => a[0] = Null) /\ (Bit(flags, 1) => a[1] = Null)
      BY <2>1, SMT DEF Happens, Foreseen, ExpectedArgs, MPOL_F
    <3>2. QED BY <3>1 DEF Bytes
  <2>9. Covers(s, fst \cup snd)
    <3> HIDE DEF mode, nodes, mode0, nodes0, fst, snd
    <3>1. MPOL_F.ADDR = 2 /\ MPOL_F.NODE = 1 /\ MPOL_F.MEMS_ALLOWED = 4
      BY DEF MPOL_F
    <3>2. CASE flags = 0
      BY <2>7, <3>2
    <3>3. CASE flags = 4
      <4>1. Bit(flags, 4) /\ fst \cup snd = snd
        BY <2>8, <3>3 DEF Bit
      <4>2. s = nodes
        BY <3>1, <3>3, <4>1
      <4>3. QED BY <2>6, <4>1, <4>2
    <3>4. CASE flags = 2
      <4>1. ~Bit(flags, 4) /\ ~Bit(flags, 1) /\ Bit(flags, 2)
        BY <3>4 DEF Bit
      <4>2. QED BY <2>7, <3>1, <3>4, <4>1
    <3>5. CASE flags \in {1, 3}
      <4>1. ~Bit(flags, 4) /\ Bit(flags, 1)
        BY <3>5 DEF Bit
      <4>2. fst \cup snd = fst
        BY <2>8, <4>1
      <4>3. s = mode
        BY <3>1, <3>5, <4>1
      <4>4. QED BY <2>6, <4>2, <4>3
    <3>6. QED BY <2>2, <3>2, <3>3, <3>4, <3>5
  <2>10. k = Answer(0, fst \cup snd) \/ k = Failed
    BY <2>1, SMT DEF Happens, HookSuccess
  <2>11. 0 \in 0 .. 256
    OBVIOUS
  <2> HIDE DEF fst, snd, s
  <2>12. QED BY <2>3, <2>5, <2>9, <2>10, <2>11, OneAnswer
<1>4. QED BY <1>1, <1>2, <1>3, RowExact, Arities, Zenon DEF NoHook

LEMMA PollExact == RowRight("poll")
<1>1. syscall_desc["poll"] = Hook(3, "post_poll_hook")
  BY RowAt, Domain3, Zenon DEF Rows3
<1>2. Name("poll") = "poll" /\ "poll" \in DOMAIN HookParams
  BY Names32, HookNames, Zenon
<1>3. HookExact("poll", "poll", 3, "post_poll_hook")
  <2>1. SUFFICES ASSUME NEW a, NEW m, NEW k, NEW c, Happens("poll", "poll", a, m, k),
                        Sees(3, c, a, m, k)
        PROVE  Right(post_poll_hook(c), k)
    BY Zenon DEF HookExact, Clears
  <2>2. a[0] \in B(0) /\ a[1] \in 0 .. 2
    BY <2>1, Params_poll DEF Happens, Vec
  <2>3. c.ret = k.ret /\ c.arg[0] = a[0] /\ c.arg[1] = a[1]
    BY <2>1, SMT DEF Sees
  <2>4. k.ret # 0
    BY <2>1, SMT DEF Happens, Foreseen, Reads
  <2> DEFINE n == a[1]
             s == [i \in 1 .. n |-> Clr(a[0] + PAIR * (i - 1) + 6, SHORT)]
             w == [i \in 1 .. n |-> Bytes(a[0] + PAIR * (i - 1) + 6, SHORT)]
             wrote == UNION {Bytes(a[0] + PAIR * i + 6, SHORT) : i \in 0 .. n - 1}
  <2>5. (\E r \in 0 .. n : k = Answer(r, wrote)) \/ k = Failed
    <3>1. HookSuccess("poll", a, m) = {Answer(r, wrote) : r \in 0 .. n}
      BY Zenon DEF HookSuccess
    <3>2. k \in HookSuccess("poll", a, m) \cup {Failed}
      BY <2>1, Zenon DEF Happens
    <3> HIDE DEF wrote, n
    <3>3. QED BY <3>1, <3>2
  <2>6. a[0] \in Ptrs /\ SHORT \in Nat
    BY <2>2, BufferAt, Units
  <2>7. \A i \in 1 .. n : Covers(s[i], w[i])
    <3>1. ASSUME NEW i \in 1 .. n PROVE Covers(s[i], w[i])
      <4>1. a[0] + PAIR * (i - 1) + 6 \in Nat /\ a[0] + PAIR * (i - 1) + 6 # Null
        BY <2>2, <2>6 DEF Ptrs, PAIR, Null
      <4>2. Covers(Clr(a[0] + PAIR * (i - 1) + 6, SHORT), Bytes(a[0] + PAIR * (i - 1) + 6, SHORT))
        BY <2>6, <4>1, CoversClr, Zenon
      <4>3. QED BY <4>2, Zenon
    <3>2. QED BY <3>1
  <2>8. Pieces(w, n) = wrote
    <3>1. \A i \in 1 .. n : i - 1 \in 0 .. n - 1 /\ PAIR * (i - 1) = PAIR * (i - 1)
      BY <2>2
    <3>2. \A i \in 0 .. n - 1 : i + 1 \in 1 .. n /\ (i + 1) - 1 = i
      BY <2>2
    <3>3. \A i \in 1 .. n : w[i] \subseteq wrote
      BY <3>1
    <3>4. \A i \in 0 .. n - 1 : Bytes(a[0] + PAIR * i + 6, SHORT) = w[i + 1]
      BY <3>2
    <3> HIDE DEF w
    <3>5. QED BY <3>2, <3>3, <3>4 DEF Pieces
  <2>9. Covers(Each(s, n), wrote)
    <3> HIDE DEF s, w, wrote
    <3>1. QED BY <2>2, <2>7, <2>8, CoversEach
  <2>10. post_poll_hook(c) = IF Long(c.ret) <= 0 THEN None ELSE Each(s, n)
    BY <2>3, Zenon DEF post_poll_hook
  <2>11. CASE k = Failed
    BY <2>3, <2>10, <2>11, Fails, FailedRight
  <2>12. ASSUME NEW r \in 0 .. n, k = Answer(r, wrote) PROVE Right(post_poll_hook(c), k)
    <3> HIDE DEF s, wrote
    <3>1. r \in 0 .. 256
      BY <2>2
    <3>2. k.ret = r /\ k.wrote = wrote /\ Long(k.ret) = r
      BY <2>12, <3>1, AnswerValue
    <3>3. ~(Long(c.ret) <= 0)
      BY <2>3, <2>4, <3>1, <3>2
    <3>4. QED BY <2>9, <2>10, <3>1, <3>2, <3>3, RightOf
  <2>13. QED BY <2>5, <2>11, <2>12, Zenon
<1>4. QED BY <1>1, <1>2, <1>3, RowExact, Arities, Zenon DEF NoHook

LEMMA PpollExact == RowRight("ppoll")
<1>1. syscall_desc["ppoll"] = Hook(5, "post_poll_hook")
  BY RowAt, Domain5, Zenon DEF Rows5
<1>2. Name("ppoll") = "poll" /\ "poll" \in DOMAIN HookParams
  BY Names32, HookNames, Zenon
<1>3. HookExact("ppoll", "poll", 5, "post_poll_hook")
  <2>1. SUFFICES ASSUME NEW a, NEW m, NEW k, NEW c, Happens("ppoll", "poll", a, m, k),
                        Sees(5, c, a, m, k)
        PROVE  Right(post_poll_hook(c), k)
    BY Zenon DEF HookExact, Clears
  <2>2. a[0] \in B(0) /\ a[1] \in 0 .. 2
    BY <2>1, Params_poll DEF Happens, Vec
  <2>3. c.ret = k.ret /\ c.arg[0] = a[0] /\ c.arg[1] = a[1]
    BY <2>1, SMT DEF Sees
  <2>4. k.ret # 0
    BY <2>1, SMT DEF Happens, Foreseen, Reads
  <2> DEFINE n == a[1]
             s == [i \in 1 .. n |-> Clr(a[0] + PAIR * (i - 1) + 6, SHORT)]
             w == [i \in 1 .. n |-> Bytes(a[0] + PAIR * (i - 1) + 6, SHORT)]
             wrote == UNION {Bytes(a[0] + PAIR * i + 6, SHORT) : i \in 0 .. n - 1}
  <2>5. (\E r \in 0 .. n : k = Answer(r, wrote)) \/ k = Failed
    <3>1. HookSuccess("poll", a, m) = {Answer(r, wrote) : r \in 0 .. n}
      BY Zenon DEF HookSuccess
    <3>2. k \in HookSuccess("poll", a, m) \cup {Failed}
      BY <2>1, Zenon DEF Happens
    <3> HIDE DEF wrote, n
    <3>3. QED BY <3>1, <3>2
  <2>6. a[0] \in Ptrs /\ SHORT \in Nat
    BY <2>2, BufferAt, Units
  <2>7. \A i \in 1 .. n : Covers(s[i], w[i])
    <3>1. ASSUME NEW i \in 1 .. n PROVE Covers(s[i], w[i])
      <4>1. a[0] + PAIR * (i - 1) + 6 \in Nat /\ a[0] + PAIR * (i - 1) + 6 # Null
        BY <2>2, <2>6 DEF Ptrs, PAIR, Null
      <4>2. Covers(Clr(a[0] + PAIR * (i - 1) + 6, SHORT), Bytes(a[0] + PAIR * (i - 1) + 6, SHORT))
        BY <2>6, <4>1, CoversClr, Zenon
      <4>3. QED BY <4>2, Zenon
    <3>2. QED BY <3>1
  <2>8. Pieces(w, n) = wrote
    <3>1. \A i \in 1 .. n : i - 1 \in 0 .. n - 1 /\ PAIR * (i - 1) = PAIR * (i - 1)
      BY <2>2
    <3>2. \A i \in 0 .. n - 1 : i + 1 \in 1 .. n /\ (i + 1) - 1 = i
      BY <2>2
    <3>3. \A i \in 1 .. n : w[i] \subseteq wrote
      BY <3>1
    <3>4. \A i \in 0 .. n - 1 : Bytes(a[0] + PAIR * i + 6, SHORT) = w[i + 1]
      BY <3>2
    <3> HIDE DEF w
    <3>5. QED BY <3>2, <3>3, <3>4 DEF Pieces
  <2>9. Covers(Each(s, n), wrote)
    <3> HIDE DEF s, w, wrote
    <3>1. QED BY <2>2, <2>7, <2>8, CoversEach
  <2>10. post_poll_hook(c) = IF Long(c.ret) <= 0 THEN None ELSE Each(s, n)
    BY <2>3, Zenon DEF post_poll_hook
  <2>11. CASE k = Failed
    BY <2>3, <2>10, <2>11, Fails, FailedRight
  <2>12. ASSUME NEW r \in 0 .. n, k = Answer(r, wrote) PROVE Right(post_poll_hook(c), k)
    <3> HIDE DEF s, wrote
    <3>1. r \in 0 .. 256
      BY <2>2
    <3>2. k.ret = r /\ k.wrote = wrote /\ Long(k.ret) = r
      BY <2>12, <3>1, AnswerValue
    <3>3. ~(Long(c.ret) <= 0)
      BY <2>3, <2>4, <3>1, <3>2
    <3>4. QED BY <2>9, <2>10, <3>1, <3>2, <3>3, RightOf
  <2>13. QED BY <2>5, <2>11, <2>12, Zenon
<1>4. QED BY <1>1, <1>2, <1>3, RowExact, Arities, Zenon DEF NoHook

LEMMA VectorOK == \A v \in Vectors : IsVector(v) /\ Len(v) = 2
<1>1. Area(2) \in Nat \ {0} /\ Area(3) \in Nat \ {0} /\ INT \in Nat
  BY BufferAt, Units DEF Ptrs
<1> DEFINE Two(v) == Len(v) = 2 /\ v[1].base \in Nat \ {0} /\ v[1].len \in Nat
                     /\ v[2].base \in Nat \ {0} /\ v[2].len \in Nat
<1>2. \A v \in Vectors : Two(v)
  BY <1>1 DEF Vectors
<1>3. \A v : Two(v) => IsVector(v)
  BY DEF IsVector
<1>4. QED BY <1>2, <1>3

\* What the buffers of the program can take.
LEMMA StreamSize ==
    ASSUME NEW v, NEW n, NEW tot PROVE Cardinality(Stream(v, n, tot)) \in 0 .. 96
<1>1. IsFiniteSet(Byte) /\ Cardinality(Byte) = 96
  <2>1. Byte = 32 .. 127 /\ 32 \in Int /\ 127 \in Int
    BY DEF Byte, Base, Room
  <2>2. IsFiniteSet(32 .. 127) /\ Cardinality(32 .. 127) = IF 32 > 127 THEN 0 ELSE 127 - 32 + 1
    BY <2>1, FS_Interval, Zenon
  <2>3. QED BY <2>1, <2>2
<1> DEFINE s == Stream(v, n, tot)
<1>2. s \subseteq Byte
  <2>1. \A p, q : Bytes(p, q) \subseteq Byte
    BY DEF Bytes
  <2>2. QED BY <2>1, Zenon DEF Stream
<1> HIDE DEF s
<1>3. IsFiniteSet(s) /\ Cardinality(s) <= Cardinality(Byte)
  BY <1>1, <1>2, FS_Subset, Zenon
<1>4. Cardinality(s) \in Nat
  BY <1>3, FS_CardinalityType
<1>5. QED BY <1>1, <1>3, <1>4 DEF s

LEMMA TotalsIn == ASSUME NEW v, NEW n PROVE \A r \in Totals(v, n) : r \in 0 .. 96
<1> DEFINE x == Cardinality(Stream(v, n, Word))
<1>1. x \in 0 .. 96
  BY StreamSize
<1> HIDE DEF x
<1>2. \A r \in {0, 1, x} : r \in 0 .. 96
  BY <1>1
<1>3. QED BY <1>2 DEF Totals, x

LEMMA ReadvExact == RowRight("readv")
<1>1. syscall_desc["readv"] = Hook(3, "post_readv_hook")
  BY RowAt, Domain3, Zenon DEF Rows3
<1>2. Name("readv") = "readv" /\ "readv" \in DOMAIN HookParams
  BY Names32, HookNames, Zenon
<1>3. HookExact("readv", "readv", 3, "post_readv_hook")
  <2>1. SUFFICES ASSUME NEW a, NEW m, NEW k, NEW c, Happens("readv", "readv", a, m, k),
                        Sees(3, c, a, m, k)
        PROVE  Right(post_readv_hook(c), k)
    BY Zenon DEF HookExact, Clears
  <2>2. a[2] \in 0 .. 2
    BY <2>1, Params_readv DEF Happens, Vec
  <2>3. c.ret = k.ret /\ c.arg[2] = a[2] /\ c.mem = m
    BY <2>1, SMT DEF Sees
  <2>4. m.iov \in Vectors
    <3>1. m \in {Mem(ZeroArgs, v, Null, Null, 0, Null) : v \in Vectors}
      BY <2>1, SMT DEF Happens, Mems
    <3>2. QED BY <3>1, MemIs
  <2>5. (\E r \in Totals(m.iov, a[2]) : k = Answer(r, Stream(m.iov, a[2], r))) \/ k = Failed
    BY <2>1, SMT DEF Happens, HookSuccess
  <2>6. post_readv_hook(c) = IF Long(c.ret) <= 0 THEN None ELSE ClearVector(m.iov, a[2], c.ret)
    BY <2>3, Zenon DEF post_readv_hook
  <2>7. CASE k = Failed
    BY <2>3, <2>6, <2>7, Fails, FailedRight
  <2>8. ASSUME NEW r \in Totals(m.iov, a[2]), k = Answer(r, Stream(m.iov, a[2], r))
        PROVE  Right(post_readv_hook(c), k)
    <3>1. r \in 0 .. 96
      BY TotalsIn
    <3>2. r \in 0 .. 256 /\ r \in Nat
      BY <3>1
    <3>3. k.ret = r /\ k.wrote = Stream(m.iov, a[2], r) /\ Long(k.ret) = r
      BY <2>8, <3>2, AnswerValue
    <3>4. IsVector(m.iov) /\ a[2] \in 0 .. Len(m.iov)
      BY <2>2, <2>4, VectorOK
    <3>5. /\ Covers(ClearVector(m.iov, a[2], r), Stream(m.iov, a[2], r))
          /\ r = 0 => Stream(m.iov, a[2], r) = {}
      BY <3>2, <3>4, CoversVector, Zenon
    <3>6. Covers(post_readv_hook(c), k.wrote)
      <4>1. CASE r = 0
        BY <2>3, <2>6, <3>3, <3>5, <4>1, CoversNone
      <4>2. CASE r # 0
        BY <2>3, <2>6, <3>1, <3>3, <3>5, <4>2
      <4>3. QED BY <4>1, <4>2
    <3>7. QED BY <3>2, <3>3, <3>6, RightOf
  <2>9. QED BY <2>5, <2>7, <2>8, Zenon
<1>4. QED BY <1>1, <1>2, <1>3, RowExact, Arities, Zenon DEF NoHook

LEMMA PreadvExact == RowRight("preadv")
<1>1. syscall_desc["preadv"] = Hook(5, "post_readv_hook")
  BY RowAt, Domain5, Zenon DEF Rows5
<1>2. Name("preadv") = "readv" /\ "readv" \in DOMAIN HookParams
  BY Names32, HookNames, Zenon
<1>3. HookExact("preadv", "readv", 5, "post_readv_hook")
  <2>1. SUFFICES ASSUME NEW a, NEW m, NEW k, NEW c, Happens("preadv", "readv", a, m, k),
                        Sees(5, c, a, m, k)
        PROVE  Right(post_readv_hook(c), k)
    BY Zenon DEF HookExact, Clears
  <2>2. a[2] \in 0 .. 2
    BY <2>1, Params_readv DEF Happens, Vec
  <2>3. c.ret = k.ret /\ c.arg[2] = a[2] /\ c.mem = m
    BY <2>1, SMT DEF Sees
  <2>4. m.iov \in Vectors
    <3>1. m \in {Mem(ZeroArgs, v, Null, Null, 0, Null) : v \in Vectors}
      BY <2>1, SMT DEF Happens, Mems
    <3>2. QED BY <3>1, MemIs
  <2>5. (\E r \in Totals(m.iov, a[2]) : k = Answer(r, Stream(m.iov, a[2], r))) \/ k = Failed
    BY <2>1, SMT DEF Happens, HookSuccess
  <2>6. post_readv_hook(c) = IF Long(c.ret) <= 0 THEN None ELSE ClearVector(m.iov, a[2], c.ret)
    BY <2>3, Zenon DEF post_readv_hook
  <2>7. CASE k = Failed
    BY <2>3, <2>6, <2>7, Fails, FailedRight
  <2>8. ASSUME NEW r \in Totals(m.iov, a[2]), k = Answer(r, Stream(m.iov, a[2], r))
        PROVE  Right(post_readv_hook(c), k)
    <3>1. r \in 0 .. 96
      BY TotalsIn
    <3>2. r \in 0 .. 256 /\ r \in Nat
      BY <3>1
    <3>3. k.ret = r /\ k.wrote = Stream(m.iov, a[2], r) /\ Long(k.ret) = r
      BY <2>8, <3>2, AnswerValue
    <3>4. IsVector(m.iov) /\ a[2] \in 0 .. Len(m.iov)
      BY <2>2, <2>4, VectorOK
    <3>5. /\ Covers(ClearVector(m.iov, a[2], r), Stream(m.iov, a[2], r))
          /\ r = 0 => Stream(m.iov, a[2], r) = {}
      BY <3>2, <3>4, CoversVector, Zenon
    <3>6. Covers(post_readv_hook(c), k.wrote)
      <4>1. CASE r = 0
        BY <2>3, <2>6, <3>3, <3>5, <4>1, CoversNone
      <4>2. CASE r # 0
        BY <2>3, <2>6, <3>1, <3>3, <3>5, <4>2
      <4>3. QED BY <4>1, <4>2
    <3>7. QED BY <3>2, <3>3, <3>6, RightOf
  <2>9. QED BY <2>5, <2>7, <2>8, Zenon
<1>4. QED BY <1>1, <1>2, <1>3, RowExact, Arities, Zenon DEF NoHook

-----------------------------------------------------------------------------
(* Calls that fill what their structures point to *)

\* The lengths of what the kernel has for p.
LEMMA LengthsIn ==
    ASSUME NEW p, NEW l \in Lengths(p) PROVE l \in 0 .. 32 /\ (p = Null => l = 0)
BY DEF Lengths, INT, PAIR

\* An address of l bytes, where there was room for it.
LEMMA PeerCovers ==
    \A addr \in Ptrs \cup {Null}, lenp \in Ptrs, cap \in 0 .. 32, l \in 0 .. 32 :
        l <= cap => Covers(ClearPeer(addr, lenp, l), Peer(addr, lenp, cap, l))
<1> SUFFICES ASSUME NEW addr \in Ptrs \cup {Null}, NEW lenp \in Ptrs, NEW cap \in 0 .. 32,
                    NEW l \in 0 .. 32, l <= cap
             PROVE  Covers(ClearPeer(addr, lenp, l), Peer(addr, lenp, cap, l))
  OBVIOUS
<1>1. CASE addr = Null
  BY <1>1, CoversNone, Zenon DEF ClearPeer, Peer
<1>2. CASE addr # Null
  <2>1. Least(cap, l) = l
    BY DEF Least
  <2>2. Covers(Clr(addr, l), Bytes(addr, l)) /\ Covers(Clr(lenp, INT), Bytes(lenp, INT))
    BY Units, ClrAt
  <2>3. Covers(Clr(addr, l) \o Clr(lenp, INT), Bytes(addr, l) \cup Bytes(lenp, INT))
    BY <2>2, CoversJoin, Zenon
  <2>4. QED BY <1>2, <2>1, <2>3, Zenon DEF ClearPeer, Peer
<1>3. QED BY <1>1, <1>2

LEMMA SysctlExact == RowRight("sysctl")
<1>1. syscall_desc["sysctl"] = Hook(1, "post__sysctl_hook")
  BY RowAt, Domain3, Zenon DEF Rows3
<1>2. Name("sysctl") = "sysctl" /\ "sysctl" \in DOMAIN HookParams
  BY Names32, HookNames, Zenon
<1>3. HookExact("sysctl", "sysctl", 1, "post__sysctl_hook")
  <2>1. SUFFICES ASSUME NEW a, NEW m, NEW k, NEW c, Happens("sysctl", "sysctl", a, m, k),
                        Sees(1, c, a, m, k)
        PROVE  Right(post__sysctl_hook(c), k)
    BY Zenon DEF HookExact, Clears
  <2>1a. c.ret = k.ret /\ c.mem = m /\ c.out = k /\ m.name = Null
    BY <2>1, SMT DEF Sees, Happens, Foreseen, ExpectedArgs
  <2>2. m.len = INT /\ m.control \in Ptrs \cup {Null} /\ m.word \in Ptrs
    <3> DEFINE set == {Mem(ZeroArgs, <<>>, p, q, INT, Area(5)) : p \in {Null, Area(1)}, q \in {Null, Area(3)}}
    <3>1. m \in set
      BY <2>1, SMT DEF Happens, Mems
    <3>2. \E p \in {Null, Area(1)}, q \in {Null, Area(3)} : m = Mem(ZeroArgs, <<>>, p, q, INT, Area(5))
      BY <3>1
    <3>3. m.len = INT /\ m.control \in {Null, Area(3)} /\ m.word = Area(5)
      BY <3>2, MemIs
    <3>4. QED BY <3>3, BufferAt
  <2>3. k = Failed \/ \E x \in Lengths(m.control) : k = AnswerLen(0, x, Peer(m.control, m.word, x, x))
    BY <2>1, SMT DEF Happens, HookSuccess
  <2>4. post__sysctl_hook(c) = IF Long(c.ret) < 0 THEN None
                               ELSE Clr(Null, INT) \o ClearPeer(m.control, m.word, k.olen)
    BY <2>1a, <2>2, Units, Zenon DEF post__sysctl_hook, ClearPeer
  <2>5. CASE k = Failed
    BY <2>1a, <2>4, <2>5, Fails, FailedRight
  <2>6. ASSUME NEW x \in Lengths(m.control), k = AnswerLen(0, x, Peer(m.control, m.word, x, x))
        PROVE  Right(post__sysctl_hook(c), k)
    <3> DEFINE w == Peer(m.control, m.word, x, x)
    <3>1. k.ret = 0 /\ k.olen = x /\ k.wrote = w
      <4> HIDE DEF w
      <4>1. k = AnswerMsg(0, 0, x, 0, w)
        BY <2>6 DEF AnswerLen, w
      <4>2. QED BY <4>1, AnswerMsgIs
    <3>2. x \in 0 .. 32 /\ x <= x /\ 0 \in 0 .. 256
      BY LengthsIn
    <3>3. Covers(ClearPeer(m.control, m.word, x), w)
      BY <2>2, <3>2, PeerCovers, Zenon
    <3>4. Covers(Clr(Null, INT), {})
      BY Units, CoversNull
    <3>5. Covers(Clr(Null, INT) \o ClearPeer(m.control, m.word, x), {} \cup w)
      BY <3>3, <3>4, CoversJoin, Zenon
    <3> HIDE DEF w
    <3>6. {} \cup w = w /\ Long(0) = 0
      BY Numbers
    <3>7. post__sysctl_hook(c) = Clr(Null, INT) \o ClearPeer(m.control, m.word, x)
      BY <2>1a, <2>4, <3>1, <3>6
    <3>8. QED BY <3>1, <3>2, <3>5, <3>6, <3>7, RightOf
  <2>7. QED BY <2>3, <2>5, <2>6, Zenon
<1>4. QED BY <1>1, <1>2, <1>3, RowExact, Arities, Zenon DEF NoHook

LEMMA IpcIs ==
    /\ IPCCALL.SEMCTL = 3 /\ IPCCALL.MSGRCV = 12 /\ IPCCALL.MSGCTL = 14 /\ IPCCALL.SHMCTL = 24
    /\ IPC.RMID = 0 /\ IPC.STAT = 2 /\ IPC.INFO = 3
BY DEF IPCCALL, IPC

LEMMA IpcCallsAre == \A x \in IpcCalls : x \in {3, 12, 14, 24}
<1>1. DOMAIN IPCCALL = {"SEMCTL", "MSGRCV", "MSGCTL", "SHMCTL"}
  BY Zenon DEF IPCCALL
<1>2. \A j \in DOMAIN IPCCALL : IPCCALL[j] \in {3, 12, 14, 24}
  BY <1>1, IpcIs
<1>3. QED BY <1>2, Zenon DEF IpcCalls

LEMMA IpcCmdsAre == \A x \in IpcCmds : x \in {0, 2, 3, 256, 258, 259}
BY IpcIs DEF IpcCmds, IpcCmd, IPC_FIX

\* What a *ctl call of ipc fills and what its hook clears.
LEMMA IpcRight ==
    ASSUME NEW cmd \in {0, 256, 258, 259}, NEW p \in Ptrs \cup {Null}, NEW k, NEW c, c.ret = k.ret,
           k = Failed \/ k = Answer(0, IF cmd % IPC_FIX = IPC.RMID THEN {} ELSE Bytes(p, STRUCT))
    PROVE  Right(ClearIpc(c, cmd, p), k)
<1> DEFINE done == cmd \in {258, 259}
           w == IF done THEN Bytes(p, STRUCT) ELSE {}
           s == IF done THEN Clr(p, STRUCT) ELSE None
<1>1. cmd % 256 = 0 <=> ~done
  OBVIOUS
<1>2. cmd - 256 \in {2, 3} <=> done
  OBVIOUS
<1>3. w = IF cmd % IPC_FIX = IPC.RMID THEN {} ELSE Bytes(p, STRUCT)
  BY <1>1, IpcIs DEF IPC_FIX
<1>4. ClearIpc(c, cmd, p) = IF Long(c.ret) >= 0 THEN s ELSE None
  BY <1>2, IpcIs DEF ClearIpc, IPC_FIX
<1>5. Covers(s, w)
  BY ClrAt, Units, CoversNone
<1>6. k = Answer(0, w) \/ k = Failed
  BY <1>3
<1>7. 0 \in 0 .. 256
  OBVIOUS
<1> HIDE DEF w, s
<1>8. QED BY <1>4, <1>5, <1>6, <1>7, OneAnswer

LEMMA IpcExact == RowRight("ipc")
<1>1. syscall_desc["ipc"] = Hook(6, "post_ipc_hook")
  BY RowAt, Domain2, Zenon DEF Rows2
<1>2. Name("ipc") = "ipc" /\ "ipc" \in DOMAIN HookParams
  BY Names32, HookNames, Zenon
<1>3. HookExact("ipc", "ipc", 6, "post_ipc_hook")
  <2>1. SUFFICES ASSUME NEW a, NEW m, NEW k, NEW c, Happens("ipc", "ipc", a, m, k),
                        Sees(6, c, a, m, k)
        PROVE  Right(post_ipc_hook(c), k)
    BY Zenon DEF HookExact, Clears
  <2>2. a[0] \in IpcCalls /\ a[2] \in IpcCmds /\ a[3] \in {256, 258} /\ a[4] \in B(4)
    BY <2>1, Params_ipc, IpcIs DEF Happens, IPC_FIX
  <2>3. a[0] \in {3, 14, 24} /\ a[2] \in {0, 256, 258, 259} /\ a[3] \in {0, 256, 258, 259}
    <3>1. (a[2] >= IPC_FIX \/ a[2] = IPC.RMID) /\ a[0] # IPCCALL.MSGRCV
      BY <2>1, SMT DEF Happens, Foreseen, ExpectedArgs
    <3>2. (a[2] >= 256 \/ a[2] = 0) /\ a[0] # 12
      BY <3>1, IpcIs, Zenon DEF IPC_FIX
    <3>3. (a[0] = 3 \/ a[0] = 12 \/ a[0] = 14 \/ a[0] = 24) /\ a[2] \in {0, 2, 3, 256, 258, 259}
      BY <2>2, IpcCallsAre, IpcCmdsAre, SMT
    <3>4. a[0] \in {3, 14, 24}
      BY <3>2, <3>3
    <3>5. a[2] \in {0, 256, 258, 259}
      BY <3>2, <3>3
    <3>6. a[3] \in {0, 256, 258, 259}
      BY <2>2, Zenon
    <3>7. QED BY <3>4, <3>5, <3>6, Zenon
  <2>4. /\ c.ret = k.ret /\ c.arg[0] = a[0] /\ c.arg[2] = a[2] /\ c.arg[3] = a[3]
        /\ c.arg[4] = a[4] /\ c.mem = m
    BY <2>1, SMT DEF Sees
  <2>5. a[4] \in Ptrs \cup {Null} /\ m.word \in Ptrs \cup {Null}
    <3>1. m \in {Mem(ZeroArgs, <<>>, Null, Null, 0, p) : p \in P(5)}
      BY <2>1, SMT DEF Happens, Mems
    <3>2. m.word \in P(5)
      BY <3>1, MemIs
    <3>3. QED BY <2>2, <3>2, BufferAt
  <2>6. k \in IpcSuccess(a, m) \/ k = Failed
    BY <2>1, SMT DEF Happens, HookSuccess
  <2>7. CASE a[0] = 3
    <3>1. k = Failed \/ k = Answer(0, IF a[3] % IPC_FIX = IPC.RMID THEN {} ELSE Bytes(m.word, STRUCT))
      BY <2>6, <2>7, IpcIs, SMT DEF IpcSuccess
    <3>2. Right(ClearIpc(c, a[3], m.word), k)
      BY <2>3, <2>4, <2>5, <3>1, IpcRight
    <3>3. post_ipc_hook(c) = ClearIpc(c, a[3], m.word)
      BY <2>4, <2>7, IpcIs, SMT DEF post_ipc_hook
    <3>4. QED BY <3>2, <3>3
  <2>8. CASE a[0] \in {14, 24}
    <3>1. k = Failed \/ k = Answer(0, IF a[2] % IPC_FIX = IPC.RMID THEN {} ELSE Bytes(a[4], STRUCT))
      BY <2>6, <2>8, IpcIs, SMT DEF IpcSuccess
    <3>2. Right(ClearIpc(c, a[2], a[4]), k)
      BY <2>3, <2>4, <2>5, <3>1, IpcRight
    <3>3. post_ipc_hook(c) = ClearIpc(c, a[2], a[4])
      BY <2>4, <2>8, IpcIs, SMT DEF post_ipc_hook
    <3>4. QED BY <3>2, <3>3
  <2>9. QED BY <2>3, <2>7, <2>8
<1>4. QED BY <1>1, <1>2, <1>3, RowExact, Arities, Zenon DEF NoHook

-----------------------------------------------------------------------------
(* Messages *)

LEMMA MessagesAre ==
    ASSUME NEW args, NEW m \in Messages(args)
    PROVE  /\ m.args = args /\ m.iov \in Vectors /\ m.len = INT
           /\ m.name \in Ptrs \cup {Null} /\ m.control \in Ptrs \cup {Null}
<1>1. \E v \in Vectors, p \in {Null, Area(4)}, q \in {Null, Area(5)} : m = Mem(args, v, p, q, INT, Null)
  BY SMT DEF Messages
<1>2. PICK v \in Vectors, p \in {Null, Area(4)}, q \in {Null, Area(5)} : m = Mem(args, v, p, q, INT, Null)
  BY <1>1, Zenon
<1>3. p \in Ptrs \cup {Null} /\ q \in Ptrs \cup {Null}
  BY BufferAt
<1>4. m.args = args /\ m.iov = v /\ m.len = INT /\ m.name = p /\ m.control = q
  BY <1>2, MemIs, SMT
<1>5. QED BY <1>3, <1>4, Zenon

\* Names of the parts of a message.
NameAt(h, m, l) ==
    IF m.name = Null THEN {} ELSE Bytes(m.name, Least(m.len, l)) \cup Bytes(Namelen(h), INT)
ControlAt(h, m, n) ==
    IF m.control = Null THEN {} ELSE Bytes(m.control, n) \cup Bytes(Controllen(h), LONG)

LEMMA HeaderAt ==
    ASSUME NEW h \in Ptrs
    PROVE  /\ Covers(Clr(Namelen(h), INT), Bytes(Namelen(h), INT))
           /\ Covers(Clr(Controllen(h), INT), Bytes(Controllen(h), LONG))
           /\ Covers(Clr(Flags(h), INT), Bytes(Flags(h), INT))
           /\ Covers(Clr(MsgLen(h), INT), Bytes(MsgLen(h), INT))
<1>1. /\ Namelen(h) \in Nat /\ Controllen(h) \in Nat /\ Flags(h) \in Nat /\ MsgLen(h) \in Nat
      /\ Namelen(h) # Null /\ Controllen(h) # Null /\ Flags(h) # Null /\ MsgLen(h) # Null
  BY DEF Namelen, Controllen, Flags, MsgLen, Ptrs, INT, Null
<1>2. INT \in Nat /\ LONG = INT
  BY Units
<1>3. QED BY <1>1, <1>2, CoversClr

LEMMA HeaderCovers ==
    ASSUME NEW h \in Ptrs, NEW m, NEW c, NEW l \in 0 .. 32, NEW n \in 0 .. 32,
           m.name \in Ptrs \cup {Null}, m.control \in Ptrs \cup {Null}, m.len = INT, l <= INT,
           c.mem = m, c.out.olen = l, c.out.clen = n
    PROVE  Covers(ClearHeader(c, h), (NameAt(h, m, l) \cup ControlAt(h, m, n)) \cup Bytes(Flags(h), INT))
<1> DEFINE one == IF m.name = Null THEN None ELSE Clr(m.name, l) \o Clr(Namelen(h), INT)
           two == IF m.control = Null THEN None ELSE Clr(m.control, n) \o Clr(Controllen(h), INT)
<1>1. ClearHeader(c, h) = (one \o two) \o Clr(Flags(h), INT)
  BY Zenon DEF ClearHeader
<1>2. Least(m.len, l) = l
  BY Units DEF Least
<1>3. Covers(Clr(m.name, l), Bytes(m.name, l)) /\ Covers(Clr(m.control, n), Bytes(m.control, n))
  BY ClrAt
<1>4. Covers(one, NameAt(h, m, l))
  <2>1. Covers(Clr(m.name, l) \o Clr(Namelen(h), INT), Bytes(m.name, l) \cup Bytes(Namelen(h), INT))
    BY <1>3, HeaderAt, CoversJoin, Zenon
  <2>2. QED BY <1>2, <2>1, CoversNone, Zenon DEF NameAt
<1>5. Covers(two, ControlAt(h, m, n))
  <2>1. Covers(Clr(m.control, n) \o Clr(Controllen(h), INT), Bytes(m.control, n)
          \cup Bytes(Controllen(h), LONG))
    BY <1>3, HeaderAt, CoversJoin, Zenon
  <2>2. QED BY <2>1, CoversNone, Zenon DEF ControlAt
<1> HIDE DEF one, two
<1>6. Covers(one \o two, NameAt(h, m, l) \cup ControlAt(h, m, n))
  BY <1>4, <1>5, CoversJoin, Zenon
<1>7. Covers((one \o two) \o Clr(Flags(h), INT),
             (NameAt(h, m, l) \cup ControlAt(h, m, n)) \cup Bytes(Flags(h), INT))
  BY <1>6, HeaderAt, CoversJoin, Zenon
<1>8. QED BY <1>1, <1>7, Zenon

LEMMA MessageIs ==
    ASSUME NEW h, NEW m, NEW r, NEW l, NEW n
    PROVE  Message(h, m, r, l, n) =
             ((NameAt(h, m, l) \cup ControlAt(h, m, n)) \cup Bytes(Flags(h), INT)) \cup Stream(m.iov, 2, r)
<1>1. Message(h, m, r, l, n) =
         Stream(m.iov, 2, r) \cup Bytes(Flags(h), INT) \cup NameAt(h, m, l) \cup ControlAt(h, m, n)
  BY Zenon DEF Message, NameAt, ControlAt
<1>2. QED BY <1>1

\* The loop over the iovecs of a message.
LEMMA VectorCovers ==
    ASSUME NEW v \in Vectors, NEW r \in Totals(v, 2)
    PROVE  /\ r \in 0 .. 256 /\ Covers(ClearVector(v, 2, r), Stream(v, 2, r))
<1>1. IsVector(v) /\ 2 \in 0 .. Len(v)
  BY VectorOK
<1>2. r \in Nat /\ r \in 0 .. 256
  BY TotalsIn
<1>3. QED BY <1>1, <1>2, CoversVector, Zenon

\* recvmsg, where there was room for the name.
LEMMA ReceivedRight ==
    ASSUME NEW args, NEW m \in Messages(args), NEW h \in Ptrs, NEW k \in Received(h, m), NEW c,
           k.olen <= m.len, c.mem = m, c.out = k, c.ret = k.ret
    PROVE  Right(ClearHeader(c, h) \o ClearVector(c.mem.iov, 2, c.ret), k)
<1>1. PICK r \in Totals(m.iov, 2), l \in Lengths(m.name), n \in Lengths(m.control) :
         k = AnswerMsg(r, r, l, n, Message(h, m, r, l, n))
  BY SMT DEF Received
<1> DEFINE w == Message(h, m, r, l, n)
           head == (NameAt(h, m, l) \cup ControlAt(h, m, n)) \cup Bytes(Flags(h), INT)
<1>2. k.ret = r /\ k.olen = l /\ k.clen = n /\ k.wrote = w
  <2> HIDE DEF w
  <2>1. k = AnswerMsg(r, r, l, n, w)
    BY <1>1 DEF w
  <2>2. QED BY <2>1, AnswerMsgIs
<1> HIDE DEF w
<1>3. /\ m.iov \in Vectors /\ m.len = INT
      /\ m.name \in Ptrs \cup {Null} /\ m.control \in Ptrs \cup {Null}
  BY MessagesAre
<1>4. l \in 0 .. 32 /\ n \in 0 .. 32 /\ l <= INT
  BY <1>2, <1>3, LengthsIn
<1>5. Covers(ClearHeader(c, h), head)
  BY <1>2, <1>3, <1>4, HeaderCovers
<1>6. r \in 0 .. 256 /\ Covers(ClearVector(m.iov, 2, r), Stream(m.iov, 2, r))
  BY <1>3, VectorCovers
<1>7. Covers(ClearHeader(c, h) \o ClearVector(m.iov, 2, r), head \cup Stream(m.iov, 2, r))
  BY <1>5, <1>6, CoversJoin, Zenon
<1>8. w = head \cup Stream(m.iov, 2, r)
  BY MessageIs DEF w
<1> HIDE DEF head
<1>9. Covers(ClearHeader(c, h) \o ClearVector(c.mem.iov, 2, c.ret), k.wrote)
  BY <1>2, <1>7, <1>8
<1>10. QED BY <1>2, <1>6, <1>9, RightOf

\* One message of recvmmsg.
LEMMA ReceivedOneRight ==
    ASSUME NEW args, NEW m \in Messages(args), NEW h \in Ptrs, NEW timeout \in Ptrs \cup {Null},
           NEW k, k \in ReceivedOne(h, m, timeout) \/ k = Failed, NEW c,
           k.olen <= m.len, c.mem = m, c.out = k, c.ret = k.ret, c.arg[1] = h, c.arg[4] = timeout
    PROVE  Right(post_recvmmsg_hook(c), k)
<1> DEFINE calls(x) == ClearHeader(c, h) \o Clr(MsgLen(h), INT) \o ClearVector(m.iov, 2, x)
<1>0. post_recvmmsg_hook(c) = IF Long(c.ret) < 0 THEN None
                              ELSE Each([i \in 1 .. c.ret |-> calls(k.mlen)], c.ret) \o Clr(timeout, PAIR)
  BY Zenon DEF post_recvmmsg_hook
<1>1. CASE k = Failed
  <2> HIDE DEF calls
  <2>1. QED BY <1>0, <1>1, Fails, FailedRight
<1>2. CASE k \in ReceivedOne(h, m, timeout)
  <2>1. PICK r \in Totals(m.iov, 2), l \in Lengths(m.name), n \in Lengths(m.control) :
           k = AnswerMsg(1, r, l, n, Message(h, m, r, l, n) \cup Bytes(MsgLen(h), INT)
                                         \cup Bytes(timeout, PAIR))
    BY <1>2, SMT DEF ReceivedOne
  <2> DEFINE msg == Message(h, m, r, l, n)
             w == msg \cup Bytes(MsgLen(h), INT) \cup Bytes(timeout, PAIR)
             head == (NameAt(h, m, l) \cup ControlAt(h, m, n)) \cup Bytes(Flags(h), INT)
             one == (head \cup Bytes(MsgLen(h), INT)) \cup Stream(m.iov, 2, r)
  <2>2. k.ret = 1 /\ k.mlen = r /\ k.olen = l /\ k.clen = n /\ k.wrote = w
    <3> HIDE DEF w
    <3>1. k = AnswerMsg(1, r, l, n, w)
      BY <2>1 DEF w
    <3>2. QED BY <3>1, AnswerMsgIs
  <2> HIDE DEF w
  <2>3. /\ m.iov \in Vectors /\ m.len = INT
        /\ m.name \in Ptrs \cup {Null} /\ m.control \in Ptrs \cup {Null}
    BY MessagesAre
  <2>4. l \in 0 .. 32 /\ n \in 0 .. 32 /\ l <= INT
    BY <2>2, <2>3, LengthsIn
  <2>5. Covers(ClearHeader(c, h), head)
    BY <2>2, <2>3, <2>4, HeaderCovers
  <2>6. r \in 0 .. 256 /\ Covers(ClearVector(m.iov, 2, r), Stream(m.iov, 2, r))
    BY <2>3, VectorCovers
  <2> HIDE DEF head
  <2>7. Covers(ClearHeader(c, h) \o Clr(MsgLen(h), INT), head \cup Bytes(MsgLen(h), INT))
    BY <2>5, HeaderAt, CoversJoin, Zenon
  <2>8. Covers(calls(r), one)
    BY <2>6, <2>7, CoversJoin, Zenon
  <2> DEFINE f == [i \in 1 .. 1 |-> calls(r)]
             g == [i \in 1 .. 1 |-> one]
  <2>9. Covers(Each(f, 1), one)
    <3> HIDE DEF calls, one
    <3>1. \A i \in 1 .. 1 : Covers(f[i], g[i])
      BY <2>8
    <3>2. Pieces(g, 1) = one
      <4>1. g[1] = one /\ 1 .. 1 = {1}
        OBVIOUS
      <4> HIDE DEF g
      <4>2. QED BY <4>1 DEF Pieces
    <3> HIDE DEF f, g
    <3>3. Covers(Each(f, 1), Pieces(g, 1))
      BY <3>1, CoversEach
    <3>4. QED BY <3>2, <3>3
  <2>10. Covers(Clr(timeout, PAIR), Bytes(timeout, PAIR))
    BY ClrAt, Units
  <2>11. Covers(Each(f, 1) \o Clr(timeout, PAIR), one \cup Bytes(timeout, PAIR))
    <3> HIDE DEF f, one
    <3>1. QED BY <2>9, <2>10, CoversJoin, Zenon
  <2>12. w = one \cup Bytes(timeout, PAIR)
    <3>1. msg = head \cup Stream(m.iov, 2, r)
      BY MessageIs DEF head
    <3> HIDE DEF msg
    <3>2. QED BY <3>1 DEF w
  <2>13. post_recvmmsg_hook(c) = Each(f, 1) \o Clr(timeout, PAIR)
    <3>1. ~(Long(c.ret) < 0) /\ c.ret = 1
      BY <2>2, Numbers
    <3> HIDE DEF calls
    <3>2. QED BY <1>0, <2>2, <3>1, Zenon
  <2> HIDE DEF f, one
  <2>14. Covers(post_recvmmsg_hook(c), k.wrote)
    BY <2>2, <2>11, <2>12, <2>13
  <2>15. k.ret \in 0 .. 256
    BY <2>2
  <2>16. QED BY <2>14, <2>15, RightOf
<1>3. QED BY <1>1, <1>2

LEMMA RecvmmsgExact == RowRight("recvmmsg")
<1>1. syscall_desc["recvmmsg"] = Hook(5, "post_recvmmsg_hook")
  BY RowAt, Domain5, Zenon DEF Rows5
<1>2. Name("recvmmsg") = "recvmmsg" /\ "recvmmsg" \in DOMAIN HookParams
  BY Names32, HookNames, Zenon
<1>3. HookExact("recvmmsg", "recvmmsg", 5, "post_recvmmsg_hook")
  <2>1. SUFFICES ASSUME NEW a, NEW m, NEW k, NEW c, Happens("recvmmsg", "recvmmsg", a, m, k),
                        Sees(5, c, a, m, k)
        PROVE  Right(post_recvmmsg_hook(c), k)
    BY Zenon DEF HookExact, Clears
  <2>2. a[1] \in Ptrs /\ a[4] \in Ptrs \cup {Null}
    <3>1. a[1] \in {Area(1)} /\ a[4] \in P(4)
      BY <2>1, Params_recvmmsg, Zenon DEF Happens
    <3>2. QED BY <3>1, BufferAt
  <2>3. /\ c.ret = k.ret /\ c.arg[1] = a[1] /\ c.arg[4] = a[4] /\ c.mem = m /\ c.out = k
    BY <2>1, SMT DEF Sees
  <2>4. m \in Messages(ZeroArgs)
    BY <2>1, SMT DEF Happens, Mems
  <2>5. k.olen <= m.len
    BY <2>1, SMT DEF Happens, Foreseen, HasPeer
  <2>6. k \in ReceivedOne(a[1], m, a[4]) \/ k = Failed
    BY <2>1, SMT DEF Happens, HookSuccess
  <2>7. QED BY <2>2, <2>3, <2>4, <2>5, <2>6, ReceivedOneRight
<1>4. QED BY <1>1, <1>2, <1>3, RowExact, Arities, Zenon DEF NoHook

-----------------------------------------------------------------------------
(* The calls behind socketcall *)

LEMMA SysIs ==
    /\ SYS.SEND = 9 /\ SYS.ACCEPT = 5 /\ SYS.SOCKETPAIR = 8 /\ SYS.RECV = 10 /\ SYS.RECVFROM = 12
    /\ SYS.GETSOCKOPT = 15 /\ SYS.RECVMSG = 17 /\ SYS.RECVMMSG = 19
BY DEF SYS

LEMMA SocketCallsAre ==
    ASSUME NEW x \in SocketCalls
    PROVE  x = 5 \/ x = 8 \/ x = 9 \/ x = 10 \/ x = 12 \/ x = 15 \/ x = 17 \/ x = 19
<1>1. DOMAIN SYS = {"SEND", "ACCEPT", "SOCKETPAIR", "RECV", "RECVFROM", "GETSOCKOPT", "RECVMSG",
                    "RECVMMSG"}
  BY SMT DEF SYS
<1>2. PICK j \in DOMAIN SYS : x = SYS[j]
  BY Zenon DEF SocketCalls
<1>3. QED BY <1>1, <1>2, SysIs

\* The arguments of the call are in memory.
LEMMA SocketMem ==
    ASSUME NEW a, NEW m \in Mems("socketcall", a)
    PROVE  \E s \in SocketArgs(a[0]) :
              /\ m.args = [i \in 0 .. 5 |-> s[i + 1]] /\ m.len = INT
              /\ a[0] \in {17, 19} => m \in Messages(m.args)
<1> DEFINE args(s) == [i \in 0 .. 5 |-> s[i + 1]]
           set(s) == IF a[0] \in {SYS.RECVMSG, SYS.RECVMMSG} THEN Messages(args(s))
                     ELSE {Mem(args(s), <<>>, Null, Null, INT, Null)}
<1>1. \E s \in SocketArgs(a[0]) : m \in set(s)
  BY SMT DEF Mems
<1>2. PICK s \in SocketArgs(a[0]) : m \in set(s)
  BY <1>1, Zenon
<1> HIDE DEF args
<1>3. CASE a[0] \in {17, 19}
  <2>1. m \in Messages(args(s))
    BY <1>2, <1>3, SysIs
  <2>2. m.args = args(s) /\ m.len = INT
    BY <2>1, MessagesAre
  <2>3. QED BY <2>1, <2>2 DEF args
<1>4. CASE a[0] \notin {17, 19}
  <2>1. m = Mem(args(s), <<>>, Null, Null, INT, Null)
    BY <1>2, <1>4, SysIs
  <2>2. m.args = args(s) /\ m.len = INT
    BY <2>1, MemIs
  <2>3. QED BY <1>4, <2>2 DEF args
<1>5. QED BY <1>3, <1>4

\* The arguments that a call depends on.
LEMMA SocketArgsIn ==
    ASSUME NEW s, NEW x
    PROVE  /\ x = 5 /\ s \in SocketArgs(x) => s[2] \in Ptrs \cup {Null} /\ s[3] \in Ptrs
           /\ x = 8 /\ s \in SocketArgs(x) => s[4] \in Ptrs
           /\ x = 9 /\ s \in SocketArgs(x) => s[3] \in 0 .. 12
           /\ x = 10 /\ s \in SocketArgs(x) => s[2] \in Ptrs /\ s[3] \in 0 .. 12
           /\ x = 12 /\ s \in SocketArgs(x) =>
                 s[2] \in Ptrs /\ s[3] \in 0 .. 12 /\ s[5] \in Ptrs \cup {Null} /\ s[6] \in Ptrs
           /\ x = 15 /\ s \in SocketArgs(x) => s[4] \in Ptrs /\ s[5] \in Ptrs
           /\ x = 17 /\ s \in SocketArgs(x) => s[2] \in Ptrs
           /\ x = 19 /\ s \in SocketArgs(x) => s[2] \in Ptrs /\ s[5] \in Ptrs \cup {Null}
<1>1. ASSUME x = 5, s \in SocketArgs(x) PROVE s[2] \in Ptrs \cup {Null} /\ s[3] \in Ptrs
  <2>1. s \in {<<0, p, Area(2), 0, 0, 0>> : p \in P(1)}
    BY <1>1, SysIs, SMT DEF SocketArgs
  <2>2. QED BY <2>1, BufferAt
<1>2. ASSUME x = 8, s \in SocketArgs(x) PROVE s[4] \in Ptrs
  <2>1. s \in {<<0, 0, 0, p, 0, 0>> : p \in B(3)}
    BY <1>2, SysIs, SMT DEF SocketArgs
  <2>2. QED BY <2>1, BufferAt
<1>3. ASSUME x = 9, s \in SocketArgs(x) PROVE s[3] \in 0 .. 12
  <2>1. s \in {<<0, p, n, 0, 0, 0>> : p \in B(1), n \in N}
    BY <1>3, SysIs, SMT DEF SocketArgs
  <2>2. PICK p \in B(1), n \in N : s = <<0, p, n, 0, 0, 0>>
    BY <2>1, SMT
  <2>3. s[3] = n
    BY <2>2
  <2>4. QED BY <2>3, Small
<1>4. ASSUME x = 10, s \in SocketArgs(x) PROVE s[2] \in Ptrs /\ s[3] \in 0 .. 12
  <2>1. s \in {<<0, p, n, 0, 0, 0>> : p \in B(1), n \in N}
    BY <1>4, SysIs, SMT DEF SocketArgs
  <2>2. PICK p \in B(1), n \in N : s = <<0, p, n, 0, 0, 0>>
    BY <2>1, SMT
  <2>3. s[2] = p /\ s[3] = n
    BY <2>2
  <2>4. QED BY <2>3, Small, BufferAt
<1>5. ASSUME x = 12, s \in SocketArgs(x)
      PROVE  s[2] \in Ptrs /\ s[3] \in 0 .. 12 /\ s[5] \in Ptrs \cup {Null} /\ s[6] \in Ptrs
  <2>1. s \in {<<0, Area(1), n, 0, p, Area(5)>> : n \in N, p \in P(4)}
    BY <1>5, SysIs, SMT DEF SocketArgs
  <2>2. PICK n \in N, p \in P(4) : s = <<0, Area(1), n, 0, p, Area(5)>>
    BY <2>1, SMT
  <2>3. s[2] = Area(1) /\ s[3] = n /\ s[5] = p /\ s[6] = Area(5)
    BY <2>2
  <2>4. QED BY <2>3, Small, BufferAt
<1>6. ASSUME x = 15, s \in SocketArgs(x) PROVE s[4] \in Ptrs /\ s[5] \in Ptrs
  <2>1. s \in {<<0, 0, 0, p, Area(4), 0>> : p \in B(3)}
    BY <1>6, SysIs, SMT DEF SocketArgs
  <2>2. QED BY <2>1, BufferAt
<1>7. ASSUME x = 17, s \in SocketArgs(x) PROVE s[2] \in Ptrs
  <2>1. s \in {<<0, Area(1), 0, 0, 0, 0>>}
    BY <1>7, SysIs, SMT DEF SocketArgs
  <2>2. QED BY <2>1, BufferAt
<1>8. ASSUME x = 19, s \in SocketArgs(x) PROVE s[2] \in Ptrs /\ s[5] \in Ptrs \cup {Null}
  <2>1. s \in {<<0, Area(1), 1, 0, p, 0>> : p \in {Null, Area(0)}}
    BY <1>8, SysIs, SMT DEF SocketArgs
  <2>2. QED BY <2>1, BufferAt
<1>9. QED BY <1>1, <1>2, <1>3, <1>4, <1>5, <1>6, <1>7, <1>8, Zenon

\* What the hook makes of each of them. Socket(x, ...) says that the call x is answered k.
Socket(x, m, k, c) ==
    /\ k \in SocketSuccess(x, m.args, m) \cup {Failed} /\ m.len = INT
    /\ c.ret = k.ret /\ c.mem = m /\ c.out = k /\ c.arg[0] = x
    /\ DOMAIN c = {"arg", "ret", "mem", "out"}

LEMMA SocketFields ==
    ASSUME NEW x, NEW m, NEW k, NEW c, Socket(x, m, k, c)
    PROVE  c.ret = k.ret /\ c.mem = m /\ c.out = k /\ c.arg[0] = x /\ m.len = INT
           /\ (k = Failed \/ k \in SocketSuccess(x, m.args, m))
BY SMT DEF Socket

LEMMA AnswerLenIs ==
    ASSUME NEW r, NEW l, NEW w, NEW k, k = AnswerLen(r, l, w)
    PROVE  k.ret = r /\ k.olen = l /\ k.wrote = w
<1>1. k = AnswerMsg(r, 0, l, 0, w)
  BY DEF AnswerLen
<1>2. QED BY <1>1, AnswerMsgIs

LEMMA AcceptRight ==
    ASSUME NEW m, NEW k, NEW c, Socket(5, m, k, c), k.olen <= m.len,
           m.args[1] \in Ptrs \cup {Null}, m.args[2] \in Ptrs
    PROVE  Right(post_socketcall_hook(c), k)
<1>1. c.ret = k.ret /\ c.mem = m /\ c.out = k /\ c.arg[0] = 5 /\ m.len = INT
  BY SocketFields
<1>2. post_socketcall_hook(c) = IF Long(c.ret) < 0 THEN None ELSE ClearPeer(m.args[1], m.args[2], k.olen)
  BY <1>1, SysIs, SMT DEF post_socketcall_hook
<1>3. CASE k = Failed
  BY <1>1, <1>2, <1>3, Fails, FailedRight
<1>4. CASE k # Failed
  <2> DEFINE w(l) == Peer(m.args[1], m.args[2], m.len, l)
  <2>1. k \in SocketSuccess(5, m.args, m)
    BY <1>4, SocketFields
  <2>2. PICK l \in Lengths(m.args[1]) : k = AnswerLen(0, l, w(l))
    BY <2>1, SysIs, SMT DEF SocketSuccess
  <2> HIDE DEF w
  <2>3. k.ret = 0 /\ k.olen = l /\ k.wrote = w(l)
    BY <2>2, AnswerLenIs
  <2>4. l \in 0 .. 32 /\ l <= INT /\ INT \in 0 .. 32
    BY <1>1, <2>3, LengthsIn, Units
  <2>5. Covers(ClearPeer(m.args[1], m.args[2], l), Peer(m.args[1], m.args[2], INT, l))
    BY <2>4, PeerCovers
  <2>6. Covers(ClearPeer(m.args[1], m.args[2], l), w(l))
    BY <1>1, <2>5, Zenon DEF w
  <2>7. k.ret \in 0 .. 256 /\ ~(Long(c.ret) < 0)
    BY <1>1, <2>3, Numbers
  <2>8. QED BY <1>2, <2>3, <2>6, <2>7, RightOf
<1>5. QED BY <1>3, <1>4

LEMMA SocketpairRight ==
    ASSUME NEW m, NEW k, NEW c, Socket(8, m, k, c), m.args[3] \in Ptrs
    PROVE  Right(post_socketcall_hook(c), k)
<1>1. c.ret = k.ret /\ c.mem = m /\ c.arg[0] = 8
  BY SocketFields
<1> DEFINE w == Bytes(m.args[3], 2 * INT)
           s == Clr(m.args[3], 2 * INT)
<1>2. post_socketcall_hook(c) = IF Long(c.ret) < 0 THEN None ELSE s
  BY <1>1, SysIs, SMT DEF post_socketcall_hook
<1>3. k = Answer(0, w) \/ k = Failed
  <2>1. SocketSuccess(8, m.args, m) = {Answer(0, w)}
    BY SysIs, SMT DEF SocketSuccess
  <2>2. QED BY <2>1, SocketFields
<1>4. Covers(s, w)
  <2>1. 2 * INT \in 0 .. 32
    BY DEF INT
  <2>2. QED BY <2>1, ClrAt, Zenon
<1>5. 0 \in 0 .. 256
  OBVIOUS
<1> HIDE DEF s, w
<1>6. QED BY <1>1, <1>2, <1>3, <1>4, <1>5, OneAnswer

LEMMA SendRight ==
    ASSUME NEW m, NEW k, NEW c, Socket(9, m, k, c), m.args[2] \in 0 .. 12
    PROVE  Right(post_socketcall_hook(c), k)
<1>1. c.ret = k.ret /\ c.arg[0] = 9
  BY SocketFields
<1>2. post_socketcall_hook(c) = None
  BY <1>1, SysIs, SMT DEF post_socketcall_hook
<1>3. k = Answer(m.args[2], {}) \/ k = Failed
  <2>1. SocketSuccess(9, m.args, m) = {Answer(m.args[2], {})}
    BY SysIs, SMT DEF SocketSuccess
  <2>2. QED BY <2>1, SocketFields
<1>4. m.args[2] \in 0 .. 256
  OBVIOUS
<1>5. QED BY <1>1, <1>2, <1>3, <1>4, CoversNone, OneAnswer

LEMMA RecvRight ==
    ASSUME NEW m, NEW k, NEW c, Socket(10, m, k, c), m.args[1] \in Ptrs, m.args[2] \in 0 .. 12
    PROVE  Right(post_socketcall_hook(c), k)
<1>1. c.ret = k.ret /\ c.mem = m /\ c.arg[0] = 10
  BY SocketFields
<1>2. post_socketcall_hook(c) = ClearRet(c, m.args[1], 1)
  BY <1>1, SysIs, SMT DEF post_socketcall_hook
<1>3. k \in Transfers(m.args[1], m.args[2]) \/ k = Failed
  <2>1. SocketSuccess(10, m.args, m) = Transfers(m.args[1], m.args[2])
    BY SysIs, SMT DEF SocketSuccess
  <2>2. QED BY <2>1, SocketFields
<1>4. m.args[1] \in Nat /\ m.args[1] # Null
  BY PtrNat
<1>5. QED BY <1>1, <1>2, <1>3, <1>4, TransferRight

LEMMA RecvfromRight ==
    ASSUME NEW m, NEW k, NEW c, Socket(12, m, k, c), k.olen <= m.len, k.ret # 0,
           m.args[1] \in Ptrs, m.args[2] \in 0 .. 12, m.args[4] \in Ptrs \cup {Null}, m.args[5] \in Ptrs
    PROVE  Right(post_socketcall_hook(c), k)
<1>1. c.ret = k.ret /\ c.mem = m /\ c.out = k /\ c.arg[0] = 12 /\ m.len = INT
  BY SocketFields
<1>2. post_socketcall_hook(c) = IF Long(c.ret) <= 0 THEN None
                                ELSE Clr(m.args[1], c.ret) \o ClearPeer(m.args[4], m.args[5], k.olen)
  BY <1>1, SysIs, SMT DEF post_socketcall_hook
<1>3. CASE k = Failed
  BY <1>1, <1>2, <1>3, Fails, FailedRight
<1>4. CASE k # Failed
  <2> DEFINE peer(l) == Peer(m.args[4], m.args[5], m.len, l)
             w(r, l) == Bytes(m.args[1], r) \cup peer(l)
  <2>1. k \in SocketSuccess(12, m.args, m)
    BY <1>4, SocketFields
  <2>2. PICK r \in {0, m.args[2]}, l \in Lengths(m.args[4]) : k = AnswerLen(r, l, w(r, l))
    BY <2>1, SysIs, SMT DEF SocketSuccess
  <2> HIDE DEF w
  <2>3. k.ret = r /\ k.olen = l /\ k.wrote = w(r, l)
    BY <2>2, AnswerLenIs
  <2>4. l \in 0 .. 32 /\ l <= INT /\ INT \in 0 .. 32
    BY <1>1, <2>3, LengthsIn, Units
  <2>5. r \in 0 .. 32 /\ r \in 0 .. 256 /\ r # 0
    BY <2>3
  <2>6. Covers(ClearPeer(m.args[4], m.args[5], l), Peer(m.args[4], m.args[5], INT, l))
    BY <2>4, PeerCovers
  <2>7. Covers(ClearPeer(m.args[4], m.args[5], l), peer(l))
    BY <1>1, <2>6, Zenon
  <2>8. Covers(Clr(m.args[1], r), Bytes(m.args[1], r))
    BY <2>5, ClrAt
  <2>9. Covers(Clr(m.args[1], r) \o ClearPeer(m.args[4], m.args[5], l), w(r, l))
    BY <2>7, <2>8, CoversJoin, Zenon DEF w
  <2>10. ~(Long(c.ret) <= 0)
    BY <1>1, <2>3, <2>5, Numbers
  <2> HIDE DEF peer
  <2>11. QED BY <1>1, <1>2, <2>3, <2>5, <2>9, <2>10, RightOf
<1>5. QED BY <1>3, <1>4

LEMMA GetsockoptRight ==
    ASSUME NEW m, NEW k, NEW c, Socket(15, m, k, c), m.args[3] \in Ptrs, m.args[4] \in Ptrs
    PROVE  Right(post_socketcall_hook(c), k)
<1>1. c.ret = k.ret /\ c.mem = m /\ c.out = k /\ c.arg[0] = 15 /\ m.len = INT
  BY SocketFields
<1>2. post_socketcall_hook(c) = IF Long(c.ret) < 0 THEN None
                                ELSE Clr(m.args[3], k.olen) \o Clr(m.args[4], INT)
  BY <1>1, SysIs, SMT DEF post_socketcall_hook
<1>3. CASE k = Failed
  BY <1>1, <1>2, <1>3, Fails, FailedRight
<1>4. CASE k # Failed
  <2> DEFINE w(l) == Bytes(m.args[3], l) \cup Bytes(m.args[4], INT)
  <2>1. k \in SocketSuccess(15, m.args, m)
    BY <1>4, SocketFields
  <2>2. PICK l \in {1, m.len} : k = AnswerLen(0, l, w(l))
    BY <2>1, SysIs, SMT DEF SocketSuccess
  <2> HIDE DEF w
  <2>3. k.ret = 0 /\ k.olen = l /\ k.wrote = w(l)
    BY <2>2, AnswerLenIs
  <2>4. l \in 0 .. 32 /\ INT \in 0 .. 32
    BY <1>1, Units
  <2>5. Covers(Clr(m.args[3], l), Bytes(m.args[3], l)) /\ Covers(Clr(m.args[4], INT), Bytes(m.args[4], INT))
    BY <2>4, ClrAt
  <2>6. Covers(Clr(m.args[3], l) \o Clr(m.args[4], INT), w(l))
    BY <2>5, CoversJoin, Zenon DEF w
  <2>7. k.ret \in 0 .. 256 /\ ~(Long(c.ret) < 0)
    BY <1>1, <2>3, Numbers
  <2>8. QED BY <1>2, <2>3, <2>6, <2>7, RightOf
<1>5. QED BY <1>3, <1>4

LEMMA RecvmsgRight ==
    ASSUME NEW m, NEW k, NEW c, Socket(17, m, k, c), k.olen <= m.len, k.ret # 0,
           m.args[1] \in Ptrs, m \in Messages(m.args)
    PROVE  Right(post_socketcall_hook(c), k)
<1>1. c.ret = k.ret /\ c.mem = m /\ c.out = k /\ c.arg[0] = 17
  BY SocketFields
<1>2. post_socketcall_hook(c) = IF Long(c.ret) <= 0 THEN None
                                ELSE ClearHeader(c, m.args[1]) \o ClearVector(c.mem.iov, 2, c.ret)
  BY <1>1, SysIs, SMT DEF post_socketcall_hook
<1>3. CASE k = Failed
  BY <1>1, <1>2, <1>3, Fails, FailedRight
<1>4. CASE k # Failed
  <2>1. k \in Received(m.args[1], m)
    <3>1. SocketSuccess(17, m.args, m) = Received(m.args[1], m)
      BY SysIs, SMT DEF SocketSuccess
    <3>2. QED BY <1>4, <3>1, SocketFields
  <2>2. Right(ClearHeader(c, m.args[1]) \o ClearVector(c.mem.iov, 2, c.ret), k)
    BY <1>1, <2>1, ReceivedRight
  <2>3. ~(Long(c.ret) <= 0)
    <3>1. \E r \in Totals(m.iov, 2) : k.ret = r
      <4>1. PICK r \in Totals(m.iov, 2), l \in Lengths(m.name), n \in Lengths(m.control) :
               k = AnswerMsg(r, r, l, n, Message(m.args[1], m, r, l, n))
        BY <2>1, SMT DEF Received
      <4> DEFINE w == Message(m.args[1], m, r, l, n)
      <4>2. k = AnswerMsg(r, r, l, n, w)
        BY <4>1
      <4> HIDE DEF w
      <4>3. k.ret = r
        BY <4>2, AnswerMsgIs
      <4>4. QED BY <4>3
    <3>2. k.ret \in 0 .. 96
      BY <3>1, TotalsIn
    <3>3. QED BY <1>1, <3>2, Numbers
  <2>4. QED BY <1>2, <2>2, <2>3
<1>5. QED BY <1>3, <1>4

LEMMA RecvmmsgRight ==
    ASSUME NEW m, NEW k, NEW c, Socket(19, m, k, c), k.olen <= m.len, DOMAIN m.args = 0 .. 5,
           m.args[1] \in Ptrs, m.args[4] \in Ptrs \cup {Null}, m \in Messages(m.args)
    PROVE  Right(post_socketcall_hook(c), k)
<1>1. c.ret = k.ret /\ c.mem = m /\ c.out = k /\ c.arg[0] = 19
  BY SocketFields
<1> DEFINE args == [m.args EXCEPT ![5] = c.arg[5]]
           c2 == [c EXCEPT !.arg = args]
<1>2. post_socketcall_hook(c) = post_recvmmsg_hook(c2)
  BY <1>1, SysIs, SMT DEF post_socketcall_hook
<1>3. args[1] = m.args[1] /\ args[4] = m.args[4]
  OBVIOUS
<1> HIDE DEF args
<1>4. c2.arg = args /\ c2.ret = c.ret /\ c2.mem = c.mem /\ c2.out = c.out
  BY DEF Socket
<1>5. k \in ReceivedOne(m.args[1], m, m.args[4]) \/ k = Failed
  <2>1. SocketSuccess(19, m.args, m) = ReceivedOne(m.args[1], m, m.args[4])
    BY SysIs, SMT DEF SocketSuccess
  <2>2. QED BY <2>1, SocketFields
<1> HIDE DEF c2
<1>6. Right(post_recvmmsg_hook(c2), k)
  BY <1>1, <1>3, <1>4, <1>5, ReceivedOneRight
<1>7. QED BY <1>2, <1>6

LEMMA SocketcallExact == RowRight("socketcall")
<1>1. syscall_desc["socketcall"] = Hook(2, "post_socketcall_hook")
  BY RowAt, Domain2, Zenon DEF Rows2
<1>2. Name("socketcall") = "socketcall" /\ "socketcall" \in DOMAIN HookParams
  BY Names32, HookNames, Zenon
<1>3. HookExact("socketcall", "socketcall", 2, "post_socketcall_hook")
  <2>1. SUFFICES ASSUME NEW a, NEW m, NEW k, NEW c, Happens("socketcall", "socketcall", a, m, k),
                        Sees(2, c, a, m, k)
        PROVE  Right(post_socketcall_hook(c), k)
    BY Zenon DEF HookExact, Clears
  <2>2. a[0] \in SocketCalls
    BY <2>1, Params_socketcall, Zenon DEF Happens
  <2>3. PICK s \in SocketArgs(a[0]) :
           /\ m.args = [i \in 0 .. 5 |-> s[i + 1]] /\ m.len = INT
           /\ a[0] \in {17, 19} => m \in Messages(m.args)
    BY <2>1, SocketMem DEF Happens
  <2>4. Socket(a[0], m, k, c)
    <3>1. k \in SocketSuccess(a[0], m.args, m) \cup {Failed}
      BY <2>1, SMT DEF Happens, HookSuccess
    <3>2. c.ret = k.ret /\ c.mem = m /\ c.out = k /\ c.arg[0] = a[0]
            /\ DOMAIN c = {"arg", "ret", "mem", "out"}
      BY <2>1, SMT DEF Sees
    <3>3. QED BY <2>3, <3>1, <3>2, Zenon DEF Socket
  <2>5. /\ a[0] # 15 => k.olen <= m.len
        /\ a[0] \in {12, 17} => k.ret # 0
    BY <2>1, SysIs, SMT DEF Happens, Foreseen, HasPeer, Reads
  <2>6. /\ m.args[1] = s[2] /\ m.args[2] = s[3] /\ m.args[3] = s[4] /\ m.args[4] = s[5]
        /\ m.args[5] = s[6] /\ DOMAIN m.args = 0 .. 5
    BY <2>3
  <2>7. CASE a[0] = 5
    BY <2>3, <2>4, <2>5, <2>6, <2>7, SocketArgsIn, AcceptRight
  <2>8. CASE a[0] = 8
    BY <2>3, <2>4, <2>5, <2>6, <2>8, SocketArgsIn, SocketpairRight
  <2>9. CASE a[0] = 9
    BY <2>3, <2>4, <2>5, <2>6, <2>9, SocketArgsIn, SendRight
  <2>10. CASE a[0] = 10
    BY <2>3, <2>4, <2>5, <2>6, <2>10, SocketArgsIn, RecvRight
  <2>11. CASE a[0] = 12
    BY <2>3, <2>4, <2>5, <2>6, <2>11, SocketArgsIn, RecvfromRight
  <2>12. CASE a[0] = 15
    BY <2>3, <2>4, <2>5, <2>6, <2>12, SocketArgsIn, GetsockoptRight
  <2>13. CASE a[0] = 17
    BY <2>3, <2>4, <2>5, <2>6, <2>13, SocketArgsIn, RecvmsgRight
  <2>14. CASE a[0] = 19
    BY <2>3, <2>4, <2>5, <2>6, <2>14, SocketArgsIn, RecvmmsgRight
  <2>15. QED BY <2>2, <2>7, <2>8, <2>9, <2>10, <2>11, <2>12, <2>13, <2>14, SocketCallsAre
<1>4. QED BY <1>1, <1>2, <1>3, RowExact, Arities, Zenon DEF NoHook

-----------------------------------------------------------------------------
(* The default handling *)

LEMMA NoBytes == \A p \in Ptrs \cup {Null}, n \in Nat : p = Null \/ n = 0 => Bytes(p, n) = {}
BY DEF Bytes, Ptrs, Null

LEMMA DefaultCovers ==
    ASSUME NEW d, NEW a, NEW c, d.nargs \in 0 .. 6, d.map_args \in [0 .. 5 -> Len12],
           \A i \in 0 .. d.nargs - 1 : c.arg[i] = a[i] \/ d.map_args[i] = 0,
           \A i \in 0 .. 5 : a[i] \in Ptrs \cup {Null},
           \A i \in 0 .. 5 : i >= d.nargs /\ d.map_args[i] > 0 => a[i] = Null
    PROVE  Covers(DefaultClears(d, c), UNION {Bytes(a[i], d.map_args[i]) : i \in 0 .. 5})
<1> DEFINE n == d.nargs
           sz(i) == d.map_args[i]
           f == [i \in 1 .. n |-> IF sz(i - 1) > 0 /\ c.arg[i - 1] # Null
                                  THEN Clr(c.arg[i - 1], sz(i - 1)) ELSE None]
           w == [i \in 1 .. n |-> Bytes(a[i - 1], sz(i - 1))]
           all == UNION {Bytes(a[i], sz(i)) : i \in 0 .. 5}
<1>1. DefaultClears(d, c) = Each(f, n)
  BY Zenon DEF DefaultClears
<1>2. n \in 0 .. 6 /\ (\A i \in 0 .. 5 : sz(i) \in 0 .. 12) /\ \A i \in 0 .. 5 : a[i] \in Ptrs \cup {Null}
  BY DEF Len12, STRUCT
<1>3. /\ \A i \in 0 .. n - 1 : c.arg[i] = a[i] \/ sz(i) = 0
      /\ \A i \in 0 .. 5 : i >= n /\ sz(i) > 0 => a[i] = Null
  OBVIOUS
<1> HIDE DEF n, sz
<1>4. \A i \in 1 .. n : i - 1 \in 0 .. 5 /\ i - 1 \in 0 .. n - 1
  BY <1>2
<1>5. ASSUME NEW i \in 1 .. n PROVE Covers(f[i], w[i])
  <2>1. a[i - 1] \in Ptrs \cup {Null} /\ sz(i - 1) \in 0 .. 32 /\ sz(i - 1) \in Nat
    BY <1>2, <1>4
  <2>2. w[i] = Bytes(a[i - 1], sz(i - 1))
    OBVIOUS
  <2>3. CASE sz(i - 1) = 0
    <3>1. f[i] = None
      BY <2>3
    <3>2. w[i] = {}
      BY <2>1, <2>2, <2>3, NoBytes
    <3> HIDE DEF f, w
    <3>3. QED BY <3>1, <3>2, CoversNone
  <2>4. CASE sz(i - 1) # 0
    <3>1. c.arg[i - 1] = a[i - 1]
      BY <1>3, <1>4, <2>4
    <3>2. f[i] = IF a[i - 1] = Null THEN None ELSE Clr(a[i - 1], sz(i - 1))
      BY <2>1, <2>4, <3>1
    <3>3. Covers(IF a[i - 1] = Null THEN None ELSE Clr(a[i - 1], sz(i - 1)), Bytes(a[i - 1], sz(i - 1)))
      BY <2>1, ClrAt, Zenon
    <3> HIDE DEF f, w
    <3>4. QED BY <2>2, <3>2, <3>3
  <2>5. QED BY <2>3, <2>4
<1>6. Pieces(w, n) = all
  <2>1. ASSUME NEW i \in 1 .. n PROVE w[i] \subseteq all
    BY <1>4
  <2>2. ASSUME NEW i \in 0 .. 5 PROVE Bytes(a[i], sz(i)) \subseteq Pieces(w, n)
    <3>1. CASE i < n
      <4>1. i + 1 \in 1 .. n /\ (i + 1) - 1 = i
        BY <1>2, <3>1
      <4>2. w[i + 1] = Bytes(a[i], sz(i))
        BY <4>1
      <4> HIDE DEF w
      <4>3. QED BY <4>1, <4>2 DEF Pieces
    <3>2. CASE ~(i < n)
      <4>1. a[i] = Null \/ sz(i) = 0
        BY <1>2, <1>3, <3>2
      <4>2. Bytes(a[i], sz(i)) = {}
        BY <1>2, <4>1, NoBytes
      <4>3. QED BY <4>2
    <3>3. QED BY <3>1, <3>2
  <2> HIDE DEF w
  <2>3. all \subseteq Pieces(w, n)
    BY <2>2
  <2> HIDE DEF all
  <2>4. Pieces(w, n) \subseteq all
    BY <2>1 DEF Pieces
  <2>5. QED BY <2>3, <2>4
<1>7. n \in Nat
  BY <1>2
<1> HIDE DEF f, w, all
<1>8. Covers(Each(f, n), all)
  BY <1>5, <1>6, <1>7, CoversEach
<1>9. QED BY <1>1, <1>8 DEF all, sz

\* A row with no lengths.
LEMMA DefaultNone ==
    ASSUME NEW d, NEW c, d.nargs \in 0 .. 6, d.map_args \in [0 .. 5 -> Len12],
           \A i \in 0 .. 5 : d.map_args[i] = 0
    PROVE  Covers(DefaultClears(d, c), {})
<1> DEFINE a == [i \in 0 .. 5 |-> Null]
           all == UNION {Bytes(a[i], d.map_args[i]) : i \in 0 .. 5}
<1>1. \A i \in 0 .. 5 : a[i] = Null
  OBVIOUS
<1>2. \A i \in 0 .. d.nargs - 1 : i \in 0 .. 5
  OBVIOUS
<1>3. all = {}
  BY <1>1 DEF Bytes
<1> HIDE DEF a
<1>4. Covers(DefaultClears(d, c), all)
  BY <1>1, <1>2, DefaultCovers
<1>5. QED BY <1>3, <1>4

\* The calls with a hook, or of which more than the row is known.
Hooked(nr) == Name(nr) \in DOMAIN HookParams

\* A call without a hook writes what its row says.
LEMMA DefaultRight ==
    ASSUME NEW nr \in Known, ~Hooked(nr), syscall_desc[nr].post = NoHook PROVE RowRight(nr)
<1> DEFINE d == syscall_desc[nr]
<1>1. /\ d.nargs \in 0 .. 6 /\ d.map_args \in [0 .. 5 -> Len12] /\ d.retval_args \in BOOLEAN
      /\ d.post = NoHook
      /\ \A i \in 0 .. 5 : d.map_args[i] > 0 => d.retval_args = TRUE
      /\ \A i \in 0 .. 5 : i >= d.nargs /\ d.map_args[i] > 0 => nr = "waitid" /\ i = 4
  BY TableGood DEF Good
<1> HIDE DEF d
<1>2. SUFFICES ASSUME NEW a, NEW m, NEW k, NEW c, Outcome(nr, a, m, k),
                      d.retval_args => Sees(d.nargs, c, a, m, k)
               PROVE  Right(Cleared(d, c), k)
  BY <1>1, Zenon DEF RowRight, d
<1>3. \A i \in 0 .. 5 : /\ a[i] \in Ptrs \cup {Null}
                        /\ DeviatesAt(nr, i) => a[i] = Null
  <2>1. ASSUME NEW i \in 0 .. 5 PROVE a[i] \in Ptrs \cup {Null}
    <3>1. a[i] \in ParamsAt(nr, i)
      BY <1>2, Zenon DEF Outcome
    <3>2. a[i] \in {Null, Area(i)} \/ a[i] \in P(i) \/ a[i] \in Z
      BY <3>1, Zenon DEF ParamsAt, Hooked
    <3>3. Area(i) \in Ptrs /\ \A p \in P(i) : p \in Ptrs \/ p = Null
      BY Buffers DEF Ptrs
    <3>4. QED BY <3>2, <3>3 DEF Z, Null
  <2>2. QED BY <1>2, <2>1, Zenon DEF Outcome, Foreseen, ExpectedArgs
<1> DEFINE sz(i) == d.map_args[i]
           all == UNION {Bytes(a[i], sz(i)) : i \in 0 .. 5}
           written(odd) == UNION {Bytes(a[i], IF DeviatesAt(nr, i) THEN odd ELSE sz(i)) : i \in 0 .. 5}
<1>4. \E odd \in {0, PAIR} : k = Answer(0, written(odd))
  <2>1. k \in {Answer(Minus1, {})} \cup FixedSuccess(nr, a)
    BY <1>2, SMT DEF Outcome, Answers, Hooked
  <2>2. k # Failed
    <3>1. ~(Long(k.ret) < 0)
      BY <1>1, <1>2, Zenon DEF Outcome, d
    <3>2. QED BY <3>1, FailedIs
  <2>3. FixedSuccess(nr, a) = {Answer(0, written(odd)) : odd \in {0, PAIR}}
    BY Zenon DEF FixedSuccess, d
  <2> HIDE DEF written
  <2>4. QED BY <2>1, <2>2, <2>3 DEF Failed
<1>5. \A odd \in {0, PAIR} : written(odd) = all
  <2>1. \A odd \in {0, PAIR} : odd \in Nat
    BY Units
  <2>2. ASSUME NEW odd \in {0, PAIR}, NEW i \in 0 .. 5
        PROVE  Bytes(a[i], IF DeviatesAt(nr, i) THEN odd ELSE sz(i)) = Bytes(a[i], sz(i))
    <3>1. CASE DeviatesAt(nr, i)
      BY <1>3, <3>1, Zenon DEF Bytes
    <3>2. CASE ~DeviatesAt(nr, i)
      BY <3>2
    <3>3. QED BY <3>1, <3>2
  <2>3. QED BY <2>2
<1>6. k.ret = 0 /\ k.wrote = all
  <2> HIDE DEF written, all
  <2>1. QED BY <1>4, <1>5, AnswerIs
<1>7. Covers(Cleared(d, c), all)
  <2>1. CASE d.retval_args = TRUE
    <3>1. \A i \in 0 .. d.nargs - 1 : c.arg[i] = a[i]
      BY <1>2, <2>1, SMT DEF Sees
    <3>2. \A i \in 0 .. 5 : i >= d.nargs /\ d.map_args[i] > 0 => a[i] = Null
      <4>1. DeviatesAt("waitid", 4)
        <5>1. "waitid" \in DOMAIN Deviates /\ Deviates["waitid"] = {4}
          BY Zenon DEF Deviates
        <5>2. QED BY <5>1, Zenon DEF DeviatesAt
      <4>2. QED BY <1>1, <1>3, <4>1
    <3>3. Covers(DefaultClears(d, c), all)
      BY <1>1, <1>3, <3>1, <3>2, DefaultCovers
    <3>4. Cleared(d, c) = DefaultClears(d, c)
      BY <1>1, <2>1, Zenon DEF Cleared
    <3>5. QED BY <3>3, <3>4
  <2>2. CASE d.retval_args # TRUE
    <3>1. \A i \in 0 .. 5 : sz(i) = 0
      <4>1. \A i \in 0 .. 5 : sz(i) \in 0 .. 12
        <5>1. d.map_args \in [0 .. 5 -> Len12] /\ \A i \in 0 .. 5 : sz(i) = d.map_args[i]
          BY <1>1
        <5> HIDE DEF d, sz
        <5>2. QED BY <5>1 DEF Len12, STRUCT
      <4>2. \A i \in 0 .. 5 : ~(sz(i) > 0)
        BY <1>1, <2>2, Zenon
      <4> HIDE DEF sz
      <4>3. QED BY <4>1, <4>2, SMT
    <3>2. all = {}
      BY <1>3, <3>1, NoBytes
    <3>3. Covers(DefaultClears(d, c), {})
      BY <1>1, <3>1, DefaultNone
    <3>4. Cleared(d, c) = None \/ Cleared(d, c) = DefaultClears(d, c)
      BY <1>1, Zenon DEF Cleared
    <3>5. QED BY <3>2, <3>3, <3>4, CoversNone
  <2>3. QED BY <2>1, <2>2
<1> HIDE DEF all, sz, d
<1>8. Covers(Cleared(d, c), k.wrote) /\ k.ret \in 0 .. 256
  BY <1>6, <1>7
<1>9. QED BY <1>8, RightOf

\* ioctl is a row with its arguments saved and nothing to do with them.
LEMMA IoctlRight ==
    ASSUME NEW nr \in Known, Name(nr) = "ioctl", syscall_desc[nr] = Hook(3, NoHook) PROVE RowRight(nr)
<1> DEFINE d == syscall_desc[nr]
<1>1. /\ d.nargs = 3 /\ d.post = NoHook /\ d.map_args = [i \in 0 .. 5 |-> NoLens[i + 1]]
  BY DEF Hook, Desc
<1>2. /\ d.nargs \in 0 .. 6 /\ d.map_args \in [0 .. 5 -> Len12] /\ \A i \in 0 .. 5 : d.map_args[i] = 0
  BY <1>1, NoLensZero, TableGood DEF Good
<1> HIDE DEF d
<1>3. SUFFICES ASSUME NEW a, NEW m, NEW k, NEW c, Outcome(nr, a, m, k)
               PROVE  Right(Cleared(d, c), k)
  BY Zenon DEF RowRight, d
<1>4. a[2] = Null
  BY <1>3, Zenon DEF Outcome, Foreseen, ExpectedArgs
<1>5. k \in {Answer(Minus1, {})} \cup HookSuccess("ioctl", a, m)
  <2>1. "ioctl" \in DOMAIN HookParams
    BY HookNames
  <2>2. QED BY <1>3, <2>1, SMT DEF Outcome, Answers
<1>6. k # Failed
  <2>1. ~(Long(k.ret) < 0)
    BY <1>1, <1>3, Zenon DEF Outcome, d
  <2>2. QED BY <2>1, FailedIs
<1>7. k = Answer(0, {})
  <2>1. HookSuccess("ioctl", a, m) = {Answer(0, w) : w \in {{}, Bytes(a[2], STRUCT)}}
    BY Zenon DEF HookSuccess
  <2>2. Bytes(a[2], STRUCT) = {}
    BY <1>4 DEF Bytes
  <2>3. QED BY <1>5, <1>6, <2>1, <2>2 DEF Failed
<1>8. Covers(Cleared(d, c), {})
  <2>1. Covers(DefaultClears(d, c), {})
    BY <1>2, DefaultNone
  <2>2. Cleared(d, c) = None \/ Cleared(d, c) = DefaultClears(d, c)
    BY <1>1, Zenon DEF Cleared
  <2>3. QED BY <2>1, <2>2, CoversNone
<1>9. QED BY <1>7, <1>8, AnswerRight

\* A row without a post hook, or one of a call with a hook.
Ordinary(nr, d) == Hooked(nr) \/ d.post = NoHook

LEMMA OrdinaryRows == \A nr, n, lens : Ordinary(nr, Result(n, lens)) /\ Ordinary(nr, Plain(n))
BY DEF Ordinary, Result, Plain, Desc

LEMMA HookedNames ==
    /\ Hooked("read") /\ Hooked("write") /\ Hooked("ioctl") /\ Hooked("fcntl")
    /\ Hooked("getgroups16") /\ Hooked("readlink") /\ Hooked("old_mmap") /\ Hooked("socketcall")
    /\ Hooked("syslog") /\ Hooked("ipc") /\ Hooked("modify_ldt") /\ Hooked("quotactl")
    /\ Hooked("readv") /\ Hooked("sysctl") /\ Hooked("poll") /\ Hooked("nfsservctl")
    /\ Hooked("rt_sigpending") /\ Hooked("pread64") /\ Hooked("getcwd") /\ Hooked("mmap2")
    /\ Hooked("getgroups") /\ Hooked("mincore") /\ Hooked("getdents64") /\ Hooked("fcntl64")
    /\ Hooked("getxattr") /\ Hooked("listxattr") /\ Hooked("io_getevents") /\ Hooked("lookup_dcookie")
    /\ Hooked("epoll_wait") /\ Hooked("get_mempolicy") /\ Hooked("mq_timedreceive") /\ Hooked("readlinkat")
    /\ Hooked("ppoll") /\ Hooked("epoll_pwait") /\ Hooked("preadv") /\ Hooked("recvmmsg")
BY Names32, HookNames, SMT DEF Hooked

LEMMA HookedOnes ==
    ASSUME NEW nr, Hooked(nr)
    PROVE  nr \in DOMAIN HookParams \/ nr \in DOMAIN Like
BY Zenon DEF Hooked, Name

LEMMA HookOrdinary == \A nr, d : Hooked(nr) => Ordinary(nr, d)
BY Zenon DEF Ordinary

LEMMA Rows1Ordinary == \A nr \in DOMAIN Rows1 : Ordinary(nr, Rows1[nr])
<1>1. /\ Ordinary("exit", Rows1["exit"]) /\ Ordinary("read", Rows1["read"])
      /\ Ordinary("write", Rows1["write"]) /\ Ordinary("open", Rows1["open"])
      /\ Ordinary("waitpid", Rows1["waitpid"]) /\ Ordinary("time", Rows1["time"])
      /\ Ordinary("stat", Rows1["stat"]) /\ Ordinary("fstat", Rows1["fstat"])
      /\ Ordinary("ftime", Rows1["ftime"])
  BY HookedNames, HookOrdinary, OrdinaryRows, ZenonT(30) DEF Rows1
<1>2. /\ Ordinary("pipe", Rows1["pipe"]) /\ Ordinary("times", Rows1["times"])
      /\ Ordinary("ioctl", Rows1["ioctl"]) /\ Ordinary("fcntl", Rows1["fcntl"])
      /\ Ordinary("olduname", Rows1["olduname"]) /\ Ordinary("ustat", Rows1["ustat"])
      /\ Ordinary("sigaction", Rows1["sigaction"])
  BY HookedNames, HookOrdinary, OrdinaryRows, ZenonT(30) DEF Rows1
<1>3. QED BY <1>1, <1>2, Domain1, Zenon

LEMMA Rows2Ordinary == \A nr \in DOMAIN Rows2 : Ordinary(nr, Rows2[nr])
<1>1. /\ Ordinary("sigpending", Rows2["sigpending"]) /\ Ordinary("old_getrlimit", Rows2["old_getrlimit"])
      /\ Ordinary("getrusage", Rows2["getrusage"]) /\ Ordinary("gettimeofday", Rows2["gettimeofday"])
      /\ Ordinary("getgroups16", Rows2["getgroups16"]) /\ Ordinary("old_select", Rows2["old_select"])
      /\ Ordinary("lstat", Rows2["lstat"]) /\ Ordinary("readlink", Rows2["readlink"])
      /\ Ordinary("old_readdir", Rows2["old_readdir"])
  BY HookedNames, HookOrdinary, OrdinaryRows, ZenonT(30) DEF Rows2
<1>2. /\ Ordinary("old_mmap", Rows2["old_mmap"]) /\ Ordinary("statfs", Rows2["statfs"])
      /\ Ordinary("fstatfs", Rows2["fstatfs"]) /\ Ordinary("socketcall", Rows2["socketcall"])
      /\ Ordinary("syslog", Rows2["syslog"]) /\ Ordinary("setitimer", Rows2["setitimer"])
      /\ Ordinary("getitimer", Rows2["getitimer"]) /\ Ordinary("newstat", Rows2["newstat"])
      /\ Ordinary("newlstat", Rows2["newlstat"])
  BY HookedNames, HookOrdinary, OrdinaryRows, ZenonT(30) DEF Rows2
<1>3. /\ Ordinary("newfstat", Rows2["newfstat"]) /\ Ordinary("uname", Rows2["uname"])
      /\ Ordinary("vm86old", Rows2["vm86old"]) /\ Ordinary("wait4", Rows2["wait4"])
      /\ Ordinary("sysinfo", Rows2["sysinfo"]) /\ Ordinary("ipc", Rows2["ipc"])
      /\ Ordinary("clone", Rows2["clone"]) /\ Ordinary("newuname", Rows2["newuname"])
      /\ Ordinary("modify_ldt", Rows2["modify_ldt"])
  BY HookedNames, HookOrdinary, OrdinaryRows, ZenonT(30) DEF Rows2
<1>4. /\ Ordinary("adjtimex", Rows2["adjtimex"]) /\ Ordinary("sigprocmask", Rows2["sigprocmask"])
      /\ Ordinary("quotactl", Rows2["quotactl"]) /\ Ordinary("llseek", Rows2["llseek"])
      /\ Ordinary("getdents", Rows2["getdents"]) /\ Ordinary("select", Rows2["select"])
  BY HookedNames, HookOrdinary, OrdinaryRows, ZenonT(30) DEF Rows2
<1>5. QED BY <1>1, <1>2, <1>3, <1>4, Domain2, Zenon

LEMMA Rows3Ordinary == \A nr \in DOMAIN Rows3 : Ordinary(nr, Rows3[nr])
<1>1. /\ Ordinary("readv", Rows3["readv"]) /\ Ordinary("sysctl", Rows3["sysctl"])
      /\ Ordinary("sched_getparam", Rows3["sched_getparam"]) /\ Ordinary("sched_rr_get_interval", Rows3["sched_rr_get_interval"])
      /\ Ordinary("nanosleep", Rows3["nanosleep"]) /\ Ordinary("getresuid16", Rows3["getresuid16"])
      /\ Ordinary("ptregs_vm86", Rows3["ptregs_vm86"]) /\ Ordinary("poll", Rows3["poll"])
      /\ Ordinary("nfsservctl", Rows3["nfsservctl"])
  BY HookedNames, HookOrdinary, OrdinaryRows, ZenonT(30) DEF Rows3
<1>2. /\ Ordinary("getresgid16", Rows3["getresgid16"]) /\ Ordinary("rt_sigaction", Rows3["rt_sigaction"])
      /\ Ordinary("rt_sigprocmask", Rows3["rt_sigprocmask"]) /\ Ordinary("rt_sigpending", Rows3["rt_sigpending"])
      /\ Ordinary("rt_sigtimedwait", Rows3["rt_sigtimedwait"])
           /\ Ordinary("rt_sigqueueinfo", Rows3["rt_sigqueueinfo"])
      /\ Ordinary("pread64", Rows3["pread64"]) /\ Ordinary("getcwd", Rows3["getcwd"])
      /\ Ordinary("capget", Rows3["capget"])
  BY HookedNames, HookOrdinary, OrdinaryRows, ZenonT(30) DEF Rows3
<1>3. /\ Ordinary("sigaltstack", Rows3["sigaltstack"]) /\ Ordinary("sendfile", Rows3["sendfile"])
      /\ Ordinary("getrlimit", Rows3["getrlimit"]) /\ Ordinary("mmap2", Rows3["mmap2"])
      /\ Ordinary("stat64", Rows3["stat64"]) /\ Ordinary("lstat64", Rows3["lstat64"])
      /\ Ordinary("fstat64", Rows3["fstat64"]) /\ Ordinary("getgroups", Rows3["getgroups"])
      /\ Ordinary("getresuid", Rows3["getresuid"])
  BY HookedNames, HookOrdinary, OrdinaryRows, ZenonT(30) DEF Rows3
<1>4. /\ Ordinary("getresgid", Rows3["getresgid"])
  BY HookedNames, HookOrdinary, OrdinaryRows, ZenonT(30) DEF Rows3
<1>5. QED BY <1>1, <1>2, <1>3, <1>4, Domain3, Zenon

LEMMA Rows4Ordinary == \A nr \in DOMAIN Rows4 : Ordinary(nr, Rows4[nr])
<1>1. /\ Ordinary("mincore", Rows4["mincore"]) /\ Ordinary("getdents64", Rows4["getdents64"])
      /\ Ordinary("fcntl64", Rows4["fcntl64"]) /\ Ordinary("getxattr", Rows4["getxattr"])
      /\ Ordinary("listxattr", Rows4["listxattr"]) /\ Ordinary("sendfile64", Rows4["sendfile64"])
      /\ Ordinary("sched_getaffinity", Rows4["sched_getaffinity"])
           /\ Ordinary("get_thread_area", Rows4["get_thread_area"])
      /\ Ordinary("io_setup", Rows4["io_setup"])
  BY HookedNames, HookOrdinary, OrdinaryRows, ZenonT(30) DEF Rows4
<1>2. /\ Ordinary("io_getevents", Rows4["io_getevents"]) /\ Ordinary("io_cancel", Rows4["io_cancel"])
      /\ Ordinary("lookup_dcookie", Rows4["lookup_dcookie"]) /\ Ordinary("epoll_wait", Rows4["epoll_wait"])
      /\ Ordinary("timer_create", Rows4["timer_create"]) /\ Ordinary("timer_settime", Rows4["timer_settime"])
      /\ Ordinary("timer_gettime", Rows4["timer_gettime"]) /\ Ordinary("clock_gettime", Rows4["clock_gettime"])
      /\ Ordinary("clock_getres", Rows4["clock_getres"])
  BY HookedNames, HookOrdinary, OrdinaryRows, ZenonT(30) DEF Rows4
<1>3. /\ Ordinary("clock_nanosleep", Rows4["clock_nanosleep"]) /\ Ordinary("statfs64", Rows4["statfs64"])
      /\ Ordinary("fstatfs64", Rows4["fstatfs64"]) /\ Ordinary("get_mempolicy", Rows4["get_mempolicy"])
      /\ Ordinary("mq_timedreceive", Rows4["mq_timedreceive"])
           /\ Ordinary("mq_getsetattr", Rows4["mq_getsetattr"])
      /\ Ordinary("waitid", Rows4["waitid"])
  BY HookedNames, HookOrdinary, OrdinaryRows, ZenonT(30) DEF Rows4
<1>4. QED BY <1>1, <1>2, <1>3, Domain4, Zenon

LEMMA Rows5Ordinary == \A nr \in DOMAIN Rows5 : Ordinary(nr, Rows5[nr])
<1>1. /\ Ordinary("fstatat64", Rows5["fstatat64"]) /\ Ordinary("readlinkat", Rows5["readlinkat"])
      /\ Ordinary("pselect6", Rows5["pselect6"]) /\ Ordinary("ppoll", Rows5["ppoll"])
      /\ Ordinary("get_robust_list", Rows5["get_robust_list"]) /\ Ordinary("splice", Rows5["splice"])
      /\ Ordinary("move_pages", Rows5["move_pages"]) /\ Ordinary("getcpu", Rows5["getcpu"])
      /\ Ordinary("epoll_pwait", Rows5["epoll_pwait"])
  BY HookedNames, HookOrdinary, OrdinaryRows, ZenonT(30) DEF Rows5
<1>2. /\ Ordinary("timerfd_settime", Rows5["timerfd_settime"])
           /\ Ordinary("timerfd_gettime", Rows5["timerfd_gettime"])
      /\ Ordinary("pipe2", Rows5["pipe2"]) /\ Ordinary("preadv", Rows5["preadv"])
      /\ Ordinary("rt_tgsigqueueinfo", Rows5["rt_tgsigqueueinfo"])
           /\ Ordinary("perf_event_open", Rows5["perf_event_open"])
      /\ Ordinary("recvmmsg", Rows5["recvmmsg"]) /\ Ordinary("prlimit64", Rows5["prlimit64"])
      /\ Ordinary("name_to_handle_at", Rows5["name_to_handle_at"])
  BY HookedNames, HookOrdinary, OrdinaryRows, ZenonT(30) DEF Rows5
<1>3. /\ Ordinary("open_by_handle_at", Rows5["open_by_handle_at"])
           /\ Ordinary("clock_adjtime", Rows5["clock_adjtime"])
  BY HookedNames, HookOrdinary, OrdinaryRows, ZenonT(30) DEF Rows5
<1>4. QED BY <1>1, <1>2, <1>3, Domain5, Zenon

LEMMA TableOrdinary == \A nr \in Known : Ordinary(nr, syscall_desc[nr])
BY Rows1Ordinary, Rows2Ordinary, Rows3Ordinary, Rows4Ordinary, Rows5Ordinary, RowAt, Zenon DEF Known

LEMMA IoctlExact == RowRight("ioctl")
<1>1. syscall_desc["ioctl"] = Hook(3, NoHook) /\ "ioctl" \in Known
  BY RowAt, Domain1, Zenon DEF Rows1, Known
<1>2. Name("ioctl") = "ioctl"
  BY Names32, Zenon
<1>3. QED BY <1>1, <1>2, IoctlRight, Zenon

LEMMA NfsservctlExact == RowRight("nfsservctl")
<1>1. syscall_desc["nfsservctl"] = Hook(3, NoHook) /\ "nfsservctl" \in Known
  BY RowAt, Domain3, Zenon DEF Rows3, Known
<1>2. Name("nfsservctl") = "ioctl"
  BY Names32, Zenon
<1>3. QED BY <1>1, <1>2, IoctlRight, Zenon

\* Every row but that of write, which the tool may change.
LEMMA AllExact == \A nr \in Known \ {"write"} : RowRight(nr)
<1>1. ASSUME NEW nr \in Known \ {"write"}, Hooked(nr) PROVE RowRight(nr)
  <2>1. \A x \in {"read", "ioctl", "fcntl", "getgroups16", "readlink", "old_mmap",
                "socketcall", "syslog", "ipc"} : RowRight(x)
    BY ReadExact, IoctlExact, FcntlExact, Getgroups16Exact, ReadlinkExact, OldMmapExact,
       SocketcallExact, SyslogExact, IpcExact, Zenon
  <2>2. \A x \in {"modify_ldt", "quotactl", "readv", "sysctl", "poll", "nfsservctl",
                "rt_sigpending", "pread64", "getcwd"} : RowRight(x)
    BY ModifyLdtExact, QuotactlExact, ReadvExact, SysctlExact, PollExact, NfsservctlExact,
       RtSigpendingExact, Pread64Exact, GetcwdExact, Zenon
  <2>3. \A x \in {"mmap2", "getgroups", "mincore", "getdents64", "fcntl64", "getxattr",
                "listxattr", "io_getevents", "lookup_dcookie"} : RowRight(x)
    BY Mmap2Exact, GetgroupsExact, MincoreExact, Getdents64Exact, Fcntl64Exact,
       GetxattrExact, ListxattrExact, IoGeteventsExact, LookupDcookieExact, Zenon
  <2>4. \A x \in {"epoll_wait", "get_mempolicy", "mq_timedreceive", "readlinkat", "ppoll",
                "epoll_pwait", "preadv", "recvmmsg"} : RowRight(x)
    BY EpollWaitExact, GetMempolicyExact, MqTimedreceiveExact, ReadlinkatExact, PpollExact,
       EpollPwaitExact, PreadvExact, RecvmmsgExact, Zenon
  <2>5. nr \in DOMAIN HookParams \/ nr \in DOMAIN Like
    BY <1>1, HookedOnes
  <2>6. QED BY <2>5, <2>1, <2>2, <2>3, <2>4, HookNames, LikeNames, SMT
<1>2. ASSUME NEW nr \in Known, ~Hooked(nr) PROVE RowRight(nr)
  BY <1>2, TableOrdinary, DefaultRight, Zenon DEF Ordinary
<1>3. QED BY <1>1, <1>2, Zenon

-----------------------------------------------------------------------------
(* What the calls write and what their ends clear *)

\* A row that clears nothing, with the hook of a tool or without.
ClearsNothing(d) ==
    /\ d.post \in {NoHook, "tool_hook"}
    /\ d.nargs \in 0 .. 6 /\ d.map_args \in [0 .. 5 -> Len12]
    /\ \A i \in 0 .. 5 : d.map_args[i] = 0

LEMMA NothingCleared ==
    ASSUME NEW d, ClearsNothing(d), NEW c PROVE Covers(Cleared(d, c), {})
<1>1. Covers(DefaultClears(d, c), {})
  BY DefaultNone DEF ClearsNothing
<1>2. Clears("tool_hook", c) = None
  BY Zenon DEF Clears
<1>3. Cleared(d, c) = None \/ Cleared(d, c) = DefaultClears(d, c)
  BY <1>2, Zenon DEF Cleared, ClearsNothing
<1>4. QED BY <1>1, <1>3, CoversNone

LEMMA WriteRow == ClearsNothing(syscall_desc["write"])
<1>1. syscall_desc["write"] = Plain(3) /\ "write" \in Known
  BY RowAt, Domain1, Zenon DEF Rows1, Known
<1>2. Good("write", Plain(3))
  BY <1>1, TableGood
<1>3. Plain(3).post = NoHook /\ Plain(3).map_args = [i \in 0 .. 5 |-> NoLens[i + 1]]
  BY DEF Plain, Desc
<1> DEFINE d == Plain(3)
<1>4. d.nargs \in 0 .. 6 /\ d.map_args \in [0 .. 5 -> Len12] /\ d.post = NoHook
  BY <1>2, <1>3 DEF Good
<1>5. d.map_args = [i \in 0 .. 5 |-> NoLens[i + 1]]
  BY <1>3
<1>6. syscall_desc["write"] = d
  BY <1>1
<1> HIDE DEF d
<1>7. \A i \in 0 .. 5 : d.map_args[i] = 0
  BY <1>5, NoLensZero
<1>8. QED BY <1>4, <1>6, <1>7, Zenon DEF ClearsNothing

\* What the run of the model assumes too: the calls that the rows and hooks were written
\* for, and no tool but one that hooks write.
Expected == ~AnyCall /\ Registered \subseteq {"write"}

LEMMA OtherNames ==
    /\ "unknown" \notin Known /\ NoNr # "unknown" /\ "unknown" # "write" /\ "write" \in Known
    /\ "unknown" \notin DOMAIN Like /\ "unknown" \notin DOMAIN HookParams
    /\ "write" \notin DOMAIN Like /\ "write" \in DOMAIN HookParams
BY Domain1, Domain2, Domain3, Domain4, Domain5, LikeNames, HookNames, SMT DEF Known, NoNr

LEMMA RowOf == ASSUME Expected, NEW nr, nr # "write" PROVE Row(nr) = syscall_desc[nr]
BY DEF Expected, Row

\* What a call has written when it is over, as the tool that is to clear it may rely on.
Delivered(nr, a, m, k) ==
    /\ k.ret \in 0 .. Word - 1
    /\ IF nr \in Known \ {"write"} THEN Outcome(nr, a, m, k) ELSE k.wrote = {}

LEMMA WriteDelivers ==
    ASSUME NEW a, NEW m, NEW k, \A i \in 0 .. 5 : a[i] \in ParamsAt("write", i),
           k \in Answers("write", a, m)
    PROVE  k.ret \in 0 .. Word - 1 /\ k.wrote = {}
<1>1. Name("write") = "write"
  BY OtherNames, Zenon DEF Name
<1>2. \A i \in 0 .. 5 : a[i] \in HookParams["write"][i + 1]
  BY <1>1, OtherNames, Zenon DEF ParamsAt
<1>3. a[2] \in {INT}
  BY <1>2, Params_write, Zenon
<1>4. k \in {Answer(Minus1, {})} \cup HookSuccess("write", a, m)
  BY <1>1, OtherNames, SMT DEF Answers
<1>5. HookSuccess("write", a, m) = {Answer(a[2], {})}
  BY Zenon DEF HookSuccess
<1>6. k = Failed \/ k = Answer(a[2], {})
  BY <1>4, <1>5 DEF Failed
<1>7. a[2] \in 0 .. 256
  BY <1>3 DEF INT
<1>8. CASE k = Failed
  BY <1>8, FailedIs, Numbers
<1>9. CASE k = Answer(a[2], {})
  BY <1>7, <1>9, AnswerValue, Zenon
<1>10. QED BY <1>6, <1>8, <1>9

LEMMA UnknownDelivers ==
    ASSUME NEW a, NEW m, NEW k, a[1] = Null, k \in Answers("unknown", a, m)
    PROVE  k.ret \in 0 .. Word - 1 /\ k.wrote = {}
<1>1. Name("unknown") = "unknown"
  BY OtherNames, Zenon DEF Name
<1>2. k \in {Answer(Minus1, {})} \cup {Answer(0, w) : w \in {{}, Bytes(a[1], INT)}}
  BY <1>1, OtherNames, SMT DEF Answers
<1>3. Bytes(a[1], INT) = {}
  BY DEF Bytes
<1>4. k = Failed \/ k = Answer(0, {})
  BY <1>2, <1>3 DEF Failed
<1>5. CASE k = Failed
  BY <1>5, FailedIs, Numbers
<1>6. CASE k = Answer(0, {})
  <2>1. 0 \in 0 .. 256
    OBVIOUS
  <2>2. QED BY <1>6, <2>1, AnswerValue, Zenon
<1>7. QED BY <1>4, <1>5, <1>6

\* The hook of a row is right in what it finds, so the answer has its type.
LEMMA OutcomeRet ==
    ASSUME NEW nr \in Known \ {"write"}, NEW a, NEW m, NEW k, Outcome(nr, a, m, k)
    PROVE  k.ret \in 0 .. Word - 1
<1> DEFINE c == [arg |-> a, ret |-> k.ret, mem |-> m, out |-> k]
<1>1. \A n : Sees(n, c, a, m, k)
  BY DEF Sees
<1> HIDE DEF c
<1>2. RowRight(nr)
  BY AllExact
<1>3. Right(Cleared(syscall_desc[nr], c), k)
  BY <1>1, <1>2, Zenon DEF RowRight
<1>4. QED BY <1>3, Zenon DEF Right

LEMMA KernelDelivers ==
    ASSUME Expected, NEW nr \in Known \cup {"unknown"}, NEW a, NEW m, NEW k,
           \A i \in 0 .. 5 : a[i] \in ParamsAt(nr, i), m \in Mems(Name(nr), a),
           ExpectedArgs(nr, a, m), k \in Answers(nr, a, m), ExpectedAnswer(nr, a, m, k)
    PROVE  Delivered(nr, a, m, k)
<1>1. CASE nr = "unknown"
  <2>1. a[1] = Null
    BY <1>1, OtherNames, Zenon DEF ExpectedArgs
  <2>2. QED BY <1>1, <2>1, UnknownDelivers, OtherNames, Zenon DEF Delivered
<1>2. CASE nr = "write"
  <2>1. k.ret \in 0 .. Word - 1 /\ k.wrote = {}
    BY <1>2, WriteDelivers, Zenon
  <2>2. nr \notin Known \ {"write"}
    BY <1>2
  <2>3. QED BY <2>1, <2>2, Zenon DEF Delivered
<1>3. CASE nr \in Known \ {"write"}
  <2>1. Row(nr) = syscall_desc[nr]
    BY <1>3, RowOf
  <2>2. Foreseen(nr, a, m, k) /\ (Long(k.ret) < 0 /\ nr \in Known => syscall_desc[nr].post # NoHook)
    BY <2>1, Zenon DEF Foreseen, ExpectedAnswer
  <2>3. Outcome(nr, a, m, k)
    BY <2>2, Zenon DEF Outcome
  <2>4. QED BY <1>3, <2>3, OutcomeRet, Zenon DEF Delivered
<1>4. QED BY <1>1, <1>2, <1>3

-----------------------------------------------------------------------------
(* The bitmap: after every step it has the tags of the data that is there, and of what a   *)
(* call is about to clear                                                                  *)

\* A call under way.
Running(l) ==
    /\ l.nr \in Known \cup {"unknown"}
    /\ \A i \in 0 .. 5 : l.arg[i] \in ParamsAt(l.nr, i)
    /\ l.mem \in Mems(Name(l.nr), l.arg) /\ ExpectedArgs(l.nr, l.arg, l.mem)
    /\ l.done => Delivered(l.nr, l.arg, l.mem, l.out)

CallOK(l) ==
    /\ l.nr # NoNr => Running(l)
    /\ l.nr \in {NoNr, "exit"} => ~l.done
    /\ ~l.done => l.out.wrote = {}

MemoryTable == ClearsNothing(Row("write"))
MemoryCalls == \A t \in Threads : CallOK(call[t])
PendingInv  == \A t \in Threads : call[t].out.wrote \cap tainted = {}

MemoryInv == MemoryTable /\ MemoryCalls /\ PendingInv /\ NoStaleByte /\ NoLostByte /\ tags \subseteq Byte

LEMMA CallFields ==
    ASSUME NEW nr, NEW a, NEW m, NEW k, NEW done
    PROVE  LET l == Call(nr, a, m, k, done)
           IN l.nr = nr /\ l.arg = a /\ l.mem = m /\ l.out = k /\ l.done = done
BY DEF Call

LEMMA NoCallOK == CallOK(NoCall) /\ NoCall.out.wrote = {}
<1>1. NoCall.out.wrote = {}
  BY NoCallIs, AnswerIs
<1>2. QED BY <1>1, NoCallIs, Zenon DEF CallOK

LEMMA InitMemory == Init => MemoryInv
<1> SUFFICES ASSUME Init PROVE MemoryInv
  OBVIOUS
<1>1. MemoryTable
  <2>1. desc = [nr \in Registered |-> syscall_desc[nr]]
    BY DEF Init
  <2>2. Row("write") = syscall_desc["write"]
    BY <2>1, Zenon DEF Row
  <2>3. QED BY <2>2, WriteRow, Zenon DEF MemoryTable
<1>2. \A t \in Threads : call[t] = NoCall
  BY DEF Init
<1>3. MemoryCalls /\ PendingInv
  BY <1>2, NoCallOK DEF MemoryCalls, PendingInv
<1>4. NoStaleByte /\ NoLostByte /\ tags \subseteq Byte
  BY DEF Init, NoStaleByte, NoLostByte
<1>5. QED BY <1>1, <1>3, <1>4 DEF MemoryInv

\* The calls of tagmap_clrn of a row that is handled.
ClearsOf(d, c) == IF d.post # NoHook THEN Clears(d.post, c) ELSE DefaultClears(d, c)

LEMMA ExactClears ==
    ASSUME NEW s, NEW w, Covers(s, w), \A i \in DOMAIN s : Exact(s[i][1], s[i][2]), tags \subseteq Byte
    PROVE  AfterClears(tags, s) = tags \ w
<1>1. s \in Ranges /\ Spans(s) \cap Byte = w
  BY Zenon DEF Covers
<1>2. AfterClears(tags, s) = tags \ Spans(s)
  BY <1>1, AfterSpans
<1>3. QED BY <1>1, <1>2

\* At the end of a call the tags of exactly the bytes it wrote are cleared.
LEMMA ExitClears ==
    ASSUME Expected, DispatchInv, MemoryInv, NEW t \in Threads, sysexit_save(t)
    PROVE  tags' = tags \ call[t].out.wrote
<1> DEFINE l == call[t]
           nr == l.nr
           c  == [arg |-> ctx[t].arg, ret |-> l.out.ret, mem |-> l.mem, out |-> l.out]
           d  == Row(ctx[t].nr)
           s  == ClearsOf(d, c)
           handled == ctx[t].nr # Unknown /\ Saves(ctx[t].nr)
<1>1. l.done /\ IF ~handled THEN tags' = tags
                ELSE (\A i \in DOMAIN s : Exact(s[i][1], s[i][2])) /\ tags' = AfterClears(tags, s)
  BY Zenon DEF sysexit_save, Expected, ClearsOf
<1>2. nr # NoNr /\ Running(l)
  BY <1>1, Zenon DEF MemoryInv, MemoryCalls, CallOK
<1>3. Delivered(nr, l.arg, l.mem, l.out)
  BY <1>1, <1>2, Zenon DEF Running
<1>4. SeesCall(ctx[t], l)
  BY SeesCallIff DEF DispatchInv
<1>5. tags \subseteq Byte
  BY DEF MemoryInv
<1>6. CASE nr \notin Known
  <2>1. ctx[t].nr = Unknown
    <3>1. HookSeesCall
      BY DEF DispatchInv
    <3>2. QED BY <1>2, <1>6, <3>1, Zenon DEF HookSeesCall
  <2>2. tags' = tags
    BY <1>1, <2>1, Zenon
  <2>3. l.out.wrote = {}
    BY <1>3, <1>6, Zenon DEF Delivered
  <2>4. QED BY <2>2, <2>3
<1>7. CASE nr \in Known
  <2>1. ctx[t].nr = nr /\ nr # Unknown
    BY <1>4, <1>7, Names, Zenon DEF SeesCall
  <2>2. ~handled => Cleared(d, c) = None
    BY <2>1, Zenon DEF Cleared, Saves
  <2>3. handled => Cleared(d, c) = s
    BY <2>1, Zenon DEF Cleared, Saves, ClearsOf
  <2>4. Covers(Cleared(d, c), l.out.wrote)
    <3>1. CASE nr = "write"
      <4>1. ClearsNothing(d)
        BY <2>1, <3>1, Zenon DEF MemoryInv, MemoryTable
      <4>2. l.out.wrote = {}
        BY <1>3, <3>1, Zenon DEF Delivered
      <4> HIDE DEF d, c
      <4>3. QED BY <4>1, <4>2, NothingCleared
    <3>2. CASE nr # "write"
      <4>1. d = syscall_desc[nr]
        BY <2>1, <3>2, RowOf
      <4>2. Outcome(nr, l.arg, l.mem, l.out)
        BY <1>3, <1>7, <3>2, Zenon DEF Delivered
      <4>3. RowRight(nr)
        BY <1>7, <3>2, AllExact
      <4>4. d.post # NoHook \/ d.retval_args => \A i \in 0 .. d.nargs - 1 : ctx[t].arg[i] = l.arg[i]
        BY <1>4, <1>7, <2>1, Zenon DEF SeesCall
      <4>5. /\ DOMAIN c = {"arg", "ret", "mem", "out"}
            /\ c.arg = ctx[t].arg /\ c.ret = l.out.ret /\ c.mem = l.mem /\ c.out = l.out
        OBVIOUS
      <4> HIDE DEF c, d
      <4>6. d.post # NoHook \/ d.retval_args => Sees(d.nargs, c, l.arg, l.mem, l.out)
        BY <4>4, <4>5, Zenon DEF Sees
      <4> HIDE DEF l, nr
      <4>7. Right(Cleared(d, c), l.out)
        BY <4>1, <4>2, <4>3, <4>6, Zenon DEF RowRight
      <4>8. QED BY <4>7, Zenon DEF Right
    <3>3. QED BY <3>1, <3>2
  <2> HIDE DEF s, d, c, l
  <2>5. CASE ~handled
    <3>1. Covers(None, l.out.wrote)
      BY <2>2, <2>4, <2>5, Zenon
    <3>2. l.out.wrote = {}
      BY <3>1, CoversNone, Zenon DEF Covers
    <3>3. tags' = tags
      BY <1>1, <2>5, Zenon
    <3>4. QED BY <3>2, <3>3 DEF l
  <2>6. CASE handled
    <3>1. Covers(s, l.out.wrote)
      BY <2>3, <2>4, <2>6, Zenon
    <3>2. (\A i \in DOMAIN s : Exact(s[i][1], s[i][2])) /\ tags' = AfterClears(tags, s)
      BY <1>1, <2>6, Zenon
    <3>3. AfterClears(tags, s) = tags \ l.out.wrote
      BY <1>5, <3>1, <3>2, ExactClears
    <3>4. QED BY <3>2, <3>3 DEF l
  <2>7. QED BY <2>5, <2>6
<1>8. QED BY <1>6, <1>7

\* Steps that change neither the table nor what a call has written.
LEMMA SameTable == desc' = desc /\ MemoryTable => MemoryTable'
<1> SUFFICES ASSUME desc' = desc, MemoryTable PROVE MemoryTable'
  OBVIOUS
<1>1. Row("write")' = Row("write")
  BY DEF Row
<1>2. QED BY <1>1, Zenon DEF MemoryTable, ClearsNothing

LEMMA ExitMemory ==
    ASSUME Expected, DispatchInv, MemoryInv, NEW t \in Threads, sysexit_save(t) PROVE MemoryInv'
<1>1. tags' = tags \ call[t].out.wrote
  BY ExitClears
<1>2. call' = [call EXCEPT ![t] = NoCall] /\ UNCHANGED <<desc, tainted>>
  BY DEF sysexit_save
<1>3. DOMAIN call = Threads
  BY DEF DispatchInv, ThreadInv
<1>4. \A u \in Threads : call'[u] = IF u = t THEN NoCall ELSE call[u]
  BY <1>2, <1>3
<1>5. MemoryTable'
  BY <1>2, SameTable DEF MemoryInv
<1>6. MemoryCalls' /\ PendingInv'
  <2>1. \A u \in Threads : CallOK(call[u]) /\ call[u].out.wrote \cap tainted = {}
    BY DEF MemoryInv, MemoryCalls, PendingInv
  <2>2. \A u \in Threads : CallOK(call'[u]) /\ call'[u].out.wrote \cap tainted = {}
    BY <1>4, <2>1, NoCallOK
  <2>3. QED BY <1>2, <2>2 DEF MemoryCalls, PendingInv
<1>7. NoStaleByte'
  <2>1. ASSUME NEW x \in tags', x \notin Pending' PROVE x \in tainted
    <3>1. x \in tags /\ x \notin call[t].out.wrote
      BY <1>1, <2>1
    <3>2. \A u \in Threads : x \notin call'[u].out.wrote
      BY <2>1 DEF Pending
    <3>3. \A u \in Threads : x \notin call[u].out.wrote
      BY <1>4, <3>1, <3>2
    <3>4. x \notin Pending
      BY <3>3 DEF Pending
    <3>5. QED BY <3>1, <3>4 DEF MemoryInv, NoStaleByte
  <2>2. QED BY <1>2, <2>1 DEF NoStaleByte
<1>8. NoLostByte' /\ (tags \subseteq Byte)'
  BY <1>1, <1>2 DEF MemoryInv, NoLostByte, PendingInv
<1>9. QED BY <1>5, <1>6, <1>7, <1>8 DEF MemoryInv

LEMMA EnterMemory ==
    ASSUME Expected, DispatchInv, MemoryInv, NEW t \in Threads, NEW nr \in CallsOf[t], Enter(t, nr)
    PROVE  MemoryInv'
<1>1. PICK a, m : EnterWith(t, nr, a, m)
  BY EnterIs, Zenon
<1> DEFINE l == Call(nr, a, m, Answer(0, {}), FALSE)
<1>2. UNCHANGED <<desc, tags, tainted>>
  BY DEF Enter
<1>3. call[t].nr = NoNr /\ call[t].out.wrote = {}
  BY DEF Enter, MemoryInv, MemoryCalls, CallOK
<1>4. nr \in Known \cup {"unknown"}
  BY SyscallDispatch32Assumption
<1>5. l.nr = nr /\ l.arg = a /\ l.mem = m /\ l.out.wrote = {} /\ ~l.done
  BY AnswerIs DEF Call
<1>6. \A u \in Threads : call'[u] = IF u = t THEN l ELSE call[u]
  BY <1>1 DEF EnterWith, DispatchInv, ThreadInv
<1> HIDE DEF l
<1>7. CallOK(l)
  <2>1. Running(l)
    BY <1>1, <1>4, <1>5, Zenon DEF Running, EnterWith, Expected
  <2>2. nr # NoNr
    BY <1>4, Names, OtherNames
  <2>3. QED BY <1>5, <2>1, <2>2, Zenon DEF CallOK
<1>8. MemoryTable'
  BY <1>2, SameTable DEF MemoryInv
<1>9. MemoryCalls' /\ PendingInv'
  <2>1. \A u \in Threads : CallOK(call[u]) /\ call[u].out.wrote \cap tainted = {}
    BY DEF MemoryInv, MemoryCalls, PendingInv
  <2>2. \A u \in Threads : CallOK(call'[u]) /\ call'[u].out.wrote \cap tainted = {}
    BY <1>5, <1>6, <1>7, <2>1
  <2>3. QED BY <1>2, <2>2 DEF MemoryCalls, PendingInv
<1>10. \A u \in Threads : call'[u].out.wrote = call[u].out.wrote
  BY <1>3, <1>5, <1>6
<1>11. tags' = tags /\ tainted' = tainted /\ Pending' = Pending
  BY <1>2, <1>10 DEF Pending
<1>12. NoStaleByte' /\ NoLostByte' /\ (tags \subseteq Byte)'
  BY <1>11, Zenon DEF MemoryInv, NoStaleByte, NoLostByte
<1>13. QED BY <1>8, <1>9, <1>12 DEF MemoryInv

LEMMA KernelMemory ==
    ASSUME Expected, DispatchInv, MemoryInv, NEW t \in Threads, Kernel(t)
    PROVE  MemoryInv'
<1>1. PICK k \in Answers(call[t].nr, call[t].arg, call[t].mem) :
          /\ AnyCall \/ ExpectedAnswer(call[t].nr, call[t].arg, call[t].mem, k)
          /\ call' = [call EXCEPT ![t] = Call(call[t].nr, call[t].arg, call[t].mem, k, TRUE)]
          /\ tainted' = tainted \ k.wrote
  BY Zenon DEF Kernel
<1> DEFINE l == Call(call[t].nr, call[t].arg, call[t].mem, k, TRUE)
<1>2. UNCHANGED <<desc, tags>> /\ call[t].nr \notin {NoNr, "exit"} /\ ~call[t].done
  BY DEF Kernel
<1>3. \A u \in Threads : CallOK(call[u]) /\ call[u].out.wrote \cap tainted = {}
  BY DEF MemoryInv, MemoryCalls, PendingInv
<1>4. call[t].out.wrote = {} /\ Running(call[t])
  BY <1>2, <1>3 DEF CallOK
<1>5. /\ l.nr = call[t].nr /\ l.arg = call[t].arg /\ l.mem = call[t].mem
      /\ l.out = k /\ l.done = TRUE
  BY DEF Call
<1>6. \A u \in Threads : call'[u] = IF u = t THEN l ELSE call[u]
  BY <1>1 DEF DispatchInv, ThreadInv
<1> HIDE DEF l
<1>7. CallOK(l)
  <2>1. ExpectedAnswer(call[t].nr, call[t].arg, call[t].mem, k)
    BY <1>1, Zenon DEF Expected
  <2>2. Delivered(call[t].nr, call[t].arg, call[t].mem, k)
    BY <1>1, <1>4, <2>1, KernelDelivers, Zenon DEF Running
  <2>3. Running(l)
    BY <1>4, <1>5, <2>2, Zenon DEF Running
  <2>4. QED BY <1>2, <1>5, <2>3, Zenon DEF CallOK
<1>8. MemoryTable'
  BY <1>2, SameTable DEF MemoryInv
<1>9. MemoryCalls' /\ PendingInv'
  <2>1. \A u \in Threads : CallOK(call'[u])
    BY <1>3, <1>6, <1>7
  <2>2. \A u \in Threads : call'[u].out.wrote \cap tainted' = {}
    BY <1>1, <1>3, <1>5, <1>6
  <2>3. QED BY <2>1, <2>2 DEF MemoryCalls, PendingInv
<1>10. NoStaleByte'
  <2>1. ASSUME NEW x \in tags, x \notin Pending' PROVE x \in tainted'
    <3>1. \A u \in Threads : x \notin call'[u].out.wrote
      BY <2>1 DEF Pending
    <3>2. x \notin k.wrote /\ \A u \in Threads : x \notin call[u].out.wrote
      BY <1>4, <1>5, <1>6, <3>1
    <3>3. x \in tainted
      BY <3>2 DEF Pending, MemoryInv, NoStaleByte
    <3>4. QED BY <1>1, <3>2, <3>3
  <2>2. QED BY <1>2, <2>1 DEF NoStaleByte
<1>11. NoLostByte' /\ (tags \subseteq Byte)'
  BY <1>1, <1>2 DEF MemoryInv, NoLostByte
<1>12. QED BY <1>8, <1>9, <1>10, <1>11 DEF MemoryInv

LEMMA FreeMemory ==
    ASSUME DispatchInv, MemoryInv, NEW t \in Threads, thread_free(t) PROVE MemoryInv'
<1>1. call[t].nr = "exit" /\ call' = [call EXCEPT ![t] = NoCall] /\ UNCHANGED <<desc, tags, tainted>>
  BY DEF thread_free
<1>2. \A u \in Threads : call'[u] = IF u = t THEN NoCall ELSE call[u]
  BY <1>1 DEF DispatchInv, ThreadInv
<1>3. MemoryTable'
  BY <1>1, SameTable DEF MemoryInv
<1>4. \A u \in Threads : CallOK(call[u]) /\ call[u].out.wrote \cap tainted = {}
  BY DEF MemoryInv, MemoryCalls, PendingInv
<1>5. MemoryCalls' /\ PendingInv'
  <2>1. \A u \in Threads : CallOK(call'[u]) /\ call'[u].out.wrote \cap tainted = {}
    BY <1>2, <1>4, NoCallOK
  <2>2. QED BY <1>1, <2>1 DEF MemoryCalls, PendingInv
<1>6. call[t].out.wrote = {}
  BY <1>1, <1>4 DEF CallOK
<1>7. \A u \in Threads : call'[u].out.wrote = call[u].out.wrote
  BY <1>2, <1>6, NoCallOK
<1>8. tags' = tags /\ tainted' = tainted /\ Pending' = Pending
  BY <1>1, <1>7 DEF Pending
<1>9. NoStaleByte' /\ NoLostByte' /\ (tags \subseteq Byte)'
  BY <1>8, Zenon DEF MemoryInv, NoStaleByte, NoLostByte
<1>10. QED BY <1>3, <1>5, <1>9 DEF MemoryInv

LEMMA RegisterMemory ==
    ASSUME Expected, DispatchInv, MemoryInv, NEW nr \in Registered, Register(nr)
    PROVE  MemoryInv'
<1>1. PICK d \in {syscall_set_pre(desc[nr], "tool_hook"), syscall_set_post(desc[nr], "tool_hook"),
                  syscall_clr_pre(desc[nr]), syscall_clr_post(desc[nr])} :
          desc' = [desc EXCEPT ![nr] = d]
  BY Zenon DEF Register
<1>2. UNCHANGED <<call, tags, tainted>> /\ nr = "write" /\ "write" \in Registered
  BY DEF Register, Expected
<1>3. RowOK("write", desc["write"]) /\ DOMAIN desc = Registered
  BY <1>2 DEF DispatchInv, TableInv
<1>4. Row("write") = desc["write"] /\ Row("write")' = desc'["write"]
  BY <1>2, Zenon DEF Row
<1>5. ClearsNothing(d)
  <2> DEFINE d0 == desc["write"]
  <2> HIDE DEF d0
  <2>1. d0 \in DescType /\ ClearsNothing(d0)
    BY <1>3, <1>4, Zenon DEF d0, RowOK, MemoryInv, MemoryTable
  <2>2. d \in {syscall_set_pre(d0, "tool_hook"), syscall_set_post(d0, "tool_hook"),
               syscall_clr_pre(d0), syscall_clr_post(d0)}
    BY <1>1, <1>2, Zenon DEF d0
  <2>3. CASE d = syscall_set_pre(d0, "tool_hook")
    BY <2>1, <2>3 DEF DescType, ClearsNothing, syscall_set_pre
  <2>4. CASE d = syscall_set_post(d0, "tool_hook")
    BY <2>1, <2>4 DEF DescType, ClearsNothing, syscall_set_post
  <2>5. CASE d = syscall_clr_pre(d0)
    BY <2>1, <2>5 DEF DescType, ClearsNothing, syscall_clr_pre
  <2>6. CASE d = syscall_clr_post(d0)
    BY <2>1, <2>6 DEF DescType, ClearsNothing, syscall_clr_post
  <2>7. QED BY <2>2, <2>3, <2>4, <2>5, <2>6
<1>6. desc'["write"] = d
  BY <1>1, <1>2, <1>3, SMT
<1>7. MemoryTable'
  BY <1>4, <1>5, <1>6, Zenon DEF MemoryTable, ClearsNothing
<1>8. MemoryCalls' /\ PendingInv' /\ NoStaleByte' /\ NoLostByte' /\ (tags \subseteq Byte)'
  BY <1>2, Zenon DEF MemoryInv, MemoryCalls, PendingInv, NoStaleByte, NoLostByte, Pending
<1>9. QED BY <1>7, <1>8 DEF MemoryInv

LEMMA NextMemory ==
    ASSUME Expected PROVE DispatchInv /\ MemoryInv /\ [Next]_vars => MemoryInv'
<1> SUFFICES ASSUME DispatchInv, MemoryInv, [Next]_vars PROVE MemoryInv'
  OBVIOUS
<1>1. ASSUME UNCHANGED <<desc, call, tags, tainted>> PROVE MemoryInv'
  <2>1. desc' = desc /\ call' = call /\ tags' = tags /\ tainted' = tainted
    BY <1>1
  <2>2. MemoryTable'
    BY <2>1, SameTable DEF MemoryInv
  <2>3. QED
    BY <2>1, <2>2, Zenon DEF MemoryInv, MemoryCalls, PendingInv, NoStaleByte, NoLostByte, Pending
<1>2. CASE UNCHANGED vars
  BY <1>1, <1>2 DEF vars
<1>3. CASE \E nr \in Registered : Register(nr)
  BY <1>3, RegisterMemory
<1>4. CASE StartProgram
  BY <1>1, <1>4 DEF StartProgram
<1>5. ASSUME NEW t \in Threads, thread_alloc(t) PROVE MemoryInv'
  BY <1>1, <1>5 DEF thread_alloc
<1>6. ASSUME NEW t \in Threads, thread_free(t) PROVE MemoryInv'
  BY <1>6, FreeMemory
<1>7. ASSUME NEW t \in Threads, NEW nr \in CallsOf[t], Enter(t, nr) PROVE MemoryInv'
  BY <1>7, EnterMemory
<1>8. ASSUME NEW t \in Threads, Kernel(t) PROVE MemoryInv'
  BY <1>8, KernelMemory
<1>9. ASSUME NEW t \in Threads, sysexit_save(t) PROVE MemoryInv'
  BY <1>9, ExitMemory
<1>10. QED BY <1>2, <1>3, <1>4, <1>5, <1>6, <1>7, <1>8, <1>9 DEF Next

LEMMA MemoryHolds == ASSUME Expected PROVE Spec => [](DispatchInv /\ MemoryInv)
<1>1. Init => DispatchInv /\ MemoryInv
  BY InitDispatch, InitMemory
<1>2. (DispatchInv /\ MemoryInv) /\ [Next]_vars => (DispatchInv /\ MemoryInv)'
  BY NextDispatch, NextMemory
<1>3. QED BY <1>1, <1>2, PTL DEF Spec

(* For any threads, lengths and offsets and any interleaving of the calls that    *)
(* Expected describes: once a call is over, no byte the kernel wrote carries the   *)
(* tag of what was there before (the hooks of syscall_desc.c, the default handling *)
(* of sysexit_save, and tagmap_clrn at every alignment).                          *)
THEOREM NoByteStale == ASSUME Expected PROVE Spec => []NoStaleByte
<1>1. DispatchInv /\ MemoryInv => NoStaleByte
  BY DEF MemoryInv
<1>2. QED BY MemoryHolds, <1>1, PTL

(* Under the same conditions the end of a call takes the tag of no byte that      *)
(* still holds tracked data (the same hooks and masks).                           *)
THEOREM NoByteLost == ASSUME Expected PROVE Spec => []NoLostByte
<1>1. DispatchInv /\ MemoryInv => NoLostByte
  BY DEF MemoryInv
<1>2. QED BY MemoryHolds, <1>1, PTL

-----------------------------------------------------------------------------
(* The types of what a context holds *)

\* The values of an ADDRINT.
Addrint == 0 .. Word - 1

InAddrint(S) == \A x \in S : x \in Addrint

LEMMA Small1024 == \A x \in 0 .. 1024 : x \in Addrint
BY Syscalls32Assumption DEF Addrint

LEMMA Within == ASSUME NEW S, \A x \in S : x \in 0 .. 1024 PROVE InAddrint(S)
BY Small1024 DEF InAddrint

\* The values of the arguments of calls with a hook.
LEMMA PointerValues ==
    /\ InAddrint(B(1))
    /\ InAddrint(B(2))
    /\ InAddrint(B(0))
    /\ InAddrint(P(1))
    /\ InAddrint(P(2))
    /\ InAddrint(B(3))
    /\ InAddrint(P(4))
    /\ InAddrint(P(3))
    /\ InAddrint(P(0))
    /\ InAddrint(B(4))
<1>1. 0 \in 0 .. 5 /\ 1 \in 0 .. 5 /\ 2 \in 0 .. 5 /\ 3 \in 0 .. 5 /\ 4 \in 0 .. 5
  OBVIOUS
<1>2. \A i \in 0 .. 5 : InAddrint(B(i)) /\ InAddrint(P(i))
  <2>1. ASSUME NEW i \in 0 .. 5 PROVE InAddrint(B(i)) /\ InAddrint(P(i))
    <3>1. \A p \in B(i) : p \in 0 .. 1024
      BY Buffers
    <3>2. \A p \in P(i) : p \in 0 .. 1024
      BY Buffers DEF Null
    <3>3. InAddrint(B(i))
      BY <3>1, Small1024, SMT DEF InAddrint
    <3>4. InAddrint(P(i))
      BY <3>2, Small1024, SMT DEF InAddrint
    <3>5. QED BY <3>3, <3>4
  <2>2. QED BY <2>1
<1>3. QED BY <1>1, <1>2, Zenon

LEMMA NumberValues ==
    /\ InAddrint(Z)
    /\ InAddrint(N)
    /\ InAddrint({INT})
    /\ InAddrint(Vec)
    /\ InAddrint({0, 1})
    /\ InAddrint(0 .. 4)
    /\ InAddrint({1, PAGE_SZ + 1})
    /\ InAddrint({0, PAGE_SZ + 1})
    /\ InAddrint({1, PAGE_SZ, PAGE_SZ + 1})
    /\ InAddrint({F.GETFL, F.GETLK})
    /\ InAddrint({QCMD(Q.GETQUOTA, 0), QCMD(Q.SETQUOTA, 0)})
    /\ InAddrint({2, 10})
    /\ InAddrint(IpcCalls)
    /\ InAddrint(IpcCmds)
    /\ InAddrint({IPC.RMID + IPC_FIX, IPC.STAT + IPC_FIX})
    /\ InAddrint(SocketCalls)
    /\ InAddrint({Area(1)})
    /\ InAddrint({1})
<1>1. InAddrint(Z)
  <2>0. \A x \in Z : x \in 0 .. 1024
    BY DEF Z, Vec, INT, PAGE_SZ, F, Q, QCMD, IPC, IPC_FIX
  <2>1. QED BY <2>0, Within
<1>2. InAddrint(N)
  <2>0. \A x \in N : x \in 0 .. 1024
    BY Lengths12
  <2>1. QED BY <2>0, Within
<1>3. InAddrint({INT})
  <2>0. \A x \in {INT} : x \in 0 .. 1024
    BY DEF Z, Vec, INT, PAGE_SZ, F, Q, QCMD, IPC, IPC_FIX
  <2>1. QED BY <2>0, Within
<1>4. InAddrint(Vec)
  <2>0. \A x \in Vec : x \in 0 .. 1024
    BY DEF Z, Vec, INT, PAGE_SZ, F, Q, QCMD, IPC, IPC_FIX
  <2>1. QED BY <2>0, Within
<1>5. InAddrint({0, 1})
  <2>0. \A x \in {0, 1} : x \in 0 .. 1024
    BY DEF Z, Vec, INT, PAGE_SZ, F, Q, QCMD, IPC, IPC_FIX
  <2>1. QED BY <2>0, Within
<1>6. InAddrint(0 .. 4)
  <2>0. \A x \in 0 .. 4 : x \in 0 .. 1024
    BY DEF Z, Vec, INT, PAGE_SZ, F, Q, QCMD, IPC, IPC_FIX
  <2>1. QED BY <2>0, Within
<1>7. InAddrint({1, PAGE_SZ + 1})
  <2>0. \A x \in {1, PAGE_SZ + 1} : x \in 0 .. 1024
    BY DEF Z, Vec, INT, PAGE_SZ, F, Q, QCMD, IPC, IPC_FIX
  <2>1. QED BY <2>0, Within
<1>8. InAddrint({0, PAGE_SZ + 1})
  <2>0. \A x \in {0, PAGE_SZ + 1} : x \in 0 .. 1024
    BY DEF Z, Vec, INT, PAGE_SZ, F, Q, QCMD, IPC, IPC_FIX
  <2>1. QED BY <2>0, Within
<1>9. InAddrint({1, PAGE_SZ, PAGE_SZ + 1})
  <2>0. \A x \in {1, PAGE_SZ, PAGE_SZ + 1} : x \in 0 .. 1024
    BY DEF Z, Vec, INT, PAGE_SZ, F, Q, QCMD, IPC, IPC_FIX
  <2>1. QED BY <2>0, Within
<1>10. InAddrint({F.GETFL, F.GETLK})
  <2>0. \A x \in {F.GETFL, F.GETLK} : x \in 0 .. 1024
    BY DEF Z, Vec, INT, PAGE_SZ, F, Q, QCMD, IPC, IPC_FIX
  <2>1. QED BY <2>0, Within
<1>11. InAddrint({QCMD(Q.GETQUOTA, 0), QCMD(Q.SETQUOTA, 0)})
  <2>0. \A x \in {QCMD(Q.GETQUOTA, 0), QCMD(Q.SETQUOTA, 0)} : x \in 0 .. 1024
    BY DEF Z, Vec, INT, PAGE_SZ, F, Q, QCMD, IPC, IPC_FIX
  <2>1. QED BY <2>0, Within
<1>12. InAddrint({2, 10})
  <2>0. \A x \in {2, 10} : x \in 0 .. 1024
    BY DEF Z, Vec, INT, PAGE_SZ, F, Q, QCMD, IPC, IPC_FIX
  <2>1. QED BY <2>0, Within
<1>13. InAddrint(IpcCalls)
  <2>0. \A x \in IpcCalls : x \in 0 .. 1024
    BY IpcCallsAre
  <2>1. QED BY <2>0, Within
<1>14. InAddrint(IpcCmds)
  <2>0. \A x \in IpcCmds : x \in 0 .. 1024
    BY IpcCmdsAre
  <2>1. QED BY <2>0, Within
<1>15. InAddrint({IPC.RMID + IPC_FIX, IPC.STAT + IPC_FIX})
  <2>0. \A x \in {IPC.RMID + IPC_FIX, IPC.STAT + IPC_FIX} : x \in 0 .. 1024
    BY DEF Z, Vec, INT, PAGE_SZ, F, Q, QCMD, IPC, IPC_FIX
  <2>1. QED BY <2>0, Within
<1>16. InAddrint(SocketCalls)
  <2>0. \A x \in SocketCalls : x \in 0 .. 1024
    BY SocketCallsAre
  <2>1. QED BY <2>0, Within
<1>17. InAddrint({Area(1)})
  <2>0. \A x \in {Area(1)} : x \in 0 .. 1024
    BY Buffers
  <2>1. QED BY <2>0, Within
<1>18. InAddrint({1})
  <2>0. \A x \in {1} : x \in 0 .. 1024
    BY DEF Z, Vec, INT, PAGE_SZ, F, Q, QCMD, IPC, IPC_FIX
  <2>1. QED BY <2>0, Within
<1>19. QED BY <1>1, <1>2, <1>3, <1>4, <1>5, <1>6, <1>7, <1>8, <1>9, <1>10, <1>11, <1>12, <1>13, <1>14, <1>15, <1>16, <1>17, <1>18, Zenon

\* Every argument of a call that passes what b passes is an ADDRINT.
AddrintArgs(b) ==
    \A a : (\A i \in 0 .. 5 : a[i] \in HookParams[b][i + 1]) =>
              /\ a[0] \in Addrint /\ a[1] \in Addrint /\ a[2] \in Addrint
              /\ a[3] \in Addrint /\ a[4] \in Addrint /\ a[5] \in Addrint

LEMMA HookArgs == \A b \in DOMAIN HookParams : AddrintArgs(b)
<1>1. AddrintArgs("read")
  BY Params_read, PointerValues, NumberValues, Zenon DEF AddrintArgs, InAddrint
<1>2. AddrintArgs("readlinkat")
  BY Params_readlinkat, PointerValues, NumberValues, Zenon DEF AddrintArgs, InAddrint
<1>3. AddrintArgs("getcwd")
  BY Params_getcwd, PointerValues, NumberValues, Zenon DEF AddrintArgs, InAddrint
<1>4. AddrintArgs("write")
  BY Params_write, PointerValues, NumberValues, Zenon DEF AddrintArgs, InAddrint
<1>5. AddrintArgs("getgroups16")
  BY Params_getgroups16, PointerValues, NumberValues, Zenon DEF AddrintArgs, InAddrint
<1>6. AddrintArgs("getgroups")
  BY Params_getgroups, PointerValues, NumberValues, Zenon DEF AddrintArgs, InAddrint
<1>7. AddrintArgs("listxattr")
  BY Params_listxattr, PointerValues, NumberValues, Zenon DEF AddrintArgs, InAddrint
<1>8. AddrintArgs("getxattr")
  BY Params_getxattr, PointerValues, NumberValues, Zenon DEF AddrintArgs, InAddrint
<1>9. AddrintArgs("epoll_wait")
  BY Params_epoll_wait, PointerValues, NumberValues, Zenon DEF AddrintArgs, InAddrint
<1>10. AddrintArgs("io_getevents")
  BY Params_io_getevents, PointerValues, NumberValues, Zenon DEF AddrintArgs, InAddrint
<1>11. AddrintArgs("poll")
  BY Params_poll, PointerValues, NumberValues, Zenon DEF AddrintArgs, InAddrint
<1>12. AddrintArgs("mq_timedreceive")
  BY Params_mq_timedreceive, PointerValues, NumberValues, Zenon DEF AddrintArgs, InAddrint
<1>13. AddrintArgs("get_mempolicy")
  BY Params_get_mempolicy, PointerValues, NumberValues, Zenon DEF AddrintArgs, InAddrint
<1>14. AddrintArgs("mincore")
  BY Params_mincore, PointerValues, NumberValues, Zenon DEF AddrintArgs, InAddrint
<1>15. AddrintArgs("old_mmap")
  BY Params_old_mmap, PointerValues, NumberValues, Zenon DEF AddrintArgs, InAddrint
<1>16. AddrintArgs("mmap2")
  BY Params_mmap2, PointerValues, NumberValues, Zenon DEF AddrintArgs, InAddrint
<1>17. AddrintArgs("rt_sigpending")
  BY Params_rt_sigpending, PointerValues, NumberValues, Zenon DEF AddrintArgs, InAddrint
<1>18. AddrintArgs("fcntl")
  BY Params_fcntl, PointerValues, NumberValues, Zenon DEF AddrintArgs, InAddrint
<1>19. AddrintArgs("quotactl")
  BY Params_quotactl, PointerValues, NumberValues, Zenon DEF AddrintArgs, InAddrint
<1>20. AddrintArgs("syslog")
  BY Params_syslog, PointerValues, NumberValues, Zenon DEF AddrintArgs, InAddrint
<1>21. AddrintArgs("sysctl")
  BY Params_sysctl, PointerValues, NumberValues, Zenon DEF AddrintArgs, InAddrint
<1>22. AddrintArgs("readv")
  BY Params_readv, PointerValues, NumberValues, Zenon DEF AddrintArgs, InAddrint
<1>23. AddrintArgs("ipc")
  BY Params_ipc, PointerValues, NumberValues, Zenon DEF AddrintArgs, InAddrint
<1>24. AddrintArgs("socketcall")
  BY Params_socketcall, PointerValues, NumberValues, Zenon DEF AddrintArgs, InAddrint
<1>25. AddrintArgs("recvmmsg")
  BY Params_recvmmsg, PointerValues, NumberValues, Zenon DEF AddrintArgs, InAddrint
<1>26. AddrintArgs("ioctl")
  BY Params_ioctl, PointerValues, NumberValues, Zenon DEF AddrintArgs, InAddrint
<1>27. QED BY <1>1, <1>2, <1>3, <1>4, <1>5, <1>6, <1>7, <1>8, <1>9, <1>10, <1>11, <1>12, <1>13, <1>14, <1>15, <1>16, <1>17, <1>18, <1>19, <1>20, <1>21, <1>22, <1>23, <1>24, <1>25, <1>26, HookNames, Zenon

LEMMA ArgsTyped ==
    ASSUME NEW nr, NEW a, \A i \in 0 .. 5 : a[i] \in ParamsAt(nr, i)
    PROVE  \A i \in 0 .. 5 : a[i] \in Addrint
<1>1. CASE Hooked(nr)
  <2>1. \A i \in 0 .. 5 : a[i] \in HookParams[Name(nr)][i + 1]
    BY <1>1, Zenon DEF ParamsAt, Hooked
  <2>2. AddrintArgs(Name(nr))
    BY <1>1, HookArgs DEF Hooked
  <2>3. /\ a[0] \in Addrint /\ a[1] \in Addrint /\ a[2] \in Addrint
        /\ a[3] \in Addrint /\ a[4] \in Addrint /\ a[5] \in Addrint
    BY <2>1, <2>2, Zenon DEF AddrintArgs
  <2>4. \A i \in 0 .. 5 : i = 0 \/ i = 1 \/ i = 2 \/ i = 3 \/ i = 4 \/ i = 5
    OBVIOUS
  <2>5. QED BY <2>3, <2>4, Zenon
<1>2. CASE ~Hooked(nr)
  <2>1. ASSUME NEW i \in 0 .. 5 PROVE a[i] \in Addrint
    <3>1. a[i] \in P(1) \/ a[i] \in Z \/ a[i] \in {Null, Area(i)} \/ a[i] \in P(i)
      BY <1>2, Zenon DEF ParamsAt, Hooked
    <3>2. \A j \in 0 .. 5 : \A p \in P(j) : p \in 0 .. 1024
      BY Buffers DEF Null
    <3>3. (\A p \in P(1) : p \in 0 .. 1024) /\ (\A p \in P(i) : p \in 0 .. 1024)
      BY <3>2
    <3>4. Area(i) \in 0 .. 1024 /\ 0 \in 0 .. 1024
      BY Buffers
    <3>5. a[i] \in 0 .. 1024
      BY <3>1, <3>3, <3>4 DEF Z, Null
    <3>6. QED BY <3>5, Small1024
  <2>2. QED BY <2>1
<1>3. QED BY <1>1, <1>2

\* A context names a row of the table or is marked as that of an unknown call.
CtxType == [nr : Known \cup {Unknown, NewCtx.nr}, arg : [0 .. 5 -> Addrint], ret : Addrint]

TypeInv ==
    /\ \A t \in Threads : ctx[t] # NoCtx => ctx[t] \in CtxType
    /\ DOMAIN steps = Threads /\ \A t \in Threads : steps[t] \in 0 .. MaxSteps[t]

LEMMA CtxTyped ==
    ASSUME NEW nr \in Known \cup {Unknown, NewCtx.nr}, NEW a \in [0 .. 5 -> Addrint], NEW r \in Addrint
    PROVE  Ctx(nr, a, r) \in CtxType
BY DEF Ctx, CtxType

LEMMA NewCtxTyped == NewCtx \in CtxType
<1>1. 0 \in Addrint
  BY Syscalls32Assumption DEF Addrint
<1>2. NoArgs \in [0 .. 5 -> Addrint]
  BY <1>1 DEF NoArgs
<1>3. NewCtx = Ctx("restart_syscall", NoArgs, 0) /\ NewCtx.nr = "restart_syscall"
  BY DEF NewCtx, Ctx
<1>4. QED BY <1>1, <1>2, <1>3, CtxTyped

LEMMA EnteredTyped ==
    ASSUME NEW t, NEW nr, NEW a, ctx[t] \in CtxType, \A i \in 0 .. 5 : a[i] \in Addrint
    PROVE  Entered(t, nr, a) \in CtxType
<1> DEFINE saved == [i \in 0 .. 5 |-> IF i < Row(nr).nargs THEN a[i] ELSE ctx[t].arg[i]]
<1>1. ctx[t].arg \in [0 .. 5 -> Addrint] /\ ctx[t].ret \in Addrint
  BY DEF CtxType
<1>2. saved \in [0 .. 5 -> Addrint]
  BY <1>1
<1>3. Entered(t, nr, a) = IF nr \notin Known THEN Ctx(Unknown, ctx[t].arg, ctx[t].ret)
                          ELSE Ctx(nr, IF Saves(nr) THEN saved ELSE ctx[t].arg, ctx[t].ret)
  BY Zenon DEF Entered
<1> HIDE DEF saved
<1>4. CASE nr \notin Known
  BY <1>1, <1>3, <1>4, CtxTyped
<1>5. CASE nr \in Known
  <2>1. (IF Saves(nr) THEN saved ELSE ctx[t].arg) \in [0 .. 5 -> Addrint]
    BY <1>1, <1>2
  <2>2. Ctx(nr, IF Saves(nr) THEN saved ELSE ctx[t].arg, ctx[t].ret) \in CtxType
    BY <1>1, <1>5, <2>1, CtxTyped
  <2>3. QED BY <1>3, <1>5, <2>2
<1>6. QED BY <1>4, <1>5

LEMMA InitTyped == Init => TypeInv
<1> SUFFICES ASSUME Init PROVE TypeInv
  OBVIOUS
<1>1. \A t \in Threads : ctx[t] = NoCtx
  BY DEF Init
<1>2. DOMAIN steps = Threads /\ \A t \in Threads : steps[t] \in 0 .. MaxSteps[t]
  BY SyscallDispatch32Assumption DEF Init
<1>3. QED BY <1>1, <1>2 DEF TypeInv

\* A step that gives one thread a new context.
LEMMA TypeStep ==
    ASSUME DispatchInv, TypeInv, NEW t \in Threads, NEW c, c = NoCtx \/ c \in CtxType,
           ctx' = [ctx EXCEPT ![t] = c], steps' = steps
    PROVE  TypeInv'
<1>1. DOMAIN ctx = Threads
  BY DEF DispatchInv, ThreadInv
<1>2. \A u \in Threads : ctx'[u] = IF u = t THEN c ELSE ctx[u]
  BY <1>1
<1>3. \A u \in Threads : ctx'[u] # NoCtx => ctx'[u] \in CtxType
  BY <1>2 DEF TypeInv
<1>4. QED BY <1>3 DEF TypeInv

LEMMA EnterTyped ==
    ASSUME DispatchInv, TypeInv, NEW t \in Threads, NEW nr, Enter(t, nr) PROVE TypeInv'
<1>1. PICK a, m : EnterWith(t, nr, a, m)
  BY EnterIs, Zenon
<1>2. ctx[t] # NoCtx /\ (nr = "exit" \/ steps[t] < MaxSteps[t])
      /\ steps' = IF nr = "exit" THEN steps ELSE [steps EXCEPT ![t] = @ + 1]
  BY DEF Enter
<1>3. ctx' = [ctx EXCEPT ![t] = Entered(t, nr, a)]
  <2>1. sysenter_save(t, nr, a)
    BY <1>1, Zenon DEF EnterWith
  <2>2. QED BY <2>1, Zenon DEF sysenter_save, Entered
<1>4. \A i \in 0 .. 5 : a[i] \in Addrint
  BY <1>1, ArgsTyped, Zenon DEF EnterWith
<1>5. ctx[t] \in CtxType
  BY <1>2 DEF TypeInv
<1>6. Entered(t, nr, a) \in CtxType
  BY <1>4, <1>5, EnteredTyped
<1>7. DOMAIN ctx = Threads
  BY DEF DispatchInv, ThreadInv
<1>8. \A u \in Threads : ctx'[u] # NoCtx => ctx'[u] \in CtxType
  BY <1>3, <1>6, <1>7 DEF TypeInv
<1>9. DOMAIN steps' = Threads /\ \A u \in Threads : steps'[u] \in 0 .. MaxSteps[u]
  <2>1. MaxSteps[t] \in Nat /\ \A u \in Threads : steps[u] \in 0 .. MaxSteps[u]
    BY SyscallDispatch32Assumption DEF TypeInv
  <2>2. QED BY <1>2, <2>1 DEF TypeInv
<1>10. QED BY <1>8, <1>9 DEF TypeInv

LEMMA ExitTyped ==
    ASSUME DispatchInv, MemoryInv, TypeInv, NEW t \in Threads, sysexit_save(t) PROVE TypeInv'
<1> DEFINE c == Ctx(ctx[t].nr, ctx[t].arg, call[t].out.ret)
<1>1. call[t].done /\ steps' = steps /\ (ctx' = ctx \/ ctx' = [ctx EXCEPT ![t] = c])
  BY DEF sysexit_save
<1>2. call[t].nr # NoNr /\ Running(call[t])
  BY <1>1, Zenon DEF MemoryInv, MemoryCalls, CallOK
<1>3. call[t].out.ret \in Addrint
  BY <1>1, <1>2, Zenon DEF Running, Delivered, Addrint
<1>4. ctx[t] \in CtxType
  <2>1. SeesCall(ctx[t], call[t])
    BY SeesCallIff DEF DispatchInv
  <2>2. ctx[t] # NoCtx
    BY <1>2, <2>1, Zenon DEF SeesCall
  <2>3. QED BY <2>2 DEF TypeInv
<1>5. ctx[t].nr \in Known \cup {Unknown, NewCtx.nr} /\ ctx[t].arg \in [0 .. 5 -> Addrint]
  BY <1>4 DEF CtxType
<1>6. c \in CtxType
  BY <1>3, <1>5, CtxTyped
<1> HIDE DEF c
<1>7. CASE ctx' = ctx
  BY <1>1, <1>7, Zenon DEF TypeInv
<1>8. CASE ctx' = [ctx EXCEPT ![t] = c]
  BY <1>1, <1>6, <1>8, TypeStep
<1>9. QED BY <1>1, <1>7, <1>8

LEMMA NextTyped == DispatchInv /\ MemoryInv /\ TypeInv /\ [Next]_vars => TypeInv'
<1> SUFFICES ASSUME DispatchInv, MemoryInv, TypeInv, [Next]_vars PROVE TypeInv'
  OBVIOUS
<1>1. ASSUME UNCHANGED <<ctx, steps>> PROVE TypeInv'
  <2>1. ctx' = ctx /\ steps' = steps
    BY <1>1
  <2>2. QED BY <2>1, Zenon DEF TypeInv
<1>2. CASE UNCHANGED vars
  BY <1>1, <1>2 DEF vars
<1>3. CASE \E nr \in Registered : Register(nr)
  BY <1>1, <1>3 DEF Register
<1>4. CASE StartProgram
  BY <1>1, <1>4 DEF StartProgram
<1>5. ASSUME NEW t \in Threads, thread_alloc(t) PROVE TypeInv'
  <2>1. ctx' = [ctx EXCEPT ![t] = NewCtx] /\ steps' = steps
    BY <1>5 DEF thread_alloc
  <2>2. QED BY <2>1, NewCtxTyped, TypeStep
<1>6. ASSUME NEW t \in Threads, thread_free(t) PROVE TypeInv'
  <2>1. ctx' = [ctx EXCEPT ![t] = NoCtx] /\ steps' = steps
    BY <1>6 DEF thread_free
  <2>2. QED BY <2>1, TypeStep
<1>7. ASSUME NEW t \in Threads, NEW nr \in CallsOf[t], Enter(t, nr) PROVE TypeInv'
  BY <1>7, EnterTyped
<1>8. ASSUME NEW t \in Threads, Kernel(t) PROVE TypeInv'
  BY <1>1, <1>8 DEF Kernel
<1>9. ASSUME NEW t \in Threads, sysexit_save(t) PROVE TypeInv'
  BY <1>9, ExitTyped
<1>10. QED BY <1>2, <1>3, <1>4, <1>5, <1>6, <1>7, <1>8, <1>9 DEF Next

LEMMA AllTyped == DispatchInv /\ MemoryInv /\ TypeInv => TypeOK
<1> SUFFICES ASSUME DispatchInv, MemoryInv, TypeInv PROVE TypeOK
  OBVIOUS
<1>1. DOMAIN desc = Registered /\ \A nr \in Registered : desc[nr].nargs = syscall_desc[nr].nargs
  BY Zenon DEF DispatchInv, TableInv, RowOK
<1>2. started \in BOOLEAN
  BY DEF DispatchInv, ThreadInv
<1>3. tags \subseteq Byte /\ tainted \subseteq Byte
  BY DEF MemoryInv, NoLostByte
<1>4. ASSUME NEW t \in Threads, ctx[t] # NoCtx
      PROVE  /\ ctx[t].nr \in Known \cup {Unknown, NewCtx.nr}
             /\ ctx[t].arg \in [0 .. 5 -> 0 .. Word - 1] /\ ctx[t].ret \in 0 .. Word - 1
  <2>1. ctx[t] \in CtxType
    BY <1>4 DEF TypeInv
  <2>2. QED BY <2>1 DEF CtxType, Addrint
<1>5. \A t \in Threads : steps[t] \in 0 .. MaxSteps[t]
  BY DEF TypeInv
<1>6. QED BY <1>1, <1>2, <1>3, <1>4, <1>5, Zenon DEF TypeOK

(* Under the same conditions every part of the state has its type: in particular  *)
(* what a context holds between sysenter_save and sysexit_save are values of an   *)
(* ADDRINT, and its number is one of the table or the mark of an unknown call.    *)
THEOREM TypeCorrect == ASSUME Expected PROVE Spec => []TypeOK
<1> DEFINE Inv == DispatchInv /\ MemoryInv /\ TypeInv
<1>1. Init => Inv
  BY InitDispatch, InitMemory, InitTyped
<1>2. Inv /\ [Next]_vars => Inv'
  BY NextDispatch, NextMemory, NextTyped
<1>3. Inv => TypeOK
  BY AllTyped
<1>4. QED BY <1>1, <1>2, <1>3, PTL DEF Spec
=============================================================================
