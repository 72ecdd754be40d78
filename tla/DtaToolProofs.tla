---------------------------- MODULE DtaToolProofs ----------------------------
(***************************************************************************)
(* Proofs about DtaTool for any threads, descriptors, buffers, settings and   *)
(* interleavings of the calls with their hooks: the set of descriptors and    *)
(* the tags are right, and the branches are judged by the truth.             *)
(***************************************************************************)
EXTENDS DtaTool, TLAPS

Kinds == {"tty", "file", "lib", "inet", "unix"}

Small == 0 .. 8

-----------------------------------------------------------------------------
(* Ranges of at most eight bytes are one mask of the bitmap *)

LEMMA ChunkSpan ==
    ASSUME NEW a \in Nat, NEW n \in 0 .. 8 PROVE M!Chunk(a, n) = Span(<<a, n>>)
<1> DEFINE q == a \div 8
           r == a % 8
           w == IF n = 1 THEN 8 ELSE 16
<1>1. q \in Nat /\ r \in 0 .. 7 /\ a = 8 * q + r
  OBVIOUS
<1>2. CASE n = 0
  BY <1>2 DEF M!Chunk, M!ALIGN_OFF_MAX, Span
<1>3. CASE n # 0
  <2>1. M!Chunk(a, n) = {8 * q + j : j \in (r .. r + n - 1) \cap (0 .. w - 1)}
    BY <1>3 DEF M!Chunk, M!Mask, M!ALIGN_OFF_MAX, M!VIRT2BYTE, M!VIRT2BIT
  <2>2. (r .. r + n - 1) \cap (0 .. w - 1) = r .. r + n - 1
    BY <1>1, <1>3
  <2> HIDE DEF q, r, w
  <2>3. Span(<<a, n>>) = {a + i : i \in 0 .. n - 1}
    BY DEF Span
  <2>4. ASSUME NEW x, x \in M!Chunk(a, n) PROVE x \in Span(<<a, n>>)
    <3>1. PICK j \in r .. r + n - 1 : x = 8 * q + j
      BY <2>1, <2>2, <2>4
    <3>2. j - r \in 0 .. n - 1 /\ x = a + (j - r)
      BY <1>1, <3>1
    <3>3. QED BY <2>3, <3>2
  <2>5. ASSUME NEW x, x \in Span(<<a, n>>) PROVE x \in M!Chunk(a, n)
    <3>1. PICK i \in 0 .. n - 1 : x = a + i
      BY <2>3, <2>5
    <3>2. r + i \in r .. r + n - 1 /\ x = 8 * q + (r + i)
      BY <1>1, <3>1
    <3>3. QED BY <2>1, <2>2, <3>2
  <2>6. QED BY <2>4, <2>5
<1>4. QED BY <1>2, <1>3

LEMMA TaintSets ==
    ASSUME NEW B, NEW a \in Nat, NEW n \in Small
    PROVE  Taint(B, TRUE, a, n) = B \cup Span(<<a, n>>)
<1>1. M!Chunk(a, n) = Span(<<a, n>>)
  BY ChunkSpan DEF Small
<1> HIDE DEF Span
<1>2. Taint(B, TRUE, a, n) = B \cup M!Chunk(a, n)
  BY SMT DEF Taint, Small, M!tagmap_setn, M!ALIGN_OFF_MAX
<1>3. QED BY <1>1, <1>2, Zenon

LEMMA TaintClears ==
    ASSUME NEW B, NEW a \in Nat, NEW n \in Small
    PROVE  Taint(B, FALSE, a, n) = B \ Span(<<a, n>>)
<1>1. M!Chunk(a, n) = Span(<<a, n>>)
  BY ChunkSpan DEF Small
<1> HIDE DEF Span
<1>2. Taint(B, FALSE, a, n) = B \ M!Chunk(a, n)
  BY SMT DEF Taint, Small, M!tagmap_clrn, M!ALIGN_OFF_MAX
<1>3. QED BY <1>1, <1>2, Zenon

LEMMA GetSpan ==
    ASSUME NEW B, NEW a \in Nat
    PROVE  /\ M!tagmap_getl(B, a) = B \cap Span(<<a, 4>>)
           /\ M!tagmap_getw(B, a) = B \cap Span(<<a, 2>>)
<1>1. M!Chunk(a, 4) = M!Mask(a, 4, 16) /\ M!Chunk(a, 2) = M!Mask(a, 2, 16)
  BY DEF M!Chunk, M!ALIGN_OFF_MAX
<1>2. 4 \in 0 .. 8 /\ 2 \in 0 .. 8
  OBVIOUS
<1>3. M!Chunk(a, 4) = Span(<<a, 4>>) /\ M!Chunk(a, 2) = Span(<<a, 2>>)
  BY <1>2, ChunkSpan, Zenon
<1>4. QED BY <1>1, <1>3, Zenon DEF M!tagmap_getl, M!tagmap_getw

LEMMA InSpan ==
    ASSUME NEW a \in Nat, NEW n \in Nat, NEW x
    PROVE  x \in Span(<<a, n>>) <=> x \in Nat /\ a <= x /\ x < a + n
<1>1. Span(<<a, n>>) = {a + i : i \in 0 .. n - 1}
  BY DEF Span
<1>2. ASSUME x \in Nat, a <= x, x < a + n PROVE x \in Span(<<a, n>>)
  <2>1. x - a \in 0 .. n - 1 /\ x = a + (x - a)
    BY <1>2
  <2>2. QED BY <1>1, <2>1
<1>3. QED BY <1>1, <1>2

-----------------------------------------------------------------------------
(* Sequences of at most two ranges *)

Short(R) ==
    \/ R = <<>>
    \/ \E a \in Nat, n \in Small : R = <<<<a, n>>>>
    \/ \E a \in Nat, n \in Small, b \in Nat, m \in Small : R = <<<<a, n>>, <<b, m>>>>

LEMMA SpansShort ==
    /\ Spans(<<>>) = {}
    /\ \A r : Spans(<<r>>) = Span(r)
    /\ \A r, q : Spans(<<r, q>>) = Span(r) \cup Span(q)
<1>1. Spans(<<>>) = {}
  BY DEF Spans
<1>2. ASSUME NEW r PROVE Spans(<<r>>) = Span(r)
  <2>1. DOMAIN <<r>> = {1} /\ <<r>>[1] = r
    OBVIOUS
  <2>2. QED BY <2>1 DEF Spans
<1>3. ASSUME NEW r, NEW q PROVE Spans(<<r, q>>) = Span(r) \cup Span(q)
  <2>1. DOMAIN <<r, q>> = {1, 2} /\ <<r, q>>[1] = r /\ <<r, q>>[2] = q
    OBVIOUS
  <2>2. QED BY <2>1 DEF Spans
<1>4. QED BY <1>1, <1>2, <1>3

LEMMA RangesTaint ==
    ASSUME NEW B, NEW in, NEW R, Short(R)
    PROVE  /\ in = TRUE => TaintRanges(B, in, R) = B \cup Spans(R)
           /\ in = FALSE => TaintRanges(B, in, R) = B \ Spans(R)
<1> DEFINE N == Len(R)
           Step1(f) == [i \in 0 .. N |->
                           IF i = 0 THEN B ELSE Taint(f[i - 1], in, R[i][1], R[i][2])]
           after == CHOOSE f : f = Step1(f)
           t1 == Taint(B, in, R[1][1], R[1][2])
           t2 == Taint(t1, in, R[2][1], R[2][2])
           w == [i \in 0 .. N |-> IF i = 0 THEN B ELSE IF i = 1 THEN t1 ELSE t2]
<1>1. TaintRanges(B, in, R) = after[N]
  BY DEF TaintRanges
<1>2. N \in 0 .. 2
  BY DEF Short
<1>3. w = Step1(w)
  <2>1. \A i \in 0 .. N : w[i] = IF i = 0 THEN B ELSE Taint(w[i - 1], in, R[i][1], R[i][2])
    <3> HIDE DEF N
    <3> SUFFICES ASSUME NEW i \in 0 .. N
                 PROVE  w[i] = IF i = 0 THEN B ELSE Taint(w[i - 1], in, R[i][1], R[i][2])
      OBVIOUS
    <3>1. CASE i = 0
      BY <3>1
    <3>2. CASE i = 1
      <4>1. w[i] = t1 /\ w[i - 1] = B
        BY <3>2, <1>2
      <4> HIDE DEF w
      <4>2. QED BY <3>2, <4>1
    <3>3. CASE i = 2
      <4>1. w[i] = t2 /\ w[i - 1] = t1
        BY <3>3, <1>2
      <4> HIDE DEF w, t1
      <4>2. QED BY <3>3, <4>1
    <3>4. QED BY <1>2, <3>1, <3>2, <3>3
  <2> HIDE DEF N, t1, t2
  <2>2. QED BY <2>1
<1>4. after = Step1(after)
  <2> HIDE DEF Step1, w
  <2>1. QED BY <1>3
<1> HIDE DEF after
<1>5. /\ after[0] = B
      /\ N >= 1 => after[1] = Taint(after[0], in, R[1][1], R[1][2])
      /\ N >= 2 => after[2] = Taint(after[1], in, R[2][1], R[2][2])
  <2> DEFINE G(i) == IF i = 0 THEN B ELSE Taint(after[i - 1], in, R[i][1], R[i][2])
  <2>1. after = [i \in 0 .. N |-> G(i)]
    BY <1>4
  <2> HIDE DEF G, N
  <2>2. after[0] = G(0) /\ (N >= 1 => after[1] = G(1)) /\ (N >= 2 => after[2] = G(2))
    BY <2>1, <1>2
  <2>3. QED BY <2>2 DEF G
<1>6. CASE R = <<>>
  BY <1>1, <1>5, <1>6, SpansShort
<1>7. CASE \E a \in Nat, n \in Small : R = <<<<a, n>>>>
  <2>1. PICK a \in Nat, n \in Small : R = <<<<a, n>>>>
    BY <1>7
  <2>2. N = 1 /\ R[1] = <<a, n>> /\ R[1][1] = a /\ R[1][2] = n
    BY <2>1
  <2>3. TaintRanges(B, in, R) = Taint(B, in, a, n)
    BY <1>1, <1>5, <2>2
  <2>4. Spans(R) = Span(<<a, n>>)
    BY <2>1, SpansShort
  <2>5. CASE in = TRUE
    <3>1. Taint(B, TRUE, a, n) = B \cup Span(<<a, n>>)
      BY TaintSets, Zenon
    <3>2. QED BY <2>3, <2>4, <2>5, <3>1, Zenon
  <2>6. CASE in = FALSE
    <3>1. Taint(B, FALSE, a, n) = B \ Span(<<a, n>>)
      BY TaintClears, Zenon
    <3>2. QED BY <2>3, <2>4, <2>6, <3>1, Zenon
  <2>7. QED BY <2>5, <2>6
<1>8. CASE \E a \in Nat, n \in Small, b \in Nat, m \in Small : R = <<<<a, n>>, <<b, m>>>>
  <2>1. PICK a \in Nat, n \in Small, b \in Nat, m \in Small : R = <<<<a, n>>, <<b, m>>>>
    BY <1>8
  <2>2. N = 2 /\ R[1][1] = a /\ R[1][2] = n /\ R[2][1] = b /\ R[2][2] = m
    BY <2>1
  <2>3. TaintRanges(B, in, R) = Taint(Taint(B, in, a, n), in, b, m)
    BY <1>1, <1>5, <2>2
  <2>4. Spans(R) = Span(<<a, n>>) \cup Span(<<b, m>>)
    BY <2>1, SpansShort
  <2> DEFINE S1 == Span(<<a, n>>)
             S2 == Span(<<b, m>>)
  <2>5. CASE in = TRUE
    <3>1. Taint(B, TRUE, a, n) = B \cup S1
      BY TaintSets, Zenon
    <3>2. \A C : Taint(C, TRUE, b, m) = C \cup S2
      BY TaintSets, Zenon
    <3> HIDE DEF S1, S2
    <3>3. TaintRanges(B, in, R) = (B \cup S1) \cup S2
      BY <2>3, <2>5, <3>1, <3>2, Zenon
    <3>4. Spans(R) = S1 \cup S2
      BY <2>4 DEF S1, S2
    <3>5. QED BY <2>5, <3>3, <3>4
  <2>6. CASE in = FALSE
    <3>1. Taint(B, FALSE, a, n) = B \ S1
      BY TaintClears, Zenon
    <3>2. \A C : Taint(C, FALSE, b, m) = C \ S2
      BY TaintClears, Zenon
    <3> HIDE DEF S1, S2
    <3>3. TaintRanges(B, in, R) = (B \ S1) \ S2
      BY <2>3, <2>6, <3>1, <3>2, Zenon
    <3>4. Spans(R) = S1 \cup S2
      BY <2>4 DEF S1, S2
    <3>5. QED BY <2>6, <3>3, <3>4
  <2>7. QED BY <2>5, <2>6
<1>9. QED BY <1>6, <1>7, <1>8 DEF Short

-----------------------------------------------------------------------------
(* The loops over an I/O vector take its first n bytes *)

Buffers == UNION {Span(<<b, 8>>) : b \in Bufs}

LEMMA TakenOne ==
    ASSUME NEW b \in Nat, NEW n \in Small
    PROVE  Taken(<<<<b, 8>>>>, n) = <<<<b, n>>>>
<1> DEFINE v == <<<<b, 8>>>>
           Unroll(f) == [i \in 0 .. Len(v) |-> IF i = 0 THEN n ELSE f[i - 1] - Least(f[i - 1], v[i][2])]
           left == CHOOSE f : f = Unroll(f)
           w == [i \in 0 .. 1 |-> IF i = 0 THEN n ELSE 0]
<1>1. Len(v) = 1 /\ v[1] = <<b, 8>> /\ v[1][1] = b /\ v[1][2] = 8
  OBVIOUS
<1>2. Taken(v, n) = [i \in 1 .. Len(v) |-> <<v[i][1], left[i - 1] - left[i]>>]
  BY DEF Taken
<1> HIDE DEF v
<1>3. w = Unroll(w)
  <2>1. \A i \in 0 .. 1 : w[i] = IF i = 0 THEN n ELSE w[i - 1] - Least(w[i - 1], v[i][2])
    BY <1>1 DEF Least, Small
  <2> HIDE DEF w
  <2>2. w = [i \in 0 .. 1 |-> w[i]]
    BY DEF w
  <2>3. QED BY <1>1, <2>1, <2>2
<1>4. left = Unroll(left)
  <2> HIDE DEF Unroll, w
  <2>1. QED BY <1>3
<1> HIDE DEF left
<1>5. left[0] = n /\ left[1] = n - Least(n, 8)
  <2> DEFINE G(i) == IF i = 0 THEN n ELSE left[i - 1] - Least(left[i - 1], v[i][2])
  <2>1. left = [i \in 0 .. 1 |-> G(i)]
    BY <1>1, <1>4
  <2> HIDE DEF G
  <2>2. left[0] = G(0) /\ left[1] = G(1)
    BY <2>1
  <2>3. QED BY <2>2, <1>1 DEF G
<1>6. left[1] = 0
  BY <1>5 DEF Least, Small
<1>7. QED BY <1>1, <1>2, <1>5, <1>6 DEF v, Small

LEMMA TakenTwo ==
    ASSUME NEW a \in Nat, NEW b \in Nat, NEW n \in Small
    PROVE  Taken(<<<<a, 3>>, <<b, 8>>>>, n) = <<<<a, Least(n, 3)>>, <<b, n - Least(n, 3)>>>>
<1> DEFINE v == <<<<a, 3>>, <<b, 8>>>>
           Unroll(f) == [i \in 0 .. Len(v) |-> IF i = 0 THEN n ELSE f[i - 1] - Least(f[i - 1], v[i][2])]
           left == CHOOSE f : f = Unroll(f)
           w == [i \in 0 .. 2 |-> IF i = 0 THEN n ELSE IF i = 1 THEN n - Least(n, 3) ELSE 0]
<1>1. Len(v) = 2 /\ v[1][1] = a /\ v[1][2] = 3 /\ v[2][1] = b /\ v[2][2] = 8
  OBVIOUS
<1>2. Taken(v, n) = [i \in 1 .. Len(v) |-> <<v[i][1], left[i - 1] - left[i]>>]
  BY DEF Taken
<1> HIDE DEF v
<1>3. w = Unroll(w)
  <2>1. w[0] = n /\ w[1] = n - Least(n, 3) /\ w[2] = 0
    OBVIOUS
  <2>2. w = [i \in 0 .. 2 |-> w[i]]
    OBVIOUS
  <2> HIDE DEF w
  <2>3. \A i \in 0 .. 2 : w[i] = IF i = 0 THEN n ELSE w[i - 1] - Least(w[i - 1], v[i][2])
    BY <1>1, <2>1 DEF Least, Small
  <2>4. QED BY <1>1, <2>2, <2>3
<1>4. left = Unroll(left)
  <2> HIDE DEF Unroll, w
  <2>1. QED BY <1>3
<1> HIDE DEF left
<1>5. /\ left[0] = n
      /\ left[1] = left[0] - Least(left[0], 3)
      /\ left[2] = left[1] - Least(left[1], 8)
  <2> DEFINE G(i) == IF i = 0 THEN n ELSE left[i - 1] - Least(left[i - 1], v[i][2])
  <2>1. left = [i \in 0 .. 2 |-> G(i)]
    BY <1>1, <1>4
  <2> HIDE DEF G
  <2>2. left[0] = G(0) /\ left[1] = G(1) /\ left[2] = G(2)
    BY <2>1
  <2>3. QED BY <2>2, <1>1 DEF G
<1>6. /\ left[0] - left[1] = Least(n, 3)
      /\ left[1] - left[2] = n - Least(n, 3)
  BY <1>5 DEF Least, Small
<1>7. QED BY <1>1, <1>2, <1>6 DEF v

LEMMA ScatteredOne ==
    ASSUME NEW b \in Nat, NEW n \in Nat
    PROVE  Scattered(<<<<b, 8>>>>, n) = Span(<<b, Least(n, 8)>>)
<1> DEFINE v == <<<<b, 8>>>>
           Unroll(f) == [i \in 1 .. Len(v) |-> IF i = 1 THEN 0 ELSE f[i - 1] + v[i - 1][2]]
           before == CHOOSE f : f = Unroll(f)
           w == [i \in 1 .. 1 |-> 0]
<1>1. Len(v) = 1 /\ DOMAIN v = {1} /\ v[1] = <<b, 8>> /\ v[1][1] = b
  OBVIOUS
<1>2. Scattered(v, n) = UNION {{x \in Span(v[i]) : before[i] + (x - v[i][1]) < n} : i \in DOMAIN v}
  BY DEF Scattered
<1> HIDE DEF v
<1>3. w = Unroll(w)
  BY <1>1
<1>4. before = Unroll(before)
  <2> HIDE DEF Unroll, w
  <2>1. QED BY <1>3
<1> HIDE DEF before
<1>5. before[1] = 0
  BY <1>1, <1>4
<1>6. Scattered(v, n) = {x \in Span(<<b, 8>>) : before[1] + (x - v[1][1]) < n}
  BY <1>1, <1>2
<1>7. ASSUME NEW x PROVE x \in Scattered(v, n) <=> x \in Span(<<b, Least(n, 8)>>)
  <2>1. x \in Span(<<b, 8>>) <=> x \in Nat /\ b <= x /\ x < b + 8
    BY InSpan
  <2>2. x \in Span(<<b, Least(n, 8)>>) <=> x \in Nat /\ b <= x /\ x < b + Least(n, 8)
    BY InSpan DEF Least
  <2>3. QED BY <1>1, <1>5, <1>6, <2>1, <2>2 DEF Least
<1>8. QED BY <1>7 DEF v

LEMMA ScatteredTwo ==
    ASSUME NEW a \in Nat, NEW b \in Nat, NEW n \in Nat
    PROVE  Scattered(<<<<a, 3>>, <<b, 8>>>>, n) =
              Span(<<a, Least(n, 3)>>) \cup Span(<<b, Least(n - Least(n, 3), 8)>>)
<1> DEFINE v == <<<<a, 3>>, <<b, 8>>>>
           Unroll(f) == [i \in 1 .. Len(v) |-> IF i = 1 THEN 0 ELSE f[i - 1] + v[i - 1][2]]
           before == CHOOSE f : f = Unroll(f)
           w == [i \in 1 .. 2 |-> IF i = 1 THEN 0 ELSE 3]
           Part(i) == {x \in Span(v[i]) : before[i] + (x - v[i][1]) < n}
<1>1. /\ Len(v) = 2 /\ DOMAIN v = {1, 2} /\ v[1] = <<a, 3>> /\ v[2] = <<b, 8>>
      /\ v[1][1] = a /\ v[1][2] = 3 /\ v[2][1] = b
  OBVIOUS
<1>2. Scattered(v, n) = UNION {Part(i) : i \in DOMAIN v}
  BY DEF Scattered
<1> HIDE DEF v
<1>3. w = Unroll(w)
  <2>1. w[1] = 0 /\ w[2] = 3 /\ w = [i \in 1 .. 2 |-> w[i]]
    OBVIOUS
  <2> HIDE DEF w
  <2>2. \A i \in 1 .. 2 : w[i] = IF i = 1 THEN 0 ELSE w[i - 1] + v[i - 1][2]
    BY <1>1, <2>1
  <2>3. QED BY <1>1, <2>1, <2>2
<1>4. before = Unroll(before)
  <2> HIDE DEF Unroll, w
  <2>1. QED BY <1>3
<1> HIDE DEF before
<1>5. before[1] = 0 /\ before[2] = 3
  <2> DEFINE G(i) == IF i = 1 THEN 0 ELSE before[i - 1] + v[i - 1][2]
  <2>1. before = [i \in 1 .. 2 |-> G(i)]
    BY <1>1, <1>4
  <2> HIDE DEF G
  <2>2. before[1] = G(1) /\ before[2] = G(2)
    BY <2>1
  <2>3. QED BY <2>2, <1>1 DEF G
<1>6. Scattered(v, n) = Part(1) \cup Part(2)
  <2> HIDE DEF Part
  <2>1. QED BY <1>1, <1>2
<1>7. Part(1) = Span(<<a, Least(n, 3)>>)
  <2>1. ASSUME NEW x PROVE x \in Part(1) <=> x \in Span(<<a, Least(n, 3)>>)
    <3>1. x \in Span(<<a, 3>>) <=> x \in Nat /\ a <= x /\ x < a + 3
      BY InSpan
    <3>2. x \in Span(<<a, Least(n, 3)>>) <=> x \in Nat /\ a <= x /\ x < a + Least(n, 3)
      BY InSpan DEF Least
    <3>3. QED BY <1>1, <1>5, <3>1, <3>2 DEF Least
  <2>2. QED BY <2>1
<1>8. Part(2) = Span(<<b, Least(n - Least(n, 3), 8)>>)
  <2>1. ASSUME NEW x PROVE x \in Part(2) <=> x \in Span(<<b, Least(n - Least(n, 3), 8)>>)
    <3>1. x \in Span(<<b, 8>>) <=> x \in Nat /\ b <= x /\ x < b + 8
      BY InSpan
    <3>2. Least(n - Least(n, 3), 8) \in Nat
      BY DEF Least
    <3>3. x \in Span(<<b, Least(n - Least(n, 3), 8)>>) <=> x \in Nat /\ b <= x /\ x < b + Least(n - Least(n, 3), 8)
      BY <3>2, InSpan
    <3>4. QED BY <1>1, <1>5, <3>1, <3>3 DEF Least
  <2>2. QED BY <2>1
<1>9. QED BY <1>6, <1>7, <1>8 DEF v

LEMMA SpanGrows ==
    ASSUME NEW a \in Nat, NEW m \in Nat, NEW n \in Nat, m <= n
    PROVE  Span(<<a, m>>) \subseteq Span(<<a, n>>)
<1>1. ASSUME NEW x, x \in Span(<<a, m>>) PROVE x \in Span(<<a, n>>)
  <2>1. x \in Nat /\ a <= x /\ x < a + m
    BY <1>1, InSpan
  <2>2. x \in Span(<<a, n>>) <=> x \in Nat /\ a <= x /\ x < a + n
    BY InSpan
  <2>3. QED BY <2>1, <2>2
<1>2. QED BY <1>1

LEMMA Scatter ==
    ASSUME NEW iov \in Vectors, NEW n \in Small
    PROVE  /\ Short(Taken(iov, n))
           /\ Spans(Taken(iov, n)) = Scattered(iov, n)
           /\ Scattered(iov, n) \subseteq Scattered(iov, 16)
           /\ Scattered(iov, n) \subseteq Buffers
           /\ Len(iov) = 1 => iov[1][1] \in Nat /\ Scattered(iov, n) = Span(<<iov[1][1], n>>)
<1>1. CASE iov \in {<<<<b, 8>>>> : b \in Bufs}
  <2>1. PICK b \in Bufs : iov = <<<<b, 8>>>>
    BY <1>1
  <2>2. b \in Nat /\ n \in Nat /\ 16 \in Nat /\ Least(n, 8) = n /\ Least(16, 8) = 8 /\ 8 \in Nat /\ n <= 8
    BY DtaToolAssumption DEF Small, Least
  <2>3. Taken(iov, n) = <<<<b, n>>>>
    BY <2>1, <2>2, TakenOne
  <2>4. Scattered(iov, n) = Span(<<b, n>>)
    BY <2>1, <2>2, ScatteredOne, Zenon
  <2>5. Scattered(iov, 16) = Span(<<b, 8>>)
    BY <2>1, <2>2, ScatteredOne, Zenon
  <2>6. Spans(Taken(iov, n)) = Span(<<b, n>>)
    BY <2>3, SpansShort
  <2>7. Span(<<b, n>>) \subseteq Span(<<b, 8>>)
    BY <2>2, SpanGrows
  <2>8. Span(<<b, 8>>) \subseteq Buffers
    BY DEF Buffers
  <2>9. Short(Taken(iov, n))
    BY <2>2, <2>3 DEF Short
  <2>10. iov[1][1] = b
    BY <2>1
  <2>11. QED BY <2>2, <2>4, <2>5, <2>6, <2>7, <2>8, <2>9, <2>10, Zenon
<1>2. CASE iov \in {v \in {<<<<a, 3>>, <<b, 8>>>> : a, b \in Bufs} : v[1][1] # v[2][1]}
  <2>1. PICK a \in Bufs, b \in Bufs : iov = <<<<a, 3>>, <<b, 8>>>>
    BY <1>2
  <2> DEFINE j == Least(n, 3)
             k == n - Least(n, 3)
  <2>2. /\ a \in Nat /\ b \in Nat /\ n \in Nat /\ 16 \in Nat
        /\ j \in Nat /\ j <= 3 /\ k \in Nat /\ k <= 8 /\ Least(k, 8) = k
        /\ Least(16, 3) = 3 /\ Least(16 - 3, 8) = 8
    BY DtaToolAssumption DEF Small, Least
  <2>3. Taken(iov, n) = <<<<a, j>>, <<b, k>>>>
    BY <2>1, <2>2, TakenTwo
  <2>4. Scattered(iov, n) = Span(<<a, j>>) \cup Span(<<b, k>>)
    <3>1. a \in Nat /\ b \in Nat /\ n \in Nat
      BY <2>2
    <3>2. Scattered(<<<<a, 3>>, <<b, 8>>>>, n) = Span(<<a, j>>) \cup Span(<<b, Least(k, 8)>>)
      BY <3>1, ScatteredTwo, ZenonT(60)
    <3> HIDE DEF j, k
    <3>3. QED BY <2>1, <2>2, <3>2, Zenon
  <2>5. Scattered(iov, 16) = Span(<<a, 3>>) \cup Span(<<b, 8>>)
    <3>1. a \in Nat /\ b \in Nat /\ 16 \in Nat
      BY <2>2
    <3>2. Scattered(<<<<a, 3>>, <<b, 8>>>>, 16) =
             Span(<<a, Least(16, 3)>>) \cup Span(<<b, Least(16 - Least(16, 3), 8)>>)
      BY <3>1, ScatteredTwo, ZenonT(60)
    <3>3. Least(16, 3) = 3 /\ Least(16 - Least(16, 3), 8) = 8
      BY DEF Least
    <3>4. QED BY <2>1, <3>2, <3>3, Zenon
  <2> HIDE DEF j, k
  <2>6. Spans(Taken(iov, n)) = Span(<<a, j>>) \cup Span(<<b, k>>)
    BY <2>3, SpansShort
  <2>7. Span(<<a, j>>) \subseteq Span(<<a, 3>>) /\ Span(<<b, k>>) \subseteq Span(<<b, 8>>)
    <3>1. a \in Nat /\ b \in Nat /\ j \in Nat /\ k \in Nat /\ 3 \in Nat /\ 8 \in Nat
      BY <2>2
    <3>2. j <= 3 /\ k <= 8
      BY <2>2
    <3>3. Span(<<a, j>>) \subseteq Span(<<a, 3>>)
      BY <3>1, <3>2, SpanGrows
    <3>4. Span(<<b, k>>) \subseteq Span(<<b, 8>>)
      BY <3>1, <3>2, SpanGrows
    <3>5. QED BY <3>3, <3>4
  <2>8. Span(<<a, 3>>) \subseteq Buffers /\ Span(<<b, 8>>) \subseteq Buffers
    BY <2>2, SpanGrows DEF Buffers
  <2>9. Short(Taken(iov, n))
    BY <2>2, <2>3 DEF Short, Small
  <2>10. Len(iov) = 2
    BY <2>1
  <2>11. QED BY <2>4, <2>5, <2>6, <2>7, <2>8, <2>9, <2>10
<1>3. QED BY <1>1, <1>2 DEF Vectors

-----------------------------------------------------------------------------
(* The inductive invariant. A call is well formed: its result and its ranges    *)
(* are those the kernel gives a call of its name.                              *)
Names == DataCalls \cup Makes \cup {"other", "close", "socketpair", "getsockname"}

Ranges == {<<>>} \cup {<<<<b, 3>>, <<b + 4, 4>>>> : b \in Bufs}
                 \cup {<<<<b, 8>>>> : b \in Bufs} \cup {<<<<b + 4, 4>>>> : b \in Bufs}
Controls == {<<>>} \cup {<<<<b, 3>>>> : b \in Bufs}

Shape(c) ==
    /\ c.ret \in Nat \cup {None} /\ c.aux \in Ranges /\ c.ctl \in Controls
    /\ c.name \in {"open", "openlib", "socket", "other", "dup", "close"} => c.aux = <<>>
    /\ c.name \in {"read", "readv", "recv"} => c.aux = <<>>
    /\ c.name # "recvmsg" => c.ctl = <<>>
    /\ c.name \in DataCalls /\ c.ret # None =>
          /\ c.ret \in Small /\ c.iov \in Vectors
          /\ c.name \notin {"readv", "recvmsg"} => Len(c.iov) = 1
          /\ Stored(c) \cap Received(c) = {}

CallInv ==
    /\ knobs \in [sin : BOOLEAN, fs : BOOLEAN, net : BOOLEAN]
    /\ call = [t \in Threads |-> call[t]]
    /\ \A t \in Threads : call[t] = NoCall \/ (call[t].name \in Names /\ Shape(call[t]))

(* A descriptor is settling while a hook has still to insert or to remove it.     *)
Settles(c, f) == (c.name \in Makes /\ c.ret = f) \/ (c.name = "close" /\ c.fd = f)
Settling(f)   == \E t \in Threads : Settles(call[t], f)

(* The objects that a call of a name can make.                                    *)
MadeKinds(name) ==
    CASE name = "open" -> {"file"} [] name = "openlib" -> {"lib"} [] name = "socket" -> {"inet"}
      [] name = "accept" -> {"inet", "unix"} [] OTHER -> Kinds

(* What a call in progress relies on, unless its descriptor went astray: one that *)
(* closes has left its number free; one that makes a descriptor finds it in the   *)
(* set only if it is tracked; one that uses a descriptor uses an open one that is  *)
(* not settling, and of which it made a duplicate.                                *)
Closing(c) ==
    c.name = "close" => c.fd \in Fds /\ (c.fd \notin astray => c.ret = 0 /\ files[c.fd] = Free)
Makings(c) ==
    c.name \in Makes /\ c.ret # None =>
        /\ c.ret \in Fds
        /\ c.ret \notin astray => /\ files[c.ret] \in MadeKinds(c.name)
                                  /\ c.ret \in fdset => Tracked(files[c.ret])
Using(c) ==
    c.name \in DataCalls \cup {"dup", "accept"} /\ c.ret # None =>
        /\ c.fd \in Fds
        /\ c.fd \notin astray =>
              /\ files[c.fd] # Free /\ ~Settling(c.fd)
              /\ c.name \in {"accept", "recv", "recvfrom", "recvmsg"} => files[c.fd] \in {"inet", "unix"}
              /\ c.name \in {"dup", "accept"} /\ c.ret \notin astray => files[c.ret] = files[c.fd]

(* The set of descriptors is right but for those that settle.                     *)
FdInv ==
    /\ \A f \in Fds \ astray : ~Settling(f) => (f \in fdset <=> Tracked(files[f]))
    /\ \A t \in Threads : Closing(call[t]) /\ Makings(call[t]) /\ Using(call[t])

(* The bytes that a call in progress has written hold tracked data exactly if     *)
(* they were received from a tracked object, and calls share none of them.        *)
Holds(c) ==
    /\ Stored(c) \cap Written(c) \cap data = {}
    /\ c.name \in DataCalls /\ c.ret # None /\ c.fd \notin astray =>
          IF Tracked(files[c.fd]) THEN Received(c) \subseteq data ELSE Received(c) \cap data = {}

WriteInv ==
    /\ \A t, u \in Threads : t # u => Written(call[t]) \cap Written(call[u]) = {}
    /\ \A t \in Threads : Holds(call[t])

(* Together with the type and what is to be shown of tags and branches.           *)
ToolInv == TypeOK /\ CallInv /\ FdInv /\ WriteInv /\ TaintRight /\ BranchesRight

-----------------------------------------------------------------------------
(* The bytes of a call *)

LEMMA ShapeShort ==
    ASSUME NEW c, Shape(c)
    PROVE  Short(c.aux) /\ Short(c.ctl) /\ Stored(c) \subseteq Buffers /\ Control(c) \subseteq Buffers
<1>1. \A b \in Bufs : b \in Nat /\ b + 4 \in Nat
  BY DtaToolAssumption
<1>2. ASSUME NEW b \in Bufs
      PROVE  /\ Span(<<b, 3>>) \subseteq Buffers /\ Span(<<b, 8>>) \subseteq Buffers
             /\ Span(<<b + 4, 4>>) \subseteq Buffers
  <2>1. b \in Nat /\ b + 4 \in Nat
    BY <1>1
  <2>2. Span(<<b, 8>>) \subseteq Buffers
    BY DEF Buffers
  <2>3. Span(<<b, 3>>) \subseteq Span(<<b, 8>>)
    BY <2>1, SpanGrows
  <2>4. ASSUME NEW x, x \in Span(<<b + 4, 4>>) PROVE x \in Span(<<b, 8>>)
    <3>1. x \in Nat /\ b + 4 <= x /\ x < (b + 4) + 4
      BY <2>1, <2>4, InSpan
    <3>2. x \in Span(<<b, 8>>) <=> x \in Nat /\ b <= x /\ x < b + 8
      BY <2>1, InSpan
    <3>3. QED BY <2>1, <3>1, <3>2
  <2>5. QED BY <2>2, <2>3, <2>4
<1>3. ASSUME NEW R, R \in Ranges \cup Controls PROVE Short(R) /\ Spans(R) \subseteq Buffers
  <2>1. CASE R = <<>>
    BY <2>1, SpansShort DEF Short
  <2>2. CASE \E b \in Bufs : R = <<<<b, 3>>, <<b + 4, 4>>>>
    <3>1. PICK b \in Bufs : R = <<<<b, 3>>, <<b + 4, 4>>>>
      BY <2>2
    <3>2. Spans(R) = Span(<<b, 3>>) \cup Span(<<b + 4, 4>>)
      BY <3>1, SpansShort
    <3>3. Short(R)
      BY <1>1, <3>1 DEF Short, Small
    <3>4. QED BY <1>2, <3>2, <3>3
  <2>3. CASE \E b \in Bufs : R = <<<<b, 8>>>>
    <3>1. PICK b \in Bufs : R = <<<<b, 8>>>>
      BY <2>3
    <3>2. Spans(R) = Span(<<b, 8>>)
      BY <3>1, SpansShort
    <3>3. Short(R)
      BY <1>1, <3>1 DEF Short, Small
    <3>4. QED BY <1>2, <3>2, <3>3
  <2>4. CASE \E b \in Bufs : R = <<<<b + 4, 4>>>>
    <3>1. PICK b \in Bufs : R = <<<<b + 4, 4>>>>
      BY <2>4
    <3>2. Spans(R) = Span(<<b + 4, 4>>)
      BY <3>1, SpansShort
    <3>3. Short(R)
      BY <1>1, <3>1 DEF Short, Small
    <3>4. QED BY <1>2, <3>2, <3>3
  <2>5. CASE \E b \in Bufs : R = <<<<b, 3>>>>
    <3>1. PICK b \in Bufs : R = <<<<b, 3>>>>
      BY <2>5
    <3>2. Spans(R) = Span(<<b, 3>>)
      BY <3>1, SpansShort
    <3>3. Short(R)
      BY <1>1, <3>1 DEF Short, Small
    <3>4. QED BY <1>2, <3>2, <3>3
  <2>6. QED BY <1>3, <2>1, <2>2, <2>3, <2>4, <2>5 DEF Ranges, Controls
<1>4. c.aux \in Ranges /\ c.ctl \in Controls
  BY DEF Shape
<1>5. QED BY <1>3, <1>4 DEF Stored, Control

LEMMA WrittenInBuffers ==
    ASSUME NEW c, Shape(c) PROVE Written(c) \subseteq Buffers
<1>1. Stored(c) \subseteq Buffers /\ Control(c) \subseteq Buffers
  BY ShapeShort
<1>2. Received(c) \subseteq Buffers
  <2>1. CASE c.name \in DataCalls /\ c.ret >= 0
    <3>1. c.ret \in Small /\ c.iov \in Vectors
      BY <2>1 DEF Shape, None
    <3>2. Scattered(c.iov, c.ret) \subseteq Buffers
      BY <3>1, Scatter
    <3>3. QED BY <1>1, <2>1, <3>2 DEF Received
  <2>2. QED BY <2>1 DEF Received
<1>3. QED BY <1>1, <1>2 DEF Written

LEMMA NothingWritten == Written(NoCall) = {} /\ Received(NoCall) = {} /\ NoCall.name = "none"
BY DEF Written, Received, NoCall, Plain, Call, None, DataCalls

(* A call with a result writes what it stores and what it receives.               *)
LEMMA WrittenWhole ==
    ASSUME NEW c, Shape(c), c.ret # None PROVE Written(c) = Stored(c) \cup Received(c)
BY DEF Shape, Written, None

LEMMA FailedWritesNothing ==
    ASSUME NEW c, c.ret = None PROVE Written(c) = {} /\ Received(c) = {}
BY DEF Written, Received, None

-----------------------------------------------------------------------------
(* What the hooks do *)

(* Whether the hook of the call c inserts its result into the set F, or removes       *)
(* its descriptor from it.                                                          *)
Inserts(F, c) ==
    /\ c.name \in {"open", "socket", "accept", "dup"} /\ c.ret >= 0
    /\ c.name = "open" => knobs.fs
    /\ c.name \in {"socket", "accept"} => knobs.net
    /\ c.name \in {"accept", "dup"} => c.fd \in F
Removes(c) == c.name = "close" /\ c.ret >= 0

(* The hooks insert and remove what these say, and nothing else.                   *)
LEMMA HookFds ==
    ASSUME NEW F, NEW B, NEW c, c.ret \in Int, c.name \in Names, NEW f
    PROVE  f \in Hook(Tool(F, B), c).fds <=>
              (f \in F /\ ~(Removes(c) /\ f = c.fd)) \/ (Inserts(F, c) /\ f = c.ret)
<1> DEFINE s == Tool(F, B)
<1>1. s.fds = F
  BY DEF Tool
<1>2. \A fds, C : Tool(fds, C).fds = fds
  BY DEF Tool
<1> HIDE DEF s
<1>4. CASE c.name \in {"read", "readv"}
  BY <1>1, <1>2, <1>4 DEF Hook, post_read_hook, post_readv_hook, TaintData, Inserts, Removes, s
<1>5. CASE c.name = "dup"
  BY <1>1, <1>2, <1>5 DEF Hook, Insert, post_dup_hook, In, Inserts, Removes, s
<1>6. CASE c.name = "close"
  BY <1>1, <1>2, <1>6 DEF Hook, post_close_hook, Inserts, Removes, s
<1>7. CASE c.name \in {"open", "openlib"}
  BY <1>1, <1>2, <1>7 DEF Hook, Insert, post_open_hook, Inserts, Removes, s
<1>8. CASE c.name \notin {"read", "readv", "dup", "close", "open", "openlib"}
  <2>1. Hook(s, c) = post_socketcall_hook(s, c)
    BY <1>8 DEF Hook
  <2>2. ~Removes(c)
    BY <1>8 DEF Removes
  <2>3. CASE c.ret < 0
    <3>1. Hook(s, c) = s
      BY <2>1, <2>3 DEF post_socketcall_hook
    <3>2. QED BY <1>1, <2>2, <2>3, <3>1 DEF Inserts, s
  <2>4. CASE c.ret >= 0 /\ c.name = "socket"
    <3>1. Hook(s, c) = Insert(s, c.ret, knobs.net)
      BY <2>1, <2>4 DEF post_socketcall_hook
    <3>2. QED BY <1>1, <1>2, <2>2, <2>4, <3>1 DEF Insert, Inserts, s
  <2>5. CASE c.ret >= 0 /\ c.name = "accept"
    <3>1. Hook(s, c) = ClearAux(Insert(s, c.ret, knobs.net /\ In(s, c.fd)), c)
      BY <2>1, <2>5 DEF post_socketcall_hook
    <3>2. Hook(s, c).fds = Insert(s, c.ret, knobs.net /\ In(s, c.fd)).fds
      BY <1>2, <3>1 DEF ClearAux
    <3>3. In(s, c.fd) <=> c.fd \in F
      BY <1>1 DEF In
    <3>4. QED BY <1>1, <1>2, <2>2, <2>5, <3>2, <3>3 DEF Insert, Inserts, s
  <2>6. CASE c.ret >= 0 /\ c.name \notin {"socket", "accept"}
    <3> DEFINE in == knobs.net /\ In(s, c.fd)
    <3>a. \A C : ClearAux(C, c).fds = C.fds
      BY <1>2 DEF ClearAux
    <3>b. TaintData(s, in, c).fds = F
      BY <1>1, <1>2 DEF TaintData
    <3>c. recvmsg(s, c).fds = F
      BY <1>1, <1>2 DEF recvmsg
    <3>1. Hook(s, c).fds = F
      <4>1. CASE c.name = "recv"
        BY <1>1, <2>1, <2>6, <3>b, <4>1 DEF post_socketcall_hook
      <4>2. CASE c.name = "recvfrom"
        BY <1>1, <2>1, <2>6, <3>a, <3>b, <4>2 DEF post_socketcall_hook
      <4>3. CASE c.name = "recvmsg"
        BY <2>1, <2>6, <3>c, <4>3 DEF post_socketcall_hook
      <4>4. CASE c.name \notin {"recv", "recvfrom", "recvmsg"}
        BY <1>1, <2>1, <2>6, <3>a, <4>4 DEF post_socketcall_hook
      <4>5. QED BY <4>1, <4>2, <4>3, <4>4
    <3>2. QED BY <1>8, <2>2, <2>6, <3>1 DEF Inserts, s
  <2>7. QED BY <2>3, <2>4, <2>5, <2>6
<1>9. QED BY <1>4, <1>5, <1>6, <1>7, <1>8

(* Whether the hook tags the data of a call.                                      *)
Tagging(F, c) ==
    CASE c.name \in {"read", "readv"} -> c.fd \in F
      [] c.name \in {"recv", "recvfrom"} -> knobs.net /\ c.fd \in F
      [] OTHER -> knobs.net /\ SYS_RECVMSG \in F

(* What the hook leaves of the tags B: what was stored loses them, what was       *)
(* received gets them if the descriptor is tracked and loses them otherwise.      *)
LEMMA HookTags ==
    ASSUME NEW F, NEW B, NEW c, c.name \in Names, Shape(c)
    PROVE  /\ c.ret = None \/ (c.name \in DataCalls /\ c.ret = 0) => Hook(Tool(F, B), c).tags = B
           /\ c.ret # None /\ c.name \notin DataCalls => Hook(Tool(F, B), c).tags = B \ Stored(c)
           /\ c.ret > 0 /\ c.name \in DataCalls /\ Tagging(F, c) =>
                 Hook(Tool(F, B), c).tags = (B \ Stored(c)) \cup Received(c)
           /\ c.ret > 0 /\ c.name \in DataCalls /\ ~Tagging(F, c) =>
                 Hook(Tool(F, B), c).tags = (B \ Stored(c)) \ Received(c)
<1> DEFINE s == Tool(F, B)
<1>1. s.fds = F /\ s.tags = B
  BY DEF Tool
<1>2. \A G, C : Tool(G, C).tags = C /\ Tool(G, C).fds = G
  BY DEF Tool
<1>3. c.ret \in Nat \cup {None} /\ None = -1
  BY DEF Shape, None
<1>4. ASSUME NEW G PROVE ClearAux(G, c).tags = G.tags \ Stored(c)
  <2>1. Short(c.aux)
    BY ShapeShort
  <2>2. TaintRanges(G.tags, FALSE, c.aux) = G.tags \ Spans(c.aux)
    BY <2>1, RangesTaint, Zenon
  <2>3. ClearAux(G, c).tags = TaintRanges(G.tags, FALSE, c.aux)
    BY <1>2 DEF ClearAux
  <2>4. QED BY <2>2, <2>3 DEF Stored
<1>5. c.aux = <<>> => Stored(c) = {}
  BY SpansShort DEF Stored
<1> HIDE DEF s
<1>6. c.ret = None \/ (c.name \in DataCalls /\ c.ret = 0) => Hook(s, c).tags = B
  <2> SUFFICES ASSUME c.ret = None \/ (c.name \in DataCalls /\ c.ret = 0) PROVE Hook(s, c) = s
    BY <1>1
  <2>1. CASE c.name \in {"read", "readv"}
    BY <1>3, <2>1 DEF Hook, post_read_hook, post_readv_hook
  <2>2. CASE c.name \in {"dup", "close", "open", "openlib"}
    BY <1>3, <2>2 DEF Hook, post_dup_hook, post_close_hook, post_open_hook, Insert, DataCalls
  <2>3. CASE c.name \notin {"read", "readv", "dup", "close", "open", "openlib"}
    <3>1. Hook(s, c) = post_socketcall_hook(s, c)
      BY <2>3 DEF Hook
    <3>2. recvmsg(s, c) = s
      BY <1>3 DEF recvmsg
    <3>3. QED BY <1>3, <2>3, <3>1, <3>2 DEF post_socketcall_hook, DataCalls
  <2>4. QED BY <2>1, <2>2, <2>3
<1>7. c.ret # None /\ c.name \notin DataCalls => Hook(s, c).tags = B \ Stored(c)
  <2> SUFFICES ASSUME c.ret # None, c.name \notin DataCalls PROVE Hook(s, c).tags = B \ Stored(c)
    OBVIOUS
  <2>1. c.ret >= 0
    BY <1>3
  <2>2. CASE c.name \in {"dup", "close", "open", "openlib"}
    <3>1. Stored(c) = {}
      BY <1>5, <2>2 DEF Shape
    <3>2. Hook(s, c).tags = B
      BY <1>1, <1>2, <2>2 DEF Hook, post_dup_hook, post_close_hook, post_open_hook, Insert
    <3>3. QED BY <3>1, <3>2
  <2>3. CASE c.name \in {"socket", "other"}
    <3>1. Stored(c) = {}
      BY <1>5, <2>3 DEF Shape
    <3>2. Hook(s, c).tags = B
      BY <1>1, <1>2, <2>1, <2>3 DEF Hook, post_socketcall_hook, Insert
    <3>3. QED BY <3>1, <3>2
  <2>4. CASE c.name = "accept"
    <3> DEFINE in == knobs.net /\ In(s, c.fd)
    <3>1. Hook(s, c) = ClearAux(Insert(s, c.ret, in), c)
      BY <1>3, <2>1, <2>4 DEF Hook, post_socketcall_hook
    <3>2. Insert(s, c.ret, in).tags = B
      BY <1>1, <1>2 DEF Insert
    <3> HIDE DEF in
    <3>3. QED BY <1>4, <3>1, <3>2
  <2>5. CASE c.name \in {"getsockname", "socketpair"}
    <3>1. Hook(s, c) = ClearAux(s, c)
      BY <1>3, <2>1, <2>5 DEF Hook, post_socketcall_hook
    <3>2. QED BY <1>1, <1>4, <3>1
  <2>6. QED BY <2>2, <2>3, <2>4, <2>5 DEF Names, DataCalls, Makes
<1>8. c.ret > 0 /\ c.name \in DataCalls =>
         Hook(s, c).tags = IF Tagging(F, c) THEN (B \ Stored(c)) \cup Received(c)
                                           ELSE (B \ Stored(c)) \ Received(c)
  <2> SUFFICES ASSUME c.ret > 0, c.name \in DataCalls
               PROVE  Hook(s, c).tags = IF Tagging(F, c) THEN (B \ Stored(c)) \cup Received(c)
                                                         ELSE (B \ Stored(c)) \ Received(c)
    OBVIOUS
  <2>1. /\ c.ret # None /\ ~(c.ret <= 0) /\ c.ret >= 0 /\ c.ret \in Small /\ c.iov \in Vectors
        /\ c.name \notin {"readv", "recvmsg"} => Len(c.iov) = 1
        /\ Stored(c) \cap Received(c) = {}
    BY <1>3 DEF Shape
  <2>2. Received(c) = Scattered(c.iov, c.ret) \cup Control(c)
    BY <2>1 DEF Received
  <2>3. c.name # "recvmsg" => Received(c) = Scattered(c.iov, c.ret)
    <3>1. c.name # "recvmsg" => Control(c) = {}
      BY SpansShort DEF Control, Shape
    <3>2. QED BY <2>2, <3>1
  <2>4. Len(c.iov) = 1 => c.iov[1][1] \in Nat /\ Scattered(c.iov, c.ret) = Span(<<c.iov[1][1], c.ret>>)
    BY <2>1, Scatter
  <2>5. ASSUME c.name \notin {"readv", "recvmsg"}
        PROVE  /\ TaintData(s, TRUE, c).tags = B \cup Received(c)
               /\ TaintData(s, FALSE, c).tags = B \ Received(c)
    <3>1. /\ TaintData(s, TRUE, c).tags = Taint(B, TRUE, c.iov[1][1], c.ret)
          /\ TaintData(s, FALSE, c).tags = Taint(B, FALSE, c.iov[1][1], c.ret)
      BY <1>1, <1>2 DEF TaintData
    <3>2. Received(c) = Span(<<c.iov[1][1], c.ret>>) /\ c.iov[1][1] \in Nat /\ c.ret \in Small
      BY <2>1, <2>3, <2>4, <2>5
    <3>3. Taint(B, TRUE, c.iov[1][1], c.ret) = B \cup Span(<<c.iov[1][1], c.ret>>)
      BY <3>2, TaintSets, Zenon
    <3>4. Taint(B, FALSE, c.iov[1][1], c.ret) = B \ Span(<<c.iov[1][1], c.ret>>)
      BY <3>2, TaintClears, Zenon
    <3>5. QED BY <3>1, <3>2, <3>3, <3>4, Zenon
  <2>6. ASSUME NEW C
        PROVE  /\ TaintVector(C, TRUE, c.iov, c.ret) = C \cup Scattered(c.iov, c.ret)
               /\ TaintVector(C, FALSE, c.iov, c.ret) = C \ Scattered(c.iov, c.ret)
    <3>1. Short(Taken(c.iov, c.ret)) /\ Spans(Taken(c.iov, c.ret)) = Scattered(c.iov, c.ret)
      BY <2>1, Scatter
    <3>2. TaintRanges(C, TRUE, Taken(c.iov, c.ret)) = C \cup Spans(Taken(c.iov, c.ret))
      BY <3>1, RangesTaint, Zenon
    <3>3. TaintRanges(C, FALSE, Taken(c.iov, c.ret)) = C \ Spans(Taken(c.iov, c.ret))
      BY <3>1, RangesTaint, Zenon
    <3>4. QED BY <3>1, <3>2, <3>3, Zenon DEF TaintVector
  <2>7. ASSUME NEW C
        PROVE  /\ TaintRanges(C, TRUE, c.ctl) = C \cup Control(c)
               /\ TaintRanges(C, FALSE, c.ctl) = C \ Control(c)
    <3>1. Short(c.ctl)
      BY ShapeShort
    <3>2. QED BY <3>1, RangesTaint, Zenon DEF Control
  <2>8. CASE c.name = "read"
    <3> DEFINE in == c.fd \in F
    <3>1. Stored(c) = {}
      BY <1>5, <2>8 DEF Shape
    <3>2. Hook(s, c) = TaintData(s, in, c) /\ (Tagging(F, c) <=> in)
      BY <1>1, <2>1, <2>8 DEF Hook, post_read_hook, In, Tagging
    <3> HIDE DEF in
    <3>3. CASE in
      <4>1. Hook(s, c) = TaintData(s, TRUE, c)
        BY <3>2, <3>3, Zenon DEF in
      <4>2. QED BY <2>5, <2>8, <3>1, <3>2, <3>3, <4>1
    <3>4. CASE ~in
      <4>1. Hook(s, c) = TaintData(s, FALSE, c)
        <5>1. in = FALSE
          BY <3>4 DEF in
        <5>2. QED BY <3>2, <5>1, Zenon
      <4>2. QED BY <2>5, <2>8, <3>1, <3>2, <3>4, <4>1
    <3>5. QED BY <3>3, <3>4
  <2>9. CASE c.name = "readv"
    <3> DEFINE in == c.fd \in F
    <3>1. Stored(c) = {} /\ Received(c) = Scattered(c.iov, c.ret)
      BY <1>5, <2>3, <2>9 DEF Shape
    <3>2. Hook(s, c).tags = TaintVector(B, in, c.iov, c.ret) /\ (Tagging(F, c) <=> in)
      BY <1>1, <1>2, <2>1, <2>9 DEF Hook, post_readv_hook, In, Tagging
    <3> HIDE DEF in
    <3>3. CASE in
      <4>1. Hook(s, c).tags = TaintVector(B, TRUE, c.iov, c.ret)
        BY <3>2, <3>3, Zenon DEF in
      <4>2. QED BY <2>6, <3>1, <3>2, <3>3, <4>1
    <3>4. CASE ~in
      <4>1. Hook(s, c).tags = TaintVector(B, FALSE, c.iov, c.ret)
        <5>1. in = FALSE
          BY <3>4 DEF in
        <5>2. QED BY <3>2, <5>1, Zenon
      <4>2. QED BY <2>6, <3>1, <3>2, <3>4, <4>1
    <3>5. QED BY <3>3, <3>4
  <2>10. CASE c.name = "recv"
    <3> DEFINE in == knobs.net /\ c.fd \in F
    <3>1. Stored(c) = {}
      BY <1>5, <2>10 DEF Shape
    <3>2. Hook(s, c) = TaintData(s, in, c) /\ (Tagging(F, c) <=> in)
      BY <1>1, <1>3, <2>1, <2>10 DEF Hook, post_socketcall_hook, In, Tagging
    <3> HIDE DEF in
    <3>3. CASE in
      <4>1. Hook(s, c) = TaintData(s, TRUE, c)
        BY <3>2, <3>3, Zenon DEF in
      <4>2. QED BY <2>5, <2>10, <3>1, <3>2, <3>3, <4>1
    <3>4. CASE ~in
      <4>1. Hook(s, c) = TaintData(s, FALSE, c)
        BY <3>2, <3>4, Zenon DEF in
      <4>2. QED BY <2>5, <2>10, <3>1, <3>2, <3>4, <4>1
    <3>5. QED BY <3>3, <3>4
  <2>11. CASE c.name = "recvfrom"
    <3> DEFINE in == knobs.net /\ c.fd \in F
    <3>1. Hook(s, c) = ClearAux(TaintData(s, in, c), c) /\ (Tagging(F, c) <=> in)
      BY <1>1, <1>3, <2>1, <2>11 DEF Hook, post_socketcall_hook, In, Tagging
    <3>2. Hook(s, c).tags = TaintData(s, in, c).tags \ Stored(c)
      BY <1>4, <3>1
    <3> HIDE DEF in
    <3>3. CASE in
      <4>1. Hook(s, c).tags = TaintData(s, TRUE, c).tags \ Stored(c)
        BY <3>2, <3>3, Zenon DEF in
      <4>2. QED BY <2>1, <2>5, <2>11, <3>1, <3>3, <4>1
    <3>4. CASE ~in
      <4>1. Hook(s, c).tags = TaintData(s, FALSE, c).tags \ Stored(c)
        BY <3>2, <3>4, Zenon DEF in
      <4>2. QED BY <2>1, <2>5, <2>11, <3>1, <3>4, <4>1
    <3>5. QED BY <3>3, <3>4
  <2>12. CASE c.name = "recvmsg"
    <3> DEFINE in == knobs.net /\ SYS_RECVMSG \in F
               D == B \ Stored(c)
    <3>1. Hook(s, c) = recvmsg(s, c)
      BY <1>3, <2>1, <2>12 DEF Hook, post_socketcall_hook
    <3>2. ClearAux(s, c).tags = D
      BY <1>1, <1>4
    <3> HIDE DEF D
    <3>3. Hook(s, c).tags = TaintVector(TaintRanges(D, in, c.ctl), in, c.iov, c.ret)
      BY <1>1, <1>2, <2>1, <3>1, <3>2 DEF recvmsg, In
    <3>4. Tagging(F, c) <=> in
      BY <2>12 DEF Tagging
    <3> HIDE DEF in
    <3>5. CASE in
      <4>1. Hook(s, c).tags = TaintVector(TaintRanges(D, TRUE, c.ctl), TRUE, c.iov, c.ret)
        BY <3>3, <3>5, Zenon DEF in
      <4>2. Hook(s, c).tags = (D \cup Control(c)) \cup Scattered(c.iov, c.ret)
        BY <2>6, <2>7, <4>1, Zenon
      <4>3. QED BY <2>2, <3>4, <3>5, <4>2 DEF D
    <3>6. CASE ~in
      <4>1. Hook(s, c).tags = TaintVector(TaintRanges(D, FALSE, c.ctl), FALSE, c.iov, c.ret)
        BY <3>3, <3>6, Zenon DEF in
      <4>2. Hook(s, c).tags = (D \ Control(c)) \ Scattered(c.iov, c.ret)
        BY <2>6, <2>7, <4>1, Zenon
      <4>3. QED BY <2>2, <3>4, <3>6, <4>2 DEF D
    <3>7. QED BY <3>5, <3>6
  <2>13. QED BY <2>8, <2>9, <2>10, <2>11, <2>12 DEF DataCalls
<1>9. QED BY <1>6, <1>7, <1>8 DEF s

-----------------------------------------------------------------------------
(* The kernel's half of a call *)

LEMMA IsNaming ==
    ASSUME NEW t \in Threads, NEW u \in Threads, u # t, NEW h, call[u].name \in Names,
           call[u].fd = h \/ (call[u].name \in Makes /\ call[u].ret = h)
    PROVE  Naming(t, h)
<1>1. call[u] # NoCall
  BY NothingWritten DEF Names, DataCalls, Makes
<1>2. call[u] \in Others(t)
  BY <1>1 DEF Others
<1>3. QED BY <1>2 DEF Naming

LEMMA IsMaking ==
    ASSUME NEW t \in Threads, NEW u \in Threads, u # t, NEW h,
           call[u].name \in Makes, call[u].ret = h
    PROVE  Making(t, h)
<1>1. call[u] # NoCall
  BY NothingWritten DEF Makes
<1>2. call[u] \in Others(t)
  BY <1>1 DEF Others
<1>3. QED BY <1>2 DEF Making

(* An open descriptor that no other thread is making is not settling.             *)
LEMMA OpenIsSettled ==
    ASSUME ToolInv, NEW t \in Threads, call[t] = NoCall, NEW f \in Fds, f \notin astray,
           files[f] # Free, ~Making(t, f)
    PROVE  ~Settling(f)
<1> SUFFICES ASSUME NEW u \in Threads, Settles(call[u], f) PROVE FALSE
  BY DEF Settling
<1>1. u # t
  BY NothingWritten DEF Settles, Makes
<1>2. ~(call[u].name \in Makes /\ call[u].ret = f)
  BY <1>1, IsMaking
<1>3. call[u].name = "close" /\ call[u].fd = f
  BY <1>2 DEF Settles
<1>4. Closing(call[u])
  BY DEF ToolInv, FdInv
<1>5. QED BY <1>3, <1>4 DEF Closing

(* A number that no other thread has in hand is not settling.                     *)
LEMMA UnnamedIsSettled ==
    ASSUME NEW t \in Threads, call[t] = NoCall, NEW f, ~Naming(t, f)
    PROVE  ~Settling(f)
<1> SUFFICES ASSUME NEW u \in Threads, Settles(call[u], f) PROVE FALSE
  BY DEF Settling
<1>1. u # t
  BY NothingWritten DEF Settles, Makes
<1>2. call[u].name \in Names
  BY DEF Settles, Names
<1>3. QED BY <1>1, <1>2, IsNaming DEF Settles

(* A thread enters a call that keeps the invariant: the descriptors G that change      *)
(* go astray if another call has them in hand, the call itself is well formed, and     *)
(* it writes no byte of another call.                                                *)
LEMMA KernelStep ==
    ASSUME ToolInv, NEW t \in Threads, NEW G, G \subseteq Fds, call[t] = NoCall,
           call' = [call EXCEPT ![t] = call'[t]], call'[t].name \in Names, Shape(call'[t]),
           UNCHANGED <<knobs, fdset, tags, outcome, mixed>>,
           files' \in [Fds -> {Free, "tty", "file", "lib", "inet", "unix"}],
           \A h \in Fds \ G : files'[h] = files[h],
           astray \subseteq astray',
           \A h \in G : Naming(t, h) => h \in astray',
           \A h \in Fds : Settles(call'[t], h) => h \in G,
           \A h \in G \ astray' : Settles(call'[t], h) \/ (h \in fdset <=> Tracked(files'[h])),
           Closing(call[t])', Makings(call[t])', Using(call[t])', Holds(call[t])',
           Written(call'[t]) \cap Pending = {},
           data' \ Written(call'[t]) = data \ Written(call'[t]),
           data' \subseteq Buffers
    PROVE  ToolInv'
<1> DEFINE W == Written(call'[t])
<1>1. /\ call' = [u \in Threads |-> call'[u]]
      /\ \A u \in Threads : u # t => call'[u] = call[u]
  BY DEF ToolInv, CallInv
<1>2. \A k : Tracked(k)' <=> Tracked(k)
  BY DEF Tracked
<1>3. ASSUME NEW h, Settling(h) PROVE Settling(h)'
  <2>1. PICK u \in Threads : Settles(call[u], h)
    BY <1>3 DEF Settling
  <2>2. u # t
    BY <2>1, NothingWritten DEF Settles, Makes
  <2>3. QED BY <1>1, <2>1, <2>2 DEF Settling, Settles
<1>4. ASSUME NEW h \in Fds \ G, Settling(h)' PROVE Settling(h)
  <2>1. PICK u \in Threads : Settles(call'[u], h)
    BY <1>4 DEF Settling, Settles
  <2>2. u # t
    BY <2>1
  <2>3. QED BY <1>1, <2>1, <2>2 DEF Settling
<1>5. ASSUME NEW u \in Threads, u # t, call[u].name \in Names, NEW h \in Fds, h \notin astray',
             call[u].fd = h \/ (call[u].name \in Makes /\ call[u].ret = h)
      PROVE  h \notin G /\ files'[h] = files[h]
  <2>1. Naming(t, h)
    BY <1>5, IsNaming
  <2>2. QED BY <1>5, <2>1
<1>6. TypeOK'
  BY DEF ToolInv, TypeOK, Buffers
<1>7. CallInv'
  BY <1>1 DEF ToolInv, CallInv
<1>8. FdInv'
  <2>1. ASSUME NEW h \in Fds \ astray', ~Settling(h)'
        PROVE  h \in fdset' <=> Tracked(files[h])'
    <3>1. CASE h \in G
      <4>1. ~Settles(call'[t], h)
        BY <2>1 DEF Settling, Settles
      <4>2. QED BY <2>1, <3>1, <4>1 DEF Tracked
    <3>2. CASE h \notin G
      <4>1. ~Settling(h) /\ h \notin astray
        BY <1>3, <2>1
      <4>2. h \in fdset <=> Tracked(files[h])
        BY <4>1 DEF ToolInv, FdInv
      <4>3. QED BY <3>2, <4>2 DEF Tracked
    <3>3. QED BY <3>1, <3>2
  <2>2. ASSUME NEW u \in Threads, u # t
        PROVE  Closing(call[u])' /\ Makings(call[u])' /\ Using(call[u])'
    <3>1. Closing(call[u]) /\ Makings(call[u]) /\ Using(call[u]) /\ call'[u] = call[u]
      BY <1>1, <2>2 DEF ToolInv, FdInv
    <3>2. Closing(call[u])'
      <4>1. CASE call[u].name = "close"
        <5>1. call[u].name \in Names /\ call[u].fd \in Fds
          BY <3>1, <4>1 DEF Names, Closing
        <5>2. call[u].fd \notin astray' => files'[call[u].fd] = files[call[u].fd]
          BY <1>5, <2>2, <5>1
        <5>3. QED BY <3>1, <4>1, <5>2 DEF Closing
      <4>2. QED BY <3>1, <4>1 DEF Closing
    <3>3. Makings(call[u])'
      <4>1. CASE call[u].name \in Makes /\ call[u].ret # None
        <5>1. call[u].name \in Names /\ call[u].ret \in Fds
          BY <3>1, <4>1 DEF Names, Makings
        <5>2. call[u].ret \notin astray' => files'[call[u].ret] = files[call[u].ret]
          BY <1>5, <2>2, <4>1, <5>1
        <5>3. QED BY <3>1, <4>1, <5>1, <5>2 DEF Makings, Tracked
      <4>2. QED BY <3>1, <4>1 DEF Makings
    <3>4. Using(call[u])'
      <4>1. CASE call[u].name \in DataCalls \cup {"dup", "accept"} /\ call[u].ret # None
        <5>1. call[u].name \in Names /\ call[u].fd \in Fds
          BY <3>1, <4>1 DEF Names, Makes, Using
        <5>2. call[u].fd \notin astray' =>
                 call[u].fd \notin G /\ files'[call[u].fd] = files[call[u].fd]
          BY <1>5, <2>2, <5>1
        <5>3. call[u].name \in {"dup", "accept"} /\ call[u].ret \notin astray' =>
                 files'[call[u].ret] = files[call[u].ret]
          BY <1>5, <2>2, <3>1, <4>1, <5>1 DEF Makings, Makes
        <5>4. call[u].fd \notin astray' => ~Settling(call[u].fd)'
          <6> SUFFICES ASSUME call[u].fd \notin astray' PROVE ~(Settling(call[u].fd)')
            OBVIOUS
          <6>1. ~Settling(call[u].fd)
            BY <3>1, <4>1 DEF Using
          <6>2. PICK h \in Fds \ G : h = call[u].fd
            BY <5>1, <5>2
          <6>3. ~Settling(h)'
            BY <1>4, <6>1, <6>2
          <6>4. QED BY <3>1, <6>2, <6>3 DEF Settling
        <5>5. QED BY <3>1, <4>1, <5>2, <5>3, <5>4 DEF Using
      <4>2. QED BY <3>1, <4>1 DEF Using
    <3>5. QED BY <3>2, <3>3, <3>4
  <2>3. QED BY <2>1, <2>2 DEF FdInv
<1>9. Pending' = Pending \cup W
  <2>1. \A u \in Threads : u # t => Written(call'[u]) = Written(call[u])
    BY <1>1
  <2>2. Written(call[t]) = {}
    BY NothingWritten
  <2> HIDE DEF W
  <2>3. W = Written(call'[t])
    BY DEF W
  <2>4. Pending' = UNION {Written(call'[u]) : u \in Threads}
    BY DEF Pending, Written, Stored, Received, Control
  <2>5. QED BY <2>1, <2>2, <2>3, <2>4 DEF Pending
<1>10. \A u \in Threads : Written(call[u]) \subseteq Pending
  BY DEF Pending
<1>11. WriteInv'
  <2>1. ASSUME NEW u \in Threads, NEW v \in Threads, u # v
        PROVE  Written(call'[u]) \cap Written(call'[v]) = {}
    <3>1. CASE u # t /\ v # t
      BY <1>1, <2>1, <3>1 DEF ToolInv, WriteInv
    <3>2. CASE u = t
      BY <1>1, <1>10, <2>1, <3>2
    <3>3. CASE v = t
      BY <1>1, <1>10, <2>1, <3>3
    <3>4. QED BY <3>1, <3>2, <3>3
  <2>2. ASSUME NEW u \in Threads, u # t PROVE Holds(call[u])'
    <3>1. Holds(call[u]) /\ call'[u] = call[u]
      BY <1>1, <2>2 DEF ToolInv, WriteInv
    <3>2. Received(call[u]) \subseteq Written(call[u])
      BY DEF Received, Written, ToolInv, CallInv, Shape, None, NoCall, Plain, Call
    <3>3. \A x \in Written(call[u]) : x \in data' <=> x \in data
      BY <1>10
    <3>4. call[u].name \in DataCalls /\ call[u].ret # None /\ call[u].fd \notin astray' =>
             files'[call[u].fd] = files[call[u].fd]
      <4> SUFFICES ASSUME call[u].name \in DataCalls, call[u].ret # None, call[u].fd \notin astray'
                   PROVE  files'[call[u].fd] = files[call[u].fd]
        OBVIOUS
      <4>1. Using(call[u])
        BY DEF ToolInv, FdInv
      <4>2. call[u].fd \in Fds /\ call[u].name \in Names
        BY <4>1 DEF Using, Names
      <4>3. QED BY <1>5, <2>2, <4>2
    <3>5. (Stored(call[u]) \cap Written(call[u]) \cap data = {})'
      BY <3>1, <3>3 DEF Holds, Stored, Written, Received, Control
    <3>6. (call[u].name \in DataCalls /\ call[u].ret # None /\ call[u].fd \notin astray =>
             IF Tracked(files[call[u].fd]) THEN Received(call[u]) \subseteq data
                                           ELSE Received(call[u]) \cap data = {})'
      BY <1>2, <3>1, <3>2, <3>3, <3>4 DEF Holds
    <3>7. QED BY <3>5, <3>6 DEF Holds
  <2>3. QED BY <2>1, <2>2 DEF WriteInv
<1>12. TaintRight'
  BY <1>9 DEF ToolInv, TaintRight
<1>13. BranchesRight'
  BY DEF ToolInv, BranchesRight
<1>14. QED BY <1>6, <1>7, <1>8, <1>11, <1>12, <1>13 DEF ToolInv

-----------------------------------------------------------------------------
(* Every call of the kernel *)

LEMMA PlainFields ==
    ASSUME NEW name, NEW fd, NEW ret, NEW aux, NEW c, c = Plain(name, fd, ret, aux)
    PROVE  /\ c.name = name /\ c.fd = fd /\ c.ret = ret /\ c.iov = <<>> /\ c.aux = aux /\ c.ctl = <<>>
           /\ name \notin DataCalls => Received(c) = {} /\ Written(c) \subseteq Stored(c)
           /\ aux = <<>> => Stored(c) = {}
BY SpansShort DEF Plain, Call, Received, Written, Stored

LEMMA PlainShape ==
    ASSUME NEW name \in Names, NEW fd, NEW ret \in Nat \cup {None}, NEW aux \in Ranges,
           name \in DataCalls => ret = None,
           name \in {"accept", "socketpair", "getsockname"} \/ aux = <<>>,
           NEW c, c = Plain(name, fd, ret, aux)
    PROVE  Shape(c)
<1>1. c.name = name /\ c.ret = ret /\ c.aux = aux /\ c.ctl = <<>>
  BY PlainFields
<1>2. <<>> \in Controls
  BY DEF Controls
<1>3. QED BY <1>1, <1>2 DEF Shape, DataCalls

(* A call that makes the descriptor g, of an object of a kind, or of none that is   *)
(* tracked.                                                                        *)
LEMMA MakesFd ==
    ASSUME ToolInv, NEW t \in Threads, call[t] = NoCall, NEW name, NEW f, NEW g \in Fds,
           NEW kind \in Kinds, NEW aux \in Ranges,
           (name \in Makes /\ kind \in MadeKinds(name)) \/ (name = "other" /\ kind = "unix"),
           name = "accept" \/ aux = <<>>,
           call' = [call EXCEPT ![t] = Plain(name, f, g, aux)],
           UNCHANGED <<knobs, fdset, tags, outcome, mixed>>,
           Stored(Plain(name, f, g, aux)) \cap Pending = {},
           files' = [files EXCEPT ![g] = kind],
           data' = data \ Stored(Plain(name, f, g, aux)),
           astray \subseteq astray', Naming(t, g) => g \in astray',
           g \notin astray' => (g \in fdset => Tracked(kind)),
           name \in {"dup", "accept"} =>
              f \in Fds /\ f # g /\ kind = files[f] /\ files[f] # Free /\ ~Making(t, f),
           name = "accept" => kind \in {"inet", "unix"}
    PROVE  ToolInv'
<1>1. PICK c : c = Plain(name, f, g, aux)
  OBVIOUS
<1>2. /\ c.name = name /\ c.fd = f /\ c.ret = g /\ c.aux = aux
      /\ name \in Names /\ name \notin DataCalls /\ name # "close"
  BY <1>1, PlainFields DEF Names, Makes, DataCalls
<1>3. Received(c) = {} /\ Written(c) \subseteq Stored(c)
  BY <1>1, <1>2, PlainFields
<1>4. g \in Nat /\ g # None
  BY DtaToolAssumption DEF None
<1>5. Shape(c)
  BY <1>1, <1>2, <1>4, PlainShape
<1>6. call'[t] = c /\ call' = [call EXCEPT ![t] = call'[t]]
  BY <1>1 DEF ToolInv, CallInv
<1>7. /\ files \in [Fds -> {Free, "tty", "file", "lib", "inet", "unix"}] /\ data \subseteq Buffers
  BY DEF ToolInv, TypeOK, Buffers
<1>8. /\ files' \in [Fds -> {Free, "tty", "file", "lib", "inet", "unix"}] /\ files'[g] = kind
      /\ \A h \in Fds \ {g} : files'[h] = files[h]
  BY <1>7 DEF Kinds
<1>9. \A h \in Fds : Settles(c, h) => h = g
  BY <1>2 DEF Settles
<1>10. name \in Makes => Settles(c, g)
  BY <1>2 DEF Settles
<1>11. ASSUME g \notin astray', name = "other" PROVE g \in fdset <=> Tracked(kind)
  BY <1>11 DEF Tracked, Makes
<1>12. Closing(call[t])'
  BY <1>2, <1>6 DEF Closing
<1>13. Makings(call[t])'
  BY <1>2, <1>6, <1>8 DEF Makings, Tracked, Makes
<1>14. Using(call[t])'
  <2>1. CASE name \in {"dup", "accept"} /\ f \notin astray'
    <3>1. f \in Fds /\ f # g /\ files'[f] = files[f] /\ f \notin astray
      BY <1>8, <2>1
    <3>2. ~Settling(f)
      BY <2>1, <3>1, OpenIsSettled
    <3>3. ~Settling(f)'
      <4> SUFFICES ASSUME NEW u \in Threads, Settles(call'[u], f) PROVE FALSE
        BY DEF Settling, Settles
      <4>1. u # t
        BY <1>6, <1>9, <3>1
      <4>2. call'[u] = call[u]
        BY <1>6, <4>1 DEF ToolInv, CallInv
      <4>3. QED BY <3>2, <4>2 DEF Settling
    <3>4. ~Settling(call[t].fd)'
      BY <1>2, <1>6, <3>3 DEF Settling
    <3>5. QED BY <1>2, <1>6, <1>8, <2>1, <3>1, <3>4 DEF Using
  <2>2. QED BY <1>2, <1>6, <2>1 DEF Using
<1>15. Holds(call[t])'
  <2>1. Stored(c) \cap data' = {} /\ c.name \notin DataCalls
    BY <1>1, <1>2
  <2>2. (Stored(call[t]) \cap Written(call[t]) \cap data)' = Stored(c) \cap Written(c) \cap data'
    BY <1>6 DEF Stored, Written, Received, Control
  <2>3. QED BY <1>6, <2>1, <2>2 DEF Holds
<1>16. /\ Written(call'[t]) \cap Pending = {}
       /\ data' \ Written(call'[t]) = data \ Written(call'[t])
       /\ data' \subseteq Buffers
  <2>1. Written(c) = Stored(c)
    BY <1>3, <1>4, <1>5, <1>2, WrittenWhole
  <2>2. QED BY <1>1, <1>6, <1>7, <2>1
<1>17. {g} \subseteq Fds /\ (\A h \in {g} : Naming(t, h) => h \in astray')
  OBVIOUS
<1>18. \A h \in {g} \ astray' : Settles(call'[t], h) \/ (h \in fdset <=> Tracked(files'[h]))
  BY <1>6, <1>8, <1>10, <1>11
<1>19. \A h \in Fds : Settles(call'[t], h) => h \in {g}
  BY <1>6, <1>9
<1>20. call'[t].name \in Names /\ Shape(call'[t])
  BY <1>2, <1>5, <1>6
<1>21. QED
  BY <1>6, <1>8, <1>12, <1>13, <1>14, <1>15, <1>16, <1>17, <1>18, <1>19, <1>20, KernelStep

LEMMA NewFdStep ==
    ASSUME ToolInv, NEW t \in Threads, NEW name, NEW f, NEW kind \in Kinds, NEW aux \in Ranges,
           (name \in Makes /\ kind \in MadeKinds(name)) \/ (name = "other" /\ kind = "unix"),
           name = "accept" \/ aux = <<>>,
           name \in {"dup", "accept"} =>
              f \in Fds /\ kind = files[f] /\ files[f] # Free /\ ~Making(t, f),
           name = "accept" => kind \in {"inet", "unix"},
           NewFd(t, name, f, kind, aux)
    PROVE  ToolInv'
<1>1. PICK g \in Fds :
         /\ Run(t) /\ Lowest(g) /\ Stored(Plain(name, f, g, aux)) \cap Pending = {}
         /\ files' = [files EXCEPT ![g] = kind]
         /\ data' = data \ Stored(Plain(name, f, g, aux))
         /\ Stray(g, Naming(t, g))
         /\ Returns(t, Plain(name, f, g, aux))
  BY DEF NewFd
<1>2. call[t] = NoCall /\ files[g] = Free
  BY <1>1 DEF Run, Lowest
<1>3. astray \subseteq astray' /\ (Naming(t, g) => g \in astray')
  BY <1>1 DEF Stray
<1>4. /\ call' = [call EXCEPT ![t] = Plain(name, f, g, aux)]
      /\ UNCHANGED <<knobs, fdset, tags, outcome, mixed>>
  BY <1>1 DEF Returns
<1>5. ASSUME g \notin astray' PROVE g \notin fdset
  <2>1. ~Settling(g)
    BY <1>2, <1>3, <1>5, UnnamedIsSettled
  <2>2. g \in fdset <=> Tracked(files[g])
    BY <1>3, <1>5, <2>1 DEF ToolInv, FdInv
  <2>3. QED BY <1>2, <2>2 DEF Tracked, Free
<1>6. g \notin astray' => (g \in fdset => Tracked(kind))
  BY <1>5
<1>7. name \in {"dup", "accept"} =>
         f \in Fds /\ f # g /\ kind = files[f] /\ files[f] # Free /\ ~Making(t, f)
  BY <1>2
<1>8. QED BY <1>1, <1>2, <1>3, <1>4, <1>6, <1>7, MakesFd

LEMMA AuxRanges == AuxArgs \subseteq Ranges
BY DEF AuxArgs, Aux, Ranges

LEMMA OpenStep ==
    ASSUME ToolInv, NEW t \in Threads, NEW kind \in {"file", "lib"}, KernelOpen(t, kind)
    PROVE  ToolInv'
<1> DEFINE name == IF kind = "lib" THEN "openlib" ELSE "open"
<1>1. NewFd(t, name, None, kind, <<>>)
  BY DEF KernelOpen
<1>2. /\ name \in Makes /\ kind \in MadeKinds(name) /\ kind \in Kinds
      /\ name \notin {"dup", "accept"}
  BY DEF Makes, MadeKinds, Kinds
<1>3. <<>> \in Ranges
  BY DEF Ranges
<1> HIDE DEF name
<1>4. QED BY <1>1, <1>2, <1>3, NewFdStep

LEMMA SocketStep ==
    ASSUME ToolInv, NEW t \in Threads, NEW kind \in {"inet", "unix"}, KernelSocket(t, kind)
    PROVE  ToolInv'
<1> DEFINE name == IF kind = "inet" THEN "socket" ELSE "other"
<1>1. NewFd(t, name, None, kind, <<>>)
  BY DEF KernelSocket
<1>2. /\ (name \in Makes /\ kind \in MadeKinds(name)) \/ (name = "other" /\ kind = "unix")
      /\ kind \in Kinds /\ name \notin {"dup", "accept"}
  BY DEF Makes, MadeKinds, Kinds
<1>3. <<>> \in Ranges
  BY DEF Ranges
<1> HIDE DEF name
<1>4. QED BY <1>1, <1>2, <1>3, NewFdStep

LEMMA AcceptStep ==
    ASSUME ToolInv, NEW t \in Threads, NEW f \in Fds, NEW aux \in AuxArgs, KernelAccept(t, f, aux)
    PROVE  ToolInv'
<1>1. PICK kind : kind = files[f]
  OBVIOUS
<1>2. /\ kind \in {"inet", "unix"} /\ ~Making(t, f) /\ files[f] # Free
      /\ NewFd(t, "accept", f, kind, aux)
  BY <1>1 DEF KernelAccept, Free
<1>3. "accept" \in Makes /\ kind \in MadeKinds("accept") /\ kind \in Kinds
  BY <1>2 DEF Makes, MadeKinds, Kinds
<1>4. aux \in Ranges
  BY AuxRanges
<1>5. QED BY <1>1, <1>2, <1>3, <1>4, NewFdStep

LEMMA DupStep ==
    ASSUME ToolInv, NEW t \in Threads, NEW f \in Fds, KernelDup(t, f)
    PROVE  ToolInv'
<1>1. PICK kind : kind = files[f]
  OBVIOUS
<1>2. ~Making(t, f) /\ files[f] # Free /\ NewFd(t, "dup", f, kind, <<>>)
  BY <1>1 DEF KernelDup
<1>3. "dup" \in Makes /\ kind \in MadeKinds("dup") /\ kind \in Kinds
  BY <1>1, <1>2 DEF Makes, MadeKinds, Kinds, ToolInv, TypeOK, Free
<1>4. <<>> \in Ranges
  BY DEF Ranges
<1>5. QED BY <1>1, <1>2, <1>3, <1>4, NewFdStep

LEMMA Dup2Step ==
    ASSUME ToolInv, NEW t \in Threads, NEW f \in Fds, NEW g \in Fds, KernelDup2(t, f, g)
    PROVE  ToolInv'
<1>1. PICK kind : kind = files[f]
  OBVIOUS
<1>2. /\ call[t] = NoCall /\ f # g /\ ~Making(t, f) /\ files[f] # Free
      /\ files' = [files EXCEPT ![g] = kind]
      /\ call' = [call EXCEPT ![t] = Plain("dup", f, g, <<>>)]
      /\ UNCHANGED <<knobs, fdset, tags, outcome, mixed>>
  BY <1>1 DEF KernelDup2, Run, Returns
<1>3. /\ astray \subseteq astray' /\ (Naming(t, g) => g \in astray')
      /\ g \notin astray' => (g \in fdset => Tracked(kind))
  BY <1>1 DEF KernelDup2, Stray
<1>4. "dup" \in Makes /\ kind \in MadeKinds("dup") /\ kind \in Kinds
  BY <1>1, <1>2 DEF Makes, MadeKinds, Kinds, ToolInv, TypeOK, Free
<1>5. <<>> \in Ranges
  BY DEF Ranges
<1>6. PICK c : c = Plain("dup", f, g, <<>>)
  OBVIOUS
<1>7. Stored(c) = {}
  BY <1>6, PlainFields
<1>8. Stored(Plain("dup", f, g, <<>>)) \cap Pending = {} /\ data' = data \ Stored(Plain("dup", f, g, <<>>))
  BY <1>6, <1>7 DEF KernelDup2
<1>9. QED BY <1>1, <1>2, <1>3, <1>4, <1>5, <1>8, MakesFd

(* A call that makes no descriptor and receives no data.                           *)
LEMMA OtherCall ==
    ASSUME ToolInv, NEW t \in Threads, call[t] = NoCall, NEW name \in Names, NEW f,
           NEW ret \in Nat \cup {None}, NEW aux \in Ranges, NEW G, G \subseteq Fds,
           name \notin Makes \cup DataCalls \/ ret = None,
           name \in {"socketpair", "getsockname"} \/ aux = <<>>, ret = None => aux = <<>>,
           call' = [call EXCEPT ![t] = Plain(name, f, ret, aux)],
           UNCHANGED <<knobs, fdset, tags, outcome, mixed>>,
           Stored(Plain(name, f, ret, aux)) \cap Pending = {},
           data' = data \ Stored(Plain(name, f, ret, aux)),
           files' \in [Fds -> {Free, "tty", "file", "lib", "inet", "unix"}],
           \A h \in Fds \ G : files'[h] = files[h],
           astray \subseteq astray', \A h \in G : Naming(t, h) => h \in astray',
           name = "close" => f \in G /\ (\A h \in G : h = f) /\ (f \notin astray' => ret = 0 /\ files'[f] = Free),
           name # "close" => \A h \in G \ astray' : h \in fdset <=> Tracked(files'[h])
    PROVE  ToolInv'
<1>1. PICK c : c = Plain(name, f, ret, aux)
  OBVIOUS
<1>2. c.name = name /\ c.fd = f /\ c.ret = ret /\ c.aux = aux /\ (aux = <<>> => Stored(c) = {})
  BY <1>1, PlainFields
<1>3. Shape(c)
  BY <1>1, PlainShape
<1>4. call'[t] = c /\ call' = [call EXCEPT ![t] = call'[t]]
  BY <1>1 DEF ToolInv, CallInv
<1>5. Received(c) = {} /\ Written(c) = Stored(c)
  <2>1. CASE ret = None
    BY <1>2, <2>1, FailedWritesNothing
  <2>2. CASE ret # None
    <3>1. Received(c) = {}
      BY <1>2, <2>2 DEF Received
    <3>2. Written(c) = Stored(c) \cup Received(c)
      BY <1>2, <1>3, <2>2, WrittenWhole
    <3>3. QED BY <3>1, <3>2
  <2>3. QED BY <2>1, <2>2
<1>6. \A h \in Fds : Settles(call'[t], h) => h \in G
  BY <1>2, <1>4, DtaToolAssumption DEF Settles, None
<1>7. \A h \in G \ astray' : Settles(call'[t], h) \/ (h \in fdset <=> Tracked(files'[h]))
  BY <1>2, <1>4 DEF Settles
<1>8. Closing(call[t])'
  BY <1>2, <1>4 DEF Closing
<1>9. Makings(call[t])' /\ Using(call[t])'
  BY <1>2, <1>4 DEF Makings, Using, Makes
<1>10. Holds(call[t])'
  <2>1. Stored(c) \cap data' = {}
    BY <1>1
  <2>2. (Stored(call[t]) \cap Written(call[t]) \cap data)' = Stored(c) \cap Written(c) \cap data'
    BY <1>4 DEF Stored, Written, Received, Control
  <2>3. QED BY <1>2, <1>4, <2>1, <2>2 DEF Holds
<1>11. /\ Written(call'[t]) \cap Pending = {}
       /\ data' \ Written(call'[t]) = data \ Written(call'[t])
       /\ data' \subseteq Buffers
  BY <1>1, <1>4, <1>5 DEF ToolInv, TypeOK, Buffers
<1>12. call'[t].name \in Names /\ Shape(call'[t])
  BY <1>2, <1>3, <1>4
<1>13. QED
  BY <1>4, <1>6, <1>7, <1>8, <1>9, <1>10, <1>11, <1>12, KernelStep

LEMMA CloseStep ==
    ASSUME ToolInv, NEW t \in Threads, NEW f \in Fds, NEW ret \in {None, 0}, KernelClose(t, f, ret)
    PROVE  ToolInv'
<1>1. /\ call[t] = NoCall /\ files' = [files EXCEPT ![f] = Free] /\ data' = data
      /\ call' = [call EXCEPT ![t] = Plain("close", f, ret, <<>>)]
      /\ UNCHANGED <<knobs, fdset, tags, outcome, mixed>>
  BY DEF KernelClose, Run, Returns
<1>2. /\ astray \subseteq astray' /\ (\A h \in {f} : Naming(t, h) => h \in astray')
      /\ f \notin astray' => ret = 0
  BY DEF KernelClose, Stray, None
<1>3. /\ files' \in [Fds -> {Free, "tty", "file", "lib", "inet", "unix"}] /\ files'[f] = Free
      /\ \A h \in Fds \ {f} : files'[h] = files[h]
  BY <1>1 DEF ToolInv, TypeOK
<1>4. /\ "close" \in Names /\ "close" \notin Makes \cup DataCalls /\ ret \in Nat \cup {None}
      /\ <<>> \in Ranges
  BY DEF Names, Makes, DataCalls, None, Ranges
<1>5. PICK c : c = Plain("close", f, ret, <<>>)
  OBVIOUS
<1>6. Stored(c) = {}
  BY <1>5, PlainFields
<1>7. /\ Stored(Plain("close", f, ret, <<>>)) \cap Pending = {}
      /\ data' = data \ Stored(Plain("close", f, ret, <<>>))
  BY <1>1, <1>5, <1>6
<1>8. PICK G : G = {f}
  OBVIOUS
<1>9. /\ G \subseteq Fds /\ (\A h \in G : Naming(t, h) => h \in astray')
      /\ \A h \in Fds \ G : files'[h] = files[h]
      /\ astray \subseteq astray'
      /\ f \in G /\ (\A h \in G : h = f)
      /\ f \notin astray' => ret = 0 /\ files'[f] = Free
  BY <1>2, <1>3, <1>8
<1>10. files' \in [Fds -> {Free, "tty", "file", "lib", "inet", "unix"}]
  BY <1>3
<1>11. QED BY <1>1, <1>4, <1>7, <1>9, <1>10, OtherCall

LEMMA SocketpairStep ==
    ASSUME ToolInv, NEW t \in Threads, NEW b \in Bufs, KernelSocketpair(t, b)
    PROVE  ToolInv'
<1> DEFINE aux == <<<<b, 8>>>>
<1>1. PICK f \in Fds, g \in Fds : /\ f # g /\ files[f] = Free /\ files[g] = Free
                                  /\ ~Naming(t, f) /\ ~Naming(t, g)
                                  /\ files' = [files EXCEPT ![f] = "unix", ![g] = "unix"]
  BY DEF KernelSocketpair
<1>2. /\ call[t] = NoCall /\ astray' = astray
      /\ call' = [call EXCEPT ![t] = Plain("socketpair", None, 0, aux)]
      /\ UNCHANGED <<knobs, fdset, tags, outcome, mixed>>
      /\ Stored(Plain("socketpair", None, 0, aux)) \cap Pending = {}
      /\ data' = data \ Stored(Plain("socketpair", None, 0, aux))
  BY DEF KernelSocketpair, Run, Returns
<1>3. /\ files' \in [Fds -> {Free, "tty", "file", "lib", "inet", "unix"}]
      /\ files'[f] = "unix" /\ files'[g] = "unix"
      /\ \A h \in Fds \ {f, g} : files'[h] = files[h]
  BY <1>1 DEF ToolInv, TypeOK
<1>4. ASSUME NEW h \in {f, g}, h \notin astray' PROVE h \in fdset <=> Tracked(files'[h])
  <2>1. ~Settling(h)
    BY <1>1, <1>2, UnnamedIsSettled
  <2>2. h \in fdset <=> Tracked(files[h])
    BY <1>2, <1>4, <2>1 DEF ToolInv, FdInv
  <2>3. QED BY <1>1, <1>3, <2>2 DEF Tracked, Free
<1>5. "socketpair" \in Names /\ "socketpair" \notin Makes \cup DataCalls /\ 0 \in Nat \cup {None} /\ 0 # None
  BY DEF Names, Makes, DataCalls, None
<1>6. aux \in Ranges
  BY DEF Ranges
<1>7. PICK G : G = {f, g}
  OBVIOUS
<1>8. /\ \A h \in G : Naming(t, h) => h \in astray'
      /\ \A h \in G \ astray' : h \in fdset <=> Tracked(files'[h])
      /\ \A h \in Fds \ G : files'[h] = files[h]
      /\ G \subseteq Fds /\ astray \subseteq astray'
  BY <1>1, <1>2, <1>3, <1>4, <1>7
<1> HIDE DEF aux
<1>9. QED BY <1>2, <1>3, <1>5, <1>6, <1>8, OtherCall

LEMMA FailsStep ==
    ASSUME ToolInv, NEW t \in Threads, NEW f \in Fds, NEW name \in DataCalls \cup Makes,
           KernelFails(t, name, f)
    PROVE  ToolInv'
<1>1. /\ call[t] = NoCall /\ UNCHANGED <<files, data, astray>>
      /\ call' = [call EXCEPT ![t] = Plain(name, f, None, <<>>)]
      /\ UNCHANGED <<knobs, fdset, tags, outcome, mixed>>
  BY DEF KernelFails, Run, Returns
<1>2. files' \in [Fds -> {Free, "tty", "file", "lib", "inet", "unix"}]
  BY <1>1 DEF ToolInv, TypeOK
<1>3. name \in Names /\ name # "close" /\ None \in Nat \cup {None} /\ <<>> \in Ranges
  BY DEF Names, Makes, DataCalls, Ranges
<1>4. PICK c : c = Plain(name, f, None, <<>>)
  OBVIOUS
<1>5. Stored(c) = {}
  BY <1>4, PlainFields
<1>6. /\ Stored(Plain(name, f, None, <<>>)) \cap Pending = {}
      /\ data' = data \ Stored(Plain(name, f, None, <<>>))
  BY <1>1, <1>4, <1>5
<1>7. QED BY <1>1, <1>2, <1>3, <1>6, OtherCall

LEMMA NameStep ==
    ASSUME ToolInv, NEW t \in Threads, NEW f \in Fds, NEW aux \in AuxArgs, KernelName(t, f, aux)
    PROVE  ToolInv'
<1>1. /\ call[t] = NoCall /\ UNCHANGED <<files, astray>>
      /\ call' = [call EXCEPT ![t] = Plain("getsockname", f, 0, aux)]
      /\ UNCHANGED <<knobs, fdset, tags, outcome, mixed>>
      /\ Stored(Plain("getsockname", f, 0, aux)) \cap Pending = {}
      /\ data' = data \ Stored(Plain("getsockname", f, 0, aux))
  BY DEF KernelName, Run, Returns
<1>2. files' \in [Fds -> {Free, "tty", "file", "lib", "inet", "unix"}]
  BY <1>1 DEF ToolInv, TypeOK
<1>3. "getsockname" \in Names /\ "getsockname" \notin Makes \cup DataCalls /\ 0 \in Nat \cup {None} /\ 0 # None
  BY DEF Names, Makes, DataCalls, None
<1>4. aux \in Ranges
  BY AuxRanges
<1>5. QED BY <1>1, <1>2, <1>3, <1>4, OtherCall

LEMMA DataStep ==
    ASSUME ToolInv, NEW t \in Threads, NEW f \in Fds, NEW name \in DataCalls, NEW iov \in Vectors,
           NEW n \in Counts, NEW aux \in Ranges, NEW ctl \in Controls,
           ctl = <<>> \/ (\E b \in Bufs : aux = <<<<b + 4, 4>>>> /\ ctl = <<<<b, 3>>>>),
           KernelData(t, name, f, iov, n, aux, ctl)
    PROVE  ToolInv'
<1>1. PICK c : c = Call(name, f, n, iov, aux, ctl)
  OBVIOUS
<1>2. c.name = name /\ c.fd = f /\ c.ret = n /\ c.iov = iov /\ c.aux = aux /\ c.ctl = ctl
  BY <1>1 DEF Call
<1>3. /\ call[t] = NoCall /\ files[f] # Free /\ files' = files /\ Written(c) \cap Pending = {}
      /\ name \notin {"read", "readv"} => files[f] \in {"inet", "unix"}
      /\ name \notin {"recvfrom", "recvmsg"} => aux = <<>>
      /\ name \notin {"readv", "recvmsg"} => Len(iov) = 1
      /\ name # "recvmsg" => ctl = <<>>
      /\ Scattered(iov, 16) \cap (Stored(c) \cup Control(c)) = {}
      /\ data' = IF Tracked(files[f]) THEN (data \ Written(c)) \cup Received(c) ELSE data \ Written(c)
      /\ call' = [call EXCEPT ![t] = c]
      /\ UNCHANGED <<knobs, fdset, tags, outcome, mixed>>
  BY <1>1 DEF KernelData, Run, Returns
<1>4. astray \subseteq astray' /\ (f \notin astray' => ~Making(t, f))
  BY DEF KernelData, Stray
<1>5. n \in Small /\ n \in Nat /\ n # None
  BY DtaToolAssumption DEF Small, None
<1>6. Stored(c) \cap Control(c) = {}
  <2>1. CASE ctl = <<>>
    BY <1>2, <2>1, SpansShort DEF Control
  <2>2. CASE \E b \in Bufs : aux = <<<<b + 4, 4>>>> /\ ctl = <<<<b, 3>>>>
    <3>1. PICK b \in Bufs : aux = <<<<b + 4, 4>>>> /\ ctl = <<<<b, 3>>>>
      BY <2>2
    <3>2. b \in Nat /\ b + 4 \in Nat
      BY DtaToolAssumption
    <3>3. Stored(c) = Span(<<b + 4, 4>>) /\ Control(c) = Span(<<b, 3>>)
      BY <1>2, <3>1, SpansShort DEF Stored, Control
    <3>4. ASSUME NEW x, x \in Span(<<b + 4, 4>>), x \in Span(<<b, 3>>) PROVE FALSE
      <4>1. x \in Nat /\ b + 4 <= x
        BY <3>2, <3>4, InSpan
      <4>2. x < b + 3
        BY <3>2, <3>4, InSpan
      <4>3. QED BY <3>2, <4>1, <4>2
    <3>5. QED BY <3>3, <3>4
  <2>3. QED BY <2>1, <2>2
<1>7. Received(c) = Scattered(iov, n) \cup Control(c)
  BY <1>2, <1>5 DEF Received
<1>8. Stored(c) \cap Received(c) = {}
  <2>1. Scattered(iov, n) \subseteq Scattered(iov, 16)
    BY <1>5, Scatter
  <2>2. QED BY <1>3, <1>6, <1>7, <2>1
<1>9. Shape(c)
  BY <1>2, <1>3, <1>5, <1>8 DEF Shape, DataCalls
<1>10. Written(c) = Stored(c) \cup Received(c) /\ Written(c) \subseteq Buffers
  BY <1>2, <1>5, <1>9, WrittenWhole, WrittenInBuffers
<1>11. call'[t] = c /\ call' = [call EXCEPT ![t] = call'[t]]
  BY <1>3 DEF ToolInv, CallInv
<1>12. name \notin Makes /\ name # "close" /\ name \in Names
  BY DEF DataCalls, Makes, Names
<1>13. \A h : ~Settles(call'[t], h)
  BY <1>2, <1>11, <1>12 DEF Settles
<1>14. Closing(call[t])' /\ Makings(call[t])'
  BY <1>2, <1>11, <1>12 DEF Closing, Makings
<1>15. Using(call[t])'
  <2>1. CASE f \notin astray'
    <3>1. ~Settling(f)
      BY <1>3, <1>4, <2>1, OpenIsSettled
    <3>2. ~Settling(f)'
      <4> SUFFICES ASSUME NEW u \in Threads, Settles(call'[u], f) PROVE FALSE
        BY DEF Settling, Settles
      <4>1. u # t
        BY <1>13
      <4>2. call'[u] = call[u]
        BY <1>3, <4>1 DEF ToolInv, CallInv
      <4>3. QED BY <3>1, <4>2 DEF Settling
    <3>3. ~Settling(call[t].fd)'
      BY <1>2, <1>11, <3>2 DEF Settling
    <3>4. QED BY <1>2, <1>3, <1>11, <2>1, <3>3 DEF Using, DataCalls
  <2>2. CASE f \in astray'
    BY <1>2, <1>11, <2>2 DEF Using
  <2>3. QED BY <2>1, <2>2
<1>16. Holds(call[t])'
  <2>1. Stored(c) \cap data' = {}
    BY <1>3, <1>8, <1>10
  <2>2. (Stored(call[t]) \cap Written(call[t]) \cap data)' = Stored(c) \cap Written(c) \cap data'
    BY <1>11 DEF Stored, Written, Received, Control
  <2>3. IF Tracked(files[f]) THEN Received(c) \subseteq data' ELSE Received(c) \cap data' = {}
    BY <1>3, <1>10
  <2>4. Received(call[t])' = Received(c) /\ files' = files /\ knobs' = knobs
    BY <1>3, <1>11 DEF Received, Control
  <2>5. QED BY <1>2, <1>11, <2>1, <2>2, <2>3, <2>4 DEF Holds, Tracked
<1>17. /\ Written(call'[t]) \cap Pending = {}
       /\ data' \ Written(call'[t]) = data \ Written(call'[t])
       /\ data' \subseteq Buffers
  BY <1>3, <1>10, <1>11 DEF ToolInv, TypeOK, Buffers
<1>18. call'[t].name \in Names /\ Shape(call'[t])
  BY <1>2, <1>9, <1>11, <1>12
<1>19. files' \in [Fds -> {Free, "tty", "file", "lib", "inet", "unix"}]
  BY <1>3 DEF ToolInv, TypeOK
<1>20. PICK G : G = {}
  OBVIOUS
<1>21. /\ G \subseteq Fds /\ (\A h \in Fds \ G : files'[h] = files[h])
       /\ \A h \in G : Naming(t, h) => h \in astray'
       /\ \A h \in Fds : Settles(call'[t], h) => h \in G
       /\ \A h \in G \ astray' : Settles(call'[t], h) \/ (h \in fdset <=> Tracked(files'[h]))
  BY <1>3, <1>13, <1>20
<1>22. QED
  BY <1>3, <1>4, <1>11, <1>14, <1>15, <1>16, <1>17, <1>18, <1>19, <1>21, KernelStep

-----------------------------------------------------------------------------
(* The hook's half of a call *)

LEMMA ExitStep ==
    ASSUME ToolInv, NEW t \in Threads, Exit(t) PROVE ToolInv'
<1> DEFINE blind(c) == c.fd \in astray \/ (c.name = "recvmsg" /\ knobs.net)
           empty(c) == c.name \in DataCalls /\ c.ret = 0
<1>1. PICK c : c = call[t]
  OBVIOUS
<1>2. /\ c # NoCall /\ call' = [call EXCEPT ![t] = NoCall]
      /\ UNCHANGED <<knobs, files, data, outcome>>
      /\ fdset' = Hook(Tool(fdset, tags), c).fds
      /\ tags' = Hook(Tool(fdset, tags), c).tags
  BY <1>1 DEF Exit
<1>3. astray' = IF c.name \in {"dup", "accept"} /\ c.fd \in astray THEN astray \cup {c.ret} ELSE astray
  BY <1>1 DEF Exit
<1>4. mixed' = CASE empty(c) -> mixed \cup Written(c)
                 [] ~empty(c) /\ blind(c) -> (mixed \ Written(c)) \cup Received(c)
                 [] OTHER -> mixed \ Written(c)
  BY <1>1 DEF Exit
<1>5. c.name \in Names /\ Shape(c)
  BY <1>1, <1>2 DEF ToolInv, CallInv
<1>6. c.ret \in Int /\ (c.ret # None => c.ret >= 0) /\ (c.ret >= 0 => c.ret # None)
  BY <1>5 DEF Shape, None
<1>7. Closing(c) /\ Makings(c) /\ Using(c) /\ Holds(c)
  BY <1>1 DEF ToolInv, FdInv, WriteInv
<1>8. /\ call' = [u \in Threads |-> call'[u]] /\ call'[t] = NoCall
      /\ \A u \in Threads : u # t => call'[u] = call[u]
  BY <1>2 DEF ToolInv, CallInv
<1>9. astray \subseteq astray'
  BY <1>3
<1>10. \A f : f \in fdset' <=>
          (f \in fdset /\ ~(Removes(c) /\ f = c.fd)) \/ (Inserts(fdset, c) /\ f = c.ret)
  BY <1>2, <1>5, <1>6, HookFds
<1>11. \A k : Tracked(k)' <=> Tracked(k)
  BY <1>2 DEF Tracked
<1>12. Inserts(fdset, c) => c.ret \in Fds /\ c.name \in Makes
  BY <1>6, <1>7 DEF Inserts, Makings, Makes
<1>13. ASSUME c.name \in DataCalls \cup {"dup", "accept"}, c.ret # None, c.fd \notin astray
       PROVE  c.fd \in Fds /\ (c.fd \in fdset <=> Tracked(files[c.fd]))
  <2>1. c.fd \in Fds /\ ~Settling(c.fd)
    BY <1>7, <1>13 DEF Using
  <2>2. QED BY <1>13, <2>1 DEF ToolInv, FdInv
<1>14. ASSUME c.name \in Makes, c.ret # None, c.ret \notin astray'
       PROVE  c.ret \in fdset' <=> Tracked(files[c.ret])
  <2>1. /\ c.ret \in Fds /\ files[c.ret] \in MadeKinds(c.name)
        /\ c.ret \in fdset => Tracked(files[c.ret])
    BY <1>7, <1>9, <1>14 DEF Makings
  <2>2. c.ret \in fdset' <=> c.ret \in fdset \/ Inserts(fdset, c)
    BY <1>10, <1>14 DEF Removes, Makes
  <2>3. CASE c.name \in {"open", "openlib", "socket"}
    BY <1>6, <1>14, <2>1, <2>2, <2>3 DEF Inserts, MadeKinds, Tracked
  <2>4. CASE c.name \in {"dup", "accept"}
    <3>1. c.fd \notin astray /\ c.ret \notin astray
      BY <1>3, <1>14, <2>4
    <3>2. /\ files[c.ret] = files[c.fd]
          /\ c.name = "accept" => files[c.fd] \in {"inet", "unix"}
      BY <1>7, <1>14, <2>4, <3>1 DEF Using
    <3>3. c.fd \in fdset <=> Tracked(files[c.fd])
      BY <1>13, <1>14, <2>4, <3>1
    <3>4. QED BY <1>6, <1>14, <2>1, <2>2, <2>4, <3>2, <3>3 DEF Inserts, Tracked
  <2>5. QED BY <1>14, <2>3, <2>4 DEF Makes
<1>15. \A h : Settling(h)' => Settling(h)
  <2> SUFFICES ASSUME NEW h, Settling(h)' PROVE Settling(h)
    OBVIOUS
  <2>1. PICK u \in Threads : Settles(call'[u], h)
    BY DEF Settling, Settles
  <2>2. u # t
    BY <1>8, <2>1, NothingWritten DEF Settles, Makes
  <2>3. QED BY <1>8, <2>1, <2>2 DEF Settling
<1>16. ASSUME NEW h, Settling(h), ~Settling(h)' PROVE Settles(c, h)
  <2>1. PICK u \in Threads : Settles(call[u], h)
    BY <1>16 DEF Settling
  <2>2. u = t
    BY <1>8, <1>16, <2>1 DEF Settling, Settles
  <2>3. QED BY <1>1, <2>1, <2>2
<1>17. FdInv'
  <2>1. ASSUME NEW h \in Fds \ astray', ~Settling(h)'
        PROVE  h \in fdset' <=> Tracked(files[h])
    <3>1. CASE ~Settling(h)
      <4>1. h \in fdset <=> Tracked(files[h])
        BY <1>9, <2>1, <3>1 DEF ToolInv, FdInv
      <4>2. ~Settles(c, h)
        BY <1>1, <3>1 DEF Settling
      <4>3. h \in fdset' <=> h \in fdset
        BY <1>10, <1>12, <4>2 DEF Settles, Removes
      <4>4. QED BY <4>1, <4>3
    <3>2. CASE Settling(h)
      <4>1. Settles(c, h)
        BY <1>16, <2>1, <3>2
      <4>2. CASE c.name \in Makes /\ c.ret = h
        <5>1. c.ret # None
          BY <4>2, DtaToolAssumption DEF None
        <5>2. QED BY <1>14, <2>1, <4>2, <5>1
      <4>3. CASE c.name = "close" /\ c.fd = h
        <5>1. c.ret = 0 /\ files[h] = Free
          BY <1>7, <1>9, <2>1, <4>3 DEF Closing
        <5>2. h \notin fdset'
          BY <1>10, <4>3, <5>1 DEF Removes, Inserts
        <5>3. QED BY <5>1, <5>2 DEF Tracked, Free
      <4>4. QED BY <4>1, <4>2, <4>3 DEF Settles
    <3>3. QED BY <3>1, <3>2
  <2>2. ASSUME NEW u \in Threads, u # t
        PROVE  Closing(call[u])' /\ Makings(call[u])' /\ Using(call[u])'
    <3>1. Closing(call[u]) /\ Makings(call[u]) /\ Using(call[u]) /\ call'[u] = call[u]
      BY <1>8, <2>2 DEF ToolInv, FdInv
    <3>2. Closing(call[u])'
      BY <1>2, <1>9, <3>1 DEF Closing
    <3>3. Makings(call[u])'
      <4>1. CASE call[u].name \in Makes /\ call[u].ret # None /\ call[u].ret \notin astray'
        <5>1. call[u].ret \in fdset => Tracked(files[call[u].ret])
          BY <1>9, <3>1, <4>1 DEF Makings
        <5>2. ASSUME call[u].ret \in fdset', call[u].ret \notin fdset PROVE Tracked(files[call[u].ret])
          <6>1. Inserts(fdset, c) /\ call[u].ret = c.ret
            BY <1>10, <5>2
          <6>2. QED BY <1>12, <1>14, <4>1, <5>2, <6>1
        <5>3. call[u].ret \in fdset' => Tracked(files[call[u].ret])
          BY <5>1, <5>2
        <5>4. QED BY <1>2, <1>9, <3>1, <5>3 DEF Makings, Tracked
      <4>2. QED BY <1>2, <1>9, <3>1, <4>1 DEF Makings
    <3>4. Using(call[u])'
      <4>1. Settling(call[u].fd)' => Settling(call[u].fd)
        BY <1>15, <3>1 DEF Settling, Settles
      <4>2. QED BY <1>2, <1>9, <3>1, <4>1 DEF Using
    <3>5. QED BY <3>2, <3>3, <3>4
  <2>3. Closing(call[t])' /\ Makings(call[t])' /\ Using(call[t])'
    BY <1>8, NothingWritten DEF Closing, Makings, Using, Makes, DataCalls
  <2>4. ASSUME NEW h \in Fds \ astray', ~Settling(h)' PROVE h \in fdset' <=> Tracked(files[h])'
    BY <1>2, <2>1, <2>4 DEF Tracked
  <2>5. QED BY <2>2, <2>3, <2>4 DEF FdInv
<1>18. Received(c) \subseteq Written(c)
  BY <1>6 DEF Received, Written
<1>19. Pending = Pending' \cup Written(c) /\ Pending' \cap Written(c) = {}
  <2>1. Pending' = UNION {Written(call'[u]) : u \in Threads}
    BY DEF Pending, Written, Stored, Received, Control
  <2>2. Written(call'[t]) = {}
    BY <1>8, NothingWritten
  <2>3. \A u \in Threads : u # t => Written(call'[u]) = Written(call[u])
    BY <1>8
  <2>4. \A u \in Threads : u # t => Written(call[u]) \cap Written(c) = {}
    BY <1>1 DEF ToolInv, WriteInv
  <2>5. QED BY <1>1, <2>1, <2>2, <2>3, <2>4 DEF Pending
<1>20. /\ c.ret = None \/ (c.name \in DataCalls /\ c.ret = 0) => tags' = tags
       /\ c.ret # None /\ c.name \notin DataCalls => tags' = tags \ Stored(c)
       /\ c.ret > 0 /\ c.name \in DataCalls /\ Tagging(fdset, c) =>
             tags' = (tags \ Stored(c)) \cup Received(c)
       /\ c.ret > 0 /\ c.name \in DataCalls /\ ~Tagging(fdset, c) =>
             tags' = (tags \ Stored(c)) \ Received(c)
  <2> DEFINE H == Hook(Tool(fdset, tags), c).tags
  <2>1. tags' = H
    BY <1>2
  <2>2. c.ret = None \/ (c.name \in DataCalls /\ c.ret = 0) => H = tags
    BY <1>5, HookTags
  <2>3. c.ret # None /\ c.name \notin DataCalls => H = tags \ Stored(c)
    BY <1>5, HookTags
  <2>4. c.ret > 0 /\ c.name \in DataCalls /\ Tagging(fdset, c) => H = (tags \ Stored(c)) \cup Received(c)
    BY <1>5, HookTags
  <2>5. c.ret > 0 /\ c.name \in DataCalls /\ ~Tagging(fdset, c) => H = (tags \ Stored(c)) \ Received(c)
    BY <1>5, HookTags
  <2> HIDE DEF H
  <2>6. QED BY <2>1, <2>2, <2>3, <2>4, <2>5
<1>21. \A x : x \notin Written(c) => (x \in tags' <=> x \in tags)
  <2>1. CASE c.ret = None \/ (c.name \in DataCalls /\ c.ret = 0)
    BY <1>20, <2>1
  <2>2. CASE c.ret # None /\ c.name \notin DataCalls
    <3>1. tags' = tags \ Stored(c)
      BY <1>20, <2>2
    <3>2. Stored(c) \subseteq Written(c)
      BY <1>5, <2>2, WrittenWhole
    <3>3. QED BY <3>1, <3>2
  <2>3. CASE c.ret > 0 /\ c.name \in DataCalls
    <3>1. tags' = IF Tagging(fdset, c) THEN (tags \ Stored(c)) \cup Received(c)
                                       ELSE (tags \ Stored(c)) \ Received(c)
      BY <1>20, <2>3
    <3>2. c.ret # None
      BY <2>3, <1>6 DEF None
    <3>3. Written(c) = Stored(c) \cup Received(c)
      BY <1>5, <3>2, WrittenWhole
    <3>4. QED BY <3>1, <3>3
  <2>4. QED BY <1>6, <2>1, <2>2, <2>3
<1>22. ASSUME NEW x \in Written(c), x \notin mixed' PROVE x \in data <=> x \in tags'
  <2>1. ~empty(c) /\ (blind(c) => x \notin Received(c))
    <3> HIDE DEF blind, empty
    <3>1. QED BY <1>4, <1>22
  <2>2. c.ret # None
    BY FailedWritesNothing
  <2>3. Written(c) = Stored(c) \cup Received(c)
    BY <1>5, <2>2, WrittenWhole
  <2>4. CASE c.name \notin DataCalls
    <3>1. tags' = tags \ Stored(c) /\ Received(c) = {}
      BY <1>20, <2>2, <2>4 DEF Received
    <3>2. x \in Stored(c) /\ x \notin data
      BY <1>7, <2>3, <3>1 DEF Holds
    <3>3. QED BY <3>1, <3>2
  <2>5. CASE c.name \in DataCalls
    <3>1. c.ret > 0
      BY <1>6, <2>1, <2>2, <2>5
    <3>2. tags' = IF Tagging(fdset, c) THEN (tags \ Stored(c)) \cup Received(c)
                                       ELSE (tags \ Stored(c)) \ Received(c)
      BY <1>20, <2>5, <3>1
    <3>3. CASE x \in Stored(c)
      <4>1. x \notin Received(c)
        BY <1>5, <2>2, <2>5, <3>3 DEF Shape
      <4>2. x \notin data
        BY <1>7, <3>3 DEF Holds
      <4>3. QED BY <3>2, <3>3, <4>1, <4>2
    <3>4. CASE x \in Received(c)
      <4>1. c.fd \notin astray /\ ~(c.name = "recvmsg" /\ knobs.net)
        BY <2>1, <3>4
      <4>2. /\ c.fd \in fdset <=> Tracked(files[c.fd])
            /\ c.name \in {"recv", "recvfrom", "recvmsg"} => files[c.fd] \in {"inet", "unix"}
        BY <1>7, <1>13, <2>2, <2>5, <4>1 DEF Using
      <4>3. Tagging(fdset, c) <=> Tracked(files[c.fd])
        BY <2>5, <4>1, <4>2 DEF Tagging, Tracked, DataCalls
      <4>4. IF Tracked(files[c.fd]) THEN Received(c) \subseteq data ELSE Received(c) \cap data = {}
        BY <1>7, <2>2, <2>5, <4>1 DEF Holds
      <4>5. QED BY <3>2, <3>4, <4>3, <4>4
    <3>5. QED BY <2>3, <3>3, <3>4
  <2>6. QED BY <2>4, <2>5
<1>23. \A x : x \notin Written(c) => (x \in mixed' <=> x \in mixed)
  <2> HIDE DEF blind, empty
  <2>1. QED BY <1>4, <1>18
<1>24. TaintRight'
  <2>1. ASSUME NEW x, x \notin mixed', x \notin Pending' PROVE x \in data <=> x \in tags'
    <3>1. CASE x \in Written(c)
      BY <1>22, <2>1, <3>1
    <3>2. CASE x \notin Written(c)
      <4>1. x \notin mixed /\ x \notin Pending
        BY <1>19, <1>23, <2>1, <3>2
      <4>2. x \in data <=> x \in tags
        BY <4>1 DEF ToolInv, TaintRight
      <4>3. QED BY <1>21, <3>2, <4>2
    <3>3. QED BY <3>1, <3>2
  <2>2. data' = data
    BY <1>2
  <2>3. QED BY <2>1, <2>2 DEF TaintRight
<1>25. TypeOK'
  <2>1. fdset' \subseteq Fds
    BY <1>10, <1>12 DEF ToolInv, TypeOK
  <2>2. tags' \subseteq Buffers
    <3>1. Written(c) \subseteq Buffers /\ tags \subseteq Buffers
      BY <1>5, WrittenInBuffers DEF ToolInv, TypeOK, Buffers
    <3>2. QED BY <1>21, <3>1
  <2>3. QED BY <1>2, <2>1, <2>2 DEF ToolInv, TypeOK, Buffers
<1>26. CallInv'
  BY <1>2, <1>8 DEF ToolInv, CallInv
<1>27. WriteInv'
  <2>1. ASSUME NEW u \in Threads, NEW v \in Threads, u # v
        PROVE  Written(call'[u]) \cap Written(call'[v]) = {}
    <3>1. Written(call'[t]) = {}
      BY <1>8, NothingWritten
    <3>2. CASE u # t /\ v # t
      BY <1>8, <2>1, <3>2 DEF ToolInv, WriteInv
    <3>3. QED BY <3>1, <3>2
  <2>2. ASSUME NEW u \in Threads, u # t PROVE Holds(call[u])'
    <3>1. Holds(call[u]) /\ call'[u] = call[u]
      BY <1>8, <2>2 DEF ToolInv, WriteInv
    <3>2. (Stored(call[u]) \cap Written(call[u]) \cap data = {})'
      BY <1>2, <3>1 DEF Holds, Stored, Written, Received, Control
    <3>3. Received(call[u])' = Received(call[u])
      BY <3>1 DEF Received, Control
    <3>4. QED BY <1>2, <1>9, <3>1, <3>2, <3>3 DEF Holds, Tracked
  <2>3. Holds(call[t])'
    <3>1. (Stored(call[t]) \cap Written(call[t]) \cap data = {})'
      <4>1. Written(call[t])' = {}
        BY <1>8 DEF Written, NoCall, Plain, Call, None
      <4>2. QED BY <4>1
    <3>2. call'[t].name \notin DataCalls
      BY <1>8, NothingWritten DEF DataCalls
    <3>3. QED BY <3>1, <3>2 DEF Holds
  <2>4. QED BY <2>1, <2>2, <2>3 DEF WriteInv
<1>28. BranchesRight'
  BY <1>2 DEF ToolInv, BranchesRight
<1>29. QED BY <1>17, <1>24, <1>25, <1>26, <1>27, <1>28 DEF ToolInv

-----------------------------------------------------------------------------
(* Instructions *)

(* A step that leaves descriptors and calls alone, and data in calls in progress.   *)
LEMMA QuietStep ==
    ASSUME ToolInv, UNCHANGED <<knobs, fdset, files, call, astray>>,
           \A x \in Pending : x \in data' <=> x \in data
    PROVE  CallInv' /\ FdInv' /\ WriteInv' /\ Pending' = Pending
<1>1. CallInv'
  BY DEF ToolInv, CallInv
<1>2. FdInv'
  BY DEF ToolInv, FdInv, Settling, Settles, Closing, Makings, Using, Tracked
<1>3. \A u \in Threads : Written(call[u])' = Written(call[u]) /\ Stored(call[u])' = Stored(call[u])
                            /\ Received(call[u])' = Received(call[u])
  BY DEF Written, Stored, Received, Control
<1>4. ASSUME NEW u \in Threads PROVE Holds(call[u])'
  <2>1. Holds(call[u]) /\ Written(call[u]) \subseteq Pending
    BY DEF ToolInv, WriteInv, Pending
  <2>2. Received(call[u]) \subseteq Written(call[u])
    BY DEF Received, Written, ToolInv, CallInv, Shape, None, NoCall, Plain, Call
  <2>3. (Stored(call[u]) \cap Written(call[u]) \cap data = {})'
    BY <1>3, <2>1 DEF Holds
  <2>4. QED BY <1>3, <2>1, <2>2, <2>3 DEF Holds, Tracked
<1>5. WriteInv'
  BY <1>3, <1>4 DEF ToolInv, WriteInv
<1>6. Pending' = Pending
  BY DEF Pending, Written, Stored, Received, Control
<1>7. QED BY <1>1, <1>2, <1>5, <1>6

LEMMA CopyStep ==
    ASSUME ToolInv, NEW t \in Threads, NEW a \in Bufs, NEW b \in Bufs, Copy(t, a, b)
    PROVE  ToolInv'
<1> DEFINE A == Span(<<a, 8>>)
           D == Span(<<b, 8>>)
<1>1. /\ (A \cup D) \cap Pending = {}
      /\ tags' = (tags \ D) \cup {x \in D : x - b + a \in tags}
      /\ data' = (data \ D) \cup {x \in D : x - b + a \in data}
      /\ mixed' = (mixed \ D) \cup {x \in D : x - b + a \in mixed}
      /\ UNCHANGED <<knobs, fdset, files, call, outcome, astray>>
  BY DEF Copy, Copied
<1>2. a \in Nat /\ b \in Nat
  BY DtaToolAssumption
<1>3. ASSUME NEW x \in D PROVE x - b + a \in A
  <2>1. x \in Nat /\ b <= x /\ x < b + 8
    BY <1>2, <1>3, InSpan
  <2>2. PICK y : y = x - b + a
    OBVIOUS
  <2>3. y \in Nat /\ a <= y /\ y < a + 8
    BY <1>2, <2>1, <2>2
  <2>4. y \in A
    BY <1>2, <2>3, InSpan
  <2>5. QED BY <2>2, <2>4
<1> HIDE DEF A, D
<1>4. \A x \in Pending : x \in data' <=> x \in data
  BY <1>1
<1>5. CallInv' /\ FdInv' /\ WriteInv' /\ Pending' = Pending
  BY <1>1, <1>4, QuietStep
<1>6. D \subseteq Buffers
  BY DEF D, Buffers
<1>7. TypeOK'
  BY <1>1, <1>6 DEF ToolInv, TypeOK, Buffers
<1>8. BranchesRight'
  BY <1>1 DEF ToolInv, BranchesRight
<1>9. TaintRight'
  <2>1. \A y : y \notin mixed /\ y \notin Pending => (y \in data <=> y \in tags)
    BY DEF ToolInv, TaintRight
  <2>2. ASSUME NEW x, x \notin mixed', x \notin Pending PROVE x \in data' <=> x \in tags'
    <3>1. CASE x \in D
      <4>1. PICK y : y = x - b + a
        OBVIOUS
      <4>2. y \in A /\ y \notin mixed
        BY <1>1, <1>3, <2>2, <3>1, <4>1
      <4>3. y \in data <=> y \in tags
        BY <1>1, <2>1, <4>2
      <4>4. QED BY <1>1, <3>1, <4>1, <4>3
    <3>2. CASE x \notin D
      BY <1>1, <2>1, <2>2, <3>2
    <3>3. QED BY <3>1, <3>2
  <2>3. QED BY <1>5, <2>2 DEF TaintRight
<1>10. QED BY <1>5, <1>7, <1>8, <1>9 DEF ToolInv

(* A branch that the assertion stops exactly if a tag is on what it uses.           *)
LEMMA AlertStep ==
    ASSUME ToolInv, NEW t \in Threads, NEW a, NEW b, NEW w, NEW stop,
           stop <=> tags \cap (Span(<<a, w>>) \cup Span(<<b, w>>)) # {},
           alert(t, a, b, w, stop)
    PROVE  ToolInv'
<1> DEFINE used == Span(<<a, w>>) \cup Span(<<b, w>>)
<1>1. /\ used \cap (Pending \cup mixed) = {}
      /\ outcome' = CASE stop /\ data \cap used # {} -> "stopped" [] stop /\ ~(data \cap used # {}) -> "alarm"
                      [] ~stop /\ data \cap used # {} -> "hijacked" [] OTHER -> "running"
      /\ UNCHANGED <<knobs, fdset, tags, files, data, call, astray, mixed>>
  BY DEF alert
<1>2. stop <=> tags \cap used # {}
  OBVIOUS
<1> HIDE DEF used
<1>3. data \cap used = tags \cap used
  BY <1>1 DEF ToolInv, TaintRight
<1>4. outcome' \in {"stopped", "running"}
  <2>1. stop <=> data \cap used # {}
    BY <1>2, <1>3
  <2>2. CASE data \cap used # {}
    BY <1>1, <2>1, <2>2
  <2>3. CASE data \cap used = {}
    BY <1>1, <2>1, <2>3
  <2>4. QED BY <2>2, <2>3
<1>5. CallInv' /\ FdInv' /\ WriteInv' /\ Pending' = Pending
  BY <1>1, QuietStep
<1>6. TypeOK' /\ BranchesRight' /\ TaintRight'
  BY <1>1, <1>4, <1>5 DEF ToolInv, TypeOK, BranchesRight, TaintRight
<1>7. QED BY <1>5, <1>6 DEF ToolInv

LEMMA BranchStep ==
    ASSUME ToolInv, NEW t \in Threads, NEW a \in Bufs, NEW b \in Bufs \cup {Code},
           NEW w \in {2, WORD_LEN}, BranchReg(t, a, b, w) \/ BranchMem(t, a, b, w)
    PROVE  ToolInv'
<1>1. a \in Nat /\ b \in Nat
  BY DtaToolAssumption
<1>2. /\ M!tagmap_getl(tags, a) = tags \cap Span(<<a, 4>>)
      /\ M!tagmap_getl(tags, b) = tags \cap Span(<<b, 4>>)
      /\ M!tagmap_getw(tags, a) = tags \cap Span(<<a, 2>>)
      /\ M!tagmap_getw(tags, b) = tags \cap Span(<<b, 2>>)
  BY <1>1, GetSpan
<1> DEFINE reg == {i \in 0 .. 3 : a + i \in tags}
           used == Span(<<a, w>>) \cup Span(<<b, w>>)
<1>3. assert_mem(tags, a, b, w) <=> tags \cap used # {}
  <2>1. CASE w = WORD_LEN
    BY <1>2, <2>1 DEF assert_mem, WORD_LEN
  <2>2. CASE w = 2
    BY <1>2, <2>2 DEF assert_mem, WORD_LEN
  <2>3. QED BY <2>1, <2>2
<1>4. reg # {} <=> tags \cap Span(<<a, 4>>) # {}
  <2>1. Span(<<a, 4>>) = {a + i : i \in 0 .. 3}
    BY DEF Span
  <2>2. QED BY <2>1
<1>5. reg \cap {0, 1} # {} <=> tags \cap Span(<<a, 2>>) # {}
  <2>1. Span(<<a, 2>>) = {a + i : i \in 0 .. 1}
    BY DEF Span
  <2>2. QED BY <2>1
<1>6. assert_reg(tags, reg, b, w) <=> tags \cap used # {}
  <2> HIDE DEF reg
  <2>1. CASE w = WORD_LEN
    BY <1>2, <1>4, <2>1 DEF assert_reg, WORD_LEN
  <2>2. CASE w = 2
    <3> DEFINE low == reg \cap {0, 1}
    <3>1. assert_reg(tags, reg, b, w) <=> low \cup (tags \cap Span(<<b, 2>>)) # {}
      BY <1>2, <2>2 DEF assert_reg, WORD_LEN
    <3>2. low # {} <=> tags \cap Span(<<a, 2>>) # {}
      BY <1>5
    <3> HIDE DEF low
    <3>3. QED BY <2>2, <3>1, <3>2
  <2>3. QED BY <2>1, <2>2
<1>7. CASE BranchReg(t, a, b, w)
  <2>1. PICK stop : stop = assert_reg(tags, reg, b, w)
    OBVIOUS
  <2>2. alert(t, a, b, w, stop)
    BY <1>7, <2>1, Zenon DEF BranchReg
  <2>3. stop <=> tags \cap used # {}
    BY <1>6, <2>1
  <2>4. QED BY <2>2, <2>3, AlertStep
<1>8. CASE BranchMem(t, a, b, w)
  <2>1. PICK stop : stop = assert_mem(tags, a, b, w)
    OBVIOUS
  <2>2. alert(t, a, b, w, stop)
    BY <1>8, <2>1, Zenon DEF BranchMem
  <2>3. stop <=> tags \cap used # {}
    BY <1>3, <2>1
  <2>4. QED BY <2>2, <2>3, AlertStep
<1>9. QED BY <1>7, <1>8

-----------------------------------------------------------------------------
(* The theorems *)

LEMMA InitInv == ASSUME Init PROVE ToolInv
<1>1. /\ knobs \in [sin : BOOLEAN, fs : BOOLEAN, net : BOOLEAN]
      /\ call = [u \in Threads |-> NoCall] /\ tags = {} /\ data = {} /\ outcome = "running"
      /\ files = [f \in Fds |-> IF f = STDIN_FILENO THEN "tty" ELSE Free]
      /\ fdset = IF knobs.sin THEN {STDIN_FILENO} ELSE {}
  BY DtaToolAssumption DEF Init
<1>2. \A u \in Threads : call[u] = NoCall /\ call[u].name = "none" /\ Written(call[u]) = {}
  BY <1>1, NothingWritten
<1>3. TypeOK
  BY <1>1, DtaToolAssumption DEF TypeOK, STDIN_FILENO
<1>4. CallInv
  BY <1>1 DEF CallInv
<1>5. FdInv
  <2>1. ASSUME NEW f \in Fds PROVE f \in fdset <=> Tracked(files[f])
    BY <1>1 DEF Tracked, Free, STDIN_FILENO
  <2>2. QED BY <1>2, <2>1 DEF FdInv, Closing, Makings, Using, Makes, DataCalls
<1>6. WriteInv
  BY <1>1, <1>2 DEF WriteInv, Holds, DataCalls
<1>7. TaintRight /\ BranchesRight
  BY <1>1 DEF TaintRight, BranchesRight
<1>8. QED BY <1>3, <1>4, <1>5, <1>6, <1>7 DEF ToolInv

LEMMA NextInv == ASSUME ToolInv, [Next]_vars PROVE ToolInv'
<1>1. ASSUME NEW t \in Threads, Step(t) PROVE ToolInv'
  <2>1. ASSUME NEW kind \in {"file", "lib"}, KernelOpen(t, kind) PROVE ToolInv'
    BY <2>1, OpenStep
  <2>2. ASSUME NEW kind \in {"inet", "unix"}, KernelSocket(t, kind) PROVE ToolInv'
    BY <2>2, SocketStep
  <2>3. ASSUME NEW b \in Bufs, KernelSocketpair(t, b) PROVE ToolInv'
    BY <2>3, SocketpairStep
  <2>4. ASSUME NEW f \in Fds, KernelDup(t, f) PROVE ToolInv'
    BY <2>4, DupStep
  <2>5. ASSUME NEW f \in Fds, NEW g \in Fds, KernelDup2(t, f, g) PROVE ToolInv'
    BY <2>5, Dup2Step
  <2>6. ASSUME NEW f \in Fds, NEW ret \in {-1, 0}, KernelClose(t, f, ret) PROVE ToolInv'
    BY <2>6, CloseStep DEF None
  <2>7. ASSUME NEW f \in Fds, NEW aux \in AuxArgs, KernelAccept(t, f, aux) \/ KernelName(t, f, aux)
        PROVE  ToolInv'
    BY <2>7, AcceptStep, NameStep
  <2>8. ASSUME NEW f \in Fds, NEW name \in DataCalls \cup Makes, KernelFails(t, name, f) PROVE ToolInv'
    BY <2>8, FailsStep
  <2>9. ASSUME NEW f \in Fds, NEW name \in DataCalls, NEW iov \in Vectors, NEW n \in Counts,
               NEW aux \in AuxArgs, KernelData(t, name, f, iov, n, aux, <<>>)
        PROVE  ToolInv'
    <3>1. aux \in Ranges /\ <<>> \in Controls
      BY AuxRanges DEF Controls
    <3>2. QED BY <2>9, <3>1, DataStep
  <2>10. ASSUME NEW f \in Fds, NEW iov \in Vectors, NEW n \in Counts, NEW b \in Bufs,
                KernelData(t, "recvmsg", f, iov, n, <<<<b + 4, 4>>>>, <<<<b, 3>>>>)
         PROVE  ToolInv'
    <3>1. PICK aux, ctl : aux = <<<<b + 4, 4>>>> /\ ctl = <<<<b, 3>>>>
      OBVIOUS
    <3>2. aux \in Ranges /\ ctl \in Controls /\ "recvmsg" \in DataCalls
      BY <3>1 DEF Ranges, Controls, DataCalls
    <3>3. KernelData(t, "recvmsg", f, iov, n, aux, ctl)
      BY <2>10, <3>1
    <3>4. QED BY <3>1, <3>2, <3>3, DataStep
  <2>11. ASSUME Exit(t) PROVE ToolInv'
    BY <2>11, ExitStep
  <2>12. ASSUME NEW a \in Bufs, NEW b \in Bufs, Copy(t, a, b) PROVE ToolInv'
    BY <2>12, CopyStep
  <2>13. ASSUME NEW a \in Bufs, NEW b \in Bufs \cup {Code}, NEW w \in {2, WORD_LEN},
                BranchReg(t, a, b, w) \/ BranchMem(t, a, b, w)
         PROVE  ToolInv'
    BY <2>13, BranchStep
  <2>14. QED
    BY <1>1, <2>1, <2>2, <2>3, <2>4, <2>5, <2>6, <2>7, <2>8, <2>9, <2>10, <2>11, <2>12, <2>13 DEF Step
<1>2. CASE UNCHANGED vars
  <2>1. UNCHANGED <<knobs, fdset, files, call, astray>> /\ UNCHANGED <<tags, data, outcome, mixed>>
    BY <1>2 DEF vars
  <2>2. CallInv' /\ FdInv' /\ WriteInv' /\ Pending' = Pending
    BY <2>1, QuietStep
  <2>3. TypeOK' /\ BranchesRight' /\ TaintRight'
    BY <2>1, <2>2 DEF ToolInv, TypeOK, BranchesRight, TaintRight
  <2>4. QED BY <2>2, <2>3 DEF ToolInv
<1>3. QED BY <1>1, <1>2 DEF Next

LEMMA Inductive == Spec => []ToolInv
<1>1. Init => ToolInv
  BY InitInv
<1>2. ToolInv /\ [Next]_vars => ToolInv'
  BY NextInv
<1>3. QED BY <1>1, <1>2, PTL DEF Spec

(* The set holds descriptors only, never the result of a call that failed, and      *)
(* the hooks tag bytes of the program's buffers only.                               *)
THEOREM TypeCorrect == Spec => []TypeOK
<1>1. ToolInv => TypeOK
  BY DEF ToolInv
<1>2. QED BY <1>1, Inductive, PTL

(* However the calls of any number of threads interleave with their hooks, a         *)
(* descriptor whose calls are over is in fdset exactly when its object is tracked,    *)
(* unless its number changed hands behind a hook.                                   *)
THEOREM SetFollowsKernel == Spec => []FdsetRight
<1>1. ASSUME ToolInv PROVE FdsetRight
  <2> SUFFICES ASSUME NEW f \in Fds \ astray, \A t \in Threads : call[t].fd # f /\ call[t].ret # f
               PROVE  f \in fdset <=> Tracked(files[f])
    BY DEF FdsetRight
  <2>1. ~Settling(f)
    BY DEF Settling, Settles
  <2>2. QED BY <1>1, <2>1 DEF ToolInv, FdInv
<1>2. QED BY <1>1, Inductive, PTL

(* The hooks of read, readv and the socket calls leave exactly the bytes of tracked   *)
(* data tagged, but for calls in progress and what was read through a descriptor     *)
(* that went astray, by recvmsg, or beside an empty datagram.                        *)
THEOREM TagsFollowData == Spec => []TaintRight
<1>1. ToolInv => TaintRight
  BY DEF ToolInv
<1>2. QED BY <1>1, Inductive, PTL

(* alert stops the branches through tracked data and no others.                     *)
THEOREM BranchesJudged == Spec => []BranchesRight
<1>1. ToolInv => BranchesRight
  BY DEF ToolInv
<1>2. QED BY <1>1, Inductive, PTL
=============================================================================
