-------------------------- MODULE TagDirectoryProofs --------------------------
(***************************************************************************)
(* Proofs about TagDirectory for every size of the directory, every number    *)
(* of threads and every interleaving: the pointers are sound, a byte keeps    *)
(* the tag last assigned to it, overlapping lookups find a tag the byte had,  *)
(* a fault needs a failed allocation, and the directory implements TagMap.    *)
(*                                                                           *)
(* The lemmas come in four groups: the three indices of an address are the    *)
(* digits of its byte, so two bytes never share a slot; the inductive         *)
(* invariant; one lemma for every kind of step; and, for the three steps that *)
(* write shared memory, what they do to the answer for each byte, which the   *)
(* invariant and the refinement both rest on.                                *)
(***************************************************************************)
EXTENDS TagDirectory, Integers, TLAPS

(* Division and remainder of naturals.                                        *)
LEMMA DivMod ==
    \A n \in Nat, d \in Nat \ {0} :
        /\ n \div d \in Nat /\ n % d \in Nat /\ n % d < d
        /\ n = d * (n \div d) + (n % d)
<1>1. \A n \in Nat, d \in Nat : d > 0 => n = d * (n \div d) + (n % d)
  OBVIOUS
<1>2. \A n \in Nat, d \in Nat : d > 0 => n \div d \in Nat
  OBVIOUS
<1>3. \A n \in Nat, d \in Nat : d > 0 => n % d \in Nat /\ n % d < d
  OBVIOUS
<1>4. \A n \in Nat, d \in Nat \ {0} : d > 0
  OBVIOUS
<1> QED BY <1>1, <1>2, <1>3, <1>4

(* Quotient and remainder are unique.                                         *)
LEMMA DivModUnique ==
    ASSUME NEW n \in Nat, NEW d \in Nat \ {0}, NEW q \in Nat, NEW r \in Nat, r < d,
           n = d * q + r
    PROVE  n \div d = q /\ n % d = r
<1>1. n = d * (n \div d) + (n % d) /\ n % d < d /\ n \div d \in Nat /\ n % d \in Nat
  BY DivMod
<1>2. ASSUME n \div d < q PROVE FALSE
  <2>1. PICK k \in Nat : q = (n \div d) + 1 + k
    <3>1. q - (n \div d) - 1 \in Nat
      BY <1>1, <1>2
    <3> QED BY <1>1, <3>1
  <2>2. d * q = d * (n \div d) + d + d * k
    BY <1>1, <2>1
  <2>3. d * k \in Nat
    OBVIOUS
  <2> QED BY <1>1, <2>2, <2>3
<1>3. ASSUME n \div d > q PROVE FALSE
  <2>1. PICK k \in Nat : n \div d = q + 1 + k
    <3>1. (n \div d) - q - 1 \in Nat
      BY <1>1, <1>3
    <3> QED BY <1>1, <3>1
  <2>2. d * (n \div d) = d * q + d + d * k
    BY <1>1, <2>1
  <2>3. d * k \in Nat
    OBVIOUS
  <2> QED BY <1>1, <2>2, <2>3
<1>4. n \div d = q
  BY <1>1, <1>2, <1>3
<1> QED BY <1>1, <1>4

(* The indices of an address are in range.                                    *)
LEMMA SlotRange ==
    ASSUME NEW a \in Nat
    PROVE  /\ virt2table(a) \in 0 .. DIR_SZ - 1
           /\ virt2page(a) \in 0 .. DIR_TABLE_SZ - 1
           /\ virt2offset(a) \in 0 .. DIR_PAGE_SZ - 1
           /\ Byte(a) \in Bytes
<1> DEFINE D == DIR_SZ  T == DIR_TABLE_SZ  P == DIR_PAGE_SZ
<1>1. D \in Nat \ {0} /\ T \in Nat \ {0} /\ P \in Nat \ {0}
  BY TagDirectoryAssumption
<1>2. P * T \in Nat \ {0} /\ D * T * P \in Nat \ {0}
  BY <1>1
<1>3. /\ \A n \in Nat : n % D \in 0 .. D - 1 /\ n % T \in 0 .. T - 1 /\ n % P \in 0 .. P - 1
      /\ \A n \in Nat : n % (D * T * P) \in 0 .. D * T * P - 1
      /\ a \div (P * T) \in Nat /\ a \div P \in Nat
  <2> HIDE DEF D, T, P
  <2> QED BY <1>1, <1>2, DivMod
<1> QED BY <1>3 DEF virt2table, virt2page, virt2offset, Byte, Bytes

(* A number below t with a digit below p is below p * t.                      *)
LEMMA MulBound ==
    ASSUME NEW p \in Nat \ {0}, NEW t \in Nat, NEW v \in Nat, v < t, NEW o \in Nat, o < p
    PROVE  p * v + o \in Nat /\ p * v + o < p * t
<1>1. PICK k \in Nat : t = v + 1 + k
  <2>1. t - v - 1 \in Nat
    OBVIOUS
  <2> QED BY <2>1
<1>2. p * t = p * v + p + p * k
  BY <1>1
<1>3. p * k \in Nat /\ p * v \in Nat
  OBVIOUS
<1> QED BY <1>2, <1>3

(* The three indices are the digits of the byte that an address stands for.   *)
LEMMA Digits ==
    ASSUME NEW a \in Nat
    PROVE  /\ Byte(a) = DIR_PAGE_SZ * (DIR_TABLE_SZ * virt2table(a) + virt2page(a))
                           + virt2offset(a)
           /\ Byte(a) \div (DIR_PAGE_SZ * DIR_TABLE_SZ) = virt2table(a)
           /\ Byte(a) \div DIR_PAGE_SZ = DIR_TABLE_SZ * virt2table(a) + virt2page(a)
           /\ Byte(a) % DIR_PAGE_SZ = virt2offset(a)
<1> DEFINE D == DIR_SZ  T == DIR_TABLE_SZ  P == DIR_PAGE_SZ
           q1 == a \div P  q2 == q1 \div T  q3 == q2 \div D
           vo == a % P  vp == q1 % T  vt == q2 % D
           b == P * (T * vt + vp) + vo
<1>1. D \in Nat \ {0} /\ T \in Nat \ {0} /\ P \in Nat \ {0}
  BY TagDirectoryAssumption
<1>2. /\ q1 \in Nat /\ vo \in Nat /\ vo < P /\ a = P * q1 + vo
      /\ q2 \in Nat /\ vp \in Nat /\ vp < T /\ q1 = T * q2 + vp
      /\ q3 \in Nat /\ vt \in Nat /\ vt < D /\ q2 = D * q3 + vt
  <2>1. q1 \in Nat /\ vo \in Nat /\ vo < P /\ a = P * q1 + vo
    BY <1>1, DivMod
  <2> HIDE DEF q1
  <2>2. q2 \in Nat /\ vp \in Nat /\ vp < T /\ q1 = T * q2 + vp
    BY <1>1, <2>1, DivMod
  <2> HIDE DEF q2
  <2>3. q3 \in Nat /\ vt \in Nat /\ vt < D /\ q2 = D * q3 + vt
    BY <1>1, <2>2, DivMod
  <2> QED BY <2>1, <2>2, <2>3
<1>3. virt2offset(a) = vo /\ virt2page(a) = vp
  BY DEF virt2offset, virt2page
<1> HIDE DEF D, T, P, q1, q2, q3, vo, vp, vt, b
<1>4. P * vp + vo \in Nat /\ P * vp + vo < P * T
  BY <1>1, <1>2, MulBound
<1>5. P * T \in Nat \ {0} /\ D * T * P \in Nat \ {0} /\ T * D = D * T
  BY <1>1
<1>6. a \div (P * T) = q2
  <2>1. a = (P * T) * q2 + (P * vp + vo)
    BY <1>1, <1>2
  <2> QED BY <2>1, <1>2, <1>4, <1>5, DivModUnique, SMTT(30)
<1>7. virt2table(a) = vt
  BY <1>6 DEF virt2table, vt, P, T, D
<1>8. T * vt + vp \in Nat /\ T * vt + vp < T * D
  BY <1>1, <1>2, MulBound
<1>9. b \in Nat /\ b < P * (T * D)
  <2>1. T * D \in Nat
    BY <1>1
  <2> QED BY <1>1, <1>2, <1>8, <2>1, MulBound DEF b
<1>10. b < D * T * P
  <2>1. P * (T * D) = D * T * P
    BY <1>1
  <2> QED BY <1>9, <2>1
<1>11. Byte(a) = b
  <2>1. a = (D * T * P) * q3 + b
    <3>1. a = P * (T * (D * q3 + vt) + vp) + vo
      BY <1>2
    <3> QED BY <3>1, <1>1, <1>2 DEF b
  <2>2. a % (D * T * P) = b
    BY <2>1, <1>2, <1>5, <1>9, <1>10, DivModUnique
  <2> QED BY <2>2 DEF Byte, D, T, P
<1>12. b \div (P * T) = vt
  <2>1. b = (P * T) * vt + (P * vp + vo)
    BY <1>1, <1>2 DEF b
  <2> QED BY <2>1, <1>2, <1>4, <1>5, <1>9, DivModUnique
<1>13. b \div P = T * vt + vp /\ b % P = vo
  BY <1>1, <1>2, <1>8, <1>9, DivModUnique DEF b
<1> QED BY <1>3, <1>7, <1>11, <1>12, <1>13 DEF b, D, T, P

(* An address and its byte have the same indices.                             *)
LEMMA SameSlots ==
    ASSUME NEW a \in Nat
    PROVE  /\ Byte(a) \in Bytes /\ Byte(Byte(a)) = Byte(a)
           /\ virt2table(Byte(a)) = virt2table(a)
           /\ virt2page(Byte(a)) = virt2page(a)
           /\ virt2offset(Byte(a)) = virt2offset(a)
<1> DEFINE D == DIR_SZ  T == DIR_TABLE_SZ  P == DIR_PAGE_SZ
           vo == virt2offset(a)  vp == virt2page(a)  vt == virt2table(a)
<1>1. D \in Nat \ {0} /\ T \in Nat \ {0} /\ P \in Nat \ {0}
  BY TagDirectoryAssumption
<1>2. vt \in 0 .. D - 1 /\ vp \in 0 .. T - 1 /\ vo \in 0 .. P - 1 /\ Byte(a) \in Bytes
  BY SlotRange
<1>3. /\ Byte(a) \div (P * T) = vt
      /\ Byte(a) \div P = T * vt + vp
      /\ Byte(a) % P = vo
  BY Digits
<1>4. Byte(a) \in Nat
  BY <1>2 DEF Bytes
<1> HIDE DEF D, T, P, vo, vp, vt
<1>5. vt % D = vt
  <2>1. vt \in Nat /\ vt < D /\ vt = D * 0 + vt
    BY <1>1, <1>2
  <2> QED BY <1>1, <2>1, DivModUnique
<1>6. (T * vt + vp) % T = vp
  <2>1. vt \in Nat /\ vp \in Nat /\ vp < T /\ T * vt + vp \in Nat
    BY <1>1, <1>2
  <2> QED BY <1>1, <2>1, DivModUnique
<1>7. virt2table(Byte(a)) = vt /\ virt2page(Byte(a)) = vp /\ virt2offset(Byte(a)) = vo
  BY <1>3, <1>5, <1>6 DEF virt2table, virt2page, virt2offset, D, T, P
<1>8. Byte(Byte(a)) = Byte(a)
  BY <1>4, <1>7, Digits DEF vo, vp, vt
<1> QED BY <1>2, <1>7, <1>8 DEF vo, vp, vt

(* A byte is its own address, and its indices tell it from every other byte.  *)
LEMMA BytesDiffer ==
    /\ Bytes \subseteq Nat
    /\ \A b \in Bytes : Byte(b) = b
    /\ \A b, c \in Bytes : /\ virt2table(b) = virt2table(c)
                           /\ virt2page(b) = virt2page(c)
                           /\ virt2offset(b) = virt2offset(c)
                           => b = c
<1> DEFINE N == DIR_SZ * DIR_TABLE_SZ * DIR_PAGE_SZ
<1>1. N \in Nat \ {0}
  BY TagDirectoryAssumption
<1>2. Bytes = 0 .. N - 1
  BY DEF Bytes
<1>3. \A b \in Bytes : b % N = b
  <2> HIDE DEF N
  <2> SUFFICES ASSUME NEW b \in Bytes PROVE b % N = b
    OBVIOUS
  <2>1. b \in Nat /\ b < N /\ b = N * 0 + b
    BY <1>1, <1>2
  <2> QED BY <1>1, <2>1, DivModUnique
<1>4. Bytes \subseteq Nat /\ \A b \in Bytes : Byte(b) = b
  BY <1>1, <1>2, <1>3 DEF Byte
<1>5. ASSUME NEW b \in Bytes, NEW c \in Bytes, virt2table(b) = virt2table(c),
             virt2page(b) = virt2page(c), virt2offset(b) = virt2offset(c)
      PROVE  b = c
  <2>1. Byte(b) = Byte(c)
    BY <1>4, <1>5, Digits
  <2> QED BY <1>4, <2>1
<1> QED BY <1>4, <1>5

(* The bytes of a table share the first index, those of a page the first two. *)
LEMMA Regions ==
    ASSUME NEW a \in Nat
    PROVE  /\ InTable(a) = {b \in Bytes : virt2table(b) = virt2table(a)}
           /\ InPage(a) = {b \in Bytes : virt2table(b) = virt2table(a)
                                         /\ virt2page(b) = virt2page(a)}
           /\ InTable(Byte(a)) = InTable(a) /\ InPage(Byte(a)) = InPage(a)
<1>1. \A b \in Bytes : /\ b \div (DIR_PAGE_SZ * DIR_TABLE_SZ) = virt2table(b)
                       /\ b \div DIR_PAGE_SZ = DIR_TABLE_SZ * virt2table(b) + virt2page(b)
  BY BytesDiffer, Digits
<1>2. /\ Byte(a) \div (DIR_PAGE_SZ * DIR_TABLE_SZ) = virt2table(a)
      /\ Byte(a) \div DIR_PAGE_SZ = DIR_TABLE_SZ * virt2table(a) + virt2page(a)
  BY Digits
<1>3. ASSUME NEW b \in Bytes,
             DIR_TABLE_SZ * virt2table(b) + virt2page(b)
                = DIR_TABLE_SZ * virt2table(a) + virt2page(a)
      PROVE  virt2table(b) = virt2table(a) /\ virt2page(b) = virt2page(a)
  <2> DEFINE T == DIR_TABLE_SZ
             n == T * virt2table(a) + virt2page(a)
  <2>1. b \in Nat /\ T \in Nat \ {0}
    BY BytesDiffer, TagDirectoryAssumption
  <2>2. /\ virt2table(a) \in Nat /\ virt2page(a) \in Nat /\ virt2page(a) < T
        /\ virt2table(b) \in Nat /\ virt2page(b) \in Nat /\ virt2page(b) < T
    BY <2>1, SlotRange, TagDirectoryAssumption
  <2> HIDE DEF T
  <2>3. n \in Nat /\ n = T * virt2table(b) + virt2page(b)
    BY <1>3, <2>1, <2>2 DEF T
  <2>4. n \div T = virt2table(a) /\ n % T = virt2page(a)
    BY <2>1, <2>2, <2>3, DivModUnique
  <2>5. n \div T = virt2table(b) /\ n % T = virt2page(b)
    <3> HIDE DEF n
    <3> QED BY <2>1, <2>2, <2>3, DivModUnique
  <2> QED BY <2>4, <2>5
<1>4. Byte(Byte(a)) = Byte(a)
  BY SameSlots
<1> QED BY <1>1, <1>2, <1>3, <1>4 DEF InTable, InPage

-----------------------------------------------------------------------------
(* The inductive invariant. A table object is in at most one slot of the      *)
(* directory and a page object in at most one slot of one table.              *)
HeapInv ==
    /\ dir \in [0 .. DIR_SZ - 1 -> Nat]
    /\ tables \in Seq([0 .. DIR_TABLE_SZ - 1 -> Nat])
    /\ pages \in Seq([0 .. DIR_PAGE_SZ - 1 -> TagValues])
    /\ last \in [Bytes -> TagValues] /\ raced \subseteq Bytes
    /\ detaching \in BOOLEAN /\ crashed \in BOOLEAN
    /\ \A i \in 0 .. DIR_SZ - 1 : dir[i] <= Len(tables)
    /\ \A x \in 1 .. Len(tables), i \in 0 .. DIR_TABLE_SZ - 1 : tables[x][i] <= Len(pages)
    /\ \A i, j \in 0 .. DIR_SZ - 1 : dir[i] # NULL /\ dir[i] = dir[j] => i = j
    /\ \A x, y \in 1 .. Len(tables), i, j \in 0 .. DIR_TABLE_SZ - 1 :
          tables[x][i] # NULL /\ tables[x][i] = tables[y][j] => x = y /\ i = j

Local == [pc : Pcs, op : {"none", "set", "get"}, todo : SUBSET Nat, addr : Nat,
          tag : TagValues, table : Nat, page : Nat, acc : SUBSET UNION TagValues,
          window : SUBSET TagValues]

(* The pointers a thread holds: they are the ones in the slots of its address *)
(* or in no slot at all any more, and then the bytes of the slot are in       *)
(* raced; a thread that goes on to follow a pointer has found it to be set.   *)
PointerInv(l) ==
    /\ l \in Local
    /\ l.table <= Len(tables) /\ l.page <= Len(pages)
    /\ l.pc \in {"idle", "byte"} => l.table = NULL
    /\ l.pc \notin {"write", "gettag", "found"} => l.page = NULL
    /\ l.pc \in {"newpage", "loadpage", "write", "getpage", "gettag"} => l.table # NULL
    /\ l.pc \in {"write", "gettag"} => l.page # NULL
    /\ l.page # NULL => l.table # NULL
    /\ l.pc = "loadpage" => tables[l.table][virt2page(l.addr)] # NULL
    /\ l.table # NULL =>
          /\ \A i \in 0 .. DIR_SZ - 1 : dir[i] = l.table => i = virt2table(l.addr)
          /\ dir[virt2table(l.addr)] = l.table \/ InTable(l.addr) \subseteq raced
    /\ l.page # NULL =>
          /\ \A x \in 1 .. Len(tables), i \in 0 .. DIR_TABLE_SZ - 1 :
                tables[x][i] = l.page => x = l.table /\ i = virt2page(l.addr)
          /\ tables[l.table][virt2page(l.addr)] = l.page \/ InPage(l.addr) \subseteq raced

(* A NULL pointer is met only after an allocation failed.                     *)
NullInv(l) ==
    ~detaching =>
       /\ l.pc \in {"loadtable", "gettable"} => dir[virt2table(l.addr)] # NULL
       /\ l.pc \in {"checkpage", "getentry"} => l.table # NULL

(* The tag that a reader will find, or has found, was the byte's since the    *)
(* lookup began.                                                              *)
Reading == {"getdir", "gettable", "getentry", "getpage", "gettag", "found"}

WindowInv(l) ==
    /\ l.pc # "idle" => l.op \in {"set", "get"}
    /\ l.pc \in Reading => last[Byte(l.addr)] \in l.window
    /\ l.pc = "found" /\ Byte(l.addr) \notin raced => l.tag \in l.window

ThreadInv(l) == PointerInv(l) /\ NullInv(l) /\ WindowInv(l)

DirectoryInv ==
    /\ HeapInv
    /\ th \in [Threads -> Local] /\ \A t \in Threads : ThreadInv(th[t])
    /\ LastTagKept
    /\ FaultNeedsFailure

-----------------------------------------------------------------------------
(* A step that leaves the shared memory alone.                                *)
LEMMA HeapSame ==
    ASSUME DirectoryInv, UNCHANGED <<dir, tables, pages, last, raced>>,
           crashed' \in BOOLEAN, detaching' \in BOOLEAN
    PROVE  HeapInv' /\ LastTagKept'
<1>1. HeapInv'
  BY DEF DirectoryInv, HeapInv
<1>2. LastTagKept'
  BY DEF DirectoryInv, LastTagKept, Lookup
<1> QED BY <1>1, <1>2

(* A step that changes nothing but the thread's own variables keeps the       *)
(* invariant if they are right afterwards.                                    *)
LEMMA OwnStep ==
    ASSUME DirectoryInv, NEW t \in Threads, NEW l, ThreadInv(l), th' = [th EXCEPT ![t] = l],
           UNCHANGED <<dir, tables, pages, detaching, crashed, last, raced>>
    PROVE  DirectoryInv'
<1>1. HeapInv' /\ LastTagKept' /\ FaultNeedsFailure'
  <2>1. crashed' \in BOOLEAN /\ detaching' \in BOOLEAN
    BY DEF DirectoryInv, HeapInv
  <2>2. FaultNeedsFailure'
    BY DEF DirectoryInv, FaultNeedsFailure
  <2> QED BY <2>1, <2>2, HeapSame
<1>2. th' \in [Threads -> Local]
  BY DEF DirectoryInv, ThreadInv, PointerInv
<1>3. \A m : ThreadInv(m)' <=> ThreadInv(m)
  BY DEF ThreadInv, PointerInv, NullInv, WindowInv
<1>4. \A u \in Threads : ThreadInv(th'[u])
  BY DEF DirectoryInv
<1>5. \A u \in Threads : ThreadInv(th[u])'
  <2> SUFFICES ASSUME NEW u \in Threads PROVE ThreadInv(th[u])'
    OBVIOUS
  <2>1. PICK m : m = th'[u]
    OBVIOUS
  <2>2. ThreadInv(m)'
    BY <1>3, <1>4, <2>1
  <2> QED BY <2>1, <2>2 DEF ThreadInv, PointerInv, NullInv, WindowInv
<1> QED BY <1>1, <1>2, <1>5 DEF DirectoryInv

(* A thread that holds no pointer and is in no lookup is right.               *)
LEMMA NoPointer ==
    ASSUME HeapInv, NEW l \in Local, l.pc \in {"idle", "byte", "checkdir", "newtable"},
           l.pc # "idle" => l.op # "none", l.table = NULL, l.page = NULL
    PROVE  ThreadInv(l)
<1>1. PointerInv(l)
  BY DEF PointerInv, NULL, HeapInv
<1>2. l.op \in {"none", "set", "get"}
  BY DEF Local
<1> QED BY <1>1, <1>2 DEF ThreadInv, NullInv, WindowInv, Reading

(* So is a thread in no call.                                                 *)
LEMMA IdleOK ==
    Idle \in Local /\ Idle.pc = "idle" /\ Idle.table = NULL /\ Idle.page = NULL
BY DEF Idle, Local, Pcs, TagValues, NULL

(* The call for a byte ends with no pointer held.                             *)
LEMMA ByteDoneOK ==
    ASSUME NEW m \in Local
    PROVE  /\ ByteDone(m) \in Local /\ ByteDone(m).pc = "byte" /\ ByteDone(m).op = m.op
           /\ ByteDone(m).table = NULL /\ ByteDone(m).page = NULL
           /\ ByteDone(m).acc = m.acc /\ ByteDone(m).todo = m.todo /\ ByteDone(m).tag = m.tag
BY DEF ByteDone, Local, Pcs, NULL

(* The steps of a thread that writes nothing shared keep the invariant.       *)
LEMMA BeginSteps ==
    ASSUME DirectoryInv, NEW t \in Threads,
           \/ \E a \in Starts, n \in Lens : tagmap_set(t, a, n) \/ tagmap_clr(t, a, n) \/ tagmap_get(t, a, n)
           \/ \E a \in Starts, tag \in GivenTags : tagmap_setb_with_tags(t, a, tag)
           \/ NextByte(t) \/ Return(t)
    PROVE  DirectoryInv'
<1> DEFINE m == th[t]
<1>m. m \in Local /\ ThreadInv(m) /\ HeapInv /\ th \in [Threads -> Local]
  BY DEF DirectoryInv
<1>1. ASSUME NEW op \in {"set", "get"}, NEW a \in Starts, NEW n \in Nat, NEW tag \in TagValues,
             Begin(t, op, a, n, tag)
      PROVE  DirectoryInv'
  <2> DEFINE l == [Idle EXCEPT !.pc = "byte", !.op = op, !.todo = Span(a, n), !.tag = tag]
  <2>1. /\ th' = [th EXCEPT ![t] = l]
        /\ UNCHANGED <<dir, tables, pages, detaching, crashed, last, raced>>
    BY <1>1 DEF Begin, Heap
  <2>2. Span(a, n) \subseteq Nat
    BY TagDirectoryAssumption DEF Span
  <2>3. l \in Local /\ l.pc = "byte" /\ l.op # "none" /\ l.table = NULL /\ l.page = NULL
    BY <2>2, IdleOK DEF Local, Pcs
  <2> HIDE DEF l
  <2> QED BY <2>1, <2>3, <1>m, NoPointer, OwnStep
<1>2. ASSUME \/ \E a \in Starts, n \in Lens : tagmap_set(t, a, n) \/ tagmap_clr(t, a, n) \/ tagmap_get(t, a, n)
             \/ \E a \in Starts, tag \in GivenTags : tagmap_setb_with_tags(t, a, tag)
      PROVE  DirectoryInv'
  <2>1. set_val \in TagValues /\ cleared_val \in TagValues /\ GivenTags \subseteq TagValues
    BY DEF TagValues
  <2>2. Lens \subseteq Nat /\ 1 \in Nat
    BY TagDirectoryAssumption
  <2> QED BY <1>1, <1>2, <2>1, <2>2
          DEF tagmap_set, tagmap_clr, tagmap_get, tagmap_setb_with_tags
<1>3. ASSUME NextByte(t) PROVE DirectoryInv'
  <2> DEFINE l(a) == [m EXCEPT !.addr = a, !.todo = @ \ {a},
                         !.window = IF m.op = "get" THEN {last[Byte(a)]} ELSE {},
                         !.pc = IF m.op = "set" THEN "checkdir" ELSE "getdir"]
  <2>1. PICK a \in m.todo : th' = [th EXCEPT ![t] = l(a)]
    <3>1. PICK a \in th[t].todo :
             th' = [th EXCEPT ![t].addr = a, ![t].todo = @ \ {a},
                              ![t].window = IF th[t].op = "get" THEN {last[Byte(a)]} ELSE {},
                              ![t].pc = IF th[t].op = "set" THEN "checkdir" ELSE "getdir"]
      BY <1>3 DEF NextByte
    <3> QED BY <3>1, <1>m
  <2>2. UNCHANGED <<dir, tables, pages, detaching, crashed, last, raced>>
    BY <1>3 DEF NextByte, Heap, Rest
  <2>3. m.pc = "byte" /\ m.table = NULL /\ m.page = NULL /\ m.op \in {"set", "get"}
    BY <1>3, <1>m DEF NextByte, At, ThreadInv, PointerInv, WindowInv
  <2>4. a \in Nat /\ last[Byte(a)] \in TagValues
    BY <1>m, SlotRange DEF Local, HeapInv
  <2>5. /\ l(a) \in Local /\ l(a).table = NULL /\ l(a).page = NULL /\ l(a).addr = a
        /\ l(a).op = m.op
        /\ l(a).window = IF m.op = "get" THEN {last[Byte(a)]} ELSE {}
        /\ l(a).pc = IF m.op = "set" THEN "checkdir" ELSE "getdir"
    BY <1>m, <2>3, <2>4 DEF Local, Pcs
  <2> HIDE DEF l
  <2>6. CASE m.op = "set"
    BY <2>1, <2>2, <2>5, <2>6, <1>m, NoPointer, OwnStep
  <2>7. CASE m.op = "get"
    <3>1. PointerInv(l(a))
      BY <2>5, <2>7, <1>m DEF PointerInv, HeapInv, NULL
    <3>2. NullInv(l(a)) /\ WindowInv(l(a))
      BY <2>5, <2>7 DEF NullInv, WindowInv
    <3> QED BY <2>1, <2>2, <3>1, <3>2, OwnStep DEF ThreadInv
  <2> QED BY <2>3, <2>6, <2>7
<1>4. ASSUME Return(t) PROVE DirectoryInv'
  <2>1. /\ th' = [th EXCEPT ![t] = Idle]
        /\ UNCHANGED <<dir, tables, pages, detaching, crashed, last, raced>>
    BY <1>4 DEF Return, Heap, Rest
  <2> QED BY <2>1, <1>m, IdleOK, NoPointer, OwnStep
<1> QED BY <1>2, <1>3, <1>4

(* The tables and pages that exist hold pointers and tags.                    *)
LEMMA HeapTypes ==
    ASSUME HeapInv
    PROVE  /\ Len(tables) \in Nat /\ Len(pages) \in Nat
           /\ \A x \in 1 .. Len(tables) : tables[x] \in [0 .. DIR_TABLE_SZ - 1 -> Nat]
           /\ \A x \in 1 .. Len(tables), i \in 0 .. DIR_TABLE_SZ - 1 :
                 tables[x][i] \in Nat /\ tables[x][i] <= Len(pages)
           /\ \A x \in 1 .. Len(pages) : pages[x] \in [0 .. DIR_PAGE_SZ - 1 -> TagValues]
           /\ \A x \in 1 .. Len(pages), i \in 0 .. DIR_PAGE_SZ - 1 : pages[x][i] \in TagValues
<1>1. /\ Len(tables) \in Nat /\ Len(pages) \in Nat
      /\ \A x \in 1 .. Len(tables) : tables[x] \in [0 .. DIR_TABLE_SZ - 1 -> Nat]
      /\ \A x \in 1 .. Len(pages) : pages[x] \in [0 .. DIR_PAGE_SZ - 1 -> TagValues]
  BY DEF HeapInv
<1>2. \A x \in 1 .. Len(tables), i \in 0 .. DIR_TABLE_SZ - 1 : tables[x][i] <= Len(pages)
  BY DEF HeapInv
<1> QED BY <1>1, <1>2

(* The pointers of a thread refer to objects that exist.                      *)
LEMMA Held ==
    ASSUME HeapInv, NEW l \in Local, PointerInv(l)
    PROVE  /\ l.table # NULL => l.table \in 1 .. Len(tables)
           /\ l.page # NULL => l.page \in 1 .. Len(pages) /\ l.table \in 1 .. Len(tables)
<1>1. l.table \in Nat /\ l.page \in Nat /\ l.table <= Len(tables) /\ l.page <= Len(pages)
  BY DEF Local, PointerInv
<1>2. Len(tables) \in Nat /\ Len(pages) \in Nat
  BY HeapTypes
<1>3. l.page # NULL => l.table # NULL
  BY DEF PointerInv
<1> QED BY <1>1, <1>2, <1>3 DEF NULL

(* No two slots hold one pointer.                                             *)
LEMMA Distinct ==
    ASSUME HeapInv
    PROVE  /\ \A i, j \in 0 .. DIR_SZ - 1 : dir[i] # NULL /\ dir[i] = dir[j] => i = j
           /\ \A x, y \in 1 .. Len(tables), i, j \in 0 .. DIR_TABLE_SZ - 1 :
                 tables[x][i] # NULL /\ tables[x][i] = tables[y][j] => x = y /\ i = j
BY Zenon DEF HeapInv

(* A fault after a failed allocation keeps the invariant.                     *)
LEMMA FaultOK ==
    ASSUME DirectoryInv, NEW t \in Threads, Fault(t), detaching PROVE DirectoryInv'
<1>1. crashed' = TRUE /\ UNCHANGED <<dir, tables, pages, th, detaching, last, raced>>
  BY DEF Fault, Heap
<1>2. HeapInv' /\ LastTagKept' /\ FaultNeedsFailure'
  <2>1. crashed' \in BOOLEAN /\ detaching' \in BOOLEAN
    BY <1>1 DEF DirectoryInv, HeapInv
  <2>2. FaultNeedsFailure'
    BY <1>1 DEF FaultNeedsFailure
  <2> QED BY <1>1, <2>1, <2>2, HeapSame
<1>3. \A u \in Threads : ThreadInv(th[u])'
  BY <1>1 DEF DirectoryInv, ThreadInv, PointerInv, NullInv, WindowInv
<1> QED BY <1>1, <1>2, <1>3 DEF DirectoryInv

(* What tag_dir_getb answers for the byte of an address.                      *)
LEMMA LookupAt ==
    ASSUME NEW a \in Nat
    PROVE  /\ dir[virt2table(a)] = NULL => Lookup(Byte(a)) = cleared_val
           /\ dir[virt2table(a)] # NULL /\ tables[dir[virt2table(a)]][virt2page(a)] = NULL
                 => Lookup(Byte(a)) = cleared_val
           /\ dir[virt2table(a)] # NULL /\ tables[dir[virt2table(a)]][virt2page(a)] # NULL
                 => Lookup(Byte(a)) = pages[tables[dir[virt2table(a)]][virt2page(a)]][virt2offset(a)]
           /\ Byte(a) \in InTable(a) /\ Byte(a) \in InPage(a)
BY SameSlots, Regions DEF Lookup

(* The steps of tag_dir_setb that only read the directory.                    *)
LEMMA SetWalk ==
    ASSUME DirectoryInv, NEW t \in Threads,
           CheckDir(t) \/ LoadTable(t) \/ CheckPage(t) \/ LoadPage(t)
    PROVE  DirectoryInv'
<1> DEFINE m == th[t]
<1>m. m \in Local /\ ThreadInv(m) /\ HeapInv /\ th \in [Threads -> Local]
  BY DEF DirectoryInv
<1>r. virt2table(m.addr) \in 0 .. DIR_SZ - 1 /\ virt2page(m.addr) \in 0 .. DIR_TABLE_SZ - 1
  BY <1>m, SlotRange DEF Local
<1>1. ASSUME CheckDir(t) PROVE DirectoryInv'
  <2> DEFINE p == IF dir[virt2table(m.addr)] = NULL THEN "newtable" ELSE "loadtable"
             l == [m EXCEPT !.pc = p]
  <2>1. /\ m.pc = "checkdir" /\ th' = [th EXCEPT ![t] = l]
        /\ UNCHANGED <<dir, tables, pages, detaching, crashed, last, raced>>
    BY <1>1, <1>m DEF CheckDir, At, Goto, DirSlot, Heap, Rest
  <2>2. /\ l \in Local /\ l.pc = p /\ l.op = m.op /\ l.addr = m.addr /\ l.table = m.table
        /\ l.page = m.page
    BY <1>m DEF Local, Pcs
  <2> HIDE DEF l
  <2>3. PointerInv(l)
    BY <2>1, <2>2, <1>m DEF ThreadInv, PointerInv
  <2>4. NullInv(l) /\ WindowInv(l)
    BY <2>1, <2>2, <1>m DEF ThreadInv, NullInv, WindowInv, Reading
  <2> QED BY <2>1, <2>3, <2>4, OwnStep DEF ThreadInv
<1>2. ASSUME LoadTable(t) PROVE DirectoryInv'
  <2> DEFINE l == [m EXCEPT !.table = dir[virt2table(m.addr)], !.pc = "checkpage"]
  <2>1. /\ m.pc = "loadtable" /\ th' = [th EXCEPT ![t] = l]
        /\ UNCHANGED <<dir, tables, pages, detaching, crashed, last, raced>>
    BY <1>2, <1>m DEF LoadTable, At, DirSlot, Heap, Rest
  <2>2. /\ l \in Local /\ l.pc = "checkpage" /\ l.op = m.op /\ l.addr = m.addr
        /\ l.table = dir[virt2table(m.addr)] /\ l.page = m.page
    BY <1>m, <1>r DEF Local, Pcs, HeapInv
  <2> HIDE DEF l
  <2>3. PointerInv(l)
    BY <2>1, <2>2, <1>m, <1>r DEF ThreadInv, PointerInv, HeapInv
  <2>4. NullInv(l) /\ WindowInv(l)
    BY <2>1, <2>2, <1>m DEF ThreadInv, NullInv, WindowInv, Reading
  <2> QED BY <2>1, <2>3, <2>4, OwnStep DEF ThreadInv
<1>3. ASSUME CheckPage(t), m.table # NULL PROVE DirectoryInv'
  <2> DEFINE p == IF tables[m.table][virt2page(m.addr)] = NULL THEN "newpage" ELSE "loadpage"
             l == [m EXCEPT !.pc = p]
  <2>1. /\ m.pc = "checkpage" /\ th' = [th EXCEPT ![t] = l]
        /\ UNCHANGED <<dir, tables, pages, detaching, crashed, last, raced>>
    BY <1>3, <1>m DEF CheckPage, Fault, At, Goto, PageSlot, Heap, Rest
  <2>2. /\ l \in Local /\ l.pc = p /\ l.op = m.op /\ l.addr = m.addr /\ l.table = m.table
        /\ l.page = m.page
    BY <1>m DEF Local, Pcs
  <2> HIDE DEF l
  <2>3. PointerInv(l)
    BY <1>3, <2>1, <2>2, <1>m DEF ThreadInv, PointerInv
  <2>4. NullInv(l) /\ WindowInv(l)
    BY <2>1, <2>2, <1>m DEF ThreadInv, NullInv, WindowInv, Reading
  <2> QED BY <2>1, <2>3, <2>4, OwnStep DEF ThreadInv
<1>4. ASSUME CheckPage(t), m.table = NULL PROVE DirectoryInv'
  <2>1. m.pc = "checkpage" /\ Fault(t)
    BY <1>4 DEF CheckPage, At
  <2>2. detaching
    BY <1>4, <2>1, <1>m DEF ThreadInv, NullInv
  <2> QED BY <2>1, <2>2, FaultOK
<1>5. ASSUME LoadPage(t) PROVE DirectoryInv'
  <2> DEFINE l == [m EXCEPT !.page = tables[m.table][virt2page(m.addr)], !.pc = "write"]
  <2>1. /\ m.pc = "loadpage" /\ th' = [th EXCEPT ![t] = l]
        /\ UNCHANGED <<dir, tables, pages, detaching, crashed, last, raced>>
    BY <1>5, <1>m DEF LoadPage, At, PageSlot, Heap, Rest
  <2>2. /\ m.table \in 1 .. Len(tables) /\ tables[m.table][virt2page(m.addr)] # NULL
        /\ tables[m.table][virt2page(m.addr)] \in Nat
        /\ tables[m.table][virt2page(m.addr)] <= Len(pages)
    BY <2>1, <1>m, <1>r, Held, HeapTypes DEF ThreadInv, PointerInv
  <2>3. /\ l \in Local /\ l.pc = "write" /\ l.op = m.op /\ l.addr = m.addr
        /\ l.table = m.table /\ l.page = tables[m.table][virt2page(m.addr)]
    BY <1>m, <2>2 DEF Local, Pcs
  <2> HIDE DEF l
  <2>4. PointerInv(l)
    <3>1. \A x \in 1 .. Len(tables), i \in 0 .. DIR_TABLE_SZ - 1 :
             tables[x][i] = l.page => x = l.table /\ i = virt2page(l.addr)
      BY <2>2, <2>3, <1>m, <1>r, Distinct
    <3> QED BY <2>1, <2>2, <2>3, <3>1, <1>m DEF ThreadInv, PointerInv
  <2>5. NullInv(l) /\ WindowInv(l)
    BY <2>1, <2>3, <1>m DEF ThreadInv, NullInv, WindowInv, Reading
  <2> QED BY <2>1, <2>4, <2>5, OwnStep DEF ThreadInv
<1> QED BY <1>1, <1>2, <1>3, <1>4, <1>5

(* The steps of tag_dir_getb, and the combining of what it answered.          *)
LEMMA GetWalk ==
    ASSUME DirectoryInv, NEW t \in Threads,
           GetDir(t) \/ GetTable(t) \/ GetEntry(t) \/ GetPage(t) \/ GetTag(t) \/ Combine(t)
    PROVE  DirectoryInv'
<1> DEFINE m == th[t]
<1>m. m \in Local /\ ThreadInv(m) /\ HeapInv /\ th \in [Threads -> Local]
  BY DEF DirectoryInv
<1>r. /\ m.addr \in Nat /\ Byte(m.addr) \in Bytes
      /\ virt2table(m.addr) \in 0 .. DIR_SZ - 1 /\ virt2page(m.addr) \in 0 .. DIR_TABLE_SZ - 1
      /\ virt2offset(m.addr) \in 0 .. DIR_PAGE_SZ - 1
  BY <1>m, SlotRange DEF Local
<1>c. cleared_val \in TagValues
  BY DEF TagValues
<1>l. Byte(m.addr) \notin raced => Lookup(Byte(m.addr)) = last[Byte(m.addr)]
  BY <1>r DEF DirectoryInv, LastTagKept
<1>f. ASSUME NEW tag \in TagValues, Found(t, tag), m.pc \in Reading,
             UNCHANGED <<dir, tables, pages, detaching, crashed, last, raced>>,
             Byte(m.addr) \notin raced => tag = last[Byte(m.addr)],
             m.pc # "gettag" => m.page = NULL
      PROVE  DirectoryInv'
  <2> DEFINE l == [m EXCEPT !.tag = tag, !.pc = "found"]
  <2>1. th' = [th EXCEPT ![t] = l]
    BY <1>f, <1>m DEF Found
  <2>2. /\ l \in Local /\ l.pc = "found" /\ l.op = m.op /\ l.addr = m.addr /\ l.tag = tag
        /\ l.table = m.table /\ l.page = m.page /\ l.window = m.window
    BY <1>f, <1>m DEF Local, Pcs
  <2> HIDE DEF l
  <2>3. PointerInv(l)
    BY <2>2, <1>m DEF ThreadInv, PointerInv
  <2>4. NullInv(l) /\ WindowInv(l)
    BY <1>f, <2>2, <1>m DEF ThreadInv, NullInv, WindowInv, Reading
  <2> QED BY <1>f, <2>1, <2>3, <2>4, OwnStep DEF ThreadInv
<1>g. ASSUME NEW p \in {"gettable", "getpage"}, Goto(t, p), m.pc \in Reading \ {"gettag", "found"},
             UNCHANGED <<dir, tables, pages, detaching, crashed, last, raced>>,
             p = "gettable" => dir[virt2table(m.addr)] # NULL,
             p = "getpage" => m.table # NULL
      PROVE  DirectoryInv'
  <2> DEFINE l == [m EXCEPT !.pc = p]
  <2>1. th' = [th EXCEPT ![t] = l]
    BY <1>g, <1>m DEF Goto
  <2>2. /\ l \in Local /\ l.pc = p /\ l.op = m.op /\ l.addr = m.addr
        /\ l.table = m.table /\ l.page = m.page /\ l.window = m.window
    BY <1>m DEF Local, Pcs
  <2> HIDE DEF l
  <2>3. PointerInv(l)
    BY <1>g, <2>2, <1>m DEF ThreadInv, PointerInv, Reading
  <2>4. NullInv(l) /\ WindowInv(l)
    BY <1>g, <2>2, <1>m DEF ThreadInv, NullInv, WindowInv, Reading
  <2> QED BY <1>g, <2>1, <2>3, <2>4, OwnStep DEF ThreadInv
<1>1. ASSUME GetDir(t) PROVE DirectoryInv'
  <2>1. /\ m.pc = "getdir" /\ UNCHANGED <<dir, tables, pages, detaching, crashed, last, raced>>
        /\ \/ dir[virt2table(m.addr)] = NULL /\ Found(t, cleared_val)
           \/ dir[virt2table(m.addr)] # NULL /\ Goto(t, "gettable")
    BY <1>1 DEF GetDir, At, DirSlot, Heap, Rest
  <2>2. m.page = NULL
    BY <2>1, <1>m DEF ThreadInv, PointerInv
  <2>3. CASE dir[virt2table(m.addr)] = NULL /\ Found(t, cleared_val)
    BY <2>1, <2>2, <2>3, <1>c, <1>f, <1>l, <1>r, LookupAt DEF Reading
  <2>4. CASE dir[virt2table(m.addr)] # NULL /\ Goto(t, "gettable")
    BY <2>1, <2>4, <1>g DEF Reading
  <2> QED BY <2>1, <2>3, <2>4
<1>2. ASSUME GetTable(t) PROVE DirectoryInv'
  <2> DEFINE l == [m EXCEPT !.table = dir[virt2table(m.addr)], !.pc = "getentry"]
  <2>1. /\ m.pc = "gettable" /\ th' = [th EXCEPT ![t] = l]
        /\ UNCHANGED <<dir, tables, pages, detaching, crashed, last, raced>>
    BY <1>2, <1>m DEF GetTable, At, DirSlot, Heap, Rest
  <2>2. /\ l \in Local /\ l.pc = "getentry" /\ l.op = m.op /\ l.addr = m.addr
        /\ l.table = dir[virt2table(m.addr)] /\ l.page = m.page /\ l.window = m.window
    BY <1>m, <1>r DEF Local, Pcs, HeapInv
  <2> HIDE DEF l
  <2>3. PointerInv(l)
    BY <2>1, <2>2, <1>m, <1>r DEF ThreadInv, PointerInv, HeapInv
  <2>4. NullInv(l) /\ WindowInv(l)
    BY <2>1, <2>2, <1>m DEF ThreadInv, NullInv, WindowInv, Reading
  <2> QED BY <2>1, <2>3, <2>4, OwnStep DEF ThreadInv
<1>3. ASSUME GetEntry(t) PROVE DirectoryInv'
  <2>1. /\ m.pc = "getentry"
        /\ \/ m.table = NULL /\ Fault(t)
           \/ /\ m.table # NULL
              /\ UNCHANGED <<dir, tables, pages, detaching, crashed, last, raced>>
              /\ \/ tables[m.table][virt2page(m.addr)] = NULL /\ Found(t, cleared_val)
                 \/ tables[m.table][virt2page(m.addr)] # NULL /\ Goto(t, "getpage")
    BY <1>3 DEF GetEntry, At, PageSlot, Heap, Rest
  <2>2. CASE m.table = NULL /\ Fault(t)
    <3>1. detaching
      BY <2>1, <2>2, <1>m DEF ThreadInv, NullInv
    <3> QED BY <2>2, <3>1, FaultOK
  <2>3. CASE m.table # NULL /\ tables[m.table][virt2page(m.addr)] = NULL /\ Found(t, cleared_val)
    <3>1. m.page = NULL /\ (Byte(m.addr) \notin raced => dir[virt2table(m.addr)] = m.table)
      BY <2>1, <2>3, <1>m, <1>r, LookupAt DEF ThreadInv, PointerInv
    <3>2. Byte(m.addr) \notin raced => last[Byte(m.addr)] = cleared_val
      BY <2>3, <3>1, <1>l, <1>r, LookupAt
    <3> QED BY <2>1, <2>3, <3>1, <3>2, <1>c, <1>f DEF Fault, Reading
  <2>4. CASE m.table # NULL /\ tables[m.table][virt2page(m.addr)] # NULL /\ Goto(t, "getpage")
    BY <2>1, <2>4, <1>g DEF Reading
  <2> QED BY <2>1, <2>2, <2>3, <2>4
<1>4. ASSUME GetPage(t) PROVE DirectoryInv'
  <2> DEFINE page == tables[m.table][virt2page(m.addr)]
             l == [m EXCEPT !.page = page, !.pc = "gettag"]
  <2>1. /\ m.pc = "getpage" /\ UNCHANGED <<dir, tables, pages, detaching, crashed, last, raced>>
        /\ \/ page = NULL /\ Found(t, cleared_val)
           \/ page # NULL /\ th' = [th EXCEPT ![t] = l]
    BY <1>4, <1>m DEF GetPage, At, PageSlot, Heap, Rest
  <2>2. /\ m.table # NULL /\ m.table \in 1 .. Len(tables) /\ page \in Nat /\ m.page = NULL
        /\ page <= Len(pages)
        /\ Byte(m.addr) \notin raced => dir[virt2table(m.addr)] = m.table
    BY <2>1, <1>m, <1>r, LookupAt, Held, HeapTypes DEF ThreadInv, PointerInv
  <2>3. CASE page = NULL /\ Found(t, cleared_val)
    <3>1. Byte(m.addr) \notin raced => last[Byte(m.addr)] = cleared_val
      BY <2>2, <2>3, <1>l, <1>r, LookupAt
    <3> QED BY <2>1, <2>2, <2>3, <3>1, <1>c, <1>f DEF Reading
  <2>4. CASE page # NULL /\ th' = [th EXCEPT ![t] = l]
    <3>1. /\ l \in Local /\ l.pc = "gettag" /\ l.op = m.op /\ l.addr = m.addr
          /\ l.table = m.table /\ l.page = page /\ l.window = m.window
      BY <1>m, <2>2 DEF Local, Pcs
    <3> HIDE DEF l
    <3>4. \A x \in 1 .. Len(tables), i \in 0 .. DIR_TABLE_SZ - 1 :
             tables[x][i] = page => x = m.table /\ i = virt2page(m.addr)
      BY <2>2, <2>4, <1>m, <1>r, Distinct
    <3>2. PointerInv(l)
      BY <2>1, <2>2, <2>4, <3>1, <3>4, <1>m, <1>r DEF ThreadInv, PointerInv
    <3>3. NullInv(l) /\ WindowInv(l)
      BY <2>1, <3>1, <1>m DEF ThreadInv, NullInv, WindowInv, Reading
    <3> QED BY <2>1, <2>4, <3>2, <3>3, OwnStep DEF ThreadInv
  <2> QED BY <2>1, <2>3, <2>4
<1>5. ASSUME GetTag(t) PROVE DirectoryInv'
  <2> DEFINE tag == pages[m.page][virt2offset(m.addr)]
  <2>1. /\ m.pc = "gettag" /\ UNCHANGED <<dir, tables, pages, detaching, crashed, last, raced>>
        /\ Found(t, tag)
    BY <1>5 DEF GetTag, At, Heap, Rest
  <2>2. /\ m.table # NULL /\ m.page # NULL /\ m.page \in 1 .. Len(pages)
        /\ Byte(m.addr) \notin raced => dir[virt2table(m.addr)] = m.table
        /\ Byte(m.addr) \notin raced => tables[m.table][virt2page(m.addr)] = m.page
    BY <2>1, <1>m, <1>r, LookupAt, Held DEF ThreadInv, PointerInv
  <2>3. tag \in TagValues
    BY <2>2, <1>m, <1>r, HeapTypes
  <2>4. Byte(m.addr) \notin raced => tag = last[Byte(m.addr)]
    BY <2>2, <1>l, <1>r, LookupAt
  <2> QED BY <2>1, <2>3, <2>4, <1>f DEF Reading
<1>6. ASSUME Combine(t) PROVE DirectoryInv'
  <2> DEFINE l == [ByteDone(m) EXCEPT !.acc = m.acc \cup m.tag, !.tag = cleared_val]
  <2>1. /\ m.pc = "found" /\ th' = [th EXCEPT ![t] = l]
        /\ UNCHANGED <<dir, tables, pages, detaching, crashed, last, raced>>
    BY <1>6, <1>m DEF Combine, At, Heap, Rest
  <2>2. m.acc \cup m.tag \in SUBSET UNION TagValues
    BY <1>m DEF Local
  <2>3. /\ l \in Local /\ l.pc = "byte" /\ l.op = m.op /\ l.table = NULL /\ l.page = NULL
    <3> DEFINE d == ByteDone(m)
    <3>1. d \in Local /\ d.pc = "byte" /\ d.op = m.op /\ d.table = NULL /\ d.page = NULL
      BY <1>m, ByteDoneOK
    <3> HIDE DEF d
    <3>2. l = [d EXCEPT !.acc = m.acc \cup m.tag, !.tag = cleared_val]
      BY DEF d
    <3> HIDE DEF l
    <3> QED BY <1>c, <2>2, <3>1, <3>2 DEF Local
  <2>4. m.op # "none"
    BY <2>1, <1>m DEF ThreadInv, WindowInv
  <2> HIDE DEF l
  <2> QED BY <2>1, <2>3, <2>4, <1>m, NoPointer, OwnStep
<1> QED BY <1>1, <1>2, <1>3, <1>4, <1>5, <1>6

(* What the step that stores a table pointer does: a new table is empty, the  *)
(* old ones stay, and a NULL is stored only by a failed allocation.           *)
LEMMA TableStored ==
    ASSUME DirectoryInv, NEW t \in Threads, PublishTable(t) \/ TableFails(t)
    PROVE  LET k == virt2table(th[t].addr)
               ptr == dir'[k]
           IN  /\ th[t].pc = "newtable" /\ ~crashed
               /\ th' = [th EXCEPT ![t] = [th[t] EXCEPT !.pc = "loadtable"]]
               /\ UNCHANGED <<pages, last, crashed>>
               /\ dir' = [dir EXCEPT ![k] = ptr]
               /\ raced' = IF dir[k] = NULL THEN raced ELSE raced \cup InTable(th[t].addr)
               /\ tables' \in Seq([0 .. DIR_TABLE_SZ - 1 -> Nat]) /\ detaching' \in BOOLEAN
               /\ Len(tables') >= Len(tables)
               /\ \A x \in 1 .. Len(tables) : tables'[x] = tables[x]
               /\ \A x \in 1 .. Len(tables') : x \notin 1 .. Len(tables) =>
                     \A i \in 0 .. DIR_TABLE_SZ - 1 : tables'[x][i] = NULL
               /\ ptr # NULL => ptr \in 1 .. Len(tables') /\ ptr \notin 1 .. Len(tables)
               /\ ~detaching' => ~detaching /\ ptr # NULL
<1> DEFINE m == th[t]  k == virt2table(m.addr)  n == Len(tables)
           empty == [i \in 0 .. DIR_TABLE_SZ - 1 |-> NULL]
<1>m. m \in Local /\ HeapInv /\ th \in [Threads -> Local]
  BY DEF DirectoryInv
<1>k. k \in 0 .. DIR_SZ - 1 /\ dir \in [0 .. DIR_SZ - 1 -> Nat]
  BY <1>m, SlotRange DEF Local, HeapInv
<1>n. n \in Nat /\ tables \in Seq([0 .. DIR_TABLE_SZ - 1 -> Nat]) /\ detaching \in BOOLEAN
  BY <1>m DEF HeapInv
<1>e. empty \in [0 .. DIR_TABLE_SZ - 1 -> Nat] /\ \A i \in 0 .. DIR_TABLE_SZ - 1 : empty[i] = NULL
  BY DEF NULL
<1>1. CASE PublishTable(t)
  <2>1. /\ m.pc = "newtable" /\ ~crashed /\ UNCHANGED <<pages, last, crashed, detaching>>
        /\ tables' = Append(tables, empty)
        /\ dir' = [dir EXCEPT ![k] = n + 1]
        /\ raced' = IF dir[k] = NULL THEN raced ELSE raced \cup InTable(m.addr)
    BY <1>1 DEF PublishTable, At, PutTable, DirSlot
  <2>2. th' = [th EXCEPT ![t] = [m EXCEPT !.pc = "loadtable"]]
    BY <1>1, <1>m DEF PublishTable, PutTable, Goto
  <2> HIDE DEF empty
  <2>3. /\ tables' \in Seq([0 .. DIR_TABLE_SZ - 1 -> Nat]) /\ Len(tables') = n + 1
        /\ tables'[n + 1] = empty
        /\ \A x \in 1 .. n : tables'[x] = tables[x]
    BY <2>1, <1>n, <1>e
  <2>4. dir'[k] = n + 1 /\ n + 1 # NULL
    BY <2>1, <1>k, <1>n DEF NULL
  <2>5. \A x \in 1 .. Len(tables') : x \notin 1 .. n => x = n + 1
    BY <2>3, <1>n
  <2>6. Len(tables') >= n /\ n + 1 \in 1 .. Len(tables') /\ n + 1 \notin 1 .. n
    BY <2>3, <1>n
  <2>7. dir' = [dir EXCEPT ![k] = dir'[k]]
    BY <2>1, <2>4
  <2>8. \A x \in 1 .. Len(tables') : x \notin 1 .. n =>
           \A i \in 0 .. DIR_TABLE_SZ - 1 : tables'[x][i] = NULL
    BY <2>3, <2>5, <1>e
  <2>9. dir'[k] # NULL => dir'[k] \in 1 .. Len(tables') /\ dir'[k] \notin 1 .. n
    BY <2>4, <2>6
  <2>10. ~detaching' => ~detaching /\ dir'[k] # NULL
    BY <2>1, <2>4
  <2> QED BY <2>1, <2>2, <2>3, <2>6, <2>7, <2>8, <2>9, <2>10, <1>n
<1>2. CASE TableFails(t)
  <2>1. /\ m.pc = "newtable" /\ ~crashed /\ UNCHANGED <<tables, pages, last, crashed>>
        /\ dir' = [dir EXCEPT ![k] = NULL] /\ detaching' = TRUE
        /\ raced' = IF dir[k] = NULL THEN raced ELSE raced \cup InTable(m.addr)
    BY <1>2 DEF TableFails, At, PutTable, DirSlot, libdft_die
  <2>2. th' = [th EXCEPT ![t] = [m EXCEPT !.pc = "loadtable"]]
    BY <1>2, <1>m DEF TableFails, PutTable, Goto
  <2>3. dir'[k] = NULL /\ dir' = [dir EXCEPT ![k] = dir'[k]]
    BY <2>1, <1>k
  <2>4. /\ tables' \in Seq([0 .. DIR_TABLE_SZ - 1 -> Nat]) /\ detaching' \in BOOLEAN
        /\ Len(tables') >= n /\ Len(tables') = n /\ \A x \in 1 .. n : tables'[x] = tables[x]
    BY <2>1, <1>n
  <2> QED BY <2>1, <2>2, <2>3, <2>4
<1> QED BY <1>1, <1>2

(* Storing a table pointer clears the bytes of the table and no other; they   *)
(* were clear already if the slot was empty.                                  *)
LEMMA TableLookup ==
    ASSUME DirectoryInv, NEW t \in Threads, PublishTable(t) \/ TableFails(t), NEW b \in Bytes
    PROVE  /\ Lookup(b)' = IF b \in InTable(th[t].addr) THEN cleared_val ELSE Lookup(b)
           /\ dir[virt2table(th[t].addr)] = NULL /\ b \in InTable(th[t].addr)
                 => Lookup(b) = cleared_val
<1> DEFINE m == th[t]  k == virt2table(m.addr)  j == virt2table(b)
<1>m. m \in Local /\ HeapInv /\ m.addr \in Nat /\ b \in Nat
  BY BytesDiffer DEF DirectoryInv, Local
<1>k. /\ k \in 0 .. DIR_SZ - 1 /\ j \in 0 .. DIR_SZ - 1 /\ virt2page(b) \in 0 .. DIR_TABLE_SZ - 1
      /\ dir \in [0 .. DIR_SZ - 1 -> Nat]
  BY <1>m, SlotRange DEF HeapInv
<1>1. b \in InTable(m.addr) <=> j = k
  BY <1>m, Regions
<1>2. /\ dir' = [dir EXCEPT ![k] = dir'[k]] /\ pages' = pages
      /\ \A x \in 1 .. Len(tables) : tables'[x] = tables[x]
      /\ \A x \in 1 .. Len(tables') : x \notin 1 .. Len(tables) =>
            \A i \in 0 .. DIR_TABLE_SZ - 1 : tables'[x][i] = NULL
      /\ dir'[k] # NULL => dir'[k] \in 1 .. Len(tables') /\ dir'[k] \notin 1 .. Len(tables)
  BY TableStored
<1>3. CASE j = k
  <2>1. dir[k] = NULL => Lookup(b) = cleared_val
    BY <1>3 DEF Lookup
  <2>2. dir'[k] = NULL => Lookup(b)' = cleared_val
    BY <1>3 DEF Lookup
  <2>3. dir'[k] # NULL => tables'[dir'[k]][virt2page(b)] = NULL
    BY <1>2, <1>k
  <2>4. dir'[k] # NULL => Lookup(b)' = cleared_val
    BY <1>3, <2>3 DEF Lookup
  <2> QED BY <1>1, <1>3, <2>1, <2>2, <2>4
<1>4. CASE j # k
  <2>1. dir'[j] = dir[j]
    BY <1>2, <1>4, <1>k
  <2>2. dir[j] # NULL => dir[j] \in 1 .. Len(tables)
    <3>1. dir[j] \in Nat /\ dir[j] <= Len(tables) /\ Len(tables) \in Nat
      BY <1>k, <1>m, HeapTypes DEF HeapInv
    <3> QED BY <3>1 DEF NULL
  <2>3. dir[j] # NULL => tables'[dir[j]] = tables[dir[j]]
    BY <1>2, <2>2
  <2>4. Lookup(b)' = Lookup(b)
    BY <1>2, <2>1, <2>3 DEF Lookup
  <2> QED BY <1>1, <1>4, <2>4
<1> QED BY <1>3, <1>4

(* The step that stores a table pointer keeps the invariant.                  *)
LEMMA TableStep ==
    ASSUME DirectoryInv, NEW t \in Threads, PublishTable(t) \/ TableFails(t)
    PROVE  DirectoryInv'
<1> DEFINE m == th[t]  k == virt2table(m.addr)  ptr == dir'[k]
           l0 == [m EXCEPT !.pc = "loadtable"]
<1>m. m \in Local /\ ThreadInv(m) /\ HeapInv /\ m.addr \in Nat /\ th \in [Threads -> Local]
  BY DEF DirectoryInv, Local
<1>k. /\ k \in 0 .. DIR_SZ - 1 /\ dir \in [0 .. DIR_SZ - 1 -> Nat] /\ InTable(m.addr) \subseteq Bytes
      /\ \A i \in 0 .. DIR_SZ - 1 : dir[i] \in Nat /\ dir[i] <= Len(tables)
  BY <1>m, SlotRange, Regions DEF HeapInv
<1>n. Len(tables) \in Nat
  BY <1>m, HeapTypes
<1>1. /\ m.pc = "newtable" /\ ~crashed
      /\ th' = [th EXCEPT ![t] = l0]
      /\ UNCHANGED <<pages, last, crashed>>
      /\ dir' = [dir EXCEPT ![k] = ptr]
      /\ raced' = IF dir[k] = NULL THEN raced ELSE raced \cup InTable(m.addr)
      /\ tables' \in Seq([0 .. DIR_TABLE_SZ - 1 -> Nat]) /\ detaching' \in BOOLEAN
      /\ Len(tables') >= Len(tables)
      /\ \A x \in 1 .. Len(tables) : tables'[x] = tables[x]
      /\ \A x \in 1 .. Len(tables') : x \notin 1 .. Len(tables) =>
            \A i \in 0 .. DIR_TABLE_SZ - 1 : tables'[x][i] = NULL
      /\ ptr # NULL => ptr \in 1 .. Len(tables') /\ ptr \notin 1 .. Len(tables)
      /\ ~detaching' => ~detaching /\ ptr # NULL
  BY TableStored
<1>2. Len(tables') \in Nat /\ ptr \in Nat /\ ptr <= Len(tables') /\ (ptr # NULL => ptr > Len(tables))
  BY <1>1, <1>n DEF NULL
<1> HIDE DEF ptr, l0
<1>3. dir'[k] = ptr /\ \A i \in 0 .. DIR_SZ - 1 : i # k => dir'[i] = dir[i]
  BY <1>1, <1>k
<1>4. /\ \A x \in 1 .. Len(tables), i \in 0 .. DIR_TABLE_SZ - 1 :
            x \in 1 .. Len(tables') /\ tables'[x][i] = tables[x][i]
      /\ \A x \in 1 .. Len(tables'), i \in 0 .. DIR_TABLE_SZ - 1 :
            tables'[x][i] # NULL => x \in 1 .. Len(tables) /\ tables'[x][i] = tables[x][i]
  BY <1>1, <1>2, <1>n
<1>5. HeapInv'
  <2>1. /\ dir' \in [0 .. DIR_SZ - 1 -> Nat] /\ raced' \subseteq Bytes
        /\ pages' \in Seq([0 .. DIR_PAGE_SZ - 1 -> TagValues]) /\ last' \in [Bytes -> TagValues]
        /\ crashed' \in BOOLEAN
    BY <1>1, <1>2, <1>k, <1>m DEF HeapInv
  <2>2. \A i \in 0 .. DIR_SZ - 1 : dir'[i] <= Len(tables')
    BY <1>1, <1>2, <1>3, <1>k, <1>n
  <2>3. \A x \in 1 .. Len(tables'), i \in 0 .. DIR_TABLE_SZ - 1 : tables'[x][i] <= Len(pages')
    <3>1. \A x \in 1 .. Len(tables), i \in 0 .. DIR_TABLE_SZ - 1 : tables[x][i] <= Len(pages')
      BY <1>1, <1>m, HeapTypes
    <3>2. Len(pages') \in Nat
      BY <1>1, <1>m, HeapTypes
    <3> QED BY <1>4, <3>1, <3>2 DEF NULL
  <2>4. \A i, j \in 0 .. DIR_SZ - 1 : dir'[i] # NULL /\ dir'[i] = dir'[j] => i = j
    BY <1>2, <1>3, <1>k, <1>n, <1>m DEF HeapInv
  <2>5. \A x, y \in 1 .. Len(tables'), i, j \in 0 .. DIR_TABLE_SZ - 1 :
           tables'[x][i] # NULL /\ tables'[x][i] = tables'[y][j] => x = y /\ i = j
    <3> SUFFICES ASSUME NEW x \in 1 .. Len(tables'), NEW y \in 1 .. Len(tables'),
                        NEW i \in 0 .. DIR_TABLE_SZ - 1, NEW j \in 0 .. DIR_TABLE_SZ - 1,
                        tables'[x][i] # NULL, tables'[x][i] = tables'[y][j]
                 PROVE  x = y /\ i = j
      OBVIOUS
    <3>1. /\ x \in 1 .. Len(tables) /\ y \in 1 .. Len(tables)
          /\ tables[x][i] # NULL /\ tables[x][i] = tables[y][j]
      BY <1>4
    <3> QED BY <1>m, <3>1, Distinct
  <2>6. tables' \in Seq([0 .. DIR_TABLE_SZ - 1 -> Nat]) /\ detaching' \in BOOLEAN
    BY <1>1
  <2> QED BY <2>1, <2>2, <2>3, <2>4, <2>5, <2>6 DEF HeapInv
<1>6. ASSUME NEW l \in Local, PointerInv(l) PROVE PointerInv(l)'
  <2>1. /\ l.addr \in Nat /\ virt2table(l.addr) \in 0 .. DIR_SZ - 1
        /\ virt2page(l.addr) \in 0 .. DIR_TABLE_SZ - 1
    BY SlotRange DEF Local
  <2>2. l.table # NULL => l.table \in 1 .. Len(tables)
    BY <1>6, <1>m, Held
  <2>3. l.table <= Len(tables') /\ l.page <= Len(pages')
    <3>1. l.table \in Nat /\ l.table <= Len(tables) /\ l.page <= Len(pages)
      BY <1>6 DEF Local, PointerInv
    <3>2. Len(tables) <= Len(tables') /\ pages' = pages
      BY <1>1, <1>2, <1>n
    <3> QED BY <1>2, <1>n, <3>1, <3>2
  <2>4. ASSUME l.table # NULL
        PROVE  /\ \A i \in 0 .. DIR_SZ - 1 : dir'[i] = l.table => i = virt2table(l.addr)
               /\ dir'[virt2table(l.addr)] = l.table \/ InTable(l.addr) \subseteq raced'
    <3>1. ptr # l.table
      BY <1>2, <2>2, <2>4, <1>n
    <3>2. virt2table(l.addr) = k => InTable(l.addr) = InTable(m.addr)
      BY <2>1, <1>m, Regions
    <3> QED BY <1>1, <1>3, <1>6, <2>1, <2>4, <3>1, <3>2 DEF PointerInv
  <2>5. ASSUME l.page # NULL
        PROVE  /\ \A x \in 1 .. Len(tables'), i \in 0 .. DIR_TABLE_SZ - 1 :
                     tables'[x][i] = l.page => x = l.table /\ i = virt2page(l.addr)
               /\ tables'[l.table][virt2page(l.addr)] = l.page \/ InPage(l.addr) \subseteq raced'
    <3>1. l.table \in 1 .. Len(tables)
      BY <1>6, <1>m, <2>5, Held
    <3>2. raced \subseteq raced'
      BY <1>1
    <3>3. /\ \A x \in 1 .. Len(tables), i \in 0 .. DIR_TABLE_SZ - 1 :
                tables[x][i] = l.page => x = l.table /\ i = virt2page(l.addr)
          /\ tables[l.table][virt2page(l.addr)] = l.page \/ InPage(l.addr) \subseteq raced
      BY <1>6, <2>5 DEF PointerInv
    <3>4. tables'[l.table][virt2page(l.addr)] = tables[l.table][virt2page(l.addr)]
      BY <1>4, <2>1, <3>1
    <3>5. \A x \in 1 .. Len(tables'), i \in 0 .. DIR_TABLE_SZ - 1 :
             tables'[x][i] = l.page => x \in 1 .. Len(tables) /\ tables[x][i] = l.page
      BY <1>4, <2>5
    <3> QED BY <3>2, <3>3, <3>4, <3>5
  <2>6. l.pc = "loadpage" => tables'[l.table][virt2page(l.addr)] # NULL
    BY <1>4, <1>6, <2>1, <2>2 DEF PointerInv
  <2> QED BY <1>6, <2>3, <2>4, <2>5, <2>6 DEF PointerInv
<1>7. ASSUME NEW l \in Local, NullInv(l) PROVE NullInv(l)'
  <2>1. virt2table(l.addr) \in 0 .. DIR_SZ - 1
    BY SlotRange DEF Local
  <2> QED BY <1>1, <1>3, <1>7, <2>1 DEF NullInv
<1>8. ASSUME NEW l \in Local, WindowInv(l) PROVE WindowInv(l)'
  BY <1>1, <1>8 DEF WindowInv
<1>9. /\ l0 \in Local /\ l0.pc = "loadtable" /\ l0.op = m.op /\ l0.addr = m.addr
      /\ l0.table = m.table /\ l0.page = m.page
  BY <1>m DEF Local, Pcs, l0
<1>10. PointerInv(l0) /\ WindowInv(l0)
  BY <1>1, <1>9, <1>m DEF ThreadInv, PointerInv, WindowInv, Reading
<1>11. PICK l1 \in Local : l1 = l0
  BY <1>9
<1>12. ThreadInv(l1)'
  <2>1. PointerInv(l1) /\ WindowInv(l1)
    BY <1>10, <1>11
  <2>2. l1.pc = "loadtable" /\ l1.addr = m.addr
    BY <1>9, <1>11
  <2>3. NullInv(l1)'
    BY <1>1, <1>3, <2>2 DEF NullInv
  <2> QED BY <1>6, <1>8, <1>11, <2>1, <2>3 DEF ThreadInv
<1>13. \A u \in Threads : ThreadInv(th[u])'
  <2> SUFFICES ASSUME NEW u \in Threads PROVE ThreadInv(th[u])'
    OBVIOUS
  <2>1. CASE u = t
    <3>1. th'[u] = l1
      BY <2>1, <1>1, <1>11, <1>m
    <3> QED BY <3>1, <1>12 DEF ThreadInv, PointerInv, NullInv, WindowInv
  <2>2. CASE u # t
    <3>1. PICK l \in Local : l = th[u] /\ l = th'[u] /\ ThreadInv(l)
      BY <2>2, <1>1, <1>m DEF DirectoryInv
    <3>2. ThreadInv(l)'
      BY <1>6, <1>7, <1>8, <3>1 DEF ThreadInv
    <3> QED BY <3>1, <3>2 DEF ThreadInv, PointerInv, NullInv, WindowInv
  <2> QED BY <2>1, <2>2
<1>14. th' \in [Threads -> Local]
  BY <1>1, <1>9, <1>m
<1>15. LastTagKept'
  <2> SUFFICES ASSUME NEW b \in Bytes, b \notin raced' PROVE Lookup(b)' = last'[b]
    BY DEF LastTagKept
  <2>1. b \notin raced /\ (b \in InTable(m.addr) => dir[k] = NULL)
    BY <1>1
  <2>2. Lookup(b)' = Lookup(b)
    BY <2>1, TableLookup
  <2> QED BY <1>1, <2>1, <2>2 DEF DirectoryInv, LastTagKept
<1>16. FaultNeedsFailure'
  BY <1>1 DEF FaultNeedsFailure
<1> QED BY <1>5, <1>13, <1>14, <1>15, <1>16 DEF DirectoryInv

(* What the step that stores a page pointer does: the page is new and clear,  *)
(* and no other slot and no other page changes.                               *)
LEMMA PageStored ==
    ASSUME DirectoryInv, NEW t \in Threads, PublishPage(t)
    PROVE  LET T == th[t].table
               s == virt2page(th[t].addr)
               r == Len(pages) + 1
           IN  /\ th[t].pc = "newpage" /\ ~crashed /\ T \in 1 .. Len(tables)
               /\ th' = [th EXCEPT ![t] = [th[t] EXCEPT !.pc = "loadpage"]]
               /\ UNCHANGED <<dir, last, crashed, detaching>>
               /\ raced' = IF tables[T][s] = NULL THEN raced ELSE raced \cup InPage(th[t].addr)
               /\ tables' \in Seq([0 .. DIR_TABLE_SZ - 1 -> Nat]) /\ Len(tables') = Len(tables)
               /\ tables'[T][s] = r
               /\ \A x \in 1 .. Len(tables), i \in 0 .. DIR_TABLE_SZ - 1 :
                     x # T \/ i # s => tables'[x][i] = tables[x][i]
               /\ pages' \in Seq([0 .. DIR_PAGE_SZ - 1 -> TagValues]) /\ Len(pages') = r
               /\ \A i \in 0 .. DIR_PAGE_SZ - 1 : pages'[r][i] = cleared_val
               /\ \A x \in 1 .. Len(pages) : pages'[x] = pages[x]
<1> DEFINE m == th[t]  T == m.table  s == virt2page(m.addr)  n == Len(pages)
           clear == [i \in 0 .. DIR_PAGE_SZ - 1 |-> cleared_val]
<1>m. m \in Local /\ HeapInv /\ th \in [Threads -> Local] /\ PointerInv(m)
  BY DEF DirectoryInv, ThreadInv
<1>s. s \in 0 .. DIR_TABLE_SZ - 1
  BY <1>m, SlotRange DEF Local
<1>n. /\ n \in Nat /\ pages \in Seq([0 .. DIR_PAGE_SZ - 1 -> TagValues])
      /\ tables \in Seq([0 .. DIR_TABLE_SZ - 1 -> Nat])
  BY <1>m DEF HeapInv
<1>c. /\ clear \in [0 .. DIR_PAGE_SZ - 1 -> TagValues]
      /\ \A i \in 0 .. DIR_PAGE_SZ - 1 : clear[i] = cleared_val
  BY DEF TagValues
<1>1. /\ m.pc = "newpage" /\ ~crashed /\ UNCHANGED <<dir, last, crashed, detaching>>
      /\ pages' = Append(pages, clear)
      /\ tables' = [tables EXCEPT ![T][s] = n + 1]
      /\ raced' = IF tables[T][s] = NULL THEN raced ELSE raced \cup InPage(m.addr)
  BY DEF PublishPage, At, PutPage, PageSlot
<1>2. th' = [th EXCEPT ![t] = [m EXCEPT !.pc = "loadpage"]]
  BY <1>m DEF PublishPage, PutPage, Goto
<1>3. T \in 1 .. Len(tables)
  BY <1>1, <1>m, Held DEF PointerInv
<1> HIDE DEF clear
<1>4. /\ pages' \in Seq([0 .. DIR_PAGE_SZ - 1 -> TagValues]) /\ Len(pages') = n + 1
      /\ pages'[n + 1] = clear /\ \A x \in 1 .. n : pages'[x] = pages[x]
  BY <1>1, <1>n, <1>c
<1> DEFINE row == [tables[T] EXCEPT ![s] = n + 1]
<1>5. tables[T] \in [0 .. DIR_TABLE_SZ - 1 -> Nat]
  BY <1>3, <1>m, HeapTypes
<1>6. /\ row \in [0 .. DIR_TABLE_SZ - 1 -> Nat] /\ row[s] = n + 1
      /\ \A i \in 0 .. DIR_TABLE_SZ - 1 : i # s => row[i] = tables[T][i]
  <2>1. n + 1 \in Nat
    BY <1>n
  <2> HIDE DEF n, s, T
  <2> QED BY <1>5, <1>s, <2>1
<1>7. tables' = [tables EXCEPT ![T] = row]
  BY <1>1
<1> HIDE DEF row
<1>8. /\ tables' \in Seq([0 .. DIR_TABLE_SZ - 1 -> Nat]) /\ Len(tables') = Len(tables)
      /\ tables'[T] = row /\ \A x \in 1 .. Len(tables) : x # T => tables'[x] = tables[x]
  BY <1>3, <1>6, <1>7, <1>n
<1>9. \A i \in 0 .. DIR_PAGE_SZ - 1 : pages'[n + 1][i] = cleared_val
  BY <1>4, <1>c
<1>10. \A x \in 1 .. Len(tables), i \in 0 .. DIR_TABLE_SZ - 1 :
          x # T \/ i # s => tables'[x][i] = tables[x][i]
  BY <1>6, <1>8
<1> QED BY <1>1, <1>2, <1>3, <1>4, <1>6, <1>8, <1>9, <1>10

(* Storing a page pointer clears the bytes of the page, if the table is still *)
(* the directory's, and no other; they were clear already if the slot was     *)
(* empty.                                                                     *)
LEMMA PageLookup ==
    ASSUME DirectoryInv, NEW t \in Threads, PublishPage(t), NEW b \in Bytes
    PROVE  LET T == th[t].table
               mine == dir[virt2table(th[t].addr)] = T /\ b \in InPage(th[t].addr)
           IN  /\ Lookup(b)' = IF mine THEN cleared_val ELSE Lookup(b)
               /\ mine /\ tables[T][virt2page(th[t].addr)] = NULL => Lookup(b) = cleared_val
<1> DEFINE m == th[t]  T == m.table  s == virt2page(m.addr)  k == virt2table(m.addr)
           r == Len(pages) + 1  j == virt2table(b)  p == virt2page(b)  o == virt2offset(b)
<1>m. m \in Local /\ HeapInv /\ m.addr \in Nat /\ b \in Nat /\ PointerInv(m)
  BY BytesDiffer DEF DirectoryInv, Local, ThreadInv
<1>r. /\ k \in 0 .. DIR_SZ - 1 /\ s \in 0 .. DIR_TABLE_SZ - 1 /\ j \in 0 .. DIR_SZ - 1
      /\ p \in 0 .. DIR_TABLE_SZ - 1 /\ o \in 0 .. DIR_PAGE_SZ - 1
  BY <1>m, SlotRange
<1>1. /\ m.pc = "newpage" /\ dir' = dir /\ T \in 1 .. Len(tables) /\ tables'[T][s] = r
      /\ \A i \in 0 .. DIR_PAGE_SZ - 1 : pages'[r][i] = cleared_val
  BY PageStored
<1>2. \A x \in 1 .. Len(tables), i \in 0 .. DIR_TABLE_SZ - 1 :
         x # T \/ i # s => tables'[x][i] = tables[x][i]
  BY PageStored
<1>3. \A x \in 1 .. Len(pages) : pages'[x] = pages[x]
  BY PageStored
<1>4. b \in InPage(m.addr) <=> j = k /\ p = s
  BY <1>m, Regions
<1>5. T # NULL /\ (dir[j] = T => j = k)
  <2>1. T # NULL
    BY <1>1 DEF NULL
  <2> QED BY <2>1, <1>m, <1>r DEF PointerInv
<1>6. CASE dir[k] = T /\ j = k /\ p = s
  <2>1. r # NULL
    BY <1>m, HeapTypes DEF NULL
  <2>2. Lookup(b)' = cleared_val
    BY <1>1, <1>5, <1>6, <1>r, <2>1 DEF Lookup
  <2>3. tables[T][s] = NULL => Lookup(b) = cleared_val
    BY <1>6 DEF Lookup
  <2> QED BY <1>4, <1>6, <2>2, <2>3
<1>7. CASE ~(dir[k] = T /\ j = k /\ p = s)
  <2>1. dir[j] # T \/ p # s
    BY <1>5, <1>7
  <2>2. CASE dir[j] = NULL
    BY <1>1, <1>4, <1>7, <2>2 DEF Lookup
  <2>3. CASE dir[j] # NULL
    <3> DEFINE q == tables[dir[j]][p]
    <3>1. dir[j] \in 1 .. Len(tables)
      <4>1. dir[j] \in Nat /\ dir[j] <= Len(tables) /\ Len(tables) \in Nat
        BY <1>r, <1>m, HeapTypes DEF HeapInv
      <4> QED BY <4>1, <2>3 DEF NULL
    <3>2. tables'[dir[j]][p] = q
      BY <1>2, <1>r, <2>1, <3>1
    <3>3. q # NULL => q \in 1 .. Len(pages)
      <4>1. q \in Nat /\ q <= Len(pages) /\ Len(pages) \in Nat
        BY <1>r, <1>m, <3>1, HeapTypes
      <4> QED BY <4>1 DEF NULL
    <3>4. q # NULL => pages'[q] = pages[q]
      BY <1>3, <3>3
    <3>5. Lookup(b)' = Lookup(b)
      BY <1>1, <2>3, <3>2, <3>4 DEF Lookup
    <3> QED BY <1>4, <1>7, <3>5
  <2> QED BY <2>2, <2>3
<1> QED BY <1>6, <1>7

(* The step that stores a page pointer keeps the invariant.                   *)
LEMMA PageStep ==
    ASSUME DirectoryInv, NEW t \in Threads, PublishPage(t)
    PROVE  DirectoryInv'
<1> DEFINE m == th[t]  T == m.table  s == virt2page(m.addr)  k == virt2table(m.addr)
           r == Len(pages) + 1  l0 == [m EXCEPT !.pc = "loadpage"]
<1>m. m \in Local /\ ThreadInv(m) /\ HeapInv /\ m.addr \in Nat /\ th \in [Threads -> Local]
  BY DEF DirectoryInv, Local
<1>k. /\ k \in 0 .. DIR_SZ - 1 /\ s \in 0 .. DIR_TABLE_SZ - 1 /\ InPage(m.addr) \subseteq Bytes
      /\ Len(tables) \in Nat /\ Len(pages) \in Nat /\ r # NULL
  <2>1. k \in 0 .. DIR_SZ - 1 /\ s \in 0 .. DIR_TABLE_SZ - 1
    BY <1>m, SlotRange
  <2>2. InPage(m.addr) \subseteq Bytes
    BY <1>m, Regions
  <2>3. Len(tables) \in Nat /\ Len(pages) \in Nat
    BY <1>m, HeapTypes
  <2> QED BY <2>1, <2>2, <2>3 DEF NULL
<1>1. /\ m.pc = "newpage" /\ ~crashed /\ T \in 1 .. Len(tables)
      /\ th' = [th EXCEPT ![t] = l0]
      /\ UNCHANGED <<dir, last, crashed, detaching>>
      /\ raced' = IF tables[T][s] = NULL THEN raced ELSE raced \cup InPage(m.addr)
  BY PageStored
<1>2. /\ tables' \in Seq([0 .. DIR_TABLE_SZ - 1 -> Nat]) /\ Len(tables') = Len(tables)
      /\ pages' \in Seq([0 .. DIR_PAGE_SZ - 1 -> TagValues]) /\ Len(pages') = r
  BY PageStored
<1>3. /\ tables'[T][s] = r
      /\ \A x \in 1 .. Len(tables), i \in 0 .. DIR_TABLE_SZ - 1 :
            x # T \/ i # s => tables'[x][i] = tables[x][i]
  BY PageStored
<1>4. raced \subseteq raced' /\ raced' \subseteq Bytes
  BY <1>1, <1>k, <1>m DEF HeapInv
<1> HIDE DEF l0
<1>5. HeapInv'
  <2>1. /\ dir' \in [0 .. DIR_SZ - 1 -> Nat] /\ last' \in [Bytes -> TagValues]
        /\ crashed' \in BOOLEAN /\ detaching' \in BOOLEAN
        /\ \A i \in 0 .. DIR_SZ - 1 : dir'[i] <= Len(tables')
        /\ \A i, j \in 0 .. DIR_SZ - 1 : dir'[i] # NULL /\ dir'[i] = dir'[j] => i = j
    BY <1>1, <1>2, <1>m DEF HeapInv
  <2>2. \A x \in 1 .. Len(tables), i \in 0 .. DIR_TABLE_SZ - 1 :
           tables[x][i] \in Nat /\ tables[x][i] <= Len(pages)
    BY <1>m, HeapTypes
  <2>3. \A x \in 1 .. Len(tables'), i \in 0 .. DIR_TABLE_SZ - 1 : tables'[x][i] <= Len(pages')
    <3> SUFFICES ASSUME NEW x \in 1 .. Len(tables), NEW i \in 0 .. DIR_TABLE_SZ - 1
                 PROVE  tables'[x][i] <= r
      BY <1>2
    <3>1. tables[x][i] \in Nat /\ tables[x][i] <= Len(pages)
      BY <2>2
    <3>2. tables'[x][i] = tables[x][i] \/ tables'[x][i] = r
      BY <1>3
    <3> QED BY <1>k, <3>1, <3>2
  <2>4. \A x, y \in 1 .. Len(tables'), i, j \in 0 .. DIR_TABLE_SZ - 1 :
           tables'[x][i] # NULL /\ tables'[x][i] = tables'[y][j] => x = y /\ i = j
    <3> SUFFICES ASSUME NEW x \in 1 .. Len(tables'), NEW y \in 1 .. Len(tables'),
                        NEW i \in 0 .. DIR_TABLE_SZ - 1, NEW j \in 0 .. DIR_TABLE_SZ - 1,
                        tables'[x][i] # NULL, tables'[x][i] = tables'[y][j]
                 PROVE  x = y /\ i = j
      OBVIOUS
    <3>0. x \in 1 .. Len(tables) /\ y \in 1 .. Len(tables)
      BY <1>2
    <3>1. /\ tables[x][i] # r /\ tables[y][j] # r
      BY <2>2, <3>0, <1>k
    <3>2. CASE x = T /\ i = s
      BY <1>3, <3>0, <3>1, <3>2
    <3>3. CASE y = T /\ j = s
      BY <1>3, <3>0, <3>1, <3>3
    <3>4. CASE (x # T \/ i # s) /\ (y # T \/ j # s)
      <4>1. tables[x][i] # NULL /\ tables[x][i] = tables[y][j]
        BY <1>3, <3>0, <3>4
      <4> QED BY <4>1, <3>0, <1>m, Distinct
    <3> QED BY <3>2, <3>3, <3>4
  <2> QED BY <1>2, <1>4, <2>1, <2>3, <2>4 DEF HeapInv
<1>6. ASSUME NEW l \in Local, PointerInv(l) PROVE PointerInv(l)'
  <2>1. /\ l.addr \in Nat /\ virt2table(l.addr) \in 0 .. DIR_SZ - 1
        /\ virt2page(l.addr) \in 0 .. DIR_TABLE_SZ - 1
    BY SlotRange DEF Local
  <2>2. /\ l.table # NULL => l.table \in 1 .. Len(tables)
        /\ l.page # NULL => l.page \in 1 .. Len(pages) /\ l.table \in 1 .. Len(tables)
    BY <1>6, <1>m, Held
  <2>3. l.table <= Len(tables') /\ l.page <= Len(pages')
    <3>1. l.page \in Nat /\ l.table <= Len(tables) /\ l.page <= Len(pages)
      BY <1>6 DEF Local, PointerInv
    <3> QED BY <1>2, <1>k, <3>1
  <2>4. ASSUME l.table # NULL
        PROVE  /\ \A i \in 0 .. DIR_SZ - 1 : dir'[i] = l.table => i = virt2table(l.addr)
               /\ dir'[virt2table(l.addr)] = l.table \/ InTable(l.addr) \subseteq raced'
    BY <1>1, <1>4, <1>6, <2>4 DEF PointerInv
  <2>5. ASSUME l.page # NULL
        PROVE  /\ \A x \in 1 .. Len(tables'), i \in 0 .. DIR_TABLE_SZ - 1 :
                     tables'[x][i] = l.page => x = l.table /\ i = virt2page(l.addr)
               /\ tables'[l.table][virt2page(l.addr)] = l.page \/ InPage(l.addr) \subseteq raced'
    <3>1. l.page # r /\ l.table \in 1 .. Len(tables) /\ l.table # NULL
      BY <1>k, <2>2, <2>5 DEF NULL
    <3>2. /\ \A x \in 1 .. Len(tables), i \in 0 .. DIR_TABLE_SZ - 1 :
                tables[x][i] = l.page => x = l.table /\ i = virt2page(l.addr)
          /\ tables[l.table][virt2page(l.addr)] = l.page \/ InPage(l.addr) \subseteq raced
      BY <1>6, <2>5 DEF PointerInv
    <3>3. \A x \in 1 .. Len(tables'), i \in 0 .. DIR_TABLE_SZ - 1 :
             tables'[x][i] = l.page => tables[x][i] = l.page
      BY <1>2, <1>3, <3>1
    <3>4. CASE l.table = T /\ virt2page(l.addr) = s /\ tables[T][s] = l.page
      <4>1. raced' = raced \cup InPage(m.addr)
        BY <1>1, <2>5, <3>4
      <4>2. CASE dir[virt2table(l.addr)] = T
        <5>1. virt2table(l.addr) = k
          BY <1>m, <2>1, <3>1, <3>4, <4>2 DEF ThreadInv, PointerInv
        <5>2. InPage(l.addr) = InPage(m.addr)
          <6>1. InPage(l.addr) = {b \in Bytes : virt2table(b) = virt2table(l.addr)
                                                /\ virt2page(b) = virt2page(l.addr)}
            BY <2>1, Regions
          <6>2. InPage(m.addr) = {b \in Bytes : virt2table(b) = k /\ virt2page(b) = s}
            BY <1>m, Regions
          <6> QED BY <3>4, <5>1, <6>1, <6>2
        <5> QED BY <1>2, <3>2, <3>3, <4>1, <5>2
      <4>3. CASE dir[virt2table(l.addr)] # T
        <5>1. InTable(l.addr) \subseteq raced
          BY <1>6, <3>1, <3>4, <4>3 DEF PointerInv
        <5>2. InPage(l.addr) \subseteq InTable(l.addr)
          BY <2>1, Regions
        <5> QED BY <1>2, <1>4, <3>2, <3>3, <5>1, <5>2
      <4> QED BY <4>2, <4>3
    <3>5. CASE ~(l.table = T /\ virt2page(l.addr) = s /\ tables[T][s] = l.page)
      <4>1. tables[l.table][virt2page(l.addr)] = l.page
               => tables'[l.table][virt2page(l.addr)] = l.page
        BY <1>3, <2>1, <3>1, <3>5
      <4> QED BY <1>2, <1>4, <3>2, <3>3, <4>1
    <3> QED BY <3>4, <3>5
  <2>6. l.pc = "loadpage" => tables'[l.table][virt2page(l.addr)] # NULL
    <3>1. l.pc = "loadpage" => l.table # NULL /\ tables[l.table][virt2page(l.addr)] # NULL
      BY <1>6 DEF PointerInv
    <3> QED BY <1>3, <1>k, <2>1, <2>2, <3>1
  <2> QED BY <1>6, <2>3, <2>4, <2>5, <2>6 DEF PointerInv
<1>7. ASSUME NEW l \in Local, NullInv(l) PROVE NullInv(l)'
  BY <1>1, <1>7 DEF NullInv
<1>8. ASSUME NEW l \in Local, WindowInv(l) PROVE WindowInv(l)'
  BY <1>1, <1>4, <1>8 DEF WindowInv
<1>9. /\ l0 \in Local /\ l0.pc = "loadpage" /\ l0.op = m.op /\ l0.addr = m.addr
      /\ l0.table = m.table /\ l0.page = m.page
  BY <1>m DEF Local, Pcs, l0
<1>10. PICK l1 \in Local, m1 \in Local : l1 = l0 /\ m1 = m
  BY <1>9, <1>m
<1>11. ThreadInv(l1)'
  <2>1. ThreadInv(m1)
    BY <1>10, <1>m
  <2>2. PointerInv(m1)' /\ NullInv(m1)' /\ WindowInv(m1)'
    BY <1>6, <1>7, <1>8, <1>10, <2>1 DEF ThreadInv
  <2>3. /\ m1.pc = "newpage" /\ l1.pc = "loadpage" /\ l1.op = m1.op /\ l1.addr = m1.addr
        /\ l1.table = m1.table /\ l1.page = m1.page /\ m1.table = T /\ virt2page(m1.addr) = s
    BY <1>1, <1>9, <1>10
  <2>4. tables'[l1.table][virt2page(l1.addr)] # NULL
    BY <1>3, <1>k, <2>3
  <2>5. PointerInv(l1)'
    BY <1>10, <2>2, <2>3, <2>4 DEF PointerInv
  <2>6. NullInv(l1)' /\ WindowInv(l1)'
    BY <2>2, <2>3 DEF NullInv, WindowInv, Reading
  <2> QED BY <2>5, <2>6 DEF ThreadInv
<1>12. \A u \in Threads : ThreadInv(th[u])'
  <2> SUFFICES ASSUME NEW u \in Threads PROVE ThreadInv(th[u])'
    OBVIOUS
  <2>1. CASE u = t
    <3>1. th'[u] = l1
      BY <2>1, <1>1, <1>10, <1>m
    <3> QED BY <3>1, <1>11 DEF ThreadInv, PointerInv, NullInv, WindowInv
  <2>2. CASE u # t
    <3>1. PICK l \in Local : l = th[u] /\ l = th'[u] /\ ThreadInv(l)
      BY <2>2, <1>1, <1>m DEF DirectoryInv
    <3>2. ThreadInv(l)'
      BY <1>6, <1>7, <1>8, <3>1 DEF ThreadInv
    <3> QED BY <3>1, <3>2 DEF ThreadInv, PointerInv, NullInv, WindowInv
  <2> QED BY <2>1, <2>2
<1>13. th' \in [Threads -> Local]
  BY <1>1, <1>9, <1>m
<1>14. LastTagKept'
  <2> SUFFICES ASSUME NEW b \in Bytes, b \notin raced' PROVE Lookup(b)' = last'[b]
    BY DEF LastTagKept
  <2>1. b \notin raced /\ (b \in InPage(m.addr) => tables[T][s] = NULL)
    BY <1>1
  <2>2. Lookup(b)' = Lookup(b)
    BY <2>1, PageLookup
  <2> QED BY <1>1, <2>1, <2>2 DEF DirectoryInv, LastTagKept
<1>15. FaultNeedsFailure'
  BY <1>1 DEF FaultNeedsFailure
<1> QED BY <1>5, <1>12, <1>13, <1>14, <1>15 DEF DirectoryInv

(* A page that cannot be allocated ends the process.                          *)
LEMMA PageFailsStep ==
    ASSUME DirectoryInv, NEW t \in Threads, PageFails(t) PROVE DirectoryInv'
<1>1. /\ crashed' = TRUE /\ detaching' = TRUE
      /\ UNCHANGED <<dir, tables, pages, th, last, raced>>
  BY DEF PageFails, libdft_die, Heap
<1>2. HeapInv' /\ LastTagKept' /\ FaultNeedsFailure'
  <2>1. crashed' \in BOOLEAN /\ detaching' \in BOOLEAN
    BY <1>1 DEF DirectoryInv, HeapInv
  <2>2. FaultNeedsFailure'
    BY <1>1 DEF FaultNeedsFailure
  <2> QED BY <1>1, <2>1, <2>2, HeapSame
<1>3. \A u \in Threads : ThreadInv(th[u])'
  BY <1>1 DEF DirectoryInv, ThreadInv, PointerInv, NullInv, WindowInv
<1> QED BY <1>1, <1>2, <1>3 DEF DirectoryInv

(* What the step that writes the tag does.                                    *)
LEMMA TagWritten ==
    ASSUME DirectoryInv, NEW t \in Threads, WriteTag(t)
    PROVE  LET q == th[t].page
               o == virt2offset(th[t].addr)
           IN  /\ th[t].pc = "write" /\ ~crashed
               /\ q \in 1 .. Len(pages) /\ th[t].table \in 1 .. Len(tables)
               /\ UNCHANGED <<dir, tables, detaching, crashed, raced>>
               /\ last' = [last EXCEPT ![Byte(th[t].addr)] = th[t].tag]
               /\ pages' \in Seq([0 .. DIR_PAGE_SZ - 1 -> TagValues]) /\ Len(pages') = Len(pages)
               /\ pages'[q][o] = th[t].tag
               /\ \A x \in 1 .. Len(pages), i \in 0 .. DIR_PAGE_SZ - 1 :
                     x # q \/ i # o => pages'[x][i] = pages[x][i]
<1> DEFINE m == th[t]  q == m.page  o == virt2offset(m.addr)
           row == [pages[q] EXCEPT ![o] = m.tag]
<1>m. m \in Local /\ HeapInv /\ PointerInv(m)
  BY DEF DirectoryInv, ThreadInv
<1>o. o \in 0 .. DIR_PAGE_SZ - 1 /\ m.tag \in TagValues
  BY <1>m, SlotRange DEF Local
<1>1. /\ m.pc = "write" /\ ~crashed /\ UNCHANGED <<dir, tables, detaching, crashed, raced>>
      /\ last' = [last EXCEPT ![Byte(m.addr)] = m.tag] /\ pages' = [pages EXCEPT ![q] = row]
  BY DEF WriteTag, At
<1>2. q \in 1 .. Len(pages) /\ m.table \in 1 .. Len(tables)
  BY <1>1, <1>m, Held DEF PointerInv
<1>3. pages[q] \in [0 .. DIR_PAGE_SZ - 1 -> TagValues]
  BY <1>2, <1>m, HeapTypes
<1>4. /\ row \in [0 .. DIR_PAGE_SZ - 1 -> TagValues] /\ row[o] = m.tag
      /\ \A i \in 0 .. DIR_PAGE_SZ - 1 : i # o => row[i] = pages[q][i]
  <2> HIDE DEF q, o, m
  <2> QED BY <1>3, <1>o
<1>5. pages \in Seq([0 .. DIR_PAGE_SZ - 1 -> TagValues])
  BY <1>m DEF HeapInv
<1> HIDE DEF row
<1>6. /\ pages' \in Seq([0 .. DIR_PAGE_SZ - 1 -> TagValues]) /\ Len(pages') = Len(pages)
      /\ pages'[q] = row /\ \A x \in 1 .. Len(pages) : x # q => pages'[x] = pages[x]
  BY <1>1, <1>2, <1>4, <1>5
<1>7. \A x \in 1 .. Len(pages), i \in 0 .. DIR_PAGE_SZ - 1 :
         x # q \/ i # o => pages'[x][i] = pages[x][i]
  BY <1>4, <1>6
<1> QED BY <1>1, <1>2, <1>4, <1>6, <1>7

(* Writing a tag changes what is answered for the byte and for no other; the  *)
(* write is lost only if the page is no longer the byte's.                    *)
LEMMA WriteLookup ==
    ASSUME DirectoryInv, NEW t \in Threads, WriteTag(t), NEW b \in Bytes
    PROVE  /\ b # Byte(th[t].addr) => Lookup(b)' = Lookup(b)
           /\ b = Byte(th[t].addr) => Lookup(b)' = th[t].tag \/ Lookup(b)' = Lookup(b)
           /\ b = Byte(th[t].addr) /\ b \notin raced => Lookup(b)' = th[t].tag
<1> DEFINE m == th[t]  q == m.page  o == virt2offset(m.addr)
           k == virt2table(m.addr)  s == virt2page(m.addr)
           j == virt2table(b)  p == virt2page(b)  v == virt2offset(b)
<1>m. m \in Local /\ HeapInv /\ m.addr \in Nat /\ b \in Nat /\ PointerInv(m)
  BY BytesDiffer DEF DirectoryInv, Local, ThreadInv
<1>r. /\ k \in 0 .. DIR_SZ - 1 /\ s \in 0 .. DIR_TABLE_SZ - 1 /\ o \in 0 .. DIR_PAGE_SZ - 1
      /\ j \in 0 .. DIR_SZ - 1 /\ p \in 0 .. DIR_TABLE_SZ - 1 /\ v \in 0 .. DIR_PAGE_SZ - 1
  BY <1>m, SlotRange
<1>1. /\ m.pc = "write" /\ q \in 1 .. Len(pages) /\ m.table \in 1 .. Len(tables)
      /\ dir' = dir /\ tables' = tables
      /\ pages'[q][o] = m.tag
      /\ \A x \in 1 .. Len(pages), i \in 0 .. DIR_PAGE_SZ - 1 :
            x # q \/ i # o => pages'[x][i] = pages[x][i]
  BY TagWritten
<1>2. b = Byte(m.addr) => j = k /\ p = s /\ v = o
  BY <1>m, SameSlots
<1>3. j = k /\ p = s /\ v = o => b = Byte(m.addr)
  BY <1>m, SameSlots, BytesDiffer
<1>n. q # NULL /\ m.table # NULL
  BY <1>1 DEF NULL
<1>4. CASE dir[j] = NULL
  <2>1. Lookup(b)' = Lookup(b)
    BY <1>1, <1>4 DEF Lookup
  <2>2. ~(b = Byte(m.addr) /\ b \notin raced)
    <3>1. b = Byte(m.addr) => dir[k] = NULL
      BY <1>2, <1>4
    <3>2. dir[k] = m.table \/ InTable(m.addr) \subseteq raced
      BY <1>m, <1>n DEF PointerInv
    <3>3. Byte(m.addr) \in InTable(m.addr)
      BY <1>m, LookupAt
    <3> QED BY <3>1, <3>2, <3>3, <1>n
  <2> QED BY <2>1, <2>2
<1>5. CASE dir[j] # NULL
  <2> DEFINE e == tables[dir[j]][p]
  <2>1. dir[j] \in 1 .. Len(tables)
    <3>1. dir[j] \in Nat /\ dir[j] <= Len(tables) /\ Len(tables) \in Nat
      BY <1>r, <1>m, HeapTypes DEF HeapInv
    <3> QED BY <3>1, <1>5 DEF NULL
  <2>2. e # NULL => e \in 1 .. Len(pages)
    <3>1. e \in Nat /\ e <= Len(pages) /\ Len(pages) \in Nat
      BY <1>r, <1>m, <2>1, HeapTypes
    <3> QED BY <3>1 DEF NULL
  <2>3. e = q => dir[j] = m.table /\ p = s /\ j = k
    <3>1. e = q => dir[j] = m.table /\ p = s
      BY <1>m, <1>n, <1>r, <2>1 DEF PointerInv
    <3>2. dir[j] = m.table => j = k
      BY <1>m, <1>n, <1>r DEF PointerInv
    <3> QED BY <3>1, <3>2
  <2>4. b # Byte(m.addr) => Lookup(b)' = Lookup(b)
    <3>1. b # Byte(m.addr) => e # q \/ v # o
      BY <1>3, <2>3
    <3>2. b # Byte(m.addr) /\ e # NULL => pages'[e][v] = pages[e][v]
      BY <1>1, <1>r, <2>2, <3>1
    <3> QED BY <1>1, <1>5, <3>2 DEF Lookup
  <2>5. b = Byte(m.addr) => Lookup(b)' = m.tag \/ Lookup(b)' = Lookup(b)
    <3>1. e # NULL => pages'[e][v] = pages[e][v] \/ (e = q /\ v = o)
      BY <1>1, <1>r, <2>2
    <3> QED BY <1>1, <1>5, <3>1 DEF Lookup
  <2>6. b = Byte(m.addr) /\ b \notin raced => Lookup(b)' = m.tag
    <3> SUFFICES ASSUME b = Byte(m.addr), b \notin raced PROVE Lookup(b)' = m.tag
      OBVIOUS
    <3>1. Byte(m.addr) \in InTable(m.addr) /\ Byte(m.addr) \in InPage(m.addr)
      BY <1>m, LookupAt
    <3>2. dir[k] = m.table
      BY <1>m, <1>n, <3>1 DEF PointerInv
    <3>3. tables[m.table][s] = q
      BY <1>m, <1>n, <3>1 DEF PointerInv
    <3>4. dir[j] = m.table /\ e = q /\ v = o
      BY <1>2, <3>2, <3>3
    <3> QED BY <1>1, <1>n, <3>4 DEF Lookup
  <2> QED BY <2>4, <2>5, <2>6
<1> QED BY <1>4, <1>5

(* The step that writes the tag keeps the invariant: the readers of the byte  *)
(* may find the old tag or the new one.                                       *)
LEMMA WriteStep ==
    ASSUME DirectoryInv, NEW t \in Threads, WriteTag(t)
    PROVE  DirectoryInv'
<1> DEFINE m == th[t]  B == Byte(m.addr)  l0 == ByteDone(m)
<1>m. /\ m \in Local /\ ThreadInv(m) /\ HeapInv /\ m.addr \in Nat /\ th \in [Threads -> Local]
      /\ B \in Bytes /\ m.tag \in TagValues
  BY SlotRange DEF DirectoryInv, Local
<1>1. /\ m.pc = "write" /\ ~crashed /\ UNCHANGED <<dir, tables, detaching, crashed, raced>>
      /\ last' = [last EXCEPT ![B] = m.tag]
      /\ pages' \in Seq([0 .. DIR_PAGE_SZ - 1 -> TagValues]) /\ Len(pages') = Len(pages)
  BY TagWritten
<1>2. th' = [u \in Threads |->
                IF u = t THEN l0
                ELSE IF Byte(th[u].addr) = B /\ th[u].window # {}
                     THEN [th[u] EXCEPT !.window = th[u].window \cup {m.tag}] ELSE th[u]]
  BY DEF WriteTag
<1>l. /\ last \in [Bytes -> TagValues] /\ last'[B] = m.tag
      /\ \A b \in Bytes : b # B => last'[b] = last[b]
  BY <1>1, <1>m DEF HeapInv
<1>3. HeapInv'
  <2>1. last' \in [Bytes -> TagValues]
    BY <1>1, <1>l, <1>m
  <2> QED BY <1>1, <1>m, <2>1 DEF HeapInv
<1>4. ASSUME NEW l \in Local, NEW l2 \in Local, ThreadInv(l),
             l2.pc = l.pc, l2.op = l.op, l2.addr = l.addr, l2.tag = l.tag, l2.table = l.table,
             l2.page = l.page, l.window \subseteq l2.window,
             Byte(l.addr) = B /\ l.window # {} => m.tag \in l2.window
      PROVE  ThreadInv(l2)'
  <2>1. PointerInv(l2)'
    BY <1>1, <1>4 DEF ThreadInv, PointerInv
  <2>2. NullInv(l2)'
    BY <1>1, <1>4 DEF ThreadInv, NullInv
  <2>3. Byte(l.addr) \in Bytes
    BY SlotRange DEF Local
  <2>4. l.pc \in Reading => last'[Byte(l.addr)] \in l2.window
    <3>1. l.pc \in Reading => last[Byte(l.addr)] \in l.window
      BY <1>4 DEF ThreadInv, WindowInv
    <3> QED BY <1>4, <1>l, <2>3, <3>1
  <2>5. WindowInv(l2)'
    BY <1>1, <1>4, <2>4 DEF ThreadInv, WindowInv
  <2> QED BY <2>1, <2>2, <2>5 DEF ThreadInv
<1>5. l0 \in Local /\ l0.pc = "byte" /\ l0.op = m.op /\ l0.table = NULL /\ l0.page = NULL
  BY <1>m, ByteDoneOK
<1>6. m.op \in {"set", "get"}
  BY <1>1, <1>m DEF ThreadInv, WindowInv
<1> HIDE DEF l0
<1>7. PICK l1 \in Local : l1 = l0
  BY <1>5
<1>8. ThreadInv(l1)'
  <2>1. l1.pc = "byte" /\ l1.op \in {"set", "get"} /\ l1.table = NULL /\ l1.page = NULL
    BY <1>5, <1>6, <1>7
  <2>2. Len(tables') \in Nat /\ Len(pages') \in Nat
    BY <1>1, <1>m, HeapTypes
  <2>3. PointerInv(l1)'
    BY <1>7, <2>1, <2>2 DEF PointerInv, NULL
  <2>4. NullInv(l1)' /\ WindowInv(l1)'
    BY <2>1 DEF NullInv, WindowInv, Reading
  <2> QED BY <2>3, <2>4 DEF ThreadInv
<1>9. ASSUME NEW u \in Threads PROVE th'[u] \in Local /\ ThreadInv(th[u])'
  <2>1. CASE u = t
    <3>1. th'[u] = l1
      BY <2>1, <1>2, <1>7
    <3> QED BY <3>1, <1>7, <1>8 DEF ThreadInv, PointerInv, NullInv, WindowInv
  <2>2. CASE u # t
    <3> DEFINE lu == th[u]  w == lu.window \cup {m.tag}
    <3>1. lu \in Local /\ ThreadInv(lu)
      BY DEF DirectoryInv
    <3>2. CASE Byte(lu.addr) = B /\ lu.window # {}
      <4>1. th'[u] = [lu EXCEPT !.window = w]
        BY <1>2, <2>2, <3>2
      <4>2. w \in SUBSET TagValues
        BY <1>m, <3>1 DEF Local
      <4> HIDE DEF w
      <4>3. PICK l2 \in Local : /\ l2 = th'[u] /\ l2.pc = lu.pc /\ l2.op = lu.op
                                /\ l2.addr = lu.addr /\ l2.tag = lu.tag /\ l2.table = lu.table
                                /\ l2.page = lu.page /\ l2.window = w
        BY <4>1, <4>2, <3>1 DEF Local
      <4>4. PICK l \in Local : l = lu
        BY <3>1
      <4>5. ThreadInv(l2)'
        BY <1>4, <3>1, <4>3, <4>4 DEF w
      <4> QED BY <4>3, <4>5 DEF ThreadInv, PointerInv, NullInv, WindowInv
    <3>3. CASE ~(Byte(lu.addr) = B /\ lu.window # {})
      <4>1. th'[u] = lu
        BY <1>2, <2>2, <3>3
      <4>2. PICK l \in Local : l = lu /\ l = th'[u]
        BY <3>1, <4>1
      <4>3. ThreadInv(l)'
        BY <1>4, <3>1, <3>3, <4>2
      <4> QED BY <4>2, <4>3 DEF ThreadInv, PointerInv, NullInv, WindowInv
    <3> QED BY <3>2, <3>3
  <2> QED BY <2>1, <2>2
<1>10. th' \in [Threads -> Local]
  BY <1>2, <1>9
<1>11. LastTagKept'
  <2> SUFFICES ASSUME NEW b \in Bytes, b \notin raced' PROVE Lookup(b)' = last'[b]
    BY DEF LastTagKept
  <2>1. b \notin raced
    BY <1>1
  <2>2. CASE b = B
    BY <1>l, <2>1, <2>2, WriteLookup
  <2>3. CASE b # B
    BY <1>l, <2>1, <2>3, WriteLookup DEF DirectoryInv, LastTagKept
  <2> QED BY <2>2, <2>3
<1>12. FaultNeedsFailure'
  BY <1>1 DEF FaultNeedsFailure
<1> QED BY <1>3, <1>9, <1>10, <1>11, <1>12 DEF DirectoryInv

-----------------------------------------------------------------------------
(* The invariant holds in every reachable state, for every size of the        *)
(* directory, every number of threads and every interleaving of their steps.  *)
THEOREM DirectoryCorrect == Spec => []DirectoryInv
<1>1. Init => DirectoryInv
  <2> SUFFICES ASSUME Init PROVE DirectoryInv
    OBVIOUS
  <2>1. cleared_val \in TagValues
    BY DEF TagValues
  <2>2. /\ dir \in [0 .. DIR_SZ - 1 -> Nat] /\ tables = <<>> /\ pages = <<>>
        /\ last \in [Bytes -> TagValues] /\ raced = {} /\ detaching = FALSE /\ crashed = FALSE
        /\ \A i \in 0 .. DIR_SZ - 1 : dir[i] = NULL
        /\ \A b \in Bytes : last[b] = cleared_val
        /\ th \in [Threads -> Local] /\ \A t \in Threads : th[t] = Idle
    BY <2>1, IdleOK DEF Init, NULL
  <2>3. HeapInv
    <3>1. Len(tables) = 0 /\ Len(pages) = 0
      BY <2>2
    <3>2. tables \in Seq([0 .. DIR_TABLE_SZ - 1 -> Nat]) /\ pages \in Seq([0 .. DIR_PAGE_SZ - 1 -> TagValues])
      BY <2>2
    <3>3. \A x \in 1 .. Len(tables) : FALSE
      BY <3>1
    <3>4. /\ \A i \in 0 .. DIR_SZ - 1 : dir[i] <= Len(tables)
          /\ \A i, j \in 0 .. DIR_SZ - 1 : dir[i] # NULL /\ dir[i] = dir[j] => i = j
      BY <2>2, <3>1 DEF NULL
    <3>5. raced \subseteq Bytes /\ detaching \in BOOLEAN /\ crashed \in BOOLEAN
      BY <2>2
    <3> QED BY <2>2, <3>2, <3>3, <3>4, <3>5, Zenon DEF HeapInv
  <2>4. \A t \in Threads : ThreadInv(th[t])
    BY <2>2, <2>3, IdleOK, NoPointer
  <2>5. LastTagKept
    <3> SUFFICES ASSUME NEW b \in Bytes PROVE Lookup(b) = last[b]
      BY DEF LastTagKept
    <3>1. b \in Nat
      BY BytesDiffer
    <3>2. virt2table(b) \in 0 .. DIR_SZ - 1
      BY <3>1, SlotRange
    <3> QED BY <2>2, <3>2 DEF Lookup
  <2>6. FaultNeedsFailure
    BY <2>2 DEF FaultNeedsFailure
  <2> QED BY <2>2, <2>3, <2>4, <2>5, <2>6 DEF DirectoryInv
<1>2. DirectoryInv /\ [Next]_vars => DirectoryInv'
  <2> SUFFICES ASSUME DirectoryInv, [Next]_vars PROVE DirectoryInv'
    OBVIOUS
  <2>1. CASE UNCHANGED vars
    BY <2>1 DEF vars, DirectoryInv, HeapInv, ThreadInv, PointerInv, NullInv, WindowInv,
                LastTagKept, Lookup, FaultNeedsFailure
  <2>2. CASE Next
    <3>1. PICK t \in Threads : Step(t)
      BY <2>2 DEF Next
    <3> QED BY <3>1, BeginSteps, SetWalk, GetWalk, TableStep, PageStep, PageFailsStep, WriteStep
            DEF Step
  <2> QED BY <2>1, <2>2
<1> QED BY <1>1, <1>2, PTL DEF Spec

(* Every pointer of tagmap_custom.h, in the directory, in a table or in a     *)
(* thread, refers to an object that exists: Spec => []TypeOK.                 *)
THEOREM TypeCorrect == Spec => []TypeOK
<1>1. DirectoryInv => TypeOK
  <2> SUFFICES ASSUME DirectoryInv PROVE TypeOK
    OBVIOUS
  <2>1. /\ HeapInv /\ th \in [Threads -> Local]
        /\ \A t \in Threads : th[t] \in Local /\ PointerInv(th[t])
    BY DEF DirectoryInv, ThreadInv
  <2>2. Len(tables) \in Nat /\ Len(pages) \in Nat
    BY <2>1, HeapTypes
  <2>3. dir \in [0 .. DIR_SZ - 1 -> 0 .. Len(tables)]
    <3>1. /\ dir \in [0 .. DIR_SZ - 1 -> Nat]
          /\ \A i \in 0 .. DIR_SZ - 1 : dir[i] <= Len(tables)
      BY <2>1 DEF HeapInv
    <3> QED BY <2>2, <3>1
  <2>4. \A x \in DOMAIN tables : tables[x] \in [0 .. DIR_TABLE_SZ - 1 -> 0 .. Len(pages)]
    <3> SUFFICES ASSUME NEW x \in DOMAIN tables
                 PROVE  tables[x] \in [0 .. DIR_TABLE_SZ - 1 -> 0 .. Len(pages)]
      OBVIOUS
    <3>1. x \in 1 .. Len(tables)
      BY <2>1 DEF HeapInv
    <3>2. /\ tables[x] \in [0 .. DIR_TABLE_SZ - 1 -> Nat]
          /\ \A i \in 0 .. DIR_TABLE_SZ - 1 : tables[x][i] \in Nat /\ tables[x][i] <= Len(pages)
      BY <2>1, <3>1, HeapTypes
    <3> QED BY <2>2, <3>2
  <2>5. \A x \in DOMAIN pages : pages[x] \in [0 .. DIR_PAGE_SZ - 1 -> TagValues]
    <3>1. DOMAIN pages = 1 .. Len(pages)
      BY <2>1 DEF HeapInv
    <3> QED BY <2>1, <3>1, HeapTypes
  <2>6. ASSUME NEW t \in Threads
        PROVE  /\ th[t].pc \in Pcs
               /\ th[t].table \in 0 .. Len(tables) /\ th[t].page \in 0 .. Len(pages)
               /\ th[t].tag \in TagValues
               /\ th[t].pc \in {"write", "gettag"} => th[t].page # NULL
    <3>1. /\ th[t].pc \in Pcs /\ th[t].tag \in TagValues
          /\ th[t].table \in Nat /\ th[t].page \in Nat
      BY <2>1 DEF Local
    <3>2. /\ th[t].table <= Len(tables) /\ th[t].page <= Len(pages)
          /\ th[t].pc \in {"write", "gettag"} => th[t].page # NULL
      BY <2>1 DEF PointerInv
    <3> QED BY <2>2, <3>1, <3>2
  <2>7. /\ detaching \in BOOLEAN /\ crashed \in BOOLEAN
        /\ last \in [Bytes -> TagValues] /\ raced \subseteq Bytes
    BY <2>1 DEF HeapInv
  <2> QED BY <2>3, <2>4, <2>5, <2>6, <2>7 DEF TypeOK
<1> QED BY <1>1, DirectoryCorrect, PTL

(* tag_dir_getb answers the tag last assigned to a byte, unless two threads   *)
(* in tag_dir_setb stored its table or its page one over the other.           *)
THEOREM TagsKept == Spec => []LastTagKept
<1>1. DirectoryInv => LastTagKept
  BY DEF DirectoryInv
<1> QED BY <1>1, DirectoryCorrect, PTL

(* A lookup that overlaps sets, clears and allocations of other threads finds *)
(* a tag the byte had while tag_dir_getb ran, with the same exception.        *)
THEOREM LookupsInWindow == Spec => []LookupInWindow
<1>1. DirectoryInv => LookupInWindow
  BY DEF DirectoryInv, ThreadInv, WindowInv, LookupInWindow
<1> QED BY <1>1, DirectoryCorrect, PTL

(* tag_dir_setb and tag_dir_getb meet a NULL pointer only after libdft_die    *)
(* reported a failed allocation.                                              *)
THEOREM FaultsNeedFailure == Spec => []FaultNeedsFailure
<1>1. DirectoryInv => FaultNeedsFailure
  BY DEF DirectoryInv
<1> QED BY <1>1, DirectoryCorrect, PTL

-----------------------------------------------------------------------------
(* A step after which every byte is answered as before is a stutter of the    *)
(* map.                                                                       *)
LEMMA Unseen ==
    ASSUME UNCHANGED <<dir, tables, pages>> PROVE UNCHANGED [b \in Bytes |-> Lookup(b)]
BY DEF Lookup

(* The directory implements the map from bytes to tags: storing a table or a  *)
(* page forgets the region or is not seen, writing a tag assigns it to its    *)
(* byte or is not seen, and no other step is seen.                            *)
THEOREM DirectoryServesMap == Spec => ServesMap
<1> DEFINE tags == [b \in Bytes |-> Lookup(b)]
           regions == {InTable(b) : b \in Bytes} \cup {InPage(b) : b \in Bytes}
<1>1. Init => Map!Init
  <2> SUFFICES ASSUME Init PROVE \A b \in Bytes : Lookup(b) = cleared_val
    BY DEF Map!Init
  <2> TAKE b \in Bytes
  <2>1. virt2table(b) \in 0 .. DIR_SZ - 1
    BY BytesDiffer, SlotRange
  <2> QED BY <2>1 DEF Init, Lookup
<1>2. DirectoryInv /\ [Next]_vars => [Map!Next]_tags
  <2> SUFFICES ASSUME DirectoryInv, [Next]_vars PROVE Map!Next \/ UNCHANGED tags
    OBVIOUS
  <2>1. ASSUME NEW t \in Threads, PublishTable(t) \/ TableFails(t) PROVE Map!Next
    <3> DEFINE a == th[t].addr
    <3>1. a \in Nat
      BY DEF DirectoryInv, Local
    <3>2. \A b \in Bytes : Lookup(b)' = IF b \in InTable(a) THEN cleared_val ELSE Lookup(b)
      BY <2>1, TableLookup
    <3>3. InTable(a) \in regions
      BY <3>1, Regions, SlotRange
    <3>4. tags' = [b \in Bytes |-> IF b \in InTable(a) THEN cleared_val ELSE tags[b]]
      BY <3>2
    <3> QED BY <3>3, <3>4 DEF Map!Next, Map!Forget
  <2>2. ASSUME NEW t \in Threads, PublishPage(t) PROVE Map!Next \/ UNCHANGED tags
    <3> DEFINE a == th[t].addr
    <3>1. a \in Nat
      BY DEF DirectoryInv, Local
    <3>2. CASE dir[virt2table(a)] = th[t].table
      <4>1. \A b \in Bytes : Lookup(b)' = IF b \in InPage(a) THEN cleared_val ELSE Lookup(b)
        BY <2>2, <3>2, PageLookup
      <4>2. InPage(a) \in regions
        BY <3>1, Regions, SlotRange
      <4>3. tags' = [b \in Bytes |-> IF b \in InPage(a) THEN cleared_val ELSE tags[b]]
        BY <4>1
      <4> QED BY <4>2, <4>3 DEF Map!Next, Map!Forget
    <3>3. CASE dir[virt2table(a)] # th[t].table
      <4>1. \A b \in Bytes : Lookup(b)' = Lookup(b)
        BY <2>2, <3>3, PageLookup
      <4> QED BY <4>1
    <3> QED BY <3>2, <3>3
  <2>3. ASSUME NEW t \in Threads, WriteTag(t) PROVE Map!Next \/ UNCHANGED tags
    <3> DEFINE B == Byte(th[t].addr)  tag == th[t].tag
    <3>1. B \in Bytes /\ tag \in TagValues
      BY SlotRange DEF DirectoryInv, Local
    <3>2. \A b \in Bytes : b # B => Lookup(b)' = Lookup(b)
      BY <2>3, WriteLookup
    <3> HIDE DEF B, tag
    <3>3. CASE \A b \in Bytes : b = B => Lookup(b)' = tag
      <4>1. tags' = [tags EXCEPT ![B] = tag]
        BY <3>2, <3>3
      <4> QED BY <3>1, <4>1 DEF Map!Next, Map!Assign
    <3>4. CASE \A b \in Bytes : Lookup(b)' = Lookup(b)
      BY <3>4
    <3> QED BY <2>3, <3>2, <3>3, <3>4, WriteLookup DEF B, tag
  <2>4. CASE UNCHANGED vars
    BY <2>4, Unseen DEF vars
  <2>5. CASE Next
    <3>1. PICK t \in Threads : Step(t)
      <4> QED BY <2>5 DEF Next
    <3>2. CASE PublishTable(t) \/ TableFails(t) \/ PublishPage(t) \/ WriteTag(t)
      BY <2>1, <2>2, <2>3, <3>2
    <3>3. CASE ~(PublishTable(t) \/ TableFails(t) \/ PublishPage(t) \/ WriteTag(t))
      <4>1. UNCHANGED <<dir, tables, pages>>
        BY <3>1, <3>3 DEF Step, tagmap_set, tagmap_clr, tagmap_get, tagmap_setb_with_tags, Begin,
              NextByte, Return, CheckDir, LoadTable, CheckPage, PageFails, LoadPage, GetDir,
              GetTable, GetEntry, GetPage, GetTag, Combine, Fault, Heap
      <4> QED BY <4>1, Unseen
    <3> QED BY <3>2, <3>3
  <2> QED BY <2>4, <2>5
<1> QED BY <1>1, <1>2, DirectoryCorrect, PTL DEF Spec, ServesMap, Map!Spec
===============================================================================
