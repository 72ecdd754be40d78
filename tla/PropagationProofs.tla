-------------------------- MODULE PropagationProofs --------------------------
(***************************************************************************)
(* For any registers, widths, memory, sources and number of instructions:   *)
(* a program of plain instructions, imul, div and leave never loses a flow; *)
(* one of plain instructions, extensions, divisions, shifts, vector moves   *)
(* and leave, without 32-bit operands, never has a stale tag; and every     *)
(* program keeps the types.                                                 *)
(***************************************************************************)
EXTENDS Propagation, TLAPS

\* The order on maps from bytes to tags in which NoLostFlow is stated.
Below(b, a) == \A l \in Loc : b[l] \subseteq a[l]

\* An operand whose bytes are bytes of the machine.
Inside(d) ==
    /\ d.off \in Nat /\ d.len \in Nat
    /\ \A k \in Nat : d.off <= k /\ k < d.off + d.len => <<d.base, k>> \in Loc

\* The bytes of a location are numbered.
LEMMA LocByte == ASSUME NEW l \in Loc PROVE l = <<l[1], l[2]>> /\ l[2] \in Nat
BY PropagationAssumption DEF Loc

\* Operands of the instructions lie inside the registers and the memory.
LEMMA OperandInside == ASSUME NEW d \in Operand PROVE Inside(d)
<1>1. CASE d \in RegOperand
  <2>1. d.base \in Regs /\ d.off \in Nat /\ d.len \in Nat /\ d.off + d.len <= Q
    BY <1>1, PropagationAssumption DEF RegOperand, Reg, Op
  <2> QED BY <2>1, PropagationAssumption DEF Inside, Loc, Files
<1>2. CASE d \in MemOperand
  <2>1. d.base = Mem /\ d.off \in Nat /\ d.len \in Nat /\ d.off + d.len <= Size
    BY <1>2, PropagationAssumption DEF MemOperand, Op
  <2> QED BY <2>1, PropagationAssumption DEF Inside, Loc
<1> QED BY <1>1, <1>2 DEF Operand

\* The byte of s that stands for a byte of d is a byte of the machine.
LEMMA TwinInside ==
    ASSUME NEW l \in Loc, NEW d, NEW s, Inside(d), Inside(s), d.len = s.len, At(d, l)
    PROVE  Twin(l, d, s) \in Loc
<1>1. l[2] \in Nat /\ l[2] - d.off \in Nat /\ l[2] - d.off < s.len
  BY LocByte DEF Inside, At
<1> QED BY <1>1 DEF Twin, Inside

\* Every routine is monotone: a larger map stays larger.
LEMMA XferMono ==
    ASSUME NEW a, NEW b, Below(b, a), NEW d, NEW s, Inside(d), Inside(s), d.len = s.len
    PROVE  Below(Xfer(b, d, s), Xfer(a, d, s))
BY TwinInside DEF Below, Xfer

LEMMA CombineMono ==
    ASSUME NEW a, NEW b, Below(b, a), NEW d, NEW s, Inside(d), Inside(s), d.len = s.len
    PROVE  Below(Combine(b, d, s), Combine(a, d, s))
BY TwinInside DEF Below, Combine

LEMMA ClrMono == ASSUME NEW a, NEW b, Below(b, a), NEW d PROVE Below(Clr(b, d), Clr(a, d))
BY DEF Below, Clr

LEMMA ClrBelow == ASSUME NEW a, NEW b, Below(b, a), NEW d PROVE Below(Clr(b, d), a)
BY DEF Below, Clr

\* The zeroes the processor adds only lower the lower bound.
LEMMA ZxBelow == ASSUME NEW a, NEW b, Below(b, a), NEW d PROVE Below(Zx(b, d), a)
BY ClrBelow DEF Zx

\* A named register is an operand inside the machine, at any width.
LEMMA RegInside ==
    ASSUME NEW r \in {RAX, RDX, RBP, RSP, Scratch}, NEW n \in {1, W, L, Q}
    PROVE  Inside(Reg(r, n))
BY PropagationAssumption DEF Inside, Reg, Op, Loc, Files

\* The bytes of an operand that only moves are also those it would combine.
LEMMA XferCombine ==
    ASSUME NEW a, NEW b, Below(b, a), NEW d, NEW s, Inside(d), Inside(s), d.len = s.len
    PROVE  Below(Xfer(b, d, s), Combine(a, d, s))
BY TwinInside DEF Below, Xfer, Combine

LEMMA SwapMono ==
    ASSUME NEW a, NEW b, Below(b, a), NEW d, NEW s, Inside(d), Inside(s), d.len = s.len
    PROVE  Below(Swap(b, d, s), Swap(a, d, s))
BY TwinInside DEF Below, Swap

LEMMA XaddMono ==
    ASSUME NEW a, NEW b, Below(b, a), NEW d, NEW s, Inside(d), Inside(s), d.len = s.len
    PROVE  Below(Xadd(b, d, s), Xadd(a, d, s))
BY TwinInside DEF Below, Xadd

\* The bytes of rAX that rep stos repeats.
LEMMA StosnInside ==
    ASSUME NEW lo \in Nat, NEW n \in {1, W, L, Q}, NEW l \in Loc, lo <= l[2]
    PROVE  <<RAX, (l[2] - lo) % n>> \in Loc
<1>1. l[2] - lo \in Nat /\ n \in Nat \ {0} /\ n <= Q
  BY LocByte, PropagationAssumption
<1>2. (l[2] - lo) % n \in 0 .. Q - 1
  BY <1>1, PropagationAssumption
<1>3. QED BY <1>2 DEF Loc, Files

LEMMA StosnMono ==
    ASSUME NEW a, NEW b, Below(b, a), NEW lo \in Nat, NEW n \in {1, W, L, Q}, NEW c \in Nat
    PROVE  Below(Stosn(b, lo, n, c), Stosn(a, lo, n, c))
BY StosnInside DEF Below, Stosn

\* The byte of the operand of a division that a byte of its result takes.
LEMMA PairInside ==
    ASSUME NEW s, Inside(s), s.len \in {1, W, L, Q}, NEW l \in Loc, InPair(l, s.len)
    PROVE  <<s.base, s.off + IF s.len = 1 THEN 0 ELSE l[2]>> \in Loc
<1>1. CASE s.len = 1
  BY <1>1 DEF Inside
<1>2. CASE s.len # 1
  <2>1. l[2] \in Nat /\ l[2] < s.len
    BY <1>2, LocByte DEF InPair
  <2>2. QED BY <1>2, <2>1 DEF Inside
<1>3. QED BY <1>1, <1>2

\* div and mul give both halves of their result the tags of the operand.
LEMMA CombinePairMono ==
    ASSUME NEW a, NEW b, Below(b, a), NEW s, Inside(s), s.len \in {1, W, L, Q}
    PROVE  Below(CombinePair(b, s), CombinePair(a, s))
BY PairInside DEF Below, CombinePair

\* movzx: the bytes it adds have no tags and no flow.
LEMMA ExtendMono ==
    ASSUME NEW a, NEW b, Below(b, a), NEW d, NEW s, Inside(Low(d, s)), Inside(s)
    PROVE  Below(Extend(b, d, s), Extend(a, d, s))
<1>1. Low(d, s).len = s.len
  BY DEF Low, Op
<1> QED BY <1>1, XferMono, ClrMono DEF Extend

-----------------------------------------------------------------------------
(* No flow is lost *)

\* The scratch register is not one of the processor: no data is ever in it.
ScratchEmpty == \A l \in Loc : l[1] = Scratch => must[l] = {}

FlowInv == NoLostFlow /\ ScratchEmpty

\* Operands are not in the scratch register.
LEMMA OperandBase == ASSUME NEW d \in Operand PROVE d.base # Scratch
BY PropagationAssumption DEF Operand, RegOperand, MemOperand, Reg, Op

\* The widths of operands.
LEMMA OperandLen == ASSUME NEW d \in Operand PROVE d.len \in {1, W, L, Q}
BY PropagationAssumption DEF Operand, RegOperand, MemOperand, Reg, Op

\* Outside the scratch register both paths of cmpxchg are the moves they stand for.
LEMMA CmpxchgPaths ==
    ASSUME NEW t, NEW d \in Operand, NEW s \in RegOperand, d.len = s.len,
           NEW a, a = Reg(RAX, d.len), NEW l \in Loc, l[1] # Scratch
    PROVE  /\ cmpxchg_fast(t, a, d)[l] = Xfer(t, a, d)[l]
           /\ cmpxchg_slow(cmpxchg_fast(t, a, d), a, d, s)[l] = Xfer(t, d, s)[l]
<1> DEFINE c == Reg(Scratch, d.len)
           t0 == Clr(t, Reg(Scratch, Q))
           t1 == Xfer(t0, c, a)
           t2 == Xfer(t1, a, d)
           t3 == Xfer(t2, a, c)
<1>1. d.base # Scratch /\ s.base # Scratch /\ s \in Operand /\ a.base # Scratch
  BY OperandBase, PropagationAssumption DEF Operand, Reg, Op
<1>2. Inside(d) /\ Inside(s) /\ Inside(a) /\ Inside(c) /\ a.len = d.len /\ c.len = d.len
  BY <1>1, OperandInside, OperandLen, RegInside DEF Reg, Op
<1>3. \A m \in Loc : m[1] # Scratch => t1[m] = t[m]
  BY DEF Xfer, Clr, At, Reg, Op
<1>4. ASSUME NEW m \in Loc, m[1] # Scratch, At(a, m)
      PROVE  Twin(m, a, d) \in Loc /\ Twin(m, a, d)[1] # Scratch
  BY <1>1, <1>2, <1>4, TwinInside DEF Twin
<1>5. t2[l] = Xfer(t, a, d)[l]
  BY <1>3, <1>4 DEF Xfer
<1>6. ASSUME NEW m \in Loc, m[1] # Scratch PROVE t3[m] = t[m]
  <2>1. CASE At(a, m)
    <3>1. Twin(m, a, c) \in Loc /\ At(c, Twin(m, a, c)) /\ ~At(a, Twin(m, a, c))
      <4>1. Twin(m, a, c) \in Loc
        BY <1>2, <2>1, TwinInside
      <4>2. Twin(m, a, c) = <<Scratch, m[2]>> /\ m[2] \in Nat
        BY LocByte DEF Twin, Reg, Op
      <4> QED BY <4>1, <4>2, <1>1, <2>1 DEF At, Reg, Op
    <3>2. t3[m] = t2[Twin(m, a, c)] /\ t2[Twin(m, a, c)] = t1[Twin(m, a, c)]
      BY <3>1, <2>1 DEF Xfer
    <3>3. t1[Twin(m, a, c)] = t0[Twin(Twin(m, a, c), c, a)]
      BY <3>1 DEF Xfer
    <3>4. Twin(Twin(m, a, c), c, a) = m
      <4>1. m = <<RAX, m[2]>> /\ m[2] \in Nat
        BY <1>6, <2>1, LocByte DEF At, Reg, Op
      <4> QED BY <4>1 DEF Twin, Reg, Op
    <3>5. t0[m] = t[m]
      BY <1>6 DEF Clr, At, Reg, Op
    <3> QED BY <3>2, <3>3, <3>4, <3>5
  <2>2. CASE ~At(a, m)
    <3>1. t3[m] = t2[m] /\ t2[m] = t1[m]
      BY <2>2 DEF Xfer
    <3> QED BY <3>1, <1>3, <1>6
  <2> QED BY <2>1, <2>2
<1>7. ASSUME At(d, l) PROVE Twin(l, d, s) \in Loc /\ Twin(l, d, s)[1] # Scratch
  BY <1>1, <1>2, <1>7, TwinInside DEF Twin
<1>8. Xfer(t3, d, s)[l] = Xfer(t, d, s)[l]
  BY <1>6, <1>7 DEF Xfer
<1> QED BY <1>5, <1>8 DEF cmpxchg_fast, cmpxchg_slow

LEMMA LeaMono ==
    ASSUME NEW a, NEW b, Below(b, a), NEW d, NEW x, NEW y, Inside(d), Inside(x), Inside(y),
           d.len = x.len, d.len = y.len
    PROVE  Below(lea_r2r(b, d, x, y), lea_r2r(a, d, x, y))
BY TwinInside DEF Below, lea_r2r

\* An instruction that writes d keeps the invariant when the tags it leaves cover
\* what the processor moves.
LEMMA CpuKeeps ==
    ASSUME FlowInv, NEW d, d.base # Scratch, NEW f, must' = Zx(f, d), Below(f, tags'),
           \A l \in Loc : l[1] = Scratch => f[l] = {}
    PROVE  FlowInv'
<1>1. Below(must', tags')
  BY ZxBelow
<1>2. \A l \in Loc : l[1] = Scratch => Zx(f, d)[l] = {}
  BY DEF Zx, Clr
<1> QED BY <1>1, <1>2 DEF FlowInv, NoLostFlow, ScratchEmpty, Below

\* The classes of instructions that follow every flow.
Sound == {"plain", "imul3", "div", "leave"}

\* The invariant is kept by each instruction of these classes.
LEMMA FlowStep ==
    ASSUME Program \subseteq Sound, FlowInv, [Next]_vars
    PROVE  FlowInv'
<1> USE DEF FlowInv
<1>a. Below(must, tags)
  BY DEF NoLostFlow, Below
<1>b. \A l \in Loc : l[1] = Scratch => must[l] = {}
  BY DEF ScratchEmpty
<1>c. "extend" \notin Program /\ "memdiv" \notin Program /\ "mul" \notin Program
      /\ "shift" \notin Program /\ "sse" \notin Program /\ "bitscan" \notin Program
      /\ "std" \notin Program /\ "lea32" \notin Program /\ "cmpxchg8" \notin Program
  BY DEF Sound
<1>d. RAX # Scratch /\ RDX # Scratch /\ RBP # Scratch /\ RSP # Scratch /\ Mem # Scratch
  BY PropagationAssumption
<1>1. ASSUME ClearPair PROVE FlowInv'
  <2>1. must' = r_clrl2(must) /\ tags' = r_clrl2(tags)
    BY <1>1 DEF ClearPair
  <2>2. Below(must', tags')
    BY <2>1, <1>a, ClrMono DEF r_clrl2
  <2>3. \A l \in Loc : l[1] = Scratch => must'[l] = {}
    BY <2>1, <1>b DEF r_clrl2, Clr
  <2> QED BY <2>2, <2>3 DEF Below, NoLostFlow, ScratchEmpty
<1>2. ASSUME NEW d \in Operand, MovImm(d) \/ PushClear(d) \/ Clear(d) \/ ClearIdiom(d) \/ LeaClear(d)
      PROVE  FlowInv'
  <2>1. must' = Zx(Clr(must, d), d) /\ tags' = Clr(tags, d)
    BY <1>2 DEF MovImm, PushClear, Clear, ClearIdiom, LeaClear, r_clr, tagmap_clr, CpuClear, Cpu
  <2>2. \A l \in Loc : l[1] = Scratch => Clr(must, d)[l] = {}
    BY <1>b DEF Clr
  <2> QED BY <2>1, <2>2, <1>a, ClrMono, OperandBase, CpuKeeps
<1>3. ASSUME NEW d \in Operand, BinaryImm(d) PROVE FlowInv'
  <2>1. must' = Zx(must, d) /\ tags' = tags
    BY <1>3 DEF BinaryImm, Cpu
  <2> QED BY <2>1, <1>a, <1>b, OperandBase, CpuKeeps
<1>4. ASSUME NEW s \in MemOperand, Lods(s) PROVE FlowInv'
  <2> DEFINE d == Reg(RAX, s.len)
  <2>1. must' = Zx(Xfer(must, d, s), d) /\ tags' = Xfer(tags, d, s)
    BY <1>4 DEF Lods, CpuMove, Cpu
  <2>2. s \in Operand /\ Inside(s) /\ Inside(d) /\ d.len = s.len /\ d.base = RAX
    BY OperandInside, OperandLen, RegInside DEF Operand, Reg, Op
  <2>3. \A l \in Loc : l[1] = Scratch => Xfer(must, d, s)[l] = {}
    BY <1>b, <1>d, <2>2 DEF Xfer, At
  <2> HIDE DEF d
  <2> QED BY <2>1, <2>2, <2>3, <1>a, <1>d, XferMono, CpuKeeps
<1>5. ASSUME NEW s \in RegOperand, Div(s) PROVE FlowInv'
  <2>1. must' = ZxPair(CombinePair(must, s), s.len) /\ tags' = CombinePair(tags, s)
    BY <1>5 DEF Div, r2r_ternary, CpuDiv
  <2>2. s \in Operand /\ Inside(s) /\ s.len \in {1, W, L, Q}
    BY OperandInside, OperandLen DEF Operand
  <2>3. Below(CombinePair(must, s), tags')
    BY <2>1, <2>2, <1>a, CombinePairMono
  <2>4. \A l \in Loc : l[1] = Scratch => CombinePair(must, s)[l] = {}
    BY <1>b, <1>d DEF CombinePair, InPair
  <2>5. /\ Below(Zx(CombinePair(must, s), Reg(RAX, s.len)), tags')
        /\ \A l \in Loc : l[1] = Scratch => Zx(CombinePair(must, s), Reg(RAX, s.len))[l] = {}
    BY <2>3, <2>4, ZxBelow DEF Zx, Clr
  <2>6. Reg(RDX, s.len).base = RDX
    BY DEF Reg, Op
  <2> QED BY <2>1, <2>5, <2>6, <1>d, CpuKeeps DEF ZxPair
<1>6. ASSUME NEW s \in MemOperand, Leave(s) PROVE FlowInv'
  <2> DEFINE sp == Reg(RSP, Q)
             bp == Reg(RBP, Q)
             w == Reg(Scratch, W)
             f(t) == Xfer(Xfer(t, sp, bp), bp, s)
  <2>1. must' = f(must) /\ tags' = Xfer(f(tags), w, Op(Mem, s.off, W)) /\ s.len = Q
    BY <1>6 DEF Leave
  <2>2. s \in Operand /\ Inside(s) /\ Inside(sp) /\ Inside(bp) /\ sp.len = Q /\ bp.len = Q
        /\ sp.base # Scratch /\ bp.base # Scratch /\ w.base = Scratch
    BY OperandInside, RegInside, <1>d DEF Operand, Reg, Op
  <2> HIDE DEF sp, bp, w
  <2>3. Below(f(must), f(tags))
    BY <2>1, <2>2, <1>a, XferMono
  <2>4. \A l \in Loc : l[1] = Scratch => f(must)[l] = {}
    BY <1>b, <2>2 DEF Xfer, At
  <2>5. \A l \in Loc : l[1] # Scratch => tags'[l] = f(tags)[l]
    BY <2>1, <2>2 DEF Xfer, At
  <2> QED BY <2>1, <2>3, <2>4, <2>5 DEF Below, NoLostFlow, ScratchEmpty
<1>7. ASSUME NEW d \in Operand, NEW s \in Operand,
             Mov(d, s) \/ Movs(d, s) \/ Push(d, s) \/ Pop(d, s) \/ Binary(d, s) \/ Imul3(d, s)
      PROVE  FlowInv'
  <2>1. Inside(d) /\ Inside(s) /\ d.base # Scratch /\ d.len = s.len
    BY <1>7, OperandInside, OperandBase DEF Mov, MovRegs, MovLoad, MovStore, Movs, Push, Pop,
          Binary, BinaryRegs, BinaryMem, Imul3
  <2>2. /\ \A l \in Loc : l[1] = Scratch => Xfer(must, d, s)[l] = {}
        /\ \A l \in Loc : l[1] = Scratch => Combine(must, d, s)[l] = {}
    BY <1>b, <2>1 DEF Xfer, Combine, At
  <2>3. CASE Mov(d, s) \/ Movs(d, s) \/ Push(d, s) \/ Pop(d, s)
    <3>1. must' = Zx(Xfer(must, d, s), d) /\ tags' = Xfer(tags, d, s)
      BY <2>3 DEF Mov, MovRegs, MovLoad, MovStore, Movs, Push, Pop,
            r2r_xfer, m2r_xfer, r2m_xfer, m2m_xfer, CpuMove, Cpu
    <3> QED BY <3>1, <2>1, <2>2, <1>a, XferMono, CpuKeeps
  <2>4. CASE Binary(d, s)
    <3>1. must' = Zx(Combine(must, d, s), d) /\ tags' = Combine(tags, d, s)
      BY <2>4 DEF Binary, BinaryRegs, BinaryMem, r2r_binary, m2r_binary, r2m_binary, CpuArith, Cpu
    <3> QED BY <3>1, <2>1, <2>2, <1>a, CombineMono, CpuKeeps
  <2>5. CASE Imul3(d, s)
    <3>1. must' = Zx(Xfer(must, d, s), d) /\ tags' = Combine(tags, d, s)
      BY <2>5 DEF Imul3, r2r_binary, m2r_binary, Cpu
    <3> QED BY <3>1, <2>1, <2>2, <1>a, XferCombine, CpuKeeps
  <2> QED BY <1>7, <2>3, <2>4, <2>5
<1>8. ASSUME NEW d \in Operand, NEW s \in Operand, Movzx(d, s) PROVE FlowInv'
  <2>1. must' = Zx(Extend(must, d, s), d) /\ tags' = Extend(tags, d, s) /\ s.len < d.len
    BY <1>8 DEF Movzx, MovzxReg, MovzxMem, movzx_r2r, movzx_r2r_opq, movzx_m2r, movzx_m2r_opq,
          Widen, CpuZeroExtend, Cpu
  <2>2. Inside(s) /\ Inside(Low(d, s)) /\ d.base # Scratch
    <3>1. Inside(d) /\ Inside(s) /\ d.base # Scratch
      BY OperandInside, OperandBase
    <3> QED BY <3>1, <2>1 DEF Inside, Low, Op
  <2>3. \A l \in Loc : l[1] = Scratch => Extend(must, d, s)[l] = {}
    BY <1>b, <2>2 DEF Extend, Clr, Xfer, At, Low, Op
  <2> QED BY <2>1, <2>2, <2>3, <1>a, ExtendMono, CpuKeeps
<1>9. ASSUME NEW d \in Operand, NEW s \in Operand, Xchg(d, s) \/ XaddIns(d, s) PROVE FlowInv'
  <2>1. Inside(d) /\ Inside(s) /\ d.base # Scratch /\ s.base # Scratch /\ d.len = s.len
    BY <1>9, OperandInside, OperandBase DEF Xchg, XchgRegs, XchgMem, XaddIns, XaddRegs, XaddMem
  <2>2. PICK f : /\ must' = Zx(Zx(f, d), s)
                 /\ Below(f, tags')
                 /\ \A l \in Loc : l[1] = Scratch => f[l] = {}
    <3>1. CASE Xchg(d, s)
      <4>1. must' = Zx(Zx(Swap(must, d, s), d), s) /\ tags' = Swap(tags, d, s)
        BY <3>1 DEF Xchg, XchgRegs, XchgMem, CpuSwap, xchg_r2r, xchg_m2r, xchg_m2r_opb
      <4>2. \A l \in Loc : l[1] = Scratch => Swap(must, d, s)[l] = {}
        BY <1>b, <2>1 DEF Swap, At
      <4> QED BY <4>1, <4>2, <2>1, <1>a, SwapMono
    <3>2. CASE XaddIns(d, s)
      <4>1. must' = Zx(Zx(Xadd(must, d, s), d), s) /\ tags' = Xadd(tags, d, s)
        BY <3>2 DEF XaddIns, XaddRegs, XaddMem, CpuXadd, xadd_r2r, xadd_r2m,
            xadd_r2m_op, xadd_r2m_opb
      <4>2. \A l \in Loc : l[1] = Scratch => Xadd(must, d, s)[l] = {}
        BY <1>b, <2>1 DEF Xadd, At
      <4> QED BY <4>1, <4>2, <2>1, <1>a, XaddMono
    <3> QED BY <1>9, <3>1, <3>2
  <2>3. Below(Zx(f, d), tags') /\ \A l \in Loc : l[1] = Scratch => Zx(f, d)[l] = {}
    BY <2>2, ZxBelow DEF Zx, Clr
  <2> QED BY <2>1, <2>2, <2>3, CpuKeeps
<1>10. ASSUME NEW d \in Operand, NEW s \in Operand, NEW equal \in BOOLEAN, Cmpxchg(d, s, equal)
       PROVE  FlowInv'
  <2> DEFINE a == Reg(RAX, d.len)
  <2>1. s \in RegOperand /\ d.len = s.len
    BY <1>10 DEF Cmpxchg
  <2>2. Inside(d) /\ Inside(s) /\ Inside(a) /\ a.len = d.len /\ d.base # Scratch /\ a.base # Scratch
    BY <1>d, OperandInside, OperandBase, OperandLen, RegInside DEF Reg, Op
  <2>3. CASE equal
    <3>1. /\ must' = Zx(Xfer(must, d, s), d)
          /\ tags' = cmpxchg_slow(cmpxchg_fast(tags, a, d), a, d, s)
      BY <1>10, <2>3 DEF Cmpxchg, cmpxchg, CpuMove, Cpu
    <3>2. \A l \in Loc : l[1] = Scratch => Xfer(must, d, s)[l] = {}
      BY <1>b, <2>2 DEF Xfer, At
    <3>3. \A l \in Loc : l[1] # Scratch => tags'[l] = Xfer(tags, d, s)[l]
      BY <3>1, <2>1, CmpxchgPaths
    <3>4. Below(Xfer(must, d, s), Xfer(tags, d, s))
      BY <2>1, <2>2, <1>a, XferMono
    <3>5. Below(Xfer(must, d, s), tags')
      BY <3>2, <3>3, <3>4 DEF Below
    <3> QED BY <3>1, <3>2, <3>5, <2>2, CpuKeeps
  <2>4. CASE ~equal
    <3>1. must' = Zx(Xfer(must, a, d), a) /\ tags' = cmpxchg_fast(tags, a, d)
      BY <1>10, <2>4 DEF Cmpxchg, cmpxchg, CpuMove, Cpu
    <3>2. \A l \in Loc : l[1] = Scratch => Xfer(must, a, d)[l] = {}
      BY <1>b, <2>2 DEF Xfer, At
    <3>3. \A l \in Loc : l[1] # Scratch => tags'[l] = Xfer(tags, a, d)[l]
      BY <3>1, <2>1, CmpxchgPaths
    <3>4. Below(Xfer(must, a, d), Xfer(tags, a, d))
      BY <2>2, <1>a, XferMono
    <3>5. Below(Xfer(must, a, d), tags')
      BY <3>2, <3>3, <3>4 DEF Below
    <3> QED BY <3>1, <3>2, <3>5, <2>2, CpuKeeps
  <2> QED BY <2>3, <2>4
<1>11. ASSUME NEW d \in RegOperand, NEW b \in RegOperand, NEW i \in RegOperand,
              d.len = Q, b.len = Q, i.len = Q, Lea(d, b, i)
       PROVE  FlowInv'
  <2>1. must' = Zx(lea_r2r(must, d, b, i), d) /\ tags' = lea_r2r(tags, d, b, i)
    BY <1>11 DEF Lea, Cpu
  <2>2. Inside(d) /\ Inside(b) /\ Inside(i) /\ d.base # Scratch
    BY OperandInside, OperandBase DEF Operand
  <2>3. \A l \in Loc : l[1] = Scratch => lea_r2r(must, d, b, i)[l] = {}
    BY <1>b, <2>2 DEF lea_r2r, At
  <2> QED BY <2>1, <2>2, <2>3, <1>11, <1>a, LeaMono, CpuKeeps
<1>12. ASSUME NEW a \in 0 .. Size - 1, NEW n \in Widths, NEW c \in 1 .. 2, NEW down \in BOOLEAN,
              RepStos(a, n, c, down)
       PROVE  FlowInv'
  <2>1. ~down
    BY <1>12, <1>c DEF RepStos, Use
  <2>2. must' = Stosn(must, a, n, c) /\ tags' = Stosn(tags, a, n, c)
    BY <1>12, <2>1 DEF RepStos, r2m_xfer_n
  <2>3. n \in {1, W, L, Q} /\ a \in Nat /\ c \in Nat
    BY PropagationAssumption
  <2>4. Below(must', tags')
    BY <2>2, <2>3, <1>a, StosnMono
  <2>5. \A l \in Loc : l[1] = Scratch => must'[l] = {}
    BY <2>2, <1>b, <1>d DEF Stosn
  <2> QED BY <2>4, <2>5 DEF Below, NoLostFlow, ScratchEmpty
<1>13. ASSUME UNCHANGED vars PROVE FlowInv'
  BY <1>13 DEF vars, NoLostFlow, ScratchEmpty
<1>14. ASSUME NEW d \in Operand, NEW s \in Operand, NEW taken \in BOOLEAN, Cmov(d, s, taken)
       PROVE  FlowInv'
  <2>1. Inside(d) /\ Inside(s) /\ d.base # Scratch /\ d.len = s.len
    BY <1>14, OperandInside, OperandBase DEF Cmov
  <2>2. \A l \in Loc : l[1] = Scratch => Xfer(must, d, s)[l] = {}
    BY <1>b, <2>1 DEF Xfer, At
  <2>3. CASE taken
    <3>1. must' = Zx(Xfer(must, d, s), d) /\ tags' = Xfer(tags, d, s)
      BY <1>14, <2>3 DEF Cmov, r2r_xfer, m2r_xfer, CpuMove, Cpu
    <3> QED BY <3>1, <2>1, <2>2, <1>a, XferMono, CpuKeeps
  <2>4. CASE ~taken
    <3>1. must' = Zx(must, d) /\ tags' = tags
      BY <1>14, <2>4 DEF Cmov, Cpu
    <3> QED BY <3>1, <2>1, <1>a, <1>b, CpuKeeps
  <2> QED BY <2>3, <2>4
<1>15. ASSUME Next PROVE FlowInv'
  <2> USE <1>c DEF Use
  <2>1. CASE \E d \in Operand : Shift(d) \/ SseStore(d)
    BY <2>1 DEF Shift, SseStore
  <2>2. CASE \E s \in MemOperand : SseLoad(s) \/ DivMem(s)
    BY <2>2 DEF SseLoad, DivMem
  <2>3. CASE \E s \in RegOperand : Mul(s)
    BY <2>3 DEF Mul
  <2>4. CASE \E d, s \in Operand : Movsx(d, s) \/ Cmpxchg8(d, s) \/ LeaNarrow(d, s)
                                     \/ BitscanReg(d, s) \/ BitscanMem(d, s)
    BY <2>4 DEF Movsx, MovsxReg, MovsxMem, Cmpxchg8, LeaNarrow, BitscanReg, BitscanMem
  <2>5. CASE Cwde(L, W) \/ Cwde(Q, L) \/ SignInto(AH, AL)
             \/ \E n \in {W, L, Q} : SignInto(Reg(RDX, n), Reg(RAX, n))
    BY <2>5 DEF Cwde, SignInto
  <2> QED BY <1>1, <1>2, <1>3, <1>4, <1>5, <1>6, <1>7, <1>8, <1>9, <1>10, <1>11, <1>12, <1>14,
             <2>1, <2>2, <2>3, <2>4, <2>5, <1>15 DEF Next
<1> QED BY <1>13, <1>15

\* A program of moves, clears, exchanges, arithmetic, addresses, upward strings,
\* three-operand imul, register div and leave never loses a flow: whatever bytes the
\* analysis routines of ins_inspect move, a byte filled from a source has its tag.
THEOREM FlowKept == ASSUME Program \subseteq Sound PROVE Spec => []NoLostFlow
<1>1. Init => FlowInv
  <2> SUFFICES ASSUME Init PROVE FlowInv
    OBVIOUS
  <2>1. must = tags
    BY DEF Init
  <2>2. \A l \in Loc : l[1] = Scratch => tags[l] = {}
    BY PropagationAssumption DEF Init
  <2> QED BY <2>1, <2>2 DEF FlowInv, NoLostFlow, ScratchEmpty
<1>2. FlowInv /\ [Next]_vars => FlowInv'
  BY FlowStep
<1>3. FlowInv => NoLostFlow
  BY DEF FlowInv
<1> QED BY <1>1, <1>2, <1>3, PTL DEF Spec

-----------------------------------------------------------------------------
(* No tag is stale *)

\* The order of NoStaleTag: the scratch register does not count.
Covers(g, t) == \A l \in Loc : l[1] # Scratch => t[l] \subseteq g[l]

\* An operand of the processor.
Real(d) == Inside(d) /\ d.base # Scratch

LEMMA OperandReal == ASSUME NEW d \in Operand PROVE Real(d)
BY OperandInside, OperandBase DEF Real

LEMMA RegReal ==
    ASSUME NEW r \in {RAX, RDX, RBP, RSP}, NEW n \in {1, W, L, Q}
    PROVE  Real(Reg(r, n)) /\ Reg(r, n).len = n /\ Reg(r, n).base = r /\ Reg(r, n).off = 0
<1>1. r # Scratch
  BY PropagationAssumption
<1>2. QED BY <1>1, RegInside DEF Real, Reg, Op

\* The byte of s that stands for a byte of d is one of s.
LEMMA TwinReal ==
    ASSUME NEW l \in Loc, NEW d, NEW s, Real(d), Real(s), d.len = s.len, At(d, l)
    PROVE  /\ Twin(l, d, s) \in Loc /\ Twin(l, d, s)[1] # Scratch
           /\ At(s, Twin(l, d, s))
<1>1. /\ l[2] \in Nat /\ l[2] - d.off \in Nat /\ l[2] - d.off < s.len
      /\ s.off \in Nat /\ s.len \in Nat
  BY LocByte DEF Real, Inside, At
<1>2. Twin(l, d, s)[1] = s.base /\ Twin(l, d, s)[2] = s.off + (l[2] - d.off)
  BY DEF Twin
<1>3. Twin(l, d, s) \in Loc
  BY TwinInside DEF Real
<1>4. Twin(l, d, s)[1] # Scratch
  BY <1>2 DEF Real
<1>5. At(s, Twin(l, d, s))
  BY <1>1, <1>2 DEF At
<1>6. QED BY <1>3, <1>4, <1>5

LEMMA InUnion ==
    ASSUME NEW t, NEW S, NEW s \in S, NEW l \in Loc, At(s, l)
    PROVE  t[l] \subseteq Union(t, S)
BY DEF Union, Bytes

LEMMA XferCovers ==
    ASSUME NEW t, NEW g, Covers(g, t), NEW d, NEW s, Real(d), Real(s), d.len = s.len
    PROVE  Covers(Xfer(g, d, s), Xfer(t, d, s))
BY TwinReal DEF Covers, Xfer

LEMMA SwapCovers ==
    ASSUME NEW t, NEW g, Covers(g, t), NEW d, NEW s, Real(d), Real(s), d.len = s.len
    PROVE  Covers(Swap(g, d, s), Swap(t, d, s))
BY TwinReal DEF Covers, Swap

LEMMA ClrCovers ==
    ASSUME NEW t, NEW g, Covers(g, t), NEW d PROVE Covers(Clr(g, d), Clr(t, d)) /\ Covers(g, Clr(t, d))
BY DEF Covers, Clr

\* What a byte can get from the operands is in their union.
LEMMA FillCovers ==
    ASSUME NEW t, NEW g, Covers(g, t), NEW d, NEW S, NEW f,
           \A l \in Loc : ~At(d, l) => f[l] = t[l],
           \A l \in Loc : At(d, l) /\ l[1] # Scratch => f[l] \subseteq Union(g, S)
    PROVE  Covers(Fill(g, d, Union(g, S)), f)
BY DEF Covers, Fill

LEMMA CoversUnion ==
    ASSUME NEW t, NEW g, Covers(g, t), NEW S, NEW s \in S, NEW l \in Loc, At(s, l), l[1] # Scratch
    PROVE  t[l] \subseteq Union(g, S)
BY InUnion DEF Covers

\* Without operands of the width of a long the processor zeroes nothing.
LEMMA NoZx == ASSUME NEW t, NEW d, d.len # L PROVE Zx(t, d) = t
BY DEF Zx

LEMMA LenNotL ==
    ASSUME L \notin Widths, NEW d \in Operand PROVE d.len # L /\ d.len \in {1, W, Q}
<1>1. d.len \in Widths \/ (d.len = 1 /\ 1 \in Widths)
  BY DEF Operand, RegOperand, MemOperand, Reg, Op
<1>2. QED BY <1>1, PropagationAssumption

LEMMA CombineCovers ==
    ASSUME NEW t, NEW g, Covers(g, t), NEW d, NEW s, Real(d), Real(s), d.len = s.len
    PROVE  Covers(Fill(g, d, Union(g, {d, s})), Combine(t, d, s))
<1>1. \A l \in Loc : ~At(d, l) => Combine(t, d, s)[l] = t[l]
  BY DEF Combine
<1>2. ASSUME NEW l \in Loc, At(d, l), l[1] # Scratch
      PROVE  Combine(t, d, s)[l] \subseteq Union(g, {d, s})
  <2>1. t[l] \subseteq Union(g, {d, s})
    BY <1>2, CoversUnion
  <2>2. t[Twin(l, d, s)] \subseteq Union(g, {d, s})
    BY <1>2, TwinReal, CoversUnion
  <2>3. QED BY <1>2, <2>1, <2>2 DEF Combine
<1>3. QED BY <1>1, <1>2, FillCovers

LEMMA XaddCovers ==
    ASSUME NEW t, NEW g, Covers(g, t), NEW d, NEW s, Real(d), Real(s), d.len = s.len
    PROVE  Covers(Fill(Xfer(g, s, d), d, Union(g, {d, s})), Xadd(t, d, s))
<1>1. ASSUME NEW l \in Loc, At(d, l), l[1] # Scratch
      PROVE  Xadd(t, d, s)[l] \subseteq Union(g, {d, s})
  <2>1. t[l] \subseteq Union(g, {d, s})
    BY <1>1, CoversUnion
  <2>2. t[Twin(l, d, s)] \subseteq Union(g, {d, s})
    BY <1>1, TwinReal, CoversUnion
  <2>3. At(s, l) => t[Twin(l, s, d)] \subseteq Union(g, {d, s})
    BY <1>1, TwinReal, CoversUnion
  <2>4. QED BY <1>1, <2>1, <2>2, <2>3 DEF Xadd
<1>2. ASSUME NEW l \in Loc, ~At(d, l), l[1] # Scratch
      PROVE  Xadd(t, d, s)[l] \subseteq Xfer(g, s, d)[l]
  BY <1>2, TwinReal DEF Xadd, Xfer, Covers
<1>3. QED BY <1>1, <1>2 DEF Covers, Fill

\* Both halves of the result of a division, from a routine that takes n of its bytes.
LEMMA PairCovers ==
    ASSUME NEW t, NEW g, Covers(g, t), NEW s, Real(s), s.len \in {1, W, Q}, NEW r,
           Inside(r), r.base = s.base, r.off = s.off, r.len \in {1, s.len}
    PROVE  Covers(FillPair(g, s.len, Union(g, Pair(s.len) \cup {s})), CombinePair(t, r))
<1> DEFINE U == Union(g, Pair(s.len) \cup {s})
<1>0. s.off \in Nat /\ 2 <= W /\ W \in Nat /\ Q \in Nat /\ W < Q
  BY PropagationAssumption DEF Real, Inside
<1>1. ASSUME NEW l \in Loc, InPair(l, s.len), l[1] # Scratch PROVE t[l] \subseteq U
  <2>1. l[2] \in Nat
    BY LocByte
  <2>2. PICK p \in Pair(s.len) : At(p, l)
    <3>1. CASE s.len = 1
      <4>1. At(AL, l) \/ At(AH, l)
        BY <1>1, <2>1, <3>1 DEF InPair, At, AL, AH, Op
      <4>2. QED BY <3>1, <4>1 DEF Pair
    <3>2. CASE s.len # 1
      <4>1. At(Reg(RAX, s.len), l) \/ At(Reg(RDX, s.len), l)
        BY <1>0, <1>1, <2>1, <3>2 DEF InPair, At, Reg, Op
      <4>2. QED BY <3>2, <4>1 DEF Pair
    <3>3. QED BY <3>1, <3>2
  <2>3. QED BY <1>1, <2>2, CoversUnion
<1>2. ASSUME NEW l \in Loc, InPair(l, r.len)
      PROVE  /\ InPair(l, s.len)
             /\ t[<<r.base, r.off + IF r.len = 1 THEN 0 ELSE l[2]>>] \subseteq U
  <2>1. l[2] \in Nat
    BY LocByte
  <2>2. InPair(l, s.len)
    BY <1>0, <1>2, <2>1 DEF InPair
  <2> DEFINE k == s.off + IF r.len = 1 THEN 0 ELSE l[2]
  <2>3. k \in Nat /\ s.off <= k /\ k < s.off + s.len
    BY <1>0, <1>2, <2>1 DEF InPair
  <2>4. <<s.base, k>> \in Loc
    BY <2>3 DEF Real, Inside
  <2> HIDE DEF k
  <2>5. At(s, <<s.base, k>>) /\ <<s.base, k>>[1] # Scratch
    BY <2>3 DEF At, Real
  <2>6. t[<<s.base, k>>] \subseteq U
    BY <2>4, <2>5, CoversUnion
  <2>7. QED BY <2>2, <2>6 DEF k
<1> HIDE DEF U
<1>3. QED BY <1>1, <1>2 DEF Covers, FillPair, CombinePair, U

\* A byte of a sum of two registers.
LEMMA LeaCovers ==
    ASSUME NEW t, NEW g, Covers(g, t), NEW d, NEW x, NEW y, Real(d), Real(x), Real(y),
           d.len = x.len, d.len = y.len
    PROVE  Covers(Fill(g, d, Union(g, {x, y})), lea_r2r(t, d, x, y))
<1>1. \A l \in Loc : ~At(d, l) => lea_r2r(t, d, x, y)[l] = t[l]
  BY DEF lea_r2r
<1>2. ASSUME NEW l \in Loc, At(d, l), l[1] # Scratch
      PROVE  lea_r2r(t, d, x, y)[l] \subseteq Union(g, {x, y})
  <2>1. t[Twin(l, d, x)] \subseteq Union(g, {x, y})
    BY <1>2, TwinReal, CoversUnion
  <2>2. t[Twin(l, d, y)] \subseteq Union(g, {x, y})
    BY <1>2, TwinReal, CoversUnion
  <2>3. QED BY <1>2, <2>1, <2>2 DEF lea_r2r
<1>3. QED BY <1>1, <1>2, FillCovers

LEMMA StosnCovers ==
    ASSUME NEW t, NEW g, Covers(g, t), NEW lo \in Nat, NEW n \in {1, W, L, Q}, NEW c \in Nat
    PROVE  Covers(Stosn(g, lo, n, c), Stosn(t, lo, n, c))
<1>1. RAX # Scratch
  BY PropagationAssumption
<1>2. QED BY <1>1, StosnInside DEF Covers, Stosn

\* An operand seen as the bytes it shares with a narrower one and those it adds.
LEMMA LowReal ==
    ASSUME NEW d, NEW s, Real(d), Real(s), s.len < d.len
    PROVE  Real(Low(d, s)) /\ Low(d, s).len = s.len /\ Low(d, s).base = d.base
BY DEF Real, Inside, Low, Op

LEMMA ExtendCovers ==
    ASSUME NEW t, NEW g, Covers(g, t), NEW d, NEW s, Real(d), Real(s), s.len < d.len
    PROVE  /\ Covers(Extend(g, d, s), Extend(t, d, s))
           /\ \A T : Covers(Fill(Xfer(g, Low(d, s), s), High(d, s), T), Extend(t, d, s))
<1>1. Covers(Xfer(g, Low(d, s), s), Xfer(t, Low(d, s), s))
  BY LowReal, XferCovers
<1>2. QED BY <1>1 DEF Covers, Extend, Clr, Fill

\* The tags of the sign go to every byte it fills.
LEMMA SignCovers ==
    ASSUME NEW t, NEW g, Covers(g, t), NEW d, NEW s, Real(d), Real(s), d.len = s.len
    PROVE  Covers(Fill(g, d, Union(g, {s})), Xfer(t, d, s))
<1>1. \A l \in Loc : ~At(d, l) => Xfer(t, d, s)[l] = t[l]
  BY DEF Xfer
<1>2. ASSUME NEW l \in Loc, At(d, l), l[1] # Scratch
      PROVE  Xfer(t, d, s)[l] \subseteq Union(g, {s})
  <2>1. t[Twin(l, d, s)] \subseteq Union(g, {s})
    BY <1>2, TwinReal, CoversUnion
  <2>2. QED BY <1>2, <2>1 DEF Xfer
<1>3. QED BY <1>1, <1>2, FillCovers

\* The vector register has no shadow: it never has a tag.
XmmEmpty == \A l \in Loc : l[1] = Xmm => tags[l] = {}

StaleInv == NoStaleTag /\ XmmEmpty

\* The instructions whose routines take no more than the processor does.
Precise == {"plain", "div", "memdiv", "extend", "shift", "sse", "leave"}

\* No operand is a long, and the vector register is not a general purpose one.
NoLongs == L \notin Widths /\ Xmm \notin Regs \cup {RAX, RDX, RBP, RSP}

LEMMA NotXmm == ASSUME NoLongs, NEW d \in Operand PROVE d.base # Xmm
BY PropagationAssumption DEF NoLongs, Operand, RegOperand, MemOperand, Reg, Op

\* A step that keeps the order, and writes to no vector register, keeps the invariant.
LEMMA StaleKeeps ==
    ASSUME StaleInv, Covers(may', tags'), \A l \in Loc : l[1] = Xmm => tags'[l] \in {tags[l], {}}
    PROVE  StaleInv'
BY DEF StaleInv, NoStaleTag, XmmEmpty, Covers

LEMMA StaleStep ==
    ASSUME Program \subseteq Precise, NoLongs, StaleInv, [Next]_vars
    PROVE  StaleInv'
<1>a. Covers(may, tags)
  BY DEF StaleInv, NoStaleTag, Covers
<1>b. "imul3" \notin Program /\ "mul" \notin Program /\ "bitscan" \notin Program
      /\ "std" \notin Program /\ "lea32" \notin Program /\ "cmpxchg8" \notin Program
  BY DEF Precise
<1>c. /\ RAX # Scratch /\ RDX # Scratch /\ RBP # Scratch /\ RSP # Scratch /\ Mem # Scratch
      /\ RAX # Xmm /\ RDX # Xmm /\ RBP # Xmm /\ RSP # Xmm /\ Mem # Xmm /\ Scratch # Xmm
  BY PropagationAssumption DEF NoLongs
<1>d. /\ 1 # L /\ W # L /\ Q # L
      /\ 1 \in Nat /\ W \in Nat /\ L \in Nat /\ Q \in Nat /\ 2 <= W /\ W < L /\ L < Q
  BY PropagationAssumption
<1>e. \A d \in Operand : Real(d) /\ d.base # Xmm /\ d.len # L /\ d.len \in {1, W, Q}
  BY OperandReal, NotXmm, LenNotL DEF NoLongs
<1>1. ASSUME ClearPair PROVE StaleInv'
  <2>1. may' = r_clrl2(may) /\ tags' = r_clrl2(tags)
    BY <1>1 DEF ClearPair
  <2>2. Covers(may', tags')
    BY <2>1, <1>a, ClrCovers DEF r_clrl2
  <2>3. \A l \in Loc : l[1] = Xmm => tags'[l] \in {tags[l], {}}
    BY <2>1 DEF r_clrl2, Clr
  <2>4. QED BY <2>2, <2>3, StaleKeeps
<1>2. ASSUME NEW d \in Operand, MovImm(d) \/ PushClear(d) \/ Clear(d) \/ ClearIdiom(d) \/ LeaClear(d)
      PROVE  StaleInv'
  <2>1. may' = Zx(Clr(may, d), d) /\ tags' = Clr(tags, d)
    BY <1>2 DEF MovImm, PushClear, Clear, ClearIdiom, LeaClear, r_clr, tagmap_clr, CpuClear, Cpu
  <2>2. Covers(may', tags')
    BY <2>1, <1>a, <1>e, NoZx, ClrCovers
  <2>3. \A l \in Loc : l[1] = Xmm => tags'[l] \in {tags[l], {}}
    BY <2>1 DEF Clr
  <2>4. QED BY <2>2, <2>3, StaleKeeps
<1>3. ASSUME NEW d \in Operand, BinaryImm(d) \/ Shift(d) PROVE StaleInv'
  <2>1. may' = Zx(Fill(may, d, Union(may, {d})), d) /\ tags' = tags
    BY <1>3 DEF BinaryImm, Shift, Cpu
  <2>2. \A l \in Loc : At(d, l) /\ l[1] # Scratch => tags[l] \subseteq Union(may, {d})
    BY <1>a, CoversUnion
  <2>3. Covers(Fill(may, d, Union(may, {d})), tags)
    BY <2>2, <1>a, FillCovers
  <2>4. QED BY <2>1, <2>3, <1>e, NoZx, StaleKeeps
<1>4. ASSUME NEW s \in MemOperand, Lods(s) PROVE StaleInv'
  <2> DEFINE d == Reg(RAX, s.len)
  <2>1. may' = Zx(Xfer(may, d, s), d) /\ tags' = Xfer(tags, d, s)
    BY <1>4 DEF Lods, CpuMove, Cpu
  <2>2. s \in Operand
    BY DEF Operand
  <2>3. Real(s) /\ Real(d) /\ d.len = s.len /\ d.base = RAX /\ d.len # L
    BY <2>2, <1>e, RegReal
  <2> HIDE DEF d
  <2>4. Covers(may', tags')
    BY <2>1, <2>3, <1>a, XferCovers, NoZx
  <2>5. \A l \in Loc : l[1] = Xmm => tags'[l] = tags[l]
    BY <2>1, <2>3, <1>c DEF Xfer, At
  <2>6. QED BY <2>4, <2>5, StaleKeeps
<1>5. ASSUME NEW s \in Operand, Div(s) \/ DivMem(s) PROVE StaleInv'
  <2>1. may' = ZxPair(FillPair(may, s.len, Union(may, Pair(s.len) \cup {s})), s.len)
    BY <1>5 DEF Div, DivMem, CpuDiv
  <2>2. PICK r : /\ r.base = s.base /\ r.off = s.off /\ r.len \in {1, s.len}
                 /\ tags' = CombinePair(tags, r)
    <3>1. CASE Div(s)
      BY <3>1 DEF Div, r2r_ternary
    <3>2. CASE DivMem(s)
      <4>1. s = Op(s.base, s.off, s.len)
        BY DEF Operand, RegOperand, MemOperand, Reg, Op
      <4>2. [s EXCEPT !.len = 1] = Op(s.base, s.off, 1)
        BY <4>1 DEF Op
      <4>3. tags' = CombinePair(tags, Op(s.base, s.off, 1))
        BY <3>2, <4>2 DEF DivMem, m2r_ternary
      <4>4. QED BY <4>3 DEF Op
    <3>3. QED BY <1>5, <3>1, <3>2
  <2>3. Inside(r)
    BY <2>2, <1>e, <1>d DEF Real, Inside
  <2>4. Covers(FillPair(may, s.len, Union(may, Pair(s.len) \cup {s})), tags')
    BY <2>2, <2>3, <1>a, <1>e, PairCovers
  <2>5. Reg(RAX, s.len).len # L /\ Reg(RDX, s.len).len # L
    BY <1>e DEF Reg, Op
  <2>6. Covers(may', tags')
    BY <2>1, <2>4, <2>5, NoZx DEF ZxPair
  <2>7. \A l \in Loc : l[1] = Xmm => tags'[l] = tags[l]
    BY <2>2, <1>c DEF CombinePair, InPair
  <2>8. QED BY <2>6, <2>7, StaleKeeps
<1>6. ASSUME NEW s \in MemOperand, Leave(s) PROVE StaleInv'
  <2> DEFINE sp == Reg(RSP, Q)
             bp == Reg(RBP, Q)
             w == Reg(Scratch, W)
             f(t) == Xfer(Xfer(t, sp, bp), bp, s)
  <2>1. may' = f(may) /\ tags' = Xfer(f(tags), w, Op(Mem, s.off, W)) /\ s.len = Q
    BY <1>6 DEF Leave
  <2>2. s \in Operand
    BY DEF Operand
  <2>3. Real(s) /\ Real(sp) /\ Real(bp) /\ sp.len = Q /\ bp.len = Q
    BY <2>2, <1>e, RegReal
  <2>4. sp.base # Xmm /\ bp.base # Xmm /\ w.base = Scratch
    BY <1>c DEF Reg, Op
  <2> HIDE DEF sp, bp, w
  <2>5. Covers(f(may), f(tags))
    BY <2>1, <2>3, <1>a, XferCovers
  <2>6. \A l \in Loc : l[1] # Scratch => tags'[l] = f(tags)[l]
    BY <2>1, <2>4 DEF Xfer, At
  <2>7. \A l \in Loc : l[1] = Xmm => f(tags)[l] = tags[l]
    BY <2>4 DEF Xfer, At
  <2>8. QED BY <2>1, <2>5, <2>6, <2>7, <1>c, StaleKeeps DEF Covers
<1>7. ASSUME NEW d \in Operand, NEW s \in Operand,
             Mov(d, s) \/ Movs(d, s) \/ Push(d, s) \/ Pop(d, s) \/ Binary(d, s)
      PROVE  StaleInv'
  <2>1. d.len = s.len
    BY <1>7 DEF Mov, MovRegs, MovLoad, MovStore, Movs, Push, Pop, Binary, BinaryRegs, BinaryMem
  <2>2. /\ \A l \in Loc : l[1] = Xmm => Xfer(tags, d, s)[l] = tags[l]
        /\ \A l \in Loc : l[1] = Xmm => Combine(tags, d, s)[l] = tags[l]
    BY <1>e DEF Xfer, Combine, At
  <2>3. CASE Mov(d, s) \/ Movs(d, s) \/ Push(d, s) \/ Pop(d, s)
    <3>1. may' = Zx(Xfer(may, d, s), d) /\ tags' = Xfer(tags, d, s)
      BY <2>3 DEF Mov, MovRegs, MovLoad, MovStore, Movs, Push, Pop,
            r2r_xfer, m2r_xfer, r2m_xfer, m2m_xfer, CpuMove, Cpu
    <3>2. Covers(may', tags')
      BY <3>1, <2>1, <1>a, <1>e, XferCovers, NoZx
    <3>3. QED BY <3>1, <3>2, <2>2, StaleKeeps
  <2>4. CASE Binary(d, s)
    <3>1. /\ may' = Zx(Fill(may, d, Union(may, {d, s})), d)
          /\ tags' = Combine(tags, d, s)
      BY <2>4 DEF Binary, BinaryRegs, BinaryMem, r2r_binary, m2r_binary, r2m_binary, CpuArith, Cpu
    <3>2. Covers(may', tags')
      BY <3>1, <2>1, <1>a, <1>e, CombineCovers, NoZx
    <3>3. QED BY <3>1, <3>2, <2>2, StaleKeeps
  <2>5. QED BY <1>7, <2>3, <2>4
<1>8. ASSUME NEW d \in Operand, NEW s \in Operand, Movzx(d, s) \/ Movsx(d, s) PROVE StaleInv'
  <2>1. tags' = Extend(tags, d, s) /\ s.len < d.len
    BY <1>8 DEF Movzx, MovzxReg, MovzxMem, movzx_r2r, movzx_r2r_opq, movzx_m2r, movzx_m2r_opq,
          Movsx, MovsxReg, MovsxMem, movsx_r2r, movsx_r2r_opq, movsx_m2r, movsx_m2r_opq, Widen
  <2>2. \/ may' = Zx(Extend(may, d, s), d)
        \/ may' = Zx(Fill(Xfer(may, Low(d, s), s), High(d, s), Union(may, {s})), d)
    BY <1>8 DEF Movzx, MovzxReg, MovzxMem, Movsx, MovsxReg, MovsxMem,
          CpuZeroExtend, CpuSignExtend, Cpu
  <2>3. Covers(may', tags')
    BY <2>1, <2>2, <1>a, <1>e, ExtendCovers, NoZx
  <2>4. Low(d, s).base = d.base
    BY DEF Low, Op
  <2>5. \A l \in Loc : l[1] = Xmm => tags'[l] \in {tags[l], {}}
    BY <2>1, <2>4, <1>e DEF Extend, Clr, Xfer, At
  <2>6. QED BY <2>3, <2>5, StaleKeeps
<1>9. ASSUME NEW d \in Operand, NEW s \in Operand, Xchg(d, s) \/ XaddIns(d, s) PROVE StaleInv'
  <2>1. d.len = s.len
    BY <1>9 DEF Xchg, XchgRegs, XchgMem, XaddIns, XaddRegs, XaddMem
  <2>2. CASE Xchg(d, s)
    <3>1. may' = Zx(Zx(Swap(may, d, s), d), s) /\ tags' = Swap(tags, d, s)
      BY <2>2 DEF Xchg, XchgRegs, XchgMem, CpuSwap, xchg_r2r, xchg_m2r, xchg_m2r_opb
    <3>2. Covers(may', tags')
      BY <3>1, <2>1, <1>a, <1>e, SwapCovers, NoZx
    <3>3. \A l \in Loc : l[1] = Xmm => tags'[l] = tags[l]
      BY <3>1, <1>e DEF Swap, At
    <3>4. QED BY <3>2, <3>3, StaleKeeps
  <2>3. CASE XaddIns(d, s)
    <3>1. /\ may' = Zx(Zx(Fill(Xfer(may, s, d), d, Union(may, {d, s})), d), s)
          /\ tags' = Xadd(tags, d, s)
      BY <2>3 DEF XaddIns, XaddRegs, XaddMem, CpuXadd, xadd_r2r, xadd_r2m,
          xadd_r2m_op, xadd_r2m_opb
    <3>2. Covers(may', tags')
      BY <3>1, <2>1, <1>a, <1>e, XaddCovers, NoZx
    <3>3. \A l \in Loc : l[1] = Xmm => tags'[l] = tags[l]
      BY <3>1, <1>e DEF Xadd, At
    <3>4. QED BY <3>2, <3>3, StaleKeeps
  <2>4. QED BY <1>9, <2>2, <2>3
<1>10. ASSUME NEW d \in Operand, NEW s \in Operand, NEW equal \in BOOLEAN, Cmpxchg(d, s, equal)
       PROVE  StaleInv'
  <2> DEFINE a == Reg(RAX, d.len)
  <2>1. s \in RegOperand /\ d.len = s.len
    BY <1>10 DEF Cmpxchg
  <2>2. Real(a) /\ a.len = d.len /\ a.base = RAX /\ a.len # L
    BY <1>e, RegReal
  <2>3. PICK x, y : /\ Real(x) /\ Real(y) /\ x.len = y.len /\ x.base # Xmm
                    /\ may' = Xfer(may, x, y)
                    /\ \A l \in Loc : l[1] # Scratch => tags'[l] = Xfer(tags, x, y)[l]
    <3>1. CASE equal
      <4>1. /\ may' = Zx(Xfer(may, d, s), d)
            /\ tags' = cmpxchg_slow(cmpxchg_fast(tags, a, d), a, d, s)
        BY <1>10, <3>1 DEF Cmpxchg, cmpxchg, CpuMove, Cpu
      <4>2. \A l \in Loc : l[1] # Scratch => tags'[l] = Xfer(tags, d, s)[l]
        BY <4>1, <2>1, CmpxchgPaths
      <4>3. QED BY <4>1, <4>2, <2>1, <1>e, NoZx
    <3>2. CASE ~equal
      <4>1. may' = Zx(Xfer(may, a, d), a) /\ tags' = cmpxchg_fast(tags, a, d)
        BY <1>10, <3>2 DEF Cmpxchg, cmpxchg, CpuMove, Cpu
      <4>2. \A l \in Loc : l[1] # Scratch => tags'[l] = Xfer(tags, a, d)[l]
        BY <4>1, <2>1, CmpxchgPaths
      <4>3. QED BY <4>1, <4>2, <2>2, <1>c, <1>e, NoZx
    <3>3. QED BY <3>1, <3>2
  <2>4. Covers(may', tags')
    BY <2>3, <1>a, XferCovers DEF Covers
  <2>5. \A l \in Loc : l[1] = Xmm => tags'[l] = tags[l]
    BY <2>3, <1>c DEF Xfer, At
  <2>6. QED BY <2>4, <2>5, StaleKeeps
<1>11. ASSUME NEW d \in RegOperand, NEW b \in RegOperand, NEW i \in RegOperand,
              d.len = Q, b.len = Q, i.len = Q, Lea(d, b, i)
       PROVE  StaleInv'
  <2>1. may' = Zx(Fill(may, d, Union(may, {b, i})), d) /\ tags' = lea_r2r(tags, d, b, i)
    BY <1>11 DEF Lea, Cpu
  <2>2. d \in Operand /\ b \in Operand /\ i \in Operand
    BY DEF Operand
  <2>3. Covers(may', tags')
    BY <2>1, <2>2, <1>11, <1>a, <1>d, <1>e, LeaCovers, NoZx
  <2>4. \A l \in Loc : l[1] = Xmm => tags'[l] = tags[l]
    BY <2>1, <2>2, <1>e DEF lea_r2r, At
  <2>5. QED BY <2>3, <2>4, StaleKeeps
<1>12. ASSUME NEW a \in 0 .. Size - 1, NEW n \in Widths, NEW c \in 1 .. 2, NEW down \in BOOLEAN,
              RepStos(a, n, c, down)
       PROVE  StaleInv'
  <2>1. ~down
    BY <1>12, <1>b DEF RepStos, Use
  <2>2. may' = Stosn(may, a, n, c) /\ tags' = Stosn(tags, a, n, c)
    BY <1>12, <2>1 DEF RepStos, r2m_xfer_n
  <2>3. n \in {1, W, L, Q} /\ a \in Nat /\ c \in Nat
    BY PropagationAssumption
  <2>4. Covers(may', tags')
    BY <2>2, <2>3, <1>a, StosnCovers
  <2>5. \A l \in Loc : l[1] = Xmm => tags'[l] = tags[l]
    BY <2>2, <1>c DEF Stosn
  <2>6. QED BY <2>4, <2>5, StaleKeeps
<1>13. ASSUME NEW d \in Operand, NEW s \in Operand, NEW taken \in BOOLEAN, Cmov(d, s, taken)
       PROVE  StaleInv'
  <2>1. d.len = s.len
    BY <1>13 DEF Cmov
  <2>2. CASE taken
    <3>1. may' = Zx(Xfer(may, d, s), d) /\ tags' = Xfer(tags, d, s)
      BY <1>13, <2>2 DEF Cmov, r2r_xfer, m2r_xfer, CpuMove, Cpu
    <3>2. Covers(may', tags')
      BY <3>1, <2>1, <1>a, <1>e, XferCovers, NoZx
    <3>3. \A l \in Loc : l[1] = Xmm => tags'[l] = tags[l]
      BY <3>1, <1>e DEF Xfer, At
    <3>4. QED BY <3>2, <3>3, StaleKeeps
  <2>3. CASE ~taken
    <3>1. may' = Zx(may, d) /\ tags' = tags
      BY <1>13, <2>3 DEF Cmov, Cpu
    <3>2. QED BY <3>1, <1>a, <1>e, NoZx, StaleKeeps
  <2>4. QED BY <2>2, <2>3
<1>14. ASSUME NEW n \in {L, Q}, NEW w \in {W, L}, w < n, Cwde(n, w) PROVE StaleInv'
  <2> DEFINE d == Reg(RAX, n)
             s == Reg(RAX, w)
  <2>1. n = Q
    BY <1>14 DEF Cwde, NoLongs
  <2>2. /\ tags' = Clr(tags, High(d, s))
        /\ may' = Zx(Fill(Xfer(may, Low(d, s), s), High(d, s), Union(may, {s})), d)
    BY <1>14 DEF Cwde, cwde, CpuSignExtend, Cpu
  <2>3. Low(d, s) = s /\ d.len = Q /\ s.base = RAX
    BY <2>1 DEF Low, Reg, Op
  <2>4. Real(s)
    BY RegReal
  <2> HIDE DEF d, s
  <2>5. Covers(Xfer(may, s, s), tags)
    <3>1. Covers(Xfer(may, s, s), Xfer(tags, s, s))
      BY <2>4, <1>a, XferCovers
    <3>2. ASSUME NEW l \in Loc, At(s, l) PROVE Twin(l, s, s) = l
      <4>1. l = <<l[1], l[2]>> /\ l[2] \in Nat
        BY LocByte
      <4>2. s.off + (l[2] - s.off) = l[2] /\ l[1] = s.base
        BY <4>1, <2>4, <3>2 DEF Real, Inside, At
      <4>3. QED BY <4>1, <4>2 DEF Twin
    <3>3. \A l \in Loc : Xfer(tags, s, s)[l] = tags[l]
      BY <3>2 DEF Xfer
    <3>4. QED BY <3>1, <3>3 DEF Covers
  <2>6. Covers(Fill(Xfer(may, s, s), High(d, s), Union(may, {s})), tags')
    BY <2>2, <2>5 DEF Covers, Fill, Clr
  <2>7. Covers(may', tags')
    BY <2>2, <2>3, <2>6, <1>d, NoZx
  <2>8. \A l \in Loc : l[1] = Xmm => tags'[l] \in {tags[l], {}}
    BY <2>2 DEF Clr
  <2>9. QED BY <2>7, <2>8, StaleKeeps
<1>15. ASSUME NEW d, NEW s, Real(d), Real(s), d.len = s.len, d.base # Xmm, SignInto(d, s)
       PROVE  StaleInv'
  <2>1. /\ tags' = Xfer(tags, d, s) /\ d.len # L
        /\ may' = Zx(Fill(may, d, Union(may, {s})), d)
    BY <1>15 DEF SignInto, Cpu, NoLongs
  <2>2. Covers(may', tags')
    BY <2>1, <1>15, <1>a, SignCovers, NoZx
  <2>3. \A l \in Loc : l[1] = Xmm => tags'[l] = tags[l]
    BY <2>1, <1>15 DEF Xfer, At
  <2>4. QED BY <2>2, <2>3, StaleKeeps
<1>16. ASSUME SignInto(AH, AL) \/ \E n \in {W, L, Q} : SignInto(Reg(RDX, n), Reg(RAX, n))
       PROVE  StaleInv'
  <2>1. CASE SignInto(AH, AL)
    <3>1. AL = Reg(RAX, 1) /\ AH.len = 1 /\ AH.base = RAX /\ AL.len = 1
      BY DEF AL, AH, Reg, Op
    <3>2. Real(AL)
      BY <3>1, RegReal
    <3>3. <<RAX, 1>> \in Loc
      BY <1>d DEF Loc, Files
    <3>4. Real(AH)
      BY <3>3, <1>c DEF Real, Inside, AH, Op
    <3>5. QED BY <2>1, <3>1, <3>2, <3>4, <1>c, <1>15
  <2>2. CASE \E n \in {W, L, Q} : SignInto(Reg(RDX, n), Reg(RAX, n))
    <3>1. PICK n \in {W, L, Q} : SignInto(Reg(RDX, n), Reg(RAX, n))
      BY <2>2
    <3>2. /\ Real(Reg(RDX, n)) /\ Real(Reg(RAX, n)) /\ Reg(RDX, n).len = Reg(RAX, n).len
          /\ Reg(RDX, n).base # Xmm
      BY <1>c, RegReal
    <3>3. QED BY <3>1, <3>2, <1>15
  <2>3. QED BY <1>16, <2>1, <2>2
<1>17. ASSUME NEW s \in MemOperand, SseLoad(s) PROVE StaleInv'
  <2>1. tags' = tags /\ may' = Zx(Xfer(may, Reg(Xmm, Q), s), Reg(Xmm, Q))
    BY <1>17 DEF SseLoad, CpuMove, Cpu
  <2>2. Reg(Xmm, Q).base = Xmm /\ Reg(Xmm, Q).len = Q
    BY DEF Reg, Op
  <2>3. may' = Xfer(may, Reg(Xmm, Q), s)
    BY <2>1, <2>2, <1>d, NoZx
  <2>4. \A l \in Loc : l[1] # Xmm => may'[l] = may[l]
    BY <2>2, <2>3 DEF Xfer, At
  <2>5. Covers(may', tags')
    BY <2>1, <2>4, <1>a DEF Covers, StaleInv, XmmEmpty
  <2>6. QED BY <2>1, <2>5, StaleKeeps
<1>18. ASSUME NEW d \in Operand, SseStore(d) PROVE StaleInv'
  <2>1. tags' = Clr(tags, d) /\ may' = Zx(Xfer(may, d, Reg(Xmm, Q)), d)
    BY <1>18 DEF SseStore, m_clrn, CpuMove, Cpu
  <2>2. may' = Xfer(may, d, Reg(Xmm, Q))
    BY <2>1, <1>e, NoZx
  <2>3. Covers(may', tags')
    BY <2>1, <2>2, <1>a DEF Covers, Xfer, Clr
  <2>4. \A l \in Loc : l[1] = Xmm => tags'[l] \in {tags[l], {}}
    BY <2>1 DEF Clr
  <2>5. QED BY <2>3, <2>4, StaleKeeps
<1>19. ASSUME UNCHANGED vars PROVE StaleInv'
  BY <1>19 DEF vars, StaleInv, NoStaleTag, XmmEmpty
<1>20. ASSUME Next PROVE StaleInv'
  <2>1. CASE \E s \in MemOperand : DivMem(s)
    BY <2>1, <1>5 DEF Operand
  <2>2. CASE \E s \in RegOperand : Div(s) \/ Mul(s)
    BY <2>2, <1>b, <1>5 DEF Mul, Use, Operand
  <2>3. CASE \E d, s \in Operand : Imul3(d, s) \/ Cmpxchg8(d, s) \/ LeaNarrow(d, s)
                                     \/ BitscanReg(d, s) \/ BitscanMem(d, s)
    BY <2>3, <1>b DEF Imul3, Cmpxchg8, LeaNarrow, BitscanReg, BitscanMem, Use
  <2>4. CASE Cwde(L, W) \/ Cwde(Q, L)
    BY <2>4, <1>14, <1>d
  <2>5. QED BY <1>1, <1>2, <1>3, <1>4, <1>6, <1>7, <1>8, <1>9, <1>10, <1>11, <1>12, <1>13,
             <1>16, <1>17, <1>18, <2>1, <2>2, <2>3, <2>4, <1>20 DEF Next
<1>21. QED BY <1>19, <1>20

\* Without three-operand imul, mul, bit scans, downward strings, narrow lea and 8-bit
\* cmpxchg, and without 32-bit operands, whose upper half the tool leaves as it was,
\* a tag the routines of ins_inspect leave on a byte is that of a source that can have
\* influenced it.
THEOREM NoTagStale ==
    ASSUME Program \subseteq Precise, NoLongs PROVE Spec => []NoStaleTag
<1>1. Init => StaleInv
  <2> SUFFICES ASSUME Init PROVE StaleInv
    OBVIOUS
  <2>1. may = tags
    BY DEF Init
  <2>2. \A l \in Loc : l[1] = Xmm => tags[l] = {}
    BY PropagationAssumption DEF Init
  <2>3. QED BY <2>1, <2>2 DEF StaleInv, NoStaleTag, XmmEmpty
<1>2. StaleInv /\ [Next]_vars => StaleInv'
  BY StaleStep
<1>3. StaleInv => NoStaleTag
  BY DEF StaleInv
<1>4. QED BY <1>1, <1>2, <1>3, PTL DEF Spec

-----------------------------------------------------------------------------
(* Types *)

LEMMA ClrShadow == ASSUME NEW t \in Shadow, NEW d PROVE Clr(t, d) \in Shadow
BY DEF Shadow, Clr

LEMMA ZxShadow == ASSUME NEW t \in Shadow, NEW d PROVE Zx(t, d) \in Shadow
BY ClrShadow DEF Zx

LEMMA FillShadow ==
    ASSUME NEW t \in Shadow, NEW d, NEW T \in SUBSET Sources PROVE Fill(t, d, T) \in Shadow
BY DEF Shadow, Fill

LEMMA UnionSources == ASSUME NEW t \in Shadow, NEW S PROVE Union(t, S) \in SUBSET Sources
BY DEF Shadow, Union, Bytes

LEMMA XferShadow ==
    ASSUME NEW t \in Shadow, NEW d, NEW s, Inside(d), Inside(s), d.len = s.len
    PROVE  Xfer(t, d, s) \in Shadow
BY TwinInside DEF Shadow, Xfer

LEMMA CombineShadow ==
    ASSUME NEW t \in Shadow, NEW d, NEW s, Inside(d), Inside(s), d.len = s.len
    PROVE  Combine(t, d, s) \in Shadow
BY TwinInside DEF Shadow, Combine

LEMMA SwapShadow ==
    ASSUME NEW t \in Shadow, NEW d, NEW s, Inside(d), Inside(s), d.len = s.len
    PROVE  Swap(t, d, s) \in Shadow
BY TwinInside DEF Shadow, Swap

LEMMA XaddShadow ==
    ASSUME NEW t \in Shadow, NEW d, NEW s, Inside(d), Inside(s), d.len = s.len
    PROVE  Xadd(t, d, s) \in Shadow
BY TwinInside DEF Shadow, Xadd

LEMMA LeaShadow ==
    ASSUME NEW t \in Shadow, NEW d, NEW x, NEW y, Inside(d), Inside(x), Inside(y),
           d.len = x.len, d.len = y.len
    PROVE  lea_r2r(t, d, x, y) \in Shadow
BY TwinInside DEF Shadow, lea_r2r

LEMMA FillPairShadow ==
    ASSUME NEW t \in Shadow, NEW n, NEW T \in SUBSET Sources PROVE FillPair(t, n, T) \in Shadow
BY DEF Shadow, FillPair

LEMMA CombinePairShadow ==
    ASSUME NEW t \in Shadow, NEW s, Inside(s), s.len \in {1, W, L, Q}
    PROVE  CombinePair(t, s) \in Shadow
BY PairInside DEF Shadow, CombinePair

LEMMA StosnShadow ==
    ASSUME NEW t \in Shadow, NEW lo \in Nat, NEW n \in {1, W, L, Q}, NEW c \in Nat
    PROVE  Stosn(t, lo, n, c) \in Shadow
BY StosnInside DEF Shadow, Stosn

LEMMA ExtendShadow ==
    ASSUME NEW t \in Shadow, NEW d, NEW s, Inside(d), Inside(s), s.len < d.len
    PROVE  Xfer(t, Low(d, s), s) \in Shadow /\ Extend(t, d, s) \in Shadow
<1>1. Inside(Low(d, s)) /\ Low(d, s).len = s.len
  BY DEF Inside, Low, Op
<1>2. QED BY <1>1, XferShadow, ClrShadow DEF Extend

\* The byte with the sign of an operand.
LEMMA TopSources ==
    ASSUME NEW t \in Shadow, NEW s, Inside(s), s.len \in {1, W, L, Q}
    PROVE  t[Top(s)] \in SUBSET Sources
<1>1. s.len \in Nat /\ 1 <= s.len
  BY PropagationAssumption
<1>2. Top(s) \in Loc
  BY <1>1 DEF Top, Inside
<1>3. QED BY <1>2 DEF Shadow

\* What sign extension makes of a map.
LEMMA SignShadow ==
    ASSUME NEW t \in Shadow, NEW d, NEW s, Inside(d), Inside(s), s.len < d.len,
           NEW T \in SUBSET Sources
    PROVE  Fill(Xfer(t, Low(d, s), s), High(d, s), T) \in Shadow
BY ExtendShadow, FillShadow

\* The bytes a shift moves.
LEMMA ShiftShadow ==
    ASSUME NEW t \in Shadow, NEW d, Inside(d)
    PROVE  [l \in Loc |-> IF ~At(d, l) THEN t[l]
                          ELSE IF l[2] = d.off THEN {} ELSE t[<<l[1], l[2] - 1>>]] \in Shadow
<1>1. ASSUME NEW l \in Loc, At(d, l), l[2] # d.off PROVE <<l[1], l[2] - 1>> \in Loc
  <2>1. l[2] \in Nat
    BY LocByte
  <2>2. l[2] - 1 \in Nat /\ d.off <= l[2] - 1 /\ l[2] - 1 < d.off + d.len /\ l[1] = d.base
    BY <1>1, <2>1 DEF At, Inside
  <2>3. QED BY <2>2 DEF Inside
<1>2. QED BY <1>1 DEF Shadow

LEMMA CmpxchgShadow ==
    ASSUME NEW t \in Shadow, NEW a, NEW d, NEW s, Inside(a), Inside(d), Inside(s), a.len = d.len,
           d.len = s.len, d.len \in {1, W, L, Q}, NEW equal
    PROVE  cmpxchg(t, a, d, s, equal) \in Shadow
<1>1. Inside(Reg(Scratch, d.len)) /\ Reg(Scratch, d.len).len = d.len
  BY RegInside DEF Reg, Op
<1>2. cmpxchg_fast(t, a, d) \in Shadow
  BY <1>1, ClrShadow, XferShadow DEF cmpxchg_fast
<1>3. cmpxchg_slow(cmpxchg_fast(t, a, d), a, d, s) \in Shadow
  BY <1>1, <1>2, XferShadow DEF cmpxchg_slow
<1>4. QED BY <1>2, <1>3 DEF cmpxchg

LEMMA CpuShadow ==
    ASSUME NEW d, NEW f \in Shadow, NEW g \in Shadow, Cpu(d, f, g)
    PROVE  must' \in Shadow /\ may' \in Shadow
BY ZxShadow DEF Cpu

LEMMA TypeStep == ASSUME TypeOK, [Next]_vars PROVE TypeOK'
<1>a. tags \in Shadow /\ must \in Shadow /\ may \in Shadow
  BY DEF TypeOK
<1>b. \A d \in Operand : Inside(d) /\ d.len \in {1, W, L, Q}
  BY OperandInside, OperandLen
<1>c. \A S : Union(must, S) \in SUBSET Sources /\ Union(may, S) \in SUBSET Sources
  BY <1>a, UnionSources
<1>d. 1 \in Nat /\ W \in Nat /\ L \in Nat /\ Q \in Nat /\ 2 <= W /\ W < L /\ L < Q
  BY PropagationAssumption
<1>e. MemOperand \subseteq Operand /\ RegOperand \subseteq Operand
  BY DEF Operand
<1>f. \A r \in {RAX, RDX, RBP, RSP, Scratch, Xmm} : \A n \in {1, W, L, Q} :
         Inside(Reg(r, n)) /\ Reg(r, n).len = n
  BY PropagationAssumption DEF Inside, Reg, Op, Loc, Files
<1>g. Inside(AL) /\ Inside(AH) /\ AL.len = 1 /\ AH.len = 1
  <2>1. <<RAX, 0>> \in Loc /\ <<RAX, 1>> \in Loc
    BY <1>d DEF Loc, Files
  <2>2. QED BY <2>1 DEF Inside, AL, AH, Op
<1> DEFINE Shadows == tags' \in Shadow /\ must' \in Shadow /\ may' \in Shadow
<1>1. ASSUME ClearPair PROVE Shadows
  BY <1>1, <1>a, ClrShadow DEF ClearPair, r_clrl2
<1>2. ASSUME NEW d \in Operand, MovImm(d) \/ PushClear(d) \/ Clear(d) \/ ClearIdiom(d) \/ LeaClear(d)
      PROVE  Shadows
  BY <1>2, <1>a, ClrShadow, ZxShadow
     DEF MovImm, PushClear, Clear, ClearIdiom, LeaClear, r_clr, tagmap_clr, CpuClear, Cpu
<1>3. ASSUME NEW d \in Operand, BinaryImm(d) PROVE Shadows
  BY <1>3, <1>a, <1>c, FillShadow, ZxShadow DEF BinaryImm, Cpu
<1>4. ASSUME NEW d \in Operand, Shift(d) PROVE Shadows
  <2> DEFINE f == [l \in Loc |-> IF ~At(d, l) THEN must[l]
                                 ELSE IF l[2] = d.off THEN {} ELSE must[<<l[1], l[2] - 1>>]]
  <2>1. tags' = tags /\ Cpu(d, f, Fill(may, d, Union(may, {d})))
    BY <1>4 DEF Shift
  <2>2. f \in Shadow
    BY <1>a, <1>b, ShiftShadow
  <2> HIDE DEF f
  <2>3. QED BY <2>1, <2>2, <1>a, <1>c, FillShadow, CpuShadow
<1>5. ASSUME NEW d \in Operand, SseStore(d) PROVE Shadows
  <2>1. tags' = Clr(tags, d) /\ CpuMove(d, Reg(Xmm, Q)) /\ d.len = Q
    BY <1>5 DEF SseStore, m_clrn
  <2>2. QED BY <2>1, <1>a, <1>b, <1>f, ClrShadow, XferShadow, CpuShadow DEF CpuMove
<1>6. ASSUME NEW s \in MemOperand, SseLoad(s) PROVE Shadows
  <2>1. tags' = tags /\ CpuMove(Reg(Xmm, Q), s) /\ s.len = Q
    BY <1>6 DEF SseLoad
  <2>2. QED BY <2>1, <1>a, <1>b, <1>e, <1>f, XferShadow, CpuShadow DEF CpuMove
<1>7. ASSUME NEW s \in MemOperand, Lods(s) PROVE Shadows
  <2>1. tags' = Xfer(tags, Reg(RAX, s.len), s) /\ CpuMove(Reg(RAX, s.len), s)
    BY <1>7 DEF Lods
  <2>2. QED BY <2>1, <1>a, <1>b, <1>e, <1>f, XferShadow, CpuShadow DEF CpuMove
<1>8. ASSUME NEW s \in MemOperand, Leave(s) PROVE Shadows
  <2> DEFINE f(t) == Xfer(Xfer(t, Reg(RSP, Q), Reg(RBP, Q)), Reg(RBP, Q), s)
  <2>1. /\ must' = f(must) /\ may' = f(may) /\ s.len = Q
        /\ tags' = Xfer(f(tags), Reg(Scratch, W), Op(Mem, s.off, W))
    BY <1>8 DEF Leave
  <2>2. Inside(s) /\ s.base = Mem
    BY <1>b, <1>e DEF MemOperand, Op
  <2>3. \A t \in Shadow : f(t) \in Shadow
    BY <2>1, <2>2, <1>f, XferShadow
  <2>4. Inside(Op(Mem, s.off, W)) /\ Op(Mem, s.off, W).len = W
    BY <2>1, <2>2, <1>d DEF Inside, Op
  <2>5. QED BY <2>1, <2>3, <2>4, <1>a, <1>f, XferShadow
<1>9. ASSUME NEW s \in Operand, Div(s) \/ DivMem(s) PROVE Shadows
  <2>1. must' \in Shadow /\ may' \in Shadow
    BY <1>9, <1>a, <1>b, <1>c, CombinePairShadow, FillPairShadow, ZxShadow
       DEF Div, DivMem, CpuDiv, ZxPair
  <2>2. CASE Div(s)
    BY <2>1, <2>2, <1>a, <1>b, CombinePairShadow DEF Div, r2r_ternary
  <2>3. CASE DivMem(s)
    <3>1. s = Op(s.base, s.off, s.len)
      BY DEF Operand, RegOperand, MemOperand, Reg, Op
    <3>2. [s EXCEPT !.len = 1] = Op(s.base, s.off, 1)
      BY <3>1 DEF Op
    <3>3. tags' = CombinePair(tags, Op(s.base, s.off, 1))
      BY <2>3, <3>2 DEF DivMem, m2r_ternary
    <3>4. Inside(Op(s.base, s.off, 1)) /\ Op(s.base, s.off, 1).len = 1
      BY <1>b, <1>d DEF Inside, Op
    <3>5. QED BY <2>1, <3>3, <3>4, <1>a, CombinePairShadow
  <2>4. QED BY <1>9, <2>2, <2>3
<1>10. ASSUME NEW s \in RegOperand, Mul(s) PROVE Shadows
  <2> DEFINE a == Reg(RAX, s.len)
             d == Reg(RDX, s.len)
  <2>1. /\ tags' = CombinePair(tags, s)
        /\ must' = ZxPair(Combine(Combine(Xfer(must, d, a), d, s), a, s), s.len)
        /\ may' = ZxPair(FillPair(may, s.len, Union(may, {a, s})), s.len)
    BY <1>10 DEF Mul, r2r_ternary
  <2>2. Inside(s) /\ s.len \in {1, W, L, Q} /\ Inside(a) /\ Inside(d) /\ a.len = s.len /\ d.len = s.len
    BY <1>b, <1>e, <1>f
  <2> HIDE DEF a, d
  <2>3. tags' \in Shadow
    BY <2>1, <2>2, <1>a, CombinePairShadow
  <2>4. must' \in Shadow
    BY <2>1, <2>2, <1>a, XferShadow, CombineShadow, ZxShadow DEF ZxPair
  <2>5. may' \in Shadow
    BY <2>1, <1>a, <1>c, FillPairShadow, ZxShadow DEF ZxPair
  <2>6. QED BY <2>3, <2>4, <2>5
<1>11. ASSUME NEW d \in Operand, NEW s \in Operand,
              Mov(d, s) \/ Movs(d, s) \/ Push(d, s) \/ Pop(d, s)
       PROVE  Shadows
  <2>1. d.len = s.len /\ tags' = Xfer(tags, d, s) /\ CpuMove(d, s)
    BY <1>11 DEF Mov, MovRegs, MovLoad, MovStore, Movs, Push, Pop,
          r2r_xfer, m2r_xfer, r2m_xfer, m2m_xfer
  <2>2. QED BY <2>1, <1>a, <1>b, XferShadow, CpuShadow DEF CpuMove
<1>12. ASSUME NEW d \in Operand, NEW s \in Operand, Binary(d, s) \/ Imul3(d, s) PROVE Shadows
  <2>1. d.len = s.len /\ tags' = Combine(tags, d, s)
    BY <1>12 DEF Binary, BinaryRegs, BinaryMem, Imul3, r2r_binary, m2r_binary, r2m_binary
  <2>2. \/ CpuArith(d, s)
        \/ Cpu(d, Xfer(must, d, s), Fill(may, d, Union(may, {s})))
    BY <1>12 DEF Binary, BinaryRegs, BinaryMem, Imul3
  <2>3. QED BY <2>1, <2>2, <1>a, <1>b, <1>c, XferShadow, CombineShadow, FillShadow, CpuShadow
            DEF CpuArith
<1>13. ASSUME NEW d \in Operand, NEW s \in Operand, Movzx(d, s) \/ Movsx(d, s) PROVE Shadows
  <2>1. tags' = Extend(tags, d, s) /\ s.len < d.len
    BY <1>13 DEF Movzx, MovzxReg, MovzxMem, movzx_r2r, movzx_r2r_opq, movzx_m2r, movzx_m2r_opq,
          Movsx, MovsxReg, MovsxMem, movsx_r2r, movsx_r2r_opq, movsx_m2r, movsx_m2r_opq, Widen
  <2>2. CpuZeroExtend(d, s) \/ CpuSignExtend(d, s)
    BY <1>13 DEF Movzx, MovzxReg, MovzxMem, Movsx, MovsxReg, MovsxMem
  <2>3. must[Top(s)] \in SUBSET Sources
    BY <1>a, <1>b, TopSources
  <2>4. QED BY <2>1, <2>2, <2>3, <1>a, <1>b, <1>c, ExtendShadow, SignShadow, CpuShadow
            DEF CpuZeroExtend, CpuSignExtend
<1>14. ASSUME NEW d \in Operand, NEW s \in Operand, Xchg(d, s) \/ XaddIns(d, s) PROVE Shadows
  <2>1. d.len = s.len
    BY <1>14 DEF Xchg, XchgRegs, XchgMem, XaddIns, XaddRegs, XaddMem
  <2>2. tags' \in {Swap(tags, d, s), Xadd(tags, d, s)} /\ (CpuSwap(d, s) \/ CpuXadd(d, s))
    BY <1>14 DEF Xchg, XchgRegs, XchgMem, XaddIns, XaddRegs, XaddMem, xchg_r2r, xchg_m2r,
          xchg_m2r_opb, xadd_r2r, xadd_r2m, xadd_r2m_op, xadd_r2m_opb
  <2>3. tags' \in Shadow
    BY <2>1, <2>2, <1>a, <1>b, SwapShadow, XaddShadow
  <2>4. CpuSwap(d, s) => must' \in Shadow /\ may' \in Shadow
    BY <2>1, <1>a, <1>b, SwapShadow, ZxShadow DEF CpuSwap
  <2>5. CpuXadd(d, s) => must' \in Shadow /\ may' \in Shadow
    BY <2>1, <1>a, <1>b, <1>c, XaddShadow, XferShadow, FillShadow, ZxShadow DEF CpuXadd
  <2>6. QED BY <2>2, <2>3, <2>4, <2>5
<1>15. ASSUME NEW d \in Operand, NEW s \in Operand, Cmpxchg8(d, s) PROVE Shadows
  <2>1. tags' = tags /\ d.len = 1 /\ s.len = 1 /\ (CpuMove(d, s) \/ CpuMove(AL, d))
    BY <1>15 DEF Cmpxchg8
  <2>2. QED BY <2>1, <1>a, <1>b, <1>g, XferShadow, CpuShadow DEF CpuMove
<1>16. ASSUME NEW d \in Operand, NEW s \in Operand, LeaNarrow(d, s) PROVE Shadows
  <2>1. /\ tags' = Xfer(tags, d, Reg(Scratch, d.len)) /\ d.len \in {W, L} /\ s.len = Q
        /\ Cpu(d, Xfer(must, d, s), Fill(may, d, Union(may, {s})))
    BY <1>16 DEF LeaNarrow
  <2>2. tags' \in Shadow
    BY <2>1, <1>a, <1>b, <1>f, XferShadow
  <2>3. Xfer(must, d, s) \in Shadow
    <3>1. \A l \in Loc : At(d, l) => Twin(l, d, s) \in Loc
      <4> SUFFICES ASSUME NEW l \in Loc, At(d, l) PROVE Twin(l, d, s) \in Loc
        OBVIOUS
      <4>1. l[2] \in Nat /\ l[2] - d.off \in Nat /\ l[2] - d.off < s.len
        BY <2>1, <1>b, <1>d, LocByte DEF Inside, At
      <4>2. QED BY <4>1, <1>b DEF Twin, Inside
    <3>2. QED BY <3>1, <1>a DEF Shadow, Xfer
  <2>4. QED BY <2>1, <2>2, <2>3, <1>a, <1>c, FillShadow, CpuShadow
<1>17. ASSUME NEW d \in Operand, NEW s \in Operand, BitscanReg(d, s) \/ BitscanMem(d, s)
       PROVE  Shadows
  <2>1. CpuScan(d, s) /\ tags' \in {tags, Xfer(tags, s, s)}
    BY <1>17 DEF BitscanReg, BitscanMem, r2r_bitscan, m2r_bitscan
  <2>2. QED BY <2>1, <1>a, <1>b, <1>c, XferShadow, ClrShadow, FillShadow, CpuShadow DEF CpuScan
<1>18. ASSUME NEW d \in Operand, NEW s \in Operand, NEW c \in BOOLEAN, Cmov(d, s, c)
       PROVE  Shadows
  <2>1. /\ d.len = s.len
        /\ \/ tags' = Xfer(tags, d, s) /\ CpuMove(d, s)
           \/ tags' = tags /\ Cpu(d, must, may)
    BY <1>18 DEF Cmov, r2r_xfer, m2r_xfer
  <2>2. QED BY <2>1, <1>a, <1>b, XferShadow, CpuShadow DEF CpuMove
<1>19. ASSUME NEW d \in Operand, NEW s \in Operand, NEW c \in BOOLEAN, Cmpxchg(d, s, c)
       PROVE  Shadows
  <2> DEFINE a == Reg(RAX, d.len)
  <2>1. /\ d.len = s.len /\ tags' = cmpxchg(tags, a, d, s, c)
        /\ CpuMove(d, s) \/ CpuMove(a, d)
    BY <1>19 DEF Cmpxchg
  <2>2. Inside(a) /\ a.len = d.len
    BY <1>b, <1>f
  <2> HIDE DEF a
  <2>3. QED BY <2>1, <2>2, <1>a, <1>b, CmpxchgShadow, XferShadow, CpuShadow DEF CpuMove
<1>20. ASSUME NEW d \in RegOperand, NEW b \in RegOperand, NEW i \in RegOperand,
              d.len = Q, b.len = Q, i.len = Q, Lea(d, b, i)
       PROVE  Shadows
  <2>1. /\ tags' = lea_r2r(tags, d, b, i)
        /\ Cpu(d, lea_r2r(must, d, b, i), Fill(may, d, Union(may, {b, i})))
    BY <1>20 DEF Lea
  <2>2. QED BY <2>1, <1>20, <1>a, <1>b, <1>c, <1>e, LeaShadow, FillShadow, CpuShadow
<1>21. ASSUME NEW n \in {L, Q}, NEW w \in {W, L}, w < n, Cwde(n, w) PROVE Shadows
  <2>1. /\ tags' = Clr(tags, High(Reg(RAX, n), Reg(RAX, w)))
        /\ CpuSignExtend(Reg(RAX, n), Reg(RAX, w))
    BY <1>21 DEF Cwde, cwde
  <2>2. Inside(Reg(RAX, n)) /\ Inside(Reg(RAX, w)) /\ Reg(RAX, w).len = w /\ Reg(RAX, n).len = n
    BY <1>f
  <2>3. must[Top(Reg(RAX, w))] \in SUBSET Sources
    BY <2>2, <1>a, TopSources
  <2>4. QED BY <2>1, <2>2, <2>3, <1>21, <1>a, <1>c, ClrShadow, SignShadow, CpuShadow
            DEF CpuSignExtend
<1>22. ASSUME NEW d, NEW s, Inside(d), Inside(s), d.len = s.len, s.len \in {1, W, L, Q},
              SignInto(d, s)
       PROVE  Shadows
  <2>1. /\ tags' = Xfer(tags, d, s)
        /\ Cpu(d, Fill(must, d, must[Top(s)]), Fill(may, d, Union(may, {s})))
    BY <1>22 DEF SignInto
  <2>2. must[Top(s)] \in SUBSET Sources
    BY <1>22, <1>a, TopSources
  <2>3. QED BY <2>1, <2>2, <1>22, <1>a, <1>c, XferShadow, FillShadow, CpuShadow
<1>23. ASSUME NEW a \in 0 .. Size - 1, NEW n \in Widths, NEW c \in 1 .. 2, NEW down \in BOOLEAN,
              RepStos(a, n, c, down)
       PROVE  Shadows
  <2>1. n \in {1, W, L, Q} /\ n \in Nat /\ 1 <= n /\ a \in Nat /\ c \in Nat /\ (c = 1 \/ c = 2)
    BY <1>d, PropagationAssumption
  <2>2. c * n \in Nat /\ n <= c * n
    BY <2>1
  <2>3. PICK lo \in Nat, lo2 \in Nat :
            tags' = Stosn(tags, lo, n, c) /\ must' = Stosn(must, lo2, n, c) /\ may' = Stosn(may, lo2, n, c)
    <3>1. CASE down
      <4>1. /\ tags' = Stosn(tags, a + 1 - c * n, n, c) /\ must' = Stosn(must, a + n - c * n, n, c)
            /\ may' = Stosn(may, a + n - c * n, n, c) /\ c * n <= a + 1
        BY <1>23, <3>1 DEF RepStos, r2m_xfer_n
      <4>2. a + 1 - c * n \in Nat /\ a + n - c * n \in Nat
        BY <2>1, <2>2, <4>1
      <4>3. QED BY <4>1, <4>2
    <3>2. CASE ~down
      BY <1>23, <2>1, <3>2 DEF RepStos, r2m_xfer_n
    <3>3. QED BY <3>1, <3>2
  <2>4. QED BY <2>1, <2>3, <1>a, StosnShadow
<1>24. ASSUME Next PROVE Shadows
  <2>1. CASE \E s \in MemOperand : DivMem(s)
    BY <2>1, <1>9, <1>e
  <2>2. CASE \E s \in RegOperand : Div(s)
    BY <2>2, <1>9, <1>e
  <2>3. CASE Cwde(L, W) \/ Cwde(Q, L)
    BY <2>3, <1>21, <1>d
  <2>4. CASE SignInto(AH, AL)
    BY <2>4, <1>g, <1>22
  <2>5. CASE \E n \in {W, L, Q} : SignInto(Reg(RDX, n), Reg(RAX, n))
    BY <2>5, <1>f, <1>22
  <2>6. QED BY <1>1, <1>2, <1>3, <1>4, <1>5, <1>6, <1>7, <1>8, <1>10, <1>11, <1>12, <1>13,
             <1>14, <1>15, <1>16, <1>17, <1>18, <1>19, <1>20, <1>23,
             <2>1, <2>2, <2>3, <2>4, <2>5, <1>24 DEF Next
<1>25. ASSUME Next PROVE count' \in 0 .. MaxIns /\ running' \in BOOLEAN
  <2> DEFINE Tick == (\E c : Use(c)) /\ running' \in {running, TRUE, FALSE}
  <2>1. ASSUME ClearPair \/ Cwde(L, W) \/ Cwde(Q, L) \/ SignInto(AH, AL)
               \/ \E n \in {W, L, Q} : SignInto(Reg(RDX, n), Reg(RAX, n))
        PROVE  Tick
    BY <2>1 DEF ClearPair, Cwde, SignInto, Go
  <2>2. ASSUME \E d \in Operand : MovImm(d) \/ PushClear(d) \/ Clear(d) \/ ClearIdiom(d)
                                    \/ BinaryImm(d) \/ Shift(d) \/ LeaClear(d) \/ SseStore(d)
        PROVE  Tick
    BY <2>2 DEF MovImm, PushClear, Clear, ClearIdiom, BinaryImm, Shift, LeaClear, SseStore, Go
  <2>3. ASSUME \/ \E s \in MemOperand : SseLoad(s) \/ Lods(s) \/ Leave(s) \/ DivMem(s)
               \/ \E s \in RegOperand : Div(s) \/ Mul(s)
        PROVE  Tick
    BY <2>3 DEF SseLoad, Lods, Leave, DivMem, Div, Mul, Go
  <2>4. ASSUME \E d, s \in Operand :
               Mov(d, s) \/ Movs(d, s) \/ Push(d, s) \/ Pop(d, s) \/ Binary(d, s) \/ Imul3(d, s)
        PROVE  Tick
    BY <2>4 DEF Mov, MovRegs, MovLoad, MovStore, Movs, Push, Pop, Binary, BinaryRegs, BinaryMem,
       Imul3, Go
  <2>5. ASSUME \E d, s \in Operand :
               Movzx(d, s) \/ Movsx(d, s) \/ Xchg(d, s) \/ XaddIns(d, s)
        PROVE  Tick
    BY <2>5 DEF Movzx, MovzxReg, MovzxMem, Movsx, MovsxReg, MovsxMem, Xchg, XchgRegs, XchgMem,
       XaddIns, XaddRegs, XaddMem, Go
  <2>6. ASSUME \E d, s \in Operand : Cmpxchg8(d, s) \/ LeaNarrow(d, s) \/ BitscanReg(d, s)
               \/ BitscanMem(d, s) \/ \E c \in BOOLEAN : Cmov(d, s, c) \/ Cmpxchg(d, s, c)
        PROVE  Tick
    BY <2>6 DEF Cmpxchg8, LeaNarrow, BitscanReg, BitscanMem, m2r_bitscan, Cmov, Cmpxchg, Go
  <2>7. ASSUME NEW d, NEW b, NEW i, Lea(d, b, i) PROVE Tick
    BY <2>7 DEF Lea, Go
  <2>8. ASSUME NEW a, NEW n, NEW c, NEW down, RepStos(a, n, c, down) PROVE Tick
    <3>1. (Use("std") \/ Use("plain")) /\ Go
      BY <2>8 DEF RepStos
    <3>2. QED BY <3>1 DEF Go
  <2> HIDE DEF Tick
  <2>9. Tick
    BY <2>1, <2>2, <2>3, <2>4, <2>5, <2>6, <2>7, <2>8, <1>25 DEF Next
  <2>10. count \in 0 .. MaxIns /\ count < MaxIns /\ count' = count + 1
    BY <2>9 DEF Tick, Use, TypeOK
  <2>11. count' \in 0 .. MaxIns
    BY <2>10, PropagationAssumption
  <2>12. running \in BOOLEAN
    BY DEF TypeOK
  <2>13. running' \in BOOLEAN
    BY <2>9, <2>12, Zenon DEF Tick
  <2>14. QED BY <2>11, <2>13
<1>26. CASE UNCHANGED vars
  BY <1>26 DEF vars, TypeOK
<1>27. QED BY <1>24, <1>25, <1>26 DEF TypeOK

\* Whatever the program, the routines leave sets of tags, on bytes of the machine, and
\* so do the moves of the processor they are compared with.
THEOREM TypeCorrect == Spec => []TypeOK
<1>1. Init => TypeOK
  <2> SUFFICES ASSUME Init PROVE TypeOK
    OBVIOUS
  <2>1. PICK f \in [Input -> SUBSET Sources] :
            tags = [l \in Loc |-> IF l[1] = Mem /\ l[2] \in Input THEN f[l[2]] ELSE {}]
    BY DEF Init
  <2>2. tags \in Shadow
    BY <2>1 DEF Shadow
  <2>3. QED BY <2>2, PropagationAssumption DEF Init, TypeOK
<1>2. TypeOK /\ [Next]_vars => TypeOK'
  BY TypeStep
<1>3. QED BY <1>1, <1>2, PTL DEF Spec
=============================================================================
