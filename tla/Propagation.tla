---------------------------- MODULE Propagation ----------------------------
(***************************************************************************)
(* Tag propagation of the 64-bit taint tool (libdft_core64.cc, built with   *)
(* USE_CUSTOM_TAG): ins_inspect picks the analysis routines of an           *)
(* instruction, the routines move sets of tags between the bytes of the     *)
(* shadow registers (vcpu.gpr) and of the shadow memory (tag_dir).          *)
(*                                                                         *)
(* Beside the tags the model keeps two other maps of the same bytes, moved  *)
(* by what the processor does: must, the sources whose data is in a byte    *)
(* when flow is followed byte by byte, and may, the sources that can have   *)
(* any influence on it when every byte of a result depends on every byte of *)
(* the operands. A sound tracker stays between the two.                     *)
(***************************************************************************)
EXTENDS Naturals

CONSTANTS
    Regs,        \* general purpose registers the program uses
    RAX, RDX, RBP, RSP,
    Scratch,     \* GPR_SCRATCH of the vcpu
    Xmm,         \* a vector register, which has no shadow
    Mem,         \* the memory
    W, L, Q,     \* bytes of a word, a long and a quad operand: 2, 4 and 8
    Size,        \* bytes of memory
    Input,       \* the bytes of memory that were read from tagged objects
    Sources,     \* tags
    Program,     \* the classes of instructions the program is made of
    Widths,      \* the widths of its operands
    MaxIns       \* number of instructions executed

Classes == {"plain", "imul3", "leave", "extend", "div", "memdiv", "mul", "shift",
            "sse", "bitscan", "std", "lea32", "cmpxchg8"}

ASSUME PropagationAssumption ==
    /\ W \in Nat /\ L \in Nat /\ Q \in Nat /\ 2 <= W /\ W < L /\ L < Q
    /\ Size \in Nat /\ MaxIns \in Nat
    /\ Input \subseteq 0 .. Size - 1
    /\ Program \subseteq Classes
    /\ Widths \subseteq {1, W, L, Q}
    /\ Mem \notin Regs \cup {Scratch, Xmm, RAX, RDX, RBP, RSP}
    /\ Scratch \notin Regs \cup {Xmm, RAX, RDX, RBP, RSP}

VARIABLES
    tags,      \* the shadow registers and the shadow memory
    must,      \* lower bound: byte by byte flow of the processor
    may,       \* upper bound: operand by operand flow of the processor
    count,     \* instructions executed
    running    \* the tool has not written outside the shadow registers

vars == <<tags, must, may, count, running>>

-----------------------------------------------------------------------------
(* Bytes, operands, and maps from bytes to sets of tags *)

Files == Regs \cup {RAX, RDX, RBP, RSP, Scratch, Xmm}
Loc   == (Files \X (0 .. Q - 1)) \cup ({Mem} \X (0 .. Size - 1))

Op(b, o, n) == [base |-> b, off |-> o, len |-> n]
Reg(r, n)   == Op(r, 0, n)
AL == Op(RAX, 0, 1)
AH == Op(RAX, 1, 1)

\* The registers of each width; an 8-bit one is the lower or the upper byte.
RegOperand ==
    {Reg(r, n) : r \in Regs, n \in Widths}
        \cup {Op(r, 1, 1) : r \in IF 1 \in Widths THEN Regs ELSE {}}
MemOperand ==
    {d \in {Op(Mem, a, n) : a \in 0 .. Size - 1, n \in Widths} : d.off + d.len <= Size}
Operand == RegOperand \cup MemOperand

At(d, l)      == l[1] = d.base /\ d.off <= l[2] /\ l[2] < d.off + d.len
Twin(l, d, s) == <<s.base, s.off + (l[2] - d.off)>>
Bytes(d)      == {l \in Loc : At(d, l)}

Xfer(t, d, s)    == [l \in Loc |-> IF At(d, l) THEN t[Twin(l, d, s)] ELSE t[l]]
Combine(t, d, s) == [l \in Loc |-> IF At(d, l) THEN t[l] \cup t[Twin(l, d, s)] ELSE t[l]]
Clr(t, d)        == [l \in Loc |-> IF At(d, l) THEN {} ELSE t[l]]
Fill(t, d, T)    == [l \in Loc |-> IF At(d, l) THEN T ELSE t[l]]
Union(t, S)      == UNION {t[l] : l \in UNION {Bytes(s) : s \in S}}

\* The processor zeroes the upper half of a register written as a long.
Zx(t, d) == IF d.base # Mem /\ d.len = L THEN Clr(t, Op(d.base, L, Q - L)) ELSE t

\* One more instruction of class c, as long as the tool runs.
Use(c) == running /\ count < MaxIns /\ c \in Program /\ count' = count + 1
Go     == running' = running

\* The processor writes d: must and may become f and g.
Cpu(d, f, g) == must' = Zx(f, d) /\ may' = Zx(g, d)

CpuMove(d, s)  == Cpu(d, Xfer(must, d, s), Xfer(may, d, s))
CpuArith(d, s) == Cpu(d, Combine(must, d, s), Fill(may, d, Union(may, {d, s})))
CpuClear(d)    == Cpu(d, Clr(must, d), Clr(may, d))

-----------------------------------------------------------------------------
\* Some bytes of the memory have just been read from the inputs.
Init ==
    /\ \E f \in [Input -> SUBSET Sources] :
          tags = [l \in Loc |-> IF l[1] = Mem /\ l[2] \in Input THEN f[l[2]] ELSE {}]
    /\ must = tags
    /\ may = tags
    /\ count = 0
    /\ running = TRUE

-----------------------------------------------------------------------------
(* Moves *)

r2r_xfer(d, s) == d \in RegOperand /\ s \in RegOperand /\ tags' = Xfer(tags, d, s)
m2r_xfer(d, s) == d \in RegOperand /\ s \in MemOperand /\ tags' = Xfer(tags, d, s)
r2m_xfer(d, s) == d \in MemOperand /\ s \in RegOperand /\ tags' = Xfer(tags, d, s)
m2m_xfer(d, s) == d \in MemOperand /\ s \in MemOperand /\ tags' = Xfer(tags, d, s)

MovRegs(d, s)  == Use("plain") /\ Go /\ d.len = s.len /\ r2r_xfer(d, s) /\ CpuMove(d, s)
MovLoad(d, s)  == Use("plain") /\ Go /\ d.len = s.len /\ m2r_xfer(d, s) /\ CpuMove(d, s)
MovStore(d, s) == Use("plain") /\ Go /\ d.len = s.len /\ r2m_xfer(d, s) /\ CpuMove(d, s)

Mov(d, s) == MovRegs(d, s) \/ MovLoad(d, s) \/ MovStore(d, s)

\* cmov: the call is predicated, and made when the condition holds. The processor
\* zeroes the upper half of a long either way.
Cmov(d, s, taken) ==
    /\ Use("plain") /\ Go
    /\ d.len = s.len /\ d.len > 1
    /\ d \in RegOperand
    /\ IF taken THEN (r2r_xfer(d, s) \/ m2r_xfer(d, s)) /\ CpuMove(d, s)
                ELSE tags' = tags /\ Cpu(d, must, may)

\* movs, one element of it when it is repeated.
Movs(d, s) ==
    /\ Use("plain") /\ Go
    /\ d.len = s.len
    /\ m2m_xfer(d, s)
    /\ CpuMove(d, s)

\* push and pop of a register or of memory; the stack is memory.
Push(d, s) ==
    /\ Use("plain") /\ Go
    /\ d.len = s.len /\ d.len > 1
    /\ r2m_xfer(d, s) \/ m2m_xfer(d, s)
    /\ CpuMove(d, s)

Pop(d, s) ==
    /\ Use("plain") /\ Go
    /\ d.len = s.len /\ d.len > 1
    /\ m2r_xfer(d, s) \/ m2m_xfer(d, s)
    /\ CpuMove(d, s)

r_clr(d)      == d \in RegOperand /\ tags' = Clr(tags, d)
tagmap_clr(d) == d \in MemOperand /\ tags' = Clr(tags, d)

\* mov of an immediate or of a segment register.
MovImm(d) ==
    /\ Use("plain") /\ Go
    /\ r_clr(d) \/ tagmap_clr(d)
    /\ CpuClear(d)

\* push of an immediate, pushf, call: the stack gets no data.
PushClear(d) ==
    /\ Use("plain") /\ Go
    /\ d.len > 1
    /\ tagmap_clr(d)
    /\ CpuClear(d)

\* setcc, smsw, str, lar, lahf, salc: a result that is no data.
Clear(d) ==
    /\ Use("plain") /\ Go
    /\ r_clr(d) \/ tagmap_clr(d)
    /\ CpuClear(d)

r_clrl2(t) == Clr(Clr(t, Reg(RAX, Q)), Reg(RDX, Q))

\* rdtsc, rdpmc, and cpuid, which clears two registers more.
ClearPair ==
    /\ Use("plain") /\ Go
    /\ tags' = r_clrl2(tags)
    /\ must' = r_clrl2(must)
    /\ may' = r_clrl2(may)

\* lods and xlat: a load of the accumulator.
Lods(s) ==
    LET d == Reg(RAX, s.len) IN
    /\ Use("plain") /\ Go
    /\ tags' = Xfer(tags, d, s)
    /\ CpuMove(d, s)

-----------------------------------------------------------------------------
(* Arithmetic *)

r2r_binary(d, s) == d \in RegOperand /\ s \in RegOperand /\ tags' = Combine(tags, d, s)
m2r_binary(d, s) == d \in RegOperand /\ s \in MemOperand /\ tags' = Combine(tags, d, s)
r2m_binary(d, s) == d \in MemOperand /\ s \in RegOperand /\ tags' = Combine(tags, d, s)

\* adc, add, and, or, sbb, sub, xor, and imul with two operands.
BinaryRegs(d, s) == Use("plain") /\ Go /\ d.len = s.len /\ r2r_binary(d, s) /\ CpuArith(d, s)
BinaryMem(d, s) ==
    /\ Use("plain") /\ Go
    /\ d.len = s.len
    /\ m2r_binary(d, s) \/ r2m_binary(d, s)
    /\ CpuArith(d, s)

Binary(d, s) == BinaryRegs(d, s) \/ BinaryMem(d, s)

\* xor, sub and sbb of a register with itself clear it.
ClearIdiom(d) ==
    /\ Use("plain") /\ Go
    /\ r_clr(d)
    /\ CpuClear(d)

\* The second operand is immediate, or inc, dec, not, neg: nothing to do.
BinaryImm(d) ==
    /\ Use("plain") /\ Go
    /\ tags' = tags
    /\ Cpu(d, must, Fill(may, d, Union(may, {d})))

\* imul with three operands overwrites d; its routine is that of two operands.
Imul3(d, s) ==
    /\ Use("imul3") /\ Go
    /\ d.len = s.len /\ d.len > 1
    /\ r2r_binary(d, s) \/ m2r_binary(d, s)
    /\ Cpu(d, Xfer(must, d, s), Fill(may, d, Union(may, {s})))

\* The results of div and mul of width n: AX alone, or rDX and rAX.
Pair(n)      == IF n = 1 THEN {AL, AH} ELSE {Reg(RAX, n), Reg(RDX, n)}
InPair(l, n) == IF n = 1 THEN l[1] = RAX /\ l[2] < 2
                ELSE l[1] \in {RAX, RDX} /\ l[2] < n

CombinePair(t, s) ==
    [l \in Loc |->
        IF InPair(l, s.len)
        THEN t[l] \cup t[<<s.base, s.off + IF s.len = 1 THEN 0 ELSE l[2]>>]
        ELSE t[l]]
FillPair(t, n, T) == [l \in Loc |-> IF InPair(l, n) THEN T ELSE t[l]]
ZxPair(t, n)      == Zx(Zx(t, Reg(RAX, n)), Reg(RDX, n))

r2r_ternary(s) == s \in RegOperand /\ tags' = CombinePair(tags, s)
m2r_ternary(s) == s.base = Mem /\ tags' = CombinePair(tags, s)

CpuDiv(s) ==
    /\ must' = ZxPair(CombinePair(must, s), s.len)
    /\ may' = ZxPair(FillPair(may, s.len, Union(may, Pair(s.len) \cup {s})), s.len)

Div(s) ==
    /\ Use("div") /\ Go
    /\ r2r_ternary(s)
    /\ CpuDiv(s)

\* The width of a memory operand is asked of INS_MemoryWriteSize, and div reads
\* its operand: every width takes the branch of a byte.
DivMem(s) ==
    /\ Use("memdiv") /\ Go
    /\ m2r_ternary([s EXCEPT !.len = 1])
    /\ CpuDiv(s)

\* mul overwrites rDX with the upper half of the product.
Mul(s) ==
    /\ Use("mul") /\ Go
    /\ s.len > 1
    /\ r2r_ternary(s)
    /\ LET a == Reg(RAX, s.len)  d == Reg(RDX, s.len) IN
       /\ must' = ZxPair(Combine(Combine(Xfer(must, d, a), d, s), a, s), s.len)
       /\ may' = ZxPair(FillPair(may, s.len, Union(may, {a, s})), s.len)

\* Shifts are not handled; one byte to the left stands for all of them.
Shift(d) ==
    /\ Use("shift") /\ Go
    /\ tags' = tags
    /\ d.len > 1
    /\ Cpu(d, [l \in Loc |-> IF ~At(d, l) THEN must[l]
                             ELSE IF l[2] = d.off THEN {}
                             ELSE must[<<l[1], l[2] - 1>>]],
              Fill(may, d, Union(may, {d})))

-----------------------------------------------------------------------------
(* Extension *)

Low(d, s)  == Op(d.base, d.off, s.len)
High(d, s) == Op(d.base, d.off + s.len, d.len - s.len)
Top(s)     == <<s.base, s.off + s.len - 1>>

\* Both movsx and movzx clear the tags of the bytes they add.
Extend(t, d, s) == Clr(Xfer(t, Low(d, s), s), High(d, s))

\* The routines for a quad destination are those named opq.
Widen(d, s, quad) ==
    /\ d \in RegOperand /\ s.len < d.len /\ (d.len = Q <=> quad)
    /\ tags' = Extend(tags, d, s)

movsx_r2r(d, s)     == s \in RegOperand /\ Widen(d, s, FALSE)
movsx_r2r_opq(d, s) == s \in RegOperand /\ Widen(d, s, TRUE)
movsx_m2r(d, s)     == s \in MemOperand /\ Widen(d, s, FALSE)
movsx_m2r_opq(d, s) == s \in MemOperand /\ Widen(d, s, TRUE)
movzx_r2r(d, s)     == s \in RegOperand /\ Widen(d, s, FALSE)
movzx_r2r_opq(d, s) == s \in RegOperand /\ Widen(d, s, TRUE)
movzx_m2r(d, s)     == s \in MemOperand /\ Widen(d, s, FALSE)
movzx_m2r_opq(d, s) == s \in MemOperand /\ Widen(d, s, TRUE)

CpuZeroExtend(d, s) == Cpu(d, Extend(must, d, s), Extend(may, d, s))

MovzxReg(d, s) ==
    Use("plain") /\ Go /\ (movzx_r2r(d, s) \/ movzx_r2r_opq(d, s)) /\ CpuZeroExtend(d, s)
MovzxMem(d, s) ==
    Use("plain") /\ Go /\ (movzx_m2r(d, s) \/ movzx_m2r_opq(d, s)) /\ CpuZeroExtend(d, s)

Movzx(d, s) == MovzxReg(d, s) \/ MovzxMem(d, s)

CpuSignExtend(d, s) ==
    Cpu(d, Fill(Xfer(must, Low(d, s), s), High(d, s), must[Top(s)]),
           Fill(Xfer(may, Low(d, s), s), High(d, s), Union(may, {s})))

MovsxReg(d, s) ==
    Use("extend") /\ Go /\ (movsx_r2r(d, s) \/ movsx_r2r_opq(d, s)) /\ CpuSignExtend(d, s)
MovsxMem(d, s) ==
    Use("extend") /\ Go /\ (movsx_m2r(d, s) \/ movsx_m2r_opq(d, s)) /\ CpuSignExtend(d, s)

Movsx(d, s) == MovsxReg(d, s) \/ MovsxMem(d, s)

\* cwde and cdqe: the accumulator is extended to the next width.
cwde(n, w) == tags' = Clr(tags, High(Reg(RAX, n), Reg(RAX, w)))

Cwde(n, w) ==
    /\ Use("extend") /\ Go
    /\ n \in Widths
    /\ cwde(n, w)
    /\ CpuSignExtend(Reg(RAX, n), Reg(RAX, w))

\* cbw, cwd, cdq and cqo: d is filled with the sign of s, and gets its tags.
SignInto(d, s) ==
    /\ Use("extend") /\ Go
    /\ s.len \in Widths
    /\ tags' = Xfer(tags, d, s)
    /\ Cpu(d, Fill(must, d, must[Top(s)]), Fill(may, d, Union(may, {s})))

-----------------------------------------------------------------------------
(* Exchanges *)

Swap(t, d, s) ==
    [l \in Loc |-> IF At(d, l) THEN t[Twin(l, d, s)]
                   ELSE IF At(s, l) THEN t[Twin(l, s, d)] ELSE t[l]]

xchg_r2r(d, s) == d \in RegOperand /\ s \in RegOperand /\ tags' = Swap(tags, d, s)
\* Mutant of xchg_m2r: the memory keeps its tags.
xchg_m2r_Load(d, s) == d \in RegOperand /\ s \in MemOperand /\ d.len > 1 /\ tags' = Xfer(tags, d, s)

xchg_m2r(d, s) == d \in RegOperand /\ s \in MemOperand /\ d.len > 1 /\ tags' = Swap(tags, d, s)
xchg_m2r_opb(d, s) == d \in RegOperand /\ s \in MemOperand /\ d.len = 1 /\ tags' = Swap(tags, d, s)

CpuSwap(d, s) ==
    /\ must' = Zx(Zx(Swap(must, d, s), d), s)
    /\ may' = Zx(Zx(Swap(may, d, s), d), s)

XchgRegs(d, s) == Use("plain") /\ Go /\ d.len = s.len /\ xchg_r2r(d, s) /\ CpuSwap(d, s)
XchgMem(d, s)  ==
    /\ Use("plain") /\ Go
    /\ d.len = s.len
    /\ xchg_m2r(d, s) \/ xchg_m2r_opb(d, s)
    /\ CpuSwap(d, s)

Xchg(d, s) == XchgRegs(d, s) \/ XchgMem(d, s)

Xadd(t, d, s) ==
    [l \in Loc |-> IF At(s, l) THEN t[Twin(l, s, d)]
                   ELSE IF At(d, l) THEN t[l] \cup t[Twin(l, d, s)] ELSE t[l]]

xadd_r2r(d, s) == d \in RegOperand /\ s \in RegOperand /\ tags' = Xadd(tags, d, s)
xadd_r2m_op(d, s)  == d \in MemOperand /\ s \in RegOperand /\ d.len > 1 /\ tags' = Xadd(tags, d, s)
xadd_r2m_opb(d, s) == d \in MemOperand /\ s \in RegOperand /\ d.len = 1 /\ tags' = Xadd(tags, d, s)
xadd_r2m(d, s) == xadd_r2m_op(d, s) \/ xadd_r2m_opb(d, s)

CpuXadd(d, s) ==
    /\ must' = Zx(Zx(Xadd(must, d, s), d), s)
    /\ may' = Zx(Zx(Fill(Xfer(may, s, d), d, Union(may, {d, s})), d), s)

XaddRegs(d, s) == Use("plain") /\ Go /\ d.len = s.len /\ xadd_r2r(d, s) /\ CpuXadd(d, s)
XaddMem(d, s)  == Use("plain") /\ Go /\ d.len = s.len /\ xadd_r2m(d, s) /\ CpuXadd(d, s)

XaddIns(d, s) == XaddRegs(d, s) \/ XaddMem(d, s)

\* Mutant of cmpxchg_slow: the accumulator keeps the tags of d.
cmpxchg_slow_NoRestore(t, a, d, s) == Xfer(t, d, s)

\* The fast path saves the tags of the accumulator a in the scratch register and
\* gives it those of d, as if the comparison were to fail; the slow path, taken
\* when it succeeds, undoes that and moves the tags of s to d.
cmpxchg_fast(t, a, d) ==
    Xfer(Xfer(Clr(t, Reg(Scratch, Q)), Reg(Scratch, d.len), a), a, d)
cmpxchg_slow(t, a, d, s) ==
    Xfer(Xfer(t, a, Reg(Scratch, d.len)), d, s)
cmpxchg(t, a, d, s, equal) ==
    IF equal THEN cmpxchg_slow(cmpxchg_fast(t, a, d), a, d, s) ELSE cmpxchg_fast(t, a, d)

Cmpxchg(d, s, equal) ==
    LET a == Reg(RAX, d.len) IN
    /\ Use("plain") /\ Go
    /\ d.len = s.len /\ d.len > 1
    /\ s \in RegOperand
    /\ tags' = cmpxchg(tags, a, d, s, equal)
    /\ IF equal THEN CpuMove(d, s) ELSE CpuMove(a, d)

\* The routines of 8-bit operands are missing.
Cmpxchg8(d, s) ==
    /\ Use("cmpxchg8") /\ Go
    /\ d.len = 1 /\ s.len = 1
    /\ s \in RegOperand
    /\ tags' = tags
    /\ CpuMove(d, s) \/ CpuMove(AL, d)

-----------------------------------------------------------------------------
(* Strings, stack frames, addresses, vectors *)

\* Bytes lo to lo + c * n - 1 get, element by element, the n bytes of rAX.
Stosn(t, lo, n, c) ==
    [l \in Loc |-> IF l[1] = Mem /\ lo <= l[2] /\ l[2] < lo + c * n
                   THEN t[<<RAX, (l[2] - lo) % n>>] ELSE t[l]]

\* The routine writes upwards from the first address, or downwards to it.
r2m_xfer_n(t, a, n, c, down) == Stosn(t, IF down THEN a + 1 - c * n ELSE a, n, c)

\* rep stos of c elements of n bytes from address a; with the direction flag set
\* the last element is the one c - 1 elements below a.
RepStos(a, n, c, down) ==
    LET lo == IF down THEN a + n - c * n ELSE a IN
    /\ Use(IF down THEN "std" ELSE "plain") /\ Go
    /\ a + n <= Size
    /\ IF down THEN c * n <= a + 1 ELSE a + c * n <= Size
    /\ tags' = r2m_xfer_n(tags, a, n, c, down)
    /\ must' = Stosn(must, lo, n, c)
    /\ may' = Stosn(may, lo, n, c)

\* leave of a 64-bit frame. The routines of 16-bit operands run as well, on the
\* scratch register that stands for the registers REG16_INDX does not know.
Leave(s) ==
    /\ Use("leave") /\ Go
    /\ s.len = Q
    /\ tags' = Xfer(Xfer(Xfer(tags, Reg(RSP, Q), Reg(RBP, Q)), Reg(RBP, Q), s),
                    Reg(Scratch, W), Op(Mem, s.off, W))
    /\ must' = Xfer(Xfer(must, Reg(RSP, Q), Reg(RBP, Q)), Reg(RBP, Q), s)
    /\ may' = Xfer(Xfer(may, Reg(RSP, Q), Reg(RBP, Q)), Reg(RBP, Q), s)

\* lea of an address without registers, or of one relative to rip.
LeaClear(d) == Use("plain") /\ Go /\ d.len > 1 /\ r_clr(d) /\ CpuClear(d)

\* lea with base and index registers; one of them alone is a move.
lea_r2r(t, d, b, i) ==
    [l \in Loc |-> IF At(d, l) THEN t[Twin(l, d, b)] \cup t[Twin(l, d, i)] ELSE t[l]]

Lea(d, b, i) ==
    /\ Use("plain") /\ Go
    /\ tags' = lea_r2r(tags, d, b, i)
    /\ Cpu(d, lea_r2r(must, d, b, i), Fill(may, d, Union(may, {b, i})))

\* lea into a narrower register: the 64-bit base is unknown to REG32_INDX and
\* REG16_INDX, which answer the scratch register.
LeaNarrow(d, b) ==
    /\ Use("lea32") /\ Go
    /\ d \in RegOperand /\ d.len \in {W, L}
    /\ b \in RegOperand /\ b.len = Q
    /\ tags' = Xfer(tags, d, Reg(Scratch, d.len))
    /\ Cpu(d, Xfer(must, d, b), Fill(may, d, Union(may, {b})))

\* A vector register has no tags: a load into it does nothing, a store from it
\* clears the memory it writes, a move out of it the register.
SseLoad(s) ==
    /\ Use("sse") /\ Go
    /\ s.len = Q
    /\ tags' = tags
    /\ CpuMove(Reg(Xmm, Q), s)

\* Mutant of m_clrn: a clean byte is one that has tag 0.
m_clrn_TagZero(t, d) == Fill(t, d, {0})

m_clrn(t, d) == Clr(t, d)

SseStore(d) ==
    /\ Use("sse") /\ Go
    /\ d.len = Q
    /\ tags' = m_clrn(tags, d)
    /\ CpuMove(d, Reg(Xmm, Q))

-----------------------------------------------------------------------------
(* Bit scans *)

CpuScan(d, s) ==
    Cpu(d, Fill(Clr(must, d), Op(d.base, 0, 1), Union(must, {s})),
           Fill(Clr(may, d), Op(d.base, 0, 1), Union(may, {s})))

\* bsf and bsr write the tags of the source back to the source.
r2r_bitscan(d, s) == tags' = Xfer(tags, s, s)

BitscanReg(d, s) ==
    /\ Use("bitscan") /\ Go
    /\ {d, s} \subseteq RegOperand /\ d.len = s.len /\ d.len > 1
    /\ r2r_bitscan(d, s)
    /\ CpuScan(d, s)

\* With a memory source the address indexes the shadow registers: the tool is
\* killed, or writes to memory that is not its own.
m2r_bitscan(d, s) == tags' = tags /\ running' \in BOOLEAN

BitscanMem(d, s) ==
    /\ Use("bitscan")
    /\ d \in RegOperand /\ s \in MemOperand /\ d.len = s.len /\ d.len > 1
    /\ m2r_bitscan(d, s)
    /\ CpuScan(d, s)

-----------------------------------------------------------------------------
\* The instructions, as ins_inspect tells them apart.
Next ==
    \/ ClearPair
    \/ \E d \in Operand : MovImm(d) \/ PushClear(d) \/ Clear(d) \/ ClearIdiom(d) \/ BinaryImm(d) \/ Shift(d)
                            \/ LeaClear(d) \/ SseStore(d)
    \/ \E s \in MemOperand : SseLoad(s) \/ Lods(s) \/ Leave(s) \/ DivMem(s)
    \/ \E s \in RegOperand : Div(s) \/ Mul(s)
    \/ \E d, s \in Operand :
          \/ Mov(d, s) \/ Movs(d, s) \/ Push(d, s) \/ Pop(d, s) \/ Binary(d, s) \/ Imul3(d, s)
          \/ Movzx(d, s) \/ Movsx(d, s) \/ Xchg(d, s) \/ XaddIns(d, s)
          \/ Cmpxchg8(d, s) \/ LeaNarrow(d, s) \/ BitscanReg(d, s) \/ BitscanMem(d, s)
          \/ \E c \in BOOLEAN : Cmov(d, s, c) \/ Cmpxchg(d, s, c)
    \/ \E d, b, i \in {r \in RegOperand : r.len = Q} : Lea(d, b, i)
    \/ Cwde(L, W) \/ Cwde(Q, L)
    \/ SignInto(AH, AL)
    \/ \E n \in {W, L, Q} : SignInto(Reg(RDX, n), Reg(RAX, n))
    \/ \E a \in 0 .. Size - 1, n \in Widths, c \in 1 .. 2, down \in BOOLEAN :
          RepStos(a, n, c, down)

Spec == Init /\ [][Next]_vars

-----------------------------------------------------------------------------
(* Properties *)

Shadow == [Loc -> SUBSET Sources]

\* The tags of every byte of a register or of memory are a set of sources, and the
\* length of the program stays within its bound.
TypeOK ==
    /\ tags \in Shadow
    /\ must \in Shadow
    /\ may \in Shadow
    /\ count \in 0 .. MaxIns
    /\ running \in BOOLEAN

\* No flow is lost: a byte that the processor filled from the bytes of a source,
\* through any chain of moves, exchanges, arithmetic and addresses, has the tag of
\* that source.
NoLostFlow == \A l \in Loc : must[l] \subseteq tags[l]

\* No tag is stale: a tag on a byte is that of a source that can have influenced
\* its present value.
NoStaleTag == \A l \in Loc : l[1] # Scratch => tags[l] \subseteq may[l]
=============================================================================
