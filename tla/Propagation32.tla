--------------------------- MODULE Propagation32 ---------------------------
(***************************************************************************)
(* Tag propagation of the 32-bit libdft (libdft_core.c): a tag is one bit    *)
(* per byte, in the shadow registers (vcpu.gpr, four bits each) and in the    *)
(* bitmap of tagmap.c. ins_inspect picks the analysis routines of an          *)
(* instruction, and there is an action for each of its cases.                 *)
(*                                                                           *)
(* As in Propagation, must and may are moved by what the processor does:      *)
(* must by the flow of each byte, may by the flow of whole operands.          *)
(***************************************************************************)
EXTENDS Tagmap32

CONSTANTS
    Regs,        \* indices of the registers that the program uses as operands
    Size,        \* bytes of memory
    Starts,      \* addresses of the operands in memory
    Frames,      \* addresses at which all the registers are saved and restored
    Counts,      \* repetitions of stos
    Input,       \* the bytes of registers and memory that can be tagged at first
    Program,     \* the classes of instructions the program is made of
    KeepFlow,    \* the classes whose routines lose no tag
    KeepClean,   \* the classes whose routines leave no stale tag
    MaxIns       \* number of instructions executed

Classes == {"plain", "bitscan", "movsxw", "memext", "div", "memdiv", "mul", "imul3",
            "xchgw", "xadd", "xaddmem", "cmpxchg8", "stosb", "stosn", "stosm", "std",
            "shift", "popa", "popaoff", "lea16", "enter", "sse"}

\* Indices of vcpu.gpr; the memory and a vector register stand beside them.
EBP == 2
ESP == 3
EBX == 4
EDX == 5
ECX == 6
EAX == 7
Scratch == 8
Mem == 9
Xmm == 10
Gpr == 0 .. 7

ASSUME Propagation32Assumption ==
    /\ Regs \subseteq Gpr
    /\ Size \in Nat /\ MaxIns \in Nat
    /\ Starts \subseteq 0 .. Size - 1 /\ Frames \subseteq 0 .. Size - 1
    /\ Counts \subseteq Nat \ {0}
    /\ Input \subseteq (Gpr \X (0 .. 3)) \cup ({Mem} \X (0 .. Size - 1))
    /\ Program \subseteq Classes /\ KeepFlow \subseteq Classes /\ KeepClean \subseteq Classes

VARIABLES
    tags,      \* the tagged bytes of the shadow registers and of the bitmap
    must,      \* lower bound: byte by byte flow of the processor
    may,       \* upper bound: operand by operand flow of the processor
    used,      \* the classes of the instructions executed
    count      \* instructions executed

vars == <<tags, must, may, used, count>>

-----------------------------------------------------------------------------
(* Bytes, operands, and the bits of an operand's tag *)

\* Behind the memory, the bytes whose bits a word at its end reaches.
Loc == ((Gpr \cup {Scratch, Xmm}) \X (0 .. 3)) \cup ({Mem} \X (0 .. Size + 8))

Op(b, o, n) == [base |-> b, off |-> o, len |-> n]
Reg(r, n)   == Op(r, 0, n)
AL == Op(EAX, 0, 1)
AH == Op(EAX, 1, 1)

\* The index of a register operand of the width of the routine; every other
\* register has the index of the scratch register.
REG32_INDX(r) == IF r.len = 4 THEN r.base ELSE Scratch
REG16_INDX(r) == IF r.len = 2 THEN r.base ELSE Scratch

\* Only the last four registers have 8-bit parts, a lower and an upper one.
RegOperand ==
    {Reg(r, n) : r \in Regs, n \in {2, 4}}
        \cup {Op(r, o, 1) : r \in Regs \cap (EBX .. EAX), o \in {0, 1}}
MemOperand ==
    {d \in {Op(Mem, a, n) : a \in Starts, n \in {1, 2, 4}} : d.off + d.len <= Size}
Operand == RegOperand \cup MemOperand

\* The operands among S of the width of d.
SameLen(d, S) == {s \in S : s.len = d.len}

Bytes(d)     == {<<d.base, d.off + k>> : k \in 0 .. d.len - 1}
Get(t, s)    == {k \in 0 .. s.len - 1 : <<s.base, s.off + k>> \in t}
Put(t, d, B) == (t \ Bytes(d)) \cup {<<d.base, d.off + k>> : k \in B}

Xfer(t, d, s)    == Put(t, d, Get(t, s))
Combine(t, d, s) == Put(t, d, Get(t, d) \cup Get(t, s))
Swap(t, d, s)    == Put(Xfer(t, d, s), s, Get(t, d))
Clr(t, d)        == t \ Bytes(d)
Fill(t, d, b)    == IF b THEN t \cup Bytes(d) ELSE t \ Bytes(d)
Any(t, S)        == \E s \in S : Get(t, s) # {}

\* The bitmap as the set of tagged addresses.
Bitmap(t)        == {l[2] : l \in {m \in t : m[1] = Mem}}
WithBitmap(t, b) == {m \in t : m[1] # Mem} \cup ({Mem} \X b)

\* One more instruction of class c.
Use(c) == c \in Program /\ count < MaxIns /\ count' = count + 1 /\ used' = used \cup {c}

Cpu(f, g)      == must' = f /\ may' = g
CpuMove(d, s)  == Cpu(Xfer(must, d, s), Xfer(may, d, s))
CpuArith(d, s) == Cpu(Combine(must, d, s), Fill(may, d, Any(may, {d, s})))
CpuClear(d)    == Cpu(Clr(must, d), Clr(may, d))

Init ==
    /\ tags \in SUBSET Input
    /\ must = tags
    /\ may = tags
    /\ used = {}
    /\ count = 0

-----------------------------------------------------------------------------
(* Moves *)

r2r_xfer(d, s) == tags' = Xfer(tags, d, s)
m2r_xfer(d, s) == tags' = Xfer(tags, d, s)
r2m_xfer_opb(d, s) == d.len = 1 /\ tags' = Xfer(tags, d, s)
r2m_xfer_opw(d, s) == d.len = 2 /\ tags' = Xfer(tags, d, s)
r2m_xfer_opl(d, s) == d.len = 4 /\ tags' = Xfer(tags, d, s)
r2m_xfer(d, s) == r2m_xfer_opb(d, s) \/ r2m_xfer_opw(d, s) \/ r2m_xfer_opl(d, s)
m2m_xfer(d, s) == tags' = Xfer(tags, d, s)

r_clr(d) == d.base # Mem /\ tags' = Clr(tags, d)
tagmap_clr(d) ==
    LET b == Bitmap(tags)  a == d.off IN
    /\ d.base = Mem
    /\ tags' = WithBitmap(tags, CASE d.len = 1 -> tagmap_clrb(b, a)
                                  [] d.len = 2 -> tagmap_clrw(b, a)
                                  [] d.len = 4 -> tagmap_clrl(b, a))

\* mov of an immediate or of a segment register.
MovImm(d) == Use("plain") /\ (r_clr(d) \/ tagmap_clr(d)) /\ CpuClear(d)

MovRegs(d, s)  == Use("plain") /\ r2r_xfer(d, s) /\ CpuMove(d, s)
MovLoad(d, s)  == Use("plain") /\ m2r_xfer(d, s) /\ CpuMove(d, s)
MovStore(d, s) == Use("plain") /\ r2m_xfer(d, s) /\ CpuMove(d, s)

\* bsf and bsr fall through to mov; the processor computes one number from all
\* the bytes of s.
BitscanOf(d, s) ==
    /\ Use("bitscan")
    /\ d.len > 1
    /\ Cpu(Put(must, d, IF Any(must, {s}) THEN {0} ELSE {}), Fill(may, d, Any(may, {s})))
BitscanRegs(d, s) == BitscanOf(d, s) /\ r2r_xfer(d, s)
BitscanLoad(d, s) == BitscanOf(d, s) /\ m2r_xfer(d, s)

\* cmov: the call is predicated, and made when the condition holds.
CmovRegs(d, s, taken) ==
    /\ Use("plain") /\ d.len > 1
    /\ IF taken THEN r2r_xfer(d, s) /\ CpuMove(d, s) ELSE tags' = tags /\ Cpu(must, may)
CmovLoad(d, s, taken) ==
    /\ Use("plain") /\ d.len > 1
    /\ IF taken THEN m2r_xfer(d, s) /\ CpuMove(d, s) ELSE tags' = tags /\ Cpu(must, may)

\* xlat and lods: a load of the accumulator.
Lods(s) ==
    LET d == Reg(EAX, s.len) IN Use("plain") /\ m2r_xfer(d, s) /\ CpuMove(d, s)

Movs(d, s) == Use("plain") /\ m2m_xfer(d, s) /\ CpuMove(d, s)

\* The stack is memory.
PushReg(d, s) == Use("plain") /\ d.len > 1 /\ r2m_xfer(d, s) /\ CpuMove(d, s)
PushMem(d, s) == Use("plain") /\ d.len > 1 /\ m2m_xfer(d, s) /\ CpuMove(d, s)
PopReg(d, s)  == Use("plain") /\ d.len > 1 /\ m2r_xfer(d, s) /\ CpuMove(d, s)
PopMem(d, s)  == Use("plain") /\ d.len > 1 /\ m2m_xfer(d, s) /\ CpuMove(d, s)
PushImm(d)    == Use("plain") /\ tagmap_clr(d) /\ CpuClear(d)

-----------------------------------------------------------------------------
(* Results that are no data *)

Setcc(d)    == Use("plain") /\ d.len = 1 /\ (r_clr(d) \/ tagmap_clr(d)) /\ CpuClear(d)
Stmxcsr(d)  == Use("plain") /\ d.len = 4 /\ tagmap_clr(d) /\ CpuClear(d)
Smsw(d)     == Use("plain") /\ d.len > 1 /\ (d.len = 4 => d.base # Mem)
                            /\ (r_clr(d) \/ tagmap_clr(d)) /\ CpuClear(d)
Lar(d)      == Use("plain") /\ d.len > 1 /\ r_clr(d) /\ CpuClear(d)
Pushf(d)    == Use("plain") /\ d.len > 1 /\ tagmap_clr(d) /\ CpuClear(d)
CallNear(d) == Use("plain") /\ d.len > 1 /\ tagmap_clr(d) /\ CpuClear(d)
Lahf == Use("plain") /\ tags' = Clr(tags, AH) /\ CpuClear(AH)
Salc == Use("plain") /\ tags' = Clr(tags, AL) /\ CpuClear(AL)

r_clrl2(t) == Clr(Clr(t, Reg(EDX, 4)), Reg(EAX, 4))
\* Mutant of r_clrl4: two registers of the four.
r_clrl4_Two(t) == r_clrl2(t)

r_clrl4(t) == Clr(Clr(r_clrl2(t), Reg(EBX, 4)), Reg(ECX, 4))

CpuClearRegs(R) == Cpu({l \in must : l[1] \notin R}, {l \in may : l[1] \notin R})

Rdtsc == Use("plain") /\ tags' = r_clrl2(tags) /\ CpuClearRegs({EAX, EDX})
Cpuid == Use("plain") /\ tags' = r_clrl4(tags) /\ CpuClearRegs({EAX, EBX, ECX, EDX})

-----------------------------------------------------------------------------
(* Arithmetic *)

r2r_binary(d, s) == tags' = Combine(tags, d, s)
m2r_binary(d, s) == tags' = Combine(tags, d, s)
r2m_binary(d, s) == tags' = Combine(tags, d, s)

\* The second operand is immediate: nothing to do.
BinaryImm(d) ==
    Use("plain") /\ tags' = tags /\ Cpu(must, Fill(may, d, Any(may, {d})))

\* adc, add, and, or, and xor, sub, sbb, which clear a register combined with itself.
BinaryOp(d, s, clears) ==
    IF clears /\ d = s THEN r_clr(d) /\ CpuClear(d)
                       ELSE r2r_binary(d, s) /\ CpuArith(d, s)

BinaryRegs(d, s, clears)  == Use("plain") /\ d.len > 1 /\ BinaryOp(d, s, clears)
BinaryBytes(d, s, clears) == Use("plain") /\ d.len = 1 /\ BinaryOp(d, s, clears)
BinaryLoad(d, s)  == Use("plain") /\ m2r_binary(d, s) /\ CpuArith(d, s)
BinaryStore(d, s) == Use("plain") /\ r2m_binary(d, s) /\ CpuArith(d, s)

\* imul with two operands, and with three, where it overwrites d.
ImulRegs(d, s) == Use("plain") /\ d.len > 1 /\ r2r_binary(d, s) /\ CpuArith(d, s)
ImulLoad(d, s) == Use("plain") /\ d.len > 1 /\ m2r_binary(d, s) /\ CpuArith(d, s)
CpuImul3(d, s) == Cpu(Xfer(must, d, s), Fill(may, d, Any(may, {s})))
Imul3Regs(d, s) == Use("imul3") /\ d.len > 1 /\ r2r_binary(d, s) /\ CpuImul3(d, s)
Imul3Load(d, s) == Use("imul3") /\ d.len > 1 /\ m2r_binary(d, s) /\ CpuImul3(d, s)

\* The results of div and mul of width n: AX, or rDX and rAX.
Hi(n) == IF n = 1 THEN AH ELSE Reg(EDX, n)
Lo(n) == IF n = 1 THEN AL ELSE Reg(EAX, n)
CombinePair(t, s)   == Combine(Combine(t, Hi(s.len), s), Lo(s.len), s)
FillPair(t, n, b)   == Fill(Fill(t, Hi(n), b), Lo(n), b)

r2r_ternary(s) == tags' = CombinePair(tags, s)
m2r_ternary(s) == tags' = CombinePair(tags, s)

CpuDiv(s) ==
    Cpu(CombinePair(must, s), FillPair(may, s.len, Any(may, {Hi(s.len), Lo(s.len), s})))
\* The upper half of a product is overwritten.
CpuMul(s) ==
    Cpu(CombinePair(Xfer(must, Hi(s.len), Lo(s.len)), s),
        FillPair(may, s.len, Any(may, {Lo(s.len), s})))

\* The width of a memory operand is asked of INS_MemoryWriteSize, and these
\* instructions read their operand: every width takes the branch of a byte.
ReadAsByte(s) == Op(s.base, s.off, 1)

Div(s)     == Use("div") /\ r2r_ternary(s) /\ CpuDiv(s)
DivMem(s)  == Use("memdiv") /\ m2r_ternary(ReadAsByte(s)) /\ CpuDiv(s)
Mul(s)     == Use("mul") /\ r2r_ternary(s) /\ CpuMul(s)
MulMem(s)  == Use("mul") /\ m2r_ternary(ReadAsByte(s)) /\ CpuMul(s)
Imul1(s)    == Use("mul") /\ r2r_ternary(s) /\ CpuMul(s)
Imul1Mem(s) == Use("mul") /\ m2r_ternary(ReadAsByte(s)) /\ CpuMul(s)

\* Shifts are not handled; one byte to the left stands for all of them.
Shift(d) ==
    /\ Use("shift")
    /\ d.len > 1
    /\ tags' = tags
    /\ Cpu(Put(must, d, {k \in 1 .. d.len - 1 : k - 1 \in Get(must, d)}),
           Fill(may, d, Any(may, {d})))

-----------------------------------------------------------------------------
(* Extension *)

\* Mutant of Extend: one byte too many.
Extend_OneMore(t, d, s) == Put(t, d, {k \in 0 .. d.len : k % s.len \in Get(t, s)})

\* The bits of the source fill the destination, as often as they fit.
Extend(t, d, s) == Put(t, d, {k \in 0 .. d.len - 1 : k % s.len \in Get(t, s)})

movsx_r2r(d, s) == tags' = Extend(tags, d, s)
movsx_m2r(d, s) == tags' = Extend(tags, d, s)
movzx_r2r(d, s) == tags' = Xfer(tags, d, s)
movzx_m2r(d, s) == tags' = Xfer(tags, d, s)

\* The added bytes hold the sign of s.
CpuSignExtend(d, s) ==
    Cpu(Put(must, d, {k \in 0 .. d.len - 1 :
                        (IF k < s.len THEN k ELSE s.len - 1) \in Get(must, s)}),
        Put(may, d, {k \in 0 .. d.len - 1 :
                        IF k < s.len THEN k \in Get(may, s) ELSE Any(may, {s})}))

MovsxRegs(d, s) ==
    /\ Use(IF s.len = 1 THEN "plain" ELSE "movsxw")
    /\ s.len < d.len /\ movsx_r2r(d, s) /\ CpuSignExtend(d, s)
MovzxRegs(d, s) == Use("plain") /\ s.len < d.len /\ movzx_r2r(d, s) /\ CpuMove(d, s)

\* A source in memory is taken to be a byte: see ReadAsByte.
MovsxLoad(d, s) ==
    /\ Use(IF s.len = 1 THEN "plain" ELSE "memext")
    /\ s.len < d.len /\ movsx_m2r(d, ReadAsByte(s)) /\ CpuSignExtend(d, s)
MovzxLoad(d, s) ==
    /\ Use(IF s.len = 1 THEN "plain" ELSE "memext")
    /\ s.len < d.len /\ movzx_m2r(d, ReadAsByte(s)) /\ CpuMove(d, s)

\* cbw, cwd and cdq: d is filled with the sign of s, and gets its tags.
SignInto(d, s) ==
    /\ Use(IF s.len = 1 THEN "plain" ELSE "movsxw")
    /\ tags' = Xfer(tags, d, s)
    /\ Cpu(Fill(must, d, s.len - 1 \in Get(must, s)), Fill(may, d, Any(may, {s})))

Cbw == SignInto(AH, AL)
Cwd == SignInto(Reg(EDX, 2), Reg(EAX, 2))
Cdq == SignInto(Reg(EDX, 4), Reg(EAX, 4))

cwde(t) == Extend(t, Reg(EAX, 4), Reg(EAX, 2))
Cwde == Use("movsxw") /\ tags' = cwde(tags) /\ CpuSignExtend(Reg(EAX, 4), Reg(EAX, 2))

-----------------------------------------------------------------------------
(* Exchanges *)

xchg_r2r(d, s) ==
    tags' = IF d.len < 4 THEN Swap(tags, d, s)
            ELSE Xfer(Xfer(Xfer(tags, Reg(Scratch, 4), d), d, s), s, Reg(Scratch, 4))

\* The tag of a word is compared (<) with the bit where it was to be shifted (<<)
\* to that bit: the word has no tag, the first byte of its bitmap byte may get one.
Number(B)          == (IF 0 \in B THEN 1 ELSE 0) + (IF 1 \in B THEN 2 ELSE 0)
LessWord(t, m, B) ==
    Clr(t, m) \cup (IF Number(B) < VIRT2BIT(m.off) THEN {<<Mem, 8 * VIRT2BYTE(m.off)>>} ELSE {})

xchg_m2r_op(d, s)  == d.len # 2 /\ tags' = Swap(tags, d, s)
xchg_m2r_opw(d, s) == d.len = 2 /\ tags' = LessWord(Xfer(tags, d, s), s, Get(tags, d))

XchgRegs(d, s) ==
    /\ Use("plain")
    /\ xchg_r2r(d, s)
    /\ Cpu(Swap(must, d, s), Swap(may, d, s))
XchgMem(d, s) ==
    /\ Use(IF d.len = 2 THEN "xchgw" ELSE "plain")
    /\ xchg_m2r_op(d, s) \/ xchg_m2r_opw(d, s)
    /\ Cpu(Swap(must, d, s), Swap(may, d, s))

\* The other bytes of the first register lose their tags.
xadd_r2r(t, d, s) ==
    Put(Put(Clr(t, Reg(d.base, 4)), d, Get(t, d) \cup Get(t, s)), s, Get(t, d))
xadd_opl(t, d, s) ==
    LET x == Reg(Scratch, 4) IN Combine(Xfer(Xfer(Xfer(t, x, d), d, s), s, x), d, s)

\* r is the register and m the memory, though m is the first operand.
xadd_r2m_opb(t, r, m) ==
    Put(Put(Clr(t, Reg(r.base, 4)), r, Get(t, r) \cup Get(t, m)), m, Get(t, r))
xadd_r2m_opw(t, r, m) ==
    LessWord(Put(Clr(t, Reg(r.base, 4)), r, Get(t, r) \cup Get(t, m)), m, Get(t, r))
\* The mask is not negated: the rest of the 16-bit word loses its tags.
xadd_r2m_opl(t, r, m) ==
    LET lost == {<<Mem, a>> : a \in BitmapWord(m.off, 16) \ Mask(m.off, 4, 16)} IN
    Put(Xfer(t, r, m) \ lost, m, Get(t, m) \cup Get(t, r))

CpuXadd(d, s) ==
    Cpu(Put(Xfer(must, s, d), d, Get(must, d) \cup Get(must, s)),
        Fill(Xfer(may, s, d), d, Any(may, {d, s})))

XaddRegs(d, s) ==
    /\ Use(IF d.len = 4 THEN "plain" ELSE "xadd")
    /\ tags' = IF d.len = 4 THEN xadd_opl(tags, d, s) ELSE xadd_r2r(tags, d, s)
    /\ CpuXadd(d, s)
XaddMem(d, s) ==
    /\ Use("xaddmem")
    /\ tags' = CASE s.len = 4 -> xadd_r2m_opl(tags, s, d)
                 [] s.len = 2 -> xadd_r2m_opw(tags, s, d)
                 [] s.len = 1 -> xadd_r2m_opb(tags, s, d)
    /\ CpuXadd(d, s)

\* Mutant of cmpxchg_slow: the accumulator keeps the tags of d.
cmpxchg_slow_NoRestore(t, d, s) == Xfer(t, d, s)

\* The fast path saves the accumulator's tags in the scratch register and gives it
\* those of d; the slow path, taken when the values are equal, undoes that.
cmpxchg_fast(t, d) == Xfer(Xfer(t, Reg(Scratch, 4), Reg(EAX, 4)), Reg(EAX, d.len), d)
cmpxchg_slow(t, d, s) == Xfer(Xfer(t, Reg(EAX, 4), Reg(Scratch, 4)), d, s)

CmpxchgOp(d, s, equal) ==
    /\ Use("plain")
    /\ d.len > 1
    /\ tags' = IF equal THEN cmpxchg_slow(cmpxchg_fast(tags, d), d, s)
                        ELSE cmpxchg_fast(tags, d)
    /\ IF equal THEN CpuMove(d, s) ELSE CpuMove(Reg(EAX, d.len), d)

CmpxchgRegs(d, s, equal) == CmpxchgOp(d, s, equal)
CmpxchgMem(d, s, equal)  == CmpxchgOp(d, s, equal)

\* The routines of 8-bit operands are missing.
Cmpxchg8(d, s) ==
    /\ Use("cmpxchg8")
    /\ d.len = 1
    /\ tags' = tags
    /\ CpuMove(d, s) \/ CpuMove(AL, d)

-----------------------------------------------------------------------------
(* Strings, frames, addresses *)

\* All of the bytes are tagged when some byte of the accumulator is.
r2m_xfer_n(t, addr, n, c, down) ==
    LET a == IF down THEN (addr + 1) - c * n ELSE addr
        b == Bitmap(t)
    IN  WithBitmap(t, IF Any(t, {Reg(EAX, n)}) THEN tagmap_setn(b, a, c * n)
                                               ELSE tagmap_clrn(b, a, c * n))
r2m_xfer_opbn(t, addr, c, down) == r2m_xfer_n(t, addr, 1, c, down)
r2m_xfer_opwn(t, addr, c, down) == r2m_xfer_n(t, addr, 2, c, down)
r2m_xfer_opln(t, addr, c, down) == r2m_xfer_n(t, addr, 4, c, down)

\* rep stos of c elements of n bytes from addr. With the direction flag set the
\* last element is the one c - 1 elements below.
Stosn(t, lo, n, c) ==
    Put(t, Op(Mem, lo, c * n), {k \in 0 .. (c * n) - 1 : k % n \in Get(t, Reg(EAX, n))})

\* Seven bytes are left to the last loop of tagmap_clrn, which then multiplies the
\* word and so changes the bits of the bytes behind the range.
Multiplied(a, num) == num > ALIGN_OFF_MAX /\ RestLen(a, num) % 8 = 7

RepStos(addr, n, c, down) ==
    LET lo == IF down THEN (addr + n) - c * n ELSE addr IN
    /\ Use(IF down THEN "std" ELSE IF n = 1 /\ c <= 8 THEN "stosb"
           ELSE IF Multiplied(addr, c * n) THEN "stosm" ELSE "stosn")
    /\ addr + n <= Size
    /\ IF down THEN c * n <= addr + 1 ELSE addr + c * n <= Size
    /\ tags' = CASE n = 1 -> r2m_xfer_opbn(tags, addr, c, down)
                 [] n = 2 -> r2m_xfer_opwn(tags, addr, c, down)
                 [] n = 4 -> r2m_xfer_opln(tags, addr, c, down)
    /\ Cpu(Stosn(must, lo, n, c), Stosn(may, lo, n, c))

Stos(d) ==
    LET s == Reg(EAX, d.len) IN
    Use("plain") /\ r2m_xfer(d, s) /\ CpuMove(d, s)

\* pusha and pushad: the eight registers, n bytes each, from addr upwards.
Saved(t, addr, n) ==
    Put(t, Op(Mem, addr, 8 * n), {k \in 0 .. (8 * n) - 1 : <<k \div n, k % n>> \in t})
r2m_save_opw(t, addr) == Saved(t, addr, 2)
r2m_save_opl(t, addr) == Saved(t, addr, 4)

\* popa and popad: every 16-bit word of the bitmap is read once, and shifted by
\* VIRT2BIT of each of its elements; ESP is skipped.
Restored(t, addr, n) ==
    LET per   == 8 \div n
        bit(i, k) == LET a == addr + 8 * (i \div per) IN
                     8 * VIRT2BYTE(a) + VIRT2BIT(a + n * (i % per)) + k
        kept  == {l \in t : l[1] \in Gpr \ {ESP} => l[2] >= n}
    IN  kept \cup {l \in (Gpr \ {ESP}) \X (0 .. n - 1) : <<Mem, bit(l[1], l[2])>> \in t}
m2r_restore_opw(t, addr) == Restored(t, addr, 2)
m2r_restore_opl(t, addr) == Restored(t, addr, 4)

CpuRestored(t, addr, n) ==
    {l \in t : l[1] \in Gpr \ {ESP} => l[2] >= n}
        \cup {l \in (Gpr \ {ESP}) \X (0 .. n - 1) : <<Mem, addr + n * l[1] + l[2]>> \in t}

Pusha(addr, n) ==
    /\ Use("plain")
    /\ addr + 8 * n <= Size
    /\ tags' = IF n = 2 THEN r2m_save_opw(tags, addr) ELSE r2m_save_opl(tags, addr)
    /\ Cpu(Saved(must, addr, n), Saved(may, addr, n))
Popa(addr, n) ==
    /\ Use(IF VIRT2BIT(addr) = 0 THEN "popa" ELSE "popaoff")
    /\ addr + 8 * n <= Size
    /\ tags' = IF n = 2 THEN m2r_restore_opw(tags, addr) ELSE m2r_restore_opl(tags, addr)
    /\ Cpu(CpuRestored(must, addr, n), CpuRestored(may, addr, n))

Leave(s) ==
    LET f(t) == Xfer(Xfer(t, Reg(ESP, s.len), Reg(EBP, s.len)), Reg(EBP, s.len), s) IN
    Use("plain") /\ s.len > 1 /\ tags' = f(tags) /\ Cpu(f(must), f(may))

\* The tags of the registers R of the address, base and index, are combined; with
\* neither, d is clear. They are 32-bit registers, which REG16_INDX does not know.
lea_r2r(t, d, R) ==
    LET indx(r) == IF d.len = 4 THEN REG32_INDX(r) ELSE REG16_INDX(r) IN
    Put(t, d, UNION {Get(t, Reg(indx(r), d.len)) : r \in R})
Lea(d, R) ==
    LET low == {Reg(r.base, d.len) : r \in R} IN
    /\ Use(IF d.len = 2 /\ R # {} THEN "lea16" ELSE "plain")
    /\ d.len > 1
    /\ tags' = lea_r2r(tags, d, R)
    /\ Cpu(Put(must, d, UNION {Get(must, r) : r \in low}), Fill(may, d, Any(may, low)))

\* enter and the instructions of the default branch, here moves from and to a
\* vector register: nothing is done.
Enter(d) ==
    /\ Use("enter")
    /\ d.len = 4
    /\ tags' = tags
    /\ Cpu(Xfer(Xfer(must, d, Reg(EBP, 4)), Reg(EBP, 4), Reg(ESP, 4)),
           Xfer(Xfer(may, d, Reg(EBP, 4)), Reg(EBP, 4), Reg(ESP, 4)))
Default(d, s) ==
    /\ Use("sse")
    /\ d.len = s.len
    /\ tags' = tags
    /\ CpuMove(d, s)

-----------------------------------------------------------------------------
\* The instructions, as ins_inspect tells them apart.
Next ==
    \/ Lahf \/ Salc \/ Rdtsc \/ Cpuid \/ Cbw \/ Cwd \/ Cdq \/ Cwde
    \/ \E d \in Operand :
          \/ MovImm(d) \/ Setcc(d) \/ Smsw(d) \/ BinaryImm(d) \/ Shift(d)
          \/ Default(d, Reg(Xmm, 4)) \/ Default(Reg(Xmm, 4), d)
    \/ \E d \in RegOperand : Lar(d) \/ Div(d) \/ Mul(d) \/ Imul1(d)
    \/ \E d \in MemOperand :
          \/ PushImm(d) \/ Stmxcsr(d) \/ Pushf(d) \/ CallNear(d) \/ Stos(d) \/ Enter(d)
          \/ Lods(d) \/ Leave(d) \/ DivMem(d) \/ MulMem(d) \/ Imul1Mem(d)
    \/ \E d \in RegOperand : \E s \in SameLen(d, RegOperand) :
          \/ MovRegs(d, s) \/ BitscanRegs(d, s) \/ ImulRegs(d, s) \/ Imul3Regs(d, s)
          \/ XchgRegs(d, s) \/ XaddRegs(d, s) \/ Cmpxchg8(d, s)
          \/ \E c \in BOOLEAN : \/ CmovRegs(d, s, c) \/ CmpxchgRegs(d, s, c)
                                \/ BinaryRegs(d, s, c) \/ BinaryBytes(d, s, c)
    \/ \E d \in RegOperand : \E s \in SameLen(d, MemOperand) :
          \/ MovLoad(d, s) \/ BitscanLoad(d, s) \/ PopReg(d, s) \/ BinaryLoad(d, s)
          \/ ImulLoad(d, s) \/ Imul3Load(d, s) \/ XchgMem(d, s)
          \/ \E c \in BOOLEAN : CmovLoad(d, s, c)
    \/ \E d \in MemOperand : \E s \in SameLen(d, RegOperand) :
          \/ MovStore(d, s) \/ PushReg(d, s) \/ BinaryStore(d, s) \/ XaddMem(d, s) \/ Cmpxchg8(d, s)
          \/ \E c \in BOOLEAN : CmpxchgMem(d, s, c)
    \/ \E d \in MemOperand : \E s \in SameLen(d, MemOperand) : Movs(d, s) \/ PushMem(d, s) \/ PopMem(d, s)
    \/ \E d, s \in RegOperand : MovsxRegs(d, s) \/ MovzxRegs(d, s)
    \/ \E d \in RegOperand, s \in MemOperand : MovsxLoad(d, s) \/ MovzxLoad(d, s)
    \/ \E d \in RegOperand : Lea(d, {}) \/ \E b, i \in Regs : Lea(d, {Reg(b, 4), Reg(i, 4)})
    \/ \E a \in Starts, n \in {1, 2, 4}, c \in Counts, down \in BOOLEAN : RepStos(a, n, c, down)
    \/ \E a \in Frames, n \in {2, 4} : Pusha(a, n) \/ Popa(a, n)

Spec == Init /\ [][Next]_vars

-----------------------------------------------------------------------------
(* Properties *)

\* Every tagged byte is a byte of a register of the context or of the memory: no
\* routine writes a tag past the register it is given.
TypeOK ==
    /\ tags \subseteq Loc /\ must \subseteq Loc /\ may \subseteq Loc
    /\ used \subseteq Program
    /\ count \in 0 .. MaxIns

\* No flow is lost: as long as only instructions of KeepFlow are executed, a byte
\* that the processor filled from a tagged byte is tagged.
NoLostFlow == used \subseteq KeepFlow => must \subseteq tags

\* No tag is stale: as long as only instructions of KeepClean are executed, a tagged
\* byte is one that a tagged byte can have influenced.
NoStaleTag == used \subseteq KeepClean => \A l \in tags : l[1] # Scratch => l \in may
=============================================================================
