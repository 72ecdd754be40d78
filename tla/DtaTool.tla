------------------------------- MODULE DtaTool -------------------------------
(***************************************************************************)
(* The taint analysis tool of the 32-bit libdft (tools/libdft-dta.c): it      *)
(* keeps the set of the descriptors whose data is tracked, fdset, tags what   *)
(* is read from them, and stops the program at a branch through tagged data.  *)
(*                                                                           *)
(* A system call of a thread is two steps: the kernel does it, and the exit   *)
(* hook of the tool runs when the thread is back. Other threads run between   *)
(* the two, and all threads share fdset. Beside the tags the model keeps the  *)
(* truth: the kernel's table of descriptors, and the bytes that hold data of  *)
(* tracked objects.                                                          *)
(*                                                                           *)
(* Where the code departs from the truth is recorded when it happens: astray, *)
(* the descriptors whose number changed hands behind the back of a hook, and  *)
(* mixed, the bytes that were read through them, by recvmsg, whose hook looks  *)
(* up another descriptor, or stored beside an empty datagram, of which the     *)
(* hooks take no notice.                                                      *)
(***************************************************************************)
EXTENDS Integers, Sequences

CONSTANTS Threads,
          Fds,          \* descriptor numbers
          Bufs,         \* the buffers of the program, of eight bytes each
          Code,         \* an address in the code, where no data is read to
          Counts,       \* how much a call reads; 0 is the end of the data
          Knobs,        \* settings of the tool: records of sin, fs, net
          MaxSteps      \* bound on the calls and instructions executed

ASSUME DtaToolAssumption ==
    /\ Fds \subseteq Nat /\ 0 \in Fds /\ MaxSteps \in Nat
    /\ Bufs \cup {Code} \subseteq Nat
    /\ \A a, b \in Bufs \cup {Code} : a = b \/ a + 8 <= b \/ b + 8 <= a
    /\ Counts \subseteq 0 .. 8
    /\ Knobs \subseteq [sin : BOOLEAN, fs : BOOLEAN, net : BOOLEAN]

STDIN_FILENO == 0
SYS_RECVMSG  == 17
WORD_LEN     == 4

Free == "free"
None == -1

M == INSTANCE Tagmap32

VARIABLES knobs, fdset, tags,        \* the tool
          files, data,               \* the truth: open objects, bytes of tracked data
          call,                      \* the call each thread is in
          outcome,                   \* how the branches so far ended
          astray, mixed, steps

vars == <<knobs, fdset, tags, files, data, call, outcome, astray, mixed, steps>>

-----------------------------------------------------------------------------
\* The objects whose data is tracked, by the settings of the tool.
Tracked(kind) ==
    \/ kind = "tty" /\ knobs.sin
    \/ kind = "file" /\ knobs.fs
    \/ kind = "inet" /\ knobs.net

\* A call: its descriptor, its result, the I/O vector, the ranges where the kernel
\* stores an address, an option, lengths or descriptors, and the ancillary data.
Call(name, fd, ret, iov, aux, ctl) ==
    [name |-> name, fd |-> fd, ret |-> ret, iov |-> iov, aux |-> aux, ctl |-> ctl]
Plain(name, fd, ret, aux) == Call(name, fd, ret, <<>>, aux, <<>>)
NoCall == Plain("none", None, None, <<>>)

Span(r) == {r[1] + i : i \in 0 .. r[2] - 1}

Spans(R) == UNION {Span(R[i]) : i \in DOMAIN R}

\* The first n bytes of an I/O vector.
Scattered(iov, n) ==
    LET before[i \in 1 .. Len(iov)] == IF i = 1 THEN 0 ELSE before[i - 1] + iov[i - 1][2]
    IN UNION {{x \in Span(iov[i]) : before[i] + (x - iov[i][1]) < n} : i \in DOMAIN iov}

DataCalls == {"read", "readv", "recv", "recvfrom", "recvmsg"}
Makes     == {"open", "openlib", "socket", "accept", "dup"}

Stored(c)   == Spans(c.aux)
Control(c)  == Spans(c.ctl)
Received(c) == IF c.name \in DataCalls /\ c.ret >= 0 THEN Scattered(c.iov, c.ret) \cup Control(c) ELSE {}
Written(c)  == IF c.ret < 0 THEN {} ELSE Stored(c) \cup Received(c)

\* Bytes that the kernel has written and no hook has seen yet.
Pending == UNION {Written(call[t]) : t \in Threads}

\* main installs the hooks, and tracks standard input when asked.
Init ==
    /\ knobs \in Knobs
    /\ fdset = IF knobs.sin THEN {STDIN_FILENO} ELSE {}
    /\ files = [f \in Fds |-> IF f = STDIN_FILENO THEN "tty" ELSE Free]
    /\ tags = {} /\ data = {}
    /\ call = [t \in Threads |-> NoCall]
    /\ outcome = "running" /\ astray = {} /\ mixed = {} /\ steps = 0

Run(t) == outcome = "running" /\ call[t] = NoCall /\ steps < MaxSteps /\ steps' = steps + 1

-----------------------------------------------------------------------------
(* The kernel. A program uses no buffer of a call in progress.                 *)

Others(t) == {call[u] : u \in Threads \ {t}} \ {NoCall}
Making(t, f)  == \E c \in Others(t) : c.name \in Makes /\ c.ret = f
Naming(t, f)  == \E c \in Others(t) : c.fd = f \/ (c.name \in Makes /\ c.ret = f)

\* f goes astray if a call of another thread has it in hand.
Stray(f, when) == astray' = IF when THEN astray \cup {f} ELSE astray

Lowest(f) == files[f] = Free /\ \A g \in Fds : files[g] = Free => f <= g

Returns(t, c) == call' = [call EXCEPT ![t] = c] /\ UNCHANGED <<knobs, fdset, tags, outcome, mixed>>

\* open, creat, socket, accept and dup answer the lowest free descriptor.
NewFd(t, name, f, kind, aux) ==
    \E g \in Fds :
        LET c == Plain(name, f, g, aux) IN
        /\ Run(t) /\ Lowest(g) /\ Stored(c) \cap Pending = {}
        /\ files' = [files EXCEPT ![g] = kind]
        /\ data' = data \ Stored(c)
        /\ Stray(g, Naming(t, g))
        /\ Returns(t, c)

\* The address of a peer, or an option, and its length.
Aux(b) == {<<>>, <<<<b, 3>>, <<b + 4, 4>>>>}

KernelOpen(t, kind) == NewFd(t, IF kind = "lib" THEN "openlib" ELSE "open", None, kind, <<>>)
KernelSocket(t, kind) == NewFd(t, IF kind = "inet" THEN "socket" ELSE "other", None, kind, <<>>)
KernelAccept(t, f, aux) ==
    files[f] \in {"inet", "unix"} /\ ~Making(t, f) /\ NewFd(t, "accept", f, files[f], aux)
KernelDup(t, f) == files[f] # Free /\ ~Making(t, f) /\ NewFd(t, "dup", f, files[f], <<>>)

\* dup2 also closes g. Its hook does not take an untracked g out of the set.
KernelDup2(t, f, g) ==
    /\ Run(t) /\ files[f] # Free /\ f # g /\ ~Making(t, f)
    /\ files' = [files EXCEPT ![g] = files[f]]
    /\ Stray(g, Naming(t, g) \/ (g \in fdset /\ ~Tracked(files[f])))
    /\ Returns(t, Plain("dup", f, g, <<>>))
    /\ UNCHANGED data

\* A close that fails has released its descriptor all the same.
KernelClose(t, f, ret) ==
    /\ Run(t) /\ files[f] # Free
    /\ files' = [files EXCEPT ![f] = Free]
    /\ Stray(f, Naming(t, f) \/ ret < 0)
    /\ Returns(t, Plain("close", f, ret, <<>>))
    /\ UNCHANGED data

\* socketpair stores two descriptors.
KernelSocketpair(t, b) ==
    LET c == Plain("socketpair", None, 0, <<<<b, 8>>>>) IN
    /\ Run(t) /\ Stored(c) \cap Pending = {}
    /\ \E f, g \in Fds : /\ f # g /\ files[f] = Free /\ files[g] = Free
                         /\ ~Naming(t, f) /\ ~Naming(t, g)
                         /\ files' = [files EXCEPT ![f] = "unix", ![g] = "unix"]
    /\ data' = data \ Stored(c)
    /\ UNCHANGED astray
    /\ Returns(t, c)

\* A call that fails changes nothing, unless it is a close.
KernelFails(t, name, f) ==
    /\ Run(t) /\ files[f] # Free
    /\ Returns(t, Plain(name, f, None, <<>>))
    /\ UNCHANGED <<files, data, astray>>

\* read, readv, recv, recvfrom and recvmsg.
KernelData(t, name, f, iov, n, aux, ctl) ==
    LET c == Call(name, f, n, iov, aux, ctl) IN
    /\ Run(t) /\ files[f] # Free /\ Written(c) \cap Pending = {}
    /\ name \notin {"read", "readv"} => files[f] \in {"inet", "unix"}
    /\ name \notin {"recvfrom", "recvmsg"} => aux = <<>>
    /\ name \notin {"readv", "recvmsg"} => Len(iov) = 1
    /\ name # "recvmsg" => ctl = <<>>
    /\ Scattered(iov, 16) \cap (Stored(c) \cup Control(c)) = {}
    /\ data' = IF Tracked(files[f]) THEN (data \ Written(c)) \cup Received(c) ELSE data \ Written(c)
    /\ Stray(f, Making(t, f))
    /\ Returns(t, c)
    /\ UNCHANGED files

\* getsockname, getpeername and getsockopt.
KernelName(t, f, aux) ==
    LET c == Plain("getsockname", f, 0, aux) IN
    /\ Run(t) /\ files[f] \in {"inet", "unix"} /\ aux # <<>> /\ Stored(c) \cap Pending = {}
    /\ data' = data \ Stored(c)
    /\ Returns(t, c)
    /\ UNCHANGED <<files, astray>>

-----------------------------------------------------------------------------
(* The hooks, on the set of descriptors and the tags                           *)

Tool(fds, B) == [fds |-> fds, tags |-> B]

In(s, f) == f \in s.fds
Insert(s, f, when) == IF when THEN Tool(s.fds \cup {f}, s.tags) ELSE s

\* Data of a tracked descriptor is tagged, other data loses its tags.
Taint(B, in, a, n) == IF in THEN M!tagmap_setn(B, a, n) ELSE M!tagmap_clrn(B, a, n)

\* The ranges R one after the other.
TaintRanges(B, in, R) ==
    LET after[i \in 0 .. Len(R)] == IF i = 0 THEN B ELSE Taint(after[i - 1], in, R[i][1], R[i][2])
    IN after[Len(R)]

\* The loops over an I/O vector: each element takes what is left, up to its length.
Least(m, n) == IF m < n THEN m ELSE n
Taken(iov, n) ==
    LET left[i \in 0 .. Len(iov)] ==
            IF i = 0 THEN n ELSE left[i - 1] - Least(left[i - 1], iov[i][2])
    IN [i \in 1 .. Len(iov) |-> <<iov[i][1], left[i - 1] - left[i]>>]
TaintVector(B, in, iov, n) == TaintRanges(B, in, Taken(iov, n))

\* Data of n bytes at the start of the only buffer.
TaintData(s, in, c) == Tool(s.fds, Taint(s.tags, in, c.iov[1][1], c.ret))

\* Mutant of post_read_hook: the tags of untracked data stay.
post_read_hook_SetOnly(s, c) == IF c.ret <= 0 \/ ~In(s, c.fd) THEN s ELSE TaintData(s, TRUE, c)

post_read_hook(s, c) == IF c.ret <= 0 THEN s ELSE TaintData(s, In(s, c.fd), c)

post_readv_hook(s, c) ==
    IF c.ret <= 0 THEN s ELSE Tool(s.fds, TaintVector(s.tags, In(s, c.fd), c.iov, c.ret))

\* Addresses, options and their lengths lose their tags.
ClearAux(s, c) == Tool(s.fds, TaintRanges(s.tags, FALSE, c.aux))

\* The case SYS_RECVMSG: the set is asked for the number of the socket call,
\* the first argument of socketcall, and not for the descriptor.
recvmsg(s, c) ==
    LET in == knobs.net /\ In(s, SYS_RECVMSG)
        ctl == TaintRanges(ClearAux(s, c).tags, in, c.ctl)
    IN IF c.ret <= 0 THEN s ELSE Tool(s.fds, TaintVector(ctl, in, c.iov, c.ret))

\* With net off libdft's own hook runs, which clears what the call wrote.
post_socketcall_hook(s, c) ==
    LET in(f) == knobs.net /\ In(s, f) IN
    IF c.ret < 0 THEN s
    ELSE CASE c.name = "socket" -> Insert(s, c.ret, knobs.net)
           [] c.name = "accept" -> ClearAux(Insert(s, c.ret, in(c.fd)), c)
           [] c.name \in {"getsockname", "socketpair"} -> ClearAux(s, c)
           [] c.name = "recv" -> IF c.ret <= 0 THEN s ELSE TaintData(s, in(c.fd), c)
           [] c.name = "recvfrom" ->
                 IF c.ret <= 0 THEN s ELSE ClearAux(TaintData(s, in(c.fd), c), c)
           [] c.name = "recvmsg" -> recvmsg(s, c)
           [] OTHER -> s

\* Mutant of post_dup_hook: a failed dup is not told apart.
post_dup_hook_Unchecked(s, c) == Insert(s, c.ret, In(s, c.fd))

post_dup_hook(s, c) == Insert(s, c.ret, c.ret >= 0 /\ In(s, c.fd))

\* Mutant of post_close_hook: the descriptor stays in the set.
post_close_hook_Keeps(s, c) == s

post_close_hook(s, c) == IF c.ret < 0 THEN s ELSE Tool(s.fds \ {c.fd}, s.tags)

\* Not installed when fs is off; shared libraries are ignored.
post_open_hook(s, c) == Insert(s, c.ret, c.ret >= 0 /\ knobs.fs /\ c.name = "open")

Hook(s, c) ==
    CASE c.name = "read" -> post_read_hook(s, c)
      [] c.name = "readv" -> post_readv_hook(s, c)
      [] c.name = "dup" -> post_dup_hook(s, c)
      [] c.name = "close" -> post_close_hook(s, c)
      [] c.name \in {"open", "openlib"} -> post_open_hook(s, c)
      [] OTHER -> post_socketcall_hook(s, c)

\* The call returns to the program.
Exit(t) ==
    LET c == call[t]
        s == Hook(Tool(fdset, tags), c)
        blind == c.fd \in astray \/ (c.name = "recvmsg" /\ knobs.net)
        empty == c.name \in DataCalls /\ c.ret = 0
    IN /\ outcome = "running" /\ c # NoCall
       /\ fdset' = s.fds /\ tags' = s.tags
       /\ astray' = IF c.name \in {"dup", "accept"} /\ c.fd \in astray THEN astray \cup {c.ret} ELSE astray
       /\ mixed' = CASE empty -> mixed \cup Written(c)
                     [] ~empty /\ blind -> (mixed \ Written(c)) \cup Received(c)
                     [] OTHER -> mixed \ Written(c)
       /\ call' = [call EXCEPT ![t] = NoCall]
       /\ UNCHANGED <<knobs, files, data, outcome, steps>>

-----------------------------------------------------------------------------
(* Instructions                                                                *)

\* A copy of eight bytes through registers.
Copied(B, a, b) == (B \ Span(<<b, 8>>)) \cup {x \in Span(<<b, 8>>) : x - b + a \in B}

Copy(t, a, b) ==
    /\ Run(t) /\ a # b /\ (Span(<<a, 8>>) \cup Span(<<b, 8>>)) \cap Pending = {}
    /\ tags' = Copied(tags, a, b) /\ data' = Copied(data, a, b) /\ mixed' = Copied(mixed, a, b)
    /\ UNCHANGED <<knobs, fdset, files, call, outcome, astray>>

\* Mutant of assert_mem: the bytes at the target are not looked at.
assert_mem_Operand(B, paddr, taddr, w) == B \cap Span(<<paddr, w>>) # {}

\* assert_mem32 and assert_mem16: the operand at paddr, or the target.
assert_mem(B, paddr, taddr, w) ==
    IF w = WORD_LEN THEN M!tagmap_getl(B, paddr) \cup M!tagmap_getl(B, taddr) # {}
    ELSE M!tagmap_getw(B, paddr) \cup M!tagmap_getw(B, taddr) # {}

\* assert_reg32 and assert_reg16, for a register whose tagged bytes are reg.
assert_reg(B, reg, addr, w) ==
    IF w = WORD_LEN THEN reg \cup M!tagmap_getl(B, addr) # {}
    ELSE (reg \cap {0, 1}) \cup M!tagmap_getw(B, addr) # {}

\* alert ends the process before the branch.
alert(t, paddr, taddr, w, stop) ==
    LET used == Span(<<paddr, w>>) \cup Span(<<taddr, w>>)
        true == data \cap used # {}
    IN /\ Run(t) /\ (Span(<<paddr, WORD_LEN>>) \cup used) \cap (Pending \cup mixed) = {}
       /\ outcome' = CASE stop /\ true -> "stopped" [] stop /\ ~true -> "alarm"
                       [] ~stop /\ true -> "hijacked" [] OTHER -> "running"
       /\ UNCHANGED <<knobs, fdset, tags, files, data, call, astray, mixed>>

\* An indirect jmp or call through a register that was loaded from paddr.
BranchReg(t, paddr, taddr, w) ==
    alert(t, paddr, taddr, w,
          assert_reg(tags, {i \in 0 .. 3 : paddr + i \in tags}, taddr, w))

\* An indirect jmp or call through memory, or a ret.
BranchMem(t, paddr, taddr, w) ==
    alert(t, paddr, taddr, w, assert_mem(tags, paddr, taddr, w))

-----------------------------------------------------------------------------
Vectors == {<<<<b, 8>>>> : b \in Bufs}
               \cup {v \in {<<<<a, 3>>, <<b, 8>>>> : a, b \in Bufs} : v[1][1] # v[2][1]}
AuxArgs == UNION {Aux(b) : b \in Bufs}

Step(t) ==
    \/ \E kind \in {"file", "lib"} : KernelOpen(t, kind)
    \/ \E kind \in {"inet", "unix"} : KernelSocket(t, kind)
    \/ \E b \in Bufs : KernelSocketpair(t, b)
    \/ \E f \in Fds :
          \/ KernelDup(t, f)
          \/ \E g \in Fds : KernelDup2(t, f, g)
          \/ \E ret \in {-1, 0} : KernelClose(t, f, ret)
          \/ \E aux \in AuxArgs : KernelAccept(t, f, aux) \/ KernelName(t, f, aux)
          \/ \E name \in DataCalls \cup Makes : KernelFails(t, name, f)
          \/ \E name \in DataCalls, iov \in Vectors, n \in Counts, aux \in AuxArgs :
                KernelData(t, name, f, iov, n, aux, <<>>)
          \/ \E iov \in Vectors, n \in Counts, b \in Bufs :     \* ancillary data and its length
                KernelData(t, "recvmsg", f, iov, n, <<<<b + 4, 4>>>>, <<<<b, 3>>>>)
    \/ Exit(t)
    \/ \E a, b \in Bufs : Copy(t, a, b)
    \/ \E a \in Bufs, b \in Bufs \cup {Code}, w \in {2, WORD_LEN} :
          BranchReg(t, a, b, w) \/ BranchMem(t, a, b, w)

Next == \E t \in Threads : Step(t)

Spec == Init /\ [][Next]_vars

-----------------------------------------------------------------------------
(* The set holds descriptors only: no hook inserts the result of a call that   *)
(* failed; and only bytes of the program's buffers are ever tagged.            *)
TypeOK ==
    /\ fdset \subseteq Fds
    /\ files \in [Fds -> {Free, "tty", "file", "lib", "inet", "unix"}]
    /\ tags \cup data \subseteq UNION {Span(<<b, 8>>) : b \in Bufs}
    /\ outcome \in {"running", "stopped", "alarm", "hijacked"}

(* However the calls of the threads and their hooks interleave, a descriptor   *)
(* is in the set exactly when its object is tracked, once every call that has  *)
(* it in hand is over; but for those that went astray.                         *)
FdsetRight ==
    \A f \in Fds \ astray :
        (\A t \in Threads : call[t].fd # f /\ call[t].ret # f)
            => (f \in fdset <=> Tracked(files[f]))

(* The bytes that hold data of tracked objects, and no others, are tagged,     *)
(* outside calls in progress and what was read through a wrong descriptor.     *)
TaintRight == data \ (mixed \cup Pending) = tags \ (mixed \cup Pending)

(* No branch through tracked data is taken, and none is stopped without it.    *)
BranchesRight == outcome \in {"running", "stopped"}
=============================================================================
