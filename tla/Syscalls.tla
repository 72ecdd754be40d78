------------------------------ MODULE Syscalls ------------------------------
(***************************************************************************)
(* The system calls of a replayed program as the taint tool meets them: the *)
(* arguments a program can pass, the structures it keeps in memory for the  *)
(* kernel, and what the kernel answers and writes. It is the environment of *)
(* the tool (Linux), modelled from the calls syscall_desc64.cc describes.   *)
(*                                                                         *)
(* Memory is a row of cells. A cell is an int; a long, a pointer or a       *)
(* size_t is two cells, and so is every other fixed structure. Word is the  *)
(* number of values of an ADDRINT: -1 is Word - 1.                          *)
(***************************************************************************)
EXTENDS Integers, Sequences, FiniteSets

CONSTANTS
    Size,      \* cells of memory, from 1
    Ptrs,      \* where the buffers of the program begin
    MaxLen,    \* the longest buffer
    Word       \* number of values of ADDRINT

ASSUME SyscallsAssumption ==
    /\ Size \in Nat /\ Size >= 4                     \* the buffers of Vectors
    /\ MaxLen \in Nat /\ MaxLen >= 2                 \* and their lengths
    /\ Ptrs \subseteq 1 .. Size
    /\ Word \in Nat /\ Word >= 64                    \* every command has a value
    /\ Word > 2 * Size /\ Word > 2 * MaxLen          \* no address or length is negative

Null   == 0
INT    == 1
LONG   == 2
STRUCT == 2
PAGE_SZ == 2
IPC_FIX == 32

Cell == 1 .. Size
Addr == {Null} \cup Cell
Minus1 == Word - 1

\* (long)x
Long(x) == IF 2 * x >= Word THEN x - Word ELSE x

\* The cells of the n cells at p; nothing is mapped at NULL.
Cells(p, n) == IF p = Null THEN {} ELSE (p .. p + n - 1) \cap Cell

Least(m, n) == IF m < n THEN m ELSE n
Ceil(n, d)  == (n + d - 1) \div d
Bit(x, b)   == (x \div b) % 2 = 1

\* Commands and flags: IPC_RMID, IPC_STAT and IPC_INFO, F_GETFL and F_GETLK, Q_GETQUOTA and
\* Q_SETQUOTA, ARCH_SET_FS and ARCH_GET_FS, the flags of get_mempolicy.
IPC == [RMID |-> 0, STAT |-> 2, INFO |-> 3]
F   == [GETFL |-> 3, GETLK |-> 5]
Q   == [GETQUOTA |-> 1, SETQUOTA |-> 2]
ARCH == [SET_FS |-> 2, GET_FS |-> 3]
MPOL_F == [NODE |-> 1, ADDR |-> 2, MEMS_ALLOWED |-> 4]

\* The command of quotactl carries the type of the quota in its low bits.
QCMD(q, type) == 4 * q + type

-----------------------------------------------------------------------------
(* What a program passes *)

P == {Null} \cup Ptrs       \* a pointer that may be NULL
B == Ptrs                   \* a buffer
N == 0 .. MaxLen            \* a length or a count
Z == {0}                    \* an argument that nothing here depends on
Headers == {5}              \* a msghdr, apart from the buffers it names
MmapLen == 1 .. PAGE_SZ + 1 \* a length to map
IovCnt == 0 .. 2            \* how many of the two buffers of Vectors
IpcCmd == {IPC.RMID, IPC.STAT, IPC.INFO, IPC.STAT + IPC_FIX}

\* The values of the six arguments of each call.
Params == [
    read |-> <<Z, B, N, Z, Z, Z>>,             readlinkat |-> <<Z, Z, B, N, Z, Z>>,
    getdents |-> <<Z, B, N, Z, Z, Z>>,         getcwd |-> <<B, N, Z, Z, Z, Z>>,
    lookup_dcookie |-> <<Z, B, N, Z, Z, Z>>,   modify_ldt |-> <<Z, B, N, Z, Z, Z>>,
    getgroups |-> <<N, P, Z, Z, Z, Z>>,        listxattr |-> <<Z, P, N, Z, Z, Z>>,
    getxattr |-> <<Z, Z, P, N, Z, Z>>,         epoll_wait |-> <<Z, B, N, Z, Z, Z>>,
    io_getevents |-> <<Z, Z, N, B, P, Z>>,     poll |-> <<B, N, Z, Z, Z, Z>>,
    mq_timedreceive |-> <<Z, B, N, P, Z, Z>>,  msgrcv |-> <<Z, B, N, Z, Z, Z>>,
    get_mempolicy |-> <<P, P, Z, Z, 0 .. 4, Z>>, mincore |-> <<Z, N, B, Z, Z, Z>>,
    mmap |-> <<Z, MmapLen, Z, {0, 1}, Z, Z>>, rt_sigpending |-> <<B, N, Z, Z, Z, Z>>,
    shmctl |-> <<Z, IpcCmd, B, Z, Z, Z>>,      msgctl |-> <<Z, IpcCmd, B, Z, Z, Z>>,
    semctl |-> <<Z, Z, IpcCmd, B, Z, Z>>,      fcntl |-> <<Z, {F.GETFL, F.GETLK}, P, Z, Z, Z>>,
    quotactl |-> <<{QCMD(Q.GETQUOTA, 0), QCMD(Q.SETQUOTA, 0)}, Z, Z, B, Z, Z>>,
    accept |-> <<Z, P, B, Z, Z, Z>>,           getsockopt |-> <<Z, Z, Z, B, B, Z>>,
    recvfrom |-> <<Z, B, N, Z, P, B>>,         syslog |-> <<{2, 10}, B, N, Z, Z, Z>>,
    sysctl |-> <<Z, Z, Z, Z, Z, Z>>,           arch_prctl |-> <<{ARCH.SET_FS, ARCH.GET_FS}, B, Z, Z, Z, Z>>,
    readv |-> <<Z, Z, IovCnt, Z, Z, Z>>,       process_vm_readv |-> <<Z, Z, IovCnt, Z, Z, Z>>,
    recvmsg |-> <<Z, Headers, Z, Z, Z, Z>>,    recvmmsg |-> <<Z, Headers, {1}, Z, P, Z>>,
    sendmmsg |-> <<Z, B, {1}, Z, Z, Z>>,
    stat |-> <<Z, B, Z, Z, Z, Z>>,             newfstatat |-> <<Z, Z, B, Z, Z, Z>>,
    select |-> <<1 .. 2, P, P, Z, Z, Z>>,      nanosleep |-> <<Z, P, Z, Z, Z, Z>>,
    waitid |-> <<Z, Z, P, Z, P, Z>>,           perf_event_open |-> <<B, Z, Z, Z, Z, Z>>,
    ioctl |-> <<Z, Z, P, Z, Z, Z>>,            write |-> <<Z, B, N, Z, Z, Z>>,
    unknown |-> <<Z, P, Z, Z, Z, Z>> ]

\* The structures that arguments point to: an array of iovec (and what lies behind it), the
\* name, its length and the control buffer of a msghdr, *addrlen, the first word at a
\* pointer; of __sysctl_args, newval is name, newlen len, oldval control and oldlenp word.
Mem(iov, name, control, len, word) ==
    [iov |-> iov, name |-> name, control |-> control, len |-> len, word |-> word]
NoMem == Mem(<<>>, Null, Null, 0, Null)

Vectors == {<<[base |-> 1, len |-> 1], [base |-> 3, len |-> 2]>>,
            <<[base |-> 3, len |-> 2], [base |-> 1, len |-> 0]>>}

Mems(nr) ==
    CASE nr \in {"readv", "process_vm_readv"} -> {Mem(v, Null, Null, 0, Null) : v \in Vectors}
      [] nr \in {"recvmsg", "recvmmsg"} ->
            {Mem(v, p, q, 1, Null) : v \in Vectors, p \in {Null, 2}, q \in {Null, 2}}
      [] nr \in {"accept", "recvfrom", "getsockopt"} -> {Mem(<<>>, Null, Null, 1, Null)}
      [] nr = "sysctl" -> {Mem(<<>>, p, q, 1, 5) : p \in {Null, 1}, q \in {Null, 3}}
      [] nr = "semctl" -> {Mem(<<>>, Null, Null, 0, p) : p \in P}
      [] OTHER -> {NoMem}

-----------------------------------------------------------------------------
(* What the kernel does *)

\* The value returned, the lengths the kernel leaves in memory (of a name or an option, of
\* the control data, of a message) and the cells it writes.
Answer(ret, wrote) == [ret |-> ret, olen |-> 0, clen |-> 0, mlen |-> 0, wrote |-> wrote]
AnswerLen(ret, l, wrote) == [Answer(ret, wrote) EXCEPT !.olen = l]
AnswerMsg(ret, r, l, c, wrote) ==
    [ret |-> ret, olen |-> l, clen |-> c, mlen |-> r, wrote |-> wrote]

\* ret cells at p; with a size of 0 some calls only tell the length.
Transfers(p, n) == {Answer(r, Cells(p, r)) : r \in 0 .. n}
Sized(p, n)     == IF n = 0 THEN {Answer(r, {}) : r \in N} ELSE Transfers(p, n)

\* The first n cells of the stream that the first cnt buffers of v make up.
Stream(v, cnt, n) ==
    LET before[i \in 1 .. Len(v) + 1] == IF i = 1 THEN 0 ELSE before[i - 1] + v[i - 1].len
    IN {v[x[1]].base + x[2] : x \in {y \in (1 .. cnt) \X (0 .. MaxLen) :
            y[2] < v[y[1]].len /\ before[y[1]] + y[2] < n}}
Total(v, cnt) == Cardinality(Stream(v, cnt, Word))

\* The lengths of what the kernel has for p: the program left room for one cell.
Lengths(p) == IF p = Null THEN {0} ELSE 1 .. MaxLen

\* The address of a peer: as much as fits, and its true length.
Peer(addr, lenp, cap, l) ==
    IF addr = Null THEN {} ELSE Cells(addr, Least(cap, l)) \cup Cells(lenp, INT)

\* The cells of a msghdr at h, and of the msg_len that follows it in a mmsghdr.
Namelen(h)    == Cells(h, INT)
Controllen(h) == Cells(h + INT, LONG)
Flags(h)      == Cells(h + INT + LONG, INT)
MSGHDR        == INT + LONG + INT
MsgLen(h)     == Cells(h + MSGHDR, INT)
MMSGHDR       == MSGHDR + INT

Message(h, m, r, l, c) ==
    Stream(m.iov, 2, r) \cup Flags(h)
        \cup (IF m.name = Null THEN {} ELSE Cells(m.name, Least(m.len, l)) \cup Namelen(h))
        \cup (IF m.control = Null THEN {} ELSE Cells(m.control, c) \cup Controllen(h))

\* Answers of a call that succeeds.
Success(nr, a, m) ==
    CASE nr = "read"  -> Transfers(a[1], a[2])
      [] nr \in {"getdents", "lookup_dcookie", "modify_ldt"} -> Transfers(a[1], a[2])
      [] nr = "readlinkat" -> Transfers(a[2], a[3])
      [] nr = "getcwd" -> Transfers(a[0], a[1])
      [] nr = "getgroups" -> Sized(a[1], a[0])
      [] nr = "listxattr" -> Sized(a[1], a[2])
      [] nr = "getxattr" -> Sized(a[2], a[3])
      [] nr = "epoll_wait" -> {Answer(r, Cells(a[1], STRUCT * r)) : r \in 0 .. a[2]}
      [] nr = "io_getevents" -> {Answer(r, Cells(a[3], STRUCT * r)) : r \in 0 .. a[2]}
      [] nr = "poll" -> {Answer(r, {a[0] + 2 * i + 1 : i \in 0 .. a[1] - 1} \cap Cell) : r \in 0 .. a[1]}
      [] nr = "mq_timedreceive" -> {Answer(r, Cells(a[1], r) \cup Cells(a[3], INT)) : r \in 0 .. a[2]}
      [] nr = "msgrcv" -> {Answer(r, Cells(a[1], LONG + r)) : r \in 0 .. a[2]}
      [] nr = "get_mempolicy" -> {Answer(0, Cells(a[0], INT) \cup Cells(a[1], LONG))}
      [] nr = "mincore" -> {Answer(0, Cells(a[2], Ceil(a[1], PAGE_SZ)))}
      [] nr = "mmap" -> {Answer(p, Cells(p, PAGE_SZ * Ceil(a[1], PAGE_SZ))) : p \in Ptrs}
      [] nr = "rt_sigpending" -> {Answer(0, Cells(a[0], a[1]))}
      [] nr \in {"shmctl", "msgctl"} ->
            {Answer(0, IF a[1] = IPC.RMID THEN {} ELSE Cells(a[2], STRUCT))}
      [] nr = "semctl" -> {Answer(0, IF a[2] = IPC.RMID THEN {} ELSE Cells(a[3], STRUCT))}
      [] nr = "fcntl" -> {Answer(0, IF a[1] = F.GETLK THEN Cells(a[2], STRUCT) ELSE {})}
      [] nr = "quotactl" -> {Answer(0, IF a[0] = QCMD(Q.GETQUOTA, 0) THEN Cells(a[3], STRUCT) ELSE {})}
      [] nr = "accept" -> {AnswerLen(0, l, Peer(a[1], a[2], m.len, l)) : l \in Lengths(a[1])}
      [] nr = "recvfrom" -> {AnswerLen(r, l, Cells(a[1], r) \cup Peer(a[4], a[5], m.len, l)) :
                                r \in 0 .. a[2], l \in Lengths(a[4])}
      [] nr = "getsockopt" -> {AnswerLen(0, l, Cells(a[3], l) \cup Cells(a[4], INT)) : l \in 0 .. m.len}
      [] nr = "syslog" -> IF a[0] = 2 THEN Transfers(a[1], a[2]) ELSE {Answer(r, {}) : r \in N}
      [] nr = "sysctl" -> {AnswerLen(0, l, Peer(m.control, m.word, l, l) \cup
                                IF m.control = Null THEN {} ELSE Cells(m.word, LONG)) : l \in Lengths(m.control)}
      [] nr = "arch_prctl" -> {Answer(0, IF a[0] = ARCH.GET_FS THEN Cells(a[1], LONG) ELSE {})}
      [] nr \in {"readv", "process_vm_readv"} ->
            {Answer(r, Stream(m.iov, a[2], r)) : r \in 0 .. Total(m.iov, a[2])}
      [] nr = "recvmsg" -> {AnswerMsg(r, r, l, c, Message(a[1], m, r, l, c)) :
                                r \in 0 .. Total(m.iov, 2),
                                l \in Lengths(m.name), c \in Lengths(m.control) \ {MaxLen}}
      [] nr = "recvmmsg" -> {AnswerMsg(1, r, l, c, Message(a[1], m, r, l, c) \cup MsgLen(a[1])
                                                    \cup Cells(a[4], STRUCT)) :
                                r \in 0 .. Total(m.iov, 2),
                                l \in Lengths(m.name), c \in Lengths(m.control) \ {MaxLen}}
      [] nr = "sendmmsg" -> {Answer(1, MsgLen(a[1]))}
      [] nr = "stat" -> {Answer(0, Cells(a[1], STRUCT))}
      [] nr = "newfstatat" -> {Answer(0, Cells(a[2], STRUCT))}
      [] nr = "select" -> {Answer(1, Cells(a[1], a[0]) \cup Cells(a[2], a[0]))}
      [] nr = "waitid" -> {Answer(0, Cells(a[2], STRUCT) \cup Cells(a[4], STRUCT))}
      [] nr = "ioctl" -> {Answer(0, w) : w \in {{}, Cells(a[2], STRUCT)}}
      [] nr = "write" -> {Answer(a[2], {})}
      [] nr = "unknown" -> {Answer(0, w) : w \in {{}, Cells(a[1], INT)}}
      [] nr \in {"nanosleep", "perf_event_open"} -> {Answer(0, {})}

\* A call that fails writes nothing, but an interrupted sleep writes what remained of it.
Failure(nr, a) == Answer(Minus1, IF nr = "nanosleep" THEN Cells(a[1], STRUCT) ELSE {})

Answers(nr, a, m) == Success(nr, a, m) \cup {Failure(nr, a)}
=============================================================================
