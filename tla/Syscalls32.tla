----------------------------- MODULE Syscalls32 -----------------------------
(***************************************************************************)
(* The system calls of a 32-bit program as libdft meets them: what a program *)
(* passes, what it keeps in memory for the kernel, and what the kernel        *)
(* answers and writes. It is the environment (Linux on i386), modelled from   *)
(* the calls that syscall_desc.c describes. Memory is bytes. An int, a long   *)
(* and a pointer are four of them; the structures of two of these are PAIR,   *)
(* every other one is STRUCT bytes long. Word is the number of values of an   *)
(* ADDRINT: -1 is Word - 1.                                                   *)
(***************************************************************************)
EXTENDS Integers, Sequences, FiniteSets

CONSTANTS
    Lens,      \* the lengths and counts a program passes
    Offs,      \* how far into its area a buffer begins
    Word       \* number of values of ADDRINT

Base   == 32      \* below it nothing is mapped
Room   == 16      \* the area of the buffer of one argument
Null   == 0
SHORT  == 2
INT    == 4
LONG   == 4
PAIR   == 8
STRUCT == 12
PAGE_SZ == 32
IPC_FIX == 256

ASSUME Syscalls32Assumption ==
    /\ Lens \subseteq 0 .. STRUCT
    /\ Offs \subseteq 0 .. Room - STRUCT
    /\ Word \in Nat /\ Word > 1024

Byte == Base .. Base + 6 * Room - 1
Minus1 == Word - 1

\* (long)x
Long(x) == IF 2 * x >= Word THEN x - Word ELSE x

\* The n bytes at p; nothing is mapped at NULL.
Bytes(p, n) == IF p = Null THEN {} ELSE (p .. p + n - 1) \cap Byte

Least(m, n) == IF m < n THEN m ELSE n
Ceil(n, d)  == (n + d - 1) \div d
Bit(x, b)   == (x \div b) % 2 = 1

\* Numbers of commands and flags.
IPCCALL == [SEMCTL |-> 3, MSGRCV |-> 12, MSGCTL |-> 14, SHMCTL |-> 24]
IPC     == [RMID |-> 0, STAT |-> 2, INFO |-> 3]
SYS     == [SEND |-> 9, ACCEPT |-> 5, SOCKETPAIR |-> 8, RECV |-> 10, RECVFROM |-> 12,
            GETSOCKOPT |-> 15, RECVMSG |-> 17, RECVMMSG |-> 19]
F       == [GETFL |-> 3, GETLK |-> 5]
Q       == [GETQUOTA |-> 1, SETQUOTA |-> 2]
MPOL_F  == [NODE |-> 1, ADDR |-> 2, MEMS_ALLOWED |-> 4]

\* The command of quotactl carries the type of the quota in its low bits.
QCMD(q, type) == 4 * q + type

-----------------------------------------------------------------------------
(* What a program passes. The buffer of an argument has an area of its own.    *)

Area(i) == Base + Room * i
B(i) == {Area(i) + o : o \in Offs}          \* a buffer
P(i) == {Null} \cup B(i)                    \* one that may be NULL
N == Lens                                   \* a length or a count
Z == {0}                                    \* an argument nothing here depends on
Vec == {0, 1, 2}                            \* a number of small structures
Page == 2 * PAGE_SZ                         \* where the kernel maps pages
IpcCmd == {IPC.RMID, IPC.STAT, IPC.INFO}
IpcCmds == IpcCmd \cup {c + IPC_FIX : c \in IpcCmd}
IpcCalls == {IPCCALL[k] : k \in DOMAIN IPCCALL}
SocketCalls == {SYS[k] : k \in DOMAIN SYS}

\* Calls that take and write the same as another one.
Like == [readlink |-> "read", pread64 |-> "read", getdents64 |-> "read",
         lookup_dcookie |-> "read", modify_ldt |-> "read", fcntl64 |-> "fcntl",
         ppoll |-> "poll", epoll_pwait |-> "epoll_wait", preadv |-> "readv",
         nfsservctl |-> "ioctl"]

\* The values of the six arguments of the other calls with a hook, and of write.
HookParams == [
    read |-> <<Z, B(1), N, Z, Z, Z>>,            readlinkat |-> <<Z, Z, B(2), N, Z, Z>>,
    getcwd |-> <<B(0), N, Z, Z, Z, Z>>,          write |-> <<Z, B(1), {INT}, Z, Z, Z>>,
    getgroups16 |-> <<Vec, P(1), Z, Z, Z, Z>>,   getgroups |-> <<Vec, P(1), Z, Z, Z, Z>>,
    listxattr |-> <<Z, P(1), N, Z, Z, Z>>,       getxattr |-> <<Z, Z, P(2), N, Z, Z>>,
    epoll_wait |-> <<Z, B(1), {0, 1}, Z, Z, Z>>, io_getevents |-> <<Z, Z, {0, 1}, B(3), P(4), Z>>,
    poll |-> <<B(0), Vec, Z, Z, Z, Z>>,          mq_timedreceive |-> <<Z, B(1), N, P(3), Z, Z>>,
    get_mempolicy |-> <<P(0), P(1), Z, Z, 0 .. 4, Z>>, mincore |-> <<Z, {1, PAGE_SZ + 1}, B(2), Z, Z, Z>>,
    old_mmap |-> <<B(0), {0, PAGE_SZ + 1}, Z, Z, Z, Z>>,
    mmap2 |-> <<Z, {1, PAGE_SZ, PAGE_SZ + 1}, Z, {0, 1}, Z, Z>>,
    rt_sigpending |-> <<B(0), N, Z, Z, Z, Z>>,   fcntl |-> <<Z, {F.GETFL, F.GETLK}, P(2), Z, Z, Z>>,
    quotactl |-> <<{QCMD(Q.GETQUOTA, 0), QCMD(Q.SETQUOTA, 0)}, Z, Z, B(3), Z, Z>>,
    syslog |-> <<{2, 10}, B(1), N, Z, Z, Z>>,    sysctl |-> <<Z, Z, Z, Z, Z, Z>>,
    readv |-> <<Z, Z, Vec, Z, Z, Z>>,
    ipc |-> <<IpcCalls, Z, IpcCmds, {IPC.RMID + IPC_FIX, IPC.STAT + IPC_FIX}, B(4), Z>>,
    socketcall |-> <<SocketCalls, Z, Z, Z, Z, Z>>,
    recvmmsg |-> <<Z, {Area(1)}, {1}, Z, P(4), Z>>,
    ioctl |-> <<Z, Z, P(2), Z, Z, Z>> ]

\* Structures that arguments point to: the arguments of a socketcall, an array of iovec,
\* name, control and room for the name of a msghdr, what *addrlen, the semun or the message
\* pointer of an ipc or the arguments of old_mmap hold. Of __sysctl_args newval is name, oldval control and oldlenp word.
Mem(args, iov, name, control, len, word) ==
    [args |-> args, iov |-> iov, name |-> name, control |-> control, len |-> len, word |-> word]
ZeroArgs == [i \in 0 .. 5 |-> 0]
NoMem == Mem(ZeroArgs, <<>>, Null, Null, 0, Null)

Vectors == {<<[base |-> Area(2), len |-> 1], [base |-> Area(3), len |-> INT]>>,
            <<[base |-> Area(3), len |-> INT], [base |-> Area(2), len |-> 0]>>}
Messages(args) == {Mem(args, v, p, q, INT, Null) :
                      v \in Vectors, p \in {Null, Area(4)}, q \in {Null, Area(5)}}

\* The arguments of each kind of socketcall.
SocketArgs(k) ==
    CASE k = SYS.ACCEPT     -> {<<0, p, Area(2), 0, 0, 0>> : p \in P(1)}
      [] k = SYS.SOCKETPAIR -> {<<0, 0, 0, p, 0, 0>> : p \in B(3)}
      [] k = SYS.RECV       -> {<<0, p, n, 0, 0, 0>> : p \in B(1), n \in N}
      [] k = SYS.RECVFROM   -> {<<0, Area(1), n, 0, p, Area(5)>> : n \in N, p \in P(4)}
      [] k = SYS.GETSOCKOPT -> {<<0, 0, 0, p, Area(4), 0>> : p \in B(3)}
      [] k = SYS.RECVMSG    -> {<<0, Area(1), 0, 0, 0, 0>>}
      [] k = SYS.RECVMMSG   -> {<<0, Area(1), 1, 0, p, 0>> : p \in {Null, Area(0)}}
      [] k = SYS.SEND       -> {<<0, p, n, 0, 0, 0>> : p \in B(1), n \in N}

Mems(nr, a) ==
    CASE nr = "readv" -> {Mem(ZeroArgs, v, Null, Null, 0, Null) : v \in Vectors}
      [] nr = "recvmmsg" -> {m \in Messages(ZeroArgs) : m.name = Null}
      [] nr = "sysctl" -> {Mem(ZeroArgs, <<>>, p, q, INT, Area(5)) :
                              p \in {Null, Area(1)}, q \in {Null, Area(3)}}
      [] nr = "ipc" -> {Mem(ZeroArgs, <<>>, Null, Null, 0, p) : p \in P(5)}
      [] nr = "old_mmap" -> {Mem(ZeroArgs, <<>>, Null, Null, n, Null) : n \in {1, PAGE_SZ + 1}}
      [] nr = "socketcall" ->
            UNION {LET args == [i \in 0 .. 5 |-> s[i + 1]] IN
                   IF a[0] \in {SYS.RECVMSG, SYS.RECVMMSG} THEN Messages(args)
                   ELSE {Mem(args, <<>>, Null, Null, INT, Null)} : s \in SocketArgs(a[0])}
      [] OTHER -> {NoMem}

-----------------------------------------------------------------------------
(* What the kernel does                                                       *)

\* The value returned, the lengths the kernel leaves in memory (of a name or an option, of
\* control data, of a message) and the bytes it writes.
AnswerMsg(ret, r, l, c, wrote) ==
    [ret |-> ret, olen |-> l, clen |-> c, mlen |-> r, wrote |-> wrote]
AnswerLen(ret, l, wrote) == AnswerMsg(ret, 0, l, 0, wrote)
Answer(ret, wrote) == AnswerMsg(ret, 0, 0, 0, wrote)

\* ret bytes at p, none, all or a part of those asked for; with a size of 0 some calls only
\* tell the length.
Transfers(p, n) == {Answer(r, Bytes(p, r)) : r \in {0, n \div 2, n}}
Sized(p, n)     == IF n = 0 THEN {Answer(INT, {})} ELSE Transfers(p, n)
Items(p, n, sz) == {Answer(r, Bytes(p, sz * r)) : r \in 0 .. n}

\* The first n bytes of the stream that the first cnt buffers of v make up.
Stream(v, cnt, n) ==
    LET before[i \in 1 .. Len(v) + 1] == IF i = 1 THEN 0 ELSE before[i - 1] + v[i - 1].len
    IN UNION {Bytes(v[i].base, IF n <= before[i] THEN 0 ELSE Least(v[i].len, n - before[i])) :
                 i \in 1 .. cnt}
Totals(v, cnt) == {0, 1, Cardinality(Stream(v, cnt, Word))}

\* The lengths of what the kernel has for p: the program left room for an int.
Lengths(p) == IF p = Null THEN {0} ELSE {INT, PAIR}

\* The address of a peer: as much as fits, and its true length.
Peer(addr, lenp, cap, l) ==
    IF addr = Null THEN {} ELSE Bytes(addr, Least(cap, l)) \cup Bytes(lenp, INT)

\* A msghdr at h, and the msg_len that follows it in a mmsghdr.
Namelen(h)    == h
Controllen(h) == h + INT
Flags(h)      == h + 2 * INT
MsgLen(h)     == h + 3 * INT

Message(h, m, r, l, c) ==
    Stream(m.iov, 2, r) \cup Bytes(Flags(h), INT)
        \cup (IF m.name = Null THEN {}
              ELSE Bytes(m.name, Least(m.len, l)) \cup Bytes(Namelen(h), INT))
        \cup (IF m.control = Null THEN {}
              ELSE Bytes(m.control, c) \cup Bytes(Controllen(h), LONG))

Received(h, m) == {AnswerMsg(r, r, l, c, Message(h, m, r, l, c)) :
    r \in Totals(m.iov, 2), l \in Lengths(m.name), c \in Lengths(m.control)}
ReceivedOne(h, m, timeout) ==
    {AnswerMsg(1, r, l, c, Message(h, m, r, l, c) \cup Bytes(MsgLen(h), INT) \cup Bytes(timeout, PAIR)) :
        r \in Totals(m.iov, 2), l \in Lengths(m.name), c \in Lengths(m.control)}

SocketSuccess(k, s, m) ==
    CASE k = SYS.ACCEPT -> {AnswerLen(0, l, Peer(s[1], s[2], m.len, l)) : l \in Lengths(s[1])}
      [] k = SYS.SOCKETPAIR -> {Answer(0, Bytes(s[3], 2 * INT))}
      [] k = SYS.RECV -> Transfers(s[1], s[2])
      [] k = SYS.RECVFROM -> {AnswerLen(r, l, Bytes(s[1], r) \cup Peer(s[4], s[5], m.len, l)) :
                                r \in {0, s[2]}, l \in Lengths(s[4])}
      [] k = SYS.GETSOCKOPT -> {AnswerLen(0, l, Bytes(s[3], l) \cup Bytes(s[4], INT)) : l \in {1, m.len}}
      [] k = SYS.RECVMSG -> Received(s[1], m)
      [] k = SYS.RECVMMSG -> ReceivedOne(s[1], m, s[4])
      [] k = SYS.SEND -> {Answer(s[2], {})}

\* What ipc passes as ptr: of msgrcv the address of the message and its type, of semctl the
\* union.
IpcSuccess(a, m) ==
    CASE a[0] = IPCCALL.MSGRCV -> {Answer(r, Bytes(m.word, LONG + r)) : r \in {0, INT}}
      [] a[0] = IPCCALL.SEMCTL ->
            {Answer(0, IF a[3] % IPC_FIX = IPC.RMID THEN {} ELSE Bytes(m.word, STRUCT))}
      [] OTHER -> {Answer(0, IF a[2] % IPC_FIX = IPC.RMID THEN {} ELSE Bytes(a[4], STRUCT))}

\* Answers of a call with a hook that succeeds.
HookSuccess(nr, a, m) ==
    CASE nr = "read" -> Transfers(a[1], a[2])
      [] nr = "write" -> {Answer(a[2], {})}
      [] nr = "readlinkat" -> Transfers(a[2], a[3])
      [] nr = "getcwd" -> Transfers(a[0], a[1])
      [] nr = "getgroups16" -> IF a[0] = 0 THEN {Answer(1, {})} ELSE Items(a[1], a[0], SHORT)
      [] nr = "getgroups" -> IF a[0] = 0 THEN {Answer(1, {})} ELSE Items(a[1], a[0], INT)
      [] nr = "listxattr" -> Sized(a[1], a[2])
      [] nr = "getxattr" -> Sized(a[2], a[3])
      [] nr = "epoll_wait" -> Items(a[1], a[2], STRUCT)
      [] nr = "io_getevents" -> Items(a[3], a[2], STRUCT)
      [] nr = "poll" -> {Answer(r, UNION {Bytes(a[0] + PAIR * i + 6, SHORT) : i \in 0 .. a[1] - 1}) :
                            r \in 0 .. a[1]}
      [] nr = "mq_timedreceive" -> {Answer(r, Bytes(a[1], r) \cup Bytes(a[3], INT)) : r \in {0, a[2]}}
      [] nr = "get_mempolicy" -> {Answer(0, Bytes(a[0], INT) \cup Bytes(a[1], LONG))}
      [] nr = "mincore" -> {Answer(0, Bytes(a[2], Ceil(a[1], PAGE_SZ)))}
      [] nr = "old_mmap" -> {Answer(Page, Bytes(Page, PAGE_SZ * Ceil(m.len, PAGE_SZ)))}
      [] nr = "mmap2" -> {Answer(Page, Bytes(Page, PAGE_SZ * Ceil(a[1], PAGE_SZ)))}
      [] nr = "rt_sigpending" -> {Answer(0, Bytes(a[0], a[1]))}
      [] nr = "fcntl" -> {Answer(0, IF a[1] = F.GETLK THEN Bytes(a[2], STRUCT) ELSE {})}
      [] nr = "quotactl" -> {Answer(0, IF a[0] = QCMD(Q.GETQUOTA, 0) THEN Bytes(a[3], STRUCT) ELSE {})}
      [] nr = "syslog" -> IF a[0] = 2 THEN Transfers(a[1], a[2]) ELSE {Answer(a[2], {})}
      [] nr = "sysctl" -> {AnswerLen(0, l, Peer(m.control, m.word, l, l)) : l \in Lengths(m.control)}
      [] nr = "readv" -> {Answer(r, Stream(m.iov, a[2], r)) : r \in Totals(m.iov, a[2])}
      [] nr = "ipc" -> IpcSuccess(a, m)
      [] nr = "socketcall" -> SocketSuccess(a[0], m.args, m)
      [] nr = "recvmmsg" -> ReceivedOne(a[1], m, a[4])
      [] nr = "ioctl" -> {Answer(0, w) : w \in {{}, Bytes(a[2], STRUCT)}}
=============================================================================
