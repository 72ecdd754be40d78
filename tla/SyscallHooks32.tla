--------------------------- MODULE SyscallHooks32 ---------------------------
(***************************************************************************)
(* The post-syscall hooks of syscall_desc.c. A hook is the sequence of its    *)
(* calls tagmap_clrn(addr, num), given what it reads:                         *)
(*    c.arg, c.ret   the context saved by sysenter_save and sysexit_save      *)
(*    c.mem, c.out   the structures of the program its pointers lead to, and  *)
(*                   the lengths the kernel left in them                      *)
(* What a hook stores back in the context (the command of ipc, the address of *)
(* mmap, the arguments of a socketcall) is read by nothing after it.          *)
(***************************************************************************)
EXTENDS Syscalls32

\* tagmap_clrn(p, n)
Clr(p, n) == << <<p, n>> >>
None == <<>>

\* Calls made one after the other for the elements 1 .. n of an array.
Each(calls, n) ==
    LET upto[i \in 0 .. n] == IF i = 0 THEN None ELSE upto[i - 1] \o calls[i] IN upto[n]

\* ctx->ret elements at p, when the call returned more than 0.
ClearRet(c, p, unit) == IF Long(c.ret) <= 0 THEN None ELSE Clr(p, unit * c.ret)

\* Mutant of post_read_hook: clears as much as was asked for, not what was read.
post_read_hook_Asked(c) == IF Long(c.ret) <= 0 THEN None ELSE Clr(c.arg[1], c.arg[2])

post_read_hook(c) == ClearRet(c, c.arg[1], 1)
post_getgroups16_hook(c) == IF c.arg[1] = Null THEN None ELSE ClearRet(c, c.arg[1], SHORT)
post_getgroups_hook(c) == IF c.arg[1] = Null THEN None ELSE ClearRet(c, c.arg[1], INT)
post_readlinkat_hook(c) == ClearRet(c, c.arg[2], 1)

\* The length rounded up to pages; a page more when it already is a multiple of one.
post_mmap_hook(c) ==
    LET length == c.arg[1]
        offset == IF length < PAGE_SZ THEN PAGE_SZ ELSE length + PAGE_SZ - (length % PAGE_SZ)
        start  == IF c.arg[3] = 1 THEN c.ret - offset ELSE c.ret     \* MAP_GROWSDOWN
    IN IF c.ret = Minus1 THEN None ELSE Clr(start, offset)

\* The loop over an array of n iovecs: left[i] bytes remain after i of them.
ClearVector(v, n, tot) ==
    LET left[i \in 0 .. n] ==
            IF i = 0 THEN tot ELSE left[i - 1] - Least(left[i - 1], v[i].len)
    IN Each([i \in 1 .. n |-> IF left[i - 1] > 0 THEN Clr(v[i].base, left[i - 1] - left[i])
                              ELSE None], n)

post_readv_hook(c) == IF Long(c.ret) <= 0 THEN None ELSE ClearVector(c.mem.iov, c.arg[2], c.ret)
post_epoll_wait_hook(c) == ClearRet(c, c.arg[1], STRUCT)

\* The revents of every pollfd, its last two bytes.
post_poll_hook(c) ==
    IF Long(c.ret) <= 0 THEN None
    ELSE Each([i \in 1 .. c.arg[1] |-> Clr(c.arg[0] + PAIR * (i - 1) + 6, SHORT)], c.arg[1])

post_mq_timedreceive_hook(c) ==
    IF Long(c.ret) <= 0 THEN None
    ELSE Clr(c.arg[1], c.ret) \o IF c.arg[3] = Null THEN None ELSE Clr(c.arg[3], LONG)

\* The cases of the flags, in the order of the code.
post_get_mempolicy_hook(c) ==
    LET flags == c.arg[4]
        mode  == Clr(c.arg[0], INT)
        nodes == Clr(c.arg[1], LONG)
        If(p, s) == IF p = Null THEN None ELSE s
        addrOnly == Bit(flags, MPOL_F.ADDR) /\ ~Bit(flags, MPOL_F.NODE)
    IN IF Long(c.ret) < 0 THEN None
       ELSE IF flags = 0 THEN mode \o nodes
       ELSE IF Bit(flags, MPOL_F.MEMS_ALLOWED) THEN nodes
       ELSE IF addrOnly THEN If(c.arg[0], mode) \o If(c.arg[1], nodes)
       ELSE IF Bit(flags, MPOL_F.NODE) THEN mode ELSE None

post_lookup_dcookie_hook(c) == ClearRet(c, c.arg[1], 1)

post_io_getevents_hook(c) ==
    IF Long(c.ret) <= 0 THEN None
    ELSE Clr(c.arg[3], STRUCT * c.ret) \o IF c.arg[4] = Null THEN None ELSE Clr(c.arg[4], PAIR)

post_listxattr_hook(c) == IF c.arg[1] = Null THEN None ELSE ClearRet(c, c.arg[1], 1)
post_getxattr_hook(c) == IF c.arg[2] = Null THEN None ELSE ClearRet(c, c.arg[2], 1)
post_getdents_hook(c) == ClearRet(c, c.arg[1], 1)

post_mincore_hook(c) ==
    IF Long(c.ret) < 0 THEN None ELSE Clr(c.arg[2], (c.arg[1] + PAGE_SZ - 1) \div PAGE_SZ)

post_getcwd_hook(c) == ClearRet(c, c.arg[0], 1)
post_rt_sigpending_hook(c) == IF Long(c.ret) < 0 THEN None ELSE Clr(c.arg[0], c.arg[1])

\* The command is compared with the type still in its low bits.
post_quotactl_hook(c) ==
    IF Long(c.ret) >= 0 /\ c.arg[0] = Q.GETQUOTA THEN Clr(c.arg[3], STRUCT) ELSE None

post_modify_ldt_hook(c) == ClearRet(c, c.arg[1], 1)

\* The *ctl calls of ipc: the command is taken to carry IPC_64, and cmd - IPC_FIX wraps when
\* it does not.
ClearIpc(c, cmd, p) ==
    IF Long(c.ret) >= 0 /\ cmd - IPC_FIX \in {IPC.STAT, IPC.INFO} THEN Clr(p, STRUCT) ELSE None

\* The pointer of msgrcv is taken for that of the message, where it leads to it.
post_ipc_hook(c) ==
    CASE c.arg[0] \in {IPCCALL.MSGCTL, IPCCALL.SHMCTL} -> ClearIpc(c, c.arg[2], c.arg[4])
      [] c.arg[0] = IPCCALL.SEMCTL -> ClearIpc(c, c.arg[3], c.mem.word)
      [] c.arg[0] = IPCCALL.MSGRCV ->
            IF Long(c.ret) <= 0 THEN None ELSE Clr(c.arg[4], c.ret + LONG)
      [] OTHER -> None

post_fcntl_hook(c) ==
    IF Long(c.ret) >= 0 /\ c.arg[1] = F.GETLK THEN Clr(c.arg[2], STRUCT) ELSE None

\* An address of the length that the kernel left at lenp, and that length.
ClearPeer(addr, lenp, len) ==
    IF addr = Null THEN None ELSE Clr(addr, len) \o Clr(lenp, INT)

\* A msghdr at h: name, control data and flags.
ClearHeader(c, h) ==
    (IF c.mem.name = Null THEN None ELSE Clr(c.mem.name, c.out.olen) \o Clr(Namelen(h), INT))
        \o (IF c.mem.control = Null THEN None
            ELSE Clr(c.mem.control, c.out.clen) \o Clr(Controllen(h), INT))
        \o Clr(Flags(h), INT)

\* One message. The test of the timespec guards nothing: a NULL one is cleared too.
post_recvmmsg_hook(c) ==
    LET h == c.arg[1] IN
    IF Long(c.ret) < 0 THEN None
    ELSE Each([i \in 1 .. c.ret |-> ClearHeader(c, h) \o Clr(MsgLen(h), INT)
                                       \o ClearVector(c.mem.iov, 2, c.out.mlen)], c.ret)
         \o Clr(c.arg[4], PAIR)

\* Mutant of post_socketcall_hook: takes the arguments of the socketcall from the context.
post_socketcall_hook_Context(c) ==
    IF c.arg[0] = SYS.RECV THEN ClearRet(c, c.arg[1], 1) ELSE None

\* The arguments of the demultiplexed call are an array in memory.
post_socketcall_hook(c) ==
    LET args == c.mem.args
        k    == c.arg[0]
    IN CASE k = SYS.ACCEPT ->          \* and ACCEPT4, GETSOCKNAME, GETPEERNAME
              IF Long(c.ret) < 0 THEN None ELSE ClearPeer(args[1], args[2], c.out.olen)
         [] k = SYS.SOCKETPAIR -> IF Long(c.ret) < 0 THEN None ELSE Clr(args[3], 2 * INT)
         [] k = SYS.RECV -> ClearRet(c, args[1], 1)
         [] k = SYS.RECVFROM ->
              IF Long(c.ret) <= 0 THEN None
              ELSE Clr(args[1], c.ret) \o ClearPeer(args[4], args[5], c.out.olen)
         [] k = SYS.GETSOCKOPT ->
              IF Long(c.ret) < 0 THEN None ELSE Clr(args[3], c.out.olen) \o Clr(args[4], INT)
         [] k = SYS.RECVMSG ->
              IF Long(c.ret) <= 0 THEN None
              ELSE ClearHeader(c, args[1]) \o ClearVector(c.mem.iov, 2, c.ret)
         [] k = SYS.RECVMMSG -> post_recvmmsg_hook([c EXCEPT !.arg = [args EXCEPT ![5] = c.arg[5]]])
         [] OTHER -> None

post_syslog_hook(c) == IF c.arg[0] \in 2 .. 4 THEN ClearRet(c, c.arg[1], 1) ELSE None

post__sysctl_hook(c) ==
    IF Long(c.ret) < 0 THEN None
    ELSE Clr(c.mem.name, c.mem.len)
             \o (IF c.mem.control = Null THEN None
                 ELSE Clr(c.mem.control, c.out.olen) \o Clr(c.mem.word, LONG))
=============================================================================
