---------------------------- MODULE SyscallHooks ----------------------------
(***************************************************************************)
(* The post-syscall hooks of syscall_desc64.cc. Each one ends with calls of *)
(* tagmap_clrn; here it is the set of cells whose tags it clears, given     *)
(* what it reads:                                                           *)
(*    c.arg, c.ret   the context saved by sysenter_save and sysexit_save    *)
(*    c.mem          the structures of the program its pointers lead to,    *)
(*                   as the kernel left them (Syscalls!NoMem)               *)
(*    c.out          the lengths the kernel left in memory                  *)
(* What a hook stores back in the context (the fixed command of shmctl, the *)
(* moved address of mmap) is read by nothing after it and is left out.      *)
(***************************************************************************)
EXTENDS Syscalls

\* tagmap_clrn(p, n)
tagmap_clrn(p, n) == Cells(p, n)

\* ctx->ret bytes at pointer p, when the call returned more than 0.
ClearRet(c, p, unit) == IF Long(c.ret) <= 0 THEN {} ELSE tagmap_clrn(p, unit * c.ret)

\* Mutant of post_read_hook: clears as much as was asked for, not what was read.
post_read_hook_Asked(c) == IF Long(c.ret) <= 0 THEN {} ELSE tagmap_clrn(c.arg[1], c.arg[2])

post_read_hook(c) == ClearRet(c, c.arg[1], 1)
post_getgroups_hook(c) == IF c.arg[1] = Null THEN {} ELSE ClearRet(c, c.arg[1], INT)
post_readlinkat_hook(c) == ClearRet(c, c.arg[2], 1)
post_epoll_wait_hook(c) == ClearRet(c, c.arg[1], STRUCT)
post_lookup_dcookie_hook(c) == ClearRet(c, c.arg[1], 1)
post_listxattr_hook(c) == IF c.arg[1] = Null THEN {} ELSE ClearRet(c, c.arg[1], 1)
post_getxattr_hook(c) == IF c.arg[2] = Null THEN {} ELSE ClearRet(c, c.arg[2], 1)
post_getdents_hook(c) == ClearRet(c, c.arg[1], 1)
post_getcwd_hook(c) == ClearRet(c, c.arg[0], 1)
post_modify_ldt_hook(c) == ClearRet(c, c.arg[1], 1)
post_syslog_hook(c) == IF c.arg[0] \in 2 .. 4 THEN ClearRet(c, c.arg[1], 1) ELSE {}

\* The length rounded up to pages; a page more when it already is a multiple of one.
post_mmap_hook(c) ==
    LET length == c.arg[1]
        offset == IF length < PAGE_SZ THEN PAGE_SZ ELSE length + PAGE_SZ - (length % PAGE_SZ)
        start  == IF c.arg[3] = 1 THEN c.ret - offset ELSE c.ret     \* MAP_GROWSDOWN
    IN IF c.ret = Minus1 THEN {} ELSE (start .. start + offset - 1) \cap Cell

\* The loop over an array of iovec: left[i] bytes remain after i of them.
ClearVector(v, n, tot) ==
    LET left[i \in 0 .. n] ==
            IF i = 0 THEN tot ELSE left[i - 1] - Least(left[i - 1], v[i].len)
    IN UNION {tagmap_clrn(v[i].base, left[i - 1] - left[i]) : i \in 1 .. n}

\* Mutant of post_readv_hook: stops after the first buffer.
post_readv_hook_First(c) ==
    IF Long(c.ret) <= 0 THEN {} ELSE ClearVector(c.mem.iov, Least(c.arg[2], 1), c.ret)

post_readv_hook(c) == IF Long(c.ret) <= 0 THEN {} ELSE ClearVector(c.mem.iov, c.arg[2], c.ret)

\* The revents of every pollfd: a pollfd is two cells, fd and events with revents.
post_poll_hook(c) ==
    IF Long(c.ret) <= 0 THEN {}
    ELSE UNION {tagmap_clrn(c.arg[0] + 2 * i + 1, 1) : i \in 0 .. c.arg[1] - 1}

post_mq_timedreceive_hook(c) ==
    IF Long(c.ret) <= 0 THEN {}
    ELSE tagmap_clrn(c.arg[1], c.ret) \cup tagmap_clrn(c.arg[3], LONG)

\* The cases of the flags, in the order of the code.
post_get_mempolicy_hook(c) ==
    LET flags == c.arg[4]
        mode  == tagmap_clrn(c.arg[0], INT)
        nodes == tagmap_clrn(c.arg[1], LONG)
        addrOnly == Bit(flags, MPOL_F.ADDR) /\ ~Bit(flags, MPOL_F.NODE)
    IN IF Long(c.ret) < 0 THEN {}
       ELSE IF flags = 0 THEN mode \cup nodes
       ELSE IF Bit(flags, MPOL_F.MEMS_ALLOWED) THEN nodes
       ELSE IF addrOnly THEN mode \cup nodes
       ELSE IF Bit(flags, MPOL_F.NODE) THEN mode ELSE {}

post_io_getevents_hook(c) ==
    IF Long(c.ret) <= 0 THEN {}
    ELSE tagmap_clrn(c.arg[3], STRUCT * c.ret) \cup tagmap_clrn(c.arg[4], STRUCT)

post_mincore_hook(c) ==
    IF Long(c.ret) < 0 THEN {}
    ELSE tagmap_clrn(c.arg[2], (c.arg[1] + PAGE_SZ - 1) \div PAGE_SZ)

\* The cmd parameter of the ipc calls, without IPC_64.
FixCmd(x) == IF x > IPC_FIX THEN x - IPC_FIX ELSE x

ClearIpc(c, cmd, p) ==
    IF Long(c.ret) >= 0 /\ FixCmd(cmd) \in {IPC.STAT, IPC.INFO} THEN tagmap_clrn(p, STRUCT) ELSE {}

post_shmctl_hook(c) == ClearIpc(c, c.arg[1], c.arg[2])
post_msgctl_hook(c) == ClearIpc(c, c.arg[1], c.arg[2])

\* The fourth argument is taken for a pointer to the union that it is.
post_semctl_hook(c) == ClearIpc(c, c.arg[2], c.mem.word)

post_rt_sigpending_hook(c) == IF Long(c.ret) < 0 THEN {} ELSE tagmap_clrn(c.arg[0], c.arg[1])

\* The command is compared with the type still in its low bits.
post_quotactl_hook(c) ==
    IF Long(c.ret) < 0 \/ c.arg[0] # Q.GETQUOTA THEN {} ELSE tagmap_clrn(c.arg[3], STRUCT)

\* An address of the length that the kernel left at lenp, and that length.
ClearPeer(addr, lenp, len) ==
    IF addr = Null THEN {} ELSE tagmap_clrn(addr, len) \cup tagmap_clrn(lenp, INT)

post_accept_accept4_getsockname_getpeername_hook(c) ==
    IF Long(c.ret) < 0 THEN {} ELSE ClearPeer(c.arg[1], c.arg[2], c.out.olen)

post_recvfrom_hook(c) ==
    IF Long(c.ret) <= 0 THEN {}
    ELSE tagmap_clrn(c.arg[1], c.ret) \cup ClearPeer(c.arg[4], c.arg[5], c.out.olen)

post_getsockopt_hook(c) ==
    IF Long(c.ret) < 0 THEN {}
    ELSE tagmap_clrn(c.arg[3], c.out.olen) \cup tagmap_clrn(c.arg[4], INT)

\* A msghdr at h: name, control data, flags and the first tot bytes of its two buffers.
\* ctl is the size taken for msg_controllen.
ClearMessage(c, h, tot, ctl) ==
    (IF c.mem.name = Null THEN {} ELSE tagmap_clrn(c.mem.name, c.out.olen) \cup Namelen(h))
        \cup (IF c.mem.control = Null THEN {}
              ELSE tagmap_clrn(c.mem.control, c.out.clen) \cup tagmap_clrn(h + INT, ctl))
        \cup Flags(h)
        \cup ClearVector(c.mem.iov, 2, tot)

post_recvmsg_hook(c) ==
    IF Long(c.ret) <= 0 THEN {} ELSE ClearMessage(c, c.arg[1], c.ret, LONG)

\* One message. The test of the timespec guards nothing: a NULL one is cleared too.
post_recvmmsg_hook(c) ==
    IF Long(c.ret) < 0 THEN {}
    ELSE (IF c.ret = 0 THEN {}
          ELSE ClearMessage(c, c.arg[1], c.out.mlen, INT) \cup MsgLen(c.arg[1]))
             \cup tagmap_clrn(c.arg[4], STRUCT)

post_msgrcv_hook(c) == IF Long(c.ret) <= 0 THEN {} ELSE tagmap_clrn(c.arg[1], c.ret + LONG)

post_fcntl_hook(c) ==
    IF Long(c.ret) >= 0 /\ c.arg[1] = F.GETLK THEN tagmap_clrn(c.arg[2], STRUCT) ELSE {}

post__sysctl_hook(c) ==
    IF Long(c.ret) < 0 THEN {}
    ELSE tagmap_clrn(c.mem.name, c.mem.len)
             \cup (IF c.mem.control = Null THEN {}
                   ELSE tagmap_clrn(c.mem.control, c.out.olen) \cup tagmap_clrn(c.mem.word, LONG))

\* ret < 0 is never true of an ADDRINT: the last three hooks take a failure for a success.
post_arch_prctl_hook(c) == IF c.arg[0] = ARCH.SET_FS THEN tagmap_clrn(c.arg[1], LONG) ELSE {}

post_sendmmsg_hook(c) ==
    UNION {tagmap_clrn(c.arg[1] + i * MMSGHDR + MSGHDR, INT) : i \in 0 .. c.ret - 1}

\* The number of buffers is not looked at. Past the array the hook reads what lies behind it.
post_process_vm_readv_hook(c) == ClearVector(c.mem.iov, Len(c.mem.iov), c.ret)
=============================================================================
