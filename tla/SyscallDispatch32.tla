------------------------- MODULE SyscallDispatch32 -------------------------
(***************************************************************************)
(* What the 32-bit libdft does for the threads of a program and around their  *)
(* system calls (thread_alloc, thread_free, sysenter_save and sysexit_save of *)
(* libdft_api.c) with the table of descriptors and the hooks of               *)
(* syscall_desc.c. A program does not touch what another thread's call has    *)
(* just written before that call is over.                                     *)
(*                                                                           *)
(* Two variables watch: call, the calls really made, and tainted, the bytes   *)
(* that really hold tracked data.                                             *)
(***************************************************************************)
EXTENDS SyscallHooks32

Tagmap == INSTANCE Tagmap32

CONSTANTS
    Threads,
    CallsOf,      \* the calls each thread may make
    Registered,   \* the calls whose descriptors the tool changes before it starts
    AnyCall,      \* FALSE: only the calls that Expected describes
    MaxSteps      \* calls of each thread, apart from exit

VARIABLES
    desc,      \* the rows of syscall_desc that the tool may change
    started,   \* PIN_StartProgram was called
    ctx,       \* the thread_ctx_t of each thread: nr, arg and ret of its syscall_ctx
    tags,      \* bitmap, as the set of the addresses whose bit is set
    steps,     \* how many calls each thread made, apart from exit
    call,      \* observer: the call each thread is in
    tainted    \* observer: the bytes with tracked data

vars == <<desc, started, ctx, tags, steps, call, tainted>>

\* A row of the table: the lengths of what the call writes through its arguments, and its
\* hooks. NoHook is a NULL pointer.
NoHook == "none"
Desc(n, save, retval, lens, post) ==
    [nargs |-> n, save_args |-> save, retval_args |-> retval,
     map_args |-> [i \in 0 .. 5 |-> lens[i + 1]], pre |-> NoHook, post |-> post]

NoLens          == <<0, 0, 0, 0, 0, 0>>
Hook(n, post)   == Desc(n, TRUE, FALSE, NoLens, post)
Plain(n)        == Desc(n, FALSE, FALSE, NoLens, NoHook)
Result(n, lens) == Desc(n, FALSE, TRUE, lens, NoHook)

\* The table, in the order of the numbers; exit, write and open stand for the rows with
\* nothing in them.
Rows1 == [
    exit |-> Plain(1),
    read |-> Hook(3, "post_read_hook"),
    write |-> Plain(3),
    open |-> Plain(3),
    waitpid |-> Result(3, <<0, INT, 0, 0, 0, 0>>),
    time |-> Result(1, <<LONG, 0, 0, 0, 0, 0>>),
    stat |-> Result(2, <<0, STRUCT, 0, 0, 0, 0>>),
    fstat |-> Result(2, <<0, STRUCT, 0, 0, 0, 0>>),
    ftime |-> Result(0, NoLens),
    pipe |-> Result(1, <<PAIR, 0, 0, 0, 0, 0>>),
    times |-> Result(1, <<STRUCT, 0, 0, 0, 0, 0>>),
    ioctl |-> Hook(3, NoHook),
    fcntl |-> Hook(3, "post_fcntl_hook"),
    olduname |-> Result(1, <<STRUCT, 0, 0, 0, 0, 0>>),
    ustat |-> Result(2, <<0, STRUCT, 0, 0, 0, 0>>),
    sigaction |-> Result(3, <<0, 0, STRUCT, 0, 0, 0>>) ]

Rows2 == [
    sigpending |-> Result(1, <<LONG, 0, 0, 0, 0, 0>>),
    old_getrlimit |-> Result(2, <<0, PAIR, 0, 0, 0, 0>>),
    getrusage |-> Result(2, <<0, STRUCT, 0, 0, 0, 0>>),
    gettimeofday |-> Result(2, <<PAIR, PAIR, 0, 0, 0, 0>>),
    getgroups16 |-> Hook(2, "post_getgroups16_hook"),
    old_select |-> Result(5, <<0, STRUCT, STRUCT, STRUCT, PAIR, 0>>),
    lstat |-> Result(2, <<0, STRUCT, 0, 0, 0, 0>>),
    readlink |-> Hook(3, "post_read_hook"),
    old_readdir |-> Result(3, <<0, STRUCT, 0, 0, 0, 0>>),
    old_mmap |-> Hook(6, "post_mmap_hook"),
    statfs |-> Result(2, <<0, STRUCT, 0, 0, 0, 0>>),
    fstatfs |-> Result(2, <<0, STRUCT, 0, 0, 0, 0>>),
    socketcall |-> Hook(2, "post_socketcall_hook"),
    syslog |-> Hook(3, "post_syslog_hook"),
    setitimer |-> Result(3, <<0, 0, STRUCT, 0, 0, 0>>),
    getitimer |-> Result(2, <<0, STRUCT, 0, 0, 0, 0>>),
    newstat |-> Result(2, <<0, STRUCT, 0, 0, 0, 0>>),
    newlstat |-> Result(2, <<0, STRUCT, 0, 0, 0, 0>>),
    newfstat |-> Result(2, <<0, STRUCT, 0, 0, 0, 0>>),
    uname |-> Result(1, <<STRUCT, 0, 0, 0, 0, 0>>),
    vm86old |-> Result(2, <<STRUCT, 0, 0, 0, 0, 0>>),
    wait4 |-> Result(4, <<0, INT, 0, STRUCT, 0, 0>>),
    sysinfo |-> Result(1, <<STRUCT, 0, 0, 0, 0, 0>>),
    ipc |-> Hook(6, "post_ipc_hook"),
    clone |-> Result(5, <<0, 0, INT, 0, 0, 0>>),
    newuname |-> Result(1, <<STRUCT, 0, 0, 0, 0, 0>>),
    modify_ldt |-> Hook(3, "post_modify_ldt_hook"),
    adjtimex |-> Result(1, <<STRUCT, 0, 0, 0, 0, 0>>),
    sigprocmask |-> Result(3, <<0, 0, LONG, 0, 0, 0>>),
    quotactl |-> Hook(4, "post_quotactl_hook"),
    llseek |-> Result(5, <<0, 0, 0, PAIR, 0, 0>>),
    getdents |-> Result(3, <<0, STRUCT, 0, 0, 0, 0>>),
    select |-> Result(5, <<0, STRUCT, STRUCT, STRUCT, PAIR, 0>>) ]

Rows3 == [
    readv |-> Hook(3, "post_readv_hook"),
    sysctl |-> Hook(1, "post__sysctl_hook"),
    sched_getparam |-> Result(2, <<0, INT, 0, 0, 0, 0>>),
    sched_rr_get_interval |-> Result(2, <<0, PAIR, 0, 0, 0, 0>>),
    nanosleep |-> Result(2, <<0, PAIR, 0, 0, 0, 0>>),
    getresuid16 |-> Result(3, <<SHORT, SHORT, SHORT, 0, 0, 0>>),
    ptregs_vm86 |-> Result(3, <<0, STRUCT, 0, 0, 0, 0>>),
    poll |-> Hook(3, "post_poll_hook"),
    nfsservctl |-> Hook(3, NoHook),
    getresgid16 |-> Result(3, <<SHORT, SHORT, SHORT, 0, 0, 0>>),
    rt_sigaction |-> Result(4, <<0, 0, STRUCT, 0, 0, 0>>),
    rt_sigprocmask |-> Result(4, <<0, 0, STRUCT, 0, 0, 0>>),
    rt_sigpending |-> Hook(2, "post_rt_sigpending_hook"),
    rt_sigtimedwait |-> Result(4, <<0, STRUCT, 0, 0, 0, 0>>),
    rt_sigqueueinfo |-> Result(3, <<0, 0, STRUCT, 0, 0, 0>>),
    pread64 |-> Hook(4, "post_read_hook"),
    getcwd |-> Hook(2, "post_getcwd_hook"),
    capget |-> Result(2, <<LONG, LONG, 0, 0, 0, 0>>),
    sigaltstack |-> Result(2, <<0, STRUCT, 0, 0, 0, 0>>),
    sendfile |-> Result(4, <<0, 0, LONG, 0, 0, 0>>),
    getrlimit |-> Result(2, <<0, PAIR, 0, 0, 0, 0>>),
    mmap2 |-> Hook(6, "post_mmap_hook"),
    stat64 |-> Result(2, <<0, STRUCT, 0, 0, 0, 0>>),
    lstat64 |-> Result(2, <<0, STRUCT, 0, 0, 0, 0>>),
    fstat64 |-> Result(2, <<0, STRUCT, 0, 0, 0, 0>>),
    getgroups |-> Hook(2, "post_getgroups_hook"),
    getresuid |-> Result(3, <<INT, INT, INT, 0, 0, 0>>),
    getresgid |-> Result(3, <<INT, INT, INT, 0, 0, 0>>) ]

Rows4 == [
    mincore |-> Hook(3, "post_mincore_hook"),
    getdents64 |-> Hook(3, "post_getdents_hook"),
    fcntl64 |-> Hook(3, "post_fcntl_hook"),
    getxattr |-> Hook(4, "post_getxattr_hook"),
    listxattr |-> Hook(3, "post_listxattr_hook"),
    sendfile64 |-> Result(4, <<0, 0, PAIR, 0, 0, 0>>),
    sched_getaffinity |-> Result(3, <<0, 0, STRUCT, 0, 0, 0>>),
    get_thread_area |-> Result(1, <<STRUCT, 0, 0, 0, 0, 0>>),
    io_setup |-> Result(2, <<0, LONG, 0, 0, 0, 0>>),
    io_getevents |-> Hook(5, "post_io_getevents_hook"),
    io_cancel |-> Result(3, <<0, 0, STRUCT, 0, 0, 0>>),
    lookup_dcookie |-> Hook(3, "post_lookup_dcookie_hook"),
    epoll_wait |-> Hook(4, "post_epoll_wait_hook"),
    timer_create |-> Result(3, <<0, 0, LONG, 0, 0, 0>>),
    timer_settime |-> Result(4, <<0, 0, 0, STRUCT, 0, 0>>),
    timer_gettime |-> Result(2, <<0, STRUCT, 0, 0, 0, 0>>),
    clock_gettime |-> Result(2, <<0, PAIR, 0, 0, 0, 0>>),
    clock_getres |-> Result(2, <<0, PAIR, 0, 0, 0, 0>>),
    clock_nanosleep |-> Result(4, <<0, 0, 0, PAIR, 0, 0>>),
    statfs64 |-> Result(3, <<0, 0, STRUCT, 0, 0, 0>>),
    fstatfs64 |-> Result(3, <<0, 0, STRUCT, 0, 0, 0>>),
    get_mempolicy |-> Hook(5, "post_get_mempolicy_hook"),
    mq_timedreceive |-> Hook(5, "post_mq_timedreceive_hook"),
    mq_getsetattr |-> Result(3, <<0, 0, STRUCT, 0, 0, 0>>),
    waitid |-> Result(4, <<0, 0, STRUCT, 0, STRUCT, 0>>) ]

Rows5 == [
    fstatat64 |-> Result(4, <<0, 0, STRUCT, 0, 0, 0>>),
    readlinkat |-> Hook(4, "post_readlinkat_hook"),
    pselect6 |-> Result(6, <<0, STRUCT, STRUCT, STRUCT, 0, 0>>),
    ppoll |-> Hook(5, "post_poll_hook"),
    get_robust_list |-> Result(3, <<0, LONG, LONG, 0, 0, 0>>),
    splice |-> Result(6, <<0, PAIR, 0, PAIR, 0, 0>>),
    move_pages |-> Result(6, <<0, 0, 0, 0, INT, 0>>),
    getcpu |-> Result(3, <<INT, INT, STRUCT, 0, 0, 0>>),
    epoll_pwait |-> Hook(6, "post_epoll_wait_hook"),
    timerfd_settime |-> Result(4, <<0, 0, 0, STRUCT, 0, 0>>),
    timerfd_gettime |-> Result(2, <<0, STRUCT, 0, 0, 0, 0>>),
    pipe2 |-> Result(2, <<PAIR, 0, 0, 0, 0, 0>>),
    preadv |-> Hook(5, "post_readv_hook"),
    rt_tgsigqueueinfo |-> Result(4, <<0, 0, 0, STRUCT, 0, 0>>),
    perf_event_open |-> Result(5, <<STRUCT, 0, 0, 0, 0, 0>>),
    recvmmsg |-> Hook(5, "post_recvmmsg_hook"),
    prlimit64 |-> Result(4, <<0, 0, 0, STRUCT, 0, 0>>),
    name_to_handle_at |-> Result(5, <<0, 0, PAIR, INT, 0, 0>>),
    open_by_handle_at |-> Result(3, <<0, PAIR, 0, 0, 0, 0>>),
    clock_adjtime |-> Result(2, <<0, STRUCT, 0, 0, 0, 0>>) ]

\* Every call whose number is below SYSCALL_MAX has a row.
Known == UNION {DOMAIN Rows1, DOMAIN Rows2, DOMAIN Rows3, DOMAIN Rows4, DOMAIN Rows5}

syscall_desc == [nr \in Known |->
    CASE nr \in DOMAIN Rows1 -> Rows1[nr]
      [] nr \in DOMAIN Rows2 -> Rows2[nr]
      [] nr \in DOMAIN Rows3 -> Rows3[nr]
      [] nr \in DOMAIN Rows4 -> Rows4[nr]
      [] nr \in DOMAIN Rows5 -> Rows5[nr]]

ASSUME SyscallDispatch32Assumption ==
    /\ CallsOf \in [Threads -> SUBSET (Known \cup {"unknown"})]
    /\ Registered \subseteq Known
    /\ AnyCall \in BOOLEAN
    /\ MaxSteps \in [Threads -> Nat]

\* The row of a call.
Row(nr) == IF nr \in Registered THEN desc[nr] ELSE syscall_desc[nr]

NoArgs == [i \in 0 .. 5 |-> 0]
NoNr   == "no_call"
Ctx(nr, arg, ret) == [nr |-> nr, arg |-> arg, ret |-> ret]
NoCtx  == Ctx("no_context", NoArgs, 0)
NewCtx == Ctx("restart_syscall", NoArgs, 0)       \* all zero
Call(nr, arg, mem, out, done) ==
    [nr |-> nr, arg |-> arg, mem |-> mem, out |-> out, done |-> done]
NoCall == Call(NoNr, NoArgs, NoMem, Answer(0, {}), FALSE)

Init ==
    /\ desc = [nr \in Registered |-> syscall_desc[nr]]
    /\ started = FALSE
    /\ ctx = [t \in Threads |-> NoCtx]
    /\ tags = Byte
    /\ steps = [t \in Threads |-> 0]
    /\ call = [t \in Threads |-> NoCall]
    /\ tainted = Byte

-----------------------------------------------------------------------------
(* The table and the threads *)

syscall_set_pre(d, pre)   == [d EXCEPT !.pre = pre, !.save_args = TRUE]
syscall_set_post(d, post) == [d EXCEPT !.post = post, !.save_args = TRUE]

\* Mutant of syscall_clr_pre: a post hook does not keep the flag.
syscall_clr_pre_Always(d) == [d EXCEPT !.pre = NoHook, !.save_args = FALSE]

syscall_clr_pre(d)  == [d EXCEPT !.pre = NoHook, !.save_args = @ /\ d.post # NoHook]
syscall_clr_post(d) == [d EXCEPT !.post = NoHook, !.save_args = @ /\ d.pre # NoHook]

Register(nr) ==
    /\ ~started
    /\ \E d \in {syscall_set_pre(desc[nr], "tool_hook"), syscall_set_post(desc[nr], "tool_hook"),
                 syscall_clr_pre(desc[nr]), syscall_clr_post(desc[nr])} :
          desc' = [desc EXCEPT ![nr] = d]
    /\ UNCHANGED <<started, ctx, tags, steps, call, tainted>>

\* main: PIN_StartProgram, after libdft_init
StartProgram ==
    /\ ~started
    /\ started' = TRUE
    /\ UNCHANGED <<desc, ctx, tags, steps, call, tainted>>

\* A thread begins: calloc of its context.
thread_alloc(t) ==
    /\ started /\ ctx[t] = NoCtx
    /\ ctx' = [ctx EXCEPT ![t] = NewCtx]
    /\ UNCHANGED <<desc, started, tags, steps, call, tainted>>

\* A thread is over: it called exit, which does not return.
thread_free(t) ==
    /\ call[t].nr = "exit"
    /\ ctx' = [ctx EXCEPT ![t] = NoCtx]
    /\ call' = [call EXCEPT ![t] = NoCall]
    /\ UNCHANGED <<desc, started, tags, steps, tainted>>

-----------------------------------------------------------------------------
(* Calls *)

\* The arguments through which the kernel does not write as many bytes as the row says:
\* a set or a mask shorter than its type (select, rt_sigprocmask), an array or a record
\* without a fixed length (getdents, move_pages), an input (rt_sigqueueinfo), a structure
\* taken for its pointer (capget), one that only a failed or a special call fills
\* (nanosleep, clone), one behind nargs (waitid) or without a length (pselect6).
Deviates == [
    sigaction |-> {2}, rt_sigaction |-> {2}, rt_sigprocmask |-> {2}, old_select |-> 1 .. 4,
    select |-> 1 .. 3, pselect6 |-> 1 .. 4, old_readdir |-> {1}, getdents |-> {1},
    clone |-> {2, 4}, nanosleep |-> {1}, clock_nanosleep |-> {3}, rt_sigqueueinfo |-> {2},
    rt_tgsigqueueinfo |-> {3}, perf_event_open |-> {0}, capget |-> {0, 1},
    sched_getaffinity |-> {2}, move_pages |-> {4}, getcpu |-> {2},
    name_to_handle_at |-> {2}, open_by_handle_at |-> {1}, waitid |-> {4} ]
DeviatesAt(nr, i) == nr \in DOMAIN Deviates /\ i \in Deviates[nr]

Name(nr) == IF nr \in DOMAIN Like THEN Like[nr] ELSE nr

\* The values of argument i: pointers where the row of a call without a hook has a length.
ParamsAt(nr, i) ==
    IF Name(nr) \in DOMAIN HookParams THEN HookParams[Name(nr)][i + 1]
    ELSE IF nr \notin Known THEN IF i = 1 THEN P(1) ELSE Z
    ELSE IF DeviatesAt(nr, i) THEN {Null, Area(i)}
    ELSE IF syscall_desc[nr].map_args[i] > 0 THEN P(i) ELSE Z

\* What the kernel writes through the arguments of a call without a hook.
FixedSuccess(nr, a) ==
    LET sz(i) == syscall_desc[nr].map_args[i]
        Written(odd) == UNION {Bytes(a[i], IF DeviatesAt(nr, i) THEN odd ELSE sz(i)) : i \in 0 .. 5}
    IN {Answer(0, Written(odd)) : odd \in {0, PAIR}}

Answers(nr, a, m) ==
    {Answer(Minus1, {})} \cup
        IF Name(nr) \in DOMAIN HookParams THEN HookSuccess(Name(nr), a, m)
        ELSE IF nr \in Known THEN FixedSuccess(nr, a)
        ELSE {Answer(0, w) : w \in {{}, Bytes(a[1], INT)}}

\* What the rows and hooks were written for. Each conjunct is a way in which they clear
\* other bytes than the kernel wrote.
ExpectedArgs(nr, a, m) ==
    /\ \A i \in 0 .. 5 : DeviatesAt(nr, i) => a[i] = Null
    /\ nr \in {"getgroups16", "getgroups"} => a[0] > 0     \* only the length is asked for
    /\ nr = "listxattr" => a[2] > 0
    /\ nr = "getxattr" => a[3] > 0
    /\ nr = "mmap2" => a[1] % PAGE_SZ # 0 /\ a[3] = 0      \* a page too much, MAP_GROWSDOWN
    /\ nr = "old_mmap" => a[1] < PAGE_SZ /\ m.len < PAGE_SZ \* the arguments are in memory
    /\ nr = "get_mempolicy" =>                             \* the kernel fills both
          /\ Bit(a[4], MPOL_F.MEMS_ALLOWED) => a[0] = Null
          /\ Bit(a[4], MPOL_F.NODE) => a[1] = Null
    /\ nr = "io_getevents" => a[4] = Null                  \* an input
    /\ nr = "quotactl" => a[0] # QCMD(Q.GETQUOTA, 0)
    /\ nr = "sysctl" => m.name = Null                      \* newval is an input
    /\ nr = "ipc" => a[2] >= IPC_FIX \/ a[2] = IPC.RMID
    /\ nr = "ipc" => a[0] # IPCCALL.MSGRCV
    /\ Name(nr) = "ioctl" => a[2] = Null                   \* no hook
    /\ nr \notin Known => a[1] = Null                      \* no row

HasPeer(nr, a) == nr = "recvmmsg" \/ (nr = "socketcall" /\ a[0] # SYS.GETSOCKOPT)
Reads(nr, a) ==
    \/ nr \in {"poll", "ppoll", "mq_timedreceive"}
    \/ nr = "socketcall" /\ a[0] \in {SYS.RECVFROM, SYS.RECVMSG}

ExpectedAnswer(nr, a, m, k) ==
    /\ Long(k.ret) < 0 /\ nr \in Known => Row(nr).post # NoHook    \* ret < 0 of an unsigned
    /\ k.ret = 0 => ~Reads(nr, a)                          \* what came with an empty message
    /\ HasPeer(nr, a) => k.olen <= m.len                   \* the address did not fit

Unknown == "minus_1"
Saves(nr) == Row(nr).save_args \/ Row(nr).retval_args

\* Mutant of sysenter_save: the number of an unknown call is kept.
sysenter_save_KeepsNr(t, nr, a) == ctx' = [ctx EXCEPT ![t] = Ctx(nr, a, ctx[t].ret)]

\* No tool has a pre-syscall hook that touches tags.
sysenter_save(t, nr, a) ==
    LET old   == ctx[t]
        saved == [i \in 0 .. 5 |-> IF i < Row(nr).nargs THEN a[i] ELSE old.arg[i]]
    IN ctx' = [ctx EXCEPT ![t] =
           IF nr \notin Known THEN Ctx(Unknown, old.arg, old.ret)
           ELSE Ctx(nr, IF Saves(nr) THEN saved ELSE old.arg, old.ret)]

\* A thread makes a call.
Enter(t, nr) ==
    /\ ctx[t] # NoCtx /\ call[t].nr = NoNr
    /\ nr = "exit" \/ steps[t] < MaxSteps[t]
    /\ \E a0 \in ParamsAt(nr, 0), a1 \in ParamsAt(nr, 1), a2 \in ParamsAt(nr, 2),
          a3 \in ParamsAt(nr, 3), a4 \in ParamsAt(nr, 4), a5 \in ParamsAt(nr, 5) :
          LET a == [i \in 0 .. 5 |-> <<a0, a1, a2, a3, a4, a5>>[i + 1]] IN
          \E m \in Mems(Name(nr), a) :
             /\ AnyCall \/ ExpectedArgs(nr, a, m)
             /\ sysenter_save(t, nr, a)
             /\ call' = [call EXCEPT ![t] = Call(nr, a, m, Answer(0, {}), FALSE)]
    /\ steps' = IF nr = "exit" THEN steps ELSE [steps EXCEPT ![t] = @ + 1]
    /\ UNCHANGED <<desc, started, tags, tainted>>

\* The kernel writes its results, and what was in those bytes is gone.
Kernel(t) ==
    /\ call[t].nr \notin {NoNr, "exit"} /\ ~call[t].done
    /\ \E k \in Answers(call[t].nr, call[t].arg, call[t].mem) :
          /\ AnyCall \/ ExpectedAnswer(call[t].nr, call[t].arg, call[t].mem, k)
          /\ call' = [call EXCEPT ![t] = Call(call[t].nr, call[t].arg, call[t].mem, k, TRUE)]
          /\ tainted' = tainted \ k.wrote
    /\ UNCHANGED <<desc, started, ctx, tags, steps>>

\* The hooks by their names in the table.
Clears(post, c) ==
    CASE post = "post_read_hook" -> post_read_hook(c)
      [] post = "post_getgroups16_hook" -> post_getgroups16_hook(c)
      [] post = "post_getgroups_hook" -> post_getgroups_hook(c)
      [] post = "post_readlinkat_hook" -> post_readlinkat_hook(c)
      [] post = "post_mmap_hook" -> post_mmap_hook(c)
      [] post = "post_readv_hook" -> post_readv_hook(c)
      [] post = "post_epoll_wait_hook" -> post_epoll_wait_hook(c)
      [] post = "post_poll_hook" -> post_poll_hook(c)
      [] post = "post_mq_timedreceive_hook" -> post_mq_timedreceive_hook(c)
      [] post = "post_get_mempolicy_hook" -> post_get_mempolicy_hook(c)
      [] post = "post_lookup_dcookie_hook" -> post_lookup_dcookie_hook(c)
      [] post = "post_io_getevents_hook" -> post_io_getevents_hook(c)
      [] post = "post_listxattr_hook" -> post_listxattr_hook(c)
      [] post = "post_getxattr_hook" -> post_getxattr_hook(c)
      [] post = "post_getdents_hook" -> post_getdents_hook(c)
      [] post = "post_mincore_hook" -> post_mincore_hook(c)
      [] post = "post_getcwd_hook" -> post_getcwd_hook(c)
      [] post = "post_rt_sigpending_hook" -> post_rt_sigpending_hook(c)
      [] post = "post_quotactl_hook" -> post_quotactl_hook(c)
      [] post = "post_modify_ldt_hook" -> post_modify_ldt_hook(c)
      [] post = "post_ipc_hook" -> post_ipc_hook(c)
      [] post = "post_fcntl_hook" -> post_fcntl_hook(c)
      [] post = "post_socketcall_hook" -> post_socketcall_hook(c)
      [] post = "post_syslog_hook" -> post_syslog_hook(c)
      [] post = "post__sysctl_hook" -> post__sysctl_hook(c)
      [] post = "post_recvmmsg_hook" -> post_recvmmsg_hook(c)
      [] post = "tool_hook" -> None

\* The default handling. Its test for a failed call, ret < 0, is never true of an ADDRINT.
DefaultClears(d, c) ==
    Each([i \in 1 .. d.nargs |-> IF d.map_args[i - 1] > 0 /\ c.arg[i - 1] # Null
                                 THEN Clr(c.arg[i - 1], d.map_args[i - 1]) ELSE None], d.nargs)

\* The ranges that tagmap_clrn clears as a whole and nothing else.
Exact(p, n) ==
    n <= Tagmap!ALIGN_OFF_MAX \/ Tagmap!RestLen(p, n) \in (0 .. Tagmap!ALIGN_OFF_MAX) \ {7}

\* The bitmap after the calls of tagmap_clrn in s.
AfterClears(b, s) ==
    LET after[i \in 0 .. Len(s)] ==
            IF i = 0 THEN b ELSE Tagmap!tagmap_clrn(after[i - 1], s[i][1], s[i][2])
    IN after[Len(s)]

\* The call is over.
sysexit_save(t) ==
    LET nr == ctx[t].nr
        c  == [arg |-> ctx[t].arg, ret |-> call[t].out.ret, mem |-> call[t].mem, out |-> call[t].out]
        d  == Row(nr)
        handled == nr # Unknown /\ Saves(nr)
        s  == IF d.post # NoHook THEN Clears(d.post, c) ELSE DefaultClears(d, c)
    IN /\ call[t].done
       /\ IF ~handled THEN UNCHANGED <<tags, ctx>>
          ELSE /\ AnyCall \/ \A i \in DOMAIN s : Exact(s[i][1], s[i][2])
               /\ tags' = AfterClears(tags, s)
               /\ ctx' = [ctx EXCEPT ![t] = Ctx(nr, ctx[t].arg, c.ret)]
       /\ call' = [call EXCEPT ![t] = NoCall]
       /\ UNCHANGED <<desc, started, steps, tainted>>

Next ==
    \/ \E nr \in Registered : Register(nr)
    \/ StartProgram
    \/ \E t \in Threads : \/ thread_alloc(t)
                          \/ thread_free(t)
                          \/ \E nr \in CallsOf[t] : Enter(t, nr)
                          \/ Kernel(t)
                          \/ sysexit_save(t)

Spec == Init /\ [][Next]_vars

-----------------------------------------------------------------------------
(* Properties *)

\* Bytes whose new contents libdft does not know of yet.
Pending == UNION {call[t].out.wrote : t \in Threads}

\* Every part of the state has its type. A context names a row of the table or is marked as
\* that of an unknown call.
TypeOK ==
    /\ DOMAIN desc = Registered /\ \A nr \in Registered : desc[nr].nargs = syscall_desc[nr].nargs
    /\ started \in BOOLEAN
    /\ \A t \in Threads : ctx[t] # NoCtx =>
          /\ ctx[t].nr \in Known \cup {Unknown, NewCtx.nr}
          /\ ctx[t].arg \in [0 .. 5 -> 0 .. Word - 1] /\ ctx[t].ret \in 0 .. Word - 1
    /\ tags \subseteq Byte /\ tainted \subseteq Byte
    /\ \A t \in Threads : steps[t] \in 0 .. MaxSteps[t]

\* A tag never outlives its data: once a call is over, no byte the kernel wrote carries the
\* tag of what was there before (the hooks, DefaultClears and tagmap_clrn).
NoStaleByte == tags \ Pending \subseteq tainted

\* The tags of data that no call overwrote are never cleared.
NoLostByte == tainted \subseteq tags

\* Whatever is registered, however the calls of the threads interleave and threads come and
\* go, the hook or the default handling at the end of a call finds a live context with the
\* number and all the arguments of that call.
HookSeesCall ==
    \A t \in Threads : LET nr == call[t].nr IN
        /\ nr # NoNr => ctx[t] # NoCtx
        /\ nr \in Known =>
              /\ ctx[t].nr = nr
              /\ Row(nr).pre # NoHook \/ Row(nr).post # NoHook \/ Row(nr).retval_args =>
                    \A i \in 0 .. Row(nr).nargs - 1 : ctx[t].arg[i] = call[t].arg[i]
        /\ nr # NoNr /\ nr \notin Known => ctx[t].nr = Unknown
=============================================================================
