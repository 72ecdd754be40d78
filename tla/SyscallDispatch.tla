-------------------------- MODULE SyscallDispatch --------------------------
(***************************************************************************)
(* What libdft does around every system call of a replayed program          *)
(* (sysenter_save and sysexit_save of libdft_api64.cc) with the descriptors *)
(* and hooks of syscall_desc64.cc: the arguments are saved in the context   *)
(* of the thread when the call is made, the kernel runs, and when it is     *)
(* done the tags of what it wrote are cleared. The shadow memory is shared  *)
(* by the threads; a program does not touch what another thread's call has  *)
(* just written before that call is over.                                   *)
(*                                                                         *)
(* Two variables watch: call, the calls really made, and tainted, the cells *)
(* that really hold tracked data.                                           *)
(***************************************************************************)
EXTENDS SyscallHooks

CONSTANTS
    Threads,
    CallsOf,      \* the calls each thread may make
    Registered,   \* the calls whose descriptors the tool changes before it starts
    AnyCall,      \* FALSE: only the calls that Expected describes
    MaxSteps      \* calls and moves of each thread

ASSUME SyscallDispatchAssumption ==
    /\ CallsOf \in [Threads -> SUBSET DOMAIN Params]
    /\ Registered \subseteq DOMAIN Params \ {"unknown"}
    /\ AnyCall \in BOOLEAN
    /\ MaxSteps \in [Threads -> Nat]

VARIABLES
    desc,      \* syscall_desc, the table of descriptors
    started,   \* PIN_StartProgram was called
    ctx,       \* syscall_ctx of each thread: nr, arg, ret
    tags,      \* the cells with a tag
    steps,     \* calls and moves each thread made
    call,      \* observer: the call each thread is in
    tainted    \* observer: the cells with tracked data

vars == <<desc, started, ctx, tags, steps, call, tainted>>

\* A row of the table: the lengths of what the call writes through its arguments, and its
\* hooks. NoHook is a NULL pointer.
NoHook == "none"
Row(n, save, retval, lens, hook) ==
    [nargs |-> n, save_args |-> save, retval_args |-> retval,
     map_args |-> [i \in 0 .. 5 |-> lens[i + 1]], pre |-> NoHook, post |-> hook]

NoLens          == <<0, 0, 0, 0, 0, 0>>
Hook(n, post)   == Row(n, TRUE, FALSE, NoLens, post)
Plain(n)        == Row(n, FALSE, FALSE, NoLens, NoHook)
Result(n, lens) == Row(n, FALSE, TRUE, lens, NoHook)

\* The rows of the table in the order of their numbers: one call for each hook, and calls
\* without one.
Rows1 == [
    read |-> Hook(3, "post_read_hook"),
    write |-> Plain(3),
    stat |-> Result(2, <<0, STRUCT, 0, 0, 0, 0>>),
    poll |-> Hook(3, "post_poll_hook"),
    mmap |-> Hook(6, "post_mmap_hook"),
    ioctl |-> Hook(3, NoHook),
    readv |-> Hook(3, "post_readv_hook"),
    select |-> Result(5, <<0, STRUCT, STRUCT, STRUCT, STRUCT, 0>>),
    mincore |-> Hook(3, "post_mincore_hook"),
    shmctl |-> Hook(3, "post_shmctl_hook"),
    nanosleep |-> Result(2, <<0, STRUCT, 0, 0, 0, 0>>),
    accept |-> Hook(3, "post_accept_accept4_getsockname_getpeername_hook"),
    recvfrom |-> Hook(6, "post_recvfrom_hook"),
    recvmsg |-> Hook(3, "post_recvmsg_hook"),
    getsockopt |-> Hook(5, "post_getsockopt_hook"),
    semctl |-> Hook(4, "post_semctl_hook"),
    msgrcv |-> Hook(5, "post_msgrcv_hook"),
    msgctl |-> Hook(3, "post_msgctl_hook") ]

Rows2 == [
    fcntl |-> Hook(3, "post_fcntl_hook"),
    getdents |-> Hook(3, "post_getdents_hook"),
    getcwd |-> Hook(2, "post_getcwd_hook"),
    syslog |-> Hook(3, "post_syslog_hook"),
    getgroups |-> Hook(2, "post_getgroups_hook"),
    rt_sigpending |-> Hook(2, "post_rt_sigpending_hook") ]

Rows3 == [
    modify_ldt |-> Hook(3, "post_modify_ldt_hook"),
    sysctl |-> Hook(1, "post__sysctl_hook"),
    arch_prctl |-> Hook(2, "post_arch_prctl_hook"),
    quotactl |-> Hook(4, "post_quotactl_hook"),
    getxattr |-> Hook(4, "post_getxattr_hook"),
    listxattr |-> Hook(3, "post_listxattr_hook"),
    io_getevents |-> Hook(5, "post_io_getevents_hook"),
    lookup_dcookie |-> Hook(3, "post_lookup_dcookie_hook") ]

Rows4 == [
    epoll_wait |-> Hook(4, "post_epoll_wait_hook"),
    get_mempolicy |-> Hook(5, "post_get_mempolicy_hook"),
    mq_timedreceive |-> Hook(5, "post_mq_timedreceive_hook"),
    waitid |-> Result(4, <<0, 0, STRUCT, 0, STRUCT, 0>>),
    newfstatat |-> Row(4, TRUE, FALSE, <<0, 0, STRUCT, 0, 0, 0>>, NoHook),
    readlinkat |-> Hook(4, "post_readlinkat_hook") ]

Rows5 == [
    perf_event_open |-> Result(5, <<STRUCT, 0, 0, 0, 0, 0>>),
    recvmmsg |-> Hook(5, "post_recvmmsg_hook"),
    sendmmsg |-> Hook(4, "post_sendmmsg_hook"),
    process_vm_readv |-> Hook(6, "post_process_vm_readv_hook") ]

\* Every call whose number is below SYSCALL_MAX has a row.
Known == UNION {DOMAIN Rows1, DOMAIN Rows2, DOMAIN Rows3, DOMAIN Rows4, DOMAIN Rows5}

syscall_desc == [nr \in Known |->
    CASE nr \in DOMAIN Rows1 -> Rows1[nr]
      [] nr \in DOMAIN Rows2 -> Rows2[nr]
      [] nr \in DOMAIN Rows3 -> Rows3[nr]
      [] nr \in DOMAIN Rows4 -> Rows4[nr]
      [] nr \in DOMAIN Rows5 -> Rows5[nr]]

\* The hooks a row can name.
Hooks == {NoHook, "tool_hook"} \cup {syscall_desc[nr].post : nr \in Known}

NoArgs == [i \in 0 .. 5 |-> 0]
NoNr   == "no_call"
Ctx(nr, arg, ret) == [nr |-> nr, arg |-> arg, ret |-> ret]
Call(nr, arg, mem, out, done) ==
    [nr |-> nr, arg |-> arg, mem |-> mem, out |-> out, done |-> done]
NoCall == Call(NoNr, NoArgs, NoMem, Answer(0, {}), FALSE)

Init ==
    /\ desc = syscall_desc
    /\ started = FALSE
    /\ ctx = [t \in Threads |-> Ctx("read", NoArgs, 0)]
    /\ tags = Cell
    /\ steps = [t \in Threads |-> 0]
    /\ call = [t \in Threads |-> NoCall]
    /\ tainted = Cell

-----------------------------------------------------------------------------
(* The table *)

syscall_set_pre(d, pre)   == [d EXCEPT !.pre = pre, !.save_args = TRUE]
syscall_set_post(d, post) == [d EXCEPT !.post = post, !.save_args = TRUE]

\* Mutant of syscall_clr_pre: a post hook does not keep the flag.
syscall_clr_pre_Always(d) == [d EXCEPT !.pre = NoHook, !.save_args = FALSE]

syscall_clr_pre(d)  == [d EXCEPT !.pre = NoHook, !.save_args = @ /\ d.post # NoHook]
syscall_clr_post(d) == [d EXCEPT !.post = NoHook, !.save_args = @ /\ d.pre # NoHook]

Register(nr) ==
    /\ ~started
    /\ \E d \in {syscall_set_pre(desc[nr], "tool_hook"), syscall_set_post(desc[nr], "tool_hook"),
                 syscall_clr_pre(desc[nr]), syscall_clr_post(desc[nr])} :
          desc' = [desc EXCEPT ![nr] = d]
    /\ UNCHANGED <<started, ctx, tags, steps, call, tainted>>

\* main: PIN_StartProgram
StartProgram ==
    /\ ~started
    /\ started' = TRUE
    /\ UNCHANGED <<desc, ctx, tags, steps, call, tainted>>

-----------------------------------------------------------------------------
(* Calls *)

\* What the hooks were written for. Each conjunct is a way in which a hook, or the default
\* handling, clears other cells than the kernel wrote.
Unchecked == {"stat", "select", "nanosleep", "waitid", "newfstatat",
              "sendmmsg", "process_vm_readv"}

ExpectedArgs(nr, a, m) ==
    /\ nr \notin {"arch_prctl", "perf_event_open"}
    /\ nr = "getgroups" => a[0] > 0                       \* only the length is asked for
    /\ nr = "listxattr" => a[2] > 0
    /\ nr = "getxattr" => a[3] > 0
    /\ nr = "mmap" => a[1] % PAGE_SZ # 0 /\ a[3] = 0      \* a page too much, MAP_GROWSDOWN
    /\ nr = "get_mempolicy" =>                            \* the kernel fills both
          /\ Bit(a[4], MPOL_F.MEMS_ALLOWED) => a[0] = Null
          /\ Bit(a[4], MPOL_F.NODE) => a[1] = Null
    /\ nr \in {"io_getevents", "waitid"} => a[4] = Null   \* an input; beyond nargs
    /\ nr = "mq_timedreceive" => a[3] = Null              \* an int cleared as a size_t
    /\ nr = "semctl" => a[2] = IPC.RMID
    /\ nr = "quotactl" => a[0] # QCMD(Q.GETQUOTA, 0)
    /\ nr = "sysctl" => m.name = Null                     \* newval is an input
    /\ nr = "recvmmsg" => m.control = Null                \* a size_t cleared as an int
    /\ nr = "select" => a[0] = STRUCT                     \* sets shorter than an fd_set
    /\ nr \in {"nanosleep", "unknown"} => a[1] = Null     \* written on failure; no row
    /\ nr = "ioctl" => a[2] = Null                        \* no hook

ExpectedAnswer(nr, m, k) ==
    /\ Long(k.ret) < 0 => nr \notin Unchecked             \* ret < 0 of an unsigned
    /\ k.ret = 0 => nr \notin {"poll", "mq_timedreceive", "msgrcv", "recvfrom", "recvmsg"}
    /\ nr \in {"accept", "recvfrom", "recvmsg", "recvmmsg"} => k.olen <= m.len

\* The arguments a program can pass. Its buffers are apart from each other.
ArgsOf(nr) ==
    LET v == Params[nr]
    IN {[i \in 0 .. 5 |-> x[i + 1]] : x \in v[1] \X v[2] \X v[3] \X v[4] \X v[5] \X v[6]}
IsPointer(nr, i) == Params[nr][i + 1] \in {P, B, Headers}
Apart(nr, a) == \A i, j \in 0 .. 5 :
    IsPointer(nr, i) /\ IsPointer(nr, j) /\ i # j /\ a[i] = a[j] => a[i] = Null

Unknown == "minus_1"
Saves(nr) == desc[nr].save_args \/ desc[nr].retval_args

\* Mutant of sysenter_save: one context for all threads.
sysenter_save_Shared(t, nr, a) ==
    ctx' = [u \in Threads |->
        IF nr \notin Known THEN [ctx[u] EXCEPT !.nr = Unknown]
        ELSE IF ~Saves(nr) THEN [ctx[u] EXCEPT !.nr = nr]
        ELSE [ctx[u] EXCEPT !.nr = nr, !.arg = [i \in 0 .. 5 |-> IF i < desc[nr].nargs THEN a[i] ELSE @[i]]]]

\* Mutant of sysenter_save: the number of an unknown call is kept.
sysenter_save_KeepsNr(t, nr, a) ==
    ctx' = [ctx EXCEPT ![t].nr = nr,
                       ![t].arg = [i \in 0 .. 5 |-> IF nr \in Known /\ Saves(nr) /\ i < desc[nr].nargs
                                                    THEN a[i] ELSE @[i]]]

\* No tool has a pre-syscall hook that touches tags.
sysenter_save(t, nr, a) ==
    LET old   == ctx[t]
        saved == [i \in 0 .. 5 |-> IF i < desc[nr].nargs THEN a[i] ELSE old.arg[i]]
    IN ctx' = [ctx EXCEPT ![t] =
           IF nr \notin Known THEN Ctx(Unknown, old.arg, old.ret)
           ELSE Ctx(nr, IF Saves(nr) THEN saved ELSE old.arg, old.ret)]

\* A thread makes a call.
Enter(t, nr) ==
    /\ started /\ steps[t] < MaxSteps[t] /\ call[t].nr = NoNr
    /\ nr \in CallsOf[t]
    /\ \E a \in ArgsOf(nr), m \in Mems(nr) :
          /\ Apart(nr, a)
          /\ AnyCall \/ ExpectedArgs(nr, a, m)
          /\ sysenter_save(t, nr, a)
          /\ call' = [call EXCEPT ![t] = Call(nr, a, m, Answer(0, {}), FALSE)]
    /\ steps' = [steps EXCEPT ![t] = @ + 1]
    /\ UNCHANGED <<desc, started, tags, tainted>>

\* The kernel writes its results, and what was in those cells is gone.
Kernel(t) ==
    /\ call[t].nr # NoNr /\ ~call[t].done
    /\ \E k \in Answers(call[t].nr, call[t].arg, call[t].mem) :
          /\ AnyCall \/ ExpectedAnswer(call[t].nr, call[t].mem, k)
          /\ call' = [call EXCEPT ![t] = Call(call[t].nr, call[t].arg, call[t].mem, k, TRUE)]
          /\ tainted' = tainted \ k.wrote
    /\ UNCHANGED <<desc, started, ctx, tags, steps>>

\* The hooks by their names in the table. The hooks of the tool itself are in TaintHooks.
Clears(post, c) ==
    CASE post = "post_read_hook" -> post_read_hook(c)
      [] post = "post_readlinkat_hook" -> post_readlinkat_hook(c)
      [] post = "post_getdents_hook" -> post_getdents_hook(c)
      [] post = "post_getcwd_hook" -> post_getcwd_hook(c)
      [] post = "post_lookup_dcookie_hook" -> post_lookup_dcookie_hook(c)
      [] post = "post_modify_ldt_hook" -> post_modify_ldt_hook(c)
      [] post = "post_getgroups_hook" -> post_getgroups_hook(c)
      [] post = "post_listxattr_hook" -> post_listxattr_hook(c)
      [] post = "post_getxattr_hook" -> post_getxattr_hook(c)
      [] post = "post_epoll_wait_hook" -> post_epoll_wait_hook(c)
      [] post = "post_io_getevents_hook" -> post_io_getevents_hook(c)
      [] post = "post_poll_hook" -> post_poll_hook(c)
      [] post = "post_mq_timedreceive_hook" -> post_mq_timedreceive_hook(c)
      [] post = "post_msgrcv_hook" -> post_msgrcv_hook(c)
      [] post = "post_get_mempolicy_hook" -> post_get_mempolicy_hook(c)
      [] post = "post_mincore_hook" -> post_mincore_hook(c)
      [] post = "post_mmap_hook" -> post_mmap_hook(c)
      [] post = "post_rt_sigpending_hook" -> post_rt_sigpending_hook(c)
      [] post = "post_shmctl_hook" -> post_shmctl_hook(c)
      [] post = "post_msgctl_hook" -> post_msgctl_hook(c)
      [] post = "post_semctl_hook" -> post_semctl_hook(c)
      [] post = "post_fcntl_hook" -> post_fcntl_hook(c)
      [] post = "post_quotactl_hook" -> post_quotactl_hook(c)
      [] post = "post_getsockopt_hook" -> post_getsockopt_hook(c)
      [] post = "post_accept_accept4_getsockname_getpeername_hook" ->
            post_accept_accept4_getsockname_getpeername_hook(c)
      [] post = "post_recvfrom_hook" -> post_recvfrom_hook(c)
      [] post = "post_syslog_hook" -> post_syslog_hook(c)
      [] post = "post__sysctl_hook" -> post__sysctl_hook(c)
      [] post = "post_arch_prctl_hook" -> post_arch_prctl_hook(c)
      [] post = "post_readv_hook" -> post_readv_hook(c)
      [] post = "post_process_vm_readv_hook" -> post_process_vm_readv_hook(c)
      [] post = "post_recvmsg_hook" -> post_recvmsg_hook(c)
      [] post = "post_recvmmsg_hook" -> post_recvmmsg_hook(c)
      [] post = "post_sendmmsg_hook" -> post_sendmmsg_hook(c)
      [] post = "tool_hook" -> {}

\* The default handling. Its test for a failed call, ret < 0, is never true of an ADDRINT.
DefaultClears(d, c) ==
    UNION {tagmap_clrn(c.arg[i], d.map_args[i]) :
               i \in {j \in 0 .. d.nargs - 1 : d.map_args[j] > 0 /\ c.arg[j] # Null}}

\* The call is over.
sysexit_save(t) ==
    LET nr == ctx[t].nr
        c  == [arg |-> ctx[t].arg, ret |-> call[t].out.ret, mem |-> call[t].mem, out |-> call[t].out]
        d  == desc[nr]
        handled == nr # Unknown /\ Saves(nr)
    IN /\ call[t].done
       /\ tags' = IF ~handled THEN tags
                  ELSE tags \ (IF d.post # NoHook THEN Clears(d.post, c) ELSE DefaultClears(d, c))
       /\ ctx' = IF handled THEN [ctx EXCEPT ![t] = Ctx(nr, ctx[t].arg, c.ret)] ELSE ctx
       /\ call' = [call EXCEPT ![t] = NoCall]
       /\ UNCHANGED <<desc, started, steps, tainted>>

\* Cells whose new contents the tool does not know of yet.
Pending == UNION {call[t].out.wrote : t \in Threads}

\* The program copies a cell.
Move(t, d, s) ==
    /\ started /\ steps[t] < MaxSteps[t] /\ call[t].nr = NoNr
    /\ {d, s} \cap Pending = {}
    /\ tags' = IF s \in tags THEN tags \cup {d} ELSE tags \ {d}
    /\ tainted' = IF s \in tainted THEN tainted \cup {d} ELSE tainted \ {d}
    /\ steps' = [steps EXCEPT ![t] = @ + 1]
    /\ UNCHANGED <<desc, started, ctx, call>>

Next ==
    \/ \E nr \in Registered : Register(nr)
    \/ StartProgram
    \/ \E t \in Threads : \/ \E nr \in CallsOf[t] : Enter(t, nr)
                          \/ Kernel(t)
                          \/ sysexit_save(t)
                          \/ \E d, s \in Cell : Move(t, d, s)

Spec == Init /\ [][Next]_vars

-----------------------------------------------------------------------------
(* Properties *)

\* Every part of the state has its type. A context names a row of the table or is marked as
\* that of an unknown call.
TypeOK ==
    /\ desc \in [Known -> [nargs : 0 .. 6, save_args : BOOLEAN, retval_args : BOOLEAN,
                           map_args : [0 .. 5 -> {0, STRUCT}], pre : Hooks, post : Hooks]]
    /\ started \in BOOLEAN
    /\ ctx \in [Threads -> [nr : Known \cup {Unknown}, arg : [0 .. 5 -> 0 .. Word - 1],
                            ret : 0 .. Word - 1]]
    /\ tags \subseteq Cell /\ tainted \subseteq Cell
    /\ \A t \in Threads : steps[t] \in 0 .. MaxSteps[t]
    /\ \A t \in Threads : call[t].out.wrote \subseteq Cell

\* A tag never outlives its data: once a call is over, no cell the kernel wrote, and no copy
\* of one, carries the tag of what was there before.
NoStaleCell == tags \ Pending \subseteq tainted

\* The tags of data that no call overwrote are never cleared (tagmap_clrn in the hooks and
\* in the default handling of sysexit_save).
NoLostCell == tainted \subseteq tags

\* Whatever is registered and however the calls of the threads interleave, the hook or the
\* default handling that runs at the end of a call finds the number and all the arguments
\* of that call in the context of its thread.
HookSeesCall ==
    \A t \in Threads : LET nr == call[t].nr IN
        /\ nr \in Known =>
              /\ ctx[t].nr = nr
              /\ desc[nr].pre # NoHook \/ desc[nr].post # NoHook \/ Saves(nr) =>
                    \A i \in 0 .. desc[nr].nargs - 1 : ctx[t].arg[i] = call[t].arg[i]
        /\ nr # NoNr /\ nr \notin Known => ctx[t].nr = Unknown
=============================================================================
