---------------------- MODULE SyscallDispatchProofs ----------------------
(***************************************************************************)
(* Whatever the tool registers and however the calls of the threads         *)
(* interleave, what runs at the end of a call sees that call; and each hook  *)
(* of syscall_desc64.cc, and the default handling of sysexit_save, clears    *)
(* exactly the cells that the kernel wrote, for the calls Expected           *)
(* describes. With it the tags of memory are right after every call: for     *)
(* any number of threads, calls, cells of memory and lengths. Last, every    *)
(* argument and every answer fits in an ADDRINT, and so do the contexts.     *)
(***************************************************************************)
EXTENDS SyscallDispatch, FiniteSetTheorems, TLAPS

(* The argument needs three things of the table: a row has at most six          *)
(* arguments, a row with a hook saves them (syscall_set_pre and                *)
(* syscall_set_post set save_args, and the functions that take a hook away     *)
(* reset it only when no hook is left), and the table changes only before the  *)
(* program starts, when no thread is in a call.                                *)
Desc == [nargs : 0 .. 6, save_args : BOOLEAN, retval_args : BOOLEAN,
         map_args : [0 .. 5 -> {0, STRUCT}], pre : Hooks, post : Hooks]

HookSaves(d) == (d.pre # NoHook => d.save_args) /\ (d.post # NoHook => d.save_args)

TableInv ==
    /\ desc \in [Known -> Desc]
    /\ \A nr \in Known : HookSaves(desc[nr])

ThreadInv ==
    /\ DOMAIN ctx = Threads /\ DOMAIN call = Threads
    /\ started \in BOOLEAN
    /\ ~started => \A t \in Threads : call[t].nr = NoNr

DispatchInv == TableInv /\ ThreadInv /\ HookSeesCall

-----------------------------------------------------------------------------
(* The rows of the table *)

LEMMA Arities == 1 \in 0 .. 6 /\ 2 \in 0 .. 6 /\ 3 \in 0 .. 6 /\ 4 \in 0 .. 6
                 /\ 5 \in 0 .. 6 /\ 6 \in 0 .. 6
OBVIOUS

\* A row as the table has it: without a pre hook, and with a post hook only if it saves
\* the arguments.
Shape(d) ==
    /\ d \in [nargs : 0 .. 6, save_args : BOOLEAN, retval_args : BOOLEAN,
              map_args : [0 .. 5 -> {0, STRUCT}], pre : {NoHook}, post : {d.post}]
    /\ d.save_args = TRUE \/ d.post = NoHook

LEMMA RowShape ==
    ASSUME NEW n \in 0 .. 6, NEW save \in BOOLEAN, NEW retval \in BOOLEAN, NEW hook,
           NEW lens, \A i \in 1 .. 6 : lens[i] \in {0, STRUCT},
           save = TRUE \/ hook = NoHook
    PROVE  Shape(Row(n, save, retval, lens, hook))
<1>1. \A i \in 0 .. 5 : lens[i + 1] \in {0, STRUCT}
  BY SMT
<1>2. [i \in 0 .. 5 |-> lens[i + 1]] \in [0 .. 5 -> {0, STRUCT}]
  BY <1>1
<1>3. QED BY <1>2 DEF Shape, Row

LEMMA LensOK ==
    ASSUME NEW a \in {0, STRUCT}, NEW b \in {0, STRUCT}, NEW c \in {0, STRUCT},
           NEW d \in {0, STRUCT}, NEW e \in {0, STRUCT}, NEW f \in {0, STRUCT}
    PROVE  \A i \in 1 .. 6 : <<a, b, c, d, e, f>>[i] \in {0, STRUCT}
BY SMT

LEMMA HookShape == ASSUME NEW n \in 0 .. 6, NEW hook PROVE Shape(Hook(n, hook))
<1>1. \A i \in 1 .. 6 : NoLens[i] \in {0, STRUCT}
  BY LensOK, Zenon DEF NoLens
<1>2. QED BY RowShape, <1>1, Zenon DEF Hook

LEMMA PlainShape == ASSUME NEW n \in 0 .. 6 PROVE Shape(Plain(n))
<1>1. \A i \in 1 .. 6 : NoLens[i] \in {0, STRUCT}
  BY LensOK, Zenon DEF NoLens
<1>2. QED BY RowShape, <1>1, Zenon DEF Plain

LEMMA ResultShape ==
    ASSUME NEW n \in 0 .. 6, NEW lens, \A i \in 1 .. 6 : lens[i] \in {0, STRUCT}
    PROVE  Shape(Result(n, lens))
BY RowShape, Zenon DEF Result

LEMMA Domain1 ==
    DOMAIN Rows1 = {"read", "write", "stat", "poll", "mmap", "ioctl", "readv", "select",
                    "mincore", "shmctl", "nanosleep", "accept", "recvfrom", "recvmsg",
                    "getsockopt", "semctl", "msgrcv", "msgctl"}
BY Zenon DEF Rows1

LEMMA Domain2 ==
    DOMAIN Rows2 = {"fcntl", "getdents", "getcwd", "syslog", "getgroups", "rt_sigpending"}
BY Zenon DEF Rows2

LEMMA Domain3 ==
    DOMAIN Rows3 = {"modify_ldt", "sysctl", "arch_prctl", "quotactl", "getxattr",
                    "listxattr", "io_getevents", "lookup_dcookie"}
BY Zenon DEF Rows3

LEMMA Domain4 ==
    DOMAIN Rows4 = {"epoll_wait", "get_mempolicy", "mq_timedreceive", "waitid",
                    "newfstatat", "readlinkat"}
BY Zenon DEF Rows4

LEMMA Domain5 ==
    DOMAIN Rows5 = {"perf_event_open", "recvmmsg", "sendmmsg", "process_vm_readv"}
BY Zenon DEF Rows5

LEMMA Rows1Shape == \A nr \in DOMAIN Rows1 : Shape(Rows1[nr])
<1>1. /\ Shape(Rows1["read"]) /\ Shape(Rows1["write"]) /\ Shape(Rows1["stat"])
      /\ Shape(Rows1["poll"]) /\ Shape(Rows1["mmap"]) /\ Shape(Rows1["ioctl"])
      /\ Shape(Rows1["readv"]) /\ Shape(Rows1["select"]) /\ Shape(Rows1["mincore"])
      /\ Shape(Rows1["shmctl"]) /\ Shape(Rows1["nanosleep"]) /\ Shape(Rows1["accept"])
      /\ Shape(Rows1["recvfrom"]) /\ Shape(Rows1["recvmsg"])
      /\ Shape(Rows1["getsockopt"]) /\ Shape(Rows1["semctl"]) /\ Shape(Rows1["msgrcv"])
      /\ Shape(Rows1["msgctl"])
  BY Arities, HookShape, PlainShape, ResultShape, LensOK, ZenonT(30) DEF Rows1
<1>2. QED BY Domain1, <1>1, Zenon

LEMMA Rows2Shape == \A nr \in DOMAIN Rows2 : Shape(Rows2[nr])
<1>1. /\ Shape(Rows2["fcntl"]) /\ Shape(Rows2["getdents"]) /\ Shape(Rows2["getcwd"])
      /\ Shape(Rows2["syslog"]) /\ Shape(Rows2["getgroups"])
      /\ Shape(Rows2["rt_sigpending"])
  BY Arities, HookShape, ZenonT(30) DEF Rows2
<1>2. QED BY Domain2, <1>1, Zenon

LEMMA Rows3Shape == \A nr \in DOMAIN Rows3 : Shape(Rows3[nr])
<1>1. /\ Shape(Rows3["modify_ldt"]) /\ Shape(Rows3["sysctl"]) /\ Shape(Rows3["arch_prctl"])
      /\ Shape(Rows3["quotactl"]) /\ Shape(Rows3["getxattr"])
      /\ Shape(Rows3["listxattr"]) /\ Shape(Rows3["io_getevents"])
      /\ Shape(Rows3["lookup_dcookie"])
  BY Arities, HookShape, ZenonT(30) DEF Rows3
<1>2. QED BY Domain3, <1>1, Zenon

LEMMA Rows4Shape == \A nr \in DOMAIN Rows4 : Shape(Rows4[nr])
<1>1. /\ Shape(Rows4["epoll_wait"]) /\ Shape(Rows4["get_mempolicy"])
      /\ Shape(Rows4["mq_timedreceive"]) /\ Shape(Rows4["waitid"])
      /\ Shape(Rows4["newfstatat"]) /\ Shape(Rows4["readlinkat"])
  BY Arities, HookShape, ResultShape, RowShape, LensOK, ZenonT(30) DEF Rows4
<1>2. QED BY Domain4, <1>1, Zenon

LEMMA Rows5Shape == \A nr \in DOMAIN Rows5 : Shape(Rows5[nr])
<1>1. /\ Shape(Rows5["perf_event_open"]) /\ Shape(Rows5["recvmmsg"])
      /\ Shape(Rows5["sendmmsg"]) /\ Shape(Rows5["process_vm_readv"])
  BY Arities, HookShape, ResultShape, LensOK, ZenonT(30) DEF Rows5
<1>2. QED BY Domain5, <1>1, Zenon


LEMMA TableShape == \A nr \in Known : Shape(syscall_desc[nr])
BY Rows1Shape, Rows2Shape, Rows3Shape, Rows4Shape, Rows5Shape, ZenonT(30) DEF syscall_desc, Known

LEMMA TableOK == syscall_desc \in [Known -> Desc] /\ \A nr \in Known : HookSaves(syscall_desc[nr])
<1>1. NoHook \in Hooks /\ \A nr \in Known : syscall_desc[nr].post \in Hooks
  BY Zenon DEF Hooks
<1>2. \A nr \in Known : syscall_desc[nr] \in Desc /\ HookSaves(syscall_desc[nr])
  BY <1>1, TableShape DEF Shape, Desc, HookSaves
<1>3. QED BY <1>2, Zenon DEF syscall_desc

LEMMA Names == NoNr \notin Known /\ "tool_hook" \in Hooks /\ NoHook \in Hooks
<1>1. /\ NoNr \notin DOMAIN Rows1 /\ NoNr \notin DOMAIN Rows2 /\ NoNr \notin DOMAIN Rows3
      /\ NoNr \notin DOMAIN Rows4 /\ NoNr \notin DOMAIN Rows5
  BY ZenonT(30) DEF Rows1, Rows2, Rows3, Rows4, Rows5, NoNr
<1>2. QED BY <1>1, Zenon DEF Known, Hooks

-----------------------------------------------------------------------------
(* The steps *)

LEMMA InitDispatch == Init => DispatchInv
<1> SUFFICES ASSUME Init PROVE DispatchInv
  OBVIOUS
<1>1. TableInv
  BY TableOK DEF Init, TableInv
<1>2. \A t \in Threads : call[t].nr = NoNr
  BY DEF Init, NoCall, Call
<1>3. ThreadInv
  BY <1>2 DEF Init, ThreadInv
<1>4. HookSeesCall
  BY <1>2, Names, Zenon DEF HookSeesCall
<1>5. QED BY <1>1, <1>3, <1>4 DEF DispatchInv

\* What registering does to a row.
LEMMA RegisterRow ==
    ASSUME NEW d0 \in Desc, HookSaves(d0),
           NEW d \in {syscall_set_pre(d0, "tool_hook"), syscall_set_post(d0, "tool_hook"),
                      syscall_clr_pre(d0), syscall_clr_post(d0)}
    PROVE  d \in Desc /\ HookSaves(d)
<1>1. CASE d = syscall_set_pre(d0, "tool_hook")
  BY <1>1, Names DEF syscall_set_pre, Desc, HookSaves
<1>2. CASE d = syscall_set_post(d0, "tool_hook")
  BY <1>2, Names DEF syscall_set_post, Desc, HookSaves
<1>3. CASE d = syscall_clr_pre(d0)
  BY <1>3, Names DEF syscall_clr_pre, Desc, HookSaves
<1>4. CASE d = syscall_clr_post(d0)
  BY <1>4, Names DEF syscall_clr_post, Desc, HookSaves
<1>5. QED BY <1>1, <1>2, <1>3, <1>4

LEMMA RegisterStep ==
    ASSUME DispatchInv, NEW nr \in Registered, Register(nr) PROVE DispatchInv'
<1>1. PICK d \in {syscall_set_pre(desc[nr], "tool_hook"), syscall_set_post(desc[nr], "tool_hook"),
                  syscall_clr_pre(desc[nr]), syscall_clr_post(desc[nr])} :
          desc' = [desc EXCEPT ![nr] = d]
  BY Zenon DEF Register
<1>2. UNCHANGED <<started, ctx, call>> /\ ~started
  BY DEF Register
<1>3. desc \in [Known -> Desc] /\ \A n \in Known : HookSaves(desc[n])
  BY DEF DispatchInv, TableInv
<1>4. nr \in Known => d \in Desc /\ HookSaves(d)
  BY <1>3, RegisterRow
<1>5. TableInv'
  BY <1>1, <1>3, <1>4 DEF TableInv
<1>6. ThreadInv'
  BY <1>2 DEF DispatchInv, ThreadInv
<1>7. \A t \in Threads : call'[t].nr = NoNr
  BY <1>2 DEF DispatchInv, ThreadInv
<1>8. HookSeesCall'
  BY <1>7, Names, Zenon DEF HookSeesCall
<1>9. QED BY <1>5, <1>6, <1>8 DEF DispatchInv

\* A step of thread t that leaves the table alone keeps the invariant if it keeps the part
\* of HookSeesCall about t.
SeesCall(c, k) ==
    /\ k.nr \in Known =>
          /\ c.nr = k.nr
          /\ desc[k.nr].pre # NoHook \/ desc[k.nr].post # NoHook \/ Saves(k.nr) =>
                \A i \in 0 .. desc[k.nr].nargs - 1 : c.arg[i] = k.arg[i]
    /\ k.nr # NoNr /\ k.nr \notin Known => c.nr = Unknown

LEMMA SeesCallIff == HookSeesCall <=> \A t \in Threads : SeesCall(ctx[t], call[t])
BY Zenon DEF HookSeesCall, SeesCall

LEMMA ThreadStep ==
    ASSUME DispatchInv, NEW t \in Threads, NEW c, NEW k, started,
           desc' = desc, started' = started,
           DOMAIN ctx' = Threads, ctx'[t] = c, \A u \in Threads \ {t} : ctx'[u] = ctx[u],
           call' = [call EXCEPT ![t] = k], SeesCall(c, k)
    PROVE  DispatchInv'
<1>1. TableInv'
  BY DEF DispatchInv, TableInv
<1>2. ThreadInv'
  BY DEF DispatchInv, ThreadInv
<1>3. ASSUME NEW u \in Threads PROVE SeesCall(ctx'[u], call'[u])
  <2>1. SeesCall(ctx[u], call[u])
    BY SeesCallIff DEF DispatchInv
  <2>2. CASE u = t
    BY <2>2 DEF DispatchInv, ThreadInv
  <2>3. CASE u # t
    BY <2>1, <2>3 DEF DispatchInv, ThreadInv
  <2>4. QED BY <2>2, <2>3
<1>4. HookSeesCall'
  BY <1>3, Zenon DEF HookSeesCall, SeesCall, Saves
<1>5. QED BY <1>1, <1>2, <1>4 DEF DispatchInv

\* sysenter_save leaves the call in the context of the thread.
LEMMA EnterStep ==
    ASSUME DispatchInv, NEW t \in Threads, NEW nr, Enter(t, nr) PROVE DispatchInv'
<1>1. PICK a, m : /\ sysenter_save(t, nr, a)
                  /\ call' = [call EXCEPT ![t] = Call(nr, a, m, Answer(0, {}), FALSE)]
  BY Zenon DEF Enter
<1>2. started /\ desc' = desc /\ started' = started
  BY DEF Enter
<1> DEFINE saved == [i \in 0 .. 5 |-> IF i < desc[nr].nargs THEN a[i] ELSE ctx[t].arg[i]]
           c == IF nr \notin Known THEN Ctx(Unknown, ctx[t].arg, ctx[t].ret)
                ELSE Ctx(nr, IF Saves(nr) THEN saved ELSE ctx[t].arg, ctx[t].ret)
           k == Call(nr, a, m, Answer(0, {}), FALSE)
<1>3. /\ DOMAIN ctx' = Threads /\ ctx'[t] = c
      /\ \A u \in Threads \ {t} : ctx'[u] = ctx[u]
  <2>1. ctx' = [ctx EXCEPT ![t] = c] /\ DOMAIN ctx = Threads
    BY <1>1 DEF sysenter_save, DispatchInv, ThreadInv
  <2> HIDE DEF c
  <2>2. QED BY <2>1
<1>4. k.nr = nr /\ k.arg = a
  BY DEF Call
<1>5. CASE nr \notin Known
  <2>1. c.nr = Unknown
    BY <1>5 DEF Ctx
  <2>2. SeesCall(c, k)
    BY <1>4, <1>5, <2>1 DEF SeesCall
  <2>3. QED BY <1>1, <1>2, <1>3, <2>2, ThreadStep, Zenon
<1>6. CASE nr \in Known
  <2>1. desc[nr] \in Desc /\ HookSaves(desc[nr])
    BY <1>6 DEF DispatchInv, TableInv
  <2>2. ASSUME desc[nr].pre # NoHook \/ desc[nr].post # NoHook \/ Saves(nr)
        PROVE  \A i \in 0 .. desc[nr].nargs - 1 : c.arg[i] = a[i]
    <3>1. Saves(nr)
      BY <2>1, <2>2, Zenon DEF HookSaves, Saves
    <3>2. c.arg = saved
      BY <1>6, <3>1 DEF Ctx
    <3>3. desc[nr].nargs \in 0 .. 6
      BY <2>1 DEF Desc
    <3>4. \A i \in 0 .. desc[nr].nargs - 1 : i \in 0 .. 5 /\ i < desc[nr].nargs
      BY <3>3, SMT
    <3>5. QED BY <3>2, <3>4, Zenon
  <2>3. c.nr = nr
    BY <1>6 DEF Ctx
  <2>4. SeesCall(c, k)
    BY <1>4, <1>6, <2>2, <2>3, Zenon DEF SeesCall
  <2>5. QED BY <1>1, <1>2, <1>3, <2>4, ThreadStep, Zenon
<1>7. QED BY <1>5, <1>6

\* A thread in a call: the program has started.
LEMMA InCall ==
    ASSUME DispatchInv, NEW t \in Threads, call[t].nr # NoNr PROVE started
BY DEF DispatchInv, ThreadInv

LEMMA KernelStep ==
    ASSUME DispatchInv, NEW t \in Threads, Kernel(t) PROVE DispatchInv'
<1>1. PICK k : call' = [call EXCEPT ![t] = Call(call[t].nr, call[t].arg, call[t].mem, k, TRUE)]
  BY Zenon DEF Kernel
<1>2. call[t].nr # NoNr /\ UNCHANGED <<desc, started, ctx>>
  BY DEF Kernel
<1>3. DOMAIN ctx' = Threads
  BY <1>2 DEF DispatchInv, ThreadInv
<1>4. SeesCall(ctx[t], call[t])
  BY SeesCallIff DEF DispatchInv
<1> DEFINE after == Call(call[t].nr, call[t].arg, call[t].mem, k, TRUE)
<1>5. after.nr = call[t].nr /\ after.arg = call[t].arg
  BY DEF Call
<1>6. SeesCall(ctx[t], after)
  BY <1>4, <1>5, Zenon DEF SeesCall
<1>7. QED BY <1>1, <1>2, <1>3, <1>6, InCall, ThreadStep

LEMMA ExitStep ==
    ASSUME DispatchInv, NEW t \in Threads, sysexit_save(t) PROVE DispatchInv'
<1>1. call' = [call EXCEPT ![t] = NoCall] /\ UNCHANGED <<desc, started>>
  BY DEF sysexit_save
<1>2. DOMAIN ctx' = Threads /\ \A u \in Threads \ {t} : ctx'[u] = ctx[u]
  <2> DEFINE c == Ctx(ctx[t].nr, ctx[t].arg, call[t].out.ret)
  <2>1. ctx' = ctx \/ ctx' = [ctx EXCEPT ![t] = c]
    BY DEF sysexit_save
  <2> HIDE DEF c
  <2>2. QED BY <2>1 DEF DispatchInv, ThreadInv
<1>3. SeesCall(ctx'[t], NoCall)
  BY Names DEF SeesCall, NoCall, Call
<1>4. CASE started
  BY <1>1, <1>2, <1>3, <1>4, ThreadStep
<1>5. CASE ~started
  <2>1. TableInv'
    BY <1>1 DEF DispatchInv, TableInv
  <2>2. ThreadInv'
    BY <1>1, <1>2 DEF DispatchInv, ThreadInv, NoCall, Call
  <2>3. HookSeesCall'
    BY <1>1, <1>5, <2>2, Names, Zenon DEF ThreadInv, HookSeesCall
  <2>4. QED BY <2>1, <2>2, <2>3 DEF DispatchInv
<1>6. QED BY <1>4, <1>5

LEMMA NextDispatch == DispatchInv /\ [Next]_vars => DispatchInv'
<1> SUFFICES ASSUME DispatchInv, [Next]_vars PROVE DispatchInv'
  OBVIOUS
<1>1. ASSUME UNCHANGED <<desc, ctx, call>>, started' \in {started, TRUE} PROVE DispatchInv'
  BY <1>1 DEF DispatchInv, TableInv, ThreadInv, HookSeesCall, Saves
<1>2. CASE UNCHANGED vars
  BY <1>1, <1>2 DEF vars
<1>3. CASE \E nr \in Registered : Register(nr)
  BY <1>3, RegisterStep
<1>4. CASE StartProgram
  BY <1>1, <1>4 DEF StartProgram
<1>5. ASSUME NEW t \in Threads, NEW nr \in CallsOf[t], Enter(t, nr) PROVE DispatchInv'
  BY <1>5, EnterStep
<1>6. ASSUME NEW t \in Threads, Kernel(t) PROVE DispatchInv'
  BY <1>6, KernelStep
<1>7. ASSUME NEW t \in Threads, sysexit_save(t) PROVE DispatchInv'
  BY <1>7, ExitStep
<1>8. ASSUME NEW t \in Threads, NEW d \in Cell, NEW s \in Cell, Move(t, d, s) PROVE DispatchInv'
  BY <1>1, <1>8 DEF Move
<1>9. QED BY <1>2, <1>3, <1>4, <1>5, <1>6, <1>7, <1>8 DEF Next

(* For any threads, calls and descriptors registered before the program starts,  *)
(* the hook or the default handling that sysexit_save runs at the end of a call  *)
(* finds its number and all its arguments in the context of its thread.          *)
THEOREM CallsSeen == Spec => []HookSeesCall
<1>1. DispatchInv => HookSeesCall
  BY DEF DispatchInv
<1>2. QED BY InitDispatch, NextDispatch, <1>1, PTL DEF Spec

-----------------------------------------------------------------------------
(* Which cells a call writes, and which tags its end clears *)

\* What a call that Expected describes may come to.
Outcome(nr, a, m, k) ==
    /\ a \in ArgsOf(nr) /\ m \in Mems(nr) /\ ExpectedArgs(nr, a, m)
    /\ k \in Answers(nr, a, m) /\ ExpectedAnswer(nr, m, k)

\* What a hook of a call with n arguments finds: the arguments, the result, the memory.
Sees(n, c, a, m, k) ==
    /\ \A i \in 0 .. n - 1 : c.arg[i] = a[i]
    /\ c.ret = k.ret /\ c.mem = m /\ c.out = k

HasArgs(d) == d.save_args \/ d.retval_args

\* What sysexit_save clears for a row.
Cleared(d, c) ==
    IF ~HasArgs(d) THEN {}
    ELSE IF d.post # NoHook THEN Clears(d.post, c) ELSE DefaultClears(d, c)

Exact(nr) ==
    \A a, m, k, c :
        /\ Outcome(nr, a, m, k)
        /\ HasArgs(syscall_desc[nr]) => Sees(syscall_desc[nr].nargs, c, a, m, k)
        => Cleared(syscall_desc[nr], c) = k.wrote

-----------------------------------------------------------------------------
(* Arguments and answers *)

LEMMA ArgIn ==
    ASSUME NEW nr, NEW a \in ArgsOf(nr), NEW v0, NEW v1, NEW v2, NEW v3, NEW v4, NEW v5,
           Params[nr] = <<v0, v1, v2, v3, v4, v5>>
    PROVE  a[0] \in v0 /\ a[1] \in v1 /\ a[2] \in v2 /\ a[3] \in v3 /\ a[4] \in v4 /\ a[5] \in v5
<1> DEFINE v == <<v0, v1, v2, v3, v4, v5>>
<1>1. v = Params[nr] /\ v[1] = v0 /\ v[2] = v1 /\ v[3] = v2 /\ v[4] = v3 /\ v[5] = v4 /\ v[6] = v5
  OBVIOUS
<1> HIDE DEF v
<1>2. PICK x \in v[1] \X v[2] \X v[3] \X v[4] \X v[5] \X v[6] : a = [i \in 0 .. 5 |-> x[i + 1]]
  BY <1>1 DEF ArgsOf
<1>3. /\ x[1] \in v[1] /\ x[2] \in v[2] /\ x[3] \in v[3]
      /\ x[4] \in v[4] /\ x[5] \in v[5] /\ x[6] \in v[6]
  BY <1>2
<1>4. /\ a[0] = x[1] /\ a[1] = x[2] /\ a[2] = x[3]
      /\ a[3] = x[4] /\ a[4] = x[5] /\ a[5] = x[6]
  BY <1>2, SMT
<1>5. QED BY <1>1, <1>3, <1>4

LEMMA AnswerIn ==
    ASSUME NEW nr, NEW a, NEW m, NEW k \in Answers(nr, a, m), nr # "nanosleep"
    PROVE  k \in Success(nr, a, m) \/ k = Answer(Minus1, {})
BY DEF Answers, Failure

\* A hook that is one of the table: it is enough to show what the hook itself clears.
LEMMA HookExact ==
    ASSUME NEW nr, NEW n \in 0 .. 6, NEW h, syscall_desc[nr] = Hook(n, h), h # NoHook,
           \A a, m, k, c : Outcome(nr, a, m, k) /\ Sees(n, c, a, m, k) => Clears(h, c) = k.wrote
    PROVE  Exact(nr)
<1>1. Hook(n, h).nargs = n /\ Hook(n, h).save_args = TRUE /\ Hook(n, h).post = h
  BY DEF Hook, Row
<1>2. \A c : Cleared(Hook(n, h), c) = Clears(h, c)
  BY <1>1, Zenon DEF Cleared, HasArgs
<1>3. ASSUME NEW a, NEW m, NEW k, NEW c, Outcome(nr, a, m, k),
             HasArgs(syscall_desc[nr]) => Sees(syscall_desc[nr].nargs, c, a, m, k)
      PROVE  Cleared(syscall_desc[nr], c) = k.wrote
  <2>1. Sees(n, c, a, m, k)
    BY <1>1, <1>3, Zenon DEF HasArgs
  <2>2. QED BY <1>2, <1>3, <2>1, Zenon
<1>4. QED BY <1>3, Zenon DEF Exact

\* A transfer of as many units as the call returns.
LEMMA Transfer ==
    ASSUME NEW p \in Nat, NEW r \in 0 .. MaxLen, NEW unit \in Nat, NEW c, c.ret = r
    PROVE  ClearRet(c, p, unit) = Cells(p, unit * r)
<1>1. Long(r) = r
  BY SyscallsAssumption DEF Long
<1>2. CASE r = 0
  <2>1. ClearRet(c, p, unit) = {}
    BY <1>1, <1>2 DEF ClearRet
  <2>2. unit * r = 0
    BY <1>2, SMT
  <2>3. Cells(p, 0) = {}
    BY SMT DEF Cells
  <2>4. QED BY <2>1, <2>2, <2>3
<1>3. CASE r > 0
  BY <1>1, <1>3 DEF ClearRet, tagmap_clrn
<1>4. QED BY <1>2, <1>3

\* A call that failed.
LEMMA Failed ==
    /\ Long(Minus1) = -1
    /\ \A c, p, unit : c.ret = Minus1 => ClearRet(c, p, unit) = {}
BY SyscallsAssumption DEF Long, Minus1, ClearRet

LEMMA PtrNat == \A p \in Ptrs : p \in Nat \ {0}
BY SyscallsAssumption

LEMMA LongNat == \A n \in 0 .. MaxLen : \A r \in 0 .. n : Long(r) = r /\ r \in Nat
BY SyscallsAssumption DEF Long

\* What is cleared after a transfer of units, and of single cells.
LEMMA UnitsExact ==
    ASSUME NEW p \in Nat, NEW n \in 0 .. MaxLen, NEW unit \in Nat,
           NEW k, NEW c, c.ret = k.ret,
           (\E r \in 0 .. n : k = Answer(r, Cells(p, unit * r))) \/ k = Answer(Minus1, {})
    PROVE  ClearRet(c, p, unit) = k.wrote /\ (p = Null => k.wrote = {})
<1>1. CASE k = Answer(Minus1, {})
  BY <1>1, Failed DEF Answer
<1>2. ASSUME NEW r \in 0 .. n, k = Answer(r, Cells(p, unit * r))
      PROVE  ClearRet(c, p, unit) = k.wrote /\ (p = Null => k.wrote = {})
  <2>1. r \in 0 .. MaxLen /\ p \in Nat
    BY SyscallsAssumption DEF Null
  <2>2. k.ret = r /\ k.wrote = Cells(p, unit * r)
    BY <1>2 DEF Answer
  <2>3. ClearRet(c, p, unit) = Cells(p, unit * r)
    BY <2>1, <2>2, Transfer
  <2>4. p = Null => Cells(p, unit * r) = {}
    BY DEF Cells
  <2>5. QED BY <2>2, <2>3, <2>4
<1>3. QED BY <1>1, <1>2

LEMMA OneCell == \A q \in Nat \ {0} : Cells(q, 1) = {q} \cap Cell
BY SyscallsAssumption DEF Cells, Cell, Null

LEMMA LengthOf == \A p : \A l \in Lengths(p) : l \in Nat
BY SyscallsAssumption DEF Lengths

\* A length that fits in what the program left.
LEMMA OneCellLeft ==
    \A nr \in {"accept", "recvfrom"} : \A m : m \in Mems(nr) =>
        \A l \in Nat : l <= m.len => Least(m.len, l) = l
<1>1. \A nr \in {"accept", "recvfrom"} : \A m : m \in Mems(nr) => m.len = 1
  BY SMT DEF Mems, Mem
<1>2. QED BY <1>1 DEF Least

LEMMA TransferExact ==
    ASSUME NEW p \in Ptrs \cup {Null}, NEW n \in 0 .. MaxLen, NEW k, NEW c, c.ret = k.ret,
           k \in Transfers(p, n) \/ k = Answer(Minus1, {})
    PROVE  ClearRet(c, p, 1) = k.wrote /\ (p = Null => k.wrote = {})
<1>1. CASE k = Answer(Minus1, {})
  BY <1>1, Failed DEF Answer
<1>2. CASE k \in Transfers(p, n)
  <2>1. PICK r \in 0 .. n : k = Answer(r, Cells(p, r))
    BY <1>2 DEF Transfers
  <2>2. r \in 0 .. MaxLen /\ p \in Nat /\ 1 * r = r
    BY <2>1, SyscallsAssumption DEF Null
  <2>3. k.ret = r /\ k.wrote = Cells(p, r)
    BY <2>1 DEF Answer
  <2>4. ClearRet(c, p, 1) = Cells(p, r)
    BY <2>2, <2>3, Transfer
  <2>5. p = Null => Cells(p, r) = {}
    BY DEF Cells
  <2>6. QED BY <2>3, <2>4, <2>5
<1>3. QED BY <1>1, <1>2

-----------------------------------------------------------------------------
(* The rows of the calls *)

LEMMA RowAt ==
    /\ \A nr \in DOMAIN Rows1 : syscall_desc[nr] = Rows1[nr]
    /\ \A nr \in DOMAIN Rows2 : syscall_desc[nr] = Rows2[nr]
    /\ \A nr \in DOMAIN Rows3 : syscall_desc[nr] = Rows3[nr]
    /\ \A nr \in DOMAIN Rows4 : syscall_desc[nr] = Rows4[nr]
    /\ \A nr \in DOMAIN Rows5 : syscall_desc[nr] = Rows5[nr]
<1>1. /\ DOMAIN Rows1 \cap UNION {DOMAIN Rows2, DOMAIN Rows3, DOMAIN Rows4, DOMAIN Rows5} = {}
      /\ DOMAIN Rows2 \cap UNION {DOMAIN Rows3, DOMAIN Rows4, DOMAIN Rows5} = {}
      /\ DOMAIN Rows3 \cap UNION {DOMAIN Rows4, DOMAIN Rows5} = {}
      /\ DOMAIN Rows4 \cap DOMAIN Rows5 = {}
  BY Domain1, Domain2, Domain3, Domain4, Domain5, SMT
<1>2. QED BY <1>1, SMT DEF Known, syscall_desc

-----------------------------------------------------------------------------
(* Calls that return how much they transferred *)


LEMMA ReadExact == Exact("read")
<1>1. /\ syscall_desc["read"] = Hook(3, "post_read_hook")
      /\ Params["read"] = <<Z, B, N, Z, Z, Z>>
  BY RowAt, Domain1, Zenon DEF Rows1, Params
<1>2. ASSUME NEW a, NEW m, NEW k, NEW c, Outcome("read", a, m, k), Sees(3, c, a, m, k)
      PROVE  Clears("post_read_hook", c) = k.wrote
  <2>1. a[1] \in B /\ a[2] \in N
    BY <1>1, <1>2, ArgIn, Zenon DEF Outcome
  <2>2. k \in Transfers(a[1], a[2]) \/ k = Answer(Minus1, {})
    BY <1>2, SMT DEF Outcome, Answers, Success, Failure
  <2>3. c.ret = k.ret /\ c.arg[1] = a[1] /\ c.arg[2] = a[2]
    BY <1>2, SMT DEF Sees
  <2>4. post_read_hook(c) = k.wrote
    BY <2>1, <2>2, <2>3, TransferExact DEF post_read_hook, B, N
  <2>5. QED BY <2>4, Zenon DEF Clears
<1>3. QED BY <1>1, <1>2, Arities, HookExact, Zenon DEF NoHook

LEMMA GetdentsExact == Exact("getdents")
<1>1. /\ syscall_desc["getdents"] = Hook(3, "post_getdents_hook")
      /\ Params["getdents"] = <<Z, B, N, Z, Z, Z>>
  BY RowAt, Domain2, Zenon DEF Rows2, Params
<1>2. ASSUME NEW a, NEW m, NEW k, NEW c, Outcome("getdents", a, m, k), Sees(3, c, a, m, k)
      PROVE  Clears("post_getdents_hook", c) = k.wrote
  <2>1. a[1] \in B /\ a[2] \in N
    BY <1>1, <1>2, ArgIn, Zenon DEF Outcome
  <2>2. k \in Transfers(a[1], a[2]) \/ k = Answer(Minus1, {})
    BY <1>2, SMT DEF Outcome, Answers, Success, Failure
  <2>3. c.ret = k.ret /\ c.arg[1] = a[1] /\ c.arg[2] = a[2]
    BY <1>2, SMT DEF Sees
  <2>4. post_getdents_hook(c) = k.wrote
    BY <2>1, <2>2, <2>3, TransferExact DEF post_getdents_hook, B, N
  <2>5. QED BY <2>4, Zenon DEF Clears
<1>3. QED BY <1>1, <1>2, Arities, HookExact, Zenon DEF NoHook

LEMMA LookupDcookieExact == Exact("lookup_dcookie")
<1>1. /\ syscall_desc["lookup_dcookie"] = Hook(3, "post_lookup_dcookie_hook")
      /\ Params["lookup_dcookie"] = <<Z, B, N, Z, Z, Z>>
  BY RowAt, Domain3, Zenon DEF Rows3, Params
<1>2. ASSUME NEW a, NEW m, NEW k, NEW c, Outcome("lookup_dcookie", a, m, k), Sees(3, c, a, m, k)
      PROVE  Clears("post_lookup_dcookie_hook", c) = k.wrote
  <2>1. a[1] \in B /\ a[2] \in N
    BY <1>1, <1>2, ArgIn, Zenon DEF Outcome
  <2>2. k \in Transfers(a[1], a[2]) \/ k = Answer(Minus1, {})
    BY <1>2, SMT DEF Outcome, Answers, Success, Failure
  <2>3. c.ret = k.ret /\ c.arg[1] = a[1] /\ c.arg[2] = a[2]
    BY <1>2, SMT DEF Sees
  <2>4. post_lookup_dcookie_hook(c) = k.wrote
    BY <2>1, <2>2, <2>3, TransferExact DEF post_lookup_dcookie_hook, B, N
  <2>5. QED BY <2>4, Zenon DEF Clears
<1>3. QED BY <1>1, <1>2, Arities, HookExact, Zenon DEF NoHook

LEMMA ModifyLdtExact == Exact("modify_ldt")
<1>1. /\ syscall_desc["modify_ldt"] = Hook(3, "post_modify_ldt_hook")
      /\ Params["modify_ldt"] = <<Z, B, N, Z, Z, Z>>
  BY RowAt, Domain3, Zenon DEF Rows3, Params
<1>2. ASSUME NEW a, NEW m, NEW k, NEW c, Outcome("modify_ldt", a, m, k), Sees(3, c, a, m, k)
      PROVE  Clears("post_modify_ldt_hook", c) = k.wrote
  <2>1. a[1] \in B /\ a[2] \in N
    BY <1>1, <1>2, ArgIn, Zenon DEF Outcome
  <2>2. k \in Transfers(a[1], a[2]) \/ k = Answer(Minus1, {})
    BY <1>2, SMT DEF Outcome, Answers, Success, Failure
  <2>3. c.ret = k.ret /\ c.arg[1] = a[1] /\ c.arg[2] = a[2]
    BY <1>2, SMT DEF Sees
  <2>4. post_modify_ldt_hook(c) = k.wrote
    BY <2>1, <2>2, <2>3, TransferExact DEF post_modify_ldt_hook, B, N
  <2>5. QED BY <2>4, Zenon DEF Clears
<1>3. QED BY <1>1, <1>2, Arities, HookExact, Zenon DEF NoHook

LEMMA ReadlinkatExact == Exact("readlinkat")
<1>1. /\ syscall_desc["readlinkat"] = Hook(4, "post_readlinkat_hook")
      /\ Params["readlinkat"] = <<Z, Z, B, N, Z, Z>>
  BY RowAt, Domain4, Zenon DEF Rows4, Params
<1>2. ASSUME NEW a, NEW m, NEW k, NEW c, Outcome("readlinkat", a, m, k), Sees(4, c, a, m, k)
      PROVE  Clears("post_readlinkat_hook", c) = k.wrote
  <2>1. a[2] \in B /\ a[3] \in N
    BY <1>1, <1>2, ArgIn, Zenon DEF Outcome
  <2>2. k \in Transfers(a[2], a[3]) \/ k = Answer(Minus1, {})
    BY <1>2, SMT DEF Outcome, Answers, Success, Failure
  <2>3. c.ret = k.ret /\ c.arg[2] = a[2] /\ c.arg[3] = a[3]
    BY <1>2, SMT DEF Sees
  <2>4. post_readlinkat_hook(c) = k.wrote
    BY <2>1, <2>2, <2>3, TransferExact DEF post_readlinkat_hook, B, N
  <2>5. QED BY <2>4, Zenon DEF Clears
<1>3. QED BY <1>1, <1>2, Arities, HookExact, Zenon DEF NoHook

LEMMA GetcwdExact == Exact("getcwd")
<1>1. /\ syscall_desc["getcwd"] = Hook(2, "post_getcwd_hook")
      /\ Params["getcwd"] = <<B, N, Z, Z, Z, Z>>
  BY RowAt, Domain2, Zenon DEF Rows2, Params
<1>2. ASSUME NEW a, NEW m, NEW k, NEW c, Outcome("getcwd", a, m, k), Sees(2, c, a, m, k)
      PROVE  Clears("post_getcwd_hook", c) = k.wrote
  <2>1. a[0] \in B /\ a[1] \in N
    BY <1>1, <1>2, ArgIn, Zenon DEF Outcome
  <2>2. k \in Transfers(a[0], a[1]) \/ k = Answer(Minus1, {})
    BY <1>2, SMT DEF Outcome, Answers, Success, Failure
  <2>3. c.ret = k.ret /\ c.arg[0] = a[0] /\ c.arg[1] = a[1]
    BY <1>2, SMT DEF Sees
  <2>4. post_getcwd_hook(c) = k.wrote
    BY <2>1, <2>2, <2>3, TransferExact DEF post_getcwd_hook, B, N
  <2>5. QED BY <2>4, Zenon DEF Clears
<1>3. QED BY <1>1, <1>2, Arities, HookExact, Zenon DEF NoHook

LEMMA GetgroupsExact == Exact("getgroups")
<1>1. /\ syscall_desc["getgroups"] = Hook(2, "post_getgroups_hook")
      /\ Params["getgroups"] = <<N, P, Z, Z, Z, Z>>
  BY RowAt, Domain2, Zenon DEF Rows2, Params
<1>2. ASSUME NEW a, NEW m, NEW k, NEW c, Outcome("getgroups", a, m, k), Sees(2, c, a, m, k)
      PROVE  Clears("post_getgroups_hook", c) = k.wrote
  <2>1. a[0] \in N /\ a[1] \in P
    BY <1>1, <1>2, ArgIn, Zenon DEF Outcome
  <2>2. k \in Sized(a[1], a[0]) \/ k = Answer(Minus1, {})
    BY <1>2, SMT DEF Outcome, Answers, Success, Failure
  <2>3. c.ret = k.ret /\ c.arg[0] = a[0] /\ c.arg[1] = a[1]
    BY <1>2, SMT DEF Sees
  <2>4. a[0] > 0
    BY <1>2, SMT DEF Outcome, ExpectedArgs, ExpectedAnswer
  <2>5. post_getgroups_hook(c) = k.wrote
    <3>1. k \in Transfers(a[1], a[0]) \/ k = Answer(Minus1, {})
      BY <2>1, <2>2, <2>4 DEF Sized, N
    <3>2. ClearRet(c, a[1], 1) = k.wrote /\ (a[1] = Null => k.wrote = {})
      BY <2>1, <2>3, <3>1, TransferExact DEF P, N
    <3>3. QED BY <2>3, <3>2 DEF post_getgroups_hook, INT
  <2>6. QED BY <2>5, Zenon DEF Clears
<1>3. QED BY <1>1, <1>2, Arities, HookExact, Zenon DEF NoHook

LEMMA ListxattrExact == Exact("listxattr")
<1>1. /\ syscall_desc["listxattr"] = Hook(3, "post_listxattr_hook")
      /\ Params["listxattr"] = <<Z, P, N, Z, Z, Z>>
  BY RowAt, Domain3, Zenon DEF Rows3, Params
<1>2. ASSUME NEW a, NEW m, NEW k, NEW c, Outcome("listxattr", a, m, k), Sees(3, c, a, m, k)
      PROVE  Clears("post_listxattr_hook", c) = k.wrote
  <2>1. a[1] \in P /\ a[2] \in N
    BY <1>1, <1>2, ArgIn, Zenon DEF Outcome
  <2>2. k \in Sized(a[1], a[2]) \/ k = Answer(Minus1, {})
    BY <1>2, SMT DEF Outcome, Answers, Success, Failure
  <2>3. c.ret = k.ret /\ c.arg[1] = a[1] /\ c.arg[2] = a[2]
    BY <1>2, SMT DEF Sees
  <2>4. a[2] > 0
    BY <1>2, SMT DEF Outcome, ExpectedArgs, ExpectedAnswer
  <2>5. post_listxattr_hook(c) = k.wrote
    <3>1. k \in Transfers(a[1], a[2]) \/ k = Answer(Minus1, {})
      BY <2>1, <2>2, <2>4 DEF Sized, N
    <3>2. ClearRet(c, a[1], 1) = k.wrote /\ (a[1] = Null => k.wrote = {})
      BY <2>1, <2>3, <3>1, TransferExact DEF P, N
    <3>3. QED BY <2>3, <3>2 DEF post_listxattr_hook, INT
  <2>6. QED BY <2>5, Zenon DEF Clears
<1>3. QED BY <1>1, <1>2, Arities, HookExact, Zenon DEF NoHook

LEMMA GetxattrExact == Exact("getxattr")
<1>1. /\ syscall_desc["getxattr"] = Hook(4, "post_getxattr_hook")
      /\ Params["getxattr"] = <<Z, Z, P, N, Z, Z>>
  BY RowAt, Domain3, Zenon DEF Rows3, Params
<1>2. ASSUME NEW a, NEW m, NEW k, NEW c, Outcome("getxattr", a, m, k), Sees(4, c, a, m, k)
      PROVE  Clears("post_getxattr_hook", c) = k.wrote
  <2>1. a[2] \in P /\ a[3] \in N
    BY <1>1, <1>2, ArgIn, Zenon DEF Outcome
  <2>2. k \in Sized(a[2], a[3]) \/ k = Answer(Minus1, {})
    BY <1>2, SMT DEF Outcome, Answers, Success, Failure
  <2>3. c.ret = k.ret /\ c.arg[2] = a[2] /\ c.arg[3] = a[3]
    BY <1>2, SMT DEF Sees
  <2>4. a[3] > 0
    BY <1>2, SMT DEF Outcome, ExpectedArgs, ExpectedAnswer
  <2>5. post_getxattr_hook(c) = k.wrote
    <3>1. k \in Transfers(a[2], a[3]) \/ k = Answer(Minus1, {})
      BY <2>1, <2>2, <2>4 DEF Sized, N
    <3>2. ClearRet(c, a[2], 1) = k.wrote /\ (a[2] = Null => k.wrote = {})
      BY <2>1, <2>3, <3>1, TransferExact DEF P, N
    <3>3. QED BY <2>3, <3>2 DEF post_getxattr_hook, INT
  <2>6. QED BY <2>5, Zenon DEF Clears
<1>3. QED BY <1>1, <1>2, Arities, HookExact, Zenon DEF NoHook


LEMMA SyslogExact == Exact("syslog")
<1>1. /\ syscall_desc["syslog"] = Hook(3, "post_syslog_hook")
      /\ Params["syslog"] = <<{2, 10}, B, N, Z, Z, Z>>
  BY RowAt, Domain2, Zenon DEF Rows2, Params
<1>2. ASSUME NEW a, NEW m, NEW k, NEW c, Outcome("syslog", a, m, k), Sees(3, c, a, m, k)
      PROVE  Clears("post_syslog_hook", c) = k.wrote
  <2>1. a[0] \in {2, 10} /\ a[1] \in B /\ a[2] \in N
    BY <1>1, <1>2, ArgIn DEF Outcome
  <2>2. k \in (IF a[0] = 2 THEN Transfers(a[1], a[2]) ELSE {Answer(r, {}) : r \in N})
            \/ k = Answer(Minus1, {})
    <3>1. Success("syslog", a, m) = (IF a[0] = 2 THEN Transfers(a[1], a[2]) ELSE {Answer(r, {})
              : r \in N})
      BY SMTT(30) DEF Success
    <3>2. QED BY <1>2, <3>1, SMT DEF Outcome, Answers, Failure
  <2>3. c.ret = k.ret /\ c.arg[0] = a[0] /\ c.arg[1] = a[1] /\ c.arg[2] = a[2]
    BY <1>2, SMT DEF Sees
  <2>4. post_syslog_hook(c) = k.wrote
    <3>1. CASE a[0] = 2
      BY <2>1, <2>2, <2>3, <3>1, TransferExact DEF post_syslog_hook, B, N
    <3>2. CASE a[0] = 10
      BY <2>2, <2>3, <3>2 DEF post_syslog_hook, Answer
    <3>3. QED BY <2>1, <3>1, <3>2
  <2>5. QED BY <2>4, Zenon DEF Clears
<1>3. QED BY <1>1, <1>2, Arities, HookExact, Zenon DEF NoHook

-----------------------------------------------------------------------------
(* Calls that return how many structures they wrote, or whose messages carry more *)

LEMMA EpollWaitExact == Exact("epoll_wait")
<1>1. /\ syscall_desc["epoll_wait"] = Hook(4, "post_epoll_wait_hook")
      /\ Params["epoll_wait"] = <<Z, B, N, Z, Z, Z>>
  BY RowAt, Domain4, Zenon DEF Rows4, Params
<1>2. ASSUME NEW a, NEW m, NEW k, NEW c, Outcome("epoll_wait", a, m, k), Sees(4, c, a, m, k)
      PROVE  Clears("post_epoll_wait_hook", c) = k.wrote
  <2>1. a[1] \in B /\ a[2] \in N
    BY <1>1, <1>2, ArgIn, Zenon DEF Outcome
  <2>2. (\E r \in 0 .. a[2] : k = Answer(r, Cells(a[1], STRUCT * r))) \/ k = Answer(Minus1, {})
    BY <1>2, SMT DEF Outcome, Answers, Success, Failure
  <2>3. c.ret = k.ret /\ c.arg[1] = a[1] /\ c.arg[2] = a[2]
    BY <1>2, SMT DEF Sees
  <2>4. post_epoll_wait_hook(c) = k.wrote
    BY <2>1, <2>2, <2>3, PtrNat, UnitsExact DEF post_epoll_wait_hook, B, N, STRUCT
  <2>5. QED BY <2>4, Zenon DEF Clears
<1>3. QED BY <1>1, <1>2, Arities, HookExact, Zenon DEF NoHook

LEMMA IoGeteventsExact == Exact("io_getevents")
<1>1. /\ syscall_desc["io_getevents"] = Hook(5, "post_io_getevents_hook")
      /\ Params["io_getevents"] = <<Z, Z, N, B, P, Z>>
  BY RowAt, Domain3, Zenon DEF Rows3, Params
<1>2. ASSUME NEW a, NEW m, NEW k, NEW c, Outcome("io_getevents", a, m, k), Sees(5, c, a, m, k)
      PROVE  Clears("post_io_getevents_hook", c) = k.wrote
  <2>1. a[2] \in N /\ a[3] \in B /\ a[4] \in P
    BY <1>1, <1>2, ArgIn, Zenon DEF Outcome
  <2>2. (\E r \in 0 .. a[2] : k = Answer(r, Cells(a[3], STRUCT * r))) \/ k = Answer(Minus1, {})
    BY <1>2, SMT DEF Outcome, Answers, Success, Failure
  <2>3. c.ret = k.ret /\ c.arg[2] = a[2] /\ c.arg[3] = a[3] /\ c.arg[4] = a[4]
    BY <1>2, SMT DEF Sees
  <2>4. a[4] = Null
    BY <1>2, SMT DEF Outcome, ExpectedArgs, ExpectedAnswer
  <2>5. post_io_getevents_hook(c) = k.wrote
    <3>1. ClearRet(c, a[3], STRUCT) = k.wrote
      BY <2>1, <2>2, <2>3, PtrNat, UnitsExact DEF B, N, STRUCT
    <3>2. tagmap_clrn(Null, STRUCT) = {}
      BY DEF tagmap_clrn, Cells
    <3>3. QED BY <2>3, <2>4, <3>1, <3>2 DEF post_io_getevents_hook, ClearRet
  <2>6. QED BY <2>5, Zenon DEF Clears
<1>3. QED BY <1>1, <1>2, Arities, HookExact, Zenon DEF NoHook

LEMMA PollExact == Exact("poll")
<1>1. /\ syscall_desc["poll"] = Hook(3, "post_poll_hook")
      /\ Params["poll"] = <<B, N, Z, Z, Z, Z>>
  BY RowAt, Domain1, Zenon DEF Rows1, Params
<1>2. ASSUME NEW a, NEW m, NEW k, NEW c, Outcome("poll", a, m, k), Sees(3, c, a, m, k)
      PROVE  Clears("post_poll_hook", c) = k.wrote
  <2>1. a[0] \in B /\ a[1] \in N
    BY <1>1, <1>2, ArgIn, Zenon DEF Outcome
  <2>2. (\E r \in 0 .. a[1] : k = Answer(r, {a[0] + 2 * i + 1 : i \in 0 .. a[1] - 1} \cap Cell))
             \/ k = Answer(Minus1, {})
    <3>1. Success("poll", a, m) = {Answer(r, {a[0] + 2 * i + 1 : i \in 0 .. a[1] - 1} \cap Cell)
              : r \in 0 .. a[1]}
      BY SMTT(30) DEF Success
    <3>2. k \in Success("poll", a, m) \/ k = Answer(Minus1, {})
      BY <1>2, AnswerIn, SMT DEF Outcome
    <3>3. QED BY <3>1, <3>2, Zenon
  <2>3. c.ret = k.ret /\ c.arg[0] = a[0] /\ c.arg[1] = a[1]
    BY <1>2, SMT DEF Sees
  <2>4. k.ret # 0
    BY <1>2, SMT DEF Outcome, ExpectedArgs, ExpectedAnswer
  <2>5. post_poll_hook(c) = k.wrote
    <3>1. CASE k = Answer(Minus1, {})
      BY <2>3, <3>1, Failed DEF post_poll_hook, Answer
    <3>2. ASSUME NEW r \in 0 .. a[1],
                 k = Answer(r, {a[0] + 2 * i + 1 : i \in 0 .. a[1] - 1} \cap Cell)
          PROVE  post_poll_hook(c) = k.wrote
      <4>1. k.ret = r /\ k.wrote = {a[0] + 2 * i + 1 : i \in 0 .. a[1] - 1} \cap Cell
        BY <3>2 DEF Answer
      <4>2. ~(Long(c.ret) <= 0)
        BY <2>1, <2>3, <2>4, <4>1, LongNat, SMT DEF N
      <4>3. \A i \in 0 .. a[1] - 1 : tagmap_clrn(a[0] + 2 * i + 1, 1) = {a[0] + 2 * i + 1} \cap Cell
        <5>1. a[0] \in Nat /\ a[1] \in Nat
          BY <2>1, PtrNat, LongNat DEF B, N
        <5>2. \A i \in 0 .. a[1] - 1 : a[0] + 2 * i + 1 \in Nat \ {0}
          BY <5>1
        <5>3. QED BY <5>2, OneCell DEF tagmap_clrn
      <4>4. post_poll_hook(c) = UNION {{a[0] + 2 * i + 1} \cap Cell : i \in 0 .. a[1] - 1}
        BY <2>3, <4>2, <4>3 DEF post_poll_hook
      <4>5. QED BY <4>1, <4>4
    <3>3. QED BY <2>2, <3>1, <3>2
  <2>6. QED BY <2>5, Zenon DEF Clears
<1>3. QED BY <1>1, <1>2, Arities, HookExact, Zenon DEF NoHook

LEMMA MqTimedreceiveExact == Exact("mq_timedreceive")
<1>1. /\ syscall_desc["mq_timedreceive"] = Hook(5, "post_mq_timedreceive_hook")
      /\ Params["mq_timedreceive"] = <<Z, B, N, P, Z, Z>>
  BY RowAt, Domain4, Zenon DEF Rows4, Params
<1>2. ASSUME NEW a, NEW m, NEW k, NEW c, Outcome("mq_timedreceive", a, m, k), Sees(5, c, a, m, k)
      PROVE  Clears("post_mq_timedreceive_hook", c) = k.wrote
  <2>1. a[1] \in B /\ a[2] \in N /\ a[3] \in P
    BY <1>1, <1>2, ArgIn, Zenon DEF Outcome
  <2>2. (\E r \in 0 .. a[2] : k = Answer(r, Cells(a[1], r) \cup Cells(a[3], INT)))
             \/ k = Answer(Minus1, {})
    BY <1>2, SMT DEF Outcome, Answers, Success, Failure
  <2>3. c.ret = k.ret /\ c.arg[1] = a[1] /\ c.arg[2] = a[2] /\ c.arg[3] = a[3]
    BY <1>2, SMT DEF Sees
  <2>4. k.ret # 0 /\ a[3] = Null
    BY <1>2, SMT DEF Outcome, ExpectedArgs, ExpectedAnswer
  <2>5. post_mq_timedreceive_hook(c) = k.wrote
    <3>1. CASE k = Answer(Minus1, {})
      BY <2>3, <3>1, Failed DEF post_mq_timedreceive_hook, Answer
    <3>2. ASSUME NEW r \in 0 .. a[2], k = Answer(r, Cells(a[1], r) \cup Cells(a[3], INT))
          PROVE  post_mq_timedreceive_hook(c) = k.wrote
      <4>1. k.ret = r /\ k.wrote = Cells(a[1], r) \cup Cells(a[3], INT)
        BY <3>2 DEF Answer
      <4>2. ~(Long(c.ret) <= 0)
        BY <2>1, <2>3, <2>4, <4>1, LongNat, SMT DEF N
      <4>3. Cells(a[3], INT) = {} /\ Cells(a[3], LONG) = {}
        BY <2>4 DEF Cells
      <4>4. QED BY <2>3, <4>1, <4>2, <4>3 DEF post_mq_timedreceive_hook, tagmap_clrn
    <3>3. QED BY <2>2, <3>1, <3>2
  <2>6. QED BY <2>5, Zenon DEF Clears
<1>3. QED BY <1>1, <1>2, Arities, HookExact, Zenon DEF NoHook

LEMMA MsgrcvExact == Exact("msgrcv")
<1>1. /\ syscall_desc["msgrcv"] = Hook(5, "post_msgrcv_hook")
      /\ Params["msgrcv"] = <<Z, B, N, Z, Z, Z>>
  BY RowAt, Domain1, Zenon DEF Rows1, Params
<1>2. ASSUME NEW a, NEW m, NEW k, NEW c, Outcome("msgrcv", a, m, k), Sees(5, c, a, m, k)
      PROVE  Clears("post_msgrcv_hook", c) = k.wrote
  <2>1. a[1] \in B /\ a[2] \in N
    BY <1>1, <1>2, ArgIn, Zenon DEF Outcome
  <2>2. (\E r \in 0 .. a[2] : k = Answer(r, Cells(a[1], LONG + r))) \/ k = Answer(Minus1, {})
    BY <1>2, SMT DEF Outcome, Answers, Success, Failure
  <2>3. c.ret = k.ret /\ c.arg[1] = a[1] /\ c.arg[2] = a[2]
    BY <1>2, SMT DEF Sees
  <2>4. k.ret # 0
    BY <1>2, SMT DEF Outcome, ExpectedArgs, ExpectedAnswer
  <2>5. post_msgrcv_hook(c) = k.wrote
    <3>1. CASE k = Answer(Minus1, {})
      BY <2>3, <3>1, Failed DEF post_msgrcv_hook, Answer
    <3>2. ASSUME NEW r \in 0 .. a[2], k = Answer(r, Cells(a[1], LONG + r))
          PROVE  post_msgrcv_hook(c) = k.wrote
      <4>1. k.ret = r /\ k.wrote = Cells(a[1], LONG + r)
        BY <3>2 DEF Answer
      <4>2. ~(Long(c.ret) <= 0) /\ LONG + r = r + LONG
        BY <2>1, <2>3, <2>4, <4>1, LongNat, SMT DEF N, LONG
      <4>3. QED BY <2>3, <4>1, <4>2 DEF post_msgrcv_hook, tagmap_clrn
    <3>3. QED BY <2>2, <3>1, <3>2
  <2>6. QED BY <2>5, Zenon DEF Clears
<1>3. QED BY <1>1, <1>2, Arities, HookExact, Zenon DEF NoHook

-----------------------------------------------------------------------------
(* Calls that fill structures *)

LEMMA RtSigpendingExact == Exact("rt_sigpending")
<1>1. /\ syscall_desc["rt_sigpending"] = Hook(2, "post_rt_sigpending_hook")
      /\ Params["rt_sigpending"] = <<B, N, Z, Z, Z, Z>>
  BY RowAt, Domain2, Zenon DEF Rows2, Params
<1>2. ASSUME NEW a, NEW m, NEW k, NEW c, Outcome("rt_sigpending", a, m, k), Sees(2, c, a, m, k)
      PROVE  Clears("post_rt_sigpending_hook", c) = k.wrote
  <2>1. a[0] \in B /\ a[1] \in N
    BY <1>1, <1>2, ArgIn, Zenon DEF Outcome
  <2>2. k = Answer(0, Cells(a[0], a[1])) \/ k = Answer(Minus1, {})
    BY <1>2, SMT DEF Outcome, Answers, Success, Failure
  <2>3. c.ret = k.ret /\ c.arg[0] = a[0] /\ c.arg[1] = a[1]
    BY <1>2, SMT DEF Sees
  <2>4. post_rt_sigpending_hook(c) = k.wrote
    <3>1. Long(0) = 0 /\ Answer(0, Cells(a[0], a[1])).ret = 0
              /\ Answer(0, Cells(a[0], a[1])).wrote = Cells(a[0], a[1])
      BY SyscallsAssumption DEF Long, Answer
    <3>2. CASE k = Answer(Minus1, {})
      BY <2>3, <3>2, Failed DEF post_rt_sigpending_hook, Answer
    <3>3. CASE k = Answer(0, Cells(a[0], a[1]))
      BY <2>1, <2>3, <3>1, <3>3 DEF post_rt_sigpending_hook, tagmap_clrn
    <3>4. QED BY <2>2, <3>2, <3>3
  <2>5. QED BY <2>4, Zenon DEF Clears
<1>3. QED BY <1>1, <1>2, Arities, HookExact, Zenon DEF NoHook

LEMMA MincoreExact == Exact("mincore")
<1>1. /\ syscall_desc["mincore"] = Hook(3, "post_mincore_hook")
      /\ Params["mincore"] = <<Z, N, B, Z, Z, Z>>
  BY RowAt, Domain1, Zenon DEF Rows1, Params
<1>2. ASSUME NEW a, NEW m, NEW k, NEW c, Outcome("mincore", a, m, k), Sees(3, c, a, m, k)
      PROVE  Clears("post_mincore_hook", c) = k.wrote
  <2>1. a[1] \in N /\ a[2] \in B
    BY <1>1, <1>2, ArgIn, Zenon DEF Outcome
  <2>2. k = Answer(0, Cells(a[2], Ceil(a[1], PAGE_SZ))) \/ k = Answer(Minus1, {})
    BY <1>2, SMT DEF Outcome, Answers, Success, Failure
  <2>3. c.ret = k.ret /\ c.arg[1] = a[1] /\ c.arg[2] = a[2]
    BY <1>2, SMT DEF Sees
  <2>4. post_mincore_hook(c) = k.wrote
    <3>1. Long(0) = 0 /\ Answer(0, Cells(a[2], Ceil(a[1], PAGE_SZ))).ret = 0
              /\ Answer(0, Cells(a[2], Ceil(a[1], PAGE_SZ))).wrote =
                     Cells(a[2], Ceil(a[1], PAGE_SZ))
      BY SyscallsAssumption DEF Long, Answer
    <3>2. CASE k = Answer(Minus1, {})
      BY <2>3, <3>2, Failed DEF post_mincore_hook, Answer
    <3>3. CASE k = Answer(0, Cells(a[2], Ceil(a[1], PAGE_SZ)))
      BY <2>1, <2>3, <3>1, <3>3 DEF post_mincore_hook, tagmap_clrn, Ceil
    <3>4. QED BY <2>2, <3>2, <3>3
  <2>5. QED BY <2>4, Zenon DEF Clears
<1>3. QED BY <1>1, <1>2, Arities, HookExact, Zenon DEF NoHook

LEMMA ShmctlExact == Exact("shmctl")
<1>1. /\ syscall_desc["shmctl"] = Hook(3, "post_shmctl_hook")
      /\ Params["shmctl"] = <<Z, IpcCmd, B, Z, Z, Z>>
  BY RowAt, Domain1, Zenon DEF Rows1, Params
<1>2. ASSUME NEW a, NEW m, NEW k, NEW c, Outcome("shmctl", a, m, k), Sees(3, c, a, m, k)
      PROVE  Clears("post_shmctl_hook", c) = k.wrote
  <2>1. a[1] \in IpcCmd /\ a[2] \in B
    BY <1>1, <1>2, ArgIn, Zenon DEF Outcome
  <2>2. k = Answer(0, IF a[1] = IPC.RMID THEN {} ELSE Cells(a[2], STRUCT)) \/ k = Answer(Minus1, {})
    BY <1>2, SMT DEF Outcome, Answers, Success, Failure
  <2>3. c.ret = k.ret /\ c.arg[1] = a[1] /\ c.arg[2] = a[2]
    BY <1>2, SMT DEF Sees
  <2>4. post_shmctl_hook(c) = k.wrote
    <3>1. Long(0) = 0 /\ Answer(0, IF a[1] = IPC.RMID THEN {} ELSE Cells(a[2], STRUCT)).ret = 0
              /\ Answer(0, IF a[1] = IPC.RMID THEN {} ELSE Cells(a[2], STRUCT)).wrote = IF a[1] =
                     IPC.RMID THEN {} ELSE Cells(a[2], STRUCT)
      BY SyscallsAssumption DEF Long, Answer
    <3>2. CASE k = Answer(Minus1, {})
      BY <2>3, <3>2, Failed DEF post_shmctl_hook, ClearIpc, Answer
    <3>3. CASE k = Answer(0, IF a[1] = IPC.RMID THEN {} ELSE Cells(a[2], STRUCT))
      BY <2>1, <2>3, <3>1, <3>3 DEF post_shmctl_hook, ClearIpc, FixCmd, IpcCmd, IPC, IPC_FIX,
          tagmap_clrn
    <3>4. QED BY <2>2, <3>2, <3>3
  <2>5. QED BY <2>4, Zenon DEF Clears
<1>3. QED BY <1>1, <1>2, Arities, HookExact, Zenon DEF NoHook

LEMMA MsgctlExact == Exact("msgctl")
<1>1. /\ syscall_desc["msgctl"] = Hook(3, "post_msgctl_hook")
      /\ Params["msgctl"] = <<Z, IpcCmd, B, Z, Z, Z>>
  BY RowAt, Domain1, Zenon DEF Rows1, Params
<1>2. ASSUME NEW a, NEW m, NEW k, NEW c, Outcome("msgctl", a, m, k), Sees(3, c, a, m, k)
      PROVE  Clears("post_msgctl_hook", c) = k.wrote
  <2>1. a[1] \in IpcCmd /\ a[2] \in B
    BY <1>1, <1>2, ArgIn, Zenon DEF Outcome
  <2>2. k = Answer(0, IF a[1] = IPC.RMID THEN {} ELSE Cells(a[2], STRUCT)) \/ k = Answer(Minus1, {})
    BY <1>2, SMT DEF Outcome, Answers, Success, Failure
  <2>3. c.ret = k.ret /\ c.arg[1] = a[1] /\ c.arg[2] = a[2]
    BY <1>2, SMT DEF Sees
  <2>4. post_msgctl_hook(c) = k.wrote
    <3>1. Long(0) = 0 /\ Answer(0, IF a[1] = IPC.RMID THEN {} ELSE Cells(a[2], STRUCT)).ret = 0
              /\ Answer(0, IF a[1] = IPC.RMID THEN {} ELSE Cells(a[2], STRUCT)).wrote = IF a[1] =
                     IPC.RMID THEN {} ELSE Cells(a[2], STRUCT)
      BY SyscallsAssumption DEF Long, Answer
    <3>2. CASE k = Answer(Minus1, {})
      BY <2>3, <3>2, Failed DEF post_msgctl_hook, ClearIpc, Answer
    <3>3. CASE k = Answer(0, IF a[1] = IPC.RMID THEN {} ELSE Cells(a[2], STRUCT))
      BY <2>1, <2>3, <3>1, <3>3 DEF post_msgctl_hook, ClearIpc, FixCmd, IpcCmd, IPC, IPC_FIX,
          tagmap_clrn
    <3>4. QED BY <2>2, <3>2, <3>3
  <2>5. QED BY <2>4, Zenon DEF Clears
<1>3. QED BY <1>1, <1>2, Arities, HookExact, Zenon DEF NoHook

LEMMA FcntlExact == Exact("fcntl")
<1>1. /\ syscall_desc["fcntl"] = Hook(3, "post_fcntl_hook")
      /\ Params["fcntl"] = <<Z, {F.GETFL, F.GETLK}, P, Z, Z, Z>>
  BY RowAt, Domain2, Zenon DEF Rows2, Params
<1>2. ASSUME NEW a, NEW m, NEW k, NEW c, Outcome("fcntl", a, m, k), Sees(3, c, a, m, k)
      PROVE  Clears("post_fcntl_hook", c) = k.wrote
  <2>1. a[1] \in {F.GETFL, F.GETLK} /\ a[2] \in P
    BY <1>1, <1>2, ArgIn DEF Outcome
  <2>2. k = Answer(0, IF a[1] = F.GETLK THEN Cells(a[2], STRUCT) ELSE {}) \/ k = Answer(Minus1, {})
    BY <1>2, SMT DEF Outcome, Answers, Success, Failure
  <2>3. c.ret = k.ret /\ c.arg[1] = a[1] /\ c.arg[2] = a[2]
    BY <1>2, SMT DEF Sees
  <2>4. post_fcntl_hook(c) = k.wrote
    <3>1. Long(0) = 0 /\ Answer(0, IF a[1] = F.GETLK THEN Cells(a[2], STRUCT) ELSE {}).ret = 0
              /\ Answer(0, IF a[1] = F.GETLK THEN Cells(a[2], STRUCT) ELSE {}).wrote = IF a[1] =
                     F.GETLK THEN Cells(a[2], STRUCT) ELSE {}
      BY SyscallsAssumption DEF Long, Answer
    <3>2. CASE k = Answer(Minus1, {})
      BY <2>3, <3>2, Failed DEF post_fcntl_hook, Answer
    <3>3. CASE k = Answer(0, IF a[1] = F.GETLK THEN Cells(a[2], STRUCT) ELSE {})
      BY <2>1, <2>3, <3>1, <3>3 DEF post_fcntl_hook, tagmap_clrn
    <3>4. QED BY <2>2, <3>2, <3>3
  <2>5. QED BY <2>4, Zenon DEF Clears
<1>3. QED BY <1>1, <1>2, Arities, HookExact, Zenon DEF NoHook

LEMMA QuotactlExact == Exact("quotactl")
<1>1. /\ syscall_desc["quotactl"] = Hook(4, "post_quotactl_hook")
      /\ Params["quotactl"] = <<{QCMD(Q.GETQUOTA, 0), QCMD(Q.SETQUOTA, 0)}, Z, Z, B, Z, Z>>
  BY RowAt, Domain3, Zenon DEF Rows3, Params
<1>2. ASSUME NEW a, NEW m, NEW k, NEW c, Outcome("quotactl", a, m, k), Sees(4, c, a, m, k)
      PROVE  Clears("post_quotactl_hook", c) = k.wrote
  <2>1. a[0] \in {QCMD(Q.GETQUOTA, 0), QCMD(Q.SETQUOTA, 0)} /\ a[3] \in B
    BY <1>1, <1>2, ArgIn DEF Outcome
  <2>2. k = Answer(0, IF a[0] = QCMD(Q.GETQUOTA, 0) THEN Cells(a[3], STRUCT) ELSE {})
            \/ k = Answer(Minus1, {})
    BY <1>2, SMT DEF Outcome, Answers, Success, Failure
  <2>3. c.ret = k.ret /\ c.arg[0] = a[0] /\ c.arg[3] = a[3]
    BY <1>2, SMT DEF Sees
  <2>4. a[0] # QCMD(Q.GETQUOTA, 0)
    BY <1>2, SMT DEF Outcome, ExpectedArgs, ExpectedAnswer
  <2>5. post_quotactl_hook(c) = k.wrote
    <3>1. Long(0) = 0 /\ Answer(0, IF a[0] = QCMD(Q.GETQUOTA, 0) THEN Cells(a[3],
              STRUCT) ELSE {}).ret = 0 /\ Answer(0, IF a[0] =
                  QCMD(Q.GETQUOTA, 0) THEN Cells(a[3], STRUCT) ELSE {}).wrote = IF a[0] =
                      QCMD(Q.GETQUOTA, 0) THEN Cells(a[3], STRUCT) ELSE {}
      BY SyscallsAssumption DEF Long, Answer
    <3>2. CASE k = Answer(Minus1, {})
      BY <2>3, <3>2, Failed DEF post_quotactl_hook, Answer
    <3>3. CASE k = Answer(0, IF a[0] = QCMD(Q.GETQUOTA, 0) THEN Cells(a[3], STRUCT) ELSE {})
      BY <2>1, <2>3, <2>4, <3>1, <3>3 DEF post_quotactl_hook, QCMD, Q
    <3>4. QED BY <2>2, <3>2, <3>3
  <2>6. QED BY <2>5, Zenon DEF Clears
<1>3. QED BY <1>1, <1>2, Arities, HookExact, Zenon DEF NoHook

LEMMA SemctlExact == Exact("semctl")
<1>1. /\ syscall_desc["semctl"] = Hook(4, "post_semctl_hook")
      /\ Params["semctl"] = <<Z, Z, IpcCmd, B, Z, Z>>
  BY RowAt, Domain1, Zenon DEF Rows1, Params
<1>2. ASSUME NEW a, NEW m, NEW k, NEW c, Outcome("semctl", a, m, k), Sees(4, c, a, m, k)
      PROVE  Clears("post_semctl_hook", c) = k.wrote
  <2>1. a[2] \in IpcCmd /\ a[3] \in B
    BY <1>1, <1>2, ArgIn, Zenon DEF Outcome
  <2>2. k = Answer(0, IF a[2] = IPC.RMID THEN {} ELSE Cells(a[3], STRUCT)) \/ k = Answer(Minus1, {})
    BY <1>2, SMT DEF Outcome, Answers, Success, Failure
  <2>3. c.ret = k.ret /\ c.arg[2] = a[2] /\ c.arg[3] = a[3]
    BY <1>2, SMT DEF Sees
  <2>4. a[2] = IPC.RMID
    BY <1>2, SMT DEF Outcome, ExpectedArgs, ExpectedAnswer
  <2>5. post_semctl_hook(c) = k.wrote
    <3>1. Long(0) = 0 /\ Answer(0, IF a[2] = IPC.RMID THEN {} ELSE Cells(a[3], STRUCT)).ret = 0
              /\ Answer(0, IF a[2] = IPC.RMID THEN {} ELSE Cells(a[3], STRUCT)).wrote = IF a[2] =
                     IPC.RMID THEN {} ELSE Cells(a[3], STRUCT)
      BY SyscallsAssumption DEF Long, Answer
    <3>2. CASE k = Answer(Minus1, {})
      BY <2>3, <3>2, Failed DEF post_semctl_hook, ClearIpc, Answer
    <3>3. CASE k = Answer(0, IF a[2] = IPC.RMID THEN {} ELSE Cells(a[3], STRUCT))
      BY <2>1, <2>3, <2>4, <3>1, <3>3 DEF post_semctl_hook, ClearIpc, FixCmd, IPC, IPC_FIX
    <3>4. QED BY <2>2, <3>2, <3>3
  <2>6. QED BY <2>5, Zenon DEF Clears
<1>3. QED BY <1>1, <1>2, Arities, HookExact, Zenon DEF NoHook

LEMMA GetMempolicyExact == Exact("get_mempolicy")
<1>1. /\ syscall_desc["get_mempolicy"] = Hook(5, "post_get_mempolicy_hook")
      /\ Params["get_mempolicy"] = <<P, P, Z, Z, 0 .. 4, Z>>
  BY RowAt, Domain4, Zenon DEF Rows4, Params
<1>2. ASSUME NEW a, NEW m, NEW k, NEW c, Outcome("get_mempolicy", a, m, k), Sees(5, c, a, m, k)
      PROVE  Clears("post_get_mempolicy_hook", c) = k.wrote
  <2>1. a[0] \in P /\ a[1] \in P /\ a[4] \in 0 .. 4
    BY <1>1, <1>2, ArgIn DEF Outcome
  <2>2. k = Answer(0, Cells(a[0], INT) \cup Cells(a[1], LONG)) \/ k = Answer(Minus1, {})
    BY <1>2, SMT DEF Outcome, Answers, Success, Failure
  <2>3. c.ret = k.ret /\ c.arg[0] = a[0] /\ c.arg[1] = a[1] /\ c.arg[4] = a[4]
    BY <1>2, SMT DEF Sees
  <2>4. /\ Bit(a[4], MPOL_F.MEMS_ALLOWED) => a[0] = Null
        /\ Bit(a[4], MPOL_F.NODE) => a[1] = Null
    BY <1>2, SMT DEF Outcome, ExpectedArgs, ExpectedAnswer
  <2>5. post_get_mempolicy_hook(c) = k.wrote
    <3>1. CASE k = Answer(Minus1, {})
      BY <2>3, <3>1, Failed DEF post_get_mempolicy_hook, Answer
    <3>2. CASE k = Answer(0, Cells(a[0], INT) \cup Cells(a[1], LONG))
      <4>1. Long(k.ret) = 0 /\ k.wrote = Cells(a[0], INT) \cup Cells(a[1], LONG)
        BY <3>2, SyscallsAssumption DEF Long, Answer
      <4>2. Cells(Null, INT) = {} /\ Cells(Null, LONG) = {}
        BY DEF Cells
      <4>3. /\ a[4] \in {2, 3} => Bit(a[4], MPOL_F.ADDR)
            /\ a[4] \in {1, 3} => Bit(a[4], MPOL_F.NODE)
            /\ a[4] \in {0, 2, 4} => ~Bit(a[4], MPOL_F.NODE)
            /\ a[4] = 4 <=> Bit(a[4], MPOL_F.MEMS_ALLOWED)
        BY <2>1, SMT DEF Bit, MPOL_F
      <4>4. a[4] = 0 \/ a[4] = 1 \/ a[4] = 2 \/ a[4] = 3 \/ a[4] = 4
        BY <2>1
      <4>5. ~(Long(c.ret) < 0)
        BY <2>3, <4>1
      <4>6. QED BY <2>3, <2>4, <4>1, <4>2, <4>3, <4>4, <4>5 DEF post_get_mempolicy_hook, tagmap_clrn
    <3>3. QED BY <2>2, <3>1, <3>2
  <2>6. QED BY <2>5, Zenon DEF Clears
<1>3. QED BY <1>1, <1>2, Arities, HookExact, Zenon DEF NoHook

LEMMA MmapExact == Exact("mmap")
<1>1. /\ syscall_desc["mmap"] = Hook(6, "post_mmap_hook")
      /\ Params["mmap"] = <<Z, MmapLen, Z, {0, 1}, Z, Z>>
  BY RowAt, Domain1, Zenon DEF Rows1, Params
<1>2. ASSUME NEW a, NEW m, NEW k, NEW c, Outcome("mmap", a, m, k), Sees(6, c, a, m, k)
      PROVE  Clears("post_mmap_hook", c) = k.wrote
  <2>1. a[1] \in MmapLen /\ a[3] \in {0, 1}
    BY <1>1, <1>2, ArgIn DEF Outcome
  <2>2. (\E p \in Ptrs : k = Answer(p, Cells(p, PAGE_SZ * Ceil(a[1], PAGE_SZ))))
             \/ k = Answer(Minus1, {})
    BY <1>2, SMT DEF Outcome, Answers, Success, Failure
  <2>3. c.ret = k.ret /\ c.arg[1] = a[1] /\ c.arg[3] = a[3]
    BY <1>2, SMT DEF Sees
  <2>4. a[1] % PAGE_SZ # 0 /\ a[3] = 0
    BY <1>2, SMT DEF Outcome, ExpectedArgs, ExpectedAnswer
  <2>5. post_mmap_hook(c) = k.wrote
    <3>1. CASE k = Answer(Minus1, {})
      BY <2>3, <3>1 DEF post_mmap_hook, Answer
    <3>2. ASSUME NEW p \in Ptrs, k = Answer(p, Cells(p, PAGE_SZ * Ceil(a[1], PAGE_SZ)))
          PROVE  post_mmap_hook(c) = k.wrote
      <4>1. k.ret = p /\ k.wrote = Cells(p, PAGE_SZ * Ceil(a[1], PAGE_SZ))
        BY <3>2 DEF Answer
      <4>2. p \in Nat \ {0} /\ p # Minus1
        BY SyscallsAssumption DEF Minus1
      <4>3. a[1] = 1 \/ a[1] = 3
        BY <2>1, <2>4 DEF PAGE_SZ, MmapLen
      <4>4. CASE a[1] = 1
        <5>1. k.wrote = Cells(p, 2)
          BY <4>1, <4>4 DEF PAGE_SZ, Ceil
        <5>2. post_mmap_hook(c) = (p .. p + 2 - 1) \cap Cell
          BY <2>3, <2>4, <4>1, <4>2, <4>4 DEF post_mmap_hook, PAGE_SZ
        <5>3. QED BY <4>2, <5>1, <5>2 DEF Cells, Null
      <4>5. CASE a[1] = 3
        <5>1. k.wrote = Cells(p, 4)
          BY <4>1, <4>5 DEF PAGE_SZ, Ceil
        <5>2. post_mmap_hook(c) = (p .. p + 4 - 1) \cap Cell
          BY <2>3, <2>4, <4>1, <4>2, <4>5 DEF post_mmap_hook, PAGE_SZ
        <5>3. QED BY <4>2, <5>1, <5>2 DEF Cells, Null
      <4>6. QED BY <4>3, <4>4, <4>5
    <3>3. QED BY <2>2, <3>1, <3>2
  <2>6. QED BY <2>5, Zenon DEF Clears
<1>3. QED BY <1>1, <1>2, Arities, HookExact, Zenon DEF NoHook

-----------------------------------------------------------------------------
(* Calls that return the address of a peer or an option *)

LEMMA AcceptExact == Exact("accept")
<1>1. /\ syscall_desc["accept"] = Hook(3, "post_accept_accept4_getsockname_getpeername_hook")
      /\ Params["accept"] = <<Z, P, B, Z, Z, Z>>
  BY RowAt, Domain1, Zenon DEF Rows1, Params
<1>2. ASSUME NEW a, NEW m, NEW k, NEW c, Outcome("accept", a, m, k), Sees(3, c, a, m, k)
      PROVE  Clears("post_accept_accept4_getsockname_getpeername_hook", c) = k.wrote
  <2>1. a[1] \in P /\ a[2] \in B
    BY <1>1, <1>2, ArgIn, Zenon DEF Outcome
  <2>2. (\E l \in Lengths(a[1]) : k = AnswerLen(0, l, Peer(a[1], a[2], m.len, l)))
             \/ k = Answer(Minus1, {})
    BY <1>2, SMT DEF Outcome, Answers, Success, Failure
  <2>3. c.ret = k.ret /\ c.arg[1] = a[1] /\ c.arg[2] = a[2] /\ c.mem = m /\ c.out = k
    BY <1>2, SMT DEF Sees
  <2>4. k.olen <= m.len
    BY <1>2, SMT DEF Outcome, ExpectedArgs, ExpectedAnswer
  <2>5. post_accept_accept4_getsockname_getpeername_hook(c) = k.wrote
    <3>1. CASE k = Answer(Minus1, {})
      BY <2>3, <3>1, Failed DEF post_accept_accept4_getsockname_getpeername_hook, Answer
    <3>2. ASSUME NEW l \in Lengths(a[1]),
                 k = AnswerLen(0, l, Peer(a[1], a[2], m.len, l))
          PROVE  post_accept_accept4_getsockname_getpeername_hook(c) = k.wrote
      <4>1. k.ret = 0 /\ k.olen = l /\ k.wrote = Peer(a[1], a[2], m.len, l)
        BY <3>2 DEF AnswerLen, Answer
      <4>2. ~(Long(c.ret) < 0)
        BY <2>3, <4>1, SyscallsAssumption DEF Long
      <4>3. Least(m.len, l) = l
        BY <1>2, <2>4, <4>1, LengthOf, OneCellLeft DEF Outcome
      <4>4. QED BY <2>3, <4>1, <4>2, <4>3 DEF post_accept_accept4_getsockname_getpeername_hook,
                    ClearPeer, Peer, tagmap_clrn
    <3>3. QED BY <2>2, <3>1, <3>2
  <2>6. QED BY <2>5, Zenon DEF Clears
<1>3. QED BY <1>1, <1>2, Arities, HookExact, Zenon DEF NoHook

LEMMA RecvfromExact == Exact("recvfrom")
<1>1. /\ syscall_desc["recvfrom"] = Hook(6, "post_recvfrom_hook")
      /\ Params["recvfrom"] = <<Z, B, N, Z, P, B>>
  BY RowAt, Domain1, Zenon DEF Rows1, Params
<1>2. ASSUME NEW a, NEW m, NEW k, NEW c, Outcome("recvfrom", a, m, k), Sees(6, c, a, m, k)
      PROVE  Clears("post_recvfrom_hook", c) = k.wrote
  <2>1. a[1] \in B /\ a[2] \in N /\ a[4] \in P /\ a[5] \in B
    BY <1>1, <1>2, ArgIn, Zenon DEF Outcome
  <2>2. (\E r \in 0 .. a[2], l \in Lengths(a[4]) :
            k = AnswerLen(r, l, Cells(a[1], r) \cup Peer(a[4], a[5], m.len, l)))
                \/ k = Answer(Minus1, {})
    BY <1>2, SMT DEF Outcome, Answers, Success, Failure
  <2>3. c.ret = k.ret /\ c.arg[1] = a[1] /\ c.arg[2] = a[2] /\ c.arg[4] = a[4]
            /\ c.arg[5] = a[5] /\ c.mem = m /\ c.out = k
    BY <1>2, SMT DEF Sees
  <2>4. k.ret # 0 /\ k.olen <= m.len
    BY <1>2, SMT DEF Outcome, ExpectedArgs, ExpectedAnswer
  <2>5. post_recvfrom_hook(c) = k.wrote
    <3>1. CASE k = Answer(Minus1, {})
      BY <2>3, <3>1, Failed DEF post_recvfrom_hook, Answer
    <3>2. ASSUME NEW r \in 0 .. a[2], NEW l \in Lengths(a[4]),
                 k = AnswerLen(r, l, Cells(a[1], r) \cup Peer(a[4], a[5], m.len, l))
          PROVE  post_recvfrom_hook(c) = k.wrote
      <4>1. /\ k.ret = r /\ k.olen = l
            /\ k.wrote = Cells(a[1], r) \cup Peer(a[4], a[5], m.len, l)
        BY <3>2 DEF AnswerLen, Answer
      <4>2. ~(Long(c.ret) <= 0)
        BY <2>1, <2>3, <2>4, <4>1, LongNat, SMT DEF N
      <4>3. Least(m.len, l) = l
        BY <1>2, <2>4, <4>1, LengthOf, OneCellLeft DEF Outcome
      <4>4. QED BY <2>3, <4>1, <4>2, <4>3 DEF post_recvfrom_hook, ClearPeer, Peer, tagmap_clrn
    <3>3. QED BY <2>2, <3>1, <3>2
  <2>6. QED BY <2>5, Zenon DEF Clears
<1>3. QED BY <1>1, <1>2, Arities, HookExact, Zenon DEF NoHook

LEMMA GetsockoptExact == Exact("getsockopt")
<1>1. /\ syscall_desc["getsockopt"] = Hook(5, "post_getsockopt_hook")
      /\ Params["getsockopt"] = <<Z, Z, Z, B, B, Z>>
  BY RowAt, Domain1, Zenon DEF Rows1, Params
<1>2. ASSUME NEW a, NEW m, NEW k, NEW c, Outcome("getsockopt", a, m, k), Sees(5, c, a, m, k)
      PROVE  Clears("post_getsockopt_hook", c) = k.wrote
  <2>1. a[3] \in B /\ a[4] \in B
    BY <1>1, <1>2, ArgIn, Zenon DEF Outcome
  <2>2. (\E l \in 0 .. m.len : k = AnswerLen(0, l, Cells(a[3], l) \cup Cells(a[4], INT)))
             \/ k = Answer(Minus1, {})
    BY <1>2, SMT DEF Outcome, Answers, Success, Failure
  <2>3. c.ret = k.ret /\ c.arg[3] = a[3] /\ c.arg[4] = a[4] /\ c.mem = m /\ c.out = k
    BY <1>2, SMT DEF Sees
  <2>4. post_getsockopt_hook(c) = k.wrote
    <3>1. CASE k = Answer(Minus1, {})
      BY <2>3, <3>1, Failed DEF post_getsockopt_hook, Answer
    <3>2. ASSUME NEW l \in 0 .. m.len,
                 k = AnswerLen(0, l, Cells(a[3], l) \cup Cells(a[4], INT))
          PROVE  post_getsockopt_hook(c) = k.wrote
      <4>1. k.ret = 0 /\ k.olen = l /\ k.wrote = Cells(a[3], l) \cup Cells(a[4], INT)
        BY <3>2 DEF AnswerLen, Answer
      <4>2. ~(Long(c.ret) < 0)
        BY <2>3, <4>1, SyscallsAssumption DEF Long
      <4>3. QED BY <2>3, <4>1, <4>2 DEF post_getsockopt_hook, tagmap_clrn
    <3>3. QED BY <2>2, <3>1, <3>2
  <2>5. QED BY <2>4, Zenon DEF Clears
<1>3. QED BY <1>1, <1>2, Arities, HookExact, Zenon DEF NoHook

LEMMA SysctlExact == Exact("sysctl")
<1>1. /\ syscall_desc["sysctl"] = Hook(1, "post__sysctl_hook")
      /\ Params["sysctl"] = <<Z, Z, Z, Z, Z, Z>>
  BY RowAt, Domain3, Zenon DEF Rows3, Params
<1>2. ASSUME NEW a, NEW m, NEW k, NEW c, Outcome("sysctl", a, m, k), Sees(1, c, a, m, k)
      PROVE  Clears("post__sysctl_hook", c) = k.wrote
  <2>1. a[0] \in Z
    BY <1>1, <1>2, ArgIn, Zenon DEF Outcome
  <2>2. (\E l \in Lengths(m.control) :
            k = AnswerLen(0, l, Peer(m.control, m.word, l, l) \cup
                                IF m.control = Null THEN {} ELSE Cells(m.word, LONG)))
                                    \/ k = Answer(Minus1, {})
    BY <1>2, SMT DEF Outcome, Answers, Success, Failure
  <2>3. c.ret = k.ret /\ c.arg[0] = a[0] /\ c.mem = m /\ c.out = k
    BY <1>2, SMT DEF Sees
  <2>4. m.name = Null
    BY <1>2, SMT DEF Outcome, ExpectedArgs, ExpectedAnswer
  <2>5. post__sysctl_hook(c) = k.wrote
    <3>1. CASE k = Answer(Minus1, {})
      BY <2>3, <3>1, Failed DEF post__sysctl_hook, Answer
    <3>2. ASSUME NEW l \in Lengths(m.control),
                 k = AnswerLen(0, l, Peer(m.control, m.word, l, l) \cup
                                     IF m.control = Null THEN {} ELSE Cells(m.word, LONG))
          PROVE  post__sysctl_hook(c) = k.wrote
      <4>1. /\ k.ret = 0 /\ k.olen = l
            /\ k.wrote = Peer(m.control, m.word, l, l) \cup
                             IF m.control = Null THEN {} ELSE Cells(m.word, LONG)
        BY <3>2 DEF AnswerLen, Answer
      <4>2. ~(Long(c.ret) < 0)
        BY <2>3, <4>1, SyscallsAssumption DEF Long
      <4>3. Least(l, l) = l /\ Cells(Null, m.len) = {}
        BY DEF Least, Cells
      <4>4. m.word = 5
        BY <1>2, SMT DEF Outcome, Mems, Mem
      <4>5. Cells(m.word, INT) \subseteq Cells(m.word, LONG)
        BY <4>4 DEF Cells, INT, LONG
      <4>6. QED BY <2>3, <2>4, <4>1, <4>2, <4>3, <4>5 DEF post__sysctl_hook, Peer, tagmap_clrn
    <3>3. QED BY <2>2, <3>1, <3>2
  <2>6. QED BY <2>5, Zenon DEF Clears
<1>3. QED BY <1>1, <1>2, Arities, HookExact, Zenon DEF NoHook

LEMMA SendmmsgExact == Exact("sendmmsg")
<1>1. /\ syscall_desc["sendmmsg"] = Hook(4, "post_sendmmsg_hook")
      /\ Params["sendmmsg"] = <<Z, B, {1}, Z, Z, Z>>
  BY RowAt, Domain5, Zenon DEF Rows5, Params
<1>2. ASSUME NEW a, NEW m, NEW k, NEW c, Outcome("sendmmsg", a, m, k), Sees(4, c, a, m, k)
      PROVE  Clears("post_sendmmsg_hook", c) = k.wrote
  <2>1. a[1] \in B
    BY <1>1, <1>2, ArgIn DEF Outcome
  <2>2. k = Answer(1, MsgLen(a[1])) \/ k = Answer(Minus1, {})
    BY <1>2, SMT DEF Outcome, Answers, Success, Failure
  <2>3. c.ret = k.ret /\ c.arg[1] = a[1]
    BY <1>2, SMT DEF Sees
  <2>4. ~(Long(k.ret) < 0)
    BY <1>2, SMT DEF Outcome, ExpectedAnswer, Unchecked
  <2>5. post_sendmmsg_hook(c) = k.wrote
    <3>1. k = Answer(1, MsgLen(a[1]))
      BY <2>2, <2>4, Failed DEF Answer
    <3>2. k.ret = 1 /\ k.wrote = Cells(a[1] + MSGHDR, INT)
      BY <3>1 DEF Answer, MsgLen
    <3>3. a[1] \in Nat
      BY <2>1, PtrNat DEF B
    <3>4. a[1] + 0 * MMSGHDR + MSGHDR = a[1] + MSGHDR /\ 0 .. c.ret - 1 = {0}
      BY <2>3, <3>2, <3>3 DEF MMSGHDR, MSGHDR, INT, LONG
    <3>5. QED BY <2>3, <3>2, <3>4 DEF post_sendmmsg_hook, tagmap_clrn
  <2>6. QED BY <2>5, Zenon DEF Clears
<1>3. QED BY <1>1, <1>2, Arities, HookExact, Zenon DEF NoHook

-----------------------------------------------------------------------------
(* Calls without a hook, and calls that Expected leaves out *)

LEMMA LeftOut == Exact("arch_prctl") /\ Exact("perf_event_open")
BY SMT DEF Exact, Outcome, ExpectedArgs

\* The default handling clears what the row says at each argument.
LEMMA DefaultIs ==
    ASSUME NEW n \in 0 .. 6, NEW save, NEW retval, NEW lens, NEW c,
           \A i \in 1 .. 6 : lens[i] \in {0, STRUCT}, \A i \in 0 .. n - 1 : c.arg[i] \in Nat
    PROVE  DefaultClears(Row(n, save, retval, lens, NoHook), c) =
               UNION {Cells(c.arg[i], lens[i + 1]) : i \in 0 .. n - 1}
<1> DEFINE d == Row(n, save, retval, lens, NoHook)
<1>1. d.nargs = n /\ \A i \in 0 .. 5 : d.map_args[i] = lens[i + 1]
  BY DEF Row
<1> HIDE DEF d
<1>2. \A i \in 0 .. n - 1 : i \in 0 .. 5 /\ i + 1 \in 1 .. 6
  BY SMT
<1>3. \A i \in 0 .. n - 1 : ~(d.map_args[i] > 0
          /\ c.arg[i] # Null) => Cells(c.arg[i], lens[i + 1]) = {}
  BY <1>1, <1>2 DEF Cells, STRUCT
<1>4. \A i \in 0 .. n - 1 : tagmap_clrn(c.arg[i], d.map_args[i]) = Cells(c.arg[i], lens[i + 1])
  BY <1>1, <1>2 DEF tagmap_clrn
<1>5. DefaultClears(d, c) = UNION {Cells(c.arg[i], lens[i + 1]) : i \in 0 .. n - 1}
  BY <1>1, <1>3, <1>4 DEF DefaultClears
<1>6. QED BY <1>5 DEF d

\* The same with each argument by itself.
LenOK(l) == l \in {0, STRUCT}
NatArgs(n, c) == \A i \in 0 .. n - 1 : c.arg[i] \in Nat
Part(n, c, i, l) == IF i < n THEN Cells(c.arg[i], l) ELSE {}
Parts(n, c, l0, l1, l2, l3, l4, l5) ==
    UNION {Part(n, c, 0, l0), Part(n, c, 1, l1), Part(n, c, 2, l2),
           Part(n, c, 3, l3), Part(n, c, 4, l4), Part(n, c, 5, l5)}

ClearsParts(n, save, retval, c, l0, l1, l2, l3, l4, l5) ==
    DefaultClears(Row(n, save, retval, <<l0, l1, l2, l3, l4, l5>>, NoHook), c) =
        Parts(n, c, l0, l1, l2, l3, l4, l5)

LEMMA DefaultParts ==
    ASSUME NEW n \in 0 .. 6, NEW save, NEW retval, NEW c, NatArgs(n, c),
           NEW l0, NEW l1, NEW l2, NEW l3, NEW l4, NEW l5,
           LenOK(l0), LenOK(l1), LenOK(l2), LenOK(l3), LenOK(l4), LenOK(l5)
    PROVE  ClearsParts(n, save, retval, c, l0, l1, l2, l3, l4, l5)
<1> DEFINE lens == <<l0, l1, l2, l3, l4, l5>>
<1>1. /\ lens[1] = l0 /\ lens[2] = l1 /\ lens[3] = l2 /\ lens[4] = l3 /\ lens[5] = l4
             /\ lens[6] = l5
      /\ \A i \in 1 .. 6 : lens[i] \in {0, STRUCT}
  BY SMT DEF LenOK
<1> HIDE DEF lens
<1>2. DefaultClears(Row(n, save, retval, lens, NoHook), c) =
          UNION {Cells(c.arg[i], lens[i + 1]) : i \in 0 .. n - 1}
  BY <1>1, DefaultIs DEF NatArgs
<1>3. \A i \in 0 .. n - 1 : i = 0 \/ i = 1 \/ i = 2 \/ i = 3 \/ i = 4 \/ i = 5
  OBVIOUS
<1>4. \A i \in 0 .. n - 1 : Cells(c.arg[i], lens[i + 1]) = Part(n, c, i, lens[i + 1])
  BY DEF Part
<1>5. \A i \in 0 .. 5 : i \notin 0 .. n - 1 => Part(n, c, i, lens[i + 1]) = {}
  BY DEF Part
<1>6. UNION {Cells(c.arg[i], lens[i + 1]) : i \in 0 .. n - 1} =
          UNION {Part(n, c, i, lens[i + 1]) : i \in 0 .. 5}
  BY <1>4, <1>5, SMT
<1>7. UNION {Part(n, c, i, lens[i + 1]) : i \in 0 .. 5} =
               UNION {Part(n, c, 0, l0), Part(n, c, 1, l1), Part(n, c, 2, l2),
                      Part(n, c, 3, l3), Part(n, c, 4, l4), Part(n, c, 5, l5)}
  BY <1>1, SMT
<1>8. QED BY <1>2, <1>6, <1>7 DEF lens, Parts, ClearsParts

LEMMA Lens == LenOK(0) /\ LenOK(STRUCT)
BY DEF LenOK

LEMMA NoCells == (\A p \in Nat : Cells(p, 0) = {}) /\ (\A l : Cells(Null, l) = {})
BY DEF Cells

\* A row without a hook: it is enough to show what the default handling clears.
LEMMA RowExact ==
    ASSUME NEW nr, NEW n \in 0 .. 6, NEW save \in BOOLEAN, NEW retval \in BOOLEAN, NEW lens,
           syscall_desc[nr] = Row(n, save, retval, lens, NoHook), save \/ retval,
           \A a, m, k, c : Outcome(nr, a, m, k) /\ Sees(n, c, a, m, k)
               => DefaultClears(Row(n, save, retval, lens, NoHook), c) = k.wrote
    PROVE  Exact(nr)
<1> DEFINE d == Row(n, save, retval, lens, NoHook)
<1>1. d.nargs = n /\ d.save_args = save /\ d.retval_args = retval /\ d.post = NoHook
  BY DEF Row
<1>2. \A c : Cleared(d, c) = DefaultClears(d, c)
  BY <1>1, Zenon DEF Cleared, HasArgs
<1>3. ASSUME NEW a, NEW m, NEW k, NEW c, Outcome(nr, a, m, k),
             HasArgs(syscall_desc[nr]) => Sees(syscall_desc[nr].nargs, c, a, m, k)
      PROVE  Cleared(syscall_desc[nr], c) = k.wrote
  <2>1. Sees(n, c, a, m, k)
    BY <1>1, <1>3, Zenon DEF HasArgs
  <2>2. QED BY <1>2, <1>3, <2>1, Zenon
<1>4. QED BY <1>3, Zenon DEF Exact

LEMMA StatExact == Exact("stat")
<1>1. /\ syscall_desc["stat"] = Row(2, FALSE, TRUE, <<0, STRUCT, 0, 0, 0, 0>>, NoHook)
      /\ Params["stat"] = <<Z, B, Z, Z, Z, Z>>
  BY RowAt, Domain1, Zenon DEF Rows1, Params, Result
<1>2. ASSUME NEW a, NEW m, NEW k, NEW c, Outcome("stat", a, m, k), Sees(2, c, a, m, k)
      PROVE  DefaultClears(Row(2, FALSE, TRUE, <<0, STRUCT, 0, 0, 0, 0>>, NoHook), c) = k.wrote
  <2>1. a[0] \in Z /\ a[1] \in B /\ a[2] \in Z /\ a[3] \in Z /\ a[4] \in Z
    BY <1>1, <1>2, ArgIn, Zenon DEF Outcome
  <2>2. ~(Long(k.ret) < 0)
    BY <1>2, SMT DEF Outcome, ExpectedAnswer, Unchecked
  <2>3. k = Answer(0, Cells(a[1], STRUCT))
    BY <1>2, <2>2, Failed, SMT DEF Outcome, Answers, Success, Failure, Answer
  <2>4. c.arg[0] = a[0] /\ a[0] \in Nat /\ c.arg[1] = a[1] /\ a[1] \in Nat
    BY <1>2, <2>1, PtrNat, LongNat, SMT DEF Sees, B, P, N, Z, Null
  <2>5. NatArgs(2, c)
    BY <2>4, SMT DEF NatArgs
  <2>6. ClearsParts(2, FALSE, TRUE, c, 0, STRUCT, 0, 0, 0, 0)
    BY <2>5, DefaultParts, Arities, Lens, Zenon
  <2>7. /\ Part(2, c, 0, 0) = {} /\ Part(2, c, 1, STRUCT) = Cells(a[1], STRUCT)
               /\ Part(2, c, 2, 0) = {}
        /\ Part(2, c, 3, 0) = {} /\ Part(2, c, 4, 0) = {} /\ Part(2, c, 5, 0) = {}
    BY <2>1, <2>2, <2>4, NoCells, SMT DEF Part, Z, Null
  <2>8. Parts(2, c, 0, STRUCT, 0, 0, 0, 0) = Cells(a[1], STRUCT)
    BY <2>7, SMT DEF Parts
  <2>9. QED BY <2>2, <2>3, <2>6, <2>8, NoCells DEF Answer, ClearsParts
<1>3. QED BY <1>1, <1>2, RowExact, Arities, Zenon

LEMMA NewfstatatExact == Exact("newfstatat")
<1>1. /\ syscall_desc["newfstatat"] = Row(4, TRUE, FALSE, <<0, 0, STRUCT, 0, 0, 0>>, NoHook)
      /\ Params["newfstatat"] = <<Z, Z, B, Z, Z, Z>>
  BY RowAt, Domain4, Zenon DEF Rows4, Params
<1>2. ASSUME NEW a, NEW m, NEW k, NEW c, Outcome("newfstatat", a, m, k), Sees(4, c, a, m, k)
      PROVE  DefaultClears(Row(4, TRUE, FALSE, <<0, 0, STRUCT, 0, 0, 0>>, NoHook), c) = k.wrote
  <2>1. a[0] \in Z /\ a[1] \in Z /\ a[2] \in B /\ a[3] \in Z /\ a[4] \in Z
    BY <1>1, <1>2, ArgIn, Zenon DEF Outcome
  <2>2. ~(Long(k.ret) < 0)
    BY <1>2, SMT DEF Outcome, ExpectedAnswer, Unchecked
  <2>3. k = Answer(0, Cells(a[2], STRUCT))
    BY <1>2, <2>2, Failed, SMT DEF Outcome, Answers, Success, Failure, Answer
  <2>4. c.arg[0] = a[0] /\ a[0] \in Nat /\ c.arg[1] = a[1] /\ a[1] \in Nat /\ c.arg[2] = a[2]
            /\ a[2] \in Nat /\ c.arg[3] = a[3] /\ a[3] \in Nat
    BY <1>2, <2>1, PtrNat, LongNat, SMT DEF Sees, B, P, N, Z, Null
  <2>5. NatArgs(4, c)
    BY <2>4, SMT DEF NatArgs
  <2>6. ClearsParts(4, TRUE, FALSE, c, 0, 0, STRUCT, 0, 0, 0)
    BY <2>5, DefaultParts, Arities, Lens, Zenon
  <2>7. /\ Part(4, c, 0, 0) = {} /\ Part(4, c, 1, 0) = {}
               /\ Part(4, c, 2, STRUCT) = Cells(a[2], STRUCT)
        /\ Part(4, c, 3, 0) = {} /\ Part(4, c, 4, 0) = {} /\ Part(4, c, 5, 0) = {}
    BY <2>1, <2>2, <2>4, NoCells, SMT DEF Part, Z, Null
  <2>8. Parts(4, c, 0, 0, STRUCT, 0, 0, 0) = Cells(a[2], STRUCT)
    BY <2>7, SMT DEF Parts
  <2>9. QED BY <2>2, <2>3, <2>6, <2>8, NoCells DEF Answer, ClearsParts
<1>3. QED BY <1>1, <1>2, RowExact, Arities, Zenon

LEMMA SelectExact == Exact("select")
<1>1. /\ syscall_desc["select"] = Row(5, FALSE, TRUE, <<0, STRUCT, STRUCT, STRUCT, STRUCT, 0>>,
             NoHook)
      /\ Params["select"] = <<1 .. 2, P, P, Z, Z, Z>>
  BY RowAt, Domain1, Zenon DEF Rows1, Params, Result
<1>2. ASSUME NEW a, NEW m, NEW k, NEW c, Outcome("select", a, m, k), Sees(5, c, a, m, k)
      PROVE  DefaultClears(Row(5, FALSE, TRUE, <<0, STRUCT, STRUCT, STRUCT, STRUCT, 0>>, NoHook),
                 c) = k.wrote
  <2>1. a[0] \in 1 .. 2 /\ a[1] \in P /\ a[2] \in P /\ a[3] \in Z /\ a[4] \in Z
    BY <1>1, <1>2, ArgIn DEF Outcome
  <2>2. ~(Long(k.ret) < 0) /\ a[0] = STRUCT
    BY <1>2, SMT DEF Outcome, ExpectedArgs, ExpectedAnswer, Unchecked
  <2>3. k = Answer(1, Cells(a[1], a[0]) \cup Cells(a[2], a[0]))
    BY <1>2, <2>2, Failed, SMT DEF Outcome, Answers, Success, Failure, Answer
  <2>4. c.arg[0] = a[0] /\ a[0] \in Nat /\ c.arg[1] = a[1] /\ a[1] \in Nat /\ c.arg[2] = a[2]
            /\ a[2] \in Nat /\ c.arg[3] = a[3] /\ a[3] \in Nat /\ c.arg[4] = a[4] /\ a[4] \in Nat
    BY <1>2, <2>1, PtrNat, LongNat, SMT DEF Sees, B, P, N, Z, Null
  <2>5. NatArgs(5, c)
    BY <2>4, SMT DEF NatArgs
  <2>6. ClearsParts(5, FALSE, TRUE, c, 0, STRUCT, STRUCT, STRUCT, STRUCT, 0)
    BY <2>5, DefaultParts, Arities, Lens, Zenon
  <2>7. /\ Part(5, c, 0, 0) = {} /\ Part(5, c, 1, STRUCT) = Cells(a[1], STRUCT)
               /\ Part(5, c, 2, STRUCT) = Cells(a[2], STRUCT)
        /\ Part(5, c, 3, STRUCT) = {} /\ Part(5, c, 4, STRUCT) = {} /\ Part(5, c, 5, 0) = {}
    BY <2>1, <2>2, <2>4, NoCells, SMT DEF Part, Z, Null
  <2>8. Parts(5, c, 0, STRUCT, STRUCT, STRUCT, STRUCT, 0) =
            Cells(a[1], STRUCT) \cup Cells(a[2], STRUCT)
    BY <2>7, SMT DEF Parts
  <2>9. QED BY <2>2, <2>3, <2>6, <2>8, NoCells DEF Answer, ClearsParts
<1>3. QED BY <1>1, <1>2, RowExact, Arities, Zenon

LEMMA NanosleepExact == Exact("nanosleep")
<1>1. /\ syscall_desc["nanosleep"] = Row(2, FALSE, TRUE, <<0, STRUCT, 0, 0, 0, 0>>, NoHook)
      /\ Params["nanosleep"] = <<Z, P, Z, Z, Z, Z>>
  BY RowAt, Domain1, Zenon DEF Rows1, Params, Result
<1>2. ASSUME NEW a, NEW m, NEW k, NEW c, Outcome("nanosleep", a, m, k), Sees(2, c, a, m, k)
      PROVE  DefaultClears(Row(2, FALSE, TRUE, <<0, STRUCT, 0, 0, 0, 0>>, NoHook), c) = k.wrote
  <2>1. a[0] \in Z /\ a[1] \in P /\ a[2] \in Z /\ a[3] \in Z /\ a[4] \in Z
    BY <1>1, <1>2, ArgIn, Zenon DEF Outcome
  <2>2. ~(Long(k.ret) < 0) /\ a[1] = Null
    BY <1>2, SMT DEF Outcome, ExpectedArgs, ExpectedAnswer, Unchecked
  <2>3. k.wrote = {}
    BY <1>2, <2>2, Failed, SMT DEF Outcome, Answers, Success, Failure, Answer
  <2>4. c.arg[0] = a[0] /\ a[0] \in Nat /\ c.arg[1] = a[1] /\ a[1] \in Nat
    BY <1>2, <2>1, PtrNat, LongNat, SMT DEF Sees, B, P, N, Z, Null
  <2>5. NatArgs(2, c)
    BY <2>4, SMT DEF NatArgs
  <2>6. ClearsParts(2, FALSE, TRUE, c, 0, STRUCT, 0, 0, 0, 0)
    BY <2>5, DefaultParts, Arities, Lens, Zenon
  <2>7. /\ Part(2, c, 0, 0) = {} /\ Part(2, c, 1, STRUCT) = {} /\ Part(2, c, 2, 0) = {}
        /\ Part(2, c, 3, 0) = {} /\ Part(2, c, 4, 0) = {} /\ Part(2, c, 5, 0) = {}
    BY <2>1, <2>2, <2>4, NoCells, SMT DEF Part, Z, Null
  <2>8. Parts(2, c, 0, STRUCT, 0, 0, 0, 0) = {}
    BY <2>7, SMT DEF Parts
  <2>9. QED BY <2>2, <2>3, <2>6, <2>8, NoCells DEF Answer, ClearsParts
<1>3. QED BY <1>1, <1>2, RowExact, Arities, Zenon

LEMMA WaitidExact == Exact("waitid")
<1>1. /\ syscall_desc["waitid"] = Row(4, FALSE, TRUE, <<0, 0, STRUCT, 0, STRUCT, 0>>, NoHook)
      /\ Params["waitid"] = <<Z, Z, P, Z, P, Z>>
  BY RowAt, Domain4, Zenon DEF Rows4, Params, Result
<1>2. ASSUME NEW a, NEW m, NEW k, NEW c, Outcome("waitid", a, m, k), Sees(4, c, a, m, k)
      PROVE  DefaultClears(Row(4, FALSE, TRUE, <<0, 0, STRUCT, 0, STRUCT, 0>>, NoHook), c) = k.wrote
  <2>1. a[0] \in Z /\ a[1] \in Z /\ a[2] \in P /\ a[3] \in Z /\ a[4] \in P
    BY <1>1, <1>2, ArgIn, Zenon DEF Outcome
  <2>2. ~(Long(k.ret) < 0) /\ a[4] = Null
    BY <1>2, SMT DEF Outcome, ExpectedArgs, ExpectedAnswer, Unchecked
  <2>3. k.wrote = Cells(a[2], STRUCT) \cup Cells(Null, STRUCT)
    BY <1>2, <2>2, Failed, SMT DEF Outcome, Answers, Success, Failure, Answer
  <2>4. c.arg[0] = a[0] /\ a[0] \in Nat /\ c.arg[1] = a[1] /\ a[1] \in Nat /\ c.arg[2] = a[2]
            /\ a[2] \in Nat /\ c.arg[3] = a[3] /\ a[3] \in Nat
    BY <1>2, <2>1, PtrNat, LongNat, SMT DEF Sees, B, P, N, Z, Null
  <2>5. NatArgs(4, c)
    BY <2>4, SMT DEF NatArgs
  <2>6. ClearsParts(4, FALSE, TRUE, c, 0, 0, STRUCT, 0, STRUCT, 0)
    BY <2>5, DefaultParts, Arities, Lens, Zenon
  <2>7. /\ Part(4, c, 0, 0) = {} /\ Part(4, c, 1, 0) = {}
               /\ Part(4, c, 2, STRUCT) = Cells(a[2], STRUCT)
        /\ Part(4, c, 3, 0) = {} /\ Part(4, c, 4, STRUCT) = {} /\ Part(4, c, 5, 0) = {}
    BY <2>1, <2>2, <2>4, NoCells, SMT DEF Part, Z, Null
  <2>8. Parts(4, c, 0, 0, STRUCT, 0, STRUCT, 0) = Cells(a[2], STRUCT)
    BY <2>7, SMT DEF Parts
  <2>9. QED BY <2>2, <2>3, <2>6, <2>8, NoCells DEF Answer, ClearsParts
<1>3. QED BY <1>1, <1>2, RowExact, Arities, Zenon

LEMMA IoctlExact == Exact("ioctl")
<1>1. /\ syscall_desc["ioctl"] = Row(3, TRUE, FALSE, NoLens, NoHook)
      /\ Params["ioctl"] = <<Z, Z, P, Z, Z, Z>>
  BY RowAt, Domain1, Zenon DEF Rows1, Params, Hook
<1>2. ASSUME NEW a, NEW m, NEW k, NEW c, Outcome("ioctl", a, m, k), Sees(3, c, a, m, k)
      PROVE  DefaultClears(Row(3, TRUE, FALSE, NoLens, NoHook), c) = k.wrote
  <2>1. a[0] \in Z /\ a[1] \in Z /\ a[2] \in P /\ a[3] \in Z /\ a[4] \in Z
    BY <1>1, <1>2, ArgIn, Zenon DEF Outcome
  <2>2. a[2] = Null
    BY <1>2, SMT DEF Outcome, ExpectedArgs
  <2>3. k.wrote = {}
    <3>1. Success("ioctl", a, m) = {Answer(0, w) : w \in {{}, Cells(a[2], STRUCT)}}
      BY SMTT(30) DEF Success
    <3>2. k \in Success("ioctl", a, m) \/ k = Answer(Minus1, {})
      BY <1>2, AnswerIn, SMT DEF Outcome
    <3>3. Cells(a[2], STRUCT) = {}
      BY <2>2, NoCells
    <3>4. QED BY <3>1, <3>2, <3>3 DEF Answer
  <2>4. c.arg[0] = a[0] /\ a[0] \in Nat /\ c.arg[1] = a[1] /\ a[1] \in Nat /\ c.arg[2] = a[2]
            /\ a[2] \in Nat
    BY <1>2, <2>1, PtrNat, LongNat, SMT DEF Sees, B, P, N, Z, Null
  <2>5. NatArgs(3, c)
    BY <2>4, SMT DEF NatArgs
  <2>6. ClearsParts(3, TRUE, FALSE, c, 0, 0, 0, 0, 0, 0)
    BY <2>5, DefaultParts, Arities, Lens, Zenon
  <2>7. /\ Part(3, c, 0, 0) = {} /\ Part(3, c, 1, 0) = {} /\ Part(3, c, 2, 0) = {}
        /\ Part(3, c, 3, 0) = {} /\ Part(3, c, 4, 0) = {} /\ Part(3, c, 5, 0) = {}
    BY <2>1, <2>2, <2>4, NoCells, SMT DEF Part, Z, Null
  <2>8. Parts(3, c, 0, 0, 0, 0, 0, 0) = {}
    BY <2>7, SMT DEF Parts
  <2>9. QED BY <2>2, <2>3, <2>6, <2>8, NoCells DEF Answer, ClearsParts, NoLens
<1>3. QED BY <1>1, <1>2, RowExact, Arities, Zenon

-----------------------------------------------------------------------------
(* Scattered reads and messages *)

\* What the loop over an array of two iovec clears.
LEMMA Clears2 ==
    ASSUME NEW v, NEW n \in 0 .. 2, NEW tot \in Nat, v[1].len \in Nat, v[2].len \in Nat
    PROVE  LET x == Least(tot, v[1].len)
               y == Least(tot - x, v[2].len)
           IN  ClearVector(v, n, tot) = (IF n = 0 THEN {} ELSE tagmap_clrn(v[1].base, x))
                 \cup (IF n = 2 THEN tagmap_clrn(v[2].base, y) ELSE {})
<1> DEFINE x == Least(tot, v[1].len)
           y == Least(tot - x, v[2].len)
           Rest(f) == [i \in 0 .. n |-> IF i = 0 THEN tot ELSE f[i - 1] - Least(f[i - 1], v[i].len)]
           left == CHOOSE f : f = Rest(f)
           w == [i \in 0 .. n |-> IF i = 0 THEN tot ELSE IF i = 1 THEN tot - x ELSE tot - x - y]
<1>1. ClearVector(v, n, tot) = UNION {tagmap_clrn(v[i].base, left[i - 1] - left[i]) : i \in 1 .. n}
  BY DEF ClearVector
<1>2. w = Rest(w)
  <2>1. \A i \in 0 .. n : w[i] = IF i = 0 THEN tot ELSE w[i - 1] - Least(w[i - 1], v[i].len)
    <3>1. \A i \in 0 .. n : i = 0 \/ i = 1 \/ i = 2
      OBVIOUS
    <3>2. w[0] = tot
      OBVIOUS
    <3>3. n >= 1 => w[1] = w[0] - Least(w[0], v[1].len)
      OBVIOUS
    <3>4. n >= 2 => w[2] = w[1] - Least(w[1], v[2].len)
      OBVIOUS
    <3> HIDE DEF w
    <3>5. QED BY <3>1, <3>2, <3>3, <3>4
  <2>2. w = [i \in 0 .. n |-> w[i]]
    OBVIOUS
  <2> HIDE DEF w
  <2>3. QED BY <2>1, <2>2, Zenon
<1>3. left = Rest(left)
  <2> HIDE DEF w, Rest
  <2>1. QED BY <1>2, Zenon
<1> HIDE DEF left, w
<1>4. /\ left[0] = tot
      /\ n >= 1 => left[1] = left[0] - Least(left[0], v[1].len)
      /\ n >= 2 => left[2] = left[1] - Least(left[1], v[2].len)
  BY <1>3
<1>5. x \in Nat /\ y \in Nat /\ x <= tot
  BY DEF Least
<1>6. (n >= 1 => left[0] - left[1] = x /\ left[1] = tot - x) /\ (n >= 2 => left[1] - left[2] = y)
  BY <1>4, <1>5
<1>7. (n = 0 => 1 .. n = {}) /\ (n = 1 => 1 .. n = {1}) /\ (n = 2 => 1 .. n = {1, 2})
  OBVIOUS
<1> HIDE DEF x, y
<1>8. ClearVector(v, n, tot) = (IF n = 0 THEN {} ELSE tagmap_clrn(v[1].base, x))
                 \cup (IF n = 2 THEN tagmap_clrn(v[2].base, y) ELSE {})
  <2>1. CASE n = 0
    BY <1>1, <1>7, <2>1
  <2>2. CASE n = 1
    BY <1>1, <1>6, <1>7, <2>2
  <2>3. CASE n = 2
    BY <1>1, <1>6, <1>7, <2>3
  <2>4. QED BY <2>1, <2>2, <2>3
<1>9. QED BY <1>8 DEF x, y

\* The first cells of two buffers.
LEMMA Stream2 ==
    ASSUME NEW v, NEW cnt \in 0 .. 2, NEW n \in Nat, Len(v) = 2,
           v[1].len \in 0 .. MaxLen, v[2].len \in 0 .. MaxLen,
           v[1].base \in Nat, v[2].base \in Nat
    PROVE  LET x == Least(n, v[1].len)
               y == Least(n - x, v[2].len)
           IN  Stream(v, cnt, n) = (IF cnt = 0 THEN {} ELSE v[1].base .. v[1].base + x - 1)
                 \cup (IF cnt = 2 THEN v[2].base .. v[2].base + y - 1 ELSE {})
<1> DEFINE x == Least(n, v[1].len)
           y == Least(n - x, v[2].len)
           Sums(f) == [i \in 1 .. Len(v) + 1 |-> IF i = 1 THEN 0 ELSE f[i - 1] + v[i - 1].len]
           before == CHOOSE f : f = Sums(f)
           w == [i \in 1 .. 3 |-> IF i = 1 THEN 0 ELSE IF i =
               2 THEN v[1].len ELSE v[1].len + v[2].len]
           In(z) == z[2] < v[z[1]].len /\ before[z[1]] + z[2] < n
<1>0. MaxLen \in Nat /\ 1 .. Len(v) + 1 = 1 .. 3
  BY SyscallsAssumption
<1>1. Stream(v, cnt, n) = {v[z[1]].base + z[2] : z \in {z \in (1 .. cnt) \X (0 .. MaxLen) : In(z)}}
  BY DEF Stream
<1>2. w = Sums(w)
  <2>1. \A i \in 1 .. 3 : w[i] = IF i = 1 THEN 0 ELSE w[i - 1] + v[i - 1].len
    <3>1. \A i \in 1 .. 3 : i = 1 \/ i = 2 \/ i = 3
      OBVIOUS
    <3>2. w[1] = 0 /\ w[2] = v[1].len /\ w[3] = v[1].len + v[2].len
      OBVIOUS
    <3> HIDE DEF w
    <3>3. QED BY <1>0, <3>1, <3>2
  <2>2. w = [i \in 1 .. 3 |-> w[i]]
    OBVIOUS
  <2> HIDE DEF w
  <2>3. QED BY <1>0, <2>1, <2>2, Zenon
<1>3. before = Sums(before)
  <2> HIDE DEF w, Sums
  <2>1. QED BY <1>2, Zenon
<1> HIDE DEF before, w
<1>4. before[1] = 0 /\ before[2] = v[1].len
  BY <1>0, <1>3
<1>5. x \in Nat /\ y \in Nat /\ x <= n
  BY <1>0 DEF Least
<1>6. \A j \in 0 .. MaxLen : (In(<<1, j>>) <=> j < x) /\ (In(<<2, j>>) <=> j < y)
  BY <1>0, <1>4, SMT DEF Least
<1>7. x <= MaxLen /\ y <= MaxLen
  BY <1>0, SMT DEF Least
<1> DEFINE S1 == {v[1].base + j : j \in {j \in 0 .. MaxLen : In(<<1, j>>)}}
           S2 == {v[2].base + j : j \in {j \in 0 .. MaxLen : In(<<2, j>>)}}
<1>8. Stream(v, cnt, n) = (IF cnt = 0 THEN {} ELSE S1) \cup (IF cnt = 2 THEN S2 ELSE {})
  <2> HIDE DEF In, x, y
  <2>0. \A z \in (1 .. cnt) \X (0 .. MaxLen) : z = <<z[1], z[2]>> /\ z[1] \in 1 .. cnt
            /\ z[2] \in 0 .. MaxLen
    OBVIOUS
  <2>1. \A i \in 1 .. cnt : i = 1 \/ (i = 2 /\ cnt = 2)
    OBVIOUS
  <2>2. ASSUME NEW q \in Stream(v, cnt, n)
        PROVE  q \in (IF cnt = 0 THEN {} ELSE S1) \cup (IF cnt = 2 THEN S2 ELSE {})
    <3>1. PICK z \in (1 .. cnt) \X (0 .. MaxLen) : In(z) /\ q = v[z[1]].base + z[2]
      BY <1>1
    <3>2. PICK i \in 1 .. cnt, j \in 0 .. MaxLen : z = <<i, j>>
      BY <2>0
    <3>3. CASE i = 1
      BY <3>1, <3>2, <3>3
    <3>4. CASE i = 2 /\ cnt = 2
      BY <3>1, <3>2, <3>4
    <3>5. QED BY <2>1, <3>3, <3>4
  <2>3. ASSUME NEW j \in 0 .. MaxLen, In(<<1, j>>), cnt # 0
        PROVE  v[1].base + j \in Stream(v, cnt, n)
    <3>1. <<1, j>> \in (1 .. cnt) \X (0 .. MaxLen)
      BY <2>3
    <3>2. QED BY <1>1, <2>3, <3>1
  <2>4. ASSUME NEW j \in 0 .. MaxLen, In(<<2, j>>), cnt = 2
        PROVE  v[2].base + j \in Stream(v, cnt, n)
    <3>1. <<2, j>> \in (1 .. cnt) \X (0 .. MaxLen)
      BY <2>4
    <3>2. QED BY <1>1, <2>4, <3>1
  <2>5. QED BY <2>2, <2>3, <2>4
<1>9. S1 = v[1].base .. v[1].base + x - 1 /\ S2 = v[2].base .. v[2].base + y - 1
  <2> HIDE DEF In, x, y
  <2>1. S1 = {v[1].base + j : j \in 0 .. x - 1} /\ S2 = {v[2].base + j : j \in 0 .. y - 1}
    <3>1. /\ {j \in 0 .. MaxLen : In(<<1, j>>)} = {j \in 0 .. MaxLen : j < x}
          /\ {j \in 0 .. MaxLen : In(<<2, j>>)} = {j \in 0 .. MaxLen : j < y}
      BY <1>6, Zenon
    <3>2. {j \in 0 .. MaxLen : j < x} = 0 .. x - 1 /\ {j \in 0 .. MaxLen : j < y} = 0 .. y - 1
      BY <1>0, <1>5, <1>7, SMT
    <3>3. QED BY <3>1, <3>2, Zenon
  <2>2. \A b, l \in Nat : {b + j : j \in 0 .. l - 1} = b .. b + l - 1
    <3>1. SUFFICES ASSUME NEW b \in Nat, NEW l \in Nat PROVE {b + j
              : j \in 0 .. l - 1} = b .. b + l - 1
      OBVIOUS
    <3>2. \A q \in b .. b + l - 1 : q - b \in 0 .. l - 1 /\ q = b + (q - b)
      OBVIOUS
    <3>3. QED BY <3>2
  <2>3. QED BY <1>5, <2>1, <2>2
<1>10. QED BY <1>8, <1>9

LEMMA InVectors ==
    ASSUME NEW v \in Vectors
    PROVE  /\ Len(v) = 2
           /\ v[1].len \in 0 .. 2 /\ v[2].len \in 0 .. 2
           /\ v[1].base \in 1 .. 4 /\ v[2].base \in 1 .. 4
           /\ v[1].base + v[1].len <= 5 /\ v[2].base + v[2].len <= 5
<1>1. CASE v = <<[base |-> 1, len |-> 1], [base |-> 3, len |-> 2]>>
  BY <1>1
<1>2. CASE v = <<[base |-> 3, len |-> 2], [base |-> 1, len |-> 0]>>
  BY <1>2
<1>3. QED BY <1>1, <1>2, Zenon DEF Vectors

LEMMA CellsInside ==
    ASSUME NEW b \in 1 .. 4, NEW l \in Nat, b + l <= 5
    PROVE  Cells(b, l) = b .. b + l - 1
<1>1. Size \in Nat /\ Size >= 4 /\ b # 0
  BY SyscallsAssumption
<1>2. b .. b + l - 1 \subseteq 1 .. Size
  BY <1>1
<1>3. QED BY <1>1, <1>2, Zenon DEF Cells, Cell, Null

LEMMA LeastOf ==
    \A i, j \in Nat : Least(i, j) \in Nat /\ Least(i, j) <= i /\ Least(i, j) <= j
BY DEF Least

\* The loop clears what the kernel wrote, whatever the call returned.
LEMMA VectorExact ==
    ASSUME NEW v \in Vectors, NEW cnt \in 0 .. 2, NEW r \in Nat
    PROVE  ClearVector(v, cnt, r) = Stream(v, cnt, r)
<1> DEFINE x == Least(r, v[1].len)
           y == Least(r - x, v[2].len)
<1>1. /\ Len(v) = 2 /\ v[1].len \in 0 .. MaxLen /\ v[2].len \in 0 .. MaxLen
      /\ v[1].len \in Nat /\ v[2].len \in Nat /\ v[1].base \in Nat /\ v[2].base \in Nat
  BY InVectors, SyscallsAssumption
<1>2. ClearVector(v, cnt, r) = (IF cnt = 0 THEN {} ELSE tagmap_clrn(v[1].base, x))
                 \cup (IF cnt = 2 THEN tagmap_clrn(v[2].base, y) ELSE {})
  BY <1>1, Clears2
<1>3. Stream(v, cnt, r) = (IF cnt = 0 THEN {} ELSE v[1].base .. v[1].base + x - 1)
                 \cup (IF cnt = 2 THEN v[2].base .. v[2].base + y - 1 ELSE {})
  BY <1>1, Stream2
<1>4. x \in Nat /\ y \in Nat /\ x <= v[1].len /\ y <= v[2].len
  <2>1. x \in Nat /\ x <= r /\ x <= v[1].len
    BY <1>1, LeastOf
  <2>2. r - x \in Nat
    BY <2>1
  <2>3. QED BY <1>1, <2>1, <2>2, LeastOf
<1> HIDE DEF x, y
<1>5. /\ Cells(v[1].base, x) = v[1].base .. v[1].base + x - 1
      /\ Cells(v[2].base, y) = v[2].base .. v[2].base + y - 1
  <2>1. /\ v[1].base \in 1 .. 4 /\ v[2].base \in 1 .. 4
        /\ v[1].base + x <= 5 /\ v[2].base + y <= 5
    BY <1>1, <1>4, InVectors
  <2>2. QED BY <1>4, <2>1, CellsInside
<1>6. QED BY <1>2, <1>3, <1>5 DEF tagmap_clrn

\* What a scattered read can return.
LEMMA VectorTotal ==
    ASSUME NEW v \in Vectors, NEW cnt \in 0 .. 2, NEW r \in 0 .. Total(v, cnt)
    PROVE  /\ r \in 0 .. 4
           /\ cnt = 0 => r = 0
           /\ cnt = 1 => r <= v[1].len
<1> DEFINE x == Least(Word, v[1].len)
           y == Least(Word - x, v[2].len)
           S == Stream(v, cnt, Word)
<1>1. /\ Len(v) = 2 /\ v[1].len \in 0 .. MaxLen /\ v[2].len \in 0 .. MaxLen
      /\ v[1].len \in Nat /\ v[2].len \in Nat /\ v[1].base \in Nat /\ v[2].base \in Nat
      /\ Word \in Nat
  BY InVectors, SyscallsAssumption
<1>2. S = (IF cnt = 0 THEN {} ELSE v[1].base .. v[1].base + x - 1)
                 \cup (IF cnt = 2 THEN v[2].base .. v[2].base + y - 1 ELSE {})
  BY <1>1, Stream2
<1>3. x \in Nat /\ y \in Nat /\ x <= v[1].len /\ y <= v[2].len
  <2>1. x \in Nat /\ x <= Word /\ x <= v[1].len
    BY <1>1, LeastOf
  <2>2. Word - x \in Nat
    BY <1>1, <2>1
  <2>3. QED BY <1>1, <2>1, <2>2, LeastOf
<1>4. Total(v, cnt) = Cardinality(S)
  BY DEF Total
<1> HIDE DEF x, y, S
<1>5. S \subseteq 1 .. 4
  BY <1>1, <1>2, <1>3, InVectors
<1>6. Cardinality(S) \in Nat /\ Cardinality(S) <= 4
  <2>1. IsFiniteSet(1 .. 4) /\ Cardinality(1 .. 4) = 4
    <3>1. 1 \in Int /\ 4 \in Int
      OBVIOUS
    <3>2. IsFiniteSet(1 .. 4) /\ Cardinality(1 .. 4) = IF 1 > 4 THEN 0 ELSE 4 - 1 + 1
      BY <3>1, FS_Interval, Zenon
    <3>3. QED BY <3>2
  <2>2. IsFiniteSet(S) /\ Cardinality(S) <= Cardinality(1 .. 4)
    BY <1>5, <2>1, FS_Subset
  <2>3. QED BY <2>1, <2>2, FS_CardinalityType
<1>7. cnt = 0 => Cardinality(S) = 0
  BY <1>2, FS_EmptySet
<1>8. cnt = 1 => Cardinality(S) = x
  <2>1. SUFFICES ASSUME cnt = 1 PROVE Cardinality(S) = x
    OBVIOUS
  <2> DEFINE q == v[1].base + x - 1
  <2>2. S = v[1].base .. q
    BY <1>2, <2>1
  <2>3. v[1].base \in Int /\ q \in Int
    BY <1>1, <1>3
  <2>4. Cardinality(v[1].base .. q) = IF v[1].base > q THEN 0 ELSE q - v[1].base + 1
    <3> HIDE DEF q
    <3>1. QED BY <2>3, FS_Interval, Zenon
  <2>5. QED BY <1>1, <1>3, <2>2, <2>4
<1>9. QED BY <1>1, <1>3, <1>4, <1>6, <1>7, <1>8

\* Nothing is written when nothing was read, and nothing behind the buffers of the call.
LEMMA NoStream ==
    ASSUME NEW v \in Vectors, NEW cnt \in 0 .. 2
    PROVE  Stream(v, cnt, 0) = {}
<1> DEFINE x == Least(0, v[1].len)
           y == Least(0 - x, v[2].len)
<1>1. /\ Len(v) = 2 /\ v[1].len \in 0 .. MaxLen /\ v[2].len \in 0 .. MaxLen
      /\ v[1].len \in Nat /\ v[2].len \in Nat /\ v[1].base \in Nat /\ v[2].base \in Nat
      /\ 0 \in Nat
  BY InVectors, SyscallsAssumption
<1>2. Stream(v, cnt, 0) = (IF cnt = 0 THEN {} ELSE v[1].base .. v[1].base + x - 1)
                 \cup (IF cnt = 2 THEN v[2].base .. v[2].base + y - 1 ELSE {})
  BY <1>1, Stream2
<1>3. x = 0 /\ y = 0
  BY <1>1 DEF Least
<1>4. v[1].base .. v[1].base + 0 - 1 = {} /\ v[2].base .. v[2].base + 0 - 1 = {}
  BY <1>1
<1>5. QED BY <1>2, <1>3, <1>4

LEMMA VectorBehind ==
    ASSUME NEW v \in Vectors, NEW cnt \in 0 .. 2, NEW r \in 0 .. Total(v, cnt)
    PROVE  ClearVector(v, 2, r) = Stream(v, cnt, r)
<1> DEFINE x == Least(r, v[1].len)
           y == Least(r - x, v[2].len)
<1>1. /\ Len(v) = 2 /\ v[1].len \in 0 .. MaxLen /\ v[2].len \in 0 .. MaxLen
      /\ v[1].len \in Nat /\ v[2].len \in Nat /\ v[1].base \in Nat /\ v[2].base \in Nat
  BY InVectors, SyscallsAssumption
<1>2. r \in Nat /\ (cnt = 0 => r = 0) /\ (cnt = 1 => r <= v[1].len)
  BY VectorTotal
<1>3. ClearVector(v, 2, r) = Stream(v, 2, r)
  BY <1>2, VectorExact
<1>4. CASE cnt = 0
  BY <1>2, <1>3, <1>4, NoStream
<1>5. CASE cnt = 1
  <2>1. x = r /\ y = 0
    BY <1>1, <1>2, <1>5 DEF Least
  <2>2. \A n \in 0 .. 2 : Stream(v, n, r) = (IF n = 0 THEN {} ELSE v[1].base .. v[1].base + x - 1)
                 \cup (IF n = 2 THEN v[2].base .. v[2].base + y - 1 ELSE {})
    BY <1>1, <1>2, Stream2
  <2>3. v[2].base .. v[2].base + 0 - 1 = {}
    BY <1>1
  <2>4. Stream(v, 2, r) = Stream(v, 1, r)
    <3> HIDE DEF x, y
    <3>1. Stream(v, 1, r) = v[1].base .. v[1].base + x - 1
      BY <2>2, SMT
    <3>2. Stream(v, 2, r) = (v[1].base .. v[1].base + x - 1) \cup (v[2].base .. v[2].base + y - 1)
      BY <2>2, SMT
    <3>3. v[2].base .. v[2].base + y - 1 = {}
      BY <2>1, <2>3, Zenon
    <3>4. QED BY <3>1, <3>2, <3>3, Zenon
  <2>5. QED BY <1>3, <1>5, <2>4
<1>6. CASE cnt = 2
  BY <1>3, <1>6
<1>7. QED BY <1>4, <1>5, <1>6


LEMMA IovOf ==
    \A nr \in {"readv", "process_vm_readv", "recvmsg", "recvmmsg"} : \A m
        : m \in Mems(nr) => m.iov \in Vectors
BY SMT DEF Mems, Mem

LEMMA SmallLong == \A r \in 0 .. 4 : r \in Nat /\ Long(r) = r
BY SyscallsAssumption DEF Long

LEMMA ReadvExact == Exact("readv")
<1>1. /\ syscall_desc["readv"] = Hook(3, "post_readv_hook")
      /\ Params["readv"] = <<Z, Z, IovCnt, Z, Z, Z>>
  BY RowAt, Domain1, Zenon DEF Rows1, Params
<1>2. ASSUME NEW a, NEW m, NEW k, NEW c, Outcome("readv", a, m, k), Sees(3, c, a, m, k)
      PROVE  Clears("post_readv_hook", c) = k.wrote
  <2>1. a[2] \in IovCnt
    BY <1>1, <1>2, ArgIn, Zenon DEF Outcome
  <2>2. (\E r \in 0 .. Total(m.iov, a[2]) : k = Answer(r, Stream(m.iov, a[2], r)))
             \/ k = Answer(Minus1, {})
    <3>1. Success("readv", a, m) = {Answer(r, Stream(m.iov, a[2], r))
              : r \in 0 .. Total(m.iov, a[2])}
      BY SMTT(30) DEF Success
    <3>2. k \in Success("readv", a, m) \/ k = Answer(Minus1, {})
      BY <1>2, AnswerIn, SMT DEF Outcome
    <3>3. QED BY <3>1, <3>2, Zenon
  <2>3. c.ret = k.ret /\ c.arg[2] = a[2] /\ c.mem = m /\ c.out = k
    BY <1>2, SMT DEF Sees
  <2>4. post_readv_hook(c) = k.wrote
    <3>1. m.iov \in Vectors
      BY <1>2, IovOf DEF Outcome
    <3>2. CASE k = Answer(Minus1, {})
      BY <2>3, <3>2, Failed DEF post_readv_hook, Answer
    <3>3. ASSUME NEW r \in 0 .. Total(m.iov, a[2]), k = Answer(r, Stream(m.iov, a[2], r))
          PROVE  post_readv_hook(c) = k.wrote
      <4>1. r \in 0 .. 4 /\ a[2] \in 0 .. 2
        BY <2>1, <3>1, VectorTotal DEF IovCnt
      <4>2. ClearVector(m.iov, a[2], r) = Stream(m.iov, a[2], r) /\ r \in Nat /\ Long(r) = r
        BY <3>1, <4>1, VectorExact, SmallLong
      <4>3. k.ret = r /\ k.wrote = Stream(m.iov, a[2], r)
        BY <3>3 DEF Answer
      <4>4. r = 0 => Stream(m.iov, a[2], r) = {}
        BY <3>1, <4>1, NoStream
      <4>5. QED BY <2>3, <4>2, <4>3, <4>4 DEF post_readv_hook
    <3>4. QED BY <2>2, <3>2, <3>3
  <2>5. QED BY <2>4, Zenon DEF Clears
<1>3. QED BY <1>1, <1>2, Arities, HookExact, Zenon DEF NoHook

LEMMA ProcessVmReadvExact == Exact("process_vm_readv")
<1>1. /\ syscall_desc["process_vm_readv"] = Hook(6, "post_process_vm_readv_hook")
      /\ Params["process_vm_readv"] = <<Z, Z, IovCnt, Z, Z, Z>>
  BY RowAt, Domain5, Zenon DEF Rows5, Params
<1>2. ASSUME NEW a, NEW m, NEW k, NEW c, Outcome("process_vm_readv", a, m, k), Sees(6, c, a, m, k)
      PROVE  Clears("post_process_vm_readv_hook", c) = k.wrote
  <2>1. a[2] \in IovCnt
    BY <1>1, <1>2, ArgIn, Zenon DEF Outcome
  <2>2. (\E r \in 0 .. Total(m.iov, a[2]) : k = Answer(r, Stream(m.iov, a[2], r)))
             \/ k = Answer(Minus1, {})
    <3>1. Success("process_vm_readv", a, m) = {Answer(r, Stream(m.iov, a[2], r))
              : r \in 0 .. Total(m.iov, a[2])}
      BY SMTT(30) DEF Success
    <3>2. k \in Success("process_vm_readv", a, m) \/ k = Answer(Minus1, {})
      BY <1>2, AnswerIn, SMT DEF Outcome
    <3>3. QED BY <3>1, <3>2, Zenon
  <2>3. c.ret = k.ret /\ c.arg[2] = a[2] /\ c.mem = m /\ c.out = k
    BY <1>2, SMT DEF Sees
  <2>4. ~(Long(k.ret) < 0)
    BY <1>2, SMT DEF Outcome, ExpectedAnswer, Unchecked
  <2>5. post_process_vm_readv_hook(c) = k.wrote
    <3>1. m.iov \in Vectors
      BY <1>2, IovOf DEF Outcome
    <3>2. k # Answer(Minus1, {})
      BY <2>4, Failed DEF Answer
    <3>3. PICK r \in 0 .. Total(m.iov, a[2]) : k = Answer(r, Stream(m.iov, a[2], r))
      BY <2>2, <3>2
    <3>4. a[2] \in 0 .. 2 /\ Len(m.iov) = 2 /\ r \in 0 .. 4 /\ r \in Nat
      BY <2>1, <3>1, VectorTotal, InVectors, SmallLong DEF IovCnt
    <3>5. k.ret = r /\ k.wrote = Stream(m.iov, a[2], r)
      BY <3>3 DEF Answer
    <3>6. ClearVector(m.iov, 2, r) = Stream(m.iov, a[2], r)
      BY <3>1, <3>3, <3>4, VectorBehind
    <3>7. QED BY <2>3, <3>4, <3>5, <3>6 DEF post_process_vm_readv_hook
  <2>6. QED BY <2>5, Zenon DEF Clears
<1>3. QED BY <1>1, <1>2, Arities, HookExact, Zenon DEF NoHook

LEMMA HeaderLen == \A nr \in {"recvmsg", "recvmmsg"} : \A m : m \in Mems(nr) => m.len = 1
BY SMT DEF Mems, Mem

LEMMA RecvmsgExact == Exact("recvmsg")
<1>1. /\ syscall_desc["recvmsg"] = Hook(3, "post_recvmsg_hook")
      /\ Params["recvmsg"] = <<Z, Headers, Z, Z, Z, Z>>
  BY RowAt, Domain1, Zenon DEF Rows1, Params
<1>2. ASSUME NEW a, NEW m, NEW k, NEW c, Outcome("recvmsg", a, m, k), Sees(3, c, a, m, k)
      PROVE  Clears("post_recvmsg_hook", c) = k.wrote
  <2>1. a[1] \in Headers
    BY <1>1, <1>2, ArgIn, Zenon DEF Outcome
  <2>2. (\E r \in 0 .. Total(m.iov, 2), l \in Lengths(m.name),
             n \in Lengths(m.control) \ {MaxLen}
                 : k = AnswerMsg(r, r, l, n, Message(a[1], m, r, l, n))) \/ k = Answer(Minus1, {})
    <3>1. Success("recvmsg", a, m) = {AnswerMsg(r, r, l, n, Message(a[1], m, r, l, n))
              : r \in 0 .. Total(m.iov, 2), l \in Lengths(m.name),
                  n \in Lengths(m.control) \ {MaxLen}}
      BY SMTT(30) DEF Success
    <3>2. k \in Success("recvmsg", a, m) \/ k = Answer(Minus1, {})
      BY <1>2, AnswerIn, SMT DEF Outcome
    <3>3. QED BY <3>1, <3>2, SMT
  <2>3. c.ret = k.ret /\ c.arg[1] = a[1] /\ c.mem = m /\ c.out = k
    BY <1>2, SMT DEF Sees
  <2>4. k.ret # 0 /\ k.olen <= m.len
    BY <1>2, SMT DEF Outcome, ExpectedArgs, ExpectedAnswer
  <2>5. post_recvmsg_hook(c) = k.wrote
    <3>1. CASE k = Answer(Minus1, {})
      BY <2>3, <3>1, Failed DEF post_recvmsg_hook, Answer
    <3>2. ASSUME NEW r \in 0 .. Total(m.iov, 2), NEW l \in Lengths(m.name),
                 NEW n \in Lengths(m.control) \ {MaxLen},
                 k = AnswerMsg(r, r, l, n, Message(a[1], m, r, l, n))
          PROVE  post_recvmsg_hook(c) = k.wrote
      <4>1. m.iov \in Vectors /\ 2 \in 0 .. 2
        BY <1>2, IovOf DEF Outcome
      <4>2. r \in 0 .. 4
        BY <4>1, VectorTotal
      <4>3. ClearVector(m.iov, 2, r) = Stream(m.iov, 2, r) /\ r \in Nat /\ Long(r) = r
        BY <4>1, <4>2, VectorExact, SmallLong
      <4>4. /\ k.ret = r /\ k.olen = l /\ k.clen = n /\ k.mlen = r
            /\ k.wrote = Message(a[1], m, r, l, n)
        BY <3>2 DEF AnswerMsg
      <4>5. Least(m.len, l) = l
        <5>1. m.len = 1 /\ l <= m.len /\ l \in Nat
          BY <1>2, <4>4, <2>4, LengthOf, HeaderLen DEF Outcome
        <5>2. QED BY <5>1 DEF Least
      <4>6. ~(Long(c.ret) <= 0)
        BY <2>3, <2>4, <4>3, <4>4
      <4>7. post_recvmsg_hook(c) = ClearMessage(c, a[1], r, LONG)
        BY <2>3, <4>4, <4>6 DEF post_recvmsg_hook
      <4>8. ClearMessage(c, a[1], r, LONG) = Message(a[1], m, r, l, n)
        BY <2>3, <4>3, <4>4, <4>5, SMT DEF ClearMessage, Message, tagmap_clrn, Controllen
      <4>9. QED BY <4>4, <4>7, <4>8
    <3>3. QED BY <2>2, <3>1, <3>2
  <2>6. QED BY <2>5, Zenon DEF Clears
<1>3. QED BY <1>1, <1>2, Arities, HookExact, Zenon DEF NoHook

LEMMA RecvmmsgExact == Exact("recvmmsg")
<1>1. /\ syscall_desc["recvmmsg"] = Hook(5, "post_recvmmsg_hook")
      /\ Params["recvmmsg"] = <<Z, Headers, {1}, Z, P, Z>>
  BY RowAt, Domain5, Zenon DEF Rows5, Params
<1>2. ASSUME NEW a, NEW m, NEW k, NEW c, Outcome("recvmmsg", a, m, k), Sees(5, c, a, m, k)
      PROVE  Clears("post_recvmmsg_hook", c) = k.wrote
  <2>1. a[1] \in Headers /\ a[4] \in P
    BY <1>1, <1>2, ArgIn DEF Outcome
  <2>2. (\E r \in 0 .. Total(m.iov, 2), l \in Lengths(m.name),
             n \in Lengths(m.control) \ {MaxLen}
                 : k = AnswerMsg(1, r, l, n, Message(a[1], m, r, l, n) \cup MsgLen(a[1])
                     \cup Cells(a[4], STRUCT))) \/ k = Answer(Minus1, {})
    <3>1. Success("recvmmsg", a, m) = {AnswerMsg(1, r, l, n, Message(a[1], m, r, l, n)
              \cup MsgLen(a[1]) \cup Cells(a[4], STRUCT))
                  : r \in 0 .. Total(m.iov, 2), l \in Lengths(m.name),
                      n \in Lengths(m.control) \ {MaxLen}}
      BY SMTT(30) DEF Success
    <3>2. k \in Success("recvmmsg", a, m) \/ k = Answer(Minus1, {})
      BY <1>2, AnswerIn, SMT DEF Outcome
    <3>3. QED BY <3>1, <3>2, SMT
  <2>3. c.ret = k.ret /\ c.arg[1] = a[1] /\ c.arg[4] = a[4] /\ c.mem = m /\ c.out = k
    BY <1>2, SMT DEF Sees
  <2>4. k.olen <= m.len /\ m.control = Null
    BY <1>2, SMT DEF Outcome, ExpectedArgs, ExpectedAnswer
  <2>5. post_recvmmsg_hook(c) = k.wrote
    <3>1. CASE k = Answer(Minus1, {})
      BY <2>3, <3>1, Failed DEF post_recvmmsg_hook, Answer
    <3>2. ASSUME NEW r \in 0 .. Total(m.iov, 2), NEW l \in Lengths(m.name),
                 NEW n \in Lengths(m.control) \ {MaxLen},
                 k = AnswerMsg(1, r, l, n, Message(a[1], m, r, l, n) \cup MsgLen(a[1])
                     \cup Cells(a[4], STRUCT))
          PROVE  post_recvmmsg_hook(c) = k.wrote
      <4>1. m.iov \in Vectors /\ 2 \in 0 .. 2
        BY <1>2, IovOf DEF Outcome
      <4>2. r \in 0 .. 4
        BY <4>1, VectorTotal
      <4>3. ClearVector(m.iov, 2, r) = Stream(m.iov, 2, r) /\ r \in Nat /\ Long(r) = r
        BY <4>1, <4>2, VectorExact, SmallLong
      <4>4. /\ k.ret = 1 /\ k.olen = l /\ k.clen = n /\ k.mlen = r
            /\ k.wrote = Message(a[1], m, r, l, n) \cup MsgLen(a[1]) \cup Cells(a[4], STRUCT)
        BY <3>2 DEF AnswerMsg
      <4>5. Least(m.len, l) = l
        <5>1. m.len = 1 /\ l <= m.len /\ l \in Nat
          BY <1>2, <4>4, <2>4, LengthOf, HeaderLen DEF Outcome
        <5>2. QED BY <5>1 DEF Least
      <4>6. ~(Long(c.ret) < 0) /\ c.ret # 0
        BY <2>3, <4>4, SmallLong
      <4>7. post_recvmmsg_hook(c) = (ClearMessage(c, a[1], r, INT) \cup MsgLen(a[1]))
                \cup Cells(a[4], STRUCT)
        BY <2>3, <4>4, <4>6 DEF post_recvmmsg_hook, tagmap_clrn
      <4>8. ClearMessage(c, a[1], r, INT) = Message(a[1], m, r, l, n)
        BY <2>3, <4>3, <4>4, <4>5, <2>4, SMT DEF ClearMessage, Message, tagmap_clrn
      <4>9. QED BY <4>4, <4>7, <4>8
    <3>3. QED BY <2>2, <3>1, <3>2
  <2>6. QED BY <2>5, Zenon DEF Clears
<1>3. QED BY <1>1, <1>2, Arities, HookExact, Zenon DEF NoHook

-----------------------------------------------------------------------------
(* All calls *)

LEMMA Exact1 == \A nr \in DOMAIN Rows1 \ {"write"} : Exact(nr)
BY Domain1, ReadExact, StatExact, PollExact, MmapExact, IoctlExact, ReadvExact, SelectExact,
   MincoreExact, ShmctlExact, NanosleepExact, AcceptExact, RecvfromExact, RecvmsgExact,
   GetsockoptExact, SemctlExact, MsgrcvExact, MsgctlExact, Zenon

LEMMA Exact2 == \A nr \in DOMAIN Rows2 : Exact(nr)
BY Domain2, FcntlExact, GetdentsExact, GetcwdExact, SyslogExact, GetgroupsExact,
   RtSigpendingExact, Zenon

LEMMA Exact3 == \A nr \in DOMAIN Rows3 : Exact(nr)
BY Domain3, ModifyLdtExact, SysctlExact, LeftOut, QuotactlExact, GetxattrExact, ListxattrExact,
   IoGeteventsExact, LookupDcookieExact, Zenon

LEMMA Exact4 == \A nr \in DOMAIN Rows4 : Exact(nr)
BY Domain4, EpollWaitExact, GetMempolicyExact, MqTimedreceiveExact, WaitidExact,
   NewfstatatExact, ReadlinkatExact, Zenon

LEMMA Exact5 == \A nr \in DOMAIN Rows5 : Exact(nr)
BY Domain5, LeftOut, RecvmmsgExact, SendmmsgExact, ProcessVmReadvExact, Zenon

LEMMA AllExact == \A nr \in Known \ {"write"} : Exact(nr)
BY Exact1, Exact2, Exact3, Exact4, Exact5, Zenon DEF Known

\* A row that clears nothing, whatever the tool registers for it: that of write.
ClearsNothing(d) ==
    /\ d.post \in {NoHook, "tool_hook"}
    /\ d.nargs \in 0 .. 6 /\ \A i \in 0 .. 5 : d.map_args[i] = 0

LEMMA NothingCleared ==
    ASSUME NEW d, ClearsNothing(d), NEW c PROVE Cleared(d, c) = {}
<1>1. CASE d.post = NoHook
  <2>1. \A i \in 0 .. d.nargs - 1 : i \in 0 .. 5
    BY SMT DEF ClearsNothing
  <2>2. {j \in 0 .. d.nargs - 1 : d.map_args[j] > 0 /\ c.arg[j] # Null} = {}
    BY <2>1, SMT DEF ClearsNothing
  <2>3. DefaultClears(d, c) = {}
    BY <2>2 DEF DefaultClears
  <2>4. QED BY <1>1, <2>3, Zenon DEF Cleared
<1>2. CASE d.post = "tool_hook"
  <2>1. Clears("tool_hook", c) = {}
    BY ZenonT(30) DEF Clears
  <2>2. QED BY <1>2, <2>1, Zenon DEF Cleared, NoHook
<1>3. QED BY <1>1, <1>2 DEF ClearsNothing

LEMMA WriteRow == ClearsNothing(syscall_desc["write"])
<1>1. syscall_desc["write"] = Plain(3)
  BY RowAt, Domain1, Zenon DEF Rows1
<1>2. ClearsNothing(Plain(3))
  <2>1. Plain(3).post = NoHook /\ Plain(3).nargs = 3
    BY DEF Plain, Row
  <2>2. \A i \in 0 .. 5 : NoLens[i + 1] = 0
    BY SMT DEF NoLens
  <2>3. \A i \in 0 .. 5 : Plain(3).map_args[i] = NoLens[i + 1]
    BY DEF Plain, Row
  <2>4. QED BY <2>1, <2>2, <2>3, Arities DEF ClearsNothing
<1>3. QED BY <1>1, <1>2

\* Calls that write nothing: write, and one without a row as Expected has it.
LEMMA WritesNothing ==
    ASSUME NEW nr \in {"write", "unknown"}, NEW a, NEW m, NEW k, Outcome(nr, a, m, k)
    PROVE  k.wrote = {}
<1>1. CASE nr = "write"
  <2>1. Success("write", a, m) = {Answer(a[2], {})}
    BY SMTT(30) DEF Success
  <2>2. k \in Success("write", a, m) \/ k = Answer(Minus1, {})
    BY <1>1, AnswerIn, SMT DEF Outcome
  <2>3. QED BY <2>1, <2>2 DEF Answer
<1>2. CASE nr = "unknown"
  <2>1. Success("unknown", a, m) = {Answer(0, w) : w \in {{}, Cells(a[1], INT)}}
    BY SMTT(30) DEF Success
  <2>2. k \in Success("unknown", a, m) \/ k = Answer(Minus1, {})
    BY <1>2, AnswerIn, SMT DEF Outcome
  <2>3. a[1] = Null
    BY <1>2, SMT DEF Outcome, ExpectedArgs
  <2>4. Cells(a[1], INT) = {}
    BY <2>3, NoCells
  <2>5. QED BY <2>1, <2>2, <2>4 DEF Answer
<1>3. QED BY <1>1, <1>2

-----------------------------------------------------------------------------
(* The tags of memory. Between the kernel's writes and the end of the call the    *)
(* tags of what it wrote are stale, and nothing tracked is in those cells: this   *)
(* is what makes it right that the end of the call clears them. It rests on the   *)
(* calls being those that Expected describes, with their rows of the table; write *)
(* is the one call whose row the tool may change.                                 *)

MemoryTable ==
    \A nr \in Known : IF nr = "write" THEN ClearsNothing(desc[nr])
                      ELSE desc[nr] = syscall_desc[nr]

\* A call under way.
Running(l) ==
    /\ l.nr \in Known \cup {"unknown"}
    /\ l.arg \in ArgsOf(l.nr) /\ l.mem \in Mems(l.nr) /\ ExpectedArgs(l.nr, l.arg, l.mem)
    /\ l.done => l.out \in Answers(l.nr, l.arg, l.mem) /\ ExpectedAnswer(l.nr, l.mem, l.out)

CallOK(l) ==
    /\ l.nr # NoNr => Running(l)
    /\ l.nr = NoNr => ~l.done
    /\ ~l.done => l.out.wrote = {}

MemoryCalls == \A t \in Threads : CallOK(call[t])

PendingInv == \A t \in Threads : call[t].out.wrote \cap tainted = {}

MemoryInv == MemoryTable /\ MemoryCalls /\ PendingInv /\ NoStaleCell /\ NoLostCell

\* What the run of the model assumes too.
Expected == ~AnyCall /\ Registered \subseteq {"write"}

LEMMA CallNames == DOMAIN Params =
        {"read", "readlinkat", "getdents", "getcwd", "lookup_dcookie", "modify_ldt", "getgroups",
         "listxattr", "getxattr", "epoll_wait", "io_getevents", "poll", "mq_timedreceive",
         "msgrcv", "get_mempolicy", "mincore", "mmap", "rt_sigpending", "shmctl", "msgctl",
         "semctl", "fcntl", "quotactl", "accept", "getsockopt", "recvfrom", "syslog", "sysctl",
         "arch_prctl", "readv", "process_vm_readv", "recvmsg", "recvmmsg", "sendmmsg", "stat",
         "newfstatat", "select", "nanosleep", "waitid", "perf_event_open", "ioctl", "write",
         "unknown"}
BY ZenonT(60) DEF Params

LEMMA Calls == DOMAIN Params \subseteq Known \cup {"unknown"}
BY CallNames, Domain1, Domain2, Domain3, Domain4, Domain5, SMT DEF Known

LEMMA OtherNames == Unknown \notin Known /\ "unknown" \notin Known /\ NoNr # "unknown"
BY Domain1, Domain2, Domain3, Domain4, Domain5, SMT DEF Known, Unknown, NoNr

LEMMA CallFields ==
    ASSUME NEW nr, NEW a, NEW m, NEW k, NEW done
    PROVE  LET l == Call(nr, a, m, k, done)
           IN l.nr = nr /\ l.arg = a /\ l.mem = m /\ l.out = k /\ l.done = done
BY DEF Call

LEMMA NothingWritten == Answer(0, {}).wrote = {}
BY DEF Answer

LEMMA NoCallOK == CallOK(NoCall) /\ NoCall.out.wrote = {}
<1>1. NoCall.nr = NoNr /\ NoCall.out = Answer(0, {}) /\ NoCall.done = FALSE
  BY DEF NoCall, Call
<1>2. QED BY <1>1, NothingWritten, Zenon DEF CallOK

LEMMA InitMemory == Init => MemoryInv
<1> SUFFICES ASSUME Init PROVE MemoryInv
  OBVIOUS
<1>1. MemoryTable
  BY WriteRow, Zenon DEF Init, MemoryTable
<1>2. \A t \in Threads : call[t] = NoCall
  BY DEF Init
<1>3. MemoryCalls /\ PendingInv
  BY <1>2, NoCallOK DEF MemoryCalls, PendingInv
<1>4. NoStaleCell /\ NoLostCell
  BY DEF Init, NoStaleCell, NoLostCell
<1>5. QED BY <1>1, <1>3, <1>4 DEF MemoryInv

\* At the end of a call the tags of exactly the cells it wrote are cleared.
LEMMA ExitClears ==
    ASSUME DispatchInv, MemoryInv, NEW t \in Threads, sysexit_save(t)
    PROVE  tags' = tags \ call[t].out.wrote
<1> DEFINE l == call[t]
           nr == l.nr
           c  == [arg |-> ctx[t].arg, ret |-> l.out.ret, mem |-> l.mem, out |-> l.out]
           d  == desc[ctx[t].nr]
           handled == ctx[t].nr # Unknown /\ Saves(ctx[t].nr)
<1>1. l.done /\ tags' = IF ~handled THEN tags
             ELSE tags \ (IF d.post # NoHook THEN Clears(d.post, c) ELSE DefaultClears(d, c))
  BY Zenon DEF sysexit_save
<1>2. nr # NoNr /\ Running(l)
  BY <1>1, Zenon DEF MemoryInv, MemoryCalls, CallOK
<1>3. Outcome(nr, l.arg, l.mem, l.out)
  BY <1>1, <1>2, Zenon DEF Running, Outcome
<1>4. SeesCall(ctx[t], l)
  BY SeesCallIff DEF DispatchInv
<1>5. CASE nr \notin Known
  <2>1. nr = "unknown"
    BY <1>2, <1>5, Zenon DEF Running
  <2>2. ctx[t].nr = Unknown
    BY <1>2, <1>4, <1>5, Zenon DEF SeesCall
  <2>3. tags' = tags
    BY <1>1, <2>2, Zenon
  <2>4. l.out.wrote = {}
    BY <1>3, <2>1, WritesNothing
  <2>5. QED BY <2>3, <2>4
<1>6. CASE nr \in Known
  <2>1. ctx[t].nr = nr /\ nr # Unknown
    BY <1>4, <1>6, OtherNames, Zenon DEF SeesCall
  <2>2. tags' = tags \ Cleared(desc[nr], c)
    <3>1. CASE ~HasArgs(desc[nr])
      BY <1>1, <2>1, <3>1 DEF Cleared, HasArgs, Saves
    <3>2. CASE HasArgs(desc[nr])
      BY <1>1, <2>1, <3>2, Zenon DEF Cleared, HasArgs, Saves
    <3>3. QED BY <3>1, <3>2
  <2>3. CASE nr = "write"
    <3>1. ClearsNothing(desc[nr])
      BY <1>6, <2>3, Zenon DEF MemoryInv, MemoryTable
    <3>2. Cleared(desc[nr], c) = {}
      BY <3>1, NothingCleared, Zenon
    <3>3. l.out.wrote = {}
      BY <1>3, <2>3, WritesNothing
    <3>4. QED BY <2>2, <3>2, <3>3
  <2>4. CASE nr # "write"
    <3>1. desc[nr] = syscall_desc[nr]
      BY <1>6, <2>4, Zenon DEF MemoryInv, MemoryTable
    <3>2. HasArgs(desc[nr]) => \A i \in 0 .. desc[nr].nargs - 1 : ctx[t].arg[i] = l.arg[i]
      BY <1>4, <1>6, Zenon DEF SeesCall, HasArgs, Saves
    <3>3. c.arg = ctx[t].arg /\ c.ret = l.out.ret /\ c.mem = l.mem /\ c.out = l.out
      OBVIOUS
    <3> HIDE DEF c
    <3>4. HasArgs(desc[nr]) => Sees(desc[nr].nargs, c, l.arg, l.mem, l.out)
      BY <3>2, <3>3, Zenon DEF Sees
    <3>5. Exact(nr)
      BY <1>6, <2>4, AllExact
    <3>6. HasArgs(syscall_desc[nr]) => Sees(syscall_desc[nr].nargs, c, l.arg, l.mem, l.out)
      BY <3>1, <3>4, Zenon
    <3>7. Cleared(syscall_desc[nr], c) = l.out.wrote
      <4> HIDE DEF l, nr
      <4>1. QED BY <1>3, <3>5, <3>6, Zenon DEF Exact
    <3>8. QED BY <2>2, <3>1, <3>7
  <2>5. QED BY <2>3, <2>4
<1>7. QED BY <1>5, <1>6

LEMMA ExitMemory ==
    ASSUME DispatchInv, MemoryInv, NEW t \in Threads, sysexit_save(t) PROVE MemoryInv'
<1>1. tags' = tags \ call[t].out.wrote
  BY ExitClears
<1>2. call' = [call EXCEPT ![t] = NoCall] /\ UNCHANGED <<desc, tainted>>
  BY DEF sysexit_save
<1>3. DOMAIN call = Threads
  BY DEF DispatchInv, ThreadInv
<1>4. \A u \in Threads : call'[u] = IF u = t THEN NoCall ELSE call[u]
  BY <1>2, <1>3
<1>5. MemoryTable'
  BY <1>2, Zenon DEF MemoryInv, MemoryTable
<1>6. MemoryCalls' /\ PendingInv'
  <2>1. \A u \in Threads : CallOK(call[u]) /\ call[u].out.wrote \cap tainted = {}
    BY DEF MemoryInv, MemoryCalls, PendingInv
  <2>2. \A u \in Threads : CallOK(call'[u]) /\ call'[u].out.wrote \cap tainted = {}
    BY <1>4, <2>1, NoCallOK
  <2>3. QED BY <1>2, <2>2 DEF MemoryCalls, PendingInv, CallOK, Running
<1>7. NoStaleCell'
  <2>1. ASSUME NEW x \in tags', x \notin Pending' PROVE x \in tainted
    <3>1. x \in tags /\ x \notin call[t].out.wrote
      BY <1>1, <2>1
    <3>2. \A u \in Threads : x \notin call'[u].out.wrote
      BY <2>1 DEF Pending
    <3>3. \A u \in Threads : x \notin call[u].out.wrote
      BY <1>4, <3>1, <3>2
    <3>4. x \notin Pending
      BY <3>3 DEF Pending
    <3>5. QED BY <3>1, <3>4 DEF MemoryInv, NoStaleCell
  <2>2. QED BY <1>2, <2>1 DEF NoStaleCell
<1>8. NoLostCell'
  BY <1>1, <1>2 DEF MemoryInv, NoLostCell, PendingInv
<1>9. QED BY <1>5, <1>6, <1>7, <1>8 DEF MemoryInv

\* A step of thread t that changes its call and neither the table nor tags.
LEMMA EnterMemory ==
    ASSUME Expected, DispatchInv, MemoryInv, NEW t \in Threads, NEW nr, Enter(t, nr)
    PROVE  MemoryInv'
<1>1. PICK a \in ArgsOf(nr), m \in Mems(nr) :
          /\ AnyCall \/ ExpectedArgs(nr, a, m)
          /\ call' = [call EXCEPT ![t] = Call(nr, a, m, Answer(0, {}), FALSE)]
  BY Zenon DEF Enter
<1> DEFINE l == Call(nr, a, m, Answer(0, {}), FALSE)
<1>2. nr \in CallsOf[t] /\ UNCHANGED <<desc, tags, tainted>>
  BY DEF Enter
<1>3. call[t].nr = NoNr /\ call[t].out.wrote = {}
  BY DEF Enter, MemoryInv, MemoryCalls, CallOK
<1>4. nr \in Known \cup {"unknown"}
  BY <1>2, Calls, SyscallDispatchAssumption
<1>5. l.nr = nr /\ l.arg = a /\ l.mem = m /\ l.out.wrote = {} /\ ~l.done
  BY NothingWritten DEF Call
<1>6. \A u \in Threads : call'[u] = IF u = t THEN l ELSE call[u]
  BY <1>1 DEF DispatchInv, ThreadInv
<1> HIDE DEF l
<1>7. CallOK(l)
  <2>1. ExpectedArgs(nr, a, m)
    BY <1>1, Zenon DEF Expected
  <2>2. Running(l)
    BY <1>1, <1>4, <1>5, <2>1, Zenon DEF Running
  <2>3. nr # NoNr
    BY <1>4, Names, OtherNames
  <2>4. QED BY <1>5, <2>2, <2>3, Zenon DEF CallOK
<1>8. MemoryTable'
  BY <1>2, Zenon DEF MemoryInv, MemoryTable
<1>9. MemoryCalls' /\ PendingInv'
  <2>1. \A u \in Threads : CallOK(call[u]) /\ call[u].out.wrote \cap tainted = {}
    BY DEF MemoryInv, MemoryCalls, PendingInv
  <2>2. \A u \in Threads : CallOK(call'[u]) /\ call'[u].out.wrote \cap tainted = {}
    BY <1>5, <1>6, <1>7, <2>1
  <2>3. QED BY <1>2, <2>2 DEF MemoryCalls, PendingInv, CallOK, Running
<1>10. \A u \in Threads : call'[u].out.wrote = call[u].out.wrote
  BY <1>3, <1>5, <1>6
<1>11. NoStaleCell' /\ NoLostCell'
  BY <1>2, <1>10, Zenon DEF MemoryInv, NoStaleCell, NoLostCell, Pending
<1>12. QED BY <1>8, <1>9, <1>11 DEF MemoryInv

LEMMA KernelMemory ==
    ASSUME Expected, DispatchInv, MemoryInv, NEW t \in Threads, Kernel(t)
    PROVE  MemoryInv'
<1>1. PICK k \in Answers(call[t].nr, call[t].arg, call[t].mem) :
          /\ AnyCall \/ ExpectedAnswer(call[t].nr, call[t].mem, k)
          /\ call' = [call EXCEPT ![t] = Call(call[t].nr, call[t].arg, call[t].mem, k, TRUE)]
          /\ tainted' = tainted \ k.wrote
  BY Zenon DEF Kernel
<1> DEFINE l == Call(call[t].nr, call[t].arg, call[t].mem, k, TRUE)
<1>2. UNCHANGED <<desc, tags>> /\ call[t].nr # NoNr /\ ~call[t].done
  BY DEF Kernel
<1>3. \A u \in Threads : CallOK(call[u]) /\ call[u].out.wrote \cap tainted = {}
  BY DEF MemoryInv, MemoryCalls, PendingInv
<1>4. call[t].out.wrote = {} /\ Running(call[t])
  BY <1>2, <1>3 DEF CallOK
<1>5. /\ l.nr = call[t].nr /\ l.arg = call[t].arg /\ l.mem = call[t].mem
      /\ l.out = k /\ l.done = TRUE
  BY DEF Call
<1>6. \A u \in Threads : call'[u] = IF u = t THEN l ELSE call[u]
  BY <1>1 DEF DispatchInv, ThreadInv
<1> HIDE DEF l
<1>7. CallOK(l)
  <2>1. ExpectedAnswer(l.nr, l.mem, l.out)
    BY <1>1, <1>5, Zenon DEF Expected
  <2>2. Running(l)
    BY <1>1, <1>4, <1>5, <2>1, Zenon DEF Running
  <2>3. QED BY <1>2, <1>5, <2>2, Zenon DEF CallOK
<1>8. MemoryTable'
  BY <1>2, Zenon DEF MemoryInv, MemoryTable
<1>9. MemoryCalls' /\ PendingInv'
  <2>1. \A u \in Threads : CallOK(call'[u])
    BY <1>3, <1>6, <1>7
  <2>2. \A u \in Threads : call'[u].out.wrote \cap tainted' = {}
    BY <1>1, <1>3, <1>5, <1>6
  <2>3. QED BY <2>1, <2>2 DEF MemoryCalls, PendingInv, CallOK, Running
<1>10. NoStaleCell'
  <2>1. ASSUME NEW x \in tags, x \notin Pending' PROVE x \in tainted'
    <3>1. \A u \in Threads : x \notin call'[u].out.wrote
      BY <2>1 DEF Pending
    <3>2. x \notin k.wrote /\ \A u \in Threads : x \notin call[u].out.wrote
      BY <1>4, <1>5, <1>6, <3>1
    <3>3. x \in tainted
      BY <3>2 DEF Pending, MemoryInv, NoStaleCell
    <3>4. QED BY <1>1, <3>2, <3>3
  <2>2. QED BY <1>2, <2>1 DEF NoStaleCell
<1>11. NoLostCell'
  BY <1>1, <1>2 DEF MemoryInv, NoLostCell
<1>12. QED BY <1>8, <1>9, <1>10, <1>11 DEF MemoryInv

\* A copy from and to cells that no call is about to clear.
LEMMA MoveMemory ==
    ASSUME MemoryInv, NEW t \in Threads, NEW d \in Cell, NEW s \in Cell, Move(t, d, s)
    PROVE  MemoryInv'
<1>1. /\ {d, s} \cap Pending = {} /\ UNCHANGED <<desc, call>>
      /\ tags' = IF s \in tags THEN tags \cup {d} ELSE tags \ {d}
      /\ tainted' = IF s \in tainted THEN tainted \cup {d} ELSE tainted \ {d}
  BY DEF Move
<1>2. MemoryTable' /\ MemoryCalls'
  BY <1>1 DEF MemoryInv, MemoryTable, MemoryCalls, CallOK, Running
<1>3. \A u \in Threads : d \notin call[u].out.wrote
  BY <1>1 DEF Pending
<1>4. PendingInv'
  BY <1>1, <1>3 DEF MemoryInv, PendingInv
<1>5. Pending' = Pending
  BY <1>1, Zenon DEF Pending
<1>6. NoStaleCell' /\ NoLostCell'
  BY <1>1, <1>5 DEF MemoryInv, NoStaleCell, NoLostCell
<1>7. QED BY <1>2, <1>4, <1>6 DEF MemoryInv

LEMMA RegisterMemory ==
    ASSUME Expected, DispatchInv, MemoryInv, NEW nr \in Registered, Register(nr)
    PROVE  MemoryInv'
<1>1. PICK d \in {syscall_set_pre(desc[nr], "tool_hook"), syscall_set_post(desc[nr], "tool_hook"),
                  syscall_clr_pre(desc[nr]), syscall_clr_post(desc[nr])} :
          desc' = [desc EXCEPT ![nr] = d]
  BY Zenon DEF Register
<1>2. UNCHANGED <<call, tags, tainted>> /\ nr = "write"
  BY DEF Register, Expected
<1>3. "write" \in Known /\ desc \in [Known -> Desc]
  BY Domain1, SMT DEF Known, DispatchInv, TableInv
<1>4. desc["write"] \in Desc /\ ClearsNothing(desc["write"])
  BY <1>3, Zenon DEF MemoryInv, MemoryTable
<1>5. ClearsNothing(d)
  <2> DEFINE d0 == desc["write"]
  <2> HIDE DEF d0
  <2>1. d0 \in Desc /\ ClearsNothing(d0)
    BY <1>4 DEF d0
  <2>2. d \in {syscall_set_pre(d0, "tool_hook"), syscall_set_post(d0, "tool_hook"),
               syscall_clr_pre(d0), syscall_clr_post(d0)}
    BY <1>1, <1>2, Zenon DEF d0
  <2>3. CASE d = syscall_set_pre(d0, "tool_hook")
    BY <2>1, <2>3 DEF Desc, ClearsNothing, syscall_set_pre
  <2>4. CASE d = syscall_set_post(d0, "tool_hook")
    BY <2>1, <2>4 DEF Desc, ClearsNothing, syscall_set_post
  <2>5. CASE d = syscall_clr_pre(d0)
    BY <2>1, <2>5 DEF Desc, ClearsNothing, syscall_clr_pre
  <2>6. CASE d = syscall_clr_post(d0)
    BY <2>1, <2>6 DEF Desc, ClearsNothing, syscall_clr_post
  <2>7. QED BY <2>2, <2>3, <2>4, <2>5, <2>6
<1>6. \A n \in Known : desc'[n] = IF n = "write" THEN d ELSE desc[n]
  BY <1>1, <1>2, <1>3, SMT
<1>7. MemoryTable'
  BY <1>5, <1>6, Zenon DEF MemoryInv, MemoryTable
<1>8. MemoryCalls' /\ PendingInv' /\ NoStaleCell' /\ NoLostCell'
  BY <1>2 DEF MemoryInv, MemoryCalls, CallOK, Running, PendingInv, NoStaleCell, NoLostCell, Pending
<1>9. QED BY <1>7, <1>8 DEF MemoryInv

LEMMA NextMemory ==
    ASSUME Expected PROVE DispatchInv /\ MemoryInv /\ [Next]_vars => MemoryInv'
<1> SUFFICES ASSUME DispatchInv, MemoryInv, [Next]_vars PROVE MemoryInv'
  OBVIOUS
<1>1. ASSUME UNCHANGED <<desc, call, tags, tainted>> PROVE MemoryInv'
  BY <1>1 DEF MemoryInv, MemoryTable, MemoryCalls, CallOK, Running, PendingInv, NoStaleCell,
              NoLostCell, Pending
<1>2. CASE UNCHANGED vars
  BY <1>1, <1>2 DEF vars
<1>3. CASE \E nr \in Registered : Register(nr)
  BY <1>3, RegisterMemory
<1>4. CASE StartProgram
  BY <1>1, <1>4 DEF StartProgram
<1>5. ASSUME NEW t \in Threads, NEW nr \in CallsOf[t], Enter(t, nr) PROVE MemoryInv'
  BY <1>5, EnterMemory
<1>6. ASSUME NEW t \in Threads, Kernel(t) PROVE MemoryInv'
  BY <1>6, KernelMemory
<1>7. ASSUME NEW t \in Threads, sysexit_save(t) PROVE MemoryInv'
  BY <1>7, ExitMemory
<1>8. ASSUME NEW t \in Threads, NEW d \in Cell, NEW s \in Cell, Move(t, d, s) PROVE MemoryInv'
  BY <1>8, MoveMemory
<1>9. QED BY <1>2, <1>3, <1>4, <1>5, <1>6, <1>7, <1>8 DEF Next

LEMMA MemoryHolds == ASSUME Expected PROVE Spec => [](DispatchInv /\ MemoryInv)
<1>1. Init => DispatchInv /\ MemoryInv
  BY InitDispatch, InitMemory
<1>2. (DispatchInv /\ MemoryInv) /\ [Next]_vars => (DispatchInv /\ MemoryInv)'
  BY NextDispatch, NextMemory
<1>3. QED BY <1>1, <1>2, PTL DEF Spec

(* For any threads, memory and lengths, and any interleaving of the calls that   *)
(* Expected describes: after a call no cell the kernel wrote, and no copy of one,  *)
(* keeps the tag of what was there before (the hooks of syscall_desc64.cc and the *)
(* default handling of sysexit_save).                                             *)
THEOREM NoCellStale == ASSUME Expected PROVE Spec => []NoStaleCell
<1>1. DispatchInv /\ MemoryInv => NoStaleCell
  BY DEF MemoryInv
<1>2. QED BY MemoryHolds, <1>1, PTL

(* With the same bounds, the end of a call takes the tag of no cell that still    *)
(* holds tracked data.                                                           *)
THEOREM NoCellLost == ASSUME Expected PROVE Spec => []NoLostCell
<1>1. DispatchInv /\ MemoryInv => NoLostCell
  BY DEF MemoryInv
<1>2. QED BY MemoryHolds, <1>1, PTL

-----------------------------------------------------------------------------
(* The types of arguments and answers *)

Addrint == 0 .. Word - 1

AnswerOK(k) == k.ret \in Addrint /\ k.wrote \subseteq Cell

\* A call that passes an ADDRINT in every argument, and whose answers are a result of that
\* width and cells of memory.
CallTyped(nr) ==
    /\ \A a \in ArgsOf(nr) : \A i \in 0 .. 5 : a[i] \in Addrint
    /\ \A a \in ArgsOf(nr), m \in Mems(nr) : \A k \in Success(nr, a, m) : AnswerOK(k)

\* Nothing a program passes is wider than an ADDRINT.
Fits(s) == s \subseteq Addrint

LEMMA Values ==
    /\ Fits(Z)
    /\ Fits(B)
    /\ Fits(P)
    /\ Fits(N)
    /\ Fits(Headers)
    /\ Fits(MmapLen)
    /\ Fits(IovCnt)
    /\ Fits(IpcCmd)
    /\ Fits(0 .. 4)
    /\ Fits(1 .. 2)
    /\ Fits({0, 1})
    /\ Fits({1})
    /\ Fits({2, 10})
    /\ Fits({F.GETFL, F.GETLK})
    /\ Fits({QCMD(Q.GETQUOTA, 0), QCMD(Q.SETQUOTA, 0)})
    /\ Fits({ARCH.SET_FS, ARCH.GET_FS})
    /\ 0 \in Addrint /\ 1 \in Addrint /\ Minus1 \in Addrint
<1>1. /\ Word \in Nat /\ Word >= 64 /\ Word > 2 * MaxLen /\ Word > 2 * Size
      /\ MaxLen \in Nat /\ Size \in Nat
  BY SyscallsAssumption
<1>2. 0 .. 63 \subseteq Addrint
  BY <1>1 DEF Addrint
<1>3. (Ptrs \subseteq Addrint) /\ (0 .. MaxLen \subseteq Addrint)
  BY <1>1, SyscallsAssumption DEF Addrint
<1>4. /\ Z \subseteq Addrint
      /\ B \subseteq Addrint
      /\ P \subseteq Addrint
      /\ N \subseteq Addrint
      /\ Headers \subseteq Addrint
  BY <1>2, <1>3 DEF Z, B, P, N, Headers, Null
<1>5. /\ MmapLen \subseteq Addrint
      /\ IovCnt \subseteq Addrint
      /\ 0 .. 4 \subseteq Addrint
      /\ 1 .. 2 \subseteq Addrint
      /\ {0, 1} \subseteq Addrint
      /\ {1} \subseteq Addrint
      /\ {2, 10} \subseteq Addrint
  BY <1>2 DEF MmapLen, IovCnt, PAGE_SZ
<1>6. IPC.RMID = 0 /\ IPC.STAT = 2 /\ IPC.INFO = 3 /\ F.GETFL = 3 /\ F.GETLK = 5
      /\ Q.GETQUOTA = 1 /\ Q.SETQUOTA = 2 /\ ARCH.SET_FS = 2 /\ ARCH.GET_FS = 3
  BY DEF IPC, F, Q, ARCH
<1>7. IpcCmd \subseteq Addrint
  BY <1>2, <1>6 DEF IpcCmd, IPC_FIX
<1>8. /\ {F.GETFL, F.GETLK} \subseteq Addrint
      /\ {QCMD(Q.GETQUOTA, 0), QCMD(Q.SETQUOTA, 0)} \subseteq Addrint
      /\ {ARCH.SET_FS, ARCH.GET_FS} \subseteq Addrint
  BY <1>2, <1>6 DEF QCMD
<1>9. 0 \in Addrint /\ 1 \in Addrint /\ Minus1 \in Addrint
  BY <1>1, <1>2 DEF Addrint, Minus1
<1>10. QED BY <1>4, <1>5, <1>7, <1>8, <1>9, Zenon DEF Fits

LEMMA ArgsTyped ==
    ASSUME NEW nr, \A i \in 1 .. 6 : Fits(Params[nr][i])
    PROVE  \A a \in ArgsOf(nr) : \A i \in 0 .. 5 : a[i] \in Addrint
<1> DEFINE v == Params[nr]
<1>1. ASSUME NEW a \in ArgsOf(nr) PROVE \A i \in 0 .. 5 : a[i] \in Addrint
  <2>1. PICK x \in v[1] \X v[2] \X v[3] \X v[4] \X v[5] \X v[6] : a = [i \in 0 .. 5 |-> x[i + 1]]
    BY <1>1 DEF ArgsOf
  <2>2. /\ v[1] \subseteq Addrint /\ v[2] \subseteq Addrint /\ v[3] \subseteq Addrint
        /\ v[4] \subseteq Addrint /\ v[5] \subseteq Addrint /\ v[6] \subseteq Addrint
    BY DEF Fits
  <2> HIDE DEF v
  <2>3. /\ x[1] \in Addrint /\ x[2] \in Addrint /\ x[3] \in Addrint
        /\ x[4] \in Addrint /\ x[5] \in Addrint /\ x[6] \in Addrint
    BY <2>1, <2>2
  <2>4. \A i \in 0 .. 5 : i = 0 \/ i = 1 \/ i = 2 \/ i = 3 \/ i = 4 \/ i = 5
    OBVIOUS
  <2>5. QED BY <2>1, <2>3, <2>4
<1>2. QED BY <1>1

LEMMA ValueTyped ==
    /\ \A p \in Ptrs : p \in Addrint
    /\ \A r \in 0 .. 4 : r \in Addrint
    /\ 0 \in Addrint /\ 1 \in Addrint /\ Minus1 \in Addrint
BY Values DEF Fits, B

LEMMA CountTyped == \A n \in N : \A r \in 0 .. n : r \in Addrint
BY SyscallsAssumption DEF N, Addrint

LEMMA CellsTyped == \A p, n : Cells(p, n) \subseteq Cell
BY Zenon DEF Cells

LEMMA AnswerTyped ==
    ASSUME NEW r \in Addrint, NEW w, w \subseteq Cell
    PROVE  /\ AnswerOK(Answer(r, w))
           /\ \A l : AnswerOK(AnswerLen(r, l, w))
           /\ \A x, l, c : AnswerOK(AnswerMsg(r, x, l, c, w))
BY DEF AnswerOK, Answer, AnswerLen, AnswerMsg

LEMMA NothingTyped == \A r \in N : AnswerOK(Answer(r, {}))
<1>1. \A r \in N : r \in Addrint
  BY Values DEF Fits
<1>2. QED BY <1>1 DEF AnswerOK, Answer

LEMMA TransfersTyped == \A p : \A n \in N : \A k \in Transfers(p, n) : AnswerOK(k)
<1> SUFFICES ASSUME NEW p, NEW n \in N, NEW k \in Transfers(p, n) PROVE AnswerOK(k)
  OBVIOUS
<1>1. PICK r \in 0 .. n : k = Answer(r, Cells(p, r))
  BY DEF Transfers
<1>2. r \in Addrint /\ Cells(p, r) \subseteq Cell
  BY CountTyped, CellsTyped
<1>3. QED BY <1>1, <1>2, AnswerTyped, Zenon

LEMMA SizedTyped == \A p : \A n \in N : \A k \in Sized(p, n) : AnswerOK(k)
<1> SUFFICES ASSUME NEW p, NEW n \in N, NEW k \in Sized(p, n) PROVE AnswerOK(k)
  OBVIOUS
<1>1. k \in Transfers(p, n) \/ \E r \in N : k = Answer(r, {})
  BY DEF Sized
<1>2. QED BY <1>1, TransfersTyped, NothingTyped

LEMMA PeerTyped == \A p, q, cap, l : Peer(p, q, cap, l) \subseteq Cell
BY CellsTyped DEF Peer

\* The buffers of Vectors are cells of memory.
LEMMA StreamTyped ==
    ASSUME NEW v \in Vectors, NEW cnt \in 0 .. 2, NEW n \in 0 .. 4
    PROVE  Stream(v, cnt, n) \subseteq Cell
<1>1. n \in Nat
  OBVIOUS
<1>2. ClearVector(v, cnt, n) = Stream(v, cnt, n)
  BY <1>1, VectorExact
<1>3. ClearVector(v, cnt, n) \subseteq Cell
  <2>1. \A x \in ClearVector(v, cnt, n) : \E p, l : x \in tagmap_clrn(p, l)
    BY Zenon DEF ClearVector
  <2>2. QED BY <2>1, CellsTyped, Zenon DEF tagmap_clrn
<1>4. QED BY <1>2, <1>3

LEMMA MessageTyped ==
    ASSUME NEW h, NEW m, m.iov \in Vectors, NEW r \in 0 .. 4, NEW l, NEW c
    PROVE  Message(h, m, r, l, c) \subseteq Cell
<1>1. Stream(m.iov, 2, r) \subseteq Cell
  BY StreamTyped
<1>2. Flags(h) \subseteq Cell /\ Namelen(h) \subseteq Cell /\ Controllen(h) \subseteq Cell
  BY CellsTyped, Zenon DEF Flags, Namelen, Controllen
<1>3. /\ (IF m.name = Null THEN {} ELSE Cells(m.name, Least(m.len, l)) \cup Namelen(h))
          \subseteq Cell
      /\ (IF m.control = Null THEN {} ELSE Cells(m.control, c) \cup Controllen(h)) \subseteq Cell
  BY <1>2, CellsTyped
<1>4. QED BY <1>1, <1>2, <1>3, Zenon DEF Message

LEMMA ReadTyped == CallTyped("read")
<1>1. Params["read"] = <<Z, B, N, Z, Z, Z>>
  BY Zenon DEF Params
<1>2. \A a \in ArgsOf("read") : \A i \in 0 .. 5 : a[i] \in Addrint
  <2>1. \A i \in 1 .. 6 : Fits(Params["read"][i])
    BY <1>1, Values, SMTT(30)
  <2>2. QED BY <2>1, ArgsTyped, Zenon
<1>3. ASSUME NEW a \in ArgsOf("read"), NEW m \in Mems("read"),
             NEW k \in Success("read", a, m)
      PROVE  AnswerOK(k)
  <2>1. a[2] \in N
    BY <1>1, ArgIn, Zenon
  <2>2. Success("read", a, m) = Transfers(a[1], a[2])
    BY SMTT(30) DEF Success
  <2>3. QED BY <2>1, <2>2, TransfersTyped, SizedTyped, NothingTyped
<1>4. QED BY <1>2, <1>3, Zenon DEF CallTyped

LEMMA ReadlinkatTyped == CallTyped("readlinkat")
<1>1. Params["readlinkat"] = <<Z, Z, B, N, Z, Z>>
  BY Zenon DEF Params
<1>2. \A a \in ArgsOf("readlinkat") : \A i \in 0 .. 5 : a[i] \in Addrint
  <2>1. \A i \in 1 .. 6 : Fits(Params["readlinkat"][i])
    BY <1>1, Values, SMTT(30)
  <2>2. QED BY <2>1, ArgsTyped, Zenon
<1>3. ASSUME NEW a \in ArgsOf("readlinkat"), NEW m \in Mems("readlinkat"),
             NEW k \in Success("readlinkat", a, m)
      PROVE  AnswerOK(k)
  <2>1. a[3] \in N
    BY <1>1, ArgIn, Zenon
  <2>2. Success("readlinkat", a, m) = Transfers(a[2], a[3])
    BY SMTT(30) DEF Success
  <2>3. QED BY <2>1, <2>2, TransfersTyped, SizedTyped, NothingTyped
<1>4. QED BY <1>2, <1>3, Zenon DEF CallTyped

LEMMA GetdentsTyped == CallTyped("getdents")
<1>1. Params["getdents"] = <<Z, B, N, Z, Z, Z>>
  BY Zenon DEF Params
<1>2. \A a \in ArgsOf("getdents") : \A i \in 0 .. 5 : a[i] \in Addrint
  <2>1. \A i \in 1 .. 6 : Fits(Params["getdents"][i])
    BY <1>1, Values, SMTT(30)
  <2>2. QED BY <2>1, ArgsTyped, Zenon
<1>3. ASSUME NEW a \in ArgsOf("getdents"), NEW m \in Mems("getdents"),
             NEW k \in Success("getdents", a, m)
      PROVE  AnswerOK(k)
  <2>1. a[2] \in N
    BY <1>1, ArgIn, Zenon
  <2>2. Success("getdents", a, m) = Transfers(a[1], a[2])
    BY SMTT(30) DEF Success
  <2>3. QED BY <2>1, <2>2, TransfersTyped, SizedTyped, NothingTyped
<1>4. QED BY <1>2, <1>3, Zenon DEF CallTyped

LEMMA GetcwdTyped == CallTyped("getcwd")
<1>1. Params["getcwd"] = <<B, N, Z, Z, Z, Z>>
  BY Zenon DEF Params
<1>2. \A a \in ArgsOf("getcwd") : \A i \in 0 .. 5 : a[i] \in Addrint
  <2>1. \A i \in 1 .. 6 : Fits(Params["getcwd"][i])
    BY <1>1, Values, SMTT(30)
  <2>2. QED BY <2>1, ArgsTyped, Zenon
<1>3. ASSUME NEW a \in ArgsOf("getcwd"), NEW m \in Mems("getcwd"),
             NEW k \in Success("getcwd", a, m)
      PROVE  AnswerOK(k)
  <2>1. a[1] \in N
    BY <1>1, ArgIn, Zenon
  <2>2. Success("getcwd", a, m) = Transfers(a[0], a[1])
    BY SMTT(30) DEF Success
  <2>3. QED BY <2>1, <2>2, TransfersTyped, SizedTyped, NothingTyped
<1>4. QED BY <1>2, <1>3, Zenon DEF CallTyped

LEMMA LookupDcookieTyped == CallTyped("lookup_dcookie")
<1>1. Params["lookup_dcookie"] = <<Z, B, N, Z, Z, Z>>
  BY Zenon DEF Params
<1>2. \A a \in ArgsOf("lookup_dcookie") : \A i \in 0 .. 5 : a[i] \in Addrint
  <2>1. \A i \in 1 .. 6 : Fits(Params["lookup_dcookie"][i])
    BY <1>1, Values, SMTT(30)
  <2>2. QED BY <2>1, ArgsTyped, Zenon
<1>3. ASSUME NEW a \in ArgsOf("lookup_dcookie"), NEW m \in Mems("lookup_dcookie"),
             NEW k \in Success("lookup_dcookie", a, m)
      PROVE  AnswerOK(k)
  <2>1. a[2] \in N
    BY <1>1, ArgIn, Zenon
  <2>2. Success("lookup_dcookie", a, m) = Transfers(a[1], a[2])
    BY SMTT(30) DEF Success
  <2>3. QED BY <2>1, <2>2, TransfersTyped, SizedTyped, NothingTyped
<1>4. QED BY <1>2, <1>3, Zenon DEF CallTyped

LEMMA ModifyLdtTyped == CallTyped("modify_ldt")
<1>1. Params["modify_ldt"] = <<Z, B, N, Z, Z, Z>>
  BY Zenon DEF Params
<1>2. \A a \in ArgsOf("modify_ldt") : \A i \in 0 .. 5 : a[i] \in Addrint
  <2>1. \A i \in 1 .. 6 : Fits(Params["modify_ldt"][i])
    BY <1>1, Values, SMTT(30)
  <2>2. QED BY <2>1, ArgsTyped, Zenon
<1>3. ASSUME NEW a \in ArgsOf("modify_ldt"), NEW m \in Mems("modify_ldt"),
             NEW k \in Success("modify_ldt", a, m)
      PROVE  AnswerOK(k)
  <2>1. a[2] \in N
    BY <1>1, ArgIn, Zenon
  <2>2. Success("modify_ldt", a, m) = Transfers(a[1], a[2])
    BY SMTT(30) DEF Success
  <2>3. QED BY <2>1, <2>2, TransfersTyped, SizedTyped, NothingTyped
<1>4. QED BY <1>2, <1>3, Zenon DEF CallTyped

LEMMA GetgroupsTyped == CallTyped("getgroups")
<1>1. Params["getgroups"] = <<N, P, Z, Z, Z, Z>>
  BY Zenon DEF Params
<1>2. \A a \in ArgsOf("getgroups") : \A i \in 0 .. 5 : a[i] \in Addrint
  <2>1. \A i \in 1 .. 6 : Fits(Params["getgroups"][i])
    BY <1>1, Values, SMTT(30)
  <2>2. QED BY <2>1, ArgsTyped, Zenon
<1>3. ASSUME NEW a \in ArgsOf("getgroups"), NEW m \in Mems("getgroups"),
             NEW k \in Success("getgroups", a, m)
      PROVE  AnswerOK(k)
  <2>1. a[0] \in N
    BY <1>1, ArgIn, Zenon
  <2>2. Success("getgroups", a, m) = Sized(a[1], a[0])
    BY SMTT(30) DEF Success
  <2>3. QED BY <2>1, <2>2, TransfersTyped, SizedTyped, NothingTyped
<1>4. QED BY <1>2, <1>3, Zenon DEF CallTyped

LEMMA ListxattrTyped == CallTyped("listxattr")
<1>1. Params["listxattr"] = <<Z, P, N, Z, Z, Z>>
  BY Zenon DEF Params
<1>2. \A a \in ArgsOf("listxattr") : \A i \in 0 .. 5 : a[i] \in Addrint
  <2>1. \A i \in 1 .. 6 : Fits(Params["listxattr"][i])
    BY <1>1, Values, SMTT(30)
  <2>2. QED BY <2>1, ArgsTyped, Zenon
<1>3. ASSUME NEW a \in ArgsOf("listxattr"), NEW m \in Mems("listxattr"),
             NEW k \in Success("listxattr", a, m)
      PROVE  AnswerOK(k)
  <2>1. a[2] \in N
    BY <1>1, ArgIn, Zenon
  <2>2. Success("listxattr", a, m) = Sized(a[1], a[2])
    BY SMTT(30) DEF Success
  <2>3. QED BY <2>1, <2>2, TransfersTyped, SizedTyped, NothingTyped
<1>4. QED BY <1>2, <1>3, Zenon DEF CallTyped

LEMMA GetxattrTyped == CallTyped("getxattr")
<1>1. Params["getxattr"] = <<Z, Z, P, N, Z, Z>>
  BY Zenon DEF Params
<1>2. \A a \in ArgsOf("getxattr") : \A i \in 0 .. 5 : a[i] \in Addrint
  <2>1. \A i \in 1 .. 6 : Fits(Params["getxattr"][i])
    BY <1>1, Values, SMTT(30)
  <2>2. QED BY <2>1, ArgsTyped, Zenon
<1>3. ASSUME NEW a \in ArgsOf("getxattr"), NEW m \in Mems("getxattr"),
             NEW k \in Success("getxattr", a, m)
      PROVE  AnswerOK(k)
  <2>1. a[3] \in N
    BY <1>1, ArgIn, Zenon
  <2>2. Success("getxattr", a, m) = Sized(a[2], a[3])
    BY SMTT(30) DEF Success
  <2>3. QED BY <2>1, <2>2, TransfersTyped, SizedTyped, NothingTyped
<1>4. QED BY <1>2, <1>3, Zenon DEF CallTyped

LEMMA EpollWaitTyped == CallTyped("epoll_wait")
<1>1. Params["epoll_wait"] = <<Z, B, N, Z, Z, Z>>
  BY Zenon DEF Params
<1>2. \A a \in ArgsOf("epoll_wait") : \A i \in 0 .. 5 : a[i] \in Addrint
  <2>1. \A i \in 1 .. 6 : Fits(Params["epoll_wait"][i])
    BY <1>1, Values, SMTT(30)
  <2>2. QED BY <2>1, ArgsTyped, Zenon
<1>3. ASSUME NEW a \in ArgsOf("epoll_wait"), NEW m \in Mems("epoll_wait"),
             NEW k \in Success("epoll_wait", a, m)
      PROVE  AnswerOK(k)
  <2>1. a[2] \in N
    BY <1>1, ArgIn, Zenon
  <2>2. Success("epoll_wait", a, m) = {Answer(r, Cells(a[1], STRUCT * r)) : r \in 0 .. a[2]}
    BY SMTT(30) DEF Success
  <2>3. PICK r \in 0 .. a[2] : k = Answer(r, Cells(a[1], STRUCT * r))
    BY <2>2, Zenon
  <2>4. r \in Addrint
    BY <2>1, CountTyped
  <2>5. (Cells(a[1], STRUCT * r)) \subseteq Cell
    BY CellsTyped
  <2>6. QED BY <2>3, <2>4, <2>5, AnswerTyped, Zenon
<1>4. QED BY <1>2, <1>3, Zenon DEF CallTyped

LEMMA IoGeteventsTyped == CallTyped("io_getevents")
<1>1. Params["io_getevents"] = <<Z, Z, N, B, P, Z>>
  BY Zenon DEF Params
<1>2. \A a \in ArgsOf("io_getevents") : \A i \in 0 .. 5 : a[i] \in Addrint
  <2>1. \A i \in 1 .. 6 : Fits(Params["io_getevents"][i])
    BY <1>1, Values, SMTT(30)
  <2>2. QED BY <2>1, ArgsTyped, Zenon
<1>3. ASSUME NEW a \in ArgsOf("io_getevents"), NEW m \in Mems("io_getevents"),
             NEW k \in Success("io_getevents", a, m)
      PROVE  AnswerOK(k)
  <2>1. a[2] \in N
    BY <1>1, ArgIn, Zenon
  <2>2. Success("io_getevents", a, m) = {Answer(r, Cells(a[3], STRUCT * r)) : r \in 0 .. a[2]}
    BY SMTT(30) DEF Success
  <2>3. PICK r \in 0 .. a[2] : k = Answer(r, Cells(a[3], STRUCT * r))
    BY <2>2, Zenon
  <2>4. r \in Addrint
    BY <2>1, CountTyped
  <2>5. (Cells(a[3], STRUCT * r)) \subseteq Cell
    BY CellsTyped
  <2>6. QED BY <2>3, <2>4, <2>5, AnswerTyped, Zenon
<1>4. QED BY <1>2, <1>3, Zenon DEF CallTyped

LEMMA PollTyped == CallTyped("poll")
<1>1. Params["poll"] = <<B, N, Z, Z, Z, Z>>
  BY Zenon DEF Params
<1>2. \A a \in ArgsOf("poll") : \A i \in 0 .. 5 : a[i] \in Addrint
  <2>1. \A i \in 1 .. 6 : Fits(Params["poll"][i])
    BY <1>1, Values, SMTT(30)
  <2>2. QED BY <2>1, ArgsTyped, Zenon
<1>3. ASSUME NEW a \in ArgsOf("poll"), NEW m \in Mems("poll"),
             NEW k \in Success("poll", a, m)
      PROVE  AnswerOK(k)
  <2>1. a[1] \in N
    BY <1>1, ArgIn, Zenon
  <2>2. Success("poll", a, m) = {Answer(r, {a[0] + 2 * i + 1 : i \in 0 .. a[1] - 1} \cap Cell)
            : r \in 0 .. a[1]}
    BY SMTT(30) DEF Success
  <2>3. PICK r \in 0 .. a[1] : k = Answer(r, {a[0] + 2 * i + 1 : i \in 0 .. a[1] - 1} \cap Cell)
    BY <2>2, Zenon
  <2>4. r \in Addrint
    BY <2>1, CountTyped
  <2>5. ({a[0] + 2 * i + 1 : i \in 0 .. a[1] - 1} \cap Cell) \subseteq Cell
    BY CellsTyped
  <2>6. QED BY <2>3, <2>4, <2>5, AnswerTyped, Zenon
<1>4. QED BY <1>2, <1>3, Zenon DEF CallTyped

LEMMA MqTimedreceiveTyped == CallTyped("mq_timedreceive")
<1>1. Params["mq_timedreceive"] = <<Z, B, N, P, Z, Z>>
  BY Zenon DEF Params
<1>2. \A a \in ArgsOf("mq_timedreceive") : \A i \in 0 .. 5 : a[i] \in Addrint
  <2>1. \A i \in 1 .. 6 : Fits(Params["mq_timedreceive"][i])
    BY <1>1, Values, SMTT(30)
  <2>2. QED BY <2>1, ArgsTyped, Zenon
<1>3. ASSUME NEW a \in ArgsOf("mq_timedreceive"), NEW m \in Mems("mq_timedreceive"),
             NEW k \in Success("mq_timedreceive", a, m)
      PROVE  AnswerOK(k)
  <2>1. a[2] \in N
    BY <1>1, ArgIn, Zenon
  <2>2. Success("mq_timedreceive", a, m) = {Answer(r, Cells(a[1], r) \cup Cells(a[3], INT)) : r
            \in 0 .. a[2]}
    BY SMTT(30) DEF Success
  <2>3. PICK r \in 0 .. a[2] : k = Answer(r, Cells(a[1], r) \cup Cells(a[3], INT))
    BY <2>2, Zenon
  <2>4. r \in Addrint
    BY <2>1, CountTyped
  <2>5. (Cells(a[1], r) \cup Cells(a[3], INT)) \subseteq Cell
    BY CellsTyped
  <2>6. QED BY <2>3, <2>4, <2>5, AnswerTyped, Zenon
<1>4. QED BY <1>2, <1>3, Zenon DEF CallTyped

LEMMA MsgrcvTyped == CallTyped("msgrcv")
<1>1. Params["msgrcv"] = <<Z, B, N, Z, Z, Z>>
  BY Zenon DEF Params
<1>2. \A a \in ArgsOf("msgrcv") : \A i \in 0 .. 5 : a[i] \in Addrint
  <2>1. \A i \in 1 .. 6 : Fits(Params["msgrcv"][i])
    BY <1>1, Values, SMTT(30)
  <2>2. QED BY <2>1, ArgsTyped, Zenon
<1>3. ASSUME NEW a \in ArgsOf("msgrcv"), NEW m \in Mems("msgrcv"),
             NEW k \in Success("msgrcv", a, m)
      PROVE  AnswerOK(k)
  <2>1. a[2] \in N
    BY <1>1, ArgIn, Zenon
  <2>2. Success("msgrcv", a, m) = {Answer(r, Cells(a[1], LONG + r)) : r \in 0 .. a[2]}
    BY SMTT(30) DEF Success
  <2>3. PICK r \in 0 .. a[2] : k = Answer(r, Cells(a[1], LONG + r))
    BY <2>2, Zenon
  <2>4. r \in Addrint
    BY <2>1, CountTyped
  <2>5. (Cells(a[1], LONG + r)) \subseteq Cell
    BY CellsTyped
  <2>6. QED BY <2>3, <2>4, <2>5, AnswerTyped, Zenon
<1>4. QED BY <1>2, <1>3, Zenon DEF CallTyped

LEMMA GetMempolicyTyped == CallTyped("get_mempolicy")
<1>1. Params["get_mempolicy"] = <<P, P, Z, Z, 0 .. 4, Z>>
  BY Zenon DEF Params
<1>2. \A a \in ArgsOf("get_mempolicy") : \A i \in 0 .. 5 : a[i] \in Addrint
  <2>1. \A i \in 1 .. 6 : Fits(Params["get_mempolicy"][i])
    BY <1>1, Values, SMTT(30)
  <2>2. QED BY <2>1, ArgsTyped, Zenon
<1>3. ASSUME NEW a \in ArgsOf("get_mempolicy"), NEW m \in Mems("get_mempolicy"),
             NEW k \in Success("get_mempolicy", a, m)
      PROVE  AnswerOK(k)
  <2>1. Success("get_mempolicy", a, m) = {Answer(0, Cells(a[0], INT) \cup Cells(a[1], LONG))}
    BY SMTT(30) DEF Success
  <2>2. k = Answer(0, Cells(a[0], INT) \cup Cells(a[1], LONG))
    BY <2>1, Zenon
  <2>3. (Cells(a[0], INT) \cup Cells(a[1], LONG)) \subseteq Cell
    BY CellsTyped
  <2>4. QED BY <2>2, <2>3, ValueTyped, AnswerTyped, Zenon
<1>4. QED BY <1>2, <1>3, Zenon DEF CallTyped

LEMMA MincoreTyped == CallTyped("mincore")
<1>1. Params["mincore"] = <<Z, N, B, Z, Z, Z>>
  BY Zenon DEF Params
<1>2. \A a \in ArgsOf("mincore") : \A i \in 0 .. 5 : a[i] \in Addrint
  <2>1. \A i \in 1 .. 6 : Fits(Params["mincore"][i])
    BY <1>1, Values, SMTT(30)
  <2>2. QED BY <2>1, ArgsTyped, Zenon
<1>3. ASSUME NEW a \in ArgsOf("mincore"), NEW m \in Mems("mincore"),
             NEW k \in Success("mincore", a, m)
      PROVE  AnswerOK(k)
  <2>1. Success("mincore", a, m) = {Answer(0, Cells(a[2], Ceil(a[1], PAGE_SZ)))}
    BY SMTT(30) DEF Success
  <2>2. k = Answer(0, Cells(a[2], Ceil(a[1], PAGE_SZ)))
    BY <2>1, Zenon
  <2>3. (Cells(a[2], Ceil(a[1], PAGE_SZ))) \subseteq Cell
    BY CellsTyped
  <2>4. QED BY <2>2, <2>3, ValueTyped, AnswerTyped, Zenon
<1>4. QED BY <1>2, <1>3, Zenon DEF CallTyped

LEMMA MmapTyped == CallTyped("mmap")
<1>1. Params["mmap"] = <<Z, MmapLen, Z, {0, 1}, Z, Z>>
  BY Zenon DEF Params
<1>2. \A a \in ArgsOf("mmap") : \A i \in 0 .. 5 : a[i] \in Addrint
  <2>1. \A i \in 1 .. 6 : Fits(Params["mmap"][i])
    BY <1>1, Values, SMTT(30)
  <2>2. QED BY <2>1, ArgsTyped, Zenon
<1>3. ASSUME NEW a \in ArgsOf("mmap"), NEW m \in Mems("mmap"),
             NEW k \in Success("mmap", a, m)
      PROVE  AnswerOK(k)
  <2>1. Success("mmap", a, m) = {Answer(p, Cells(p, PAGE_SZ * Ceil(a[1], PAGE_SZ))) : p \in Ptrs}
    BY SMTT(30) DEF Success
  <2>2. PICK p \in Ptrs : k = Answer(p, Cells(p, PAGE_SZ * Ceil(a[1], PAGE_SZ)))
    BY <2>1, Zenon
  <2>3. p \in Addrint /\ Cells(p, PAGE_SZ * Ceil(a[1], PAGE_SZ)) \subseteq Cell
    BY CellsTyped, ValueTyped
  <2>4. QED BY <2>2, <2>3, AnswerTyped, Zenon
<1>4. QED BY <1>2, <1>3, Zenon DEF CallTyped

LEMMA RtSigpendingTyped == CallTyped("rt_sigpending")
<1>1. Params["rt_sigpending"] = <<B, N, Z, Z, Z, Z>>
  BY Zenon DEF Params
<1>2. \A a \in ArgsOf("rt_sigpending") : \A i \in 0 .. 5 : a[i] \in Addrint
  <2>1. \A i \in 1 .. 6 : Fits(Params["rt_sigpending"][i])
    BY <1>1, Values, SMTT(30)
  <2>2. QED BY <2>1, ArgsTyped, Zenon
<1>3. ASSUME NEW a \in ArgsOf("rt_sigpending"), NEW m \in Mems("rt_sigpending"),
             NEW k \in Success("rt_sigpending", a, m)
      PROVE  AnswerOK(k)
  <2>1. Success("rt_sigpending", a, m) = {Answer(0, Cells(a[0], a[1]))}
    BY SMTT(30) DEF Success
  <2>2. k = Answer(0, Cells(a[0], a[1]))
    BY <2>1, Zenon
  <2>3. (Cells(a[0], a[1])) \subseteq Cell
    BY CellsTyped
  <2>4. QED BY <2>2, <2>3, ValueTyped, AnswerTyped, Zenon
<1>4. QED BY <1>2, <1>3, Zenon DEF CallTyped

LEMMA ShmctlTyped == CallTyped("shmctl")
<1>1. Params["shmctl"] = <<Z, IpcCmd, B, Z, Z, Z>>
  BY Zenon DEF Params
<1>2. \A a \in ArgsOf("shmctl") : \A i \in 0 .. 5 : a[i] \in Addrint
  <2>1. \A i \in 1 .. 6 : Fits(Params["shmctl"][i])
    BY <1>1, Values, SMTT(30)
  <2>2. QED BY <2>1, ArgsTyped, Zenon
<1>3. ASSUME NEW a \in ArgsOf("shmctl"), NEW m \in Mems("shmctl"),
             NEW k \in Success("shmctl", a, m)
      PROVE  AnswerOK(k)
  <2>1. Success("shmctl", a, m) = {Answer(0, IF a[1] = IPC.RMID THEN {} ELSE Cells(a[2], STRUCT))}
    BY SMTT(30) DEF Success
  <2>2. k = Answer(0, IF a[1] = IPC.RMID THEN {} ELSE Cells(a[2], STRUCT))
    BY <2>1, Zenon
  <2>3. (IF a[1] = IPC.RMID THEN {} ELSE Cells(a[2], STRUCT)) \subseteq Cell
    BY CellsTyped
  <2>4. QED BY <2>2, <2>3, ValueTyped, AnswerTyped, Zenon
<1>4. QED BY <1>2, <1>3, Zenon DEF CallTyped

LEMMA MsgctlTyped == CallTyped("msgctl")
<1>1. Params["msgctl"] = <<Z, IpcCmd, B, Z, Z, Z>>
  BY Zenon DEF Params
<1>2. \A a \in ArgsOf("msgctl") : \A i \in 0 .. 5 : a[i] \in Addrint
  <2>1. \A i \in 1 .. 6 : Fits(Params["msgctl"][i])
    BY <1>1, Values, SMTT(30)
  <2>2. QED BY <2>1, ArgsTyped, Zenon
<1>3. ASSUME NEW a \in ArgsOf("msgctl"), NEW m \in Mems("msgctl"),
             NEW k \in Success("msgctl", a, m)
      PROVE  AnswerOK(k)
  <2>1. Success("msgctl", a, m) = {Answer(0, IF a[1] = IPC.RMID THEN {} ELSE Cells(a[2], STRUCT))}
    BY SMTT(30) DEF Success
  <2>2. k = Answer(0, IF a[1] = IPC.RMID THEN {} ELSE Cells(a[2], STRUCT))
    BY <2>1, Zenon
  <2>3. (IF a[1] = IPC.RMID THEN {} ELSE Cells(a[2], STRUCT)) \subseteq Cell
    BY CellsTyped
  <2>4. QED BY <2>2, <2>3, ValueTyped, AnswerTyped, Zenon
<1>4. QED BY <1>2, <1>3, Zenon DEF CallTyped

LEMMA SemctlTyped == CallTyped("semctl")
<1>1. Params["semctl"] = <<Z, Z, IpcCmd, B, Z, Z>>
  BY Zenon DEF Params
<1>2. \A a \in ArgsOf("semctl") : \A i \in 0 .. 5 : a[i] \in Addrint
  <2>1. \A i \in 1 .. 6 : Fits(Params["semctl"][i])
    BY <1>1, Values, SMTT(30)
  <2>2. QED BY <2>1, ArgsTyped, Zenon
<1>3. ASSUME NEW a \in ArgsOf("semctl"), NEW m \in Mems("semctl"),
             NEW k \in Success("semctl", a, m)
      PROVE  AnswerOK(k)
  <2>1. Success("semctl", a, m) = {Answer(0, IF a[2] = IPC.RMID THEN {} ELSE Cells(a[3], STRUCT))}
    BY SMTT(30) DEF Success
  <2>2. k = Answer(0, IF a[2] = IPC.RMID THEN {} ELSE Cells(a[3], STRUCT))
    BY <2>1, Zenon
  <2>3. (IF a[2] = IPC.RMID THEN {} ELSE Cells(a[3], STRUCT)) \subseteq Cell
    BY CellsTyped
  <2>4. QED BY <2>2, <2>3, ValueTyped, AnswerTyped, Zenon
<1>4. QED BY <1>2, <1>3, Zenon DEF CallTyped

LEMMA FcntlTyped == CallTyped("fcntl")
<1>1. Params["fcntl"] = <<Z, {F.GETFL, F.GETLK}, P, Z, Z, Z>>
  BY Zenon DEF Params
<1>2. \A a \in ArgsOf("fcntl") : \A i \in 0 .. 5 : a[i] \in Addrint
  <2>1. \A i \in 1 .. 6 : Fits(Params["fcntl"][i])
    BY <1>1, Values, SMTT(30)
  <2>2. QED BY <2>1, ArgsTyped, Zenon
<1>3. ASSUME NEW a \in ArgsOf("fcntl"), NEW m \in Mems("fcntl"),
             NEW k \in Success("fcntl", a, m)
      PROVE  AnswerOK(k)
  <2>1. Success("fcntl", a, m) = {Answer(0, IF a[1] = F.GETLK THEN Cells(a[2], STRUCT) ELSE {})}
    BY SMTT(30) DEF Success
  <2>2. k = Answer(0, IF a[1] = F.GETLK THEN Cells(a[2], STRUCT) ELSE {})
    BY <2>1, Zenon
  <2>3. (IF a[1] = F.GETLK THEN Cells(a[2], STRUCT) ELSE {}) \subseteq Cell
    BY CellsTyped
  <2>4. QED BY <2>2, <2>3, ValueTyped, AnswerTyped, Zenon
<1>4. QED BY <1>2, <1>3, Zenon DEF CallTyped

LEMMA QuotactlTyped == CallTyped("quotactl")
<1>1. Params["quotactl"] = <<{QCMD(Q.GETQUOTA, 0), QCMD(Q.SETQUOTA, 0)}, Z, Z, B, Z, Z>>
  BY Zenon DEF Params
<1>2. \A a \in ArgsOf("quotactl") : \A i \in 0 .. 5 : a[i] \in Addrint
  <2>1. \A i \in 1 .. 6 : Fits(Params["quotactl"][i])
    BY <1>1, Values, SMTT(30)
  <2>2. QED BY <2>1, ArgsTyped, Zenon
<1>3. ASSUME NEW a \in ArgsOf("quotactl"), NEW m \in Mems("quotactl"),
             NEW k \in Success("quotactl", a, m)
      PROVE  AnswerOK(k)
  <2>1. Success("quotactl", a, m) = {Answer(0, IF a[0] = QCMD(Q.GETQUOTA, 0) THEN Cells(a[3],
            STRUCT) ELSE {})}
    BY SMTT(30) DEF Success
  <2>2. k = Answer(0, IF a[0] = QCMD(Q.GETQUOTA, 0) THEN Cells(a[3], STRUCT) ELSE {})
    BY <2>1, Zenon
  <2>3. (IF a[0] = QCMD(Q.GETQUOTA, 0) THEN Cells(a[3], STRUCT) ELSE {}) \subseteq Cell
    BY CellsTyped
  <2>4. QED BY <2>2, <2>3, ValueTyped, AnswerTyped, Zenon
<1>4. QED BY <1>2, <1>3, Zenon DEF CallTyped

LEMMA AcceptTyped == CallTyped("accept")
<1>1. Params["accept"] = <<Z, P, B, Z, Z, Z>>
  BY Zenon DEF Params
<1>2. \A a \in ArgsOf("accept") : \A i \in 0 .. 5 : a[i] \in Addrint
  <2>1. \A i \in 1 .. 6 : Fits(Params["accept"][i])
    BY <1>1, Values, SMTT(30)
  <2>2. QED BY <2>1, ArgsTyped, Zenon
<1>3. ASSUME NEW a \in ArgsOf("accept"), NEW m \in Mems("accept"),
             NEW k \in Success("accept", a, m)
      PROVE  AnswerOK(k)
  <2>1. Success("accept", a, m) =
          {AnswerLen(0, l, Peer(a[1], a[2], m.len, l)) : l \in Lengths(a[1])}
    BY SMTT(30) DEF Success
  <2>2. PICK l \in Lengths(a[1]) : k = AnswerLen(0, l, Peer(a[1], a[2], m.len, l))
    BY <2>1, Zenon
  <2>3. (Peer(a[1], a[2], m.len, l)) \subseteq Cell
    BY CellsTyped, PeerTyped
  <2>4. QED BY <2>2, <2>3, ValueTyped, AnswerTyped, Zenon
<1>4. QED BY <1>2, <1>3, Zenon DEF CallTyped

LEMMA GetsockoptTyped == CallTyped("getsockopt")
<1>1. Params["getsockopt"] = <<Z, Z, Z, B, B, Z>>
  BY Zenon DEF Params
<1>2. \A a \in ArgsOf("getsockopt") : \A i \in 0 .. 5 : a[i] \in Addrint
  <2>1. \A i \in 1 .. 6 : Fits(Params["getsockopt"][i])
    BY <1>1, Values, SMTT(30)
  <2>2. QED BY <2>1, ArgsTyped, Zenon
<1>3. ASSUME NEW a \in ArgsOf("getsockopt"), NEW m \in Mems("getsockopt"),
             NEW k \in Success("getsockopt", a, m)
      PROVE  AnswerOK(k)
  <2>1. Success("getsockopt", a, m) =
          {AnswerLen(0, l, Cells(a[3], l) \cup Cells(a[4], INT)) : l \in 0 .. m.len}
    BY SMTT(30) DEF Success
  <2>2. PICK l \in 0 .. m.len : k = AnswerLen(0, l, Cells(a[3], l) \cup Cells(a[4], INT))
    BY <2>1, Zenon
  <2>3. (Cells(a[3], l) \cup Cells(a[4], INT)) \subseteq Cell
    BY CellsTyped, PeerTyped
  <2>4. QED BY <2>2, <2>3, ValueTyped, AnswerTyped, Zenon
<1>4. QED BY <1>2, <1>3, Zenon DEF CallTyped

LEMMA RecvfromTyped == CallTyped("recvfrom")
<1>1. Params["recvfrom"] = <<Z, B, N, Z, P, B>>
  BY Zenon DEF Params
<1>2. \A a \in ArgsOf("recvfrom") : \A i \in 0 .. 5 : a[i] \in Addrint
  <2>1. \A i \in 1 .. 6 : Fits(Params["recvfrom"][i])
    BY <1>1, Values, SMTT(30)
  <2>2. QED BY <2>1, ArgsTyped, Zenon
<1>3. ASSUME NEW a \in ArgsOf("recvfrom"), NEW m \in Mems("recvfrom"),
             NEW k \in Success("recvfrom", a, m)
      PROVE  AnswerOK(k)
  <2>1. Success("recvfrom", a, m) =
          {AnswerLen(r, l, Cells(a[1], r) \cup Peer(a[4], a[5], m.len, l)) : r \in 0 .. a[2], l
                    \in Lengths(a[4])}
    BY SMTT(30) DEF Success
  <2>2. PICK r \in 0 .. a[2], l \in Lengths(a[4]) :
           k = AnswerLen(r, l, Cells(a[1], r) \cup Peer(a[4], a[5], m.len, l))
    BY <2>1
  <2>3. a[2] \in N
    BY <1>1, ArgIn, Zenon
  <2>4. r \in Addrint
    BY <2>3, CountTyped
  <2>5. (Cells(a[1], r) \cup Peer(a[4], a[5], m.len, l)) \subseteq Cell
    BY CellsTyped, PeerTyped
  <2>6. QED BY <2>2, <2>4, <2>5, AnswerTyped, Zenon
<1>4. QED BY <1>2, <1>3, Zenon DEF CallTyped

LEMMA SyslogTyped == CallTyped("syslog")
<1>1. Params["syslog"] = <<{2, 10}, B, N, Z, Z, Z>>
  BY Zenon DEF Params
<1>2. \A a \in ArgsOf("syslog") : \A i \in 0 .. 5 : a[i] \in Addrint
  <2>1. \A i \in 1 .. 6 : Fits(Params["syslog"][i])
    BY <1>1, Values, SMTT(30)
  <2>2. QED BY <2>1, ArgsTyped, Zenon
<1>3. ASSUME NEW a \in ArgsOf("syslog"), NEW m \in Mems("syslog"),
             NEW k \in Success("syslog", a, m)
      PROVE  AnswerOK(k)
  <2>1. a[0] \in {2, 10} /\ a[1] \in B /\ a[2] \in N
    BY <1>1, ArgIn, SMT
  <2>2. Success("syslog", a, m) =
            IF a[0] = 2 THEN Transfers(a[1], a[2]) ELSE {Answer(r, {}) : r \in N}
    BY SMTT(30) DEF Success
  <2>3. k \in Transfers(a[1], a[2]) \/ \E r \in N : k = Answer(r, {})
    BY <2>2, Zenon
  <2>4. QED BY <2>1, <2>3, TransfersTyped, NothingTyped, Zenon
<1>4. QED BY <1>2, <1>3, Zenon DEF CallTyped

LEMMA SysctlTyped == CallTyped("sysctl")
<1>1. Params["sysctl"] = <<Z, Z, Z, Z, Z, Z>>
  BY Zenon DEF Params
<1>2. \A a \in ArgsOf("sysctl") : \A i \in 0 .. 5 : a[i] \in Addrint
  <2>1. \A i \in 1 .. 6 : Fits(Params["sysctl"][i])
    BY <1>1, Values, SMTT(30)
  <2>2. QED BY <2>1, ArgsTyped, Zenon
<1>3. ASSUME NEW a \in ArgsOf("sysctl"), NEW m \in Mems("sysctl"),
             NEW k \in Success("sysctl", a, m)
      PROVE  AnswerOK(k)
  <2>1. Success("sysctl", a, m) =
          {AnswerLen(0, l, Peer(m.control, m.word, l, l) \cup
                 IF m.control = Null THEN {} ELSE Cells(m.word, LONG)) : l \in Lengths(m.control)}
    BY SMTT(30) DEF Success
  <2>2. PICK l \in Lengths(m.control) : k = AnswerLen(0, l, Peer(m.control, m.word, l, l) \cup
                 IF m.control = Null THEN {} ELSE Cells(m.word, LONG))
    BY <2>1, Zenon
  <2>3. (Peer(m.control, m.word, l, l) \cup
                 IF m.control = Null THEN {} ELSE Cells(m.word, LONG)) \subseteq Cell
    BY CellsTyped, PeerTyped
  <2>4. QED BY <2>2, <2>3, ValueTyped, AnswerTyped, Zenon
<1>4. QED BY <1>2, <1>3, Zenon DEF CallTyped

LEMMA ArchPrctlTyped == CallTyped("arch_prctl")
<1>1. Params["arch_prctl"] = <<{ARCH.SET_FS, ARCH.GET_FS}, B, Z, Z, Z, Z>>
  BY Zenon DEF Params
<1>2. \A a \in ArgsOf("arch_prctl") : \A i \in 0 .. 5 : a[i] \in Addrint
  <2>1. \A i \in 1 .. 6 : Fits(Params["arch_prctl"][i])
    BY <1>1, Values, SMTT(30)
  <2>2. QED BY <2>1, ArgsTyped, Zenon
<1>3. ASSUME NEW a \in ArgsOf("arch_prctl"), NEW m \in Mems("arch_prctl"),
             NEW k \in Success("arch_prctl", a, m)
      PROVE  AnswerOK(k)
  <2>1. Success("arch_prctl", a, m) = {Answer(0, IF a[0] = ARCH.GET_FS THEN Cells(a[1], LONG)
            ELSE {})}
    BY SMTT(30) DEF Success
  <2>2. k = Answer(0, IF a[0] = ARCH.GET_FS THEN Cells(a[1], LONG) ELSE {})
    BY <2>1, Zenon
  <2>3. (IF a[0] = ARCH.GET_FS THEN Cells(a[1], LONG) ELSE {}) \subseteq Cell
    BY CellsTyped
  <2>4. QED BY <2>2, <2>3, ValueTyped, AnswerTyped, Zenon
<1>4. QED BY <1>2, <1>3, Zenon DEF CallTyped

LEMMA ReadvTyped == CallTyped("readv")
<1>1. Params["readv"] = <<Z, Z, IovCnt, Z, Z, Z>>
  BY Zenon DEF Params
<1>2. \A a \in ArgsOf("readv") : \A i \in 0 .. 5 : a[i] \in Addrint
  <2>1. \A i \in 1 .. 6 : Fits(Params["readv"][i])
    BY <1>1, Values, SMTT(30)
  <2>2. QED BY <2>1, ArgsTyped, Zenon
<1>3. ASSUME NEW a \in ArgsOf("readv"), NEW m \in Mems("readv"),
             NEW k \in Success("readv", a, m)
      PROVE  AnswerOK(k)
  <2>1. Success("readv", a, m) =
          {Answer(r, Stream(m.iov, a[2], r)) : r \in 0 .. Total(m.iov, a[2])}
    BY SMTT(30) DEF Success
  <2>2. PICK r \in 0 .. Total(m.iov, a[2]) : k = Answer(r, Stream(m.iov, a[2], r))
    BY <2>1, Zenon
  <2>3. a[2] \in 0 .. 2
    BY <1>1, ArgIn, Zenon DEF IovCnt
  <2>4. m.iov \in Vectors
    BY IovOf
  <2>5. r \in 0 .. 4
    BY <2>3, <2>4, VectorTotal
  <2>6. r \in Addrint /\ Stream(m.iov, a[2], r) \subseteq Cell
    BY <2>3, <2>4, <2>5, StreamTyped, ValueTyped
  <2>7. QED BY <2>2, <2>6, AnswerTyped, Zenon
<1>4. QED BY <1>2, <1>3, Zenon DEF CallTyped

LEMMA ProcessVmReadvTyped == CallTyped("process_vm_readv")
<1>1. Params["process_vm_readv"] = <<Z, Z, IovCnt, Z, Z, Z>>
  BY Zenon DEF Params
<1>2. \A a \in ArgsOf("process_vm_readv") : \A i \in 0 .. 5 : a[i] \in Addrint
  <2>1. \A i \in 1 .. 6 : Fits(Params["process_vm_readv"][i])
    BY <1>1, Values, SMTT(30)
  <2>2. QED BY <2>1, ArgsTyped, Zenon
<1>3. ASSUME NEW a \in ArgsOf("process_vm_readv"), NEW m \in Mems("process_vm_readv"),
             NEW k \in Success("process_vm_readv", a, m)
      PROVE  AnswerOK(k)
  <2>1. Success("process_vm_readv", a, m) =
          {Answer(r, Stream(m.iov, a[2], r)) : r \in 0 .. Total(m.iov, a[2])}
    BY SMTT(30) DEF Success
  <2>2. PICK r \in 0 .. Total(m.iov, a[2]) : k = Answer(r, Stream(m.iov, a[2], r))
    BY <2>1, Zenon
  <2>3. a[2] \in 0 .. 2
    BY <1>1, ArgIn, Zenon DEF IovCnt
  <2>4. m.iov \in Vectors
    BY IovOf
  <2>5. r \in 0 .. 4
    BY <2>3, <2>4, VectorTotal
  <2>6. r \in Addrint /\ Stream(m.iov, a[2], r) \subseteq Cell
    BY <2>3, <2>4, <2>5, StreamTyped, ValueTyped
  <2>7. QED BY <2>2, <2>6, AnswerTyped, Zenon
<1>4. QED BY <1>2, <1>3, Zenon DEF CallTyped

LEMMA RecvmsgTyped == CallTyped("recvmsg")
<1>1. Params["recvmsg"] = <<Z, Headers, Z, Z, Z, Z>>
  BY Zenon DEF Params
<1>2. \A a \in ArgsOf("recvmsg") : \A i \in 0 .. 5 : a[i] \in Addrint
  <2>1. \A i \in 1 .. 6 : Fits(Params["recvmsg"][i])
    BY <1>1, Values, SMTT(30)
  <2>2. QED BY <2>1, ArgsTyped, Zenon
<1>3. ASSUME NEW a \in ArgsOf("recvmsg"), NEW m \in Mems("recvmsg"),
             NEW k \in Success("recvmsg", a, m)
      PROVE  AnswerOK(k)
  <2> DEFINE w(r, l, c) == Message(a[1], m, r, l, c)
  <2>1. Success("recvmsg", a, m) =
          {AnswerMsg(r, r, l, c, w(r, l, c)) :
               r \in 0 .. Total(m.iov, 2), l \in Lengths(m.name),
               c \in Lengths(m.control) \ {MaxLen}}
    BY SMTT(30) DEF Success
  <2>2. m.iov \in Vectors
    BY IovOf
  <2>3. \A r \in 0 .. Total(m.iov, 2) : \A l, c : r \in Addrint /\ w(r, l, c) \subseteq Cell
    <3>1. SUFFICES ASSUME NEW r \in 0 .. Total(m.iov, 2), NEW l, NEW c
          PROVE  r \in Addrint /\ w(r, l, c) \subseteq Cell
      BY Zenon
    <3>2. r \in 0 .. 4
      BY <2>2, VectorTotal
    <3>3. Message(a[1], m, r, l, c) \subseteq Cell
      BY <2>2, <3>2, MessageTyped
    <3>4. QED BY <3>2, <3>3, ValueTyped, CellsTyped DEF MsgLen
  <2> HIDE DEF w
  <2>4. \E r \in 0 .. Total(m.iov, 2) : \E l, c : k = AnswerMsg(r, r, l, c, w(r, l, c))
    BY <2>1
  <2>5. QED BY <2>3, <2>4, ValueTyped, AnswerTyped, Zenon
<1>4. QED BY <1>2, <1>3, Zenon DEF CallTyped

LEMMA RecvmmsgTyped == CallTyped("recvmmsg")
<1>1. Params["recvmmsg"] = <<Z, Headers, {1}, Z, P, Z>>
  BY Zenon DEF Params
<1>2. \A a \in ArgsOf("recvmmsg") : \A i \in 0 .. 5 : a[i] \in Addrint
  <2>1. \A i \in 1 .. 6 : Fits(Params["recvmmsg"][i])
    BY <1>1, Values, SMTT(60)
  <2>2. QED BY <2>1, ArgsTyped, Zenon
<1>3. ASSUME NEW a \in ArgsOf("recvmmsg"), NEW m \in Mems("recvmmsg"),
             NEW k \in Success("recvmmsg", a, m)
      PROVE  AnswerOK(k)
  <2> DEFINE w(r, l, c) == Message(a[1], m, r, l, c) \cup MsgLen(a[1])
                                                 \cup Cells(a[4], STRUCT)
  <2>1. Success("recvmmsg", a, m) =
          {AnswerMsg(1, r, l, c, w(r, l, c)) :
               r \in 0 .. Total(m.iov, 2), l \in Lengths(m.name),
               c \in Lengths(m.control) \ {MaxLen}}
    BY SMTT(30) DEF Success
  <2>2. m.iov \in Vectors
    BY IovOf
  <2>3. \A r \in 0 .. Total(m.iov, 2) : \A l, c : r \in Addrint /\ w(r, l, c) \subseteq Cell
    <3>1. SUFFICES ASSUME NEW r \in 0 .. Total(m.iov, 2), NEW l, NEW c
          PROVE  r \in Addrint /\ w(r, l, c) \subseteq Cell
      BY Zenon
    <3>2. r \in 0 .. 4
      BY <2>2, VectorTotal
    <3>3. Message(a[1], m, r, l, c) \subseteq Cell
      BY <2>2, <3>2, MessageTyped
    <3>4. QED BY <3>2, <3>3, ValueTyped, CellsTyped DEF MsgLen
  <2> HIDE DEF w
  <2>4. \E r \in 0 .. Total(m.iov, 2) : \E l, c : k = AnswerMsg(1, r, l, c, w(r, l, c))
    BY <2>1
  <2>5. QED BY <2>3, <2>4, ValueTyped, AnswerTyped, Zenon
<1>4. QED BY <1>2, <1>3, Zenon DEF CallTyped

LEMMA SendmmsgTyped == CallTyped("sendmmsg")
<1>1. Params["sendmmsg"] = <<Z, B, {1}, Z, Z, Z>>
  BY Zenon DEF Params
<1>2. \A a \in ArgsOf("sendmmsg") : \A i \in 0 .. 5 : a[i] \in Addrint
  <2>1. \A i \in 1 .. 6 : Fits(Params["sendmmsg"][i])
    BY <1>1, Values, SMTT(30)
  <2>2. QED BY <2>1, ArgsTyped, Zenon
<1>3. ASSUME NEW a \in ArgsOf("sendmmsg"), NEW m \in Mems("sendmmsg"),
             NEW k \in Success("sendmmsg", a, m)
      PROVE  AnswerOK(k)
  <2>1. Success("sendmmsg", a, m) = {Answer(1, MsgLen(a[1]))}
    BY SMTT(30) DEF Success
  <2>2. k = Answer(1, MsgLen(a[1]))
    BY <2>1, Zenon
  <2>3. (MsgLen(a[1])) \subseteq Cell
    BY CellsTyped DEF MsgLen
  <2>4. QED BY <2>2, <2>3, ValueTyped, AnswerTyped, Zenon
<1>4. QED BY <1>2, <1>3, Zenon DEF CallTyped

LEMMA StatTyped == CallTyped("stat")
<1>1. Params["stat"] = <<Z, B, Z, Z, Z, Z>>
  BY Zenon DEF Params
<1>2. \A a \in ArgsOf("stat") : \A i \in 0 .. 5 : a[i] \in Addrint
  <2>1. \A i \in 1 .. 6 : Fits(Params["stat"][i])
    BY <1>1, Values, SMTT(30)
  <2>2. QED BY <2>1, ArgsTyped, Zenon
<1>3. ASSUME NEW a \in ArgsOf("stat"), NEW m \in Mems("stat"),
             NEW k \in Success("stat", a, m)
      PROVE  AnswerOK(k)
  <2>1. Success("stat", a, m) = {Answer(0, Cells(a[1], STRUCT))}
    BY SMTT(30) DEF Success
  <2>2. k = Answer(0, Cells(a[1], STRUCT))
    BY <2>1, Zenon
  <2>3. (Cells(a[1], STRUCT)) \subseteq Cell
    BY CellsTyped
  <2>4. QED BY <2>2, <2>3, ValueTyped, AnswerTyped, Zenon
<1>4. QED BY <1>2, <1>3, Zenon DEF CallTyped

LEMMA NewfstatatTyped == CallTyped("newfstatat")
<1>1. Params["newfstatat"] = <<Z, Z, B, Z, Z, Z>>
  BY Zenon DEF Params
<1>2. \A a \in ArgsOf("newfstatat") : \A i \in 0 .. 5 : a[i] \in Addrint
  <2>1. \A i \in 1 .. 6 : Fits(Params["newfstatat"][i])
    BY <1>1, Values, SMTT(30)
  <2>2. QED BY <2>1, ArgsTyped, Zenon
<1>3. ASSUME NEW a \in ArgsOf("newfstatat"), NEW m \in Mems("newfstatat"),
             NEW k \in Success("newfstatat", a, m)
      PROVE  AnswerOK(k)
  <2>1. Success("newfstatat", a, m) = {Answer(0, Cells(a[2], STRUCT))}
    BY SMTT(30) DEF Success
  <2>2. k = Answer(0, Cells(a[2], STRUCT))
    BY <2>1, Zenon
  <2>3. (Cells(a[2], STRUCT)) \subseteq Cell
    BY CellsTyped
  <2>4. QED BY <2>2, <2>3, ValueTyped, AnswerTyped, Zenon
<1>4. QED BY <1>2, <1>3, Zenon DEF CallTyped

LEMMA SelectTyped == CallTyped("select")
<1>1. Params["select"] = <<1 .. 2, P, P, Z, Z, Z>>
  BY Zenon DEF Params
<1>2. \A a \in ArgsOf("select") : \A i \in 0 .. 5 : a[i] \in Addrint
  <2>1. \A i \in 1 .. 6 : Fits(Params["select"][i])
    BY <1>1, Values, SMTT(30)
  <2>2. QED BY <2>1, ArgsTyped, Zenon
<1>3. ASSUME NEW a \in ArgsOf("select"), NEW m \in Mems("select"),
             NEW k \in Success("select", a, m)
      PROVE  AnswerOK(k)
  <2>1. Success("select", a, m) = {Answer(1, Cells(a[1], a[0]) \cup Cells(a[2], a[0]))}
    BY SMTT(30) DEF Success
  <2>2. k = Answer(1, Cells(a[1], a[0]) \cup Cells(a[2], a[0]))
    BY <2>1, Zenon
  <2>3. (Cells(a[1], a[0]) \cup Cells(a[2], a[0])) \subseteq Cell
    BY CellsTyped
  <2>4. QED BY <2>2, <2>3, ValueTyped, AnswerTyped, Zenon
<1>4. QED BY <1>2, <1>3, Zenon DEF CallTyped

LEMMA NanosleepTyped == CallTyped("nanosleep")
<1>1. Params["nanosleep"] = <<Z, P, Z, Z, Z, Z>>
  BY Zenon DEF Params
<1>2. \A a \in ArgsOf("nanosleep") : \A i \in 0 .. 5 : a[i] \in Addrint
  <2>1. \A i \in 1 .. 6 : Fits(Params["nanosleep"][i])
    BY <1>1, Values, SMTT(30)
  <2>2. QED BY <2>1, ArgsTyped, Zenon
<1>3. ASSUME NEW a \in ArgsOf("nanosleep"), NEW m \in Mems("nanosleep"),
             NEW k \in Success("nanosleep", a, m)
      PROVE  AnswerOK(k)
  <2>1. Success("nanosleep", a, m) = {Answer(0, {})}
    BY SMTT(30) DEF Success
  <2>2. k = Answer(0, {})
    BY <2>1, Zenon
  <2>3. ({}) \subseteq Cell
    BY CellsTyped
  <2>4. QED BY <2>2, <2>3, ValueTyped, AnswerTyped, Zenon
<1>4. QED BY <1>2, <1>3, Zenon DEF CallTyped

LEMMA WaitidTyped == CallTyped("waitid")
<1>1. Params["waitid"] = <<Z, Z, P, Z, P, Z>>
  BY Zenon DEF Params
<1>2. \A a \in ArgsOf("waitid") : \A i \in 0 .. 5 : a[i] \in Addrint
  <2>1. \A i \in 1 .. 6 : Fits(Params["waitid"][i])
    BY <1>1, Values, SMTT(30)
  <2>2. QED BY <2>1, ArgsTyped, Zenon
<1>3. ASSUME NEW a \in ArgsOf("waitid"), NEW m \in Mems("waitid"),
             NEW k \in Success("waitid", a, m)
      PROVE  AnswerOK(k)
  <2>1. Success("waitid", a, m) = {Answer(0, Cells(a[2], STRUCT) \cup Cells(a[4], STRUCT))}
    BY SMTT(30) DEF Success
  <2>2. k = Answer(0, Cells(a[2], STRUCT) \cup Cells(a[4], STRUCT))
    BY <2>1, Zenon
  <2>3. (Cells(a[2], STRUCT) \cup Cells(a[4], STRUCT)) \subseteq Cell
    BY CellsTyped
  <2>4. QED BY <2>2, <2>3, ValueTyped, AnswerTyped, Zenon
<1>4. QED BY <1>2, <1>3, Zenon DEF CallTyped

LEMMA PerfEventOpenTyped == CallTyped("perf_event_open")
<1>1. Params["perf_event_open"] = <<B, Z, Z, Z, Z, Z>>
  BY Zenon DEF Params
<1>2. \A a \in ArgsOf("perf_event_open") : \A i \in 0 .. 5 : a[i] \in Addrint
  <2>1. \A i \in 1 .. 6 : Fits(Params["perf_event_open"][i])
    BY <1>1, Values, SMTT(30)
  <2>2. QED BY <2>1, ArgsTyped, Zenon
<1>3. ASSUME NEW a \in ArgsOf("perf_event_open"), NEW m \in Mems("perf_event_open"),
             NEW k \in Success("perf_event_open", a, m)
      PROVE  AnswerOK(k)
  <2>1. Success("perf_event_open", a, m) = {Answer(0, {})}
    BY SMTT(30) DEF Success
  <2>2. k = Answer(0, {})
    BY <2>1, Zenon
  <2>3. ({}) \subseteq Cell
    BY CellsTyped
  <2>4. QED BY <2>2, <2>3, ValueTyped, AnswerTyped, Zenon
<1>4. QED BY <1>2, <1>3, Zenon DEF CallTyped

LEMMA IoctlTyped == CallTyped("ioctl")
<1>1. Params["ioctl"] = <<Z, Z, P, Z, Z, Z>>
  BY Zenon DEF Params
<1>2. \A a \in ArgsOf("ioctl") : \A i \in 0 .. 5 : a[i] \in Addrint
  <2>1. \A i \in 1 .. 6 : Fits(Params["ioctl"][i])
    BY <1>1, Values, SMTT(30)
  <2>2. QED BY <2>1, ArgsTyped, Zenon
<1>3. ASSUME NEW a \in ArgsOf("ioctl"), NEW m \in Mems("ioctl"),
             NEW k \in Success("ioctl", a, m)
      PROVE  AnswerOK(k)
  <2>1. Success("ioctl", a, m) = {Answer(0, w) : w \in {{}, Cells(a[2], STRUCT)}}
    BY SMTT(30) DEF Success
  <2>2. PICK w \in {{}, Cells(a[2], STRUCT)} : k = Answer(0, w)
    BY <2>1, Zenon
  <2>3. w \subseteq Cell
    BY CellsTyped
  <2>4. QED BY <2>2, <2>3, ValueTyped, AnswerTyped, Zenon
<1>4. QED BY <1>2, <1>3, Zenon DEF CallTyped

LEMMA WriteTyped == CallTyped("write")
<1>1. Params["write"] = <<Z, B, N, Z, Z, Z>>
  BY Zenon DEF Params
<1>2. \A a \in ArgsOf("write") : \A i \in 0 .. 5 : a[i] \in Addrint
  <2>1. \A i \in 1 .. 6 : Fits(Params["write"][i])
    BY <1>1, Values, SMTT(30)
  <2>2. QED BY <2>1, ArgsTyped, Zenon
<1>3. ASSUME NEW a \in ArgsOf("write"), NEW m \in Mems("write"),
             NEW k \in Success("write", a, m)
      PROVE  AnswerOK(k)
  <2>1. Success("write", a, m) = {Answer(a[2], {})}
    BY SMTT(30) DEF Success
  <2>2. k = Answer(a[2], {}) /\ {} \subseteq Cell
    BY <2>1
  <2>3. a[2] \in Addrint
    BY <1>2, SMT
  <2>4. QED BY <2>2, <2>3, AnswerTyped, Zenon
<1>4. QED BY <1>2, <1>3, Zenon DEF CallTyped

LEMMA UnknownTyped == CallTyped("unknown")
<1>1. Params["unknown"] = <<Z, P, Z, Z, Z, Z>>
  BY Zenon DEF Params
<1>2. \A a \in ArgsOf("unknown") : \A i \in 0 .. 5 : a[i] \in Addrint
  <2>1. \A i \in 1 .. 6 : Fits(Params["unknown"][i])
    BY <1>1, Values, SMTT(30)
  <2>2. QED BY <2>1, ArgsTyped, Zenon
<1>3. ASSUME NEW a \in ArgsOf("unknown"), NEW m \in Mems("unknown"),
             NEW k \in Success("unknown", a, m)
      PROVE  AnswerOK(k)
  <2>1. Success("unknown", a, m) = {Answer(0, w) : w \in {{}, Cells(a[1], INT)}}
    BY SMTT(30) DEF Success
  <2>2. PICK w \in {{}, Cells(a[1], INT)} : k = Answer(0, w)
    BY <2>1, Zenon
  <2>3. w \subseteq Cell
    BY CellsTyped
  <2>4. QED BY <2>2, <2>3, ValueTyped, AnswerTyped, Zenon
<1>4. QED BY <1>2, <1>3, Zenon DEF CallTyped

LEMMA AllCallsTyped == \A nr \in DOMAIN Params : CallTyped(nr)
BY CallNames, ReadTyped, ReadlinkatTyped, GetdentsTyped, GetcwdTyped, LookupDcookieTyped,
   ModifyLdtTyped, GetgroupsTyped, ListxattrTyped, GetxattrTyped, EpollWaitTyped,
   IoGeteventsTyped, PollTyped, MqTimedreceiveTyped, MsgrcvTyped, GetMempolicyTyped,
   MincoreTyped, MmapTyped, RtSigpendingTyped, ShmctlTyped, MsgctlTyped, SemctlTyped,
   FcntlTyped, QuotactlTyped, AcceptTyped, GetsockoptTyped, RecvfromTyped, SyslogTyped,
   SysctlTyped, ArchPrctlTyped, ReadvTyped, ProcessVmReadvTyped, RecvmsgTyped,
   RecvmmsgTyped, SendmmsgTyped, StatTyped, NewfstatatTyped, SelectTyped, NanosleepTyped,
   WaitidTyped, PerfEventOpenTyped, IoctlTyped, WriteTyped, UnknownTyped, SMT

LEMMA AllAnswersTyped ==
    ASSUME NEW nr \in DOMAIN Params, NEW a \in ArgsOf(nr), NEW m \in Mems(nr), NEW k \in
              Answers(nr, a, m)
    PROVE  AnswerOK(k)
<1>1. CASE k \in Success(nr, a, m)
  BY <1>1, AllCallsTyped DEF CallTyped
<1>2. CASE k = Failure(nr, a)
  <2> DEFINE w == IF nr = "nanosleep" THEN Cells(a[1], STRUCT) ELSE {}
  <2>1. k = Answer(Minus1, w) /\ w \subseteq Cell
    BY <1>2, CellsTyped DEF Failure
  <2> HIDE DEF w
  <2>2. QED BY <2>1, ValueTyped, AnswerTyped, Zenon
<1>3. QED BY <1>1, <1>2 DEF Answers

-----------------------------------------------------------------------------
(* The type of the state *)

CtxType == [nr : Known \cup {Unknown}, arg : [0 .. 5 -> Addrint], ret : Addrint]

\* The call a thread is in is one a program can make, and its answer is one of the kernel's.
CallType(l) ==
    /\ AnswerOK(l.out)
    /\ l.nr # NoNr => l.nr \in DOMAIN Params /\ l.arg \in ArgsOf(l.nr) /\ l.mem \in Mems(l.nr)

TypeInv ==
    /\ ctx \in [Threads -> CtxType]
    /\ tags \subseteq Cell /\ tainted \subseteq Cell
    /\ DOMAIN steps = Threads /\ \A t \in Threads : steps[t] \in 0 .. MaxSteps[t]
    /\ \A t \in Threads : CallType(call[t])

LEMMA CtxTyped ==
    ASSUME NEW nr \in Known \cup {Unknown}, NEW a \in [0 .. 5 -> Addrint], NEW r \in Addrint
    PROVE  Ctx(nr, a, r) \in CtxType
BY DEF Ctx, CtxType

LEMMA CallTypeOf ==
    ASSUME NEW nr \in DOMAIN Params, NEW a \in ArgsOf(nr), NEW m \in Mems(nr), NEW k, AnswerOK(k),
           NEW done
    PROVE  CallType(Call(nr, a, m, k, done))
<1> DEFINE l == Call(nr, a, m, k, done)
<1>1. l.nr = nr /\ l.arg = a /\ l.mem = m /\ l.out = k
  BY DEF Call
<1> HIDE DEF l
<1>2. CallType(l)
  BY <1>1, Zenon DEF CallType
<1>3. QED BY <1>2 DEF l

LEMMA NothingAnswered == AnswerOK(Answer(0, {}))
BY ValueTyped, AnswerTyped, CellsTyped

LEMMA InitTyped == Init => TypeInv
<1> SUFFICES ASSUME Init PROVE TypeInv
  OBVIOUS
<1>1. Ctx("read", NoArgs, 0) \in CtxType
  <2>1. "read" \in Known
    BY Domain1 DEF Known
  <2>2. NoArgs \in [0 .. 5 -> Addrint]
    BY ValueTyped DEF NoArgs
  <2>3. QED BY <2>1, <2>2, ValueTyped, CtxTyped
<1>2. ctx \in [Threads -> CtxType] /\ tags \subseteq Cell /\ tainted \subseteq Cell
  BY <1>1 DEF Init
<1>3. CallType(NoCall)
  <2>1. NoCall.nr = NoNr /\ NoCall.out = Answer(0, {})
    BY DEF NoCall, Call
  <2>2. QED BY <2>1, NothingAnswered, Zenon DEF CallType
<1>4. DOMAIN steps = Threads /\ \A t \in Threads : steps[t] \in 0 .. MaxSteps[t]
  BY SyscallDispatchAssumption DEF Init
<1>5. \A t \in Threads : CallType(call[t])
  BY <1>3 DEF Init
<1>6. QED BY <1>2, <1>4, <1>5 DEF TypeInv

\* A thread that makes a step.
LEMMA StepsTyped ==
    ASSUME TypeInv, NEW t \in Threads, steps[t] < MaxSteps[t], steps' = [steps EXCEPT ![t] = @
              + 1]
    PROVE  DOMAIN steps' = Threads /\ \A u \in Threads : steps'[u] \in 0 .. MaxSteps[u]
<1>1. MaxSteps[t] \in Nat /\ \A u \in Threads : steps[u] \in 0 .. MaxSteps[u]
  BY SyscallDispatchAssumption DEF TypeInv
<1>2. QED BY <1>1 DEF TypeInv

LEMMA EnterTyped ==
    ASSUME DispatchInv, TypeInv, NEW t \in Threads, NEW nr \in CallsOf[t], Enter(t, nr) PROVE
              TypeInv'
<1>1. PICK a \in ArgsOf(nr), m \in Mems(nr) :
          sysenter_save(t, nr, a) /\ call' = [call EXCEPT ![t] = Call(nr, a, m, Answer(0, {}),
                    FALSE)]
  BY DEF Enter
<1>2. nr \in DOMAIN Params
  BY SyscallDispatchAssumption
<1> DEFINE saved == [i \in 0 .. 5 |-> IF i < desc[nr].nargs THEN a[i] ELSE ctx[t].arg[i]]
           c     == IF nr \notin Known THEN Ctx(Unknown, ctx[t].arg, ctx[t].ret)
                    ELSE Ctx(nr, IF Saves(nr) THEN saved ELSE ctx[t].arg, ctx[t].ret)
<1>3. ctx' = [ctx EXCEPT ![t] = c]
  BY <1>1, Zenon DEF sysenter_save
<1>4. c \in CtxType
  <2>1. ctx[t].nr \in Known \cup {Unknown} /\ ctx[t].arg \in [0 .. 5 -> Addrint] /\ ctx[t].ret
            \in Addrint
    BY DEF TypeInv, CtxType
  <2>2. \A i \in 0 .. 5 : a[i] \in Addrint
    BY <1>2, AllCallsTyped DEF CallTyped
  <2>3. saved \in [0 .. 5 -> Addrint]
    BY <2>1, <2>2
  <2> HIDE DEF saved
  <2>4. CASE nr \notin Known
    BY <2>1, <2>4, CtxTyped
  <2>5. CASE nr \in Known
    <3>1. (IF Saves(nr) THEN saved ELSE ctx[t].arg) \in [0 .. 5 -> Addrint]
      BY <2>1, <2>3
    <3>2. Ctx(nr, IF Saves(nr) THEN saved ELSE ctx[t].arg, ctx[t].ret) \in CtxType
      BY <2>1, <2>5, <3>1, CtxTyped
    <3>3. QED BY <2>5, <3>2
  <2>6. QED BY <2>4, <2>5
<1> HIDE DEF c
<1>5. ctx' \in [Threads -> CtxType]
  BY <1>3, <1>4 DEF TypeInv
<1>6. DOMAIN steps' = Threads /\ \A u \in Threads : steps'[u] \in 0 .. MaxSteps[u]
  BY StepsTyped DEF Enter
<1>7. \A u \in Threads : CallType(call'[u])
  <2>1. CallType(Call(nr, a, m, Answer(0, {}), FALSE))
    BY <1>2, CallTypeOf, NothingAnswered
  <2>2. \A u \in Threads : call'[u] = IF u = t THEN Call(nr, a, m, Answer(0, {}), FALSE) ELSE
            call[u]
    BY <1>1 DEF DispatchInv, ThreadInv
  <2>3. QED BY <2>1, <2>2, Zenon DEF TypeInv
<1>8. tags' \subseteq Cell /\ tainted' \subseteq Cell
  BY DEF TypeInv, Enter
<1>9. QED BY <1>5, <1>6, <1>7, <1>8 DEF TypeInv

LEMMA KernelTyped ==
    ASSUME DispatchInv, TypeInv, NEW t \in Threads, Kernel(t) PROVE TypeInv'
<1>1. PICK k \in Answers(call[t].nr, call[t].arg, call[t].mem) :
          /\ call' = [call EXCEPT ![t] = Call(call[t].nr, call[t].arg, call[t].mem, k, TRUE)]
          /\ tainted' = tainted \ k.wrote
  BY DEF Kernel
<1>2. /\ call[t].nr \in DOMAIN Params /\ call[t].arg \in ArgsOf(call[t].nr)
      /\ call[t].mem \in Mems(call[t].nr)
  BY Zenon DEF Kernel, TypeInv, CallType
<1>3. AnswerOK(k)
  BY <1>2, AllAnswersTyped
<1> DEFINE l == Call(call[t].nr, call[t].arg, call[t].mem, k, TRUE)
<1>4. CallType(l)
  BY <1>2, <1>3, CallTypeOf
<1>5. \A u \in Threads : call'[u] = IF u = t THEN l ELSE call[u]
  BY <1>1 DEF DispatchInv, ThreadInv
<1> HIDE DEF l
<1>6. \A u \in Threads : CallType(call'[u])
  BY <1>4, <1>5, Zenon DEF TypeInv
<1>7. UNCHANGED <<ctx, tags, steps>> /\ tainted' \subseteq Cell
  BY <1>1 DEF Kernel, TypeInv
<1>8. QED BY <1>6, <1>7 DEF TypeInv

LEMMA ExitTyped ==
    ASSUME DispatchInv, TypeInv, NEW t \in Threads, sysexit_save(t) PROVE TypeInv'
<1> DEFINE c == Ctx(ctx[t].nr, ctx[t].arg, call[t].out.ret)
<1>1. /\ ctx' = ctx \/ ctx' = [ctx EXCEPT ![t] = c]
      /\ call' = [call EXCEPT ![t] = NoCall]
      /\ tags' \subseteq tags /\ steps' = steps /\ tainted' = tainted
  BY DEF sysexit_save
<1>2. c \in CtxType
  <2>1. ctx[t].nr \in Known \cup {Unknown} /\ ctx[t].arg \in [0 .. 5 -> Addrint]
    BY DEF TypeInv, CtxType
  <2>2. call[t].out.ret \in Addrint
    BY Zenon DEF TypeInv, CallType, AnswerOK
  <2>3. QED BY <2>1, <2>2, CtxTyped
<1> HIDE DEF c
<1>3. ctx' \in [Threads -> CtxType]
  BY <1>1, <1>2 DEF TypeInv
<1>4. CallType(NoCall)
  <2>1. NoCall.nr = NoNr /\ NoCall.out = Answer(0, {})
    BY DEF NoCall, Call
  <2>2. QED BY <2>1, NothingAnswered, Zenon DEF CallType
<1>5. \A u \in Threads : call'[u] = IF u = t THEN NoCall ELSE call[u]
  BY <1>1 DEF DispatchInv, ThreadInv
<1>6. \A u \in Threads : CallType(call'[u])
  BY <1>4, <1>5, Zenon DEF TypeInv
<1>7. QED BY <1>1, <1>3, <1>6 DEF TypeInv

LEMMA NextTyped == DispatchInv /\ TypeInv /\ [Next]_vars => TypeInv'
<1> SUFFICES ASSUME DispatchInv, TypeInv, [Next]_vars PROVE TypeInv'
  OBVIOUS
<1>1. ASSUME UNCHANGED <<ctx, tags, steps, call, tainted>> PROVE TypeInv'
  BY <1>1, Zenon DEF TypeInv
<1>2. CASE UNCHANGED vars
  BY <1>1, <1>2 DEF vars
<1>3. CASE \E nr \in Registered : Register(nr)
  BY <1>1, <1>3 DEF Register
<1>4. CASE StartProgram
  BY <1>1, <1>4 DEF StartProgram
<1>5. ASSUME NEW t \in Threads, NEW nr \in CallsOf[t], Enter(t, nr) PROVE TypeInv'
  BY <1>5, EnterTyped
<1>6. ASSUME NEW t \in Threads, Kernel(t) PROVE TypeInv'
  BY <1>6, KernelTyped
<1>7. ASSUME NEW t \in Threads, sysexit_save(t) PROVE TypeInv'
  BY <1>7, ExitTyped
<1>8. ASSUME NEW t \in Threads, NEW d \in Cell, NEW s \in Cell, Move(t, d, s) PROVE TypeInv'
  <2>1. DOMAIN steps' = Threads /\ \A u \in Threads : steps'[u] \in 0 .. MaxSteps[u]
    BY <1>8, StepsTyped DEF Move
  <2>2. tags' \subseteq Cell /\ tainted' \subseteq Cell /\ ctx' = ctx /\ call' = call
    BY <1>8 DEF TypeInv, Move
  <2>3. QED BY <2>1, <2>2 DEF TypeInv
<1>9. QED BY <1>2, <1>3, <1>4, <1>5, <1>6, <1>7, <1>8 DEF Next

(* For any threads, memory, lengths and registered hooks, and whatever calls are  *)
(* made: what a context holds between sysenter_save and sysexit_save are values   *)
(* of an ADDRINT, its number is one of the table or the mark of an unknown call,  *)
(* and no tag is cleared or left outside memory.                                 *)
THEOREM TypeCorrect == Spec => []TypeOK
<1> DEFINE Inv == DispatchInv /\ TypeInv
<1>1. Init => Inv
  BY InitDispatch, InitTyped
<1>2. Inv /\ [Next]_vars => Inv'
  BY NextDispatch, NextTyped
<1>3. Inv => TypeOK
  <2> SUFFICES ASSUME Inv PROVE TypeOK
    OBVIOUS
  <2>1. desc \in [Known -> [nargs : 0 .. 6, save_args : BOOLEAN, retval_args : BOOLEAN,
                           map_args : [0 .. 5 -> {0, STRUCT}], pre : Hooks, post : Hooks]]
    BY DEF DispatchInv, TableInv, Desc
  <2>2. started \in BOOLEAN
    BY DEF DispatchInv, ThreadInv
  <2>3. ctx \in [Threads -> [nr : Known \cup {Unknown}, arg : [0 .. 5 -> 0 .. Word - 1],
                             ret : 0 .. Word - 1]]
    BY Zenon DEF TypeInv, CtxType, Addrint
  <2>4. tags \subseteq Cell /\ tainted \subseteq Cell /\ \A t \in Threads : steps[t] \in 0 ..
            MaxSteps[t]
    BY DEF TypeInv
  <2>5. \A t \in Threads : call[t].out.wrote \subseteq Cell
    BY Zenon DEF TypeInv, CallType, AnswerOK
  <2>6. QED BY <2>1, <2>2, <2>3, <2>4, <2>5, Zenon DEF TypeOK
<1>4. QED BY <1>1, <1>2, <1>3, PTL DEF Spec
=============================================================================
