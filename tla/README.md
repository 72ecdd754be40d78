# Theia offline analysis: TLA+ models, checks and proofs

Theia answers provenance queries about recorded processes. A client posts a query; the
replay server finds the processes ("subjects") on the paths between the objects of the
query, replays each of them from its log under a taint tool, and publishes which inputs
flowed into which outputs. This directory holds models of the two programs that do it,

* `theia-replay-server/` (Python): the REST interface, the queue and the worker;
* `taint64/taint64/` (C++): the taint tool, a Pin tool built on a 64-bit libdft, and the
  32-bit libdft and its tool it was ported from,

the TLC configurations that check them on small instances, and proofs that TLAPS checks.
Paths below are relative to the root of the repository.

## 1. Inventory

| Component | State | Operations | Talks to |
|---|---|---|---|
| REST interface (`wsgi.py`) | none | POST, GET, DELETE | query documents, queue |
| Query documents (`db_manager.py`, `query.py`) | one Mongo document per query, with its status | insert, update_status, query | REST interface, worker |
| Queue and worker (`queue_manager.py`, rq) | redis list, the job in progress, its alarm | enqueue, dequeue, handle_query | all parts of the server |
| Analysis (`analysis.py`, `search.py`) | connections; tables subgraph, subject, file, netflow | reachability, prepare_replay, publish_overlay | neo4j, psql |
| Replay control (`replay_utils.py`) | table rec_index, the victim in progress, table tag_overlay | proc_index, get_subjects_to_taint, reset_tag_overlay, create_victim, attach | psql, the victim and its tool |
| Publisher (`publisher.py`, `cdm.py`) | topic, Kafka producer, Avro file | publish, shutdown | Kafka |
| Taint tool (`libdft-dta64.cc`) | the uuids of the subject's inbound and outbound objects, counters | main, OnExit | TheiaDB |
| System call hooks (`dta_api64.cc`) | uuid_to_tag, tag_to_tag_uuid, tag_counter | the read, recvfrom, write and sendto hooks | shadow memory, TheiaDB |
| Taint tables (`TheiaDB.cpp`) | one psql connection; rows of tag_overlay | get_inbound/outbound_for_taint, theia_tag_overlay_query/insert | psql |
| Propagation (`libdft_core64.cc`) | tags of the register bytes (vcpu) and of memory (tag_dir) | one analysis routine per instruction, operand kind and width | shadow memory |
| Shadow memory (`tagmap64.cc`, `tagmap_custom.h`, `tag_traits.cc`) | a two-level directory of pages of tags | set, get, clear, combine | |
| 32-bit libdft (`libdft_core.c`, `libdft_api.c`, `syscall_desc.c`, `tagmap.c`) | one bit per byte for registers and memory, the context of the call in progress, the descriptors | the analysis routines, sysenter_save, sysexit_save, the hooks, the bitmap | |
| 32-bit taint tool (`libdft-dta.c`) | fdset, the descriptors whose data is tracked | hooks of read, open, dup, close, socketcall; checks of indirect branches | 32-bit libdft |
| System call dispatch (`libdft_api64.cc`, `syscall_desc64.cc`) | the context of the call in progress, per thread; the descriptors | sysenter_save, sysexit_save, the clearing hooks | hooks, shadow memory |

Not of the running system, and not modelled: sample Pin tools, earlier scripts
(`taint64/scripts`), packaging, and the vendored Pin kit. The 32-bit libdft and its tool
are built separately; they are modelled because they hold the larger part of the
hand-written propagation, bitmap and hook code.

What is hard about it:

* **Server.** The web process, the worker, its work horse and the victims are processes
  of their own. The alarm of a job rings at any statement; exceptions other than the
  timeout are not caught; a victim can outlive its job; the table tag_overlay is shared
  by all jobs and dropped by each; one statement of each request may be the last.
* **Propagation.** Nearly four hundred routines written by hand for every operand
  kind and width. Operands overlap; cmpxchg is instrumented by two calls that share a
  scratch register; 32-bit writes clear the upper half of a register; the direction flag
  turns string operations around; a wrong width silently falls into a default branch.
* **Hooks.** State of three lifetimes meets: tags live as long as the process, the table
  as long as the query, objects longer. Tags are small integers that wrap. The table is
  written byte by byte, with failures that are logged and forgotten.

* **Shadow memory.** The page directory is shared by all threads and grown without a lock;
  an allocation that fails is followed by code that uses it. The bitmaps of the other
  builds work with masks that cross bytes, words and segments.
* **Descriptors of the 32-bit tool.** The set is updated after the kernel's table, from
  hooks that run when other threads may have reused the number.

PROJECT.json lists these hazards at their lines, with the properties that cover them.

## 2. Modules

| Module | Models |
|---|---|
| `QueryService` | REST interface, documents, queue, worker, alarm, victims, overlay table |
| `JobLine` | abstract: what the service promises about the order of queries |
| `Propagation` | instructions and analysis routines over sets of tags |
| `TaintHooks` | the replays of one query: hooks, tags, overlay insertion |
| `Syscalls` | the environment: what programs pass to system calls and what Linux writes |
| `SyscallHooks` | the clearing hooks of libdft, one operator each |
| `SyscallDispatch` | descriptors, entry and exit of system calls, threads |
| `TagDirectory` | the page directory of `tagmap_custom.h` and the loops of `tagmap64.cc` over it, under threads |
| `TagMap` | abstract: a map from bytes to tags, which TagDirectory implements |
| `Tagmap32`, `Tagmap64` | the bitmap of `tagmap.c`; the segmented bitmap of `tagmap64.cc` with default tags |
| `Bitmaps` | both bitmaps against the set of tagged bytes |
| `Propagation32` | instructions and analysis routines of the 32-bit libdft |
| `Syscalls32`, `SyscallHooks32`, `SyscallDispatch32` | the 32-bit environment, hooks, descriptors and contexts |
| `DtaTool` | the 32-bit taint tool |
| `MCQueryService`, `MCPropagation`, `MCTaintHooks`, `MCSyscallDispatch`, `MCTagDirectory`, `MCBitmaps`, `MCPropagation32`, `MCSyscallDispatch32`, `MCDtaTool` | instances for TLC |
| `QueryServiceProofs`, `PropagationProofs`, `TaintHooksProofs`, `TagDirectoryProofs`, `SyscallDispatchProofs`, `Propagation32Proofs`, `SyscallDispatch32Proofs`, `DtaToolProofs` | theorems about the module each is named after |

Operators named like `insert_Save` or `NewTag_SameCounter` are mutants: changed versions
of the definition before the underscore, each of which breaks a property. They are used
by no specification.

### QueryService

`pc` is the position of the work horse in `handle_query`; each value is a place between
two statements that matter, and each action the statements up to the next one, in the
names of the functions called. `ReachTry` and `TaintTry` are the positions inside the two
try blocks. The POST handler has two halves with a crash between them (`PostInsert`,
`PostEnqueue`, `PostLost`); there is one web worker
(`configs/replay_server.gunicorn.conf`) and one rq worker (`replay_supervisor.conf`,
`numprocs=1`). GET reads, and DELETE answers and changes nothing, so neither is a step.

The alarm of rq (`AlarmRings`) is armed by `Dequeue` and rings once, anywhere: in a try
block it leads to the except clause (`AlarmCaught`), in the try block of `create_victim`
it first signals the victim (`AlarmInVictim`), outside it ends the job
(`AlarmUncaught`). `Fail` is an exception that nothing catches (a database or Kafka that
refuses), `HorseDies` a killed work horse. Victims are processes of their own: they
insert rows (`VictimInserts`) and exit whenever they like, also after their job.
`VictimExits` stands for every end a victim can have: the log replayed, a replay that breaks
off, the exception of a register_replay or exec that fails in the child, a death before
pin is attached, SIGTERM. `create_victim` treats them alike, since it only prints the exit
status, and so does the history `gone`: FinishedAwaited says that the victims were started
and have ended, not that their replays succeeded. What the child's copy of rq does with an
exception before it exits is not modelled.

`SelectOverlay` reads the rows, `publish` hands them one by one to the Kafka producer
(`buffer`), and `LeaveTaintTry` is the flush, which returns when the buffer is empty. The
producer runs beside the work horse: it delivers a record or, since `produce` is given no
callback, gives it up without anybody hearing of it (`unsent`, history). A job that ends
early takes its buffer with it. The Avro file, a copy that nothing reads, is left out.

A query is its id, a search the set of subjects it finds (`Reach`), a row of the overlay
the object it describes and its query. Subjects with the same pid and path are equal to
the server, and only one of them, chosen by the order of a hash table, gets a log
directory: `Representatives` gives all choices.

### Propagation

A location is a byte of a register or of memory; `tags` maps each to its set of tags.
`Xfer`, `Combine`, `Clr`, `Fill` are the loops of the routines over RTAG and tag_dir. The
routines keep their names without the suffix of their width (`r2r_xfer`, `m2r_binary`,
`cmpxchg_slow`); an action per instruction class is the case of `ins_inspect` that
chooses among them, with the conditions on operand kind and width the code tests.

Beside the tags the model runs the processor's own data flow. `must` follows it byte by
byte: a move copies, arithmetic joins the bytes at the same place. `may` follows it
operand by operand: every byte of a result depends on every byte of the operands. The
tracker is right when `must <= tags <= may` at every byte. The bounds come from the
instruction set, never from the tool.

`Program` names the classes of instructions a program is made of, so that a class on
which the tool is known to be wrong can be studied alone. A routine that writes outside
the shadow registers (bit scan with a register index out of range) ends the run of the
tool (`running`), or not, as the layout has it.

Modelled is the build that is shipped, with `USE_CUSTOM_TAG` and sets of tags. The build
with one bit per byte is left out, as are PUSHA and POPA (invalid in 64-bit mode).

### TaintHooks

One replay after the other (`Start`, `Exit`); `Exit` may come in the middle of a write,
which is what a killed victim does. `post_read_hook` stands for itself and
`post_recvfrom_hook`, `post_write_hook` for itself and `post_sendto_hook`, whose type of
event is a parameter. The loop of a write is one step per byte (`SinkByte`), because the
table is updated in each iteration. `DbFails` lets any statement fail. The tags of memory
move by `Move` and `Combine`; the instructions in between are the subject of Propagation.
Records for Kafka and Avro files, which nothing reads back, and the lookup of tags of
other hosts are left out.

`held` follows the tags that a read from an object that is not inbound leaves on its
buffer (the tool's hook replaces the one of libdft that would clear them), so that
NoStaleOrigin can say that nothing else is stale. `Wrapped` is the state in which more
objects have been read than there are tags: from then on a tag is renamed and the two
properties about names promise nothing.

### Syscalls, SyscallHooks, SyscallDispatch

A call is three steps: `Enter` (the program makes the call, `sysenter_save` keeps its
number and arguments in the context of the thread), `Kernel` (Linux answers and writes)
and `sysexit_save` (the hook of the call, or the default handling, clears tags). Steps of
other threads come in between. Each hook is an operator that returns the cells it
clears; `Syscalls` says, independently of it, which cells the kernel wrote. Memory is a
row of cells of the size of an int, so that an int taken for a size_t, a page too much or
a length too long shows. `ret` is an ADDRINT: -1 is `Word - 1`, and only a hook that casts
it to long sees a negative number.

`tainted` follows the data: the kernel's writes end it, copies spread it. The tool is right
when, apart from the cells of calls that are not over (`Pending`), `tags = tainted`. A
program is assumed not to touch what another thread's call has just written before that
call returns to it.

`ExpectedArgs` and `ExpectedAnswer` are the domain of the hooks: each conjunct excludes a
use of a call for which the hook clears other cells than the kernel wrote. With `AnyCall`
they are lifted. Checked alone with `AnyCall`, each call named there violates NoLostCell or
NoStaleCell and no other call does (nanosleep only because it clears on success; on
failure, when there is something to clear, the unsigned test makes it right). The table
has a row for one call of each hook and for each kind of call without one; the rows left
out differ in sizes.

The hooks of the tool for read, recvfrom, write and sendto (TaintHooks) replace those of
the table; here read has the hook of libdft, which pread64 and readlink keep.

### TagMap, TagDirectory

A pointer is the index of an object in the sequence of those allocated. Every access of
`tag_dir_setb` and `tag_dir_getb` to a shared pointer is an action (`CheckDir`,
`PublishTable`, `LoadTable`, `CheckPage`, ...), and the operations of `tagmap64.cc` are
loops over bytes. Allocation may fail (`TableFails`, `PageFails`): `libdft_die` asks Pin
to detach and returns, and the code goes on with NULL. `raced` records the bytes of a
table or page that one thread stored over another's; the tags in the one that lost are
gone, and the properties about single bytes are about all other bytes. The refinement
needs no such exception: TagMap lets a whole region become clear (`Forget`), and shows
that nothing worse happens.

### Tagmap32, Tagmap64, Bitmaps

The operators follow the code: masks shifted by the bit of the first address into a word
of the bitmap, an alignment step, a loop of 32 bits and a last loop of up to eight bytes.
`Bitmaps` applies each operation to both maps and to the plain set. `skipped` holds the
bytes that the last loop of `tagmap_clrn` leaves (it does not move its address on) or
scrambles, and `behind` those that a 16-bit word of the segmented bitmap has behind the end of its
segment; what the operations make of these is not said, everything else is exact.

### Propagation32

As Propagation, with one bit per byte and the 32-bit instruction set, pusha and popa
included. `used` records the classes executed, so that one run checks all classes for
TypeOK, those of `KeepFlow` for NoLostFlow and those of `KeepClean` for NoStaleTag; the
classes left out are the ones where the code differs from the processor (section 5). A rep
stos whose range leaves seven bytes to the last loop of `tagmap_clrn`, where the word is
multiplied, is a class of its own (`stosm`). The routines work on the words of the bitmap, and a
word at the end of the memory reaches up to eight bytes behind it: these are in `Loc`, so
that TypeOK says how far a routine can write.

### Syscalls32, SyscallHooks32, SyscallDispatch32

As their 64-bit counterparts, on bytes, with the full table of calls. Threads come and go
(`thread_alloc`, `thread_free`); socketcall and ipc take their arguments from memory, and
`post_socketcall_hook` rewrites the context before it calls the hook of recvmmsg.

### DtaTool

A call is two steps: the kernel does it (`Kernel...`, external), and its hook runs
(`Exit`). `files` is the kernel's table of descriptors and `data` the bytes with data of
tracked objects; `fdset` and `tags` are what the tool believes. `astray` holds the
descriptors whose number changed hands while a hook was still to come, those a dup2 or a
failing close left behind, and their copies; `mixed` the bytes read through them, by
recvmsg, or stored by a call that returned 0. Outside of these the two views agree.
Branches through registers or memory are `BranchReg` and `BranchMem`, with the checks of
the operand and of the bytes at its target.

## 3. Runs

| Run | Question | Result |
|---|---|---|
| `query_service` | Do statuses advance only (`StatusMonotone`)? Does "Finished." mean that for every recorded subject of the query a victim was started and has ended (`FinishedAwaited`) and that every row of its replays is published, or given up by the producer (`FinishedPublished`)? Is a row lost to the primary key only after a victim outlived its job (`LostRowNeedsOrphan`)? Is every tool of a query that timed out told to stop (`TimedOutVictimsSignalled`)? Are queries served in order, one at a time, at most once (`ServesLine`, refinement of JobLine)? Does every queued job leave the worker (`QueuedJobsEnd`)? | holds |
| `propagation_flow` | Does every chain of moves, exchanges, arithmetic, addresses, string stores, imul and div carry its tags (`NoLostFlow`)? | holds |
| `propagation_stale` | Is every tag that of a source that can have influenced the byte (`NoStaleTag`), without 32-bit destinations and bit scans? | holds |
| `propagation_all` | Do all classes together keep the shadow state well formed? | holds |
| `taint_hooks` | Until the tags wrap, do the tags of a byte name all objects whose data is in it (`NoLostOrigin`) and no others (`NoStaleOrigin`)? Does the table name only objects that were read (`OriginsWereRead`), and all of those in the last write or send of the row's type (`SinkRecorded`)? | holds |
| `syscall_dispatch` | Within the domain of the hooks, does the end of a call clear exactly what the kernel wrote (`NoStaleCell`, `NoLostCell`)? Does every hook see the number and the arguments of its own call, whatever was registered and however threads interleave (`HookSeesCall`)? | holds |
| `tag_directory` | Does no allocation of one thread disturb the tags of another (`LastTagKept`), does a lookup answer a tag the byte had meanwhile (`LookupInWindow`), is NULL only met after a failed allocation (`FaultNeedsFailure`), and is the directory a map from bytes to tags (`ServesMap`, refinement of TagMap)? | holds |
| `bitmaps` | Do all operations on all alignments and lengths change and report exactly the bytes they name (`Bitmap32Exact`, `Bitmap64Exact`)? | holds, but for skipped and behind |
| `propagation32` | NoLostFlow and NoStaleTag for the 32-bit routines; no routine writes past its register (TypeOK) | holds |
| `syscall_dispatch32` | The questions of `syscall_dispatch`, byte by byte, with threads that end and calls that are demultiplexed (`NoStaleByte`, `NoLostByte`, `HookSeesCall`) | holds |
| `dta_tool` | Is a descriptor in the set exactly when its object is tracked (`FdsetRight`), a byte tagged exactly when it has tracked data (`TaintRight`), and a branch stopped exactly when it goes through such data (`BranchesRight`)? | holds, but for astray and mixed |
| `subjects_of_other_queries` | "Get subjects related to this query." | violated |

The violated run quotes the comment it contradicts in PROJECT.json, "findings".

### Bounds

* `query_service`: two queries, four subjects in three processes (two of them the same to
  the server, one without a log), two objects. Two queries are enough for every
  interference there is (order in the queue, rows and subjects left behind by the one
  before, a victim that outlives its job), since the worker handles one at a time.
* Propagation: registers of four bytes with words of two and longs of three keep the
  four widths apart with half the bytes; memory of one quad, in which narrower
  operands overlap partly. One tag: every routine distributes over unions of tags. Three
  instructions: one to fill each of two operands and one to use them.
* TaintHooks: two subjects of which the second reads what the first wrote, three objects,
  two bytes, two tags (so that the counter wraps to 0 and, with the third object, the tags
  run out), five calls: two reads, a move or a combination, and two writes or sends.
  `MaxCalls` is the only bound that is not in the code.
* SyscallDispatch: one thread makes one call of any kind, with all its arguments and
  answers, while another reads or copies; buffers of up to two cells at three places, nine
  cells, all tagged at first, so that a cell cleared in error and a cell left in error
  both show. Two threads are enough for a context to be mixed up with another. Registered
  hooks are those of write; every order of the four operations on its row is a path.

* TagDirectory: two tables of two pages of two bytes, two threads, ranges inside a page and
  across tables, an address with bits above the directory, three operations, one failed
  allocation. Two operations make a race and the third looks at what it left.
* Bitmaps: two segments of 64 bytes; addresses at each kind of alignment, near and at the
  end of a segment, lengths for every path of the range operations; two operations, since
  each is checked against any state that one range can leave.
* Propagation32: the operands EDX and EAX, memory of 36 bytes (a frame of pusha at two
  alignments), counts 2, 9 and 15 (below and on the fast path of the bitmap, and with the
  multiplied word at its end), and every subset of four bytes, in memory and in EAX and EDX,
  tagged at first in place of the instructions that would tag them; two instructions.
* SyscallDispatch32: one call of any kind beside one call and the end of another thread;
  lengths of 0, 8 and 12 bytes, two offsets.
* DtaTool: two threads, descriptors 0, 3 and 17 (the number of the recvmsg socket call), two
  buffers of eight bytes and an address in the code, three calls or instructions: open or
  duplicate, reuse or close in the other thread, and read or branch.

Symmetry in the threads is used in tag_directory and dta_tool, which check no liveness.
Deadlock is not checked: a service with nothing left to do, and a program that has ended,
are legal ends.

### Fairness

`QueuedJobsEnd` assumes weak fairness of `Dequeue` (the worker polls the list, supervisor
restarts it), of the steps of the work horse, and of the alarm (the timer of the kernel).
Nothing is assumed of clients, of the Kafka brokers and of victims: a victim that never ends is the case the
property is about. The other properties need no fairness.

## 4. Proofs

Every theorem is proved from the assumptions on the constants that the module of the
component states (`...Assumption`), for every value of the constants; a theorem about some
programs or calls only says so in its hypothesis. The invariants below were checked by TLC
on the instances of the runs before they were proved. In each proof an invariant has one
step per action, and the operators have lemmas of their own.

### The service: QueryServiceProofs

| theorem | property |
|---|---|
| `TypeCorrect` | TypeOK |
| `StatusAdvances` | StatusMonotone |
| `ServiceImplementsLine` | ServesLine, the refinement of JobLine |
| `TimedOutSignalled` | TimedOutVictimsSignalled |
| `FinishedMeansAwaited` | FinishedAwaited |
| `FinishedMeansPublished` | FinishedPublished |
| `LostRowHasOrphan` | LostRowNeedsOrphan |

TypeOK is inductive as it stands, because it says that a job in progress has a query (`cur`
is a query unless `pc` is "idle"). None of the others is. What they lack is where a query
can be: `LineInv` says that it is in the POST, or once in the queue, or with the work horse,
or ended, and that only one that reached the work horse has a status beyond "inqueue"; then
`StatusInv` ties the status to the position in `handle_query`, and the status can only
advance. The refinement needs LineInv alone. For FinishedAwaited, `ReplayInv` follows the
promise through the job: every subject with a recorded log is still to do, or in the hands
of create_victim, or had a victim that has ended (`gone`), and the list is empty once the
loop is left; a victim in hand that is not alive has ended (`HeldInv`), and it is the job's own
by `VictimInv`, which also gives the property of timeouts. For FinishedPublished, `RowInv`
accounts for every row inserted for the current query: in the table, then in the records to
send, the buffer of the producer, published, or given up. `KeyInv` says that the table holds
rows of the current query alone unless a victim outlived its job.

### Tag propagation: PropagationProofs

`TypeCorrect` is about every program: all routines, the ones with mistakes included, read
and write bytes of the registers and of the memory.

`FlowKept`: if the program consists of the classes "plain", "imul3", "div" and "leave", then
`Spec => []NoLostFlow`, for any registers, widths 2 <= W < L < Q, size of memory, sources
and number of instructions. NoLostFlow is not inductive: on its slow path cmpxchg
moves the tags of the accumulator through the scratch register, and the processor's data
there would have to be bounded by tags that a later instruction overwrites. The inductive
invariant is `FlowInv == NoLostFlow /\ ScratchEmpty`, where ScratchEmpty says that the
processor's data is never in the scratch register, which has no counterpart in the
processor. The argument: every routine is monotone in the order "at every byte a subset of"
(one lemma per routine: XferMono, CombineMono, SwapMono, XaddMono, StosnMono,
CombinePairMono, ExtendMono, LeaMono), the processor's flow is the same routine or one below
it, and what the processor adds (zeroing the upper half, ZxBelow) only lowers the lower
bound. CmpxchgPaths composes the calls of cmpxchg.

`NoTagStale`: if the program consists of "plain", "div", "memdiv", "extend", "shift", "sse"
and "leave", and no operand is a long, then `Spec => []NoStaleTag`. Longs are excluded
because 32-bit writes do leave stale tags (section 5). The inductive invariant adds that the
vector register never has a tag: it has no shadow, and a load into it changes what may be in
it but not its tags. The order `Covers` leaves the scratch register out; a result that
depends on whole operands covers any routine that takes tags from their bytes (FillCovers,
CoversUnion and the lemmas on them).

### The taint tool: TaintHooksProofs

| theorem | property |
|---|---|
| `TypeCorrect` | TypeOK |
| `OriginsKept` | NoLostOrigin |
| `OriginsHeld` | NoStaleOrigin |
| `TableOriginsRead` | OriginsWereRead |
| `WritesRecorded` | SinkRecorded |

The invariant `HooksInv` has the two maps inverse to each other until the counter wraps
(`MapInv`), which needs the counter to be the number of objects read, a fact about
cardinalities; the tags of bytes to be tags given out (`ByteInv`); and, in the middle of a
write, the origins gathered to be at least those of the bytes passed (`SinkInv`).

### The shadow memory: TagDirectoryProofs

| theorem | property |
|---|---|
| `TypeCorrect` | TypeOK |
| `TagsKept` | LastTagKept |
| `LookupsInWindow` | LookupInWindow |
| `FaultsNeedFailure` | FaultNeedsFailure |
| `DirectoryServesMap` | ServesMap, the refinement of TagMap |

For any number of threads, any sizes of the three levels and any interleaving of their
steps. `HeapInv` says that a table is in at most one slot of the directory and a page in at
most one slot of one table, so that two bytes never share a slot (the three indices of an
address are the digits of its byte, lemmas on `\div` and `%`). `PointerInv` says of the
pointers a thread holds across the steps of others that they are still the ones in their
slots, or that the bytes of the slot are in `raced`; `NullInv` and `WindowInv` are the same for
NULL pointers and for the values a lookup may answer.

### 64-bit system calls: SyscallDispatchProofs

`CallsSeen`: `Spec => []HookSeesCall` for any threads, registered hooks and interleaving. It
needs that a row with a hook saves its arguments, which `syscall_set_pre`, `syscall_set_post`
and the functions that remove hooks maintain, and that the table only changes while no call
is in progress.

`TypeCorrect`: `Spec => []TypeOK`, for any registered hooks and any calls, those that
`Expected` excludes included. The invariant `TypeInv` adds the calls in progress: each is
one a program can make, and its answer one the kernel can give. There is one lemma per call
(`AllCallsTyped` collects them): every argument is an ADDRINT, the result has that width,
and the kernel writes cells of the memory.

`NoCellStale` and `NoCellLost`: `Spec => []NoStaleCell` and `Spec => []NoLostCell`, under the
hypothesis `Expected`: the calls are those of ExpectedArgs and ExpectedAnswer (`~AnyCall`, as
in the run; section 5 lists what is excluded and why), and the tool registers hooks for
write alone. The core is a lemma for each call, that what its hook clears is what the kernel
wrote, for every argument, length and answer (`AllExact` collects them). The theorems follow
with an invariant on the calls in progress (`MemoryCalls`, `PendingInv`: tracked data is in no
cell a call has just written). `SyscallsAssumption` asks that Word exceed twice every
address and length, which is what keeps a valid result from looking negative when an
ADDRINT is cast to long, and be at least 64, so that the commands the hooks tell apart have
different values.

### 32-bit propagation: Propagation32Proofs

`TypeCorrect`: every program keeps its tags on registers and memory, and at most eight bytes
behind it. The invariant `TypeInv` adds that what the processor does (`must`, `may`) stays
on its own bytes, `Real`, which excludes the scratch register of libdft.

`FlowKept`: if the classes in KeepFlow are "plain", "imul3", "div", "stosb", "stosn" and
"popa", or fewer, then `Spec => []NoLostFlow`. `NoTagStale`: if those in KeepClean are
"plain", "bitscan", "movsxw", "div", "memdiv", "xadd", "stosb", "shift" and "popa", or
fewer, then `Spec => []NoStaleTag`. These are the classes of the run. Registers, size of the
memory, places, frames and counts are any; "plain" is everything that is in no other class,
so the theorems are about all moves, arithmetic, exchanges, string and stack operations
whose operands the code does not get wrong.

The routines of `tagmap.c` come first: for every address and every length, `tagmap_setn` sets
exactly the bits of its range (`SetnSpan`); `tagmap_clrn` clears exactly them up to eight
bytes (`ClrnShort`), and of a longer range no others unless seven bytes are left to its last
loop (`ClrnKeeps`), in which case it reaches at most a word further (`ClrnBounded`). Flow is
then monotone as in the 64-bit proof; an exchange, and the slow path of cmpxchg, pass through
the scratch register and are shown to be what the processor does (`Exchanged`, `XaddSwap`,
`CmpxchgUndone`). For stale tags `Covers` is the order on real bytes: what may influence a
byte includes its tag.

### 32-bit system calls: SyscallDispatch32Proofs

| theorem | property | hypothesis |
|---|---|---|
| `CallsSeen` | HookSeesCall | none |
| `NoByteStale` | NoStaleByte | Expected |
| `NoByteLost` | NoLostByte | Expected |
| `TypeCorrect` | TypeOK | Expected |

For any threads that come and go, and any room, lengths and offsets of the buffers. Expected
is the hypothesis of the 64-bit proof, and that of the run: the calls are those of
ExpectedArgs and ExpectedAnswer (`~AnyCall`; section 5), and the hooks registered are those
of write. `DispatchInv` is for HookSeesCall what it is there; in addition no thread has a
context or a call before the program starts, when the table may still change. HookSeesCall is
proved for socketcall and ipc too, whose hooks are called with a context that another hook
has rewritten.

`MemoryInv` says of the row of write that its hooks clear nothing (`MemoryTable`), of each call
in progress that it is one of the expected ones and that its answer is what the kernel
delivers (`MemoryCalls`), and that no tracked data is in bytes a call has just written
(`PendingInv`); NoStaleByte and NoLostByte are inductive with these. The core is `RowRight`,
that a hook, or the default handling of a row without one, clears the bytes the kernel wrote
and no others: one lemma for each call and each socketcall and ipc sub-call, `AllExact` for
the table. They rest on `ClrnExact`, that `tagmap_clrn` clears a range as a whole at every
alignment if it leaves at most eight and not seven bytes to its last loop (`Exact`). While
`~AnyCall` the model leaves out the ends of calls that clear other ranges, for which the
disagreement is that of tagmap_clrn (section 5) and checked in Bitmaps.

The 32-bit hooks walk I/O vectors, arrays of messages and sequences of ranges with recursive
functions, and the lemmas about these are for any length, so they need induction. The
library's theorem takes the predicate as an operator parameter; here it is stated about sets
instead: a set of numbers has a least member because `<` is well founded (`LeastMember`),
hence a set with 0 and all successors is Nat (`Induction`), and the recursive functions exist
(`RecursionExists`). `CoversVector` and `CoversEach` then say what a loop clears: the first
bytes of a vector, and the union of its turns.

### The 32-bit taint tool: DtaToolProofs

| theorem | property |
|---|---|
| `TypeCorrect` | TypeOK |
| `SetFollowsKernel` | FdsetRight |
| `TagsFollowData` | TaintRight |
| `BranchesJudged` | BranchesRight |

For any threads, descriptors, settings and number of calls, and any buffers of eight bytes
that do not overlap. None of the properties is inductive: FdsetRight says nothing of a
descriptor that a call has in hand, and TaintRight nothing of the bytes of a call in
progress. The invariant `ToolInv` says what holds there. A descriptor is settling while a hook
has still to insert or to remove it, and every other one is right (`FdInv`). A call relies on
what others may change before its hook runs, unless its descriptor went astray: a close has
left its number free, a call that makes a descriptor finds it in the set only if it is
tracked, a call that uses one uses an open one that is not settling, and a duplicate has the
kind of its original. The bytes that a call has written are its own, and hold tracked data
exactly if the object is tracked (`WriteInv`). `HookFds` and `HookTags` say what the hooks do
to the set and to the tags; for the latter every mask of the bitmap is shown to be its range
of bytes at any alignment (`ChunkSpan`), and the loops over an I/O vector to take its first
bytes (`Scatter`). `KernelStep` does the kernel's half of all calls at once, `ExitStep` the
half of the hooks.

### Only model-checked

Liveness (QueuedJobsEnd: fairness is beyond the prover) and the runs of Bitmaps. Of these,
the range operations of `tagmap.c` are also proved, as lemmas, for all addresses and lengths
(Propagation32Proofs, SyscallDispatch32Proofs); the operations of Tagmap32 on single bits
and words and the segmented map of Tagmap64 are left to TLC. In SyscallDispatchProofs and
DtaToolProofs the I/O vectors are those that `Vectors` names, of one or two elements, and a
call of DtaTool reads at most eight bytes (`Counts`): there the recursive functions are
unrolled. Elsewhere what is excluded by a hypothesis of a theorem, classes of instructions or
calls, is where the code and the processor or the kernel disagree (section 5); TypeOK of the
32-bit system calls is proved and checked without the calls that `AnyCall` adds.

## 5. Disagreements met while modelling

Beyond the one with a run (`subjects_of_other_queries`), in the 64-bit tool:

* A division or multiplication by a memory operand of several bytes tags its result from
  the first byte alone (`libdft_core64.cc:7174`; "t[dst1]:t[dst2] |= t[src]"): the width is
  asked of INS_MemoryWriteSize. Seen by NoLostFlow with `{"plain", "memdiv"}`.
* An object that is written and then sent to keeps the origins of the write: the row is found
  by the uuid, and updated by uuid and type (`TheiaDB.cpp:1108`). Hence the condition on
  the type in SinkRecorded.
* With more inbound objects than values of unit_tag_t the tag of one object is given to
  another (`dta_api64.cc:240`; "counter to label each byte read differently",
  `dta_api64.cc:85`). Hence `Wrapped`.
* A read from an object that is not inbound leaves the tags of the bytes it overwrites
  (`dta_api64.cc:264`; libdft "performs tag cleanup for the syscalls that have
  side-effects"). Hence `held`.
* A failed call without a hook takes the tags of the buffer it did not write
  (`libdft_api64.cc:878`, `ret < 0` of an unsigned long; "the syscall failed"). Seen by
  NoLostCell with `AnyCall = TRUE`.

* rep stos with the direction flag set tags the bytes `dst - 2*count + 1 .. dst`
  (`libdft_core64.cc:4681`); the processor writes `dst - 2*(count-1) .. dst + 1`. Seen by
  NoLostFlow with `Program = {"plain", "std"}`.
* Sign extension clears the tags of the bytes it fills (`libdft_core64.cc:154`), where the
  comments say `t[upper(eax)] = t[ax]`. Seen by NoLostFlow with `{"plain", "extend"}`.
* lea into a 32- or 16-bit register asks REG32_INDX for a 64-bit base, which answers the
  scratch register (`libdft_core64.cc:9126`). Seen by NoLostFlow with `{"plain", "lea32"}`.
* 32-bit writes leave the tags of the upper half (`libdft_core64.cc:4052`), which the
  comment says are cleared. Seen by NoStaleTag with L among the widths.
* bsf and bsr write the tags of their source back to it and leave the old tags on their
  destination (`libdft_core64.cc:5167`; "Clean the rest byte", 5135). Seen by NoStaleTag
  with `{"plain", "bitscan"}`.
* Every replay starts tag_counter_global from 0, so two subjects of a query hand out the
  same tag uuids (`libdft-dta64.cc:670`; "alwasy generate a new tag uuid",
  `dta_api64.cc:399`).
* What ExpectedArgs and ExpectedAnswer exclude, each seen with `AnyCall = TRUE`. Tags
  cleared though the data is still there: failed calls without a hook, and failed
  sendmmsg, process_vm_readv and arch_prctl (`ret < 0` of an unsigned); mmap of a whole
  number of pages; socket addresses longer than their buffer; getgroups, listxattr and
  getxattr that only ask for a length; inputs (the timeout of io_getevents, newval of
  _sysctl, the attributes of perf_event_open, the address of ARCH_SET_FS); the priority of
  mq_timedreceive, an unsigned int cleared as a size_t; an fd_set longer than nfds. Tags
  left on what the kernel wrote: poll, msgrcv, mq_timedreceive, recvmsg and recvfrom that
  return 0; quotactl, whose command is compared with the type still in it; semctl, whose
  union is taken for a pointer to one; ARCH_GET_FS; msg_controllen of recvmmsg; the mode
  or nodemask of get_mempolicy with flags; the rusage of waitid, which is argument 4 of a
  row with 4 arguments; ioctl, and calls beyond the table.
* A write of bytes without tags erases the character before the first of an empty string
  (`TheiaDB.cpp:1069`): `state = "broken"` is reachable in TaintHooks.
* Two threads that touch a page for the first time may both allocate it, and the tags
  written to the one that is replaced are lost (`tagmap_custom.h:65`, `:79`). Hence `raced`.
* libdft_die returns, and tag_dir_setb then uses the pointer that could not be allocated
  (`tagmap_custom.h:63`, `:76`).
* The last loop of tagmap_clrn does not move the address on, and its case of seven bytes
  multiplies the entry where it should mask it (`tagmap.c:909`, `tagmap64.cc:991`). Hence
  `skipped`. A word at the end of a segment reaches behind it (`tagmap64.cc:184`). Hence
  `behind`.
* The docstring of update_status gives "status options: (inqueue, running, finished.)"
  (`db_manager.py:26`). The statuses written are "inqueue" (`wsgi.py:44`), "Reachability
  Analysis", "timeout: reachability analysis", "Preparing Replay", "Replaying", "timeout:
  taint analysis" and "Finished." (`queue_manager.py:28` to `:61`): no query is ever
  "running" or "finished.", and a client that waits for either waits forever. TypeOK has the
  statuses of the code.
* "Finished." says nothing of the outcome of the replays: the exit status of a victim is only
  printed (`replay_utils.py:215`), so a query all of whose replays failed is "Finished." too.
  Hence the wording of FinishedAwaited.
* DELETE answers "is canceled." and cancels nothing (`wsgi.py:51`, with a TODO); the
  option that turns the replay off is read and never tested (`queue_manager.py:42`).

In the 32-bit libdft and its tool:

* Classes outside KeepFlow or KeepClean. Bit scans are treated as moves. The bytes that the
  sign extension of a word adds get the tags of both its bytes in turn. Operands in memory of
  movsx, movzx, mul and div are taken for a byte (INS_MemoryWriteSize again). The upper half
  of a product keeps its old tags and gets none of the accumulator; imul with three operands
  keeps those of its destination. 16-bit lea asks for the index of a 32-bit register and gets
  the scratch register. xadd of bytes and words clears the rest of its register. xchg and
  xadd of a word with memory compare (`<`) where they should shift (`libdft_core.c:948`,
  `:1212`), and xadd of a long clears its neighbours. popa from an address that is not a
  multiple of eight shifts by the wrong amount (`libdft_core.c:2292`). rep stos tags all
  elements or none, from the wrong end with the direction flag set; if its range leaves seven
  bytes to the last loop of `tagmap_clrn`, the word is multiplied by the mask
  (`tagmap.c:961`) and the tags of bytes behind the range are lost or made up, which the
  proof of FlowKept came upon. cmpxchg of bytes, enter, shifts and SSE are not handled.
* The calls that ExpectedArgs and ExpectedAnswer of SyscallDispatch32 exclude, for the
  reasons in the comments there; `ret < 0` of an unsigned is also in `libdft_api.c:285`.
* The case recvmsg looks up the number of the socket call (`libdft-dta.c:570`; "get the
  descriptor"); dup2 over a tracked descriptor and a close that fails leave a stale number
  (`libdft-dta.c:660`, `:678`); a hook may find its descriptor reused by another thread
  (`:686`); a datagram of length 0 leaves the tags of what came with it. Hence `astray` and
  `mixed`.

## 6. Not modelled, and the plan

Next, in this order:

1. `SubjectTables`: the rows that `insert_paths` writes, the lookups of TheiaDB that read
   them (the text None for an absent uuid), the choice of the tag width in attach.
   Composes with TaintHooks, whose `Inbound` and `Outbound` it computes.
2. Theorems about Bitmaps: Bitmap32Exact from the range lemmas above, then the segmented
   map, whose words end at a segment.
3. NoCellStale and NoCellLost for I/O vectors of any length, with the induction of the
   32-bit proof.

Out of reach or out of scope: what neo4j, psql, redis, Kafka and Pin do inside (external,
used by their interface); the serialization of CDM records (pure conversion); the replay
compensation of the tool (counters shared with a kernel that is not in the repository);
the functions of TheiaDB for system call logs, which nothing calls; the propagation of the
64-bit build with one bit per byte; the registration of the instrumentation with Pin.
