----------------------------- MODULE TagDirectory -----------------------------
(***************************************************************************)
(* The shadow memory of the 64-bit libdft built with custom tags, which is    *)
(* what the taint tool uses: the directory of tagmap_custom.h, with tables    *)
(* and pages that tag_dir_setb allocates on first use, and the byte loops of  *)
(* tagmap64.cc over it.                                                      *)
(*                                                                           *)
(* All threads of the replayed program share the directory and take no lock.  *)
(* Each access of a thread to a shared pointer is a step of its own. The tag  *)
(* of a byte (a std::set) is read and written in one step: threads that touch *)
(* one byte at the same moment are outside the model.                        *)
(*                                                                           *)
(* A pointer is an index into the sequence of the objects allocated so far;   *)
(* objects are never freed.                                                  *)
(***************************************************************************)
EXTENDS Naturals, Sequences, FiniteSets, FiniteSetsExt

CONSTANTS Threads,
          DIR_SZ, DIR_TABLE_SZ, DIR_PAGE_SZ,
          Starts, Lens,     \* first addresses and lengths of the operations
          GivenTags,        \* tags passed to tagmap_setb_with_tags
          MaxOps, MaxFails  \* bounds: operations begun, allocations that fail

ASSUME TagDirectoryAssumption ==
    /\ {DIR_SZ, DIR_TABLE_SZ, DIR_PAGE_SZ} \subseteq Nat \ {0}
    /\ Starts \subseteq Nat /\ Lens \subseteq Nat \ {0}
    /\ MaxOps \in Nat /\ MaxFails \in Nat

NULL == 0
cleared_val == {}
set_val     == {1}

VARIABLES dir,        \* table pointers
          tables,     \* every table allocated: page pointers
          pages,      \* every page allocated: tags
          th,         \* the operation each thread is in
          detaching,  \* libdft_die asked Pin to detach
          crashed,    \* the process dereferenced NULL
          ops, fails,
          last,       \* history: the tag last assigned to each byte
          raced       \* history: bytes whose table or page was published twice

vars == <<dir, tables, pages, th, detaching, crashed, ops, fails, last, raced>>

-----------------------------------------------------------------------------
\* Mutant of virt2page: the shift of virt2table.
virt2page_Shift(addr) == (addr \div (DIR_PAGE_SZ * DIR_TABLE_SZ)) % DIR_TABLE_SZ

virt2table(addr)  == (addr \div (DIR_PAGE_SZ * DIR_TABLE_SZ)) % DIR_SZ
virt2page(addr)   == (addr \div DIR_PAGE_SZ) % DIR_TABLE_SZ
virt2offset(addr) == addr % DIR_PAGE_SZ

\* Addresses that agree in these bits share their tag.
Byte(addr) == addr % (DIR_SZ * DIR_TABLE_SZ * DIR_PAGE_SZ)
Bytes == 0 .. DIR_SZ * DIR_TABLE_SZ * DIR_PAGE_SZ - 1

InTable(addr) == {b \in Bytes : b \div (DIR_PAGE_SZ * DIR_TABLE_SZ) = Byte(addr) \div (DIR_PAGE_SZ * DIR_TABLE_SZ)}
InPage(addr)  == {b \in Bytes : b \div DIR_PAGE_SZ = Byte(addr) \div DIR_PAGE_SZ}

\* What tag_dir_getb answers when no other thread moves.
Lookup(b) ==
    LET table == dir[virt2table(b)]
        page  == IF table = NULL THEN NULL ELSE tables[table][virt2page(b)]
    IN IF page = NULL THEN cleared_val ELSE pages[page][virt2offset(b)]

Idle == [pc |-> "idle", op |-> "none", todo |-> {}, addr |-> 0, tag |-> cleared_val,
         table |-> NULL, page |-> NULL, acc |-> cleared_val, window |-> {}]

Init ==
    /\ dir = [i \in 0 .. DIR_SZ - 1 |-> NULL]
    /\ tables = <<>> /\ pages = <<>>
    /\ th = [t \in Threads |-> Idle]
    /\ detaching = FALSE /\ crashed = FALSE
    /\ ops = 0 /\ fails = 0
    /\ last = [b \in Bytes |-> cleared_val]
    /\ raced = {}

At(t, pc) == ~crashed /\ th[t].pc = pc
Goto(t, pc) == th' = [th EXCEPT ![t].pc = pc]
Heap == <<dir, tables, pages>>
Rest == <<detaching, crashed, ops, fails, last, raced>>

-----------------------------------------------------------------------------
(* The operations of tagmap64.cc: a thread works through the bytes of a range  *)
(* one by one; the combining reads take them in any order (the arguments of    *)
(* tag_combine are not sequenced).                                             *)

Span(a, n) == {a + i : i \in 0 .. n - 1}

Begin(t, op, a, n, tag) ==
    /\ At(t, "idle") /\ ~detaching /\ ops < MaxOps
    /\ ops' = ops + 1
    /\ th' = [th EXCEPT ![t] = [Idle EXCEPT !.pc = "byte", !.op = op, !.todo = Span(a, n), !.tag = tag]]
    /\ UNCHANGED <<Heap, detaching, crashed, fails, last, raced>>

\* tagmap_setb, setw, setl, setq and setn.
tagmap_set(t, a, n) == Begin(t, "set", a, n, set_val)
tagmap_setb_with_tags(t, a, tag) == Begin(t, "set", a, 1, tag)
\* tagmap_clrb, clrw, clrl, clrq and clrn.
tagmap_clr(t, a, n) == Begin(t, "set", a, n, cleared_val)
\* tagmap_getb, getb_as_ptr, getw, getl and getq.
tagmap_get(t, a, n) == Begin(t, "get", a, n, cleared_val)

NextByte(t) ==
    /\ At(t, "byte") /\ th[t].todo # {}
    /\ \E a \in th[t].todo :
          /\ th[t].op = "set" => a = Min(th[t].todo)
          /\ th' = [th EXCEPT ![t].addr = a, ![t].todo = @ \ {a}, ![t].window = IF th[t].op = "get" THEN {last[Byte(a)]} ELSE {},
                              ![t].pc = IF th[t].op = "set" THEN "checkdir" ELSE "getdir"]
    /\ UNCHANGED <<Heap, Rest>>

\* The operation returns; acc is the answer of a combining read.
Return(t) ==
    /\ At(t, "byte") /\ th[t].todo = {}
    /\ th' = [th EXCEPT ![t] = Idle]
    /\ UNCHANGED <<Heap, Rest>>

\* A call for one byte returns, and its local variables are gone.
ByteDone(l) == [l EXCEPT !.pc = "byte", !.addr = 0, !.table = NULL, !.page = NULL, !.window = {}]

-----------------------------------------------------------------------------
(* tag_dir_setb                                                                *)

DirSlot(t)  == virt2table(th[t].addr)
PageSlot(t) == virt2page(th[t].addr)

\* A dereference of NULL ends the process.
Fault(t) == crashed' = TRUE /\ UNCHANGED <<Heap, th, detaching, ops, fails, last, raced>>

\* Mutant of CheckDir: the test is the wrong way round.
CheckDir_Reversed(t) ==
    /\ At(t, "checkdir")
    /\ Goto(t, IF dir[DirSlot(t)] # NULL THEN "newtable" ELSE "loadtable")
    /\ UNCHANGED <<Heap, Rest>>

CheckDir(t) ==
    /\ At(t, "checkdir")
    /\ Goto(t, IF dir[DirSlot(t)] = NULL THEN "newtable" ELSE "loadtable")
    /\ UNCHANGED <<Heap, Rest>>

\* Stores the pointer that new answered, which is NULL when it failed.
PutTable(t, ptr) ==
    /\ dir' = [dir EXCEPT ![DirSlot(t)] = ptr]
    /\ raced' = IF dir[DirSlot(t)] = NULL THEN raced ELSE raced \cup InTable(th[t].addr)
    /\ Goto(t, "loadtable")

PublishTable(t) ==
    /\ At(t, "newtable")
    /\ tables' = Append(tables, [i \in 0 .. DIR_TABLE_SZ - 1 |-> NULL])
    /\ PutTable(t, Len(tables) + 1)
    /\ UNCHANGED <<pages, detaching, crashed, ops, fails, last>>

\* libdft_die asks for the detach and returns; tag_dir_setb goes on.
libdft_die == fails < MaxFails /\ fails' = fails + 1 /\ detaching' = TRUE

TableFails(t) ==
    /\ At(t, "newtable") /\ libdft_die
    /\ PutTable(t, NULL)
    /\ UNCHANGED <<tables, pages, crashed, ops, last>>

LoadTable(t) ==
    /\ At(t, "loadtable")
    /\ th' = [th EXCEPT ![t].table = dir[DirSlot(t)], ![t].pc = "checkpage"]
    /\ UNCHANGED <<Heap, Rest>>

\* Mutant of CheckPage: the page is taken without the test.
CheckPage_Missing(t) ==
    /\ At(t, "checkpage")
    /\ \/ th[t].table = NULL /\ Fault(t)
       \/ /\ th[t].table # NULL
          /\ Goto(t, "loadpage")
          /\ UNCHANGED <<Heap, Rest>>

CheckPage(t) ==
    /\ At(t, "checkpage")
    /\ \/ th[t].table = NULL /\ Fault(t)
       \/ /\ th[t].table # NULL
          /\ Goto(t, IF tables[th[t].table][PageSlot(t)] = NULL THEN "newpage" ELSE "loadpage")
          /\ UNCHANGED <<Heap, Rest>>

PutPage(t, ptr) ==
    /\ tables' = [tables EXCEPT ![th[t].table][PageSlot(t)] = ptr]
    /\ raced' = IF tables[th[t].table][PageSlot(t)] = NULL THEN raced ELSE raced \cup InPage(th[t].addr)
    /\ Goto(t, "loadpage")

\* Mutant of PublishPage: the new page starts with the tag that is being set.
PublishPage_Unfilled(t) ==
    /\ At(t, "newpage")
    /\ pages' = Append(pages, [i \in 0 .. DIR_PAGE_SZ - 1 |-> th[t].tag])
    /\ PutPage(t, Len(pages) + 1)
    /\ UNCHANGED <<dir, detaching, crashed, ops, fails, last>>

\* The page is filled with cleared tags before it is published.
PublishPage(t) ==
    /\ At(t, "newpage")
    /\ pages' = Append(pages, [i \in 0 .. DIR_PAGE_SZ - 1 |-> cleared_val])
    /\ PutPage(t, Len(pages) + 1)
    /\ UNCHANGED <<dir, detaching, crashed, ops, fails, last>>

\* std::fill takes the iterators of the page that could not be allocated.
PageFails(t) ==
    /\ At(t, "newpage") /\ libdft_die
    /\ crashed' = TRUE
    /\ UNCHANGED <<Heap, th, ops, last, raced>>

LoadPage(t) ==
    /\ At(t, "loadpage")
    /\ th' = [th EXCEPT ![t].page = tables[th[t].table][PageSlot(t)], ![t].pc = "write"]
    /\ UNCHANGED <<Heap, Rest>>

\* Every thread that is reading the byte may see its new tag.
WriteTag(t) ==
    LET b == Byte(th[t].addr) IN
    /\ At(t, "write")
    /\ pages' = [pages EXCEPT ![th[t].page][virt2offset(th[t].addr)] = th[t].tag]
    /\ last' = [last EXCEPT ![b] = th[t].tag]
    /\ th' = [u \in Threads |->
                 IF u = t THEN ByteDone(th[u])
                 ELSE IF Byte(th[u].addr) = b /\ th[u].window # {} THEN [th[u] EXCEPT !.window = @ \cup {th[t].tag}] ELSE th[u]]
    /\ UNCHANGED <<dir, tables, detaching, crashed, ops, fails, raced>>

-----------------------------------------------------------------------------
(* tag_dir_getb_as_ptr and tag_dir_getb                                        *)

\* The tag of a byte of a combining read has been found.
Found(t, tag) == th' = [th EXCEPT ![t].tag = tag, ![t].pc = "found"]

GetDir(t) ==
    /\ At(t, "getdir")
    /\ IF dir[DirSlot(t)] = NULL THEN Found(t, cleared_val) ELSE Goto(t, "gettable")
    /\ UNCHANGED <<Heap, Rest>>

GetTable(t) ==
    /\ At(t, "gettable")
    /\ th' = [th EXCEPT ![t].table = dir[DirSlot(t)], ![t].pc = "getentry"]
    /\ UNCHANGED <<Heap, Rest>>

GetEntry(t) ==
    /\ At(t, "getentry")
    /\ \/ th[t].table = NULL /\ Fault(t)
       \/ /\ th[t].table # NULL
          /\ IF tables[th[t].table][PageSlot(t)] = NULL THEN Found(t, cleared_val) ELSE Goto(t, "getpage")
          /\ UNCHANGED <<Heap, Rest>>

GetPage(t) ==
    /\ At(t, "getpage")
    /\ LET page == tables[th[t].table][PageSlot(t)] IN
       IF page = NULL THEN Found(t, cleared_val)
       ELSE th' = [th EXCEPT ![t].page = page, ![t].pc = "gettag"]
    /\ UNCHANGED <<Heap, Rest>>

GetTag(t) ==
    /\ At(t, "gettag")
    /\ Found(t, pages[th[t].page][virt2offset(th[t].addr)])
    /\ UNCHANGED <<Heap, Rest>>

\* tag_combine
Combine(t) ==
    /\ At(t, "found")
    /\ th' = [th EXCEPT ![t] = [ByteDone(th[t]) EXCEPT !.acc = th[t].acc \cup th[t].tag, !.tag = cleared_val]]
    /\ UNCHANGED <<Heap, Rest>>

-----------------------------------------------------------------------------
Step(t) ==
    \/ \E a \in Starts, n \in Lens : tagmap_set(t, a, n) \/ tagmap_clr(t, a, n) \/ tagmap_get(t, a, n)
    \/ \E a \in Starts, tag \in GivenTags : tagmap_setb_with_tags(t, a, tag)
    \/ NextByte(t) \/ Return(t)
    \/ CheckDir(t) \/ PublishTable(t) \/ TableFails(t) \/ LoadTable(t)
    \/ CheckPage(t) \/ PublishPage(t) \/ PageFails(t) \/ LoadPage(t) \/ WriteTag(t)
    \/ GetDir(t) \/ GetTable(t) \/ GetEntry(t) \/ GetPage(t) \/ GetTag(t) \/ Combine(t)

Next == \E t \in Threads : Step(t)

Spec == Init /\ [][Next]_vars

-----------------------------------------------------------------------------
Pcs == {"idle", "byte", "checkdir", "newtable", "loadtable", "checkpage", "newpage", "loadpage",
        "write", "getdir", "gettable", "getentry", "getpage", "gettag", "found"}
TagValues == {cleared_val, set_val} \cup GivenTags

(* Every pointer in the directory, in a table and in a thread refers to an     *)
(* object that exists, and a thread writes through a page it has.              *)
TypeOK ==
    /\ dir \in [0 .. DIR_SZ - 1 -> 0 .. Len(tables)]
    /\ \A i \in DOMAIN tables : tables[i] \in [0 .. DIR_TABLE_SZ - 1 -> 0 .. Len(pages)]
    /\ \A i \in DOMAIN pages : pages[i] \in [0 .. DIR_PAGE_SZ - 1 -> TagValues]
    /\ \A t \in Threads : /\ th[t].pc \in Pcs
                          /\ th[t].table \in 0 .. Len(tables) /\ th[t].page \in 0 .. Len(pages)
                          /\ th[t].tag \in TagValues
                          /\ th[t].pc \in {"write", "gettag"} => th[t].page # NULL
    /\ detaching \in BOOLEAN /\ crashed \in BOOLEAN
    /\ last \in [Bytes -> TagValues] /\ raced \subseteq Bytes

(* No thread's allocation disturbs what another thread tagged: the directory   *)
(* answers the tag last assigned to every byte, unless two threads published   *)
(* the table or the page of the byte one over the other.                       *)
LastTagKept == \A b \in Bytes \ raced : Lookup(b) = last[b]

(* A lookup that other threads' sets, clears and allocations overlap finds a   *)
(* tag the byte had while the lookup ran, with the same exception.             *)
LookupInWindow ==
    \A t \in Threads :
        th[t].pc = "found" /\ Byte(th[t].addr) \notin raced => th[t].tag \in th[t].window

(* The instrumented program runs into a NULL pointer of the directory only     *)
(* after an allocation failed.                                                 *)
FaultNeedsFailure == crashed => detaching

\* The directory implements the map from bytes to tags.
Map == INSTANCE TagMap WITH
           Tags <- TagValues, Cleared <- cleared_val,
           Regions <- {InTable(b) : b \in Bytes} \cup {InPage(b) : b \in Bytes},
           tags <- [b \in Bytes |-> Lookup(b)]

(* Whatever the interleaving, one byte at a time is assigned or a whole page   *)
(* or table becomes clear: the directory never mixes up bytes.                 *)
ServesMap == Map!Spec
===============================================================================
