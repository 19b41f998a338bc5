-------------------------------- MODULE Mem ---------------------------------
(***************************************************************************)
(* Copy on write (mem.c): mem_fork shares page tables, the page fault      *)
(* handlers copy first the table, then the page, of a process that writes. *)
(*                                                                         *)
(* A step is a locked section of the code, cut where getonefreepage may    *)
(* sleep with the lock held: other processes run between any two steps.    *)
(* Pages come in order and are not given back, as no process ends.         *)
(***************************************************************************)
EXTENDS Naturals, FiniteSets

CONSTANTS
    Proc,           \* the processes that may come to exist
    process1,       \* the one that exists at boot
    Regions,        \* the entries of the catalog table are 1..Regions (768)
    Page,           \* the entries of a page table (1024)
    Value,          \* what a page can hold
    image,          \* what load_program puts there
    MaxPages,       \* bound: the physical pages
    LateRegions,    \* processes touch regions that were empty when they forked
    CopiesFork,     \* processes that have copied a page fork
    LateRead        \* a fault is taken before the handler of another has read cr2

ASSUME MemAssumption ==
    /\ IsFiniteSet(Proc) /\ process1 \in Proc
    /\ Page # {} /\ image \in Value
    /\ Regions \in Nat \ {0} /\ MaxPages \in Nat
    /\ LateRegions \in BOOLEAN /\ CopiesFork \in BOOLEAN /\ LateRead \in BOOLEAN

Region == 1..Regions
Phys   == 1..MaxPages

\* An entry of a catalog or page table: 0 for not present, and bit 1, "may write".
Entry == [at : 0..MaxPages, rw : BOOLEAN]

VARIABLES
    cat,        \* the catalog table of each process
    pte,        \* the entries of each physical page that is a page table
    share,      \* desc->share of each physical page
    marked,     \* the physical pages with MEM_FLAGS_S
    data,       \* what each physical page holds
    next,       \* the number of physical pages in use
    pc,         \* "user", in a handler, in mem_fork, or "unborn"
    addr,       \* cr2 as the handler will read it, or has: region and page of the fault
    unread,     \* the processes whose handler has still to read cr2
    child,      \* the process that mem_fork makes
    todo,       \* the next region mem_fork copies
    panic

vars == <<cat, pte, share, marked, data, next, pc, addr, unread, child, todo, panic>>
desc == <<share, marked, data, next>>
cr2 == <<addr, unread>>

Init ==
    /\ cat = [p \in Proc |-> [r \in Region |-> [at |-> 0, rw |-> TRUE]]]
    /\ pte = [t \in Phys |-> [i \in Page |-> [at |-> 0, rw |-> TRUE]]]
    /\ share = [f \in Phys |-> 0]
    /\ marked = {}
    /\ data = [f \in Phys |-> image]
    /\ next = 0
    /\ pc = [p \in Proc |-> IF p = process1 THEN "user" ELSE "unborn"]
    /\ addr = [p \in Proc |-> CHOOSE a \in Region \X Page : TRUE]
    /\ unread = {}
    /\ child = [p \in Proc |-> p]
    /\ todo = [p \in Proc |-> 1]
    /\ panic = FALSE

Goto(p, point) == pc' = [pc EXCEPT ![p] = point]

kassert(ok) == panic' = (panic \/ ~ok)

At(p, point) == ~panic /\ pc[p] = point

\* What the processor finds for a process and an address; in an empty region nothing.
Table(p, a) == cat[p][a[1]]
Leaf(p, a)  == IF Table(p, a).at = 0 THEN [at |-> 0, rw |-> TRUE] ELSE pte[Table(p, a).at][a[2]]
Present(p, a)  == Table(p, a).at # 0 /\ Leaf(p, a).at # 0
Writable(p, a) == Present(p, a) /\ Table(p, a).rw /\ Leaf(p, a).rw

\* _gcr2, at the start of both handlers.
Read(p) == unread' = unread \ {p} /\ UNCHANGED addr

\* A new page and its descriptor: share n, no MEM_FLAGS_S, contents v.
TakePage(n, v) ==
    /\ next < MaxPages
    /\ next' = next + 1
    /\ share' = [share EXCEPT ![next + 1] = n]
    /\ data' = [data EXCEPT ![next + 1] = v]

-----------------------------------------------------------------------------
(* The program. *)

UserWrite(p, a, v) ==
    /\ At(p, "user")
    /\ Writable(p, a)
    /\ data' = [data EXCEPT ![Leaf(p, a).at] = v]
    /\ UNCHANGED <<cat, pte, share, marked, next, pc, cr2, child, todo, panic>>

\* An access to a page that is not there, or a write to one that is read-only: the
\* processor says which by bit 0 of the error code.  The register that holds the address
\* is one for all: on_lack_of_page lets others run before it is read.
Fault(p, a) ==
    /\ At(p, "user")
    /\ ~Writable(p, a)
    /\ LateRegions \/ Table(p, a).at # 0 \/ Table(p, a).rw
    /\ addr' = [q \in Proc |-> IF q = p \/ q \in unread THEN a ELSE addr[q]]
    /\ unread' = IF LateRead THEN unread \union {p} ELSE unread
    /\ Goto(p, IF Present(p, a) THEN "cow" ELSE "lack")
    /\ UNCHANGED <<cat, pte, desc, child, todo, panic>>

-----------------------------------------------------------------------------
(* process_lack_page. *)

\* An empty region: its entry must be as init_paging_module or a fork left it, with
\* bits 1 and 2 set, and gets a new table.
LackTable(p) ==
    LET a == addr[p] IN
    /\ At(p, "lack")
    /\ Table(p, a).at = 0
    /\ kassert(Table(p, a).rw)
    /\ TakePage(1, image)
    /\ cat' = [cat EXCEPT ![p][a[1]] = [at |-> next + 1, rw |-> TRUE]]
    /\ Read(p)
    /\ UNCHANGED <<pte, marked, pc, child, todo>>

\* A page is put into the table, shared or not, and the program loaded into it.
LackPage(p) ==
    LET a == addr[p] IN
    /\ At(p, "lack")
    /\ Table(p, a).at # 0
    /\ TakePage(1, image)
    /\ pte' = [pte EXCEPT ![Table(p, a).at][a[2]] = [at |-> next + 1, rw |-> TRUE]]
    /\ Goto(p, "user")
    /\ Read(p)
    /\ UNCHANGED <<cat, marked, child, todo, panic>>

-----------------------------------------------------------------------------
(* process_cow. *)

ReadOnly(table) == [i \in Page |-> [table[i] EXCEPT !.rw = FALSE]]
Mapped(table) == {table[i].at : i \in Page} \ {0}

\* A table that the catalog lets nobody write must be marked and counted.  With one
\* user left it is kept, all its pages read-only; with more it is copied.
CowTable(p) ==
    LET a == addr[p]
        t == Table(p, a)
        ok == t.at # 0 /\ t.at \in marked /\ share[t.at] >= 1
    IN
    /\ At(p, "cow")
    /\ ~t.rw
    /\ kassert(ok)
    /\ IF ok => share[t.at] > 1
       THEN /\ Goto(p, "copy_table")
            /\ UNCHANGED <<cat, pte, marked>>
       ELSE /\ cat' = [cat EXCEPT ![p][a[1]].rw = TRUE]
            /\ pte' = [pte EXCEPT ![t.at] = ReadOnly(@)]
            /\ marked' = marked \ {t.at}
            /\ UNCHANGED pc
    /\ Read(p)
    /\ UNCHANGED <<share, data, next, child, todo>>

\* Not the code: the pages of the copied table are not counted.
CopyTable_NotCounted(p) ==
    LET a   == addr[p]
        old == pte[Table(p, a).at]
    IN
    /\ At(p, "copy_table")
    /\ next < MaxPages
    /\ next' = next + 1
    /\ pte' = [pte EXCEPT ![next + 1] = ReadOnly(old)]
    /\ share' = [f \in Phys |-> IF f = next + 1 THEN 1 ELSE share[f]]
    /\ marked' = marked \union Mapped(old)
    /\ cat' = [cat EXCEPT ![p][a[1]] = [at |-> next + 1, rw |-> TRUE]]
    /\ Goto(p, "cow")
    /\ UNCHANGED <<data, cr2, child, todo, panic>>

\* After get_one_page, which may have slept: the copy has all pages read-only, and
\* counts and marks each of them; the count of the old table stays.
CopyTable(p) ==
    LET a   == addr[p]
        old == pte[Table(p, a).at]
    IN
    /\ At(p, "copy_table")
    /\ next < MaxPages
    /\ next' = next + 1
    /\ pte' = [pte EXCEPT ![next + 1] = ReadOnly(old)]
    /\ share' = [f \in Phys |-> IF f = next + 1 THEN 1
                                ELSE IF f \in Mapped(old) THEN share[f] + 1 ELSE share[f]]
    /\ marked' = marked \union Mapped(old)
    /\ cat' = [cat EXCEPT ![p][a[1]] = [at |-> next + 1, rw |-> TRUE]]
    /\ Goto(p, "cow")
    /\ UNCHANGED <<data, cr2, child, todo, panic>>

\* The table is the process's own: a page with one user is made writable.  An entry
\* that is not there is the fault of a handler that read another's address: the page
\* at 0, one of the first the kernel took at boot, is not marked.
CowPage(p) ==
    LET a == addr[p]
        f == Leaf(p, a)
        ok == ~f.rw /\ f.at # 0 /\ f.at \in marked /\ share[f.at] >= 1
    IN
    /\ At(p, "cow")
    /\ Table(p, a).rw
    /\ kassert(ok)
    /\ IF ok => share[f.at] > 1
       THEN /\ Goto(p, "copy_page")
            /\ UNCHANGED <<pte, marked>>
       ELSE /\ Goto(p, "user")
            /\ pte' = [pte EXCEPT ![Table(p, a).at][a[2]].rw = TRUE]
            /\ marked' = marked \ {f.at}
    /\ Read(p)
    /\ UNCHANGED <<cat, share, data, next, child, todo>>

\* After getonefreepage, which may have slept: the new page gets the contents, and
\* the inner desc, which hides the old page's, counts the new page down to 0.
CopyPage(p) ==
    LET a == addr[p] IN
    /\ At(p, "copy_page")
    /\ TakePage(0, data[Leaf(p, a).at])
    /\ pte' = [pte EXCEPT ![Table(p, a).at][a[2]] = [at |-> next + 1, rw |-> TRUE]]
    /\ Goto(p, "user")
    /\ UNCHANGED <<cat, marked, cr2, child, todo, panic>>

-----------------------------------------------------------------------------
(* mem_fork. *)

\* The program that calls fork runs in a page it has touched.  Only a page that a
\* copy made has share 0.
Fork(p, c) ==
    /\ At(p, "user")
    /\ CopiesFork \/ \A a \in Region \X Page : Present(p, a) => share[Leaf(p, a).at] > 0
    /\ \E a \in Region \X Page : Present(p, a)
    /\ pc[c] = "unborn"
    /\ pc' = [pc EXCEPT ![p] = "fork", ![c] = "birth"]
    /\ child' = [child EXCEPT ![p] = c]
    /\ todo' = [todo EXCEPT ![p] = 1]
    /\ UNCHANGED <<cat, pte, desc, cr2, panic>>

\* Not the code: the parent keeps its write bit.
ForkRegion_ParentWrites(p) ==
    LET r == todo[p]
        e == [cat[p][r] EXCEPT !.rw = FALSE]
    IN
    /\ At(p, "fork")
    /\ r \in Region
    /\ cat' = [cat EXCEPT ![child[p]][r] = e]
    /\ IF e.at # 0
       THEN share' = [share EXCEPT ![e.at] = @ + 1] /\ marked' = marked \union {e.at}
       ELSE UNCHANGED <<share, marked>>
    /\ todo' = [todo EXCEPT ![p] = r + 1]
    /\ UNCHANGED <<pte, data, next, pc, cr2, child, panic>>

\* Not the code: the shared table is not counted.
ForkRegion_NotCounted(p) ==
    LET r == todo[p]
        e == [cat[p][r] EXCEPT !.rw = FALSE]
    IN
    /\ At(p, "fork")
    /\ r \in Region
    /\ cat' = [cat EXCEPT ![p][r] = e, ![child[p]][r] = e]
    /\ marked' = IF e.at # 0 THEN marked \union {e.at} ELSE marked
    /\ UNCHANGED share
    /\ todo' = [todo EXCEPT ![p] = r + 1]
    /\ UNCHANGED <<pte, data, next, pc, cr2, child, panic>>

\* Not the code: the shared table is not marked.
ForkRegion_NotMarked(p) ==
    LET r == todo[p]
        e == [cat[p][r] EXCEPT !.rw = FALSE]
    IN
    /\ At(p, "fork")
    /\ r \in Region
    /\ cat' = [cat EXCEPT ![p][r] = e, ![child[p]][r] = e]
    /\ IF e.at # 0
       THEN share' = [share EXCEPT ![e.at] = @ + 1]
       ELSE UNCHANGED share
    /\ todo' = [todo EXCEPT ![p] = r + 1]
    /\ UNCHANGED <<pte, marked, data, next, pc, cr2, child, panic>>

\* Each region in a locked section of its own: parent and child get it read-only.
ForkRegion(p) ==
    LET r == todo[p]
        e == [cat[p][r] EXCEPT !.rw = FALSE]
    IN
    /\ At(p, "fork")
    /\ r \in Region
    /\ cat' = [cat EXCEPT ![p][r] = e, ![child[p]][r] = e]
    /\ IF e.at # 0
       THEN share' = [share EXCEPT ![e.at] = @ + 1] /\ marked' = marked \union {e.at}
       ELSE UNCHANGED <<share, marked>>
    /\ todo' = [todo EXCEPT ![p] = r + 1]
    /\ UNCHANGED <<pte, data, next, pc, cr2, child, panic>>

\* sys_fork queues the child.
ForkDone(p) ==
    /\ At(p, "fork")
    /\ todo[p] > Regions
    /\ pc' = [pc EXCEPT ![p] = "user", ![child[p]] = "user"]
    /\ UNCHANGED <<cat, pte, desc, cr2, child, todo, panic>>

Next ==
    \E p \in Proc :
        \/ \E a \in Region \X Page : Fault(p, a) \/ \E v \in Value : UserWrite(p, a, v)
        \/ LackTable(p) \/ LackPage(p)
        \/ CowTable(p) \/ CopyTable(p) \/ CowPage(p) \/ CopyPage(p)
        \/ (\E c \in Proc : Fork(p, c)) \/ ForkRegion(p) \/ ForkDone(p)

Spec == Init /\ [][Next]_vars

-----------------------------------------------------------------------------
Alive == {p \in Proc : pc[p] \notin {"unborn", "birth"}}

View(p, a) == IF Present(p, a) THEN data[Leaf(p, a).at] ELSE image

\* The page tables that map a page; a table no catalog refers to any more counts.
MappedBy(f) == {t \in 1..next : f \in Mapped(pte[t])}

\* The processes whose catalog refers to a table.
UsersOf(t) == {p \in Proc : pc[p] # "unborn" /\ \E r \in Region : cat[p][r].at = t}

\* Every variable has its type.
TypeOK ==
    /\ cat \in [Proc -> [Region -> Entry]]
    /\ pte \in [Phys -> [Page -> Entry]]
    /\ share \in [Phys -> Nat] /\ marked \subseteq Phys
    /\ data \in [Phys -> Value] /\ next \in 0..MaxPages
    /\ pc \in [Proc -> {"user", "lack", "cow", "copy_table", "copy_page", "fork",
                        "birth", "unborn"}]
    /\ addr \in [Proc -> Region \X Page] /\ unread \subseteq Proc
    /\ child \in [Proc -> Proc] /\ todo \in [Proc -> 1..(Regions + 1)]
    /\ panic \in BOOLEAN

\* No assertion of process_cow fails and process_lack_page finds the bits it
\* expects: every page that faults on a write is marked, counted and read-only,
\* whatever other processes copied meanwhile.
NoPanic == ~panic

\* A table that a process may write through is used by it alone: no page put into
\* it, no write right given in it, shows up in another process.
TablesPrivate ==
    \A p \in Alive : \A r \in Region :
        cat[p][r].rw /\ cat[p][r].at # 0 => UsersOf(cat[p][r].at) = {p}

\* A table in use by several processes is never taken for one process's own.
TablesCounted == \A t \in 1..next : share[t] >= Cardinality(UsersOf(t))

\* Both, for page tables of any history of faults, copies and forks.
TablesExact == TypeOK /\ TablesPrivate /\ TablesCounted

\* A page is mapped by at most one table more than it is counted; the page that a
\* copy made starts one behind and never catches up.
PagesCounted == \A f \in 1..next : share[f] + 1 >= Cardinality(MappedBy(f))

\* A process never reads what another wrote after the fork that separated them.
P == INSTANCE PrivateMemory WITH
        Addr <- Region \X Page, first <- process1, alive <- Alive,
        mem <- [p \in Proc |-> [a \in Region \X Page |->
                    IF p \in Alive THEN View(p, a) ELSE image]]

MemoryIsPrivate == P!PSpec
=============================================================================
