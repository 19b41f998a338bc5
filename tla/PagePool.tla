------------------------------ MODULE PagePool ------------------------------
(***************************************************************************)
(* The free pages of mem.c: the list free_mem_desc_head and mem_semaphore  *)
(* that counts it, used by get_pages, get_one_page and free_pages.         *)
(*                                                                         *)
(* The loops run under lock_task, but a page that is not there is waited   *)
(* for with half of the pages already taken: down switches to another      *)
(* process, and between the up that grants a page and the moment the       *)
(* waiter takes it off the list others allocate and free.                  *)
(***************************************************************************)
EXTENDS SyncOps

CONSTANTS
    Page,       \* the pages that init_mem_desc leaves free
    Users,      \* the processes that allocate
    Sizes       \* the numbers of pages they ask for (2^n for get_pages)

ASSUME PoolAssumption ==
    IsFiniteSet(Page) /\ Users \subseteq Proc /\ Sizes \subseteq Nat \ {0}

VARIABLES
    s,          \* scheduler and mem_semaphore
    free,       \* the free list, from its head
    pc,         \* "get", "free": in the loop; "down": suspended in it
    todo,       \* the pages the loop of get_pages still has to take
    got,        \* the pages it has taken so far
    drop,       \* the pages the loop of free_pages still has to free
    owned       \* the areas a process has, each a set of pages

vars == <<s, free, pc, todo, got, drop, owned>>

Init ==
    /\ \E order \in Orders :
          s = [k       |-> ForkedState(order),
               surplus |-> Cardinality(Page),
               list    |-> <<>>,
               node    |-> [p \in Proc |-> 0]]
    /\ free = CHOOSE f \in [1..Cardinality(Page) -> Page] : Injective(f)
    /\ pc = [p \in Proc |-> "user"]
    /\ todo = [p \in Proc |-> 0]
    /\ got = [p \in Proc |-> {}]
    /\ drop = [p \in Proc |-> {}]
    /\ owned = [p \in Proc |-> {}]

Runs(p, point) ==
    /\ ~s.k.panic
    /\ s.k.cur = p
    /\ pc[p] = point

\* No tick in the loops: lock_task is held, also by who returns from schedule.
Timer ==
    /\ ~s.k.panic
    /\ pc[s.k.cur] = "user"
    /\ s' = [s EXCEPT !.k = do_timer(@)]
    /\ UNCHANGED <<free, pc, todo, got, drop, owned>>

GetPages(p, n) ==
    /\ Runs(p, "user")
    /\ pc' = [pc EXCEPT ![p] = "get"]
    /\ todo' = [todo EXCEPT ![p] = n]
    /\ UNCHANGED <<s, free, got, drop, owned>>

\* Not the code: the list keeps its head.
TakeHead_ListKept(p) ==
    IF free = <<>> THEN UNCHANGED <<free, pc, todo, got, owned>>
    ELSE LET mine == got[p] \union {Head(free)}
             last == todo[p] = 1
         IN  /\ todo' = [todo EXCEPT ![p] = @ - 1]
             /\ got' = [got EXCEPT ![p] = IF last THEN {} ELSE mine]
             /\ owned' = [owned EXCEPT ![p] = IF last THEN @ \union {mine} ELSE @]
             /\ pc' = [pc EXCEPT ![p] = IF last THEN "user" ELSE "get"]
             /\ UNCHANGED free

\* getonefreepage after its down takes the head of the list; the last page
\* completes the area.  (With an empty list its kassert has failed.)
TakeHead(p) ==
    IF free = <<>> THEN UNCHANGED <<free, pc, todo, got, owned>>
    ELSE LET mine == got[p] \union {Head(free)}
             last == todo[p] = 1
         IN  /\ free' = Tail(free)
             /\ todo' = [todo EXCEPT ![p] = @ - 1]
             /\ got' = [got EXCEPT ![p] = IF last THEN {} ELSE mine]
             /\ owned' = [owned EXCEPT ![p] = IF last THEN @ \union {mine} ELSE @]
             /\ pc' = [pc EXCEPT ![p] = IF last THEN "user" ELSE "get"]

\* Not the code: the page is taken without counting it.
GetNow_NotCounted(p) ==
    /\ Runs(p, "get")
    /\ Available(s, 1)
    /\ s' = [s EXCEPT !.k = kassert(@, free # <<>>)]
    /\ TakeHead(p)
    /\ UNCHANGED drop

GetNow(p) ==
    /\ Runs(p, "get")
    /\ Available(s, 1)
    /\ s' = [s EXCEPT !.surplus = @ - 1, !.k = kassert(@, free # <<>>)]
    /\ TakeHead(p)
    /\ UNCHANGED drop

GetWait(p) ==
    /\ Runs(p, "get")
    /\ ~Available(s, 1)
    /\ s' = JoinSemaphore(s, p, 1, 0)
    /\ pc' = [pc EXCEPT ![p] = "down"]
    /\ UNCHANGED <<free, todo, got, drop, owned>>

\* What down returns is not looked at.
GetResume(p) ==
    /\ Runs(p, "down")
    /\ s' = [s EXCEPT !.k = kassert(@, free # <<>>)]
    /\ TakeHead(p)
    /\ UNCHANGED drop

FreePages(p, area) ==
    /\ Runs(p, "user")
    /\ pc' = [pc EXCEPT ![p] = "free"]
    /\ drop' = [drop EXCEPT ![p] = area]
    /\ owned' = [owned EXCEPT ![p] = @ \ {area}]
    /\ UNCHANGED <<s, free, todo, got>>

\* freeonepage; its kassert is that the page is not free.
FreeOne(p, page) ==
    /\ Runs(p, "free")
    /\ free' = Insert(free, page)
    /\ s' = ksemaphore_up([s EXCEPT !.k = kassert(@, ~InSeq(page, free))], 1)
    /\ drop' = [drop EXCEPT ![p] = @ \ {page}]
    /\ pc' = [pc EXCEPT ![p] = IF drop[p] = {page} THEN "user" ELSE "free"]
    /\ UNCHANGED <<todo, got, owned>>

Next ==
    \/ Timer
    \/ \E p \in Users :
          \/ \E n \in Sizes : GetPages(p, n)
          \/ GetNow(p) \/ GetWait(p) \/ GetResume(p)
          \/ \E area \in owned[p] : FreePages(p, area)
          \/ \E page \in drop[p] : FreeOne(p, page)

Spec == Init /\ [][Next]_vars

-----------------------------------------------------------------------------
\* The processes that were granted a page and have not taken it off the list.
Promised == {p \in Users : pc[p] = "down" /\ s.node[p] = 0}

\* Every variable has its type.
TypeOK ==
    /\ s.k \in KernelState /\ s.surplus \in Nat /\ s.list \in Seq(Users)
    /\ free \in Seq(Page)
    /\ pc \in [Proc -> {"user", "get", "down", "free"}]
    /\ todo \in [Proc -> Nat]
    /\ got \in [Proc -> SUBSET Page] /\ drop \in [Proc -> SUBSET Page]
    /\ owned \in [Proc -> SUBSET (SUBSET Page)]

\* The free list holds what the semaphore counts and what it has promised: this is
\* why the list is never empty when a down returns, however long the process has
\* waited and whoever allocated meanwhile.
PoolCounted == Len(free) = s.surplus + Cardinality(Promised)

\* The areas of a process, finished or not.
Areas(p) == owned[p] \union {got[p], drop[p]}

\* Every page is free, or in one area of one process, finished or not: no page is
\* given out twice and none is lost when an allocation sleeps half way.  No assertion
\* of mem.c, wait.c or sched.c on these paths fails.
PagesExact ==
    /\ TypeOK /\ ~s.k.panic
    /\ Injective(free)
    /\ \A page \in Page :
          \/ /\ InSeq(page, free)
             /\ \A p \in Proc : \A area \in Areas(p) : page \notin area
          \/ /\ ~InSeq(page, free)
             /\ \E p \in Proc : \E area \in Areas(p) :
                   /\ page \in area
                   /\ \A q \in Proc : \A other \in Areas(q) :
                         page \in other => q = p /\ other = area

\* A process waits for a page only while every free page is promised to another.
NoIdlePage == s.list # <<>> => Len(free) = Cardinality(Promised)
=============================================================================
