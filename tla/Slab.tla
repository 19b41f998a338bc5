-------------------------------- MODULE Slab --------------------------------
(***************************************************************************)
(* tslab_malloc and tslab_free (slab.c) for one size: a page is cut into   *)
(* slabs, the free ones of all pages are in one list, and a page goes back *)
(* when its last slab is freed.                                            *)
(***************************************************************************)
EXTENDS Lists, FiniteSets

CONSTANTS
    Page,       \* the pages get_pages can return
    Capacity,   \* slab_capacity, the slabs of a page
    Refill      \* tslab_malloc is called after tslab_free (test_slab never does)

SlabNode == Page \X (1..Capacity)

VARIABLES
    pages,      \* the list from free_page_head
    list,       \* the list from free_slab_head
    page_count, free_slab_count,
    alloc_count,\* of each page in use
    held,       \* the slabs given out
    freed,      \* tslab_free has been called
    panic,      \* an assertion of slab.c has failed
    fault       \* a slab of a page that was given back has been read

vars == <<pages, list, page_count, free_slab_count, alloc_count, held, freed, panic, fault>>

Init ==
    /\ pages = <<>> /\ list = <<>>
    /\ page_count = 0 /\ free_slab_count = 0
    /\ alloc_count = [p \in Page |-> 0]
    /\ held = {}
    /\ freed = FALSE /\ panic = FALSE /\ fault = FALSE

\* What follows an assertion that n > 0.
Less(n) == IF n = 0 THEN 0 ELSE n - 1

kassert(ok) == panic' = (panic \/ ~ok)

Cut(p) == [i \in 1..Capacity |-> <<p, i>>]

\* The list is empty: a page is cut, and its first slab given out.
MallocPage(p) ==
    /\ list = <<>> /\ ~InSeq(p, pages)
    /\ kassert(free_slab_count = 0)
    /\ pages' = Insert(pages, p)
    /\ page_count' = page_count + 1
    /\ list' = Tail(Cut(p))
    /\ free_slab_count' = Capacity - 1
    /\ alloc_count' = [alloc_count EXCEPT ![p] = 1]
    /\ held' = held \union {<<p, 1>>}
    /\ UNCHANGED <<freed, fault>>

\* Not the code: the slab stays in the list.
MallocListed_Kept ==
    /\ list # <<>> /\ InSeq(Head(list)[1], pages)
    /\ kassert(free_slab_count > 0)
    /\ free_slab_count' = Less(free_slab_count)
    /\ alloc_count' = [alloc_count EXCEPT ![Head(list)[1]] = @ + 1]
    /\ held' = held \union {Head(list)}
    /\ UNCHANGED <<pages, list, page_count, freed, fault>>

MallocListed ==
    /\ list # <<>> /\ InSeq(Head(list)[1], pages)
    /\ list' = Tail(list)
    /\ kassert(free_slab_count > 0)
    /\ free_slab_count' = Less(free_slab_count)
    /\ alloc_count' = [alloc_count EXCEPT ![Head(list)[1]] = @ + 1]
    /\ held' = held \union {Head(list)}
    /\ UNCHANGED <<pages, page_count, freed, fault>>

\* free_pages took the page's mapping away: reading node->next is a page fault,
\* which stops the kernel.
MallocGone ==
    /\ list # <<>> /\ ~InSeq(Head(list)[1], pages)
    /\ fault' = TRUE
    /\ UNCHANGED <<pages, list, page_count, free_slab_count, alloc_count, held, freed, panic>>

tslab_malloc ==
    /\ ~panic /\ ~fault
    /\ Refill \/ ~freed
    /\ (\E p \in Page : MallocPage(p)) \/ MallocListed \/ MallocGone

\* The slab becomes the head of the list, free_slab_count keeps its value; a page
\* without slabs in use goes back, its slabs stay in the list.
tslab_free(s) ==
    LET p    == s[1]
        last == alloc_count[p] = 1
    IN
    /\ ~panic /\ ~fault
    /\ list' = Insert(list, s)
    /\ held' = held \ {s}
    /\ kassert(alloc_count[p] # 0 /\ (last => page_count > 0))
    /\ alloc_count' = [alloc_count EXCEPT ![p] = Less(@)]
    /\ pages' = IF last THEN Unlink(pages, p) ELSE pages
    /\ page_count' = IF last THEN Less(page_count) ELSE page_count
    /\ freed' = TRUE
    /\ UNCHANGED <<free_slab_count, fault>>

Next == tslab_malloc \/ \E s \in held : tslab_free(s)

Spec == Init /\ [][Next]_vars

-----------------------------------------------------------------------------
\* Every variable has its type.
TypeOK ==
    /\ pages \in Seq(Page) /\ list \in Seq(SlabNode)
    /\ page_count \in Nat /\ free_slab_count \in 0..Capacity
    /\ alloc_count \in [Page -> 0..Capacity] /\ held \subseteq SlabNode
    /\ {freed, panic, fault} \subseteq BOOLEAN

\* No slab is given out twice or lost: those of the pages in use are given out or
\* listed once, never both.
SlabsExact ==
    /\ Injective(list)
    /\ \A s \in SlabNode : InSeq(s[1], pages) => (s \in held <=> ~InSeq(s, list))

\* A page is kept exactly while a slab of it is given out: when all are freed, in
\* whatever order, the page memory is back.
PagesReturned ==
    /\ \A p \in Page : InSeq(p, pages) <=> \E s \in held : s[1] = p
    /\ page_count = Len(pages)

\* No assertion of slab.c fails.
NoPanic == ~panic

\* No memory of a page that was given back is touched.
NoFault == ~fault
=============================================================================
