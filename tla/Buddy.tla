-------------------------------- MODULE Buddy -------------------------------
(***************************************************************************)
(* buddy.c: address areas of 2^n pages from free lists per order and a map *)
(* with one bit for each pair of buddies.  The callers hold lock_task.     *)
(***************************************************************************)
EXTENDS Lists, FiniteSets

CONSTANTS
    BUDDY_DEP,  \* the number of orders (15 in the code)
    LB_SIZE     \* blocks of the highest order (lb_size, 16 in the code), even

ASSUME BuddyAssumption ==
    /\ BUDDY_DEP \in Nat \ {0}
    /\ LB_SIZE \in Nat /\ LB_SIZE >= 4 /\ LB_SIZE % 2 = 0

Orders == 0..(BUDDY_DEP - 1)
TOP    == BUDDY_DEP - 1

\* The pages of a block of order n: 1 << n.
Size[n \in Orders] == IF n = 0 THEN 1 ELSE 2 * Size[n - 1]

\* The blocks of an order, and its pairs.
Blocks(n) == 0..(LB_SIZE * Size[TOP - n] - 1)
Pairs(n)  == 0..((LB_SIZE * Size[TOP - n]) \div 2 - 1)
Pages     == Blocks(0)

VARIABLES
    b,          \* the allocator: list[n], the free blocks of order n; map[n][pair]
    areas,      \* the areas given out, <<first page, order>>
    refused     \* the last call of get_address_area returned NULL

vars == <<b, areas, refused>>

\* The first and the last block of the highest order are the kernel's.
Init ==
    /\ b = [list |-> [n \in Orders |-> IF n = TOP THEN [i \in 1..(LB_SIZE - 2) |-> i] ELSE <<>>],
            map  |-> [n \in Orders |-> [i \in Pairs(n) |->
                         n = TOP /\ i \in {0, LB_SIZE \div 2 - 1}]]]
    /\ areas = {}
    /\ refused = FALSE

Flip(a, n, pos) == [a EXCEPT !.map[n][pos \div 2] = ~@]

Pop(a, n) == Flip([a EXCEPT !.list[n] = Tail(@)], n, Head(a.list[n]))

\* Not the code: splitting leaves the map alone.
Split_NoFlip(a, n, pos) == [a EXCEPT !.list[n] = Insert(@, pos + 1)]

\* The lower half of a split block is used, the upper half is free.
Split(a, n, pos) == [Flip(a, n, pos) EXCEPT !.list[n] = Insert(@, pos + 1)]

\* get_address_area(n): the block and the allocator after the call.  The call for
\* order k takes a block of the list or splits the one it gets from order k + 1.
get_address_area(n) ==
    LET get[k \in n..BUDDY_DEP] ==
            IF k = BUDDY_DEP THEN [found |-> FALSE, pos |-> 0, a |-> b]
            ELSE IF b.list[k] # <<>>
            THEN [found |-> TRUE, pos |-> Head(b.list[k]), a |-> Pop(b, k)]
            ELSE LET up == get[k + 1]
                 IN  IF ~up.found THEN up
                     ELSE [found |-> TRUE, pos |-> 2 * up.pos, a |-> Split(up.a, k, 2 * up.pos)]
    IN  get[n]

BuddyOf(pos) == IF pos % 2 = 0 THEN pos + 1 ELSE pos - 1

\* Not the code: the bit is tested before it is flipped.
GiveBack_TestFirst(a, n, pos) ==
    LET f == Flip(a, n, pos)
    IN  IF a.map[n][pos \div 2] \/ n = TOP
        THEN [done |-> TRUE, a |-> [f EXCEPT !.list[n] = Insert(@, pos)]]
        ELSE [done |-> FALSE, a |-> [f EXCEPT !.list[n] = Unlink(@, BuddyOf(pos))]]

\* One call of free_address_area: the block is listed, or its buddy, which is
\* free, is taken out of its list and both are given back one order higher.
GiveBack(a, n, pos) ==
    LET f == Flip(a, n, pos)
    IN  IF f.map[n][pos \div 2] \/ n = TOP
        THEN [done |-> TRUE, a |-> [f EXCEPT !.list[n] = Insert(@, pos)]]
        ELSE [done |-> FALSE, a |-> [f EXCEPT !.list[n] = Unlink(@, BuddyOf(pos))]]

free_address_area(first, n) ==
    LET put[k \in n..TOP] ==
            IF k = n THEN GiveBack(b, n, first \div Size[n])
            ELSE IF put[k - 1].done THEN put[k - 1]
            ELSE GiveBack(put[k - 1].a, k, first \div Size[k])
    IN  put[TOP].a

Alloc(n) ==
    LET got == get_address_area(n)
    IN  /\ b' = got.a
        /\ areas' = IF got.found THEN areas \union {<<got.pos * Size[n], n>>} ELSE areas
        /\ refused' = ~got.found

Free(area) ==
    /\ b' = free_address_area(area[1], area[2])
    /\ areas' = areas \ {area}
    /\ refused' = FALSE

Next ==
    \/ \E n \in Orders : Alloc(n)
    \/ \E area \in areas : Free(area)

Spec == Init /\ [][Next]_vars

-----------------------------------------------------------------------------
IsFree(n, pos) == InSeq(pos, b.list[n])
Run(first, n) == first..(first + Size[n] - 1)
FreeRuns == UNION {{Run(pos * Size[n], n) : pos \in {x \in Blocks(n) : IsFree(n, x)}} : n \in Orders}
FreePages == UNION FreeRuns

\* Every variable has its type.
TypeOK ==
    /\ \A n \in Orders : /\ b.list[n] \in Seq(Blocks(n))
                         /\ b.map[n] \in [Pairs(n) -> BOOLEAN]
    /\ areas \subseteq Pages \X Orders
    /\ refused \in BOOLEAN

\* A bit says that exactly one of two buddies is free, so that a block given back
\* is merged exactly when its buddy is in the list it is unlinked from.
MapExact ==
    \A n \in Orders \ {TOP} : \A i \in Pairs(n) :
        b.map[n][i] <=> (IsFree(n, 2 * i) # IsFree(n, 2 * i + 1))

\* The free blocks do not overlap, each is listed once.
ListsDisjoint ==
    /\ \A n \in Orders : Injective(b.list[n])
    /\ \A r, t \in FreeRuns : r = t \/ r \cap t = {}

\* Lists and maps agree after any history of requests.
BlocksExact == TypeOK /\ MapExact /\ ListsDisjoint

\* Any history of splits and merges gives out aligned areas that do not overlap,
\* takes all of them back, and refuses only when no aligned run is free: merging
\* is complete, nothing is lost to fragments that could be joined.
A == INSTANCE AddressSpace WITH free <- FreePages

NoNeedlessRefusal == A!ASpec
=============================================================================
