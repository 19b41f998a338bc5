---------------------------- MODULE AddressSpace ----------------------------
(***************************************************************************)
(* What the allocator of address areas promises: areas are aligned runs of *)
(* a power of two of free pages, never overlap, and are refused only when  *)
(* no such run is free.                                                    *)
(***************************************************************************)
EXTENDS Integers

CONSTANTS
    Orders,     \* the orders of sizes,
    Size,       \* and the pages of an area of each
    Pages       \* the pages, as numbers

VARIABLES
    areas,      \* the areas given out: <<first page, order>>
    free,       \* the pages in none of them
    refused     \* the last request was refused

avars == <<areas, free, refused>>

Run(first, n) == first..(first + Size[n] - 1)

Fits(first, n) == first % Size[n] = 0 /\ Run(first, n) \subseteq free

Give(first, n) ==
    /\ Fits(first, n)
    /\ areas' = areas \union {<<first, n>>}
    /\ free' = free \ Run(first, n)
    /\ refused' = FALSE

Refuse(n) ==
    /\ \A first \in Pages : ~Fits(first, n)
    /\ refused' = TRUE
    /\ UNCHANGED <<areas, free>>

Return(first, n) ==
    /\ <<first, n>> \in areas
    /\ areas' = areas \ {<<first, n>>}
    /\ free' = free \union Run(first, n)
    /\ refused' = FALSE

AInit ==
    /\ areas = {}
    /\ free \subseteq Pages
    /\ refused = FALSE

ANext ==
    \E n \in Orders :
        \/ Refuse(n)
        \/ \E first \in Pages : Give(first, n) \/ Return(first, n)

ASpec == AInit /\ [][ANext]_avars
=============================================================================
