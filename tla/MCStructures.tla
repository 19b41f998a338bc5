---------------------------- MODULE MCStructures ----------------------------
(***************************************************************************)
(* The sequential data structures on small instances: each behaviour works *)
(* on one of them, the others stay as they are at first.                   *)
(***************************************************************************)
EXTENDS Buddy

CONSTANTS
    Page, Capacity,             \* of Slab
    Shift, LevelSet, Count,     \* of LevelBitmap
    Key, RedKey, first,         \* of RbTree, with nil black and red
    Room, Numbers, INT_MAX      \* of MinHeap

ASSUME SlabAssumption == Capacity \in Nat \ {0}
ASSUME LevelAssumption ==
    /\ Shift \in Nat \ {0} /\ LevelSet \subseteq Nat \ {0} /\ LevelSet # {}
    /\ \A l \in LevelSet : Count \in 1..(2^Shift)^(l + 1)
ASSUME HeapAssumption == Room \in Nat /\ INT_MAX \in Nat /\ Numbers \subseteq 0..(INT_MAX - 1)
ASSUME RbTreeAssumption == Key \subseteq Nat \ {0} /\ RedKey \subseteq Key /\ first \in RedKey

VARIABLES
    which,                                      \* the structure worked on
    pages, list, page_count, free_slab_count, alloc_count, held, freed, panic, fault,
    lb, rs,
    t, keys, bad,
    heap, size, ordered, count

slabvars == <<pages, list, page_count, free_slab_count, alloc_count, held, freed, panic, fault>>
mapvars  == <<lb, rs>>
treevars == <<t, keys, bad>>
heapvars == <<heap, size, ordered, count>>
allvars  == <<which, vars, slabvars, mapvars, treevars, heapvars>>

SlabOnce  == INSTANCE Slab WITH Refill <- FALSE
SlabMixed == INSTANCE Slab WITH Refill <- TRUE
Bitmap    == INSTANCE LevelBitmap WITH EmptyCopies <- FALSE
TreeBlack == INSTANCE RbTree WITH NilColor <- "black", Prepared <- TRUE
TreeRed   == INSTANCE RbTree WITH NilColor <- "red", Prepared <- TRUE, Key <- RedKey
Heap      == INSTANCE MinHeap

AllInit ==
    /\ which \in {"buddy", "slab once", "slab mixed", "bitmap", "tree, nil black", "tree, nil red",
                 "heap"}
    /\ Init /\ SlabMixed!Init /\ Bitmap!Init
    /\ IF which = "tree, nil red" THEN TreeRed!Init ELSE TreeBlack!Init
    /\ IF which = "heap" THEN Heap!Init
       ELSE heap = <<>> /\ size = 0 /\ ordered = FALSE /\ count = <<>>
    /\ which # "bitmap" => lb = Bitmap!Empty(CHOOSE l \in LevelSet : TRUE)

Only(w) == which = w /\ UNCHANGED which

AllNext ==
    \/ Only("buddy") /\ Next /\ UNCHANGED <<slabvars, mapvars, treevars, heapvars>>
    \/ Only("slab once") /\ SlabOnce!Next /\ UNCHANGED <<vars, mapvars, treevars, heapvars>>
    \/ Only("slab mixed") /\ SlabMixed!Next /\ UNCHANGED <<vars, mapvars, treevars, heapvars>>
    \/ Only("bitmap") /\ Bitmap!Next /\ UNCHANGED <<vars, slabvars, treevars, heapvars>>
    \/ Only("tree, nil black") /\ TreeBlack!Next /\ UNCHANGED <<vars, slabvars, mapvars, heapvars>>
    \/ Only("tree, nil red") /\ TreeRed!Next /\ UNCHANGED <<vars, slabvars, mapvars, heapvars>>
    \/ Only("heap") /\ Heap!Next /\ UNCHANGED <<vars, slabvars, mapvars, treevars>>

AllSpec == AllInit /\ [][AllNext]_allvars

-----------------------------------------------------------------------------
\* No slab is given out twice or lost, and tslab_free gives a page back exactly when its
\* last slab is freed, until an assertion of slab.c stops it.  Used as test_slab uses
\* it, allocations first, none fails.
SlabsExact ==
    /\ which \in {"slab once", "slab mixed"} =>
          SlabMixed!TypeOK /\ SlabMixed!SlabsExact /\ SlabMixed!PagesReturned
    /\ which = "slab once" => SlabOnce!NoPanic

\* level_bitmap_bit_test, set and clear agree with the set of numbers, get_min and
\* get_max lead to its bounds.
BitmapExact ==
    which = "bitmap" => Bitmap!TypeOK /\ Bitmap!TestExact /\ Bitmap!BoundsExact

\* rb_tree_remove and the insertions keep a search tree that rb_tree_next walks in
\* order and whose pointers agree; while nil is red, only until NULL is followed.  Given
\* callers that set the children of a node to nil before they insert it (Prepared).
TreeSearchable ==
    which \in {"tree, nil black", "tree, nil red"} =>
        TreeBlack!SearchTree /\ TreeBlack!ParentsExact

\* Once nil is black, the tree is a red-black tree, and rb_rmfix never follows the
\* children of nil, given callers that insert nodes whose children are nil (Prepared).
TreeRedBlack ==
    which = "tree, nil black" =>
        TreeBlack!TypeOK /\ TreeBlack!RedBlack /\ TreeBlack!NoNull

\* min_heap_init, push and pop keep a heap of exactly the numbers that were put in
\* and not taken out.
HeapExact == which = "heap" => Heap!HeapExact
=============================================================================
