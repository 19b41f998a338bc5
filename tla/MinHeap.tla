------------------------------ MODULE MinHeap -------------------------------
(***************************************************************************)
(* min_heap.c: a heap in an array whose place 0 is its size.  The routines *)
(* read one place past the last number, which must hold INT_MAX: so the    *)
(* caller fills the array with it, and min_heap_pop puts it back.          *)
(***************************************************************************)
EXTENDS Naturals, FiniteSets

CONSTANTS
    Room,           \* the array has room for so many numbers
    Numbers,        \* the numbers put into it
    INT_MAX         \* larger than all of them

Places == 1..(Room + 1)

VARIABLES
    heap,           \* places 1, 2, ... of the array
    size,           \* heap[0]
    ordered,        \* min_heap_init has been called
    count           \* how often each number was put in and not taken out

heapvars == <<heap, size, ordered, count>>

Times(h, n, x) == Cardinality({i \in 1..n : h[i] = x})

\* Numbers in any order.
Init ==
    \E n \in 0..Room :
        \E first \in [1..n -> Numbers] :
            /\ heap = [i \in Places |-> IF i <= n THEN first[i] ELSE INT_MAX]
            /\ size = n
            /\ ordered = FALSE
            /\ count = [x \in Numbers |-> Times(first, n, x)]

\* The loop of min_heap_init and min_heap_pop: val goes down from place i until it
\* is smaller than both numbers below, or has none below.
RECURSIVE Down(_, _, _, _)
Down(h, i, val, half) ==
    LET d == 2 * i
        least == IF h[d] < h[d + 1] THEN d ELSE d + 1
    IN  IF i > half \/ (val < h[d] /\ val < h[d + 1]) THEN [h EXCEPT ![i] = val]
        ELSE Down([h EXCEPT ![i] = h[least]], least, val, half)

\* The loop of min_heap_push.
RECURSIVE Up(_, _, _)
Up(h, i, val) ==
    LET half == i \div 2
    IN  IF i = 1 \/ val > h[half] THEN [h EXCEPT ![i] = val]
        ELSE Up([h EXCEPT ![i] = h[half]], half, val)

RECURSIVE Heapify(_, _, _)
Heapify(h, i, half) ==
    IF i = 0 THEN h ELSE Heapify(Down(h, i, h[i], half), i - 1, half)

min_heap_init ==
    /\ ~ordered
    /\ heap' = Heapify(heap, size \div 2, size \div 2)
    /\ ordered' = TRUE
    /\ UNCHANGED <<size, count>>

min_heap_push(val) ==
    /\ ordered /\ size < Room
    /\ heap' = Up(heap, size + 1, val)
    /\ size' = size + 1
    /\ count' = [count EXCEPT ![val] = @ + 1]
    /\ UNCHANGED ordered

\* Not the code: the last place keeps its number.
min_heap_pop_PlaceKept ==
    /\ ordered /\ size > 0
    /\ heap' = Down(heap, 1, heap[size], size \div 2)
    /\ size' = size - 1
    /\ count' = [count EXCEPT ![heap[1]] = @ - 1]
    /\ UNCHANGED ordered

\* The caller has taken heap[1].
min_heap_pop ==
    /\ ordered /\ size > 0
    /\ heap' = Down([heap EXCEPT ![size] = INT_MAX], 1, heap[size], size \div 2)
    /\ size' = size - 1
    /\ count' = [count EXCEPT ![heap[1]] = @ - 1]
    /\ UNCHANGED ordered

Next == min_heap_init \/ min_heap_pop \/ \E x \in Numbers : min_heap_push(x)

-----------------------------------------------------------------------------
\* The array holds the numbers put in and not taken out, none below a larger one,
\* whatever the order of pushes and pops and however many are equal.
HeapExact ==
    /\ heap \in [Places -> Numbers \union {INT_MAX}] /\ size \in 0..Room
    /\ \A x \in Numbers : Times(heap, size, x) = count[x]
    /\ ordered => \A i \in 2..size : heap[i \div 2] <= heap[i]
=============================================================================
