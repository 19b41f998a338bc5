---------------------------- MODULE CircularList ----------------------------
(***************************************************************************)
(* circular_list.c at the level of its pointers.  The links of all nodes   *)
(* are one record of two functions, next and pre; a routine is an operator *)
(* from links to links that stores in the order of the C code.  A store    *)
(* through NULL changes no node.                                           *)
(***************************************************************************)
EXTENDS Integers, Sequences, FiniteSets

CONSTANTS Node, NULL     \* the nodes, a finite set, and the null pointer

Links == [next : [Node -> Node \union {NULL}], pre : [Node -> Node \union {NULL}]]

circular_list_init(l, head) ==
    [next |-> [l.next EXCEPT ![head] = head], pre |-> [l.pre EXCEPT ![head] = head]]

\* The three points of circular_list_insert an interrupt can tell apart: the
\* node looks at its neighbours, the position looks at the node, and so does
\* the old successor.
Aim(l, position, node) ==
    [next |-> [l.next EXCEPT ![node] = l.next[position]],
     pre  |-> [l.pre EXCEPT ![node] = position]]

LinkForward(l, position, node) == [l EXCEPT !.next[position] = node]

LinkBackward(l, node) == [l EXCEPT !.pre[l.next[node]] = node]

circular_list_insert(l, position, node) ==
    LinkBackward(LinkForward(Aim(l, position, node), position, node), node)

\* Not the code: only the forward link is taken out.
circular_list_remove_ForwardOnly(l, node) ==
    [l EXCEPT !.next[l.pre[node]] = l.next[node]]

circular_list_remove(l, node) ==
    LET pre == [l.pre EXCEPT ![l.next[node]] = l.pre[node]]
    IN  [next |-> [l.next EXCEPT ![pre[node]] = l.next[node]], pre |-> pre]

circular_list_is_empty(l, head) == l.next[head] = head

-----------------------------------------------------------------------------
(***************************************************************************)
(* What a list is: head.next, head.next.next, ... back to head, and the    *)
(* same nodes in the opposite order along pre.                             *)
(***************************************************************************)

\* Place i of the ring of head that holds s: 0 and Len(s) + 1 are the head.
At(head, s, i) == IF i \in DOMAIN s THEN s[i] ELSE head

\* The ring of head reads s, in both directions.
Reads(l, head, s) ==
    \A i \in 0..Len(s) :
        /\ l.next[At(head, s, i)] = At(head, s, i + 1)
        /\ l.pre[At(head, s, i + 1)] = At(head, s, i)

\* The node i steps along next from head.
Nth(l, head, i) ==
    LET nth[j \in 0..i] == IF j = 0 THEN head ELSE l.next[nth[j - 1]]
    IN  nth[i]

\* The loop of circular_list_is_inlist and of circular_list_size ends.
Closed(l, head) == \E i \in 1..Cardinality(Node) : Nth(l, head, i) = head

Length(l, head) ==
    (CHOOSE i \in 1..Cardinality(Node) :
        /\ Nth(l, head, i) = head
        /\ \A j \in 1..(i - 1) : Nth(l, head, j) # head) - 1

\* The nodes in the order those loops visit them.
Contents(l, head) == [i \in 1..Length(l, head) |-> Nth(l, head, i)]

\* Closed, and every node of the way is its successor's predecessor.
WellLinked(l, head) ==
    /\ Closed(l, head)
    /\ \A i \in 0..Length(l, head) :
          l.pre[l.next[Nth(l, head, i)]] = Nth(l, head, i)

=============================================================================
