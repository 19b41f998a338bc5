------------------------------- MODULE RbTree -------------------------------
(***************************************************************************)
(* rb_tree.c on pointers, with the insertion and the search of its two     *)
(* users.  All trees share the sentinel nil, which starts as zeroes: red,  *)
(* its children NULL; the first rebalancing in any tree makes it black.    *)
(* The mirrored halves of the code are one definition with a side.         *)
(***************************************************************************)
EXTENDS Integers, Sequences

CONSTANTS
    Key,        \* the keys; a node is named by its key
    first,      \* the key of the node that rb_tree_init gets and that stays
    NilColor,   \* of nil at first: "red", or "black" after use by another tree
    Prepared    \* callers set the children of a node to nil before they insert it

nil  == 0
pre  == -1      \* pre_root
NULL == -2

Node == Key \union {nil, pre}
Side == {"left", "right"}
Other(side) == IF side = "left" THEN "right" ELSE "left"

VARIABLES
    t,          \* the nodes: child.left, child.right, parent and color
    keys,       \* the keys in the tree
    bad         \* memory at address NULL has been used as a node

vars == <<t, keys, bad>>

RECURSIVE GetMin(_, _), Next1(_, _, _), Descend(_, _, _),
          Rebalance(_, _, _), Rmfix(_, _, _), InOrder(_, _), BlackHeight(_, _)

root == t.child["left"][pre]

\* rb_tree_init; the other nodes are still zeroes.
rb_tree_init(r) ==
    [child  |-> [side \in Side |-> [n \in Node |->
                    IF n = pre THEN r ELSE IF n = r THEN nil ELSE NULL]],
     parent |-> [n \in Node |-> IF n = pre THEN r ELSE IF n = r THEN pre ELSE NULL],
     color  |-> [n \in Node |-> IF n \in {pre, r} THEN "black"
                                ELSE IF n = nil THEN NilColor ELSE "red"]]

Color(tree, n, c)  == [tree EXCEPT !.color[n] = c]
SideOf(tree, p, n) == IF tree.child["left"][p] = n THEN "left" ELSE "right"

\* The parent of old gets new for a child.
Replace(tree, old, new) ==
    [tree EXCEPT !.child[SideOf(tree, tree.parent[old], old)][tree.parent[old]] = new]

\* Not the code: the subtree that moves keeps its parent.
Rotate_Orphan(tree, n, side) ==
    LET up == tree.child[Other(side)][n]
        t1 == [tree EXCEPT !.child[Other(side)][n] = tree.child[side][up]]
        t2 == Replace(t1, n, up)
    IN  [t2 EXCEPT !.parent[up] = t2.parent[n], !.parent[n] = up, !.child[side][up] = n]

\* left_rotate and right_rotate, of a node with a child on the other side.
Rotate(tree, n, side) ==
    LET up    == tree.child[Other(side)][n]
        moved == tree.child[side][up]
        t1    == [tree EXCEPT !.child[Other(side)][n] = moved, !.parent[moved] = n]
        t2    == Replace(t1, n, up)
    IN  [t2 EXCEPT !.parent[up] = t2.parent[n], !.parent[n] = up, !.child[side][up] = n]

GetMin(tree, n) ==
    IF tree.child["left"][n] = nil THEN n ELSE GetMin(tree, tree.child["left"][n])

-----------------------------------------------------------------------------
\* rb_tree_rebalance after its first line: n is red.
Rebalance(tree, r, n) ==
    LET p     == tree.parent[n]
        g     == tree.parent[p]
        side  == SideOf(tree, g, p)
        uncle == tree.child[Other(side)][g]
        \* An inner grandchild is first rotated outwards.
        inner == tree.child[Other(side)][p] = n
        t1    == IF inner THEN Rotate(tree, p, side) ELSE tree
        top   == IF inner THEN n ELSE p
    IN  IF n = r THEN Color(tree, n, "black")
        ELSE IF tree.color[p] = "black" THEN tree
        ELSE IF tree.color[uncle] = "red"
        THEN Rebalance(Color(Color(Color(tree, uncle, "black"), p, "black"), g, "red"), r, g)
        ELSE Color(Color(Rotate(t1, g, Other(side)), top, "black"), g, "red")

\* The leaf below which a key belongs, from a node downwards, or NULL.
Descend(tree, p, k) ==
    LET side == IF k < p THEN "left" ELSE "right"
    IN  IF p = NULL \/ tree.child[side][p] = nil THEN <<p, side>>
        ELSE Descend(tree, tree.child[side][p], k)

Prepare(tree, n) ==
    IF Prepared THEN [tree EXCEPT !.child["left"][n] = nil, !.child["right"][n] = nil] ELSE tree

\* The end of pcinfo_rb_tree_insert and blkbuffer_rb_tree_insert.
Link(tree, leaf, n) ==
    LET linked == [Prepare(tree, n) EXCEPT !.child[leaf[2]][leaf[1]] = n,
                                           !.parent[n] = leaf[1], !.color[n] = "red"]
    IN  Rebalance(linked, tree.child["left"][pre], n)

-----------------------------------------------------------------------------
\* Not the code: a missing black node is not made up for.
Rmfix_Not(tree, head, n) == [t |-> tree, bad |-> FALSE]

\* rb_rmfix: the tree and whether address NULL was used.  It is when the brother is
\* nil, whose children are NULL.
Rmfix(tree, head, n) ==
    LET p     == tree.parent[n]
        side  == SideOf(tree, p, n)
        b1    == tree.child[Other(side)][p]
        t1    == IF tree.color[b1] = "red"
                 THEN Rotate(Color(Color(tree, b1, "black"), p, "red"), p, side)
                 ELSE tree
        b2    == t1.child[Other(side)][p]
        near  == t1.child[side][b2]
        far   == t1.child[Other(side)][b2]
        \* Only the near child is red: it becomes the brother.
        turn  == t1.color[near] = "red" /\ t1.color[far] = "black"
        t2    == IF turn
                 THEN Rotate(Color(Color(t1, b2, "red"), near, "black"), b2, Other(side))
                 ELSE t1
        b3    == IF turn THEN near ELSE b2
        t3    == Rotate(t2, p, side)
        t4    == Color(Color(t3, b3, t3.color[p]), p, "black")
    IN  IF n = head \/ tree.color[n] = "red"
        THEN [t |-> Color(tree, n, "black"), bad |-> FALSE]
        ELSE IF b1 = nil THEN [t |-> tree, bad |-> TRUE]
        ELSE IF b2 = nil THEN [t |-> t1, bad |-> TRUE]
        ELSE IF t1.color[near] = "black" /\ t1.color[far] = "black"
        THEN Rmfix(Color(t1, b2, "red"), head, p)
        ELSE [t |-> Color(t4, t4.child[Other(side)][b3], "black"), bad |-> FALSE]

\* swap_node: two nodes, the second not a child of the first, change places.
swap_node(tree, a, b) ==
    LET t1 == Replace(tree, a, b)
        t2 == Replace(t1, b, a)
        Swap(f) == [f EXCEPT ![a] = f[b], ![b] = f[a]]
        t3 == [child  |-> [side \in Side |-> Swap(t2.child[side])],
               parent |-> Swap(t2.parent),
               color  |-> Swap(t2.color)]
        l(n) == t3.child["left"][n]
        r(n) == t3.child["right"][n]
    IN  [t3 EXCEPT !.parent = [n \in Node |->
            IF n \in {l(b), r(b)} THEN b ELSE IF n \in {l(a), r(a)} THEN a ELSE @[n]]]

\* The right child of n, which has no left child, changes places with n.
swap_child(tree, n, min) ==
    LET low == tree.child["right"][min]
        lft == tree.child["left"][n]
        t1  == [tree EXCEPT !.child["right"][n] = low, !.parent[low] = n,
                            !.child["left"][min] = lft]
        t2  == [t1 EXCEPT !.parent[lft] = min, !.parent[min] = tree.parent[n]]
        t3  == Replace(t2, n, min)
    IN  [t3 EXCEPT !.child["right"][min] = n, !.parent[n] = min, !.child["left"][n] = nil,
                   !.color[n] = t3.color[min], !.color[min] = t3.color[n]]

\* A node with two children first changes places with the next one; then its child,
\* or nil, takes its place, and a missing black node is made up for.
rb_tree_remove(tree, n) ==
    LET min == GetMin(tree, tree.child["right"][n])
        t1  == IF nil \in {tree.child["left"][n], tree.child["right"][n]} THEN tree
               ELSE IF min = tree.child["right"][n] THEN swap_child(tree, n, min)
               ELSE swap_node(tree, n, min)
        c   == IF t1.child["right"][n] = nil THEN t1.child["left"][n] ELSE t1.child["right"][n]
        t2  == Replace([t1 EXCEPT !.parent[c] = t1.parent[n]], n, c)
    IN  IF t1.color[n] = "black" THEN Rmfix(t2, t2.child["left"][pre], c)
        ELSE [t |-> t2, bad |-> FALSE]

-----------------------------------------------------------------------------
\* rb_tree_next and rb_tree_prev from the first test on: the neighbour on a side.
Next1(tree, n, side) ==
    IF n = tree.child["left"][pre] THEN NULL
    ELSE IF tree.child[Other(side)][tree.parent[n]] = n THEN tree.parent[n]
    ELSE Next1(tree, tree.parent[n], side)

rb_tree_next(tree, n) ==
    IF tree.child["right"][n] # nil THEN GetMin(tree, tree.child["right"][n])
    ELSE Next1(tree, n, "right")

-----------------------------------------------------------------------------
Init ==
    /\ t = rb_tree_init(first)
    /\ keys = {first}
    /\ bad = FALSE

Insert(k) ==
    /\ ~bad
    /\ k \notin keys
    /\ LET leaf == Descend(t, root, k)
       IN  IF leaf[1] = NULL THEN bad' = TRUE /\ UNCHANGED t
           ELSE t' = Link(t, leaf, k) /\ UNCHANGED bad
    /\ keys' = keys \union {k}

Remove(k) ==
    /\ ~bad
    /\ k \in keys \ {first}
    /\ LET done == rb_tree_remove(t, k) IN t' = done.t /\ bad' = done.bad
    /\ keys' = keys \ {k}

Next == \E k \in Key : Insert(k) \/ Remove(k)

Spec == Init /\ [][Next]_vars

-----------------------------------------------------------------------------
InOrder(tree, n) ==
    IF n = nil THEN <<>>
    ELSE InOrder(tree, tree.child["left"][n]) \o <<n>> \o InOrder(tree, tree.child["right"][n])

\* The number of black nodes to any nil below, -1 when it is not the same for all.
BlackHeight(tree, n) ==
    IF n = nil THEN 0
    ELSE LET l == BlackHeight(tree, tree.child["left"][n])
             r == BlackHeight(tree, tree.child["right"][n])
         IN  IF l # r \/ l = -1 THEN -1
             ELSE IF tree.color[n] = "black" THEN l + 1 ELSE l

\* Every variable has its type, and a missing child is nil.
TypeOK ==
    /\ t.child \in [Side -> [Node -> Node \union {NULL}]]
    /\ t.parent \in [Node -> Node \union {NULL}]
    /\ t.color \in [Node -> {"red", "black"}]
    /\ keys \subseteq Key /\ bad \in BOOLEAN
    /\ \A side \in Side : \A n \in keys : t.child[side][n] \in keys \union {nil}

\* The tree holds exactly the keys, in order: every key is found, and walking with
\* rb_tree_next from the least visits each once.
SearchTree ==
    ~bad =>
        LET s == InOrder(t, root)
        IN  /\ {s[i] : i \in DOMAIN s} = keys
            /\ \A i \in 1..(Len(s) - 1) : s[i] < s[i + 1]
            /\ \A i \in DOMAIN s :
                  rb_tree_next(t, s[i]) = IF i = Len(s) THEN NULL ELSE s[i + 1]

\* Parent and child pointers agree.
ParentsExact ==
    ~bad =>
        /\ t.parent[root] = pre
        /\ \A n \in keys : \A side \in Side :
              t.child[side][n] # nil => t.parent[t.child[side][n]] = n

\* No red node has a red child and all paths have as many black nodes.
RedBlack ==
    ~bad =>
        /\ BlackHeight(t, root) # -1
        /\ \A n \in keys : t.color[n] = "red" =>
              \A side \in Side : t.child[side][n] \in keys => t.color[t.child[side][n]] = "black"

\* The children of nil are never followed.
NoNull == ~bad
=============================================================================
