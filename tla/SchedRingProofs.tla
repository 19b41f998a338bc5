-------------------------- MODULE SchedRingProofs ---------------------------
(***************************************************************************)
(* What the stores of circular_list_insert and circular_list_remove do to  *)
(* the sequence a ring reads: the sequence operations of Lists, on which   *)
(* the scheduler's model is built, and nothing to any other ring.  From    *)
(* these, that the rings of the scheduler stay exact.  What the nodes are  *)
(* is used in the second part only.                                        *)
(***************************************************************************)
EXTENDS SchedRing, Lists, FiniteSetTheorems, NaturalsInduction, TLAPS

\* The ring of head reads s, and no node is in it twice.
Ring(l, head, s) ==
    /\ s \in Seq(Node)
    /\ head \in Node /\ ~InSeq(head, s)
    /\ Injective(s)
    /\ Reads(l, head, s)

\* The sequence with x after place j, and without place j.
InsertAfter(s, j, x) ==
    [i \in 1..(Len(s) + 1) |-> IF i <= j THEN s[i] ELSE IF i = j + 1 THEN x ELSE s[i - 1]]

RemoveAt(s, j) == [i \in 1..(Len(s) - 1) |-> IF i < j THEN s[i] ELSE s[i + 1]]

\* The places of a ring are different nodes, but for the two ends.
LEMMA Places ==
    ASSUME NEW l, NEW head, NEW s, Ring(l, head, s)
    PROVE  /\ Len(s) \in Nat /\ DOMAIN s = 1..Len(s)
           /\ \A i \in 0..(Len(s) + 1) : At(head, s, i) \in Node
           /\ \A i, j \in 0..Len(s) : At(head, s, i) = At(head, s, j) => i = j
           /\ \A i, j \in 1..(Len(s) + 1) : At(head, s, i) = At(head, s, j) => i = j
<1>1. Len(s) \in Nat /\ DOMAIN s = 1..Len(s) /\ \A i \in 1..Len(s) : s[i] \in Node
  BY DEF Ring
<1>2. /\ At(head, s, 0) = head /\ At(head, s, Len(s) + 1) = head
      /\ \A i \in 1..Len(s) : At(head, s, i) = s[i]
  BY <1>1 DEF At
<1>3. \A i \in 1..Len(s) : s[i] # head
  BY <1>1 DEF Ring, InSeq
<1>4. \A i, j \in 1..Len(s) : s[i] = s[j] => i = j
  BY <1>1 DEF Ring, Injective
<1>5. \A i \in 0..(Len(s) + 1) : i = 0 \/ i = Len(s) + 1 \/ i \in 1..Len(s)
  BY <1>1
<1>6. \A i \in 0..(Len(s) + 1) : At(head, s, i) \in Node
  BY <1>1, <1>2, <1>5 DEF Ring
<1>7. ASSUME NEW i \in 0..Len(s), NEW j \in 0..Len(s), At(head, s, i) = At(head, s, j)
      PROVE  i = j
  BY <1>1, <1>2, <1>3, <1>4, <1>7
<1>8. ASSUME NEW i \in 1..(Len(s) + 1), NEW j \in 1..(Len(s) + 1),
             At(head, s, i) = At(head, s, j)
      PROVE  i = j
  BY <1>1, <1>2, <1>3, <1>4, <1>8
<1> QED BY <1>1, <1>6, <1>7, <1>8

\* The stores of circular_list_insert between two neighbours and those of
\* circular_list_remove, when the nodes differ.
Between(l, before, after, node, m) ==
    /\ m.next = [l.next EXCEPT ![node] = after, ![before] = node]
    /\ m.pre = [l.pre EXCEPT ![node] = before, ![after] = node]

Joined(l, before, after, m) ==
    /\ m.next = [l.next EXCEPT ![before] = after]
    /\ m.pre = [l.pre EXCEPT ![after] = before]

LEMMA InsertStores ==
    ASSUME NEW l \in Links, NEW position \in Node, NEW node \in Node, NEW after \in Node,
           position # node, l.next[position] = after, after # node
    PROVE  Between(l, position, after, node, circular_list_insert(l, position, node))
BY DEF circular_list_insert, Aim, LinkForward, LinkBackward, Links, Between

\* Insertion after any place of the ring.
LEMMA InsertReads ==
    ASSUME NEW l \in Links, NEW head, NEW s, Ring(l, head, s),
           NEW node \in Node, node # head, ~InSeq(node, s), NEW j \in 0..Len(s)
    PROVE  Reads(circular_list_insert(l, At(head, s, j), node), head, InsertAfter(s, j, node))
<1> DEFINE n == Len(s)
           a(i) == At(head, s, i)
           t == InsertAfter(s, j, node)
           b(i) == At(head, t, i)
           m == circular_list_insert(l, a(j), node)
<1>1. /\ n \in Nat /\ DOMAIN s = 1..n
      /\ \A i \in 0..(n + 1) : a(i) \in Node
      /\ \A i, k \in 0..n : a(i) = a(k) => i = k
      /\ \A i, k \in 1..(n + 1) : a(i) = a(k) => i = k
  BY Places
<1>2. \A i \in 0..n : l.next[a(i)] = a(i + 1) /\ l.pre[a(i + 1)] = a(i)
  BY DEF Ring, Reads
<1>3. \A i \in 0..(n + 1) : a(i) # node
  BY <1>1 DEF At, InSeq
<1>4. /\ l.next[a(j)] = a(j + 1) /\ a(j) \in Node /\ a(j + 1) \in Node
      /\ a(j) # node /\ a(j + 1) # node
  <2>1. j + 1 \in 0..(n + 1) /\ j \in 0..(n + 1)
    BY <1>1
  <2> QED BY <2>1, <1>1, <1>2, <1>3
<1>5. /\ m.next = [l.next EXCEPT ![node] = a(j + 1), ![a(j)] = node]
      /\ m.pre = [l.pre EXCEPT ![node] = a(j), ![a(j + 1)] = node]
  <2>1. Between(l, a(j), a(j + 1), node, m)
    <3> HIDE DEF a
    <3> QED BY <1>4, InsertStores
  <2> QED BY <2>1 DEF Between
<1>6. l.next \in [Node -> Node \union {NULL}] /\ l.pre \in [Node -> Node \union {NULL}]
  BY DEF Links
<1>7. Len(t) = n + 1 /\ DOMAIN t = 1..(n + 1)
  BY <1>1 DEF InsertAfter
<1>8. /\ \A i \in 0..j : b(i) = a(i)
      /\ b(j + 1) = node
      /\ \A i \in (j + 2)..(n + 2) : b(i) = a(i - 1)
  BY <1>1, <1>7 DEF InsertAfter, At
<1> HIDE DEF t, m
<1>9. ASSUME NEW i \in 0..(n + 1)
      PROVE  m.next[b(i)] = b(i + 1) /\ m.pre[b(i + 1)] = b(i)
  <2>1. CASE i < j
    <3>1. b(i) = a(i) /\ b(i + 1) = a(i + 1)
      BY <2>1, <1>1, <1>8
    <3>2. a(i) # a(j) /\ a(i + 1) # a(j + 1) /\ a(i) # node /\ a(i + 1) # node
      BY <2>1, <1>1, <1>3
    <3>3. a(i) \in Node /\ a(i + 1) \in Node /\ l.next[a(i)] = a(i + 1) /\ l.pre[a(i + 1)] = a(i)
      BY <2>1, <1>1, <1>2
    <3> HIDE DEF a, b
    <3> QED BY <3>1, <3>2, <3>3, <1>5, <1>6
  <2>2. CASE i = j
    <3>1. b(i) = a(j) /\ b(i + 1) = node
      BY <2>2, <1>1, <1>8
    <3> HIDE DEF a, b
    <3> QED BY <3>1, <1>4, <1>5, <1>6
  <2>3. CASE i = j + 1
    <3>1. b(i) = node /\ b(i + 1) = a(j + 1)
      BY <2>3, <1>1, <1>8
    <3> HIDE DEF a, b
    <3> QED BY <3>1, <1>4, <1>5, <1>6
  <2>4. CASE i > j + 1
    <3>1. b(i) = a(i - 1) /\ b(i + 1) = a(i)
      BY <2>4, <1>1, <1>8
    <3>2. a(i - 1) # a(j) /\ a(i) # a(j + 1) /\ a(i - 1) # node /\ a(i) # node
      BY <2>4, <1>1, <1>3
    <3>3. a(i - 1) \in Node /\ a(i) \in Node /\ l.next[a(i - 1)] = a(i) /\ l.pre[a(i)] = a(i - 1)
      <4>1. i - 1 \in 0..n /\ (i - 1) + 1 = i
        BY <2>4, <1>1
      <4> QED BY <4>1, <1>1, <1>2
    <3> HIDE DEF a, b
    <3> QED BY <3>1, <3>2, <3>3, <1>5, <1>6
  <2> QED BY <2>1, <2>2, <2>3, <2>4
<1> QED BY <1>7, <1>9 DEF Reads, t, m

LEMMA RemoveStores ==
    ASSUME NEW l \in Links, NEW node \in Node, l.next[node] # node
    PROVE  Joined(l, l.pre[node], l.next[node], circular_list_remove(l, node))
BY DEF circular_list_remove, Links, Joined

\* Removal of any place of the ring.
LEMMA RemoveReads ==
    ASSUME NEW l \in Links, NEW head, NEW s, Ring(l, head, s), NEW j \in 1..Len(s)
    PROVE  Reads(circular_list_remove(l, s[j]), head, RemoveAt(s, j))
<1> DEFINE n == Len(s)
           a(i) == At(head, s, i)
           t == RemoveAt(s, j)
           b(i) == At(head, t, i)
           x == s[j]
           m == circular_list_remove(l, x)
<1>1. /\ n \in Nat /\ DOMAIN s = 1..n
      /\ \A i \in 0..(n + 1) : a(i) \in Node
      /\ \A i, k \in 0..n : a(i) = a(k) => i = k
      /\ \A i, k \in 1..(n + 1) : a(i) = a(k) => i = k
  BY Places
<1>2. \A i \in 0..n : l.next[a(i)] = a(i + 1) /\ l.pre[a(i + 1)] = a(i)
  BY DEF Ring, Reads
<1>3. x = a(j) /\ x \in Node
  BY <1>1 DEF At
<1>4. l.next[x] = a(j + 1) /\ l.pre[x] = a(j - 1) /\ a(j + 1) # x
  <2>1. j \in 0..n /\ j - 1 \in 0..n /\ (j - 1) + 1 = j /\ j \in 1..(n + 1) /\ j + 1 \in 1..(n + 1)
    BY <1>1
  <2>2. l.next[a(j)] = a(j + 1) /\ l.pre[a(j)] = a(j - 1)
    BY <2>1, <1>2
  <2>3. a(j + 1) # a(j)
    BY <2>1, <1>1
  <2> QED BY <2>2, <2>3, <1>3
<1> HIDE DEF x
<1>5. /\ m.next = [l.next EXCEPT ![a(j - 1)] = a(j + 1)]
      /\ m.pre = [l.pre EXCEPT ![a(j + 1)] = a(j - 1)]
  <2>1. /\ m.next = [l.next EXCEPT ![l.pre[x]] = l.next[x]]
        /\ m.pre = [l.pre EXCEPT ![l.next[x]] = l.pre[x]]
    BY <1>3, <1>4, RemoveStores DEF Joined
  <2> HIDE DEF a, m
  <2> QED BY <2>1, <1>4
<1>6. l.next \in [Node -> Node \union {NULL}] /\ l.pre \in [Node -> Node \union {NULL}]
  BY DEF Links
<1>7. Len(t) = n - 1 /\ DOMAIN t = 1..(n - 1) /\ n - 1 \in Nat
  BY <1>1 DEF RemoveAt
<1>8. /\ \A i \in 0..(j - 1) : b(i) = a(i)
      /\ \A i \in j..n : b(i) = a(i + 1)
  BY <1>1, <1>7 DEF RemoveAt, At
<1> HIDE DEF t, m
<1>9. ASSUME NEW i \in 0..(n - 1)
      PROVE  m.next[b(i)] = b(i + 1) /\ m.pre[b(i + 1)] = b(i)
  <2>1. CASE i < j - 1
    <3>1. b(i) = a(i) /\ b(i + 1) = a(i + 1)
      BY <2>1, <1>1, <1>8
    <3>2. a(i) # a(j - 1) /\ a(i + 1) # a(j + 1)
      <4>1. i \in 0..n /\ j - 1 \in 0..n /\ i + 1 \in 1..(n + 1) /\ j + 1 \in 1..(n + 1)
        BY <2>1, <1>1
      <4> QED BY <4>1, <2>1, <1>1
    <3>3. a(i) \in Node /\ a(i + 1) \in Node /\ l.next[a(i)] = a(i + 1) /\ l.pre[a(i + 1)] = a(i)
      BY <2>1, <1>1, <1>2
    <3> HIDE DEF a, b
    <3> QED BY <3>1, <3>2, <3>3, <1>5, <1>6
  <2>2. CASE i = j - 1
    <3>1. b(i) = a(j - 1) /\ b(i + 1) = a(j + 1)
      BY <2>2, <1>1, <1>8
    <3>2. a(j - 1) \in Node /\ a(j + 1) \in Node
      <4>1. j - 1 \in 0..(n + 1) /\ j + 1 \in 0..(n + 1)
        BY <1>1
      <4> QED BY <4>1, <1>1
    <3> HIDE DEF a, b
    <3> QED BY <3>1, <3>2, <1>5, <1>6
  <2>3. CASE i > j - 1
    <3>1. b(i) = a(i + 1) /\ b(i + 1) = a(i + 2)
      BY <2>3, <1>1, <1>8
    <3>2. a(i + 1) # a(j - 1) /\ a(i + 2) # a(j + 1)
      <4>1. i + 1 \in 0..n /\ j - 1 \in 0..n /\ i + 2 \in 1..(n + 1) /\ j + 1 \in 1..(n + 1)
        BY <2>3, <1>1
      <4> QED BY <4>1, <2>3, <1>1
    <3>3. a(i + 1) \in Node /\ a(i + 2) \in Node /\ l.next[a(i + 1)] = a(i + 2)
          /\ l.pre[a(i + 2)] = a(i + 1)
      <4>1. i + 1 \in 0..n /\ (i + 1) + 1 = i + 2 /\ i + 1 \in 0..(n + 1) /\ i + 2 \in 0..(n + 1)
        BY <1>1
      <4> QED BY <4>1, <1>1, <1>2
    <3> HIDE DEF a, b
    <3> QED BY <3>1, <3>2, <3>3, <1>5, <1>6
  <2> QED BY <2>1, <2>2, <2>3
<1> QED BY <1>7, <1>9 DEF Reads, t, m, x

-----------------------------------------------------------------------------
(***************************************************************************)
(* The calls the code makes.                                               *)
(***************************************************************************)

\* circular_list_insert(head, node), as in kwait and ksleep, makes the node the
\* first of the list.
THEOREM InsertIsInsert ==
    ASSUME NEW l \in Links, NEW head, NEW s, Ring(l, head, s),
           NEW node \in Node, node # head, ~InSeq(node, s)
    PROVE  Reads(circular_list_insert(l, head, node), head, Insert(s, node))
<1>1. At(head, s, 0) = head /\ 0 \in 0..Len(s)
  BY DEF At, Ring
<1>2. InsertAfter(s, 0, node) = Insert(s, node)
  <2>1. DOMAIN Insert(s, node) = 1..(Len(s) + 1) /\ Insert(s, node)[1] = node
        /\ \A i \in 2..(Len(s) + 1) : Insert(s, node)[i] = s[i - 1]
    BY DEF Insert, Ring
  <2>2. Insert(s, node) \in Seq(Node)
    BY DEF Insert, Ring
  <2> QED BY <2>1, <2>2 DEF InsertAfter, Ring
<1>3. Reads(circular_list_insert(l, At(head, s, 0), node), head, InsertAfter(s, 0, node))
  BY <1>1, InsertReads
<1> QED BY <1>1, <1>2, <1>3

\* circular_list_insert(head.pre, node), as in in_sched_queue, schedule and the
\* semaphores, makes it the last.
THEOREM InsertIsAppend ==
    ASSUME NEW l \in Links, NEW head, NEW s, Ring(l, head, s),
           NEW node \in Node, node # head, ~InSeq(node, s)
    PROVE  Reads(circular_list_insert(l, l.pre[head], node), head, Append(s, node))
<1>1. l.pre[head] = At(head, s, Len(s)) /\ Len(s) \in 0..Len(s)
  <2>1. Len(s) \in Nat
    BY DEF Ring
  <2>2. Len(s) \in 0..Len(s) /\ At(head, s, Len(s) + 1) = head
    BY <2>1 DEF At, Ring
  <2> QED BY <2>2 DEF Ring, Reads
<1>2. InsertAfter(s, Len(s), node) = Append(s, node)
  <2>1. Len(s) \in Nat /\ Append(s, node) \in Seq(Node) /\ Len(Append(s, node)) = Len(s) + 1
    BY DEF Ring
  <2>2. /\ \A i \in 1..Len(s) : Append(s, node)[i] = s[i]
        /\ Append(s, node)[Len(s) + 1] = node
    BY DEF Ring
  <2> DEFINE a == Append(s, node)
  <2>3. a = [i \in 1..(Len(s) + 1) |-> a[i]]
    <3>1. a \in Seq(Node) /\ Len(a) = Len(s) + 1
      BY <2>1
    <3> HIDE DEF a
    <3>2. a \in [1..(Len(s) + 1) -> Node]
      BY <3>1
    <3> QED BY <3>2
  <2> HIDE DEF a
  <2>4. \A i \in 1..(Len(s) + 1) : a[i] = IF i <= Len(s) THEN s[i]
                                        ELSE IF i = Len(s) + 1 THEN node ELSE s[i - 1]
    BY <2>1, <2>2 DEF a
  <2>5. a = [i \in 1..(Len(s) + 1) |-> IF i <= Len(s) THEN s[i]
                                      ELSE IF i = Len(s) + 1 THEN node ELSE s[i - 1]]
    BY <2>3, <2>4
  <2> QED BY <2>5 DEF InsertAfter, a
<1>3. Reads(circular_list_insert(l, At(head, s, Len(s)), node), head, InsertAfter(s, Len(s), node))
  BY <1>1, InsertReads
<1> QED BY <1>1, <1>2, <1>3

\* circular_list_remove(node) of a linked node unlinks it and keeps the order of
\* the others.
THEOREM RemoveIsUnlink ==
    ASSUME NEW l \in Links, NEW head, NEW s, Ring(l, head, s),
           NEW node \in Node, InSeq(node, s)
    PROVE  Reads(circular_list_remove(l, node), head, Unlink(s, node))
<1> DEFINE j == Position(s, node)
<1>1. j \in 1..Len(s) /\ s[j] = node
  BY DEF Position, InSeq, Ring
<1>2. Unlink(s, node) = RemoveAt(s, j)
  BY DEF Unlink, RemoveAt
<1> HIDE DEF j
<1>3. Reads(circular_list_remove(l, s[j]), head, RemoveAt(s, j))
  BY <1>1, RemoveReads
<1> QED BY <1>1, <1>2, <1>3

\* Insertion into one ring and removal from it change no ring that shares no
\* node with it.
THEOREM OtherRings ==
    ASSUME NEW l \in Links,
           NEW h1, NEW s1, Ring(l, h1, s1), NEW h2, NEW s2, Ring(l, h2, s2),
           \A i \in 0..Len(s1), k \in 0..Len(s2) : At(h1, s1, i) # At(h2, s2, k)
    PROVE  /\ \A node \in Node, j \in 0..Len(s1) :
                 /\ node # h1 /\ ~InSeq(node, s1)
                 /\ node # h2 /\ ~InSeq(node, s2)
                 => Reads(circular_list_insert(l, At(h1, s1, j), node), h2, s2)
           /\ \A j \in 1..Len(s1) : Reads(circular_list_remove(l, s1[j]), h2, s2)
<1> DEFINE a(i) == At(h1, s1, i)
           b(i) == At(h2, s2, i)
<1>1. /\ Len(s1) \in Nat /\ DOMAIN s1 = 1..Len(s1)
      /\ \A i \in 0..(Len(s1) + 1) : a(i) \in Node
      /\ \A i, k \in 1..(Len(s1) + 1) : a(i) = a(k) => i = k
  BY Places
<1>2. /\ Len(s2) \in Nat /\ DOMAIN s2 = 1..Len(s2)
      /\ \A i \in 0..(Len(s2) + 1) : b(i) \in Node
  BY Places
<1>3. /\ \A i \in 0..Len(s1) : l.next[a(i)] = a(i + 1) /\ l.pre[a(i + 1)] = a(i)
      /\ \A i \in 0..Len(s2) : l.next[b(i)] = b(i + 1) /\ l.pre[b(i + 1)] = b(i)
  BY DEF Ring, Reads
<1>4. /\ a(0) = h1 /\ a(Len(s1) + 1) = h1 /\ b(0) = h2 /\ b(Len(s2) + 1) = h2
      /\ \A i \in 1..Len(s1) : a(i) = s1[i]
      /\ \A i \in 1..Len(s2) : b(i) = s2[i]
  BY <1>1, <1>2 DEF At
<1>5. \A i \in 0..(Len(s1) + 1), k \in 0..(Len(s2) + 1) : a(i) # b(k)
  <2> SUFFICES ASSUME NEW i \in 0..(Len(s1) + 1), NEW k \in 0..(Len(s2) + 1)
               PROVE  a(i) # b(k)
    OBVIOUS
  <2>1. PICK ii \in 0..Len(s1) : a(i) = a(ii)
    <3>1. CASE i = Len(s1) + 1
      BY <3>1, <1>1, <1>4
    <3>2. CASE i # Len(s1) + 1
      BY <3>2, <1>1
    <3> QED BY <3>1, <3>2
  <2>2. PICK kk \in 0..Len(s2) : b(k) = b(kk)
    <3>1. CASE k = Len(s2) + 1
      BY <3>1, <1>2, <1>4
    <3>2. CASE k # Len(s2) + 1
      BY <3>2, <1>2
    <3> QED BY <3>1, <3>2
  <2> QED BY <2>1, <2>2
<1>6. l.next \in [Node -> Node \union {NULL}] /\ l.pre \in [Node -> Node \union {NULL}]
  BY DEF Links
<1>7. ASSUME NEW node \in Node, NEW j \in 0..Len(s1),
             node # h1, ~InSeq(node, s1), node # h2, ~InSeq(node, s2)
      PROVE  Reads(circular_list_insert(l, a(j), node), h2, s2)
  <2> DEFINE m == circular_list_insert(l, a(j), node)
  <2>1. /\ j + 1 \in 0..(Len(s1) + 1) /\ j \in 0..(Len(s1) + 1)
        /\ \A i \in 0..(Len(s1) + 1) : a(i) # node
        /\ \A i \in 0..(Len(s2) + 1) : b(i) # node
    BY <1>1, <1>2, <1>7 DEF At, InSeq
  <2>2. Between(l, a(j), a(j + 1), node, m)
    <3>1. /\ a(j) \in Node /\ a(j + 1) \in Node /\ a(j) # node /\ a(j + 1) # node
          /\ l.next[a(j)] = a(j + 1)
      BY <2>1, <1>1, <1>3
    <3> HIDE DEF a
    <3> QED BY <3>1, InsertStores
  <2>3. ASSUME NEW i \in 0..Len(s2)
        PROVE  m.next[b(i)] = b(i + 1) /\ m.pre[b(i + 1)] = b(i)
    <3>1. /\ b(i) \in Node /\ b(i + 1) \in Node /\ b(i) # node /\ b(i + 1) # node
          /\ b(i) # a(j) /\ b(i + 1) # a(j + 1)
          /\ l.next[b(i)] = b(i + 1) /\ l.pre[b(i + 1)] = b(i)
      <4>1. i \in 0..(Len(s2) + 1) /\ i + 1 \in 0..(Len(s2) + 1)
        BY <1>2
      <4> HIDE DEF a, b
      <4> QED BY <4>1, <2>1, <1>2, <1>3, <1>5
    <3> HIDE DEF a, b, m
    <3> QED BY <3>1, <2>2, <1>6 DEF Between
  <2> QED BY <2>3 DEF Reads
<1>8. ASSUME NEW j \in 1..Len(s1)
      PROVE  Reads(circular_list_remove(l, s1[j]), h2, s2)
  <2> DEFINE m == circular_list_remove(l, s1[j])
  <2>1. /\ j - 1 \in 0..Len(s1) /\ j \in 0..Len(s1) /\ (j - 1) + 1 = j
        /\ j - 1 \in 0..(Len(s1) + 1) /\ j + 1 \in 0..(Len(s1) + 1) /\ j \in 0..(Len(s1) + 1)
    BY <1>1
  <2>2. Joined(l, a(j - 1), a(j + 1), m)
    <3>1. /\ s1[j] \in Node /\ l.next[s1[j]] = a(j + 1) /\ l.pre[s1[j]] = a(j - 1)
          /\ a(j + 1) # s1[j]
      <4>1. s1[j] = a(j) /\ a(j) \in Node
        BY <2>1, <1>1, <1>4
      <4>2. l.next[a(j)] = a(j + 1) /\ l.pre[a(j)] = a(j - 1)
        BY <2>1, <1>3
      <4>3. a(j + 1) # a(j)
        <5>1. j \in 1..(Len(s1) + 1) /\ j + 1 \in 1..(Len(s1) + 1) /\ j # j + 1
          BY <1>1
        <5> HIDE DEF a
        <5> QED BY <5>1, <1>1
      <4> HIDE DEF a
      <4> QED BY <4>1, <4>2, <4>3
    <3>2. Joined(l, l.pre[s1[j]], l.next[s1[j]], m)
      BY <3>1, RemoveStores
    <3> HIDE DEF a, m
    <3> QED BY <3>1, <3>2
  <2>3. ASSUME NEW i \in 0..Len(s2)
        PROVE  m.next[b(i)] = b(i + 1) /\ m.pre[b(i + 1)] = b(i)
    <3>1. /\ b(i) \in Node /\ b(i + 1) \in Node
          /\ b(i) # a(j - 1) /\ b(i + 1) # a(j + 1)
          /\ l.next[b(i)] = b(i + 1) /\ l.pre[b(i + 1)] = b(i)
      <4>1. i \in 0..(Len(s2) + 1) /\ i + 1 \in 0..(Len(s2) + 1)
        BY <1>2
      <4> HIDE DEF a, b
      <4> QED BY <4>1, <2>1, <1>2, <1>3, <1>5
    <3> HIDE DEF a, b, m
    <3> QED BY <3>1, <2>2, <1>6 DEF Joined
  <2> QED BY <2>3 DEF Reads
<1> QED BY <1>7, <1>8

-----------------------------------------------------------------------------
(***************************************************************************)
(* The members of a list after these calls.                                *)
(***************************************************************************)
LEMMA AppendMembers ==
    ASSUME NEW S, NEW s \in Seq(S), Injective(s), NEW p \in S, ~InSeq(p, s)
    PROVE  /\ Append(s, p) \in Seq(S)
           /\ Injective(Append(s, p))
           /\ \A x : InSeq(x, Append(s, p)) <=> InSeq(x, s) \/ x = p
<1> DEFINE a == Append(s, p)
<1>1. /\ a \in Seq(S)
      /\ Len(a) = Len(s) + 1
      /\ \A i \in 1..Len(s) : a[i] = s[i]
      /\ a[Len(s) + 1] = p
  OBVIOUS
<1>2. DOMAIN s = 1..Len(s) /\ DOMAIN a = 1..(Len(s) + 1) /\ Len(s) \in Nat
  BY <1>1
<1> HIDE DEF a
<1>3. Injective(a)
  BY <1>1, <1>2 DEF Injective, InSeq
<1>4. ASSUME NEW x PROVE InSeq(x, a) <=> InSeq(x, s) \/ x = p
  <2>1. ASSUME InSeq(x, a) PROVE InSeq(x, s) \/ x = p
    BY <2>1, <1>1, <1>2 DEF InSeq
  <2>2. ASSUME InSeq(x, s) PROVE InSeq(x, a)
    BY <2>2, <1>1, <1>2 DEF InSeq
  <2>3. Len(s) + 1 \in DOMAIN a
    BY <1>2
  <2> QED BY <2>1, <2>2, <2>3, <1>1 DEF InSeq
<1> QED BY <1>1, <1>3, <1>4 DEF a

LEMMA InsertMembers ==
    ASSUME NEW S, NEW s \in Seq(S), Injective(s), NEW p \in S, ~InSeq(p, s)
    PROVE  /\ Insert(s, p) \in Seq(S)
           /\ Injective(Insert(s, p))
           /\ \A x : InSeq(x, Insert(s, p)) <=> InSeq(x, s) \/ x = p
<1> DEFINE a == Insert(s, p)
<1>1. /\ a \in Seq(S)
      /\ Len(a) = Len(s) + 1
      /\ \A i \in 1..Len(s) : a[i + 1] = s[i]
      /\ a[1] = p
  BY DEF Insert
<1>2. DOMAIN s = 1..Len(s) /\ DOMAIN a = 1..(Len(s) + 1) /\ Len(s) \in Nat
  BY <1>1
<1> HIDE DEF a
<1>3. \A i \in DOMAIN a : i = 1 \/ (i - 1 \in DOMAIN s /\ a[i] = s[i - 1])
  BY <1>1, <1>2
<1>4. Injective(a)
  BY <1>1, <1>2, <1>3 DEF Injective, InSeq
<1>5. ASSUME NEW x PROVE InSeq(x, a) <=> InSeq(x, s) \/ x = p
  <2>1. ASSUME InSeq(x, a) PROVE InSeq(x, s) \/ x = p
    BY <2>1, <1>1, <1>3 DEF InSeq
  <2>2. ASSUME InSeq(x, s) PROVE InSeq(x, a)
    <3>1. PICK i \in DOMAIN s : s[i] = x
      BY <2>2 DEF InSeq
    <3>2. i + 1 \in DOMAIN a /\ a[i + 1] = x
      BY <3>1, <1>1, <1>2
    <3> QED BY <3>2 DEF InSeq
  <2>3. 1 \in DOMAIN a
    BY <1>2
  <2> QED BY <2>1, <2>2, <2>3, <1>1 DEF InSeq
<1> QED BY <1>1, <1>4, <1>5 DEF a

LEMMA UnlinkMembers ==
    ASSUME NEW S, NEW s \in Seq(S), Injective(s), NEW p, InSeq(p, s)
    PROVE  /\ Unlink(s, p) \in Seq(S)
           /\ Injective(Unlink(s, p))
           /\ \A x : InSeq(x, Unlink(s, p)) <=> InSeq(x, s) /\ x # p
<1> DEFINE n == Position(s, p)
           u == Unlink(s, p)
<1>1. n \in DOMAIN s /\ s[n] = p
  BY DEF Position, InSeq
<1>2. DOMAIN s = 1..Len(s) /\ Len(s) \in Nat
  OBVIOUS
<1>3. u = [i \in 1..(Len(s) - 1) |-> IF i < n THEN s[i] ELSE s[i + 1]]
  BY DEF Unlink
<1>4. \A i \in 1..(Len(s) - 1) : i \in DOMAIN s /\ i + 1 \in DOMAIN s
  BY <1>2
<1>5. Len(s) - 1 \in Nat
  BY <1>1, <1>2
<1> HIDE DEF n, u
<1>6. /\ DOMAIN u = 1..(Len(s) - 1)
      /\ \A i \in DOMAIN u : u[i] = IF i < n THEN s[i] ELSE s[i + 1]
  BY <1>3
<1>7. u \in Seq(S)
  BY <1>3, <1>5, <1>4
<1>8. \A a, b \in DOMAIN s : s[a] = s[b] => a = b
  BY DEF Injective
<1> DEFINE Old(i) == IF i < n THEN i ELSE i + 1
<1>9. \A i \in DOMAIN u : Old(i) \in DOMAIN s /\ u[i] = s[Old(i)] /\ Old(i) # n
  BY <1>1, <1>2, <1>4, <1>6
<1>10. \A i, j \in DOMAIN u : Old(i) = Old(j) => i = j
  BY <1>1, <1>2, <1>6
<1>11. \A j \in DOMAIN s : j # n => \E i \in DOMAIN u : Old(i) = j
  <2> SUFFICES ASSUME NEW j \in DOMAIN s, j # n PROVE \E i \in DOMAIN u : Old(i) = j
    OBVIOUS
  <2>1. CASE j < n
    <3>1. j \in DOMAIN u /\ Old(j) = j
      BY <2>1, <1>1, <1>2, <1>6
    <3> QED BY <3>1
  <2>2. CASE j > n
    <3>1. j - 1 \in DOMAIN u /\ Old(j - 1) = j
      BY <2>2, <1>1, <1>2, <1>6
    <3> QED BY <3>1
  <2> QED BY <2>1, <2>2, <1>1, <1>2
<1> HIDE DEF Old
<1>12. Injective(u)
  BY <1>8, <1>9, <1>10 DEF Injective
<1>13. ASSUME NEW x PROVE InSeq(x, u) <=> InSeq(x, s) /\ x # p
  BY <1>1, <1>8, <1>9, <1>11 DEF InSeq
<1> QED BY <1>7, <1>12, <1>13 DEF u

-----------------------------------------------------------------------------
(***************************************************************************)
(* All rings at once.  R is what each head's ring reads.                   *)
(***************************************************************************)
Rings(l, R) ==
    /\ l \in Links
    /\ R \in [Heads -> Seq(Node \ Heads)]
    /\ \A h \in Heads : Injective(R[h]) /\ Reads(l, h, R[h])
    /\ \A h, g \in Heads, n \in Node : InSeq(n, R[h]) /\ InSeq(n, R[g]) => h = g

LEMMA RingsAreRings ==
    ASSUME NEW l, NEW R, Rings(l, R)
    PROVE  /\ l \in Links
           /\ \A h \in Heads : /\ Ring(l, h, R[h]) /\ h \in Node
                               /\ R[h] \in Seq(Node \ Heads) /\ R[h] \in Seq(Node)
                               /\ Len(R[h]) \in Nat /\ DOMAIN R[h] = 1..Len(R[h])
           /\ \A h \in Heads : \A n : InSeq(n, R[h]) => n \in Node \ Heads
           /\ \A h, g \in Heads : h # g =>
                 \A i \in 0..Len(R[h]), k \in 0..Len(R[g]) :
                    At(h, R[h], i) # At(g, R[g], k)
<1>1. Heads \subseteq Node
  BY DEF Node
<1>2. ASSUME NEW h \in Heads
      PROVE  /\ R[h] \in Seq(Node \ Heads) /\ R[h] \in Seq(Node) /\ h \in Node
             /\ Len(R[h]) \in Nat /\ DOMAIN R[h] = 1..Len(R[h])
             /\ \A i \in 1..Len(R[h]) : R[h][i] \in Node \ Heads
  <2>1. R[h] \in Seq(Node \ Heads)
    BY DEF Rings
  <2> QED BY <1>1, <2>1
<1>3. \A h \in Heads : \A n : InSeq(n, R[h]) => n \in Node \ Heads
  BY <1>2 DEF InSeq
<1>4. \A h \in Heads : Ring(l, h, R[h])
  BY <1>2, <1>3 DEF Rings, Ring
<1>5. ASSUME NEW h \in Heads, NEW g \in Heads, h # g,
             NEW i \in 0..Len(R[h]), NEW k \in 0..Len(R[g])
      PROVE  At(h, R[h], i) # At(g, R[g], k)
  <2>1. i = 0 \/ i \in 1..Len(R[h])
    BY <1>2
  <2>2. k = 0 \/ k \in 1..Len(R[g])
    BY <1>2
  <2>3. At(h, R[h], i) = IF i = 0 THEN h ELSE R[h][i]
    BY <1>2, <2>1 DEF At
  <2>4. At(g, R[g], k) = IF k = 0 THEN g ELSE R[g][k]
    BY <1>2, <2>2 DEF At
  <2>5. i # 0 => InSeq(R[h][i], R[h]) /\ R[h][i] \in Node \ Heads
    BY <1>2, <2>1 DEF InSeq
  <2>6. k # 0 => InSeq(R[g][k], R[g]) /\ R[g][k] \in Node \ Heads
    BY <1>2, <2>2 DEF InSeq
  <2> QED BY <1>5, <2>3, <2>4, <2>5, <2>6 DEF Rings
<1> QED BY <1>2, <1>3, <1>4, <1>5 DEF Rings

LEMMA LinksKept ==
    ASSUME NEW l \in Links
    PROVE  /\ \A position \in Node, node \in Node :
                 /\ Aim(l, position, node) \in Links
                 /\ LinkForward(l, position, node) \in Links
                 /\ circular_list_insert(l, position, node) \in Links
           /\ \A node \in Node : circular_list_remove(l, node) \in Links
BY DEF Links, Aim, LinkForward, LinkBackward, circular_list_insert, circular_list_remove

\* Insertion of a node that is in no ring, and removal.
LEMMA RingsInsert ==
    ASSUME NEW l, NEW R, Rings(l, R), NEW h \in Heads, NEW node \in Node \ Heads,
           \A g \in Heads : ~InSeq(node, R[g])
    PROVE  /\ Rings(circular_list_insert(l, h, node), [R EXCEPT ![h] = Insert(@, node)])
           /\ Rings(circular_list_insert(l, l.pre[h], node), [R EXCEPT ![h] = Append(@, node)])
<1> DEFINE s == R[h]
<1>1. /\ l \in Links /\ Ring(l, h, s) /\ s \in Seq(Node \ Heads) /\ Injective(s) /\ h \in Node
      /\ Len(s) \in Nat
  BY RingsAreRings DEF Rings
<1>2. /\ node # h /\ ~InSeq(node, s) /\ node \in Node
  OBVIOUS
<1>3. /\ Insert(s, node) \in Seq(Node \ Heads) /\ Injective(Insert(s, node))
      /\ \A x : InSeq(x, Insert(s, node)) <=> InSeq(x, s) \/ x = node
      /\ Append(s, node) \in Seq(Node \ Heads) /\ Injective(Append(s, node))
      /\ \A x : InSeq(x, Append(s, node)) <=> InSeq(x, s) \/ x = node
  <2> HIDE DEF s
  <2> QED BY <1>1, <1>2, InsertMembers, AppendMembers
<1>4. /\ Reads(circular_list_insert(l, h, node), h, Insert(s, node))
      /\ Reads(circular_list_insert(l, l.pre[h], node), h, Append(s, node))
  <2> HIDE DEF s
  <2> QED BY <1>1, <1>2, InsertIsInsert, InsertIsAppend
<1>5. /\ At(h, s, 0) = h /\ 0 \in 0..Len(s)
      /\ At(h, s, Len(s)) = l.pre[h] /\ Len(s) \in 0..Len(s)
  <2>1. Len(s) \in 0..Len(s) /\ At(h, s, Len(s) + 1) = h /\ At(h, s, 0) = h
    BY <1>1 DEF At
  <2> QED BY <1>1, <2>1 DEF Ring, Reads
<1>6. ASSUME NEW g \in Heads, g # h
      PROVE  /\ Reads(circular_list_insert(l, h, node), g, R[g])
             /\ Reads(circular_list_insert(l, l.pre[h], node), g, R[g])
  <2>1. /\ Ring(l, g, R[g]) /\ node # g /\ ~InSeq(node, R[g])
        /\ \A i \in 0..Len(s), k \in 0..Len(R[g]) : At(h, s, i) # At(g, R[g], k)
    BY <1>6, RingsAreRings
  <2>2. \A j \in 0..Len(s) : Reads(circular_list_insert(l, At(h, s, j), node), g, R[g])
    <3> HIDE DEF s
    <3> QED BY <1>1, <1>2, <2>1, OtherRings
  <2>3. /\ Reads(circular_list_insert(l, At(h, s, 0), node), g, R[g])
        /\ Reads(circular_list_insert(l, At(h, s, Len(s)), node), g, R[g])
    BY <1>5, <2>2
  <2> QED BY <1>5, <2>3
<1>7. l.pre[h] \in Node
  BY <1>1, <1>5, Places
<1>8. /\ circular_list_insert(l, h, node) \in Links
      /\ circular_list_insert(l, l.pre[h], node) \in Links
  BY <1>1, <1>2, <1>7, LinksKept
<1>9. R \in [Heads -> Seq(Node \ Heads)]
  BY DEF Rings
<1>10. ASSUME NEW t, NEW m \in Links, t \in Seq(Node \ Heads), Injective(t),
              \A x : InSeq(x, t) <=> InSeq(x, s) \/ x = node,
              Reads(m, h, t), \A g \in Heads : g # h => Reads(m, g, R[g])
       PROVE  Rings(m, [R EXCEPT ![h] = t])
  <2> DEFINE Q == [R EXCEPT ![h] = t]
  <2>1. Q \in [Heads -> Seq(Node \ Heads)] /\ \A g \in Heads : Q[g] = IF g = h THEN t ELSE R[g]
    BY <1>9, <1>10
  <2> HIDE DEF Q
  <2>2. \A g \in Heads : Injective(Q[g]) /\ Reads(m, g, Q[g])
    BY <1>10, <2>1 DEF Rings
  <2>3. ASSUME NEW g \in Heads, NEW f \in Heads, NEW n \in Node, InSeq(n, Q[g]), InSeq(n, Q[f])
        PROVE  g = f
    BY <1>10, <2>1, <2>3 DEF Rings
  <2> QED BY <1>10, <2>1, <2>2, <2>3 DEF Rings, Q
<1> HIDE DEF s
<1>11. Rings(circular_list_insert(l, h, node), [R EXCEPT ![h] = Insert(s, node)])
  BY <1>3, <1>4, <1>6, <1>8, <1>10
<1>12. Rings(circular_list_insert(l, l.pre[h], node), [R EXCEPT ![h] = Append(s, node)])
  BY <1>3, <1>4, <1>6, <1>8, <1>10
<1> QED BY <1>11, <1>12 DEF s

LEMMA RingsRemove ==
    ASSUME NEW l, NEW R, Rings(l, R), NEW h \in Heads, NEW node, InSeq(node, R[h])
    PROVE  Rings(circular_list_remove(l, node), [R EXCEPT ![h] = Unlink(@, node)])
<1> DEFINE s == R[h]
           t == Unlink(s, node)
           m == circular_list_remove(l, node)
<1>1. /\ l \in Links /\ Ring(l, h, s) /\ s \in Seq(Node \ Heads) /\ Injective(s) /\ h \in Node
      /\ node \in Node /\ DOMAIN s = 1..Len(s)
  BY RingsAreRings DEF Rings
<1>2. t \in Seq(Node \ Heads) /\ Injective(t) /\ \A x : InSeq(x, t) <=> InSeq(x, s) /\ x # node
  <2> HIDE DEF s
  <2> QED BY <1>1, UnlinkMembers DEF s
<1>3. Reads(m, h, t) /\ m \in Links
  <2> HIDE DEF s
  <2> QED BY <1>1, RemoveIsUnlink, LinksKept DEF s
<1>4. ASSUME NEW g \in Heads, g # h PROVE Reads(m, g, R[g])
  <2>1. /\ Ring(l, g, R[g])
        /\ \A i \in 0..Len(s), k \in 0..Len(R[g]) : At(h, s, i) # At(g, R[g], k)
    BY <1>4, RingsAreRings
  <2>2. \A j \in 1..Len(s) : Reads(circular_list_remove(l, s[j]), g, R[g])
    <3> HIDE DEF s
    <3> QED BY <1>1, <2>1, OtherRings
  <2> QED BY <1>1, <2>2 DEF InSeq
<1>5. R \in [Heads -> Seq(Node \ Heads)]
  BY DEF Rings
<1> DEFINE Q == [R EXCEPT ![h] = t]
<1>6. Q \in [Heads -> Seq(Node \ Heads)] /\ \A g \in Heads : Q[g] = IF g = h THEN t ELSE R[g]
  <2> HIDE DEF t
  <2> QED BY <1>2, <1>5
<1> HIDE DEF Q, t, m
<1>7. \A g \in Heads : Injective(Q[g]) /\ Reads(m, g, Q[g])
  BY <1>2, <1>3, <1>4, <1>6 DEF Rings
<1>8. ASSUME NEW g \in Heads, NEW f \in Heads, NEW n \in Node, InSeq(n, Q[g]), InSeq(n, Q[f])
      PROVE  g = f
  BY <1>2, <1>6, <1>8 DEF Rings
<1> QED BY <1>3, <1>6, <1>7, <1>8 DEF Rings, Q, t, m

\* A ring reads the same as long as its own nodes do.
LEMMA ReadsKept ==
    ASSUME NEW l, NEW R, Rings(l, R), NEW m, NEW h \in Heads,
           \A n \in Node : n = h \/ InSeq(n, R[h])
                           => m.next[n] = l.next[n] /\ m.pre[n] = l.pre[n]
    PROVE  Reads(m, h, R[h])
<1>1. Reads(l, h, R[h]) /\ Len(R[h]) \in Nat /\ DOMAIN R[h] = 1..Len(R[h])
  BY RingsAreRings DEF Rings
<1>2. ASSUME NEW i \in 0..(Len(R[h]) + 1)
      PROVE  /\ m.next[At(h, R[h], i)] = l.next[At(h, R[h], i)]
             /\ m.pre[At(h, R[h], i)] = l.pre[At(h, R[h], i)]
  <2>1. CASE i \in DOMAIN R[h]
    <3>1. At(h, R[h], i) = R[h][i] /\ InSeq(R[h][i], R[h])
      BY <2>1 DEF At, InSeq
    <3> QED BY <3>1, RingsAreRings
  <2>2. CASE i \notin DOMAIN R[h]
    <3>1. At(h, R[h], i) = h /\ h \in Node
      BY <2>2, RingsAreRings DEF At
    <3> QED BY <3>1
  <2> QED BY <2>1, <2>2
<1>3. ASSUME NEW i \in 0..Len(R[h])
      PROVE  /\ m.next[At(h, R[h], i)] = At(h, R[h], i + 1)
             /\ m.pre[At(h, R[h], i + 1)] = At(h, R[h], i)
  <2>1. i \in 0..(Len(R[h]) + 1) /\ i + 1 \in 0..(Len(R[h]) + 1)
    BY <1>1
  <2> QED BY <1>1, <1>2, <2>1 DEF Reads
<1> QED BY <1>3 DEF Reads

LEMMA RingsKept ==
    ASSUME NEW l, NEW R, Rings(l, R), NEW m \in Links,
           \A n \in Node : n \in Heads \/ (\E h \in Heads : InSeq(n, R[h]))
                           => m.next[n] = l.next[n] /\ m.pre[n] = l.pre[n]
    PROVE  Rings(m, R)
<1>1. \A h \in Heads : Reads(m, h, R[h])
  BY ReadsKept
<1> QED BY <1>1 DEF Rings

-----------------------------------------------------------------------------
(***************************************************************************)
(* What the loops of circular_list_is_inlist and of ready_processes see.   *)
(***************************************************************************)
LEMMA NodesFinite == IsFiniteSet(Node)
<1>1. IsFiniteSet(Proc) /\ WHEEL_SIZE \in Nat \ {0}
  BY RingAssumption
<1>2. IsFiniteSet({SchedNode(p) : p \in Proc}) /\ IsFiniteSet({SleepNode(p) : p \in Proc})
  <2> DEFINE f == [p \in Proc |-> SchedNode(p)]
             g == [p \in Proc |-> SleepNode(p)]
  <2>1. f \in Surjection(Proc, {SchedNode(p) : p \in Proc})
    BY DEF Surjection
  <2>2. g \in Surjection(Proc, {SleepNode(p) : p \in Proc})
    BY DEF Surjection
  <2> QED BY <1>1, <2>1, <2>2, FS_Surjection
<1>3. IsFiniteSet({SlotHead(s) : s \in Slots}) /\ IsFiniteSet({QueueHead(q) : q \in Queues})
  <2> DEFINE f == [s \in Slots |-> SlotHead(s)]
             g == [q \in Queues |-> QueueHead(q)]
  <2>1. IsFiniteSet(Slots)
    BY <1>1, FS_Interval DEF Slots
  <2>2. IsFiniteSet(Queues)
    <3>1. Queues = 1..2 /\ 1 \in Int /\ 2 \in Int
      BY DEF Queues
    <3>2. IsFiniteSet(1..2)
      BY <3>1, FS_Interval
    <3> QED BY <3>1, <3>2
  <2>3. f \in Surjection(Slots, {SlotHead(s) : s \in Slots})
    BY DEF Surjection
  <2>4. g \in Surjection(Queues, {QueueHead(q) : q \in Queues})
    BY DEF Surjection
  <2> QED BY <2>1, <2>2, <2>3, <2>4, FS_Surjection
<1>4. IsFiniteSet({WaitHead})
  BY FS_Singleton
<1> QED BY <1>2, <1>3, <1>4, FS_Union DEF Node, Heads, SchedNodes

LEMMA LeastNumber ==
    ASSUME NEW T, T \subseteq Nat, T # {}
    PROVE  \E m \in T : \A k \in T : m <= k
<1> DEFINE R == OpToRel(<, Nat)
<1>1. IsWellFoundedOn(R, Nat)
  BY NatLessThanWellFounded
<1>2. \A k, m \in Nat : k < m => <<k, m>> \in R
  BY DEF OpToRel
<1>3. PICK m \in T : \A k \in T : ~ (<<k, m>> \in R)
  <2> HIDE DEF R
  <2> QED BY <1>1, WFMin
<1> HIDE DEF R
<1>4. ASSUME NEW k \in T PROVE m <= k
  <2>1. k \in Nat /\ m \in Nat /\ ~ (k < m)
    BY <1>2, <1>3
  <2> QED BY <2>1
<1> QED BY <1>3, <1>4

\* i steps from the head is place i.
LEMMA NthIsPlace ==
    ASSUME NEW l, NEW head, NEW s, Ring(l, head, s), NEW i \in 0..(Len(s) + 1)
    PROVE  Nth(l, head, i) = At(head, s, i)
<1> DEFINE Walks(f) == f = [j \in 0..i |-> IF j = 0 THEN head ELSE l.next[f[j - 1]]]
           a == [j \in 0..i |-> At(head, s, j)]
           g == CHOOSE f : Walks(f)
<1>1. Len(s) \in Nat /\ i \in Nat /\ DOMAIN s = 1..Len(s)
  BY Places
<1>2. \A j \in 0..Len(s) : l.next[At(head, s, j)] = At(head, s, j + 1)
  BY DEF Ring, Reads
<1>3. At(head, s, 0) = head
  BY <1>1 DEF At
<1>4. Walks(a)
  <2>1. ASSUME NEW j \in 0..i
        PROVE  a[j] = IF j = 0 THEN head ELSE l.next[a[j - 1]]
    <3>1. CASE j = 0
      BY <3>1, <1>3
    <3>2. CASE j # 0
      <4>1. j - 1 \in 0..i /\ j - 1 \in 0..Len(s) /\ (j - 1) + 1 = j
        BY <3>2, <1>1
      <4>2. a[j - 1] = At(head, s, j - 1) /\ a[j] = At(head, s, j)
        BY <4>1
      <4> QED BY <3>2, <4>1, <4>2, <1>2
    <3> QED BY <3>1, <3>2
  <2>2. a = [j \in 0..i |-> a[j]]
    OBVIOUS
  <2> HIDE DEF a
  <2> QED BY <2>1, <2>2
<1>5. Walks(g)
  <2> HIDE DEF a, Walks
  <2> QED BY <1>4
<1>6. Nth(l, head, i) = g[i]
  BY DEF Nth
<1> HIDE DEF g
<1>7. \A j \in 0..i : g[j] = IF j = 0 THEN head ELSE l.next[g[j - 1]]
  BY <1>5
<1> DEFINE Bad == {j \in 0..i : g[j] # At(head, s, j)}
<1>8. ASSUME Bad # {} PROVE FALSE
  <2>1. Bad \subseteq Nat
    BY <1>1
  <2>2. PICK j \in Bad : \A k \in Bad : j <= k
    <3> HIDE DEF Bad
    <3> QED BY <1>8, <2>1, LeastNumber
  <2>3. j \in 0..i /\ g[j] # At(head, s, j)
    BY <2>2
  <2>4. j # 0
    BY <2>3, <1>1, <1>3, <1>7
  <2>5. j - 1 \in 0..i /\ j - 1 \in 0..Len(s) /\ (j - 1) + 1 = j /\ ~(j <= j - 1)
    BY <2>3, <2>4, <1>1
  <2>6. g[j - 1] = At(head, s, j - 1)
    BY <2>2, <2>5
  <2>7. g[j] = l.next[g[j - 1]]
    BY <1>7, <2>3, <2>4
  <2> QED BY <1>2, <2>3, <2>5, <2>6, <2>7
<1>9. i \in 0..i
  BY <1>1
<1> QED BY <1>6, <1>8, <1>9

\* A ring has at most as many places as there are nodes.
LEMMA RingFits ==
    ASSUME NEW l, NEW head, NEW s, Ring(l, head, s)
    PROVE  Len(s) + 1 <= Cardinality(Node) /\ Len(s) + 1 \in 1..Cardinality(Node)
<1> DEFINE n == Len(s)
           f == [i \in 1..(n + 1) |-> At(head, s, i)]
<1>1. /\ n \in Nat
      /\ \A i \in 0..(n + 1) : At(head, s, i) \in Node
      /\ \A i, j \in 1..(n + 1) : At(head, s, i) = At(head, s, j) => i = j
  BY Places
<1>2. \A i \in 1..(n + 1) : i \in 0..(n + 1)
  BY <1>1
<1>3. f \in Injection(1..(n + 1), Node)
  <2> HIDE DEF n
  <2> QED BY <1>1, <1>2 DEF Injection, IsInjective
<1>4. Cardinality(1..(n + 1)) <= Cardinality(Node)
  BY <1>3, NodesFinite, FS_Injection
<1>5. Cardinality(1..(n + 1)) = n + 1
  <2>1. 1 \in Int /\ n + 1 \in Int /\ n + 1 >= 1
    BY <1>1
  <2>2. Cardinality(1..(n + 1)) = IF 1 > n + 1 THEN 0 ELSE (n + 1) - 1 + 1
    BY <2>1, FS_Interval
  <2> QED BY <1>1, <2>2
<1>6. Cardinality(Node) \in Nat
  BY NodesFinite, FS_CardinalityType
<1> QED BY <1>1, <1>4, <1>5, <1>6

\* So the loops end, after as many steps as the list has members, and see these.
LEMMA RingIsWellLinked ==
    ASSUME NEW l, NEW head, NEW s, Ring(l, head, s)
    PROVE  /\ WellLinked(l, head)
           /\ Length(l, head) = Len(s)
           /\ Contents(l, head) = s
           /\ {Nth(l, head, i) : i \in 1..Length(l, head)} = {x \in Node : InSeq(x, s)}
<1> DEFINE n == Len(s)
<1>1. /\ n \in Nat /\ DOMAIN s = 1..n /\ s \in Seq(Node)
      /\ \A i \in 0..(n + 1) : Nth(l, head, i) = At(head, s, i)
      /\ At(head, s, n + 1) = head /\ \A i \in 1..n : At(head, s, i) = s[i] /\ s[i] # head
  BY Places, NthIsPlace DEF Ring, At, InSeq
<1>2. n + 1 \in 1..Cardinality(Node) /\ Cardinality(Node) \in Nat
  BY RingFits, NodesFinite, FS_CardinalityType
<1> DEFINE First(i) == Nth(l, head, i) = head /\ \A j \in 1..(i - 1) : Nth(l, head, j) # head
<1>3. First(n + 1)
  <2>1. n + 1 \in 0..(n + 1) /\ \A j \in 1..((n + 1) - 1) : j \in 0..(n + 1) /\ j \in 1..n
    BY <1>1
  <2> QED BY <1>1, <2>1
<1>4. \A i \in 1..Cardinality(Node) : First(i) => i = n + 1
  <2> SUFFICES ASSUME NEW i \in 1..Cardinality(Node), First(i) PROVE i = n + 1
    OBVIOUS
  <2>1. CASE i < n + 1
    <3>1. i \in 1..n /\ i \in 0..(n + 1)
      BY <2>1, <1>1
    <3> QED BY <3>1, <1>1
  <2>2. CASE i > n + 1
    <3>1. n + 1 \in 1..(i - 1) /\ n + 1 \in 0..(n + 1)
      BY <2>2, <1>1
    <3> QED BY <3>1, <1>1
  <2> QED BY <2>1, <2>2, <1>1
<1>5. Length(l, head) = n
  <2>1. (CHOOSE i \in 1..Cardinality(Node) : First(i)) = n + 1
    <3> HIDE DEF First, n
    <3> QED BY <1>2, <1>3, <1>4
  <2>2. Length(l, head) = (CHOOSE i \in 1..Cardinality(Node) : First(i)) - 1
    BY DEF Length
  <2> DEFINE c == CHOOSE i \in 1..Cardinality(Node) : First(i)
  <2>3. c = n + 1 /\ Length(l, head) = c - 1 /\ n \in Nat
    BY <1>1, <2>1, <2>2
  <2> HIDE DEF c, n
  <2> QED BY <2>3
<1>6. Closed(l, head)
  BY <1>2, <1>3 DEF Closed
<1>7. \A i \in 0..n : l.pre[l.next[Nth(l, head, i)]] = Nth(l, head, i)
  <2> SUFFICES ASSUME NEW i \in 0..n PROVE l.pre[l.next[Nth(l, head, i)]] = Nth(l, head, i)
    OBVIOUS
  <2>1. i \in 0..(n + 1)
    BY <1>1
  <2> QED BY <1>1, <2>1 DEF Ring, Reads
<1>8. \A i \in 1..n : Nth(l, head, i) = s[i]
  <2>1. \A i \in 1..n : i \in 0..(n + 1)
    BY <1>1
  <2> QED BY <1>1, <2>1
<1>9. Contents(l, head) = s
  <2>1. s = [i \in 1..n |-> s[i]]
    BY <1>1
  <2> HIDE DEF n
  <2> QED BY <1>5, <1>8, <2>1 DEF Contents
<1>10. {Nth(l, head, i) : i \in 1..n} = {x \in Node : InSeq(x, s)}
  BY <1>1, <1>8 DEF InSeq
<1> QED BY <1>5, <1>6, <1>7, <1>9, <1>10 DEF WellLinked
-----------------------------------------------------------------------------
(***************************************************************************)
(* The rings of the scheduler: Q is the set of processes in a queue, P of  *)
(* those in the wait list or a slot, and d the head for each.              *)
(***************************************************************************)
LEMMA NodeFacts ==
    /\ \A p \in Proc : /\ SchedNode(p) \in Node \ Heads /\ SleepNode(p) \in Node \ Heads
                       /\ SchedNode(p) \in SchedNodes
                       /\ SchedNode(p)[2] = p /\ SleepNode(p)[2] = p
    /\ \A p, r \in Proc : /\ SchedNode(p) # SleepNode(r)
                          /\ SchedNode(p) = SchedNode(r) => p = r
                          /\ SleepNode(p) = SleepNode(r) => p = r
    /\ \A n \in Node \ Heads : \E p \in Proc : n = SchedNode(p) \/ n = SleepNode(p)
    /\ \A n \in Heads : n \notin SchedNodes
BY DEF Node, Heads, SchedNodes, SchedNode, SleepNode, QueueHead, SlotHead, WaitHead

LEMMA HeadFacts ==
    /\ WaitHead \in Heads
    /\ \A q \in Queues : QueueHead(q) \in Heads /\ QueueHead(q) # WaitHead
    /\ \A s \in Slots : SlotHead(s) \in Heads /\ SlotHead(s) # WaitHead
    /\ \A q, r \in Queues : QueueHead(q) = QueueHead(r) => q = r
    /\ \A s, t \in Slots : SlotHead(s) = SlotHead(t) => s = t
    /\ \A q \in Queues, s \in Slots : QueueHead(q) # SlotHead(s)
BY DEF Heads, QueueHead, SlotHead, WaitHead

States == {"NONE", "RUNNING", "WAITING"}
Kernel ==
    [cur : Proc, active : Queues, count : [Queues -> Int], sq : [Proc -> Queues],
     state : [Proc -> States], rest : [Proc -> Nat], jiffies : Jiffies,
     wakeup : [Proc -> Jiffies], links : Links, panic : BOOLEAN]

SleepHeads == {WaitHead} \union {SlotHead(s) : s \in Slots}

InQueue(k, Q, q) == {p \in Q : k.sq[p] = q}

QueueLists(k, R, Q) ==
    \A p \in Proc, h \in Heads : InSeq(SchedNode(p), R[h]) <=> p \in Q /\ h = QueueHead(k.sq[p])

SleepLists(R, P, d) ==
    \A p \in Proc, h \in Heads : InSeq(SleepNode(p), R[h]) <=> p \in P /\ h = d[p]

Lined(k, Q, P, d) ==
    /\ k \in Kernel /\ Q \subseteq Proc /\ P \subseteq Proc /\ d \in [Proc -> SleepHeads]
    /\ \A q \in Queues : k.count[q] = Cardinality(InQueue(k, Q, q))
    /\ \E R : Rings(k.links, R) /\ QueueLists(k, R, Q) /\ SleepLists(R, P, d)

LEMMA LinedLinks ==
    ASSUME NEW k, NEW Q, NEW P, NEW d, Lined(k, Q, P, d)
    PROVE  /\ k \in Kernel /\ k.links \in Links
           /\ \A h \in Heads : k.links.pre[h] \in Node
<1>1. PICK R : Rings(k.links, R)
  BY DEF Lined
<1>2. ASSUME NEW h \in Heads PROVE k.links.pre[h] \in Node
  <2>1. Ring(k.links, h, R[h]) /\ Len(R[h]) \in Nat /\ Len(R[h]) \in 0..Len(R[h])
    BY <1>1, RingsAreRings
  <2>2. At(h, R[h], Len(R[h]) + 1) = h
    BY <2>1, Places DEF At
  <2>3. k.links.pre[h] = At(h, R[h], Len(R[h]))
    BY <2>1, <2>2 DEF Ring, Reads
  <2> QED BY <2>1, <2>3, Places
<1> QED BY <1>2 DEF Lined, Kernel

\* What a list holds, read from the heads.
\* The heads and the nodes of the queues are linked in m as in l.
SameQueues(l, m) ==
    \A n \in Node : (\E q \in Queues : n = QueueHead(q)) \/ n \in SchedNodes
                    => m.next[n] = l.next[n] /\ m.pre[n] = l.pre[n]

LEMMA QueuesHold ==
    ASSUME NEW k, NEW Q, NEW P, NEW d, Lined(k, Q, P, d), NEW m \in Links,
           SameQueues(k.links, m)
    PROVE  \A q \in Queues :
              /\ WellLinked(m, QueueHead(q))
              /\ {Nth(m, QueueHead(q), i) : i \in 1..Length(m, QueueHead(q))}
                 = {SchedNode(p) : p \in InQueue(k, Q, q)}
<1>1. PICK R : Rings(k.links, R) /\ QueueLists(k, R, Q) /\ SleepLists(R, P, d)
  BY DEF Lined
<1>2. /\ Q \subseteq Proc /\ P \subseteq Proc /\ d \in [Proc -> SleepHeads]
      /\ k.sq \in [Proc -> Queues]
  BY DEF Lined, Kernel
<1>3. \A q \in Queues : QueueHead(q) \notin SleepHeads
  BY HeadFacts DEF SleepHeads
<1>4. ASSUME NEW q \in Queues
      PROVE  {x \in Node : InSeq(x, R[QueueHead(q)])} = {SchedNode(p) : p \in InQueue(k, Q, q)}
  <2>1. ASSUME NEW x \in Node, InSeq(x, R[QueueHead(q)])
        PROVE  \E p \in InQueue(k, Q, q) : x = SchedNode(p)
    <3>1. QueueHead(q) \in Heads /\ x \in Node \ Heads
      BY <1>1, <2>1, HeadFacts, RingsAreRings
    <3>2. PICK p \in Proc : x = SchedNode(p) \/ x = SleepNode(p)
      BY <3>1, NodeFacts
    <3>3. x # SleepNode(p)
      BY <1>1, <1>2, <1>3, <2>1, <3>1 DEF SleepLists
    <3>4. p \in Q /\ k.sq[p] = q
      BY <1>1, <1>2, <2>1, <3>1, <3>2, <3>3, HeadFacts DEF QueueLists
    <3> QED BY <3>2, <3>3, <3>4 DEF InQueue
  <2>2. ASSUME NEW p \in InQueue(k, Q, q)
        PROVE  SchedNode(p) \in Node /\ InSeq(SchedNode(p), R[QueueHead(q)])
    BY <1>1, <1>2, <2>2, NodeFacts, HeadFacts DEF QueueLists, InQueue
  <2> QED BY <2>1, <2>2
<1>5. ASSUME NEW q \in Queues
      PROVE  Ring(m, QueueHead(q), R[QueueHead(q)])
  <2> DEFINE h == QueueHead(q)
  <2>1. h \in Heads /\ h \in Node /\ Ring(k.links, h, R[h])
    BY <1>1, HeadFacts, RingsAreRings
  <2>2. \A n \in Node : InSeq(n, R[h]) => n \in SchedNodes
    BY <1>2, <1>4, NodeFacts DEF InQueue
  <2> HIDE DEF h
  <2>3. \A n \in Node : n = h \/ InSeq(n, R[h])
                        => m.next[n] = k.links.next[n] /\ m.pre[n] = k.links.pre[n]
    BY <2>2 DEF h, SameQueues
  <2>4. Reads(m, h, R[h])
    BY <1>1, <2>1, <2>3, ReadsKept
  <2>5. Ring(m, h, R[h])
    BY <2>1, <2>4 DEF Ring
  <2> QED BY <2>5 DEF h
<1>6. \A q \in Queues :
         /\ WellLinked(m, QueueHead(q))
         /\ {Nth(m, QueueHead(q), i) : i \in 1..Length(m, QueueHead(q))}
            = {x \in Node : InSeq(x, R[QueueHead(q)])}
  BY <1>5, RingIsWellLinked
<1> QED BY <1>4, <1>6

LEMMA SleepersHold ==
    ASSUME NEW k, NEW Q, NEW P, NEW d, Lined(k, Q, P, d)
    PROVE  \A h \in SleepHeads :
              /\ WellLinked(k.links, h)
              /\ {Nth(k.links, h, i) : i \in 1..Length(k.links, h)}
                 = {SleepNode(p) : p \in {r \in P : d[r] = h}}
<1>1. PICK R : Rings(k.links, R) /\ QueueLists(k, R, Q) /\ SleepLists(R, P, d)
  BY DEF Lined
<1>2. P \subseteq Proc
  BY DEF Lined
<1>3. SleepHeads \subseteq Heads /\ \A q \in Queues : QueueHead(q) \notin SleepHeads
  BY HeadFacts DEF SleepHeads
<1>4. \A p \in Q : k.sq[p] \in Queues
  BY DEF Lined, Kernel
<1>5. ASSUME NEW h \in SleepHeads
      PROVE  {x \in Node : InSeq(x, R[h])} = {SleepNode(p) : p \in {r \in P : d[r] = h}}
  <2>1. ASSUME NEW x \in Node, InSeq(x, R[h])
        PROVE  \E p \in {r \in P : d[r] = h} : x = SleepNode(p)
    <3>1. h \in Heads /\ x \in Node \ Heads
      BY <1>1, <1>3, <2>1, RingsAreRings
    <3>2. PICK p \in Proc : x = SchedNode(p) \/ x = SleepNode(p)
      BY <3>1, NodeFacts
    <3>3. x # SchedNode(p)
      BY <1>1, <1>3, <1>4, <2>1, <3>1 DEF QueueLists
    <3>4. p \in P /\ d[p] = h
      BY <1>1, <1>2, <2>1, <3>1, <3>2, <3>3 DEF SleepLists
    <3> QED BY <3>2, <3>3, <3>4
  <2>2. ASSUME NEW p \in {r \in P : d[r] = h}
        PROVE  SleepNode(p) \in Node /\ InSeq(SleepNode(p), R[h])
    BY <1>1, <1>2, <1>3, <2>2, NodeFacts DEF SleepLists
  <2> QED BY <2>1, <2>2
<1>6. \A h \in Heads : /\ WellLinked(k.links, h)
                       /\ {Nth(k.links, h, i) : i \in 1..Length(k.links, h)}
                          = {x \in Node : InSeq(x, R[h])}
  BY <1>1, RingsAreRings, RingIsWellLinked
<1> QED BY <1>3, <1>5, <1>6

\* The loop of ready_processes sees the sleepers of its slot.
LEMMA LinedSlot ==
    ASSUME NEW k, NEW Q, NEW P, NEW d, Lined(k, Q, P, d), NEW h \in SleepHeads,
           NEW i \in DOMAIN Contents(k.links, h)
    PROVE  \E p \in P : Contents(k.links, h)[i] = SleepNode(p)
<1>1. PICK R : Rings(k.links, R) /\ QueueLists(k, R, Q) /\ SleepLists(R, P, d)
  BY DEF Lined
<1>2. h \in Heads
  BY HeadFacts DEF SleepHeads
<1>3. Contents(k.links, h) = R[h]
  BY <1>1, <1>2, RingsAreRings, RingIsWellLinked
<1>4. \A j \in 1..Length(k.links, h) : Contents(k.links, h)[j] = Nth(k.links, h, j)
  BY DEF Contents
<1>5. i \in 1..Length(k.links, h)
  BY DEF Contents
<1>6. {Nth(k.links, h, j) : j \in 1..Length(k.links, h)}
      = {SleepNode(p) : p \in {r \in P : d[r] = h}}
  BY SleepersHold
<1> QED BY <1>4, <1>5, <1>6
\* A process that is in no queue is put at the end of one.
PutLast(k, p, q, m) ==
    /\ m.links = circular_list_insert(k.links, k.links.pre[QueueHead(q)], SchedNode(p))
    /\ m.sq = [k.sq EXCEPT ![p] = q]
    /\ m.count = [k.count EXCEPT ![q] = @ + 1]

LEMMA Enqueued ==
    ASSUME NEW k, NEW Q, NEW P, NEW d, Lined(k, Q, P, d),
           NEW p \in Proc, p \notin Q, NEW q \in Queues, NEW m \in Kernel, PutLast(k, p, q, m)
    PROVE  Lined(m, Q \union {p}, P, d)
<1> USE DEF PutLast
<1>1. PICK R : Rings(k.links, R) /\ QueueLists(k, R, Q) /\ SleepLists(R, P, d)
  BY DEF Lined
<1>2. /\ Q \subseteq Proc /\ P \subseteq Proc /\ d \in [Proc -> SleepHeads]
      /\ k.sq \in [Proc -> Queues] /\ k.count \in [Queues -> Int]
      /\ \A r \in Queues : k.count[r] = Cardinality(InQueue(k, Q, r))
  BY DEF Lined, Kernel
<1> DEFINE h == QueueHead(q)
           n == SchedNode(p)
           T == [R EXCEPT ![h] = Append(@, n)]
<1>3. h \in Heads /\ n \in Node \ Heads
  BY HeadFacts, NodeFacts
<1>4. \A g \in Heads : ~InSeq(n, R[g])
  BY <1>1 DEF QueueLists
<1>5. Rings(m.links, T)
  <2> DEFINE l == k.links
  <2>1. Rings(l, R) /\ m.links = circular_list_insert(l, l.pre[h], n)
    BY <1>1
  <2> HIDE DEF h, n, l
  <2>2. Rings(circular_list_insert(l, l.pre[h], n), [R EXCEPT ![h] = Append(@, n)])
    BY <1>3, <1>4, <2>1, RingsInsert
  <2> QED BY <2>1, <2>2
<1>6. /\ R \in [Heads -> Seq(Node \ Heads)] /\ Injective(R[h])
  BY <1>1, <1>3 DEF Rings
<1>7. \A x : InSeq(x, Append(R[h], n)) <=> InSeq(x, R[h]) \/ x = n
  <2> HIDE DEF h, n
  <2> QED BY <1>3, <1>4, <1>6, AppendMembers
<1>8. \A g \in Heads : \A x : InSeq(x, T[g]) <=> InSeq(x, R[g]) \/ (g = h /\ x = n)
  <2>1. \A g \in Heads : T[g] = IF g = h THEN Append(R[h], n) ELSE R[g]
    BY <1>6
  <2> HIDE DEF T, h, n
  <2> QED BY <1>7, <2>1
<1> HIDE DEF T
<1>9. QueueLists(m, T, Q \union {p})
  <2> SUFFICES ASSUME NEW r \in Proc, NEW g \in Heads
               PROVE  InSeq(SchedNode(r), T[g]) <=>
                         r \in Q \union {p} /\ g = QueueHead(m.sq[r])
    BY DEF QueueLists
  <2>1. m.sq[r] = IF r = p THEN q ELSE k.sq[r]
    BY <1>2
  <2>2. SchedNode(r) = n <=> r = p
    BY NodeFacts
  <2>3. InSeq(SchedNode(r), R[g]) <=> r \in Q /\ g = QueueHead(k.sq[r])
    BY <1>1 DEF QueueLists
  <2> QED BY <1>8, <2>1, <2>2, <2>3
<1>10. SleepLists(T, P, d)
  <2> SUFFICES ASSUME NEW r \in Proc, NEW g \in Heads
               PROVE  InSeq(SleepNode(r), T[g]) <=> r \in P /\ g = d[r]
    BY DEF SleepLists
  <2>1. SleepNode(r) # n
    BY NodeFacts
  <2> QED BY <1>1, <1>8, <2>1 DEF SleepLists
<1>11. ASSUME NEW r \in Queues
       PROVE  m.count[r] = Cardinality(InQueue(m, Q \union {p}, r))
  <2>1. m.count[r] = IF r = q THEN k.count[r] + 1 ELSE k.count[r]
    BY <1>2
  <2>2. IsFiniteSet(InQueue(k, Q, r)) /\ p \notin InQueue(k, Q, r)
    BY <1>2, RingAssumption, FS_Subset DEF InQueue
  <2>3. InQueue(m, Q \union {p}, r) = IF r = q THEN InQueue(k, Q, r) \union {p} ELSE InQueue(k, Q, r)
    BY <1>2 DEF InQueue
  <2>4. Cardinality(InQueue(k, Q, r) \union {p}) = Cardinality(InQueue(k, Q, r)) + 1
    BY <2>2, FS_AddElement
  <2> QED BY <1>2, <2>1, <2>3, <2>4
<1> QED BY <1>2, <1>5, <1>9, <1>10, <1>11 DEF Lined

\* A process is taken out of its queue.
TakenOut(k, p, m) ==
    /\ m.links = circular_list_remove(k.links, SchedNode(p))
    /\ m.sq = k.sq
    /\ m.count = [k.count EXCEPT ![k.sq[p]] = @ - 1]

LEMMA Dequeued ==
    ASSUME NEW k, NEW Q, NEW P, NEW d, Lined(k, Q, P, d), NEW p \in Q, NEW m \in Kernel,
           TakenOut(k, p, m)
    PROVE  Lined(m, Q \ {p}, P, d)
<1> USE DEF TakenOut
<1>1. PICK R : Rings(k.links, R) /\ QueueLists(k, R, Q) /\ SleepLists(R, P, d)
  BY DEF Lined
<1>2. /\ Q \subseteq Proc /\ P \subseteq Proc /\ d \in [Proc -> SleepHeads]
      /\ k.sq \in [Proc -> Queues] /\ k.count \in [Queues -> Int]
      /\ \A r \in Queues : k.count[r] = Cardinality(InQueue(k, Q, r))
      /\ p \in Proc /\ k.sq[p] \in Queues
  BY DEF Lined, Kernel
<1> DEFINE h == QueueHead(k.sq[p])
           n == SchedNode(p)
           T == [R EXCEPT ![h] = Unlink(@, n)]
<1>3. h \in Heads /\ InSeq(n, R[h])
  BY <1>1, <1>2, HeadFacts DEF QueueLists
<1>4. Rings(m.links, T)
  <2> HIDE DEF h, n
  <2> QED BY <1>1, <1>3, RingsRemove DEF n
<1>5. /\ R \in [Heads -> Seq(Node \ Heads)] /\ Injective(R[h])
  BY <1>1, <1>3 DEF Rings
<1>6. \A x : InSeq(x, Unlink(R[h], n)) <=> InSeq(x, R[h]) /\ x # n
  <2> HIDE DEF h, n
  <2> QED BY <1>3, <1>5, UnlinkMembers
<1>7. \A g \in Heads : \A x : InSeq(x, T[g]) <=> InSeq(x, R[g]) /\ ~(g = h /\ x = n)
  <2>1. \A g \in Heads : T[g] = IF g = h THEN Unlink(R[h], n) ELSE R[g]
    BY <1>5
  <2> HIDE DEF T, h, n
  <2> QED BY <1>6, <2>1
<1> HIDE DEF T
<1>8. QueueLists(m, T, Q \ {p})
  <2> SUFFICES ASSUME NEW r \in Proc, NEW g \in Heads
               PROVE  InSeq(SchedNode(r), T[g]) <=> r \in Q \ {p} /\ g = QueueHead(k.sq[r])
    BY DEF QueueLists
  <2>1. SchedNode(r) = n <=> r = p
    BY <1>2, NodeFacts
  <2>2. InSeq(SchedNode(r), R[g]) <=> r \in Q /\ g = QueueHead(k.sq[r])
    BY <1>1 DEF QueueLists
  <2> QED BY <1>7, <2>1, <2>2
<1>9. SleepLists(T, P, d)
  <2> SUFFICES ASSUME NEW r \in Proc, NEW g \in Heads
               PROVE  InSeq(SleepNode(r), T[g]) <=> r \in P /\ g = d[r]
    BY DEF SleepLists
  <2>1. SleepNode(r) # n
    BY <1>2, NodeFacts
  <2> QED BY <1>1, <1>7, <2>1 DEF SleepLists
<1>10. ASSUME NEW r \in Queues
       PROVE  m.count[r] = Cardinality(InQueue(m, Q \ {p}, r))
  <2>1. m.count[r] = IF r = k.sq[p] THEN k.count[r] - 1 ELSE k.count[r]
    BY <1>2
  <2>2. IsFiniteSet(InQueue(k, Q, r)) /\ (p \in InQueue(k, Q, r) <=> r = k.sq[p])
    BY <1>2, RingAssumption, FS_Subset DEF InQueue
  <2>3. InQueue(m, Q \ {p}, r) = InQueue(k, Q, r) \ {p}
    BY <1>2 DEF InQueue
  <2>4. Cardinality(InQueue(k, Q, r) \ {p}) =
           IF r = k.sq[p] THEN Cardinality(InQueue(k, Q, r)) - 1 ELSE Cardinality(InQueue(k, Q, r))
    BY <2>2, FS_RemoveElement
  <2> QED BY <1>2, <2>1, <2>3, <2>4
<1> QED BY <1>2, <1>4, <1>8, <1>9, <1>10 DEF Lined

\* A process joins the sleepers of a head, and leaves them.
LEMMA Parks ==
    ASSUME NEW k, NEW Q, NEW P, NEW d, Lined(k, Q, P, d),
           NEW p \in Proc, p \notin P, NEW m \in Kernel,
           m.links = circular_list_insert(k.links, d[p], SleepNode(p)),
           m.sq = k.sq, m.count = k.count
    PROVE  Lined(m, Q, P \union {p}, d)
<1>1. PICK R : Rings(k.links, R) /\ QueueLists(k, R, Q) /\ SleepLists(R, P, d)
  BY DEF Lined
<1>2. /\ Q \subseteq Proc /\ P \subseteq Proc /\ d \in [Proc -> SleepHeads]
      /\ k.sq \in [Proc -> Queues]
      /\ \A r \in Queues : k.count[r] = Cardinality(InQueue(k, Q, r))
  BY DEF Lined, Kernel
<1> DEFINE h == d[p]
           n == SleepNode(p)
           T == [R EXCEPT ![h] = Insert(@, n)]
<1>3. h \in Heads /\ n \in Node \ Heads
  BY <1>2, HeadFacts, NodeFacts DEF SleepHeads
<1>4. \A g \in Heads : ~InSeq(n, R[g])
  BY <1>1 DEF SleepLists
<1>5. Rings(m.links, T)
  <2> DEFINE l == k.links
  <2>1. Rings(l, R) /\ m.links = circular_list_insert(l, h, n)
    BY <1>1
  <2> HIDE DEF h, n, l
  <2>2. Rings(circular_list_insert(l, h, n), [R EXCEPT ![h] = Insert(@, n)])
    BY <1>3, <1>4, <2>1, RingsInsert
  <2> QED BY <2>1, <2>2
<1>6. /\ R \in [Heads -> Seq(Node \ Heads)] /\ Injective(R[h])
  BY <1>1, <1>3 DEF Rings
<1>7. \A x : InSeq(x, Insert(R[h], n)) <=> InSeq(x, R[h]) \/ x = n
  <2> HIDE DEF h, n
  <2> QED BY <1>3, <1>4, <1>6, InsertMembers
<1>8. \A g \in Heads : \A x : InSeq(x, T[g]) <=> InSeq(x, R[g]) \/ (g = h /\ x = n)
  <2>1. \A g \in Heads : T[g] = IF g = h THEN Insert(R[h], n) ELSE R[g]
    BY <1>6
  <2> HIDE DEF T, h, n
  <2> QED BY <1>7, <2>1
<1> HIDE DEF T
<1>9. QueueLists(m, T, Q)
  <2> SUFFICES ASSUME NEW r \in Proc, NEW g \in Heads
               PROVE  InSeq(SchedNode(r), T[g]) <=> r \in Q /\ g = QueueHead(k.sq[r])
    BY DEF QueueLists
  <2>1. SchedNode(r) # n
    BY NodeFacts
  <2> QED BY <1>1, <1>8, <2>1 DEF QueueLists
<1>10. SleepLists(T, P \union {p}, d)
  <2> SUFFICES ASSUME NEW r \in Proc, NEW g \in Heads
               PROVE  InSeq(SleepNode(r), T[g]) <=> r \in P \union {p} /\ g = d[r]
    BY DEF SleepLists
  <2>1. SleepNode(r) = n <=> r = p
    BY NodeFacts
  <2>2. InSeq(SleepNode(r), R[g]) <=> r \in P /\ g = d[r]
    BY <1>1 DEF SleepLists
  <2> QED BY <1>8, <2>1, <2>2
<1>11. \A r \in Queues : InQueue(m, Q, r) = InQueue(k, Q, r)
  BY DEF InQueue
<1> QED BY <1>2, <1>5, <1>9, <1>10, <1>11 DEF Lined

LEMMA Unparks ==
    ASSUME NEW k, NEW Q, NEW P, NEW d, Lined(k, Q, P, d), NEW p \in P, NEW m \in Kernel,
           m.links = circular_list_remove(k.links, SleepNode(p)),
           m.sq = k.sq, m.count = k.count
    PROVE  Lined(m, Q, P \ {p}, d)
<1>1. PICK R : Rings(k.links, R) /\ QueueLists(k, R, Q) /\ SleepLists(R, P, d)
  BY DEF Lined
<1>2. /\ Q \subseteq Proc /\ P \subseteq Proc /\ d \in [Proc -> SleepHeads]
      /\ k.sq \in [Proc -> Queues] /\ p \in Proc
      /\ \A r \in Queues : k.count[r] = Cardinality(InQueue(k, Q, r))
  BY DEF Lined, Kernel
<1> DEFINE h == d[p]
           n == SleepNode(p)
           T == [R EXCEPT ![h] = Unlink(@, n)]
<1>3. h \in Heads /\ InSeq(n, R[h])
  <2>1. h \in Heads
    BY <1>2, HeadFacts DEF SleepHeads
  <2> QED BY <1>1, <1>2, <2>1 DEF SleepLists
<1>4. Rings(m.links, T)
  <2> HIDE DEF h, n
  <2> QED BY <1>1, <1>3, RingsRemove DEF n
<1>5. /\ R \in [Heads -> Seq(Node \ Heads)] /\ Injective(R[h])
  BY <1>1, <1>3 DEF Rings
<1>6. \A x : InSeq(x, Unlink(R[h], n)) <=> InSeq(x, R[h]) /\ x # n
  <2> HIDE DEF h, n
  <2> QED BY <1>3, <1>5, UnlinkMembers
<1>7. \A g \in Heads : \A x : InSeq(x, T[g]) <=> InSeq(x, R[g]) /\ ~(g = h /\ x = n)
  <2>1. \A g \in Heads : T[g] = IF g = h THEN Unlink(R[h], n) ELSE R[g]
    BY <1>5
  <2> HIDE DEF T, h, n
  <2> QED BY <1>6, <2>1
<1> HIDE DEF T
<1>8. QueueLists(m, T, Q)
  <2> SUFFICES ASSUME NEW r \in Proc, NEW g \in Heads
               PROVE  InSeq(SchedNode(r), T[g]) <=> r \in Q /\ g = QueueHead(k.sq[r])
    BY DEF QueueLists
  <2>1. SchedNode(r) # n
    BY <1>2, NodeFacts
  <2> QED BY <1>1, <1>7, <2>1 DEF QueueLists
<1>9. SleepLists(T, P \ {p}, d)
  <2> SUFFICES ASSUME NEW r \in Proc, NEW g \in Heads
               PROVE  InSeq(SleepNode(r), T[g]) <=> r \in P \ {p} /\ g = d[r]
    BY DEF SleepLists
  <2>1. SleepNode(r) = n <=> r = p
    BY <1>2, NodeFacts
  <2>2. InSeq(SleepNode(r), R[g]) <=> r \in P /\ g = d[r]
    BY <1>1 DEF SleepLists
  <2> QED BY <1>7, <2>1, <2>2
<1>10. \A r \in Queues : InQueue(m, Q, r) = InQueue(k, Q, r)
  BY DEF InQueue
<1> QED BY <1>2, <1>4, <1>8, <1>9, <1>10 DEF Lined

\* What a ring reads does not depend on nodes that are in none, nor on the heads
\* of processes that do not sleep, nor on the queue of one that is in none.
LEMMA LinedKept ==
    ASSUME NEW k, NEW Q, NEW P, NEW d, Lined(k, Q, P, d), NEW m \in Kernel,
           NEW e \in [Proc -> SleepHeads], \A p \in P : e[p] = d[p],
           \A p \in Q : m.sq[p] = k.sq[p], m.count = k.count,
           \A n \in Heads : m.links.next[n] = k.links.next[n] /\ m.links.pre[n] = k.links.pre[n],
           \A p \in Q : /\ m.links.next[SchedNode(p)] = k.links.next[SchedNode(p)]
                        /\ m.links.pre[SchedNode(p)] = k.links.pre[SchedNode(p)],
           \A p \in P : /\ m.links.next[SleepNode(p)] = k.links.next[SleepNode(p)]
                        /\ m.links.pre[SleepNode(p)] = k.links.pre[SleepNode(p)]
    PROVE  Lined(m, Q, P, e)
<1>1. PICK R : Rings(k.links, R) /\ QueueLists(k, R, Q) /\ SleepLists(R, P, d)
  BY DEF Lined
<1>2. /\ Q \subseteq Proc /\ P \subseteq Proc /\ m.links \in Links
      /\ \A q \in Queues : k.count[q] = Cardinality(InQueue(k, Q, q))
  BY DEF Lined, Kernel
<1>3. ASSUME NEW n \in Node, n \in Heads \/ (\E h \in Heads : InSeq(n, R[h]))
      PROVE  m.links.next[n] = k.links.next[n] /\ m.links.pre[n] = k.links.pre[n]
  <2>1. CASE n \notin Heads
    <3>1. PICK h \in Heads : InSeq(n, R[h])
      BY <1>3, <2>1
    <3>2. PICK p \in Proc : n = SchedNode(p) \/ n = SleepNode(p)
      BY <2>1, NodeFacts
    <3>3. CASE n = SchedNode(p)
      BY <1>1, <3>1, <3>3 DEF QueueLists
    <3>4. CASE n = SleepNode(p)
      BY <1>1, <3>1, <3>4 DEF SleepLists
    <3> QED BY <3>2, <3>3, <3>4
  <2> QED BY <2>1
<1>4. Rings(m.links, R)
  BY <1>1, <1>2, <1>3, RingsKept
<1>5. QueueLists(m, R, Q) /\ SleepLists(R, P, e)
  BY <1>1 DEF QueueLists, SleepLists
<1>6. \A q \in Queues : InQueue(m, Q, q) = InQueue(k, Q, q)
  BY DEF InQueue
<1> QED BY <1>2, <1>4, <1>5, <1>6 DEF Lined
-----------------------------------------------------------------------------
(***************************************************************************)
(* The routines of sched.c.                                                *)
(***************************************************************************)
Sound(k, Q, P, d) ==
    /\ Lined(k, Q, P, d)
    /\ ~k.panic
    /\ \A p \in Q : k.state[p] = "RUNNING" /\ k.rest[p] > 0
    /\ \A p \in P : k.state[p] = "WAITING"

LEMMA ExpireFacts ==
    ASSUME NEW k, k.active \in Queues
    PROVE  /\ Expire(k) \in Queues /\ Expire(k) # k.active
           /\ \A q \in Queues : q = k.active \/ q = Expire(k)
BY DEF Expire, Queues

LEMMA InsertTailLinks ==
    ASSUME NEW k, NEW Q, NEW P, NEW d, Lined(k, Q, P, d), NEW h \in Heads, NEW n \in Node
    PROVE  circular_list_insert(k.links, k.links.pre[h], n) \in Links
BY LinedLinks, LinksKept

\* What else in_sched_queue does to the record of the scheduler.
Readied(k, p, m) ==
    /\ m.cur = k.cur /\ m.active = k.active
    /\ m.jiffies = k.jiffies /\ m.wakeup = k.wakeup
    /\ m.state = [k.state EXCEPT ![p] = "RUNNING"]
    /\ m.rest = [k.rest EXCEPT ![p] = IF @ > 0 THEN @ ELSE Nice + 1]
    /\ \A r \in Proc \ {p} : m.sq[r] = k.sq[r]
    /\ k.rest[p] > 0 => m.sq[p] = k.active

LEMMA InSched ==
    ASSUME NEW k, NEW Q, NEW P, NEW d, Sound(k, Q, P, d),
           NEW p \in Proc, p \notin Q, p \notin P
    PROVE  LET m == in_sched_queue(k, p)
           IN  Sound(m, Q \union {p}, P, d) /\ Readied(k, p, m)
<1> DEFINE q == IF k.rest[p] > 0 THEN k.active ELSE Expire(k)
           m == in_sched_queue(k, p)
<1>1. /\ Lined(k, Q, P, d) /\ k \in Kernel /\ Nice \in Nat
      /\ k.rest \in [Proc -> Nat] /\ k.state \in [Proc -> States]
      /\ k.sq \in [Proc -> Queues] /\ k.count \in [Queues -> Int] /\ k.active \in Queues
  BY RingAssumption DEF Sound, Lined, Kernel
<1>2. q \in Queues /\ QueueHead(q) \in Heads /\ SchedNode(p) \in Node
  BY <1>1, ExpireFacts, HeadFacts, NodeFacts
<1>3. circular_list_insert(k.links, k.links.pre[QueueHead(q)], SchedNode(p)) \in Links
  <2> HIDE DEF q
  <2> QED BY <1>1, <1>2, InsertTailLinks
<1>4. m = [k EXCEPT !.sq[p] = q, !.count[q] = @ + 1, !.state[p] = "RUNNING",
                    !.rest[p] = IF @ > 0 THEN @ ELSE Nice + 1,
                    !.links = circular_list_insert(@, @.pre[QueueHead(q)], SchedNode(p))]
  BY <1>1 DEF in_sched_queue, InsertTail, Kernel
<1> HIDE DEF q, m
<1>5. /\ m.links = circular_list_insert(k.links, k.links.pre[QueueHead(q)], SchedNode(p))
      /\ m.sq = [k.sq EXCEPT ![p] = q]
      /\ m.count = [k.count EXCEPT ![q] = @ + 1]
      /\ m.state = [k.state EXCEPT ![p] = "RUNNING"]
      /\ m.rest = [k.rest EXCEPT ![p] = IF @ > 0 THEN @ ELSE Nice + 1]
      /\ m.cur = k.cur /\ m.active = k.active /\ m.panic = k.panic
      /\ m.jiffies = k.jiffies /\ m.wakeup = k.wakeup
      /\ m = [cur |-> k.cur, active |-> k.active, count |-> m.count, sq |-> m.sq,
              state |-> m.state, rest |-> m.rest, jiffies |-> k.jiffies,
              wakeup |-> k.wakeup, links |-> m.links, panic |-> k.panic]
  BY <1>1, <1>4 DEF Kernel
<1>6. /\ m.sq \in [Proc -> Queues] /\ m.count \in [Queues -> Int]
      /\ m.state \in [Proc -> States] /\ m.rest \in [Proc -> Nat]
  BY <1>1, <1>2, <1>5 DEF States
<1>7. m \in Kernel
  BY <1>1, <1>3, <1>5, <1>6 DEF Kernel
<1>8. Lined(m, Q \union {p}, P, d)
  <2>1. PutLast(k, p, q, m)
    BY <1>5 DEF PutLast
  <2> QED BY <1>1, <1>2, <1>7, <2>1, Enqueued
<1>9. Sound(m, Q \union {p}, P, d)
  <2>1. \A r \in Proc : /\ m.state[r] = IF r = p THEN "RUNNING" ELSE k.state[r]
                        /\ m.rest[r] = IF r # p \/ k.rest[r] > 0 THEN k.rest[r] ELSE Nice + 1
    BY <1>1, <1>5
  <2>2. m.panic = FALSE /\ Q \subseteq Proc /\ P \subseteq Proc
    BY <1>1, <1>5 DEF Sound, Lined, Kernel
  <2>3. \A r \in Q \union {p} : m.state[r] = "RUNNING" /\ m.rest[r] > 0
    BY <1>1, <2>1, <2>2 DEF Sound
  <2>4. \A r \in P : m.state[r] = "WAITING"
    BY <2>1, <2>2 DEF Sound
  <2> QED BY <1>8, <2>2, <2>3, <2>4 DEF Sound
<1>10. Readied(k, p, m)
  BY <1>1, <1>2, <1>5 DEF Readied, q
<1> QED BY <1>9, <1>10 DEF m

LEMMA OutSched ==
    ASSUME NEW k, NEW Q, NEW P, NEW d, Sound(k, Q, P, d), NEW p \in Q
    PROVE  LET m == out_sched_queue(k, p)
           IN  /\ Sound(m, Q \ {p}, P, d)
               /\ m.cur = k.cur /\ m.active = k.active /\ m.sq = k.sq
               /\ m.jiffies = k.jiffies /\ m.wakeup = k.wakeup
               /\ m.state = k.state /\ m.rest = k.rest
<1> DEFINE m == out_sched_queue(k, p)
<1>1. /\ Lined(k, Q, P, d) /\ k \in Kernel /\ p \in Proc
      /\ k.sq \in [Proc -> Queues] /\ k.count \in [Queues -> Int]
      /\ k.state[p] = "RUNNING" /\ k.panic = FALSE /\ k.links \in Links
  BY DEF Sound, Lined, Kernel
<1>2. circular_list_remove(k.links, SchedNode(p)) \in Links
  BY <1>1, NodeFacts, LinksKept
<1> DEFINE l == circular_list_remove(k.links, SchedNode(p))
<1>8. m = [k EXCEPT !.links = l, !.count[k.sq[p]] = @ - 1]
  <2>1. kassert(k, k.state[p] = "RUNNING") = k
    BY <1>1 DEF kassert, Kernel
  <2> QED BY <2>1 DEF out_sched_queue
<1> HIDE DEF m, l
<1>3. /\ m.links = l
      /\ m.count = [k.count EXCEPT ![k.sq[p]] = @ - 1]
      /\ m.sq = k.sq /\ m.state = k.state /\ m.rest = k.rest
      /\ m.cur = k.cur /\ m.active = k.active /\ m.panic = FALSE
      /\ m.jiffies = k.jiffies /\ m.wakeup = k.wakeup
      /\ m = [cur |-> k.cur, active |-> k.active, count |-> m.count, sq |-> k.sq,
              state |-> k.state, rest |-> k.rest, jiffies |-> k.jiffies,
              wakeup |-> k.wakeup, links |-> m.links, panic |-> FALSE]
  BY <1>1, <1>8 DEF Kernel
<1>4. m.count \in [Queues -> Int]
  BY <1>1, <1>3
<1>5. m \in Kernel
  BY <1>1, <1>2, <1>3, <1>4 DEF Kernel, l
<1>6. Lined(m, Q \ {p}, P, d)
  <2>1. TakenOut(k, p, m)
    BY <1>3 DEF TakenOut, l
  <2> QED BY <1>1, <1>5, <2>1, Dequeued
<1>7. Sound(m, Q \ {p}, P, d)
  BY <1>3, <1>6 DEF Sound
<1> QED BY <1>3, <1>7 DEF m

\* The node of a running process moves to the end of a queue.
LEMMA Requeued ==
    ASSUME NEW k, NEW Q, NEW P, NEW d, Lined(k, Q, P, d), NEW p \in Q, NEW q \in Queues,
           NEW m \in Kernel,
           m.links = LET l == circular_list_remove(k.links, SchedNode(p))
                     IN  circular_list_insert(l, l.pre[QueueHead(q)], SchedNode(p)),
           m.sq = [k.sq EXCEPT ![p] = q],
           \A r \in Queues :
              m.count[r] = k.count[r] + (IF r = q THEN 1 ELSE 0)
                                      - (IF r = k.sq[p] THEN 1 ELSE 0)
    PROVE  Lined(m, Q, P, d)
<1> DEFINE l == circular_list_remove(k.links, SchedNode(p))
           c == [k.count EXCEPT ![k.sq[p]] = @ - 1]
           o == [k EXCEPT !.links = l, !.count = c]
<1>1. /\ k \in Kernel /\ p \in Proc /\ k.sq \in [Proc -> Queues] /\ k.count \in [Queues -> Int]
      /\ k.links \in Links /\ Q \subseteq Proc /\ m.count \in [Queues -> Int] /\ k.sq[p] \in Queues
  BY DEF Lined, Kernel
<1>2. l \in Links
  BY <1>1, NodeFacts, LinksKept
<1>9. c \in [Queues -> Int]
  BY <1>1
<1> HIDE DEF l, c
<1>3. o.links = l /\ o.sq = k.sq /\ o.count = c /\ o \in Kernel
  BY <1>1, <1>2, <1>9 DEF Kernel
<1> HIDE DEF o
<1>4. Lined(o, Q \ {p}, P, d)
  <2>1. TakenOut(k, p, o)
    BY <1>3 DEF l, c, TakenOut
  <2> QED BY <1>3, <2>1, Dequeued
<1>5. m.links = circular_list_insert(o.links, o.links.pre[QueueHead(q)], SchedNode(p))
  BY <1>3 DEF l
<1>6. m.count = [o.count EXCEPT ![q] = @ + 1]
  <2>1. \A r \in Queues : m.count[r] = [o.count EXCEPT ![q] = @ + 1][r]
    <3> SUFFICES ASSUME NEW r \in Queues
                 PROVE  m.count[r] = [o.count EXCEPT ![q] = @ + 1][r]
      OBVIOUS
    <3>1. /\ k.count[r] \in Int /\ o.count \in [Queues -> Int]
          /\ o.count[r] = IF r = k.sq[p] THEN k.count[r] - 1 ELSE k.count[r]
      BY <1>1, <1>3, <1>9 DEF c
    <3>2. [o.count EXCEPT ![q] = @ + 1][r] = IF r = q THEN o.count[r] + 1 ELSE o.count[r]
      BY <3>1
    <3>3. m.count[r] = k.count[r] + (IF r = q THEN 1 ELSE 0)
                                  - (IF r = k.sq[p] THEN 1 ELSE 0)
      OBVIOUS
    <3> QED BY <3>1, <3>2, <3>3
  <2>2. [o.count EXCEPT ![q] = @ + 1] \in [Queues -> Int]
    BY <1>3, <1>9
  <2> QED BY <1>1, <2>1, <2>2
<1>7. Lined(m, (Q \ {p}) \union {p}, P, d)
  <2>1. PutLast(o, p, q, m)
    BY <1>3, <1>5, <1>6 DEF PutLast
  <2> QED BY <1>1, <1>4, <2>1, Enqueued
<1>8. (Q \ {p}) \union {p} = Q
  OBVIOUS
<1> QED BY <1>7, <1>8

LEMMA FirstOfQueue ==
    ASSUME NEW k, NEW Q, NEW P, NEW d, Lined(k, Q, P, d), NEW q \in Queues,
           InQueue(k, Q, q) # {}
    PROVE  \E p \in InQueue(k, Q, q) : k.links.next[QueueHead(q)] = SchedNode(p)
<1> DEFINE h == QueueHead(q)
<1>1. PICK R : Rings(k.links, R) /\ QueueLists(k, R, Q) /\ SleepLists(R, P, d)
  BY DEF Lined
<1>2. /\ h \in Heads /\ Q \subseteq Proc /\ P \subseteq Proc /\ d \in [Proc -> SleepHeads]
      /\ h \notin SleepHeads /\ k.sq \in [Proc -> Queues]
  BY HeadFacts DEF Lined, SleepHeads, Kernel
<1>3. PICK r \in InQueue(k, Q, q) : InSeq(SchedNode(r), R[h])
  BY <1>1, <1>2 DEF QueueLists, InQueue
<1>4. Ring(k.links, h, R[h]) /\ DOMAIN R[h] = 1..Len(R[h]) /\ Len(R[h]) \in Nat
  BY <1>1, <1>2, RingsAreRings
<1>5. 1 \in DOMAIN R[h] /\ 0 \notin DOMAIN R[h] /\ 0 \in 0..Len(R[h]) /\ 0 + 1 = 1
  BY <1>3, <1>4 DEF InSeq
<1>6. k.links.next[h] = R[h][1] /\ InSeq(R[h][1], R[h])
  <2>1. k.links.next[At(h, R[h], 0)] = At(h, R[h], 0 + 1)
    BY <1>4, <1>5 DEF Ring, Reads
  <2> QED BY <1>5, <2>1 DEF At, InSeq
<1>7. R[h][1] \in Node \ Heads
  BY <1>1, <1>2, <1>6, RingsAreRings
<1>8. PICK p \in Proc : R[h][1] = SchedNode(p) \/ R[h][1] = SleepNode(p)
  BY <1>7, NodeFacts
<1>9. R[h][1] # SleepNode(p)
  BY <1>1, <1>2, <1>6 DEF SleepLists
<1>10. p \in Q /\ k.sq[p] = q
  BY <1>1, <1>2, <1>6, <1>8, <1>9, HeadFacts DEF QueueLists
<1> QED BY <1>6, <1>8, <1>9, <1>10 DEF InQueue

\* What schedule takes for granted of the running process: its node is in the
\* active queue, or it does not run any more.
InActive(k, Q) ==
    IF k.cur \in Q THEN k.sq[k.cur] = k.active ELSE k.state[k.cur] # "RUNNING"

\* The parts of schedule: the quantum of the running process is charged, and the
\* process, if it still runs, goes to the end of a queue, with a quantum.
LEMMA ChargeRequeue ==
    ASSUME NEW k, NEW Q, NEW P, NEW d, Sound(k, Q, P, d),
           InActive(k, Q)
    PROVE  LET m == RequeueCurrent(Charge(k))
           IN  /\ Sound(m, Q, P, d)
               /\ m.active = k.active /\ m.state = k.state
               /\ m.jiffies = k.jiffies /\ m.wakeup = k.wakeup
               /\ \A p \in Proc \ {k.cur} : m.rest[p] = k.rest[p] /\ m.sq[p] = k.sq[p]
<1> DEFINE u == (k.rest[k.cur] + REST_MOD - 1) % REST_MOD
           c == Charge(k)
           m == RequeueCurrent(c)
           p == k.cur
           n == SchedNode(p)
           l == circular_list_remove(k.links, n)
           t(q) == circular_list_insert(l, l.pre[QueueHead(q)], n)
<1>1. /\ Lined(k, Q, P, d) /\ k \in Kernel /\ Nice \in Nat /\ p \in Proc /\ k.panic = FALSE
      /\ k.rest \in [Proc -> Nat] /\ k.state \in [Proc -> States] /\ k.links \in Links
      /\ k.sq \in [Proc -> Queues] /\ k.count \in [Queues -> Int] /\ k.active \in Queues
      /\ Q \subseteq Proc /\ P \subseteq Proc /\ d \in [Proc -> SleepHeads]
  BY RingAssumption DEF Sound, Lined, Kernel
<1>2. u \in Nat
  <2> DEFINE r == k.rest[k.cur]
  <2>1. r \in Nat /\ REST_MOD \in Nat /\ REST_MOD > 0
    BY <1>1, RingAssumption
  <2> HIDE DEF r
  <2>2. r + REST_MOD - 1 \in Int /\ (r + REST_MOD - 1) % REST_MOD \in 0..(REST_MOD - 1)
    BY <2>1
  <2> QED BY <2>1, <2>2 DEF r
<1>3. c = [k EXCEPT !.rest[p] = u]
  BY DEF Charge
<1> HIDE DEF u, c
<1>4. /\ c.rest = [k.rest EXCEPT ![p] = u] /\ c.rest \in [Proc -> Nat] /\ c.rest[p] = u
      /\ c.cur = p /\ c.active = k.active /\ c.count = k.count /\ c.sq = k.sq
      /\ c.state = k.state /\ c.jiffies = k.jiffies /\ c.wakeup = k.wakeup
      /\ c.links = k.links /\ c.panic = k.panic /\ c \in Kernel
  BY <1>1, <1>2, <1>3 DEF Kernel
<1>5. Lined(c, Q, P, d)
  BY <1>1, <1>4, LinedKept
<1>6. CASE p \notin Q
  <2>1. m = c
    BY <1>4, <1>6 DEF RequeueCurrent, InActive
  <2>2. \A r \in Proc \ {p} : c.rest[r] = k.rest[r]
    BY <1>1, <1>4
  <2>3. \A r \in Q : r # p /\ c.rest[r] > 0
    BY <1>1, <1>6, <2>2 DEF Sound
  <2>4. Sound(c, Q, P, d)
    BY <1>1, <1>4, <1>5, <2>3 DEF Sound
  <2> QED BY <1>4, <2>1, <2>2, <2>4 DEF m, c
<1>7. CASE p \in Q
  <2>1. k.state[p] = "RUNNING" /\ k.sq[p] = k.active /\ Expire(c) = Expire(k)
    BY <1>4, <1>7 DEF Sound, Expire, InActive
  <2> DEFINE x == Expire(k)
             Count == [q \in Queues |-> IF q = k.active THEN k.count[q] - 1 ELSE k.count[q] + 1]
  <2>2. x \in Queues /\ x # k.active /\ \A q \in Queues : q = k.active \/ q = x
    BY <1>1, ExpireFacts
  <2>3. n \in Node /\ l \in Links
    BY <1>1, NodeFacts, LinksKept
  <2>4. m = IF u = 0
            THEN [c EXCEPT !.rest[p] = Nice + 1, !.sq[p] = x, !.count = Count, !.links = t(x)]
            ELSE [c EXCEPT !.links = t(k.active)]
    <3> DEFINE o == [c EXCEPT !.links = l]
    <3>1. o = [c EXCEPT !.links = circular_list_remove(@, SchedNode(c.cur))]
      BY <1>4
    <3>2. o.count = k.count /\ o.links = l /\ o \in Kernel
      BY <1>4, <2>3 DEF Kernel
    <3>3. m = IF u = 0
              THEN InsertTail([o EXCEPT !.rest[p] = Nice + 1, !.sq[p] = x,
                                        !.count = [q \in Queues |-> IF q = k.active
                                                                    THEN @[q] - 1 ELSE @[q] + 1]],
                              QueueHead(x), SchedNode(p))
              ELSE InsertTail(o, QueueHead(k.active), SchedNode(p))
      <4> HIDE DEF o, l
      <4>1. c.state[c.cur] = "RUNNING"
        BY <1>4, <2>1
      <4> QED BY <1>4, <2>1, <3>1, <4>1 DEF RequeueCurrent
    <3>4. InsertTail(o, QueueHead(k.active), SchedNode(p)) = [c EXCEPT !.links = t(k.active)]
      <4> HIDE DEF l
      <4> QED BY <1>4 DEF InsertTail, Kernel
    <3>5. InsertTail([o EXCEPT !.rest[p] = Nice + 1, !.sq[p] = x, !.count = Count],
                     QueueHead(x), SchedNode(p))
          = [c EXCEPT !.rest[p] = Nice + 1, !.sq[p] = x, !.count = Count, !.links = t(x)]
      <4> HIDE DEF l, Count, x
      <4> QED BY <1>4 DEF InsertTail, Kernel
    <3>6. Count = [q \in Queues |-> IF q = k.active THEN o.count[q] - 1 ELSE o.count[q] + 1]
      BY <3>2
    <3> HIDE DEF o, t
    <3> QED BY <3>3, <3>4, <3>5, <3>6
  <2>5. \A q \in Queues : t(q) \in Links
    <3> SUFFICES ASSUME NEW q \in Queues PROVE t(q) \in Links
      OBVIOUS
    <3> DEFINE o == [k EXCEPT !.links = l, !.count = [k.count EXCEPT ![k.sq[p]] = @ - 1]]
    <3>1. [k.count EXCEPT ![k.sq[p]] = @ - 1] \in [Queues -> Int]
      BY <1>1, <2>1
    <3>2. /\ o.links = l /\ o.sq = k.sq /\ o.count = [k.count EXCEPT ![k.sq[p]] = @ - 1]
          /\ o \in Kernel
      <4> HIDE DEF l
      <4> QED BY <1>1, <2>3, <3>1 DEF Kernel
    <3> HIDE DEF o
    <3>3. Lined(o, Q \ {p}, P, d)
      <4>1. TakenOut(k, p, o)
        BY <3>2 DEF TakenOut
      <4> QED BY <1>1, <1>7, <3>2, <4>1, Dequeued
    <3>4. circular_list_insert(o.links, o.links.pre[QueueHead(q)], n) \in Links
      BY <2>3, <3>3, HeadFacts, InsertTailLinks
    <3> QED BY <3>2, <3>4
  <2> HIDE DEF m
  <2>6. CASE u = 0
    <3>1. Count \in [Queues -> Int]
      BY <1>1
    <3> HIDE DEF Count, x, t
    <3>2. /\ m.rest = [c.rest EXCEPT ![p] = Nice + 1] /\ m.sq = [k.sq EXCEPT ![p] = x]
          /\ m.count = Count /\ m.links = t(x)
          /\ m.cur = p /\ m.active = k.active /\ m.state = k.state /\ m.panic = FALSE
          /\ m.jiffies = k.jiffies /\ m.wakeup = k.wakeup
      BY <1>1, <1>4, <2>4, <2>6 DEF Kernel
    <3>3. m.rest \in [Proc -> Nat] /\ m.sq \in [Proc -> Queues]
      BY <1>1, <1>4, <2>2, <3>2
    <3>4. m \in Kernel
      BY <1>1, <1>4, <2>2, <2>4, <2>5, <2>6, <3>1, <3>3 DEF Kernel
    <3>5. \A r \in Queues : m.count[r] = c.count[r] + (IF r = x THEN 1 ELSE 0)
                                                   - (IF r = c.sq[p] THEN 1 ELSE 0)
      BY <1>1, <1>4, <2>1, <2>2, <3>2 DEF Count
    <3>6. Lined(m, Q, P, d)
      <4>1. m.links = LET ll == circular_list_remove(c.links, SchedNode(p))
                      IN  circular_list_insert(ll, ll.pre[QueueHead(x)], SchedNode(p))
        BY <1>4, <3>2 DEF t
      <4> QED BY <1>4, <1>5, <1>7, <2>2, <3>2, <3>4, <3>5, <4>1, Requeued
    <3>7. \A r \in Proc : /\ m.rest[r] = IF r = p THEN Nice + 1 ELSE k.rest[r]
                          /\ r # p => m.sq[r] = k.sq[r]
      BY <1>1, <1>4, <3>2
    <3>8. Sound(m, Q, P, d)
      BY <1>1, <3>2, <3>6, <3>7 DEF Sound
    <3> QED BY <3>2, <3>7, <3>8 DEF m, c
  <2>7. CASE u # 0
    <3> HIDE DEF t
    <3>2. /\ m.rest = c.rest /\ m.sq = k.sq /\ m.count = k.count /\ m.links = t(k.active)
          /\ m.cur = p /\ m.active = k.active /\ m.state = k.state /\ m.panic = FALSE
          /\ m.jiffies = k.jiffies /\ m.wakeup = k.wakeup
      BY <1>1, <1>4, <2>4, <2>7 DEF Kernel
    <3>4. m \in Kernel
      BY <1>1, <1>4, <2>4, <2>5, <2>7 DEF Kernel
    <3>5. /\ \A r \in Queues : m.count[r] = c.count[r] + (IF r = k.active THEN 1 ELSE 0)
                                                      - (IF r = c.sq[p] THEN 1 ELSE 0)
          /\ m.sq = [c.sq EXCEPT ![p] = k.active]
      BY <1>1, <1>4, <2>1, <3>2
    <3>6. Lined(m, Q, P, d)
      <4>1. m.links = LET ll == circular_list_remove(c.links, SchedNode(p))
                      IN  circular_list_insert(ll, ll.pre[QueueHead(k.active)], SchedNode(p))
        BY <1>4, <3>2 DEF t
      <4> QED BY <1>1, <1>4, <1>5, <1>7, <3>2, <3>4, <3>5, <4>1, Requeued
    <3>7. \A r \in Proc : m.rest[r] = IF r = p THEN u ELSE k.rest[r]
      BY <1>1, <1>4, <3>2
    <3>8. Sound(m, Q, P, d)
      BY <1>1, <1>2, <2>7, <3>2, <3>6, <3>7 DEF Sound
    <3> QED BY <3>2, <3>7, <3>8 DEF m, c
  <2> QED BY <2>6, <2>7
<1> QED BY <1>6, <1>7

\* schedule keeps the rings, and picks a process that is in a queue, the first of
\* the active one.
LEMMA Scheduled ==
    ASSUME NEW k, NEW Q, NEW P, NEW d, Sound(k, Q, P, d), P1 \in Q,
           InActive(k, Q)
    PROVE  LET m == schedule(k)
           IN  /\ Sound(m, Q, P, d)
               /\ m.cur \in Q /\ m.sq[m.cur] = m.active
               /\ m.state = k.state /\ m.jiffies = k.jiffies /\ m.wakeup = k.wakeup
               /\ \A p \in Proc \ {k.cur} : m.rest[p] = k.rest[p]
<1> DEFINE c == RequeueCurrent(Charge(k))
           s == SwapIfDrained(c)
           m == SwitchToNext(s)
<1>1. /\ Sound(c, Q, P, d)
      /\ c.active = k.active /\ c.state = k.state
      /\ c.jiffies = k.jiffies /\ c.wakeup = k.wakeup
      /\ \A p \in Proc \ {k.cur} : c.rest[p] = k.rest[p] /\ c.sq[p] = k.sq[p]
  BY ChargeRequeue
<1>2. schedule(k) = m
  BY DEF schedule
<1> HIDE DEF c
<1>3. /\ c \in Kernel /\ c.active \in Queues /\ P1 \in Q /\ P1 \in Proc /\ Q \subseteq Proc
      /\ c.sq \in [Proc -> Queues] /\ c.panic = FALSE /\ d \in [Proc -> SleepHeads]
      /\ Lined(c, Q, P, d)
      /\ \A q \in Queues : c.count[q] = Cardinality(InQueue(c, Q, q))
  BY <1>1 DEF Sound, Lined, Kernel
<1>4. /\ s = [c EXCEPT !.active = s.active] /\ s.active \in Queues
      /\ s.active = IF c.count[c.active] = 0 THEN Expire(c) ELSE c.active
  BY <1>3, ExpireFacts DEF SwapIfDrained, Kernel
<1> HIDE DEF s
<1>5. /\ s.cur = c.cur /\ s.count = c.count /\ s.sq = c.sq
      /\ s.state = c.state /\ s.rest = c.rest /\ s.jiffies = c.jiffies /\ s.wakeup = c.wakeup
      /\ s.links = c.links /\ s.panic = FALSE /\ s \in Kernel
  BY <1>3, <1>4 DEF Kernel
<1>6. Lined(s, Q, P, d)
  BY <1>3, <1>5, LinedKept
<1>7. InQueue(s, Q, s.active) # {}
  <2>1. \A q \in Queues : InQueue(s, Q, q) = InQueue(c, Q, q) /\ IsFiniteSet(InQueue(c, Q, q))
    BY <1>3, <1>5, RingAssumption, FS_Subset DEF InQueue
  <2>2. CASE c.count[c.active] # 0
    <3>1. Cardinality(InQueue(c, Q, c.active)) # 0
      BY <1>3, <2>2
    <3> QED BY <1>3, <1>4, <2>1, <2>2, <3>1, FS_EmptySet
  <2>3. CASE c.count[c.active] = 0
    <3>1. InQueue(c, Q, c.active) = {}
      BY <1>3, <2>1, <2>3, FS_EmptySet
    <3>2. c.sq[P1] # c.active /\ c.sq[P1] \in Queues
      BY <1>3, <3>1 DEF InQueue
    <3>3. P1 \in InQueue(c, Q, Expire(c))
      BY <1>3, <3>2, ExpireFacts DEF InQueue
    <3> QED BY <1>4, <2>1, <2>3, <3>3
  <2> QED BY <2>2, <2>3
<1>8. PICK p \in InQueue(s, Q, s.active) : s.links.next[QueueHead(s.active)] = SchedNode(p)
  BY <1>4, <1>6, <1>7, FirstOfQueue
<1>9. p \in Q /\ p \in Proc /\ s.sq[p] = s.active
  BY <1>3, <1>8 DEF InQueue
<1>10. m = [s EXCEPT !.cur = p]
  <2>1. QueueHead(s.active) \in Heads /\ SchedNode(p) \in SchedNodes /\ SchedNode(p)[2] = p
        /\ SchedNode(p) \notin Heads
    BY <1>4, <1>9, HeadFacts, NodeFacts
  <2> QED BY <1>8, <2>1 DEF SwitchToNext
<1> HIDE DEF m
<1>11. /\ m.cur = p /\ m.count = s.count /\ m.sq = s.sq /\ m.active = s.active
       /\ m.state = s.state /\ m.rest = s.rest /\ m.jiffies = s.jiffies /\ m.wakeup = s.wakeup
       /\ m.links = s.links /\ m.panic = FALSE /\ m \in Kernel
  BY <1>5, <1>9, <1>10 DEF Kernel
<1>12. Lined(m, Q, P, d)
  BY <1>3, <1>6, <1>11, LinedKept
<1>13. Sound(m, Q, P, d)
  BY <1>1, <1>5, <1>11, <1>12 DEF Sound
<1> QED BY <1>1, <1>2, <1>5, <1>9, <1>11, <1>13
-----------------------------------------------------------------------------
(***************************************************************************)
(* The inductive invariant.  Ticks are taken in sys_tsleep only before     *)
(* schedule, as if the rest held lock_task, and process1 does not sleep:   *)
(* schedule falls back on it when no queue holds anybody.                  *)
(***************************************************************************)
Locked == TickPoints \subseteq {"slept"} /\ P1 \notin Sleepers

\* The points of sys_tsleep where no tick is taken.
Inside == {"out", "marked", "aimed", "linked"}
Forking(p) == pc[p] \in {"copied", "inited"}

RingTyped ==
    /\ rs \in Kernel
    /\ pc \in [Proc -> {"user"} \union SleepPoints \union ForkPoints]
    /\ child \in [Proc -> Proc] /\ timeout \in [Proc -> {0} \union Timeouts]
    /\ intimer \in BOOLEAN

\* What the state of a process says of the point it is at.
PointsExact ==
    /\ \A p \in Proc :
          /\ pc[p] \in Inside => p = rs.cur /\ intimer = FALSE
          /\ pc[p] = "out" => rs.state[p] = "RUNNING"
          /\ pc[p] \in {"marked", "aimed", "linked"} => rs.state[p] = "WAITING"
          /\ rs.state[p] = "WAITING" => pc[p] \in {"user", "marked", "aimed", "linked", "slept"}
          /\ rs.state[p] = "NONE" => pc[p] = "user"
          /\ pc[p] \in SleepPoints => p # P1
    /\ rs.state[rs.cur] # "NONE" /\ rs.rest[rs.cur] > 0
    /\ pc[rs.cur] = "user" => rs.state[rs.cur] = "RUNNING"
    /\ rs.cur \in Queued => rs.sq[rs.cur] = rs.active
    /\ P1 \in Queued

\* The children sys_fork works on: different, linked nowhere, not scheduled yet.
ChildrenApart ==
    /\ \A p \in Proc : Forking(p) =>
          /\ rs.state[child[p]] = "RUNNING" /\ rs.rest[child[p]] > 0
          /\ pc[child[p]] = "user"
          /\ child[p] # rs.cur /\ child[p] # P1
    /\ \A p, r \in Proc : Forking(p) /\ Forking(r) /\ child[p] = child[r] => p = r

\* The head sys_tsleep inserts at, from the timeouts and the deadlines.
HeadsFor(t, w) ==
    [p \in Proc |-> IF t[p] = 0 THEN WaitHead ELSE SlotHead(WHEEL_HASH(w[p]))]

SleepAt == HeadsFor(timeout, rs.wakeup)

\* The links, when the node is partly inserted at the head of the rings l.
Half(l, point, h, n) ==
    IF point = "aimed" THEN Aim(l, h, n)
    ELSE IF point = "linked" THEN LinkForward(Aim(l, h, n), h, n)
    ELSE l

Backed(k, point, Q, P, d) ==
    \E l \in Links : /\ Sound([k EXCEPT !.links = l], Q, P, d)
                     /\ k.links = Half(l, point, d[k.cur], SleepNode(k.cur))

RingInv ==
    /\ RingTyped
    /\ PointsExact
    /\ ChildrenApart
    /\ Backed(rs, pc[rs.cur], Queued, Parked, SleepAt)

LEMMA Settled ==
    ASSUME NEW k \in Kernel, NEW point, point \notin {"aimed", "linked"}, NEW Q, NEW P, NEW d
    PROVE  Backed(k, point, Q, P, d) <=> Sound(k, Q, P, d)
<1>1. [k EXCEPT !.links = k.links] = k /\ k.links \in Links
  BY DEF Kernel
<1>2. \A l : Half(l, point, d[k.cur], SleepNode(k.cur)) = l
  BY DEF Half
<1>3. ASSUME Sound(k, Q, P, d) PROVE Backed(k, point, Q, P, d)
  BY <1>1, <1>2, <1>3 DEF Backed
<1>4. ASSUME Backed(k, point, Q, P, d) PROVE Sound(k, Q, P, d)
  <2>1. PICK l \in Links : Sound([k EXCEPT !.links = l], Q, P, d) /\ k.links = l
    BY <1>2, <1>4 DEF Backed
  <2> QED BY <1>1, <2>1
<1> QED BY <1>3, <1>4

\* A change of the kernel's record that the rings do not depend on.
LEMMA SoundKept ==
    ASSUME NEW k, NEW Q, NEW P, NEW d, Sound(k, Q, P, d), NEW m \in Kernel,
           NEW e \in [Proc -> SleepHeads], \A p \in P : e[p] = d[p],
           m.links = k.links, m.count = k.count, m.panic = k.panic,
           \A p \in Q : m.sq[p] = k.sq[p] /\ m.state[p] = k.state[p] /\ m.rest[p] > 0,
           \A p \in P : m.state[p] = k.state[p]
    PROVE  Sound(m, Q, P, e)
<1>1. Lined(m, Q, P, e)
  BY LinedKept DEF Sound
<1> QED BY <1>1 DEF Sound

LEMMA HeadsForType ==
    ASSUME NEW t, NEW w \in [Proc -> Jiffies]
    PROVE  /\ HeadsFor(t, w) \in [Proc -> SleepHeads]
           /\ \A p \in Proc, v \in [Proc -> Jiffies] : \A u :
                 u[p] = t[p] /\ v[p] = w[p] => HeadsFor(u, v)[p] = HeadsFor(t, w)[p]
<1> SUFFICES ASSUME NEW p \in Proc PROVE SlotHead(WHEEL_HASH(w[p])) \in SleepHeads
  BY DEF HeadsFor, SleepHeads
<1>1. w[p] \in Nat /\ WHEEL_SIZE \in Nat \ {0}
  BY RingAssumption DEF Jiffies
<1>2. WHEEL_HASH(w[p]) \in Slots
  BY <1>1 DEF WHEEL_HASH, Slots
<1> QED BY <1>2 DEF SleepHeads

LEMMA InvFacts ==
    ASSUME RingInv
    PROVE  /\ rs \in Kernel /\ rs.cur \in Proc /\ rs.active \in Queues
           /\ rs.state \in [Proc -> States] /\ rs.rest \in [Proc -> Nat]
           /\ rs.sq \in [Proc -> Queues] /\ rs.wakeup \in [Proc -> Jiffies] /\ rs.jiffies \in Jiffies
           /\ Queued \subseteq Proc /\ Parked \subseteq Proc
           /\ pc[rs.cur] \notin {"aimed", "linked"} => Sound(rs, Queued, Parked, SleepAt)
           /\ Unborn \subseteq Proc /\ rs.cur \notin Unborn /\ P1 \notin Unborn
           /\ \A c \in Unborn : /\ rs.state[c] = "RUNNING" /\ rs.rest[c] > 0 /\ pc[c] = "user"
                                /\ \E p \in Proc : Forking(p) /\ child[p] = c
           /\ \A p \in Proc : Forking(p) => child[p] \in Unborn
           /\ pc[rs.cur] # "out" => (rs.cur \in Queued <=> rs.state[rs.cur] = "RUNNING")
           /\ rs.panic = FALSE /\ P1 \in Queued
<1>1. /\ rs \in Kernel /\ rs.cur \in Proc /\ rs.active \in Queues
      /\ rs.state \in [Proc -> States] /\ rs.rest \in [Proc -> Nat]
      /\ rs.sq \in [Proc -> Queues] /\ rs.wakeup \in [Proc -> Jiffies] /\ rs.jiffies \in Jiffies
      /\ child \in [Proc -> Proc]
  BY DEF RingInv, RingTyped, Kernel
<1>2. /\ Unborn \subseteq Proc
      /\ \A c \in Unborn : /\ rs.state[c] = "RUNNING" /\ rs.rest[c] > 0 /\ pc[c] = "user"
                           /\ \E p \in Proc : Forking(p) /\ child[p] = c
      /\ \A p \in Proc : Forking(p) => child[p] \in Unborn
      /\ rs.cur \notin Unborn /\ P1 \notin Unborn
  BY <1>1 DEF Unborn, Forking, RingInv, ChildrenApart
<1>3. pc[rs.cur] \notin {"aimed", "linked"} => Sound(rs, Queued, Parked, SleepAt)
  BY <1>1, Settled DEF RingInv
<1>4. Queued \subseteq Proc /\ Parked \subseteq Proc /\ P1 \in Queued
  BY DEF Queued, Parked, RingInv, PointsExact
<1>5. pc[rs.cur] # "out" => (rs.cur \in Queued <=> rs.state[rs.cur] = "RUNNING")
  BY <1>1, <1>2 DEF Queued
<1>6. rs.panic = FALSE
  <2>1. PICK l \in Links : Sound([rs EXCEPT !.links = l], Queued, Parked, SleepAt)
    BY DEF RingInv, Backed
  <2>2. [rs EXCEPT !.links = l].panic = rs.panic /\ rs.panic \in BOOLEAN
    BY <1>1 DEF Kernel
  <2> QED BY <2>1, <2>2 DEF Sound
<1> QED BY <1>1, <1>2, <1>3, <1>4, <1>5, <1>6

-----------------------------------------------------------------------------
(***************************************************************************)
(* The invariant is inductive: the first state, and every action.          *)
(***************************************************************************)
LEMMA InvIntro ==
    ASSUME RingTyped', PointsExact', ChildrenApart',
           pc'[rs'.cur] \notin {"aimed", "linked"},
           Sound(rs', Queued', Parked', SleepAt')
    PROVE  RingInv'
<1>1. rs' \in Kernel
  BY DEF RingTyped
<1>2. Backed(rs', pc'[rs'.cur], Queued', Parked', SleepAt')
  BY <1>1, Settled
<1> QED BY <1>2 DEF RingInv

LEMMA TimerEnterStep ==
    ASSUME Locked, RingInv, TimerEnter
    PROVE  RingInv'
<1>1. /\ rs \in Kernel /\ rs.cur \in Proc /\ rs.jiffies \in Jiffies
      /\ pc[rs.cur] \notin Inside
      /\ rs' = [rs EXCEPT !.jiffies = (@ + 1) % JIFFIES_MOD]
      /\ pc' = pc /\ timeout' = timeout /\ child' = child /\ intimer' = TRUE
  BY InvFacts DEF Locked, TimerEnter, Inside, SleepPoints
<1>2. (rs.jiffies + 1) % JIFFIES_MOD \in Jiffies
  <2>1. rs.jiffies \in Nat /\ JIFFIES_MOD \in Nat \ {0}
    BY <1>1, RingAssumption DEF Jiffies
  <2> QED BY <2>1 DEF Jiffies
<1>3. /\ rs'.cur = rs.cur /\ rs'.active = rs.active /\ rs'.count = rs.count /\ rs'.sq = rs.sq
      /\ rs'.state = rs.state /\ rs'.rest = rs.rest /\ rs'.wakeup = rs.wakeup
      /\ rs'.links = rs.links /\ rs'.panic = rs.panic /\ rs' \in Kernel
  BY <1>1, <1>2 DEF Kernel
<1>4. Queued' = Queued /\ Parked' = Parked /\ SleepAt' = SleepAt /\ Unborn' = Unborn
  BY <1>1, <1>3 DEF Queued, Parked, SleepAt, Unborn
<1>5. RingTyped'
  BY <1>1, <1>3 DEF RingInv, RingTyped
<1>6. PointsExact'
  <2>1. \A p \in Proc : pc[p] \notin Inside
    BY <1>1 DEF RingInv, PointsExact
  <2> QED BY <1>1, <1>3, <1>4, <2>1 DEF RingInv, PointsExact
<1>7. ChildrenApart'
  BY <1>1, <1>3 DEF RingInv, ChildrenApart, Forking
<1>8. Sound(rs', Queued', Parked', SleepAt')
  <2>1. Sound(rs, Queued, Parked, SleepAt) /\ SleepAt \in [Proc -> SleepHeads]
    BY <1>1, InvFacts, HeadsForType DEF Inside, SleepAt
  <2>2. \A p \in Queued : rs.rest[p] > 0
    BY <2>1 DEF Sound
  <2> QED BY <1>3, <1>4, <2>1, <2>2, SoundKept
<1> QED BY <1>1, <1>3, <1>5, <1>6, <1>7, <1>8, InvIntro DEF Inside

LEMMA WakeStep ==
    ASSUME Locked, RingInv, TimerWake
    PROVE  RingInv'
<1> DEFINE h == SlotHead(WHEEL_HASH(rs.jiffies))
<1>1. /\ rs \in Kernel /\ rs.cur \in Proc /\ rs.jiffies \in Jiffies /\ rs.active \in Queues
      /\ rs.wakeup \in [Proc -> Jiffies] /\ rs.rest \in [Proc -> Nat] /\ rs.panic = FALSE
      /\ rs.state \in [Proc -> States] /\ P1 \in Queued /\ Queued \subseteq Proc
      /\ intimer = TRUE /\ pc' = pc /\ timeout' = timeout /\ child' = child /\ intimer' = intimer
      /\ \A p \in Proc : pc[p] \notin Inside
  BY InvFacts DEF TimerWake, RingInv, RingTyped, PointsExact
<1>2. Sound(rs, Queued, Parked, SleepAt)
  BY <1>1, InvFacts DEF Inside
<1>3. PICK i \in DOMAIN CurrentSlot :
          rs' = in_sched_queue([kassert(rs, rs.state[CurrentSlot[i][2]] = "WAITING") EXCEPT
                                   !.links = circular_list_remove(@, CurrentSlot[i])],
                               CurrentSlot[i][2])
  BY DEF TimerWake
<1>4. h \in SleepHeads
  <2>1. rs.jiffies \in Nat /\ WHEEL_SIZE \in Nat \ {0}
    BY <1>1, RingAssumption DEF Jiffies
  <2>2. WHEEL_HASH(rs.jiffies) \in Slots
    BY <2>1 DEF WHEEL_HASH, Slots
  <2> QED BY <2>2 DEF SleepHeads
<1>5. PICK p \in Parked : CurrentSlot[i] = SleepNode(p)
  <2>1. CurrentSlot = Contents(rs.links, h)
    BY DEF CurrentSlot
  <2> HIDE DEF h
  <2> QED BY <1>2, <1>3, <1>4, <2>1, LinedSlot DEF Sound
<1>6. /\ p \in Proc /\ p \notin Unborn /\ rs.state[p] = "WAITING"
      /\ p \notin Queued /\ SleepNode(p)[2] = p /\ pc[p] \in {"user", "slept"}
  BY <1>1, <1>5, NodeFacts DEF Parked, Queued, RingInv, PointsExact, Inside
<1> DEFINE o == [rs EXCEPT !.links = circular_list_remove(rs.links, SleepNode(p))]
<1>7. rs' = in_sched_queue(o, p)
  <2>1. kassert(rs, rs.state[p] = "WAITING") = rs
    BY <1>1, <1>6 DEF kassert, Kernel
  <2> QED BY <1>3, <1>5, <1>6, <2>1
<1>8. /\ o.links = circular_list_remove(rs.links, SleepNode(p))
      /\ o.cur = rs.cur /\ o.active = rs.active /\ o.count = rs.count /\ o.sq = rs.sq
      /\ o.state = rs.state /\ o.rest = rs.rest /\ o.wakeup = rs.wakeup
      /\ o.jiffies = rs.jiffies /\ o.panic = rs.panic /\ o \in Kernel
  <2>1. circular_list_remove(rs.links, SleepNode(p)) \in Links
    <3>1. rs.links \in Links /\ SleepNode(p) \in Node
      BY <1>1, <1>6, NodeFacts DEF Kernel
    <3> QED BY <3>1, LinksKept
  <2> QED BY <1>1, <2>1 DEF Kernel
<1> HIDE DEF o, h
<1>9. Sound(o, Queued, Parked \ {p}, SleepAt)
  <2>1. Lined(o, Queued, Parked \ {p}, SleepAt)
    BY <1>2, <1>5, <1>8, Unparks DEF Sound
  <2> QED BY <1>2, <1>8, <2>1 DEF Sound
<1>10. /\ Sound(rs', Queued \union {p}, Parked \ {p}, SleepAt)
       /\ rs'.cur = rs.cur /\ rs'.active = rs.active
       /\ rs'.jiffies = rs.jiffies /\ rs'.wakeup = rs.wakeup
       /\ rs'.state = [rs.state EXCEPT ![p] = "RUNNING"]
       /\ rs'.rest = [rs.rest EXCEPT ![p] = IF @ > 0 THEN @ ELSE Nice + 1]
       /\ \A r \in Proc \ {p} : rs'.sq[r] = rs.sq[r]
       /\ rs.rest[p] > 0 => rs'.sq[p] = rs.active
  <2>1. Sound(rs', Queued \union {p}, Parked \ {p}, SleepAt) /\ Readied(o, p, rs')
    BY <1>6, <1>7, <1>9, InSched
  <2> QED BY <1>8, <2>1 DEF Readied
<1>11. /\ Unborn' = Unborn /\ SleepAt' = SleepAt
       /\ Queued' = Queued \union {p} /\ Parked' = Parked \ {p}
  BY <1>1, <1>6, <1>10 DEF Unborn, SleepAt, Queued, Parked, Inside
<1>12. RingTyped'
  BY <1>1, <1>10 DEF Sound, Lined, RingInv, RingTyped
<1>13. /\ \A r \in Proc : /\ rs'.state[r] = IF r = p THEN "RUNNING" ELSE rs.state[r]
                          /\ rs.rest[r] > 0 => rs'.rest[r] = rs.rest[r]
  BY <1>1, <1>10
<1>14. PointsExact'
  <2>1. \A r \in Proc : pc[r] \notin Inside /\ (rs'.state[r] = "WAITING" => rs.state[r] = "WAITING")
                        /\ (rs'.state[r] = "NONE" => rs.state[r] = "NONE")
    BY <1>1, <1>13
  <2>2. rs'.state[rs'.cur] # "NONE" /\ rs'.rest[rs'.cur] > 0
        /\ (pc'[rs'.cur] = "user" => rs'.state[rs'.cur] = "RUNNING")
    BY <1>1, <1>10, <1>13 DEF RingInv, PointsExact
  <2>3. rs'.cur \in Queued' => rs'.sq[rs'.cur] = rs'.active
    BY <1>1, <1>10, <1>11 DEF RingInv, PointsExact
  <2>4. P1 \in Queued'
    BY <1>1, <1>11
  <2>5. ASSUME NEW r \in Proc
        PROVE  /\ pc'[r] \in Inside => r = rs'.cur /\ intimer' = FALSE
               /\ pc'[r] = "out" => rs'.state[r] = "RUNNING"
               /\ pc'[r] \in {"marked", "aimed", "linked"} => rs'.state[r] = "WAITING"
               /\ rs'.state[r] = "WAITING" => pc'[r] \in {"user", "marked", "aimed", "linked", "slept"}
               /\ rs'.state[r] = "NONE" => pc'[r] = "user"
               /\ pc'[r] \in SleepPoints => r # P1
    BY <1>1, <2>1 DEF RingInv, PointsExact, Inside
  <2> QED BY <2>2, <2>3, <2>4, <2>5 DEF PointsExact
<1>15. ChildrenApart'
  <2>1. \A r \in Proc : Forking(r) => child[r] # p /\ child[r] \in Proc
    BY <1>1, <1>6, InvFacts DEF RingInv, RingTyped
  <2> QED BY <1>1, <1>10, <1>13, <2>1 DEF RingInv, ChildrenApart, Forking
<1> QED BY <1>1, <1>10, <1>11, <1>12, <1>14, <1>15, InvIntro DEF Inside

\* schedule, called by the timer, sys_yield, sys_fork and sys_tsleep.
LEMMA ScheduleStep ==
    ASSUME RingInv, pc[rs.cur] \notin Inside, rs' = schedule(rs),
           \/ pc' = pc
           \/ pc[rs.cur] \in {"queued", "slept"} /\ pc' = [pc EXCEPT ![rs.cur] = "user"],
           timeout' = timeout, child' = child, intimer' = FALSE
    PROVE  RingInv'
<1>1. /\ rs \in Kernel /\ rs.cur \in Proc /\ P1 \in Queued
      /\ Queued \subseteq Proc /\ Parked \subseteq Proc
      /\ rs.cur \notin Unborn
      /\ \A p \in Proc : pc[p] \notin Inside
      /\ pc \in [Proc -> {"user"} \union SleepPoints \union ForkPoints]
      /\ child \in [Proc -> Proc] /\ timeout \in [Proc -> {0} \union Timeouts]
  BY InvFacts DEF RingInv, RingTyped, PointsExact
<1>2. Sound(rs, Queued, Parked, SleepAt)
  BY InvFacts DEF Inside
<1>3. InActive(rs, Queued)
  BY InvFacts DEF Inside, RingInv, PointsExact, InActive
<1>4. /\ Sound(rs', Queued, Parked, SleepAt)
      /\ rs'.cur \in Queued /\ rs'.sq[rs'.cur] = rs'.active
      /\ rs'.state = rs.state /\ rs'.jiffies = rs.jiffies /\ rs'.wakeup = rs.wakeup
      /\ \A p \in Proc \ {rs.cur} : rs'.rest[p] = rs.rest[p]
  BY <1>1, <1>2, <1>3, Scheduled
<1>5. \A p \in Proc : \/ pc'[p] = pc[p]
                      \/ p = rs.cur /\ pc[p] \in {"queued", "slept"} /\ pc'[p] = "user"
  BY <1>1
<1>6. /\ \A p \in Proc : Forking(p)' <=> Forking(p)
      /\ \A p \in Proc : pc'[p] \notin Inside
  BY <1>1, <1>5 DEF Forking, Inside
<1>7. /\ Unborn' = Unborn /\ SleepAt' = SleepAt
      /\ Queued' = Queued /\ Parked' = Parked
  <2>1. Unborn' = Unborn
    BY <1>6 DEF Unborn, Forking
  <2>2. SleepAt' = SleepAt
    BY <1>4 DEF SleepAt
  <2>3. Queued' = Queued /\ Parked' = Parked
    BY <1>1, <1>4, <1>6, <2>1 DEF Queued, Parked, Inside
  <2> QED BY <2>1, <2>2, <2>3
<1>8. RingTyped'
  <2>1. pc' \in [Proc -> {"user"} \union SleepPoints \union ForkPoints]
    BY <1>1
  <2> QED BY <1>1, <1>4, <2>1 DEF Sound, Lined, RingTyped
<1>9. PointsExact'
  <2>1. ASSUME NEW p \in Proc
        PROVE  /\ pc'[p] \in Inside => p = rs'.cur /\ intimer' = FALSE
               /\ pc'[p] = "out" => rs'.state[p] = "RUNNING"
               /\ pc'[p] \in {"marked", "aimed", "linked"} => rs'.state[p] = "WAITING"
               /\ rs'.state[p] = "WAITING" => pc'[p] \in {"user", "marked", "aimed", "linked", "slept"}
               /\ rs'.state[p] = "NONE" => pc'[p] = "user"
               /\ pc'[p] \in SleepPoints => p # P1
    BY <1>4, <1>5, <1>6 DEF RingInv, PointsExact, Inside, SleepPoints
  <2>2. /\ rs'.state[rs'.cur] = "RUNNING" /\ rs'.rest[rs'.cur] > 0
        /\ P1 \in Queued'
    BY <1>1, <1>4, <1>7 DEF Sound
  <2> QED BY <1>4, <2>1, <2>2 DEF PointsExact
<1>10. ChildrenApart'
  <2>1. \A p \in Proc : Forking(p) => /\ child[p] \in Unborn /\ child[p] \in Proc
                                      /\ child[p] # rs.cur /\ child[p] # rs'.cur
    BY <1>1, <1>4, InvFacts DEF Queued
  <2> QED BY <1>4, <1>5, <1>6, <2>1 DEF RingInv, ChildrenApart, Forking
<1> QED BY <1>1, <1>4, <1>6, <1>7, <1>8, <1>9, <1>10, InvIntro DEF Queued, Inside

LEMMA ScheduleCalls ==
    ASSUME RingInv,
           \/ TimerSchedule
           \/ \E p \in Proc : Yield(p) \/ ForkSchedule(p) \/ TsleepSchedule(p)
    PROVE  RingInv'
<1>1. intimer \in BOOLEAN /\ rs.cur \in Proc
      /\ pc \in [Proc -> {"user"} \union SleepPoints \union ForkPoints]
  BY DEF RingInv, RingTyped, Kernel
<1>2. CASE TimerSchedule
  <2>1. /\ pc[rs.cur] \notin Inside /\ rs' = schedule(rs)
        /\ pc' = pc /\ timeout' = timeout /\ child' = child /\ intimer' = FALSE
    BY <1>1, <1>2 DEF TimerSchedule, RingInv, PointsExact
  <2> QED BY <2>1, ScheduleStep
<1>3. CASE \E p \in Proc : Yield(p)
  <2>1. /\ pc[rs.cur] \notin Inside /\ rs' = schedule(rs)
        /\ pc' = pc /\ timeout' = timeout /\ child' = child /\ intimer' = FALSE
    BY <1>1, <1>3 DEF Yield, Runs, Inside
  <2> QED BY <2>1, ScheduleStep
<1>4. CASE \E p \in Proc : ForkSchedule(p) \/ TsleepSchedule(p)
  <2>1. /\ pc[rs.cur] \in {"queued", "slept"} /\ pc' = [pc EXCEPT ![rs.cur] = "user"]
        /\ rs' = schedule(rs) /\ timeout' = timeout /\ child' = child /\ intimer' = FALSE
    BY <1>1, <1>4 DEF ForkSchedule, TsleepSchedule, Runs
  <2>2. pc[rs.cur] \notin Inside
    BY <2>1 DEF Inside
  <2> QED BY <2>1, <2>2, ScheduleStep
<1> QED BY <1>2, <1>3, <1>4

\* The running process comes to another point of sys_tsleep: it is in no queue,
\* and in a list of sleepers once it is at the last point.
LEMMA SleepPoint ==
    ASSUME RingInv, NEW p \in Proc, p = rs.cur, p # P1, intimer = FALSE,
           pc[p] \in {"user"} \union SleepPoints,
           NEW point \in SleepPoints, pc' = [pc EXCEPT ![p] = point],
           rs' \in Kernel, rs'.cur = rs.cur, rs'.active = rs.active, rs'.sq = rs.sq,
           rs'.rest = rs.rest,
           rs'.state = [rs.state EXCEPT ![p] = IF point = "out" THEN "RUNNING" ELSE "WAITING"],
           child' = child, intimer' = intimer
    PROVE  /\ PointsExact' /\ ChildrenApart'
           /\ pc' \in [Proc -> {"user"} \union SleepPoints \union ForkPoints]
           /\ Queued' = Queued \ {p}
           /\ Parked' = IF point = "slept" THEN Parked \union {p} ELSE Parked \ {p}
<1>1. /\ pc \in [Proc -> {"user"} \union SleepPoints \union ForkPoints]
      /\ child \in [Proc -> Proc] /\ rs.state \in [Proc -> States]
      /\ p \notin Unborn /\ P1 \in Queued /\ P1 \notin Unborn /\ P1 \in Proc
  BY InvFacts DEF RingInv, RingTyped, Queued
<1>2. \A r \in Proc :
         /\ pc'[r] = IF r = p THEN point ELSE pc[r]
         /\ rs'.state[r] = IF r # p THEN rs.state[r]
                           ELSE IF point = "out" THEN "RUNNING" ELSE "WAITING"
  BY <1>1
<1>3. pc' \in [Proc -> {"user"} \union SleepPoints \union ForkPoints]
  BY <1>1
<1>4. \A r \in Proc : Forking(r)' <=> Forking(r)
  BY <1>2 DEF Forking, SleepPoints
<1>5. Unborn' = Unborn
  BY <1>4 DEF Unborn, Forking
<1>6. Queued' = Queued \ {p}
  BY <1>2, <1>5 DEF Queued, SleepPoints
<1>7. Parked' = IF point = "slept" THEN Parked \union {p} ELSE Parked \ {p}
  <2>1. ASSUME NEW r \in Proc
        PROVE  r \in Parked' <=> IF r = p THEN point = "slept" ELSE r \in Parked
    BY <1>1, <1>2, <1>5 DEF Parked, SleepPoints
  <2>2. Parked' \subseteq Proc /\ Parked \subseteq Proc
    BY DEF Parked
  <2> QED BY <2>1, <2>2
<1>8. PointsExact'
  <2>1. ASSUME NEW r \in Proc
        PROVE  /\ pc'[r] \in Inside => r = rs'.cur /\ intimer' = FALSE
               /\ pc'[r] = "out" => rs'.state[r] = "RUNNING"
               /\ pc'[r] \in {"marked", "aimed", "linked"} => rs'.state[r] = "WAITING"
               /\ rs'.state[r] = "WAITING" => pc'[r] \in {"user", "marked", "aimed", "linked", "slept"}
               /\ rs'.state[r] = "NONE" => pc'[r] = "user"
               /\ pc'[r] \in SleepPoints => r # P1
    BY <1>2 DEF RingInv, PointsExact, SleepPoints
  <2>2. /\ rs'.state[rs'.cur] # "NONE" /\ rs'.rest[rs'.cur] > 0
        /\ (pc'[rs'.cur] = "user" => rs'.state[rs'.cur] = "RUNNING")
        /\ (rs'.cur \in Queued' => rs'.sq[rs'.cur] = rs'.active)
        /\ P1 \in Queued'
    BY <1>1, <1>2, <1>6 DEF RingInv, PointsExact, SleepPoints
  <2> QED BY <2>1, <2>2 DEF PointsExact
<1>9. ChildrenApart'
  <2>1. \A r \in Proc : Forking(r) => child[r] # p /\ child[r] \in Proc
    BY <1>1, InvFacts
  <2> QED BY <1>2, <1>4, <2>1 DEF RingInv, ChildrenApart, Forking
<1> QED BY <1>3, <1>6, <1>7, <1>8, <1>9

LEMMA TsleepOutStep ==
    ASSUME Locked, RingInv, NEW p \in Sleepers, NEW ticks \in Timeouts, TsleepOut(p, ticks)
    PROVE  RingInv'
<1>1. /\ p \in Proc /\ p # P1 /\ p = rs.cur /\ pc[p] = "user" /\ intimer = FALSE
      /\ rs' = out_sched_queue(rs, p)
      /\ pc' = [pc EXCEPT ![p] = "out"]
      /\ timeout' = [timeout EXCEPT ![p] = ticks]
      /\ child' = child /\ intimer' = intimer
  BY RingAssumption DEF Locked, TsleepOut, Runs, RingInv, RingTyped
<1>2. /\ rs.state[p] = "RUNNING" /\ rs.state \in [Proc -> States]
      /\ p \in Queued /\ Parked \subseteq Proc
      /\ timeout \in [Proc -> {0} \union Timeouts] /\ rs.wakeup \in [Proc -> Jiffies]
      /\ child \in [Proc -> Proc]
  BY <1>1, InvFacts DEF RingInv, RingTyped, PointsExact
<1>3. Sound(rs, Queued, Parked, SleepAt)
  BY <1>1, InvFacts
<1>4. /\ Sound(rs', Queued \ {p}, Parked, SleepAt)
      /\ rs'.cur = rs.cur /\ rs'.active = rs.active /\ rs'.sq = rs.sq
      /\ rs'.jiffies = rs.jiffies /\ rs'.wakeup = rs.wakeup
      /\ rs'.state = rs.state /\ rs'.rest = rs.rest
  <2> DEFINE m == out_sched_queue(rs, p)
  <2>1. /\ Sound(m, Queued \ {p}, Parked, SleepAt)
        /\ m.cur = rs.cur /\ m.active = rs.active /\ m.sq = rs.sq
        /\ m.jiffies = rs.jiffies /\ m.wakeup = rs.wakeup
        /\ m.state = rs.state /\ m.rest = rs.rest
    BY <1>2, <1>3, OutSched
  <2> HIDE DEF m
  <2>2. rs' = m
    BY <1>1 DEF m
  <2> QED BY <2>1, <2>2
<1>5. rs' \in Kernel /\ rs'.state = [rs.state EXCEPT ![p] = "RUNNING"]
  BY <1>2, <1>4 DEF Sound, Lined
<1>6. /\ PointsExact' /\ ChildrenApart'
      /\ pc' \in [Proc -> {"user"} \union SleepPoints \union ForkPoints]
      /\ Queued' = Queued \ {p} /\ Parked' = Parked \ {p}
  <2>1. "out" \in SleepPoints /\ "out" # "slept"
    BY DEF SleepPoints
  <2> QED BY <1>1, <1>4, <1>5, <2>1, SleepPoint
<1>7. Parked' = Parked /\ p \notin Parked
  BY <1>2, <1>6 DEF Parked
<1>8. Sound(rs', Queued', Parked', SleepAt')
  <2>1. SleepAt' \in [Proc -> SleepHeads] /\ \A r \in Parked : SleepAt'[r] = SleepAt[r]
    <3>1. \A r \in Proc : r # p => timeout'[r] = timeout[r]
      BY <1>1, <1>2
    <3>2. SleepAt' = HeadsFor(timeout', rs.wakeup) /\ SleepAt = HeadsFor(timeout, rs.wakeup)
      BY <1>4 DEF SleepAt
    <3> QED BY <1>2, <1>7, <3>1, <3>2, HeadsForType
  <2>2. \A r \in Queued \ {p} : rs'.rest[r] > 0
    BY <1>4 DEF Sound
  <2>3. Sound(rs', Queued \ {p}, Parked, SleepAt')
    BY <1>4, <1>5, <2>1, <2>2, SoundKept
  <2> QED BY <1>6, <1>7, <2>3
<1>9. RingTyped'
  BY <1>1, <1>2, <1>5, <1>6 DEF RingTyped
<1>10. pc'[rs'.cur] = "out"
  BY <1>1, <1>4 DEF RingInv, RingTyped
<1> QED BY <1>6, <1>8, <1>9, <1>10, InvIntro

LEMMA TsleepMarkStep ==
    ASSUME RingInv, NEW p \in Proc, TsleepMark(p)
    PROVE  RingInv'
<1> DEFINE w == IF timeout[p] = 0 THEN rs.wakeup[p] ELSE (timeout[p] + rs.jiffies) % JIFFIES_MOD
<1>1. /\ p = rs.cur /\ pc[p] = "out" /\ intimer = FALSE /\ rs.panic = FALSE
      /\ rs' = [rs EXCEPT !.state[p] = "WAITING", !.wakeup[p] = w]
      /\ pc' = [pc EXCEPT ![p] = "marked"]
      /\ timeout' = timeout /\ child' = child /\ intimer' = intimer
  BY InvFacts DEF TsleepMark, Runs, RingInv, RingTyped
<1>2. /\ rs \in Kernel /\ rs.state[p] = "RUNNING" /\ rs.state \in [Proc -> States]
      /\ p \notin Queued /\ p \notin Parked /\ p # P1
      /\ Queued \subseteq Proc /\ Parked \subseteq Proc
      /\ timeout \in [Proc -> {0} \union Timeouts] /\ rs.wakeup \in [Proc -> Jiffies]
      /\ rs.jiffies \in Jiffies /\ child \in [Proc -> Proc]
      /\ pc \in [Proc -> {"user"} \union SleepPoints \union ForkPoints]
  BY <1>1, InvFacts DEF RingInv, RingTyped, PointsExact, Queued, Parked, SleepPoints
<1>3. w \in Jiffies
  <2>1. timeout[p] \in Int /\ rs.jiffies \in Int /\ JIFFIES_MOD \in Nat \ {0}
    <3>1. timeout[p] = 0 \/ timeout[p] \in Jiffies
      BY <1>2, RingAssumption
    <3> QED BY <1>2, <3>1, RingAssumption DEF Jiffies
  <2>2. (timeout[p] + rs.jiffies) % JIFFIES_MOD \in Jiffies
    BY <2>1 DEF Jiffies
  <2> QED BY <1>2, <2>2
<1> HIDE DEF w
<1>4. /\ rs'.cur = rs.cur /\ rs'.active = rs.active /\ rs'.count = rs.count /\ rs'.sq = rs.sq
      /\ rs'.rest = rs.rest /\ rs'.links = rs.links /\ rs'.panic = rs.panic
      /\ rs'.state = [rs.state EXCEPT ![p] = "WAITING"]
      /\ rs'.wakeup = [rs.wakeup EXCEPT ![p] = w]
      /\ rs' \in Kernel
  BY <1>1, <1>2, <1>3 DEF Kernel, States
<1>5. /\ PointsExact' /\ ChildrenApart'
      /\ pc' \in [Proc -> {"user"} \union SleepPoints \union ForkPoints]
      /\ Queued' = Queued /\ Parked' = Parked
  <2>1. "marked" \in SleepPoints /\ "marked" # "slept" /\ "marked" # "out" /\ "out" \in SleepPoints
    BY DEF SleepPoints
  <2>2. /\ PointsExact' /\ ChildrenApart'
        /\ pc' \in [Proc -> {"user"} \union SleepPoints \union ForkPoints]
        /\ Queued' = Queued \ {p} /\ Parked' = Parked \ {p}
    <3>1. rs'.state = [rs.state EXCEPT ![p] = IF "marked" = "out" THEN "RUNNING" ELSE "WAITING"]
      BY <1>4
    <3>2. pc[p] \in {"user"} \union SleepPoints
      BY <1>1, <2>1
    <3> QED BY <1>1, <1>2, <1>4, <2>1, <3>1, <3>2, SleepPoint
  <2> QED BY <1>2, <2>2
<1>6. Sound(rs', Queued', Parked', SleepAt')
  <2>1. SleepAt' \in [Proc -> SleepHeads] /\ \A r \in Parked : SleepAt'[r] = SleepAt[r]
    <3>1. \A r \in Parked : rs'.wakeup[r] = rs.wakeup[r]
      BY <1>2, <1>4
    <3>2. SleepAt' = HeadsFor(timeout, rs'.wakeup) /\ SleepAt = HeadsFor(timeout, rs.wakeup)
      BY <1>1 DEF SleepAt
    <3>3. rs'.wakeup \in [Proc -> Jiffies]
      BY <1>4 DEF Kernel
    <3> QED BY <1>2, <3>1, <3>2, <3>3, HeadsForType
  <2>2. Sound(rs, Queued, Parked, SleepAt)
    BY <1>1, InvFacts
  <2>3. \A r \in Queued : rs'.state[r] = rs.state[r] /\ rs'.rest[r] > 0 /\ rs'.sq[r] = rs.sq[r]
    BY <1>2, <1>4, <2>2 DEF Sound
  <2>4. \A r \in Parked : rs'.state[r] = rs.state[r]
    BY <1>2, <1>4
  <2>5. Sound(rs', Queued, Parked, SleepAt')
    <3>1. Lined(rs', Queued, Parked, SleepAt')
      BY <1>4, <2>1, <2>2, <2>3, LinedKept DEF Sound
    <3> QED BY <1>4, <2>2, <2>3, <2>4, <3>1 DEF Sound
  <2> QED BY <1>5, <2>5
<1>7. RingTyped'
  BY <1>1, <1>2, <1>4, <1>5 DEF RingTyped
<1>8. pc'[rs'.cur] = "marked"
  BY <1>1, <1>2, <1>4
<1> QED BY <1>5, <1>6, <1>7, <1>8, InvIntro

\* The stores of circular_list_insert in sys_tsleep: whole rings stand behind the
\* links until the last of them.
LEMMA TsleepInsertStep ==
    ASSUME RingInv, NEW p \in Proc, TsleepAim(p) \/ TsleepForward(p) \/ TsleepBackward(p)
    PROVE  RingInv'
<1> DEFINE h == SleepHead(p)
           n == SleepNode(p)
           point == IF pc[p] = "marked" THEN "aimed"
                    ELSE IF pc[p] = "aimed" THEN "linked" ELSE "slept"
           x == IF pc[p] = "marked" THEN Aim(rs.links, h, n)
                ELSE IF pc[p] = "aimed" THEN LinkForward(rs.links, h, n)
                ELSE LinkBackward(rs.links, n)
<1>1. /\ p = rs.cur /\ intimer = FALSE /\ pc[p] \in {"marked", "aimed", "linked"}
      /\ rs' = [rs EXCEPT !.links = x] /\ pc' = [pc EXCEPT ![p] = point]
      /\ timeout' = timeout /\ child' = child /\ intimer' = intimer
  BY DEF TsleepAim, TsleepForward, TsleepBackward, Runs, RingInv, RingTyped
<1>2. /\ rs \in Kernel /\ rs.state \in [Proc -> States] /\ rs.state[p] = "WAITING"
      /\ p # P1 /\ p \notin Queued /\ p \notin Parked
      /\ rs.wakeup \in [Proc -> Jiffies] /\ child \in [Proc -> Proc]
      /\ timeout \in [Proc -> {0} \union Timeouts]
      /\ pc \in [Proc -> {"user"} \union SleepPoints \union ForkPoints]
      /\ SleepAt \in [Proc -> SleepHeads] /\ SleepAt[p] = h
      /\ Queued \subseteq Proc /\ Parked \subseteq Proc
  <2>1. SleepAt \in [Proc -> SleepHeads] /\ SleepAt[p] = h
    BY InvFacts, HeadsForType DEF SleepAt, HeadsFor, SleepHead
  <2> QED BY <1>1, <2>1, InvFacts
          DEF RingInv, RingTyped, PointsExact, Queued, Parked, SleepPoints
<1>3. PICK l \in Links : /\ Sound([rs EXCEPT !.links = l], Queued, Parked, SleepAt)
                         /\ rs.links = Half(l, pc[p], h, n)
  BY <1>1, <1>2 DEF RingInv, Backed
<1>4. h \in Node /\ n \in Node
  BY <1>2, NodeFacts DEF SleepHeads, Node, Heads
<1> HIDE DEF h, n
<1>5. /\ pc[p] = "marked" => x = Aim(l, h, n) /\ point = "aimed"
      /\ pc[p] = "aimed" => x = LinkForward(Aim(l, h, n), h, n) /\ point = "linked"
      /\ pc[p] = "linked" => x = circular_list_insert(l, h, n) /\ point = "slept"
  BY <1>3 DEF Half, circular_list_insert
<1>6. x \in Links
  <2>1. /\ Aim(l, h, n) \in Links /\ circular_list_insert(l, h, n) \in Links
        /\ LinkForward(Aim(l, h, n), h, n) \in Links
    BY <1>4, LinksKept
  <2> HIDE DEF x, point
  <2> QED BY <1>1, <1>5, <2>1
<1>7. point \in {"aimed", "linked", "slept"}
  OBVIOUS
<1> HIDE DEF x, point
<1>8. /\ rs'.cur = rs.cur /\ rs'.active = rs.active /\ rs'.count = rs.count /\ rs'.sq = rs.sq
      /\ rs'.rest = rs.rest /\ rs'.state = rs.state /\ rs'.wakeup = rs.wakeup
      /\ rs'.panic = rs.panic /\ rs'.links = x /\ rs' \in Kernel
  BY <1>1, <1>2, <1>6 DEF Kernel
<1>9. /\ PointsExact' /\ ChildrenApart'
      /\ pc' \in [Proc -> {"user"} \union SleepPoints \union ForkPoints]
      /\ Queued' = Queued
      /\ Parked' = IF point = "slept" THEN Parked \union {p} ELSE Parked
  <2>1. point \in SleepPoints /\ pc[p] \in {"user"} \union SleepPoints
    BY <1>1, <1>7 DEF SleepPoints
  <2>2. rs'.state = [rs.state EXCEPT ![p] = IF point = "out" THEN "RUNNING" ELSE "WAITING"]
    <3>1. point # "out"
      BY <1>7
    <3> QED BY <1>2, <1>8, <3>1
  <2>3. /\ PointsExact' /\ ChildrenApart'
        /\ pc' \in [Proc -> {"user"} \union SleepPoints \union ForkPoints]
        /\ Queued' = Queued \ {p}
        /\ Parked' = IF point = "slept" THEN Parked \union {p} ELSE Parked \ {p}
    BY <1>1, <1>2, <1>8, <2>1, <2>2, SleepPoint
  <2> QED BY <1>2, <2>3
<1>10. RingTyped'
  BY <1>1, <1>2, <1>8, <1>9 DEF RingTyped
<1>11. SleepAt' = SleepAt /\ pc'[rs'.cur] = point
  BY <1>1, <1>2, <1>8 DEF SleepAt
<1>12. CASE pc[p] \in {"marked", "aimed"}
  <2>1. point \in {"aimed", "linked"} /\ x = Half(l, point, h, n)
    BY <1>5, <1>12 DEF Half
  <2>2. [rs' EXCEPT !.links = l] = [rs EXCEPT !.links = l]
    BY <1>1, <1>2 DEF Kernel
  <2>3. Sound([rs' EXCEPT !.links = l], Queued', Parked', SleepAt')
    BY <1>3, <1>9, <1>11, <2>1, <2>2
  <2>4. rs'.links = Half(l, pc'[rs'.cur], SleepAt'[rs'.cur], SleepNode(rs'.cur))
    BY <1>1, <1>2, <1>8, <1>11, <2>1 DEF n
  <2>5. Backed(rs', pc'[rs'.cur], Queued', Parked', SleepAt')
    BY <2>3, <2>4 DEF Backed
  <2> QED BY <1>9, <1>10, <2>5 DEF RingInv
<1>13. CASE pc[p] = "linked"
  <2>1. point = "slept" /\ x = circular_list_insert(l, h, n)
    BY <1>5, <1>13
  <2> DEFINE k == [rs EXCEPT !.links = l]
  <2>2. /\ k.links = l /\ k.sq = rs.sq /\ k.count = rs.count /\ k.state = rs.state
        /\ k.rest = rs.rest /\ k.panic = rs.panic
    BY <1>2 DEF Kernel
  <2>3. Sound(k, Queued, Parked, SleepAt)
    BY <1>3
  <2> HIDE DEF k
  <2>4. Lined(rs', Queued, Parked \union {p}, SleepAt)
    <3>1. rs'.links = circular_list_insert(k.links, SleepAt[p], SleepNode(p))
      BY <1>2, <1>8, <2>1, <2>2 DEF n
    <3> QED BY <1>2, <1>8, <2>2, <2>3, <3>1, Parks DEF Sound
  <2>5. Sound(rs', Queued, Parked \union {p}, SleepAt)
    BY <1>2, <1>8, <2>2, <2>3, <2>4 DEF Sound
  <2>6. Sound(rs', Queued', Parked', SleepAt')
    BY <1>9, <1>11, <2>1, <2>5
  <2> QED BY <1>9, <1>10, <1>11, <2>1, <2>6, InvIntro
<1> QED BY <1>1, <1>12, <1>13

\* sys_fork copies the nodes of the parent with its page: a node that is in no ring
\* changes.
LEMMA CopiedNodes ==
    ASSUME NEW l \in Links, NEW p \in Proc, NEW c \in Proc
    PROVE  LET m == CopyNodes(l, p, c)
           IN  /\ m \in Links
               /\ \A n \in Node : n # SchedNode(c) /\ n # SleepNode(c) =>
                     m.next[n] = l.next[n] /\ m.pre[n] = l.pre[n]
<1> DEFINE copied(f) == [f EXCEPT ![SchedNode(c)] = f[SchedNode(p)],
                                  ![SleepNode(c)] = f[SleepNode(p)]]
<1>1. /\ SchedNode(p) \in Node /\ SleepNode(p) \in Node
      /\ l.next \in [Node -> Node \union {NULL}] /\ l.pre \in [Node -> Node \union {NULL}]
  BY NodeFacts DEF Links
<1>2. ASSUME NEW f \in [Node -> Node \union {NULL}]
      PROVE  /\ copied(f) \in [Node -> Node \union {NULL}]
             /\ \A n \in Node : n # SchedNode(c) /\ n # SleepNode(c) => copied(f)[n] = f[n]
  BY <1>1
<1>3. CopyNodes(l, p, c) = [next |-> copied(l.next), pre |-> copied(l.pre)]
  BY DEF CopyNodes
<1> HIDE DEF copied
<1> QED BY <1>1, <1>2, <1>3 DEF Links

LEMMA ForkCopyStep ==
    ASSUME RingInv, NEW p \in Proc, NEW c \in Proc, ForkCopy(p, c)
    PROVE  RingInv'
<1>1. /\ p = rs.cur /\ pc[p] = "user" /\ intimer = FALSE /\ rs.state[c] = "NONE"
      /\ rs' = [rs EXCEPT !.state[c]  = rs.state[p],
                          !.rest[c]   = rs.rest[p],
                          !.sq[c]     = rs.sq[p],
                          !.wakeup[c] = rs.wakeup[p],
                          !.links     = CopyNodes(rs.links, p, c)]
      /\ child' = [child EXCEPT ![p] = c] /\ pc' = [pc EXCEPT ![p] = "copied"]
      /\ timeout' = timeout /\ intimer' = intimer
  BY DEF ForkCopy, Runs, RingInv, RingTyped
<1>2. /\ rs \in Kernel /\ rs.state \in [Proc -> States] /\ rs.rest \in [Proc -> Nat]
      /\ rs.sq \in [Proc -> Queues] /\ rs.wakeup \in [Proc -> Jiffies] /\ rs.links \in Links
      /\ rs.state[p] = "RUNNING" /\ rs.rest[p] > 0 /\ p \in Queued /\ p \notin Unborn
      /\ P1 \in Queued /\ Queued \subseteq Proc /\ Parked \subseteq Proc
      /\ timeout \in [Proc -> {0} \union Timeouts]
      /\ child \in [Proc -> Proc]
      /\ pc \in [Proc -> {"user"} \union SleepPoints \union ForkPoints]
  BY <1>1, InvFacts DEF RingInv, RingTyped, PointsExact, Kernel
<1>3. /\ c # p /\ c # P1 /\ c \notin Queued /\ c \notin Parked /\ c \notin Unborn /\ pc[c] = "user"
  BY <1>1, <1>2, InvFacts DEF RingInv, PointsExact, Queued, Parked
<1> DEFINE l == CopyNodes(rs.links, p, c)
<1>4. /\ l \in Links
      /\ \A n \in Node : n # SchedNode(c) /\ n # SleepNode(c) =>
            l.next[n] = rs.links.next[n] /\ l.pre[n] = rs.links.pre[n]
  BY <1>2, CopiedNodes
<1> HIDE DEF l
<1>5. rs' = [rs EXCEPT !.state[c] = rs.state[p], !.rest[c] = rs.rest[p], !.sq[c] = rs.sq[p],
                       !.wakeup[c] = rs.wakeup[p], !.links = l]
  BY <1>1 DEF l
<1>6. /\ rs'.cur = rs.cur /\ rs'.active = rs.active /\ rs'.count = rs.count
      /\ rs'.panic = rs.panic /\ rs'.jiffies = rs.jiffies /\ rs'.links = l
      /\ rs'.state = [rs.state EXCEPT ![c] = rs.state[p]]
      /\ rs'.rest = [rs.rest EXCEPT ![c] = rs.rest[p]]
      /\ rs'.sq = [rs.sq EXCEPT ![c] = rs.sq[p]]
      /\ rs'.wakeup = [rs.wakeup EXCEPT ![c] = rs.wakeup[p]]
      /\ rs' = [cur |-> rs.cur, active |-> rs.active, count |-> rs.count, sq |-> rs'.sq,
                state |-> rs'.state, rest |-> rs'.rest, jiffies |-> rs.jiffies,
                wakeup |-> rs'.wakeup, links |-> l, panic |-> rs.panic]
  BY <1>2, <1>5 DEF Kernel
<1>7. rs' \in Kernel /\ rs'.wakeup \in [Proc -> Jiffies]
  <2>1. /\ rs'.state \in [Proc -> States] /\ rs'.rest \in [Proc -> Nat]
        /\ rs'.sq \in [Proc -> Queues] /\ rs'.wakeup \in [Proc -> Jiffies]
    BY <1>2, <1>6
  <2> QED BY <1>2, <1>4, <1>6, <2>1 DEF Kernel
<1>8. \A r \in Proc : /\ rs'.state[r] = IF r = c THEN "RUNNING" ELSE rs.state[r]
                      /\ rs'.rest[r] = IF r = c THEN rs.rest[p] ELSE rs.rest[r]
                      /\ r # c => rs'.sq[r] = rs.sq[r] /\ rs'.wakeup[r] = rs.wakeup[r]
                      /\ pc'[r] = IF r = p THEN "copied" ELSE pc[r]
                      /\ child'[r] = IF r = p THEN c ELSE child[r]
  BY <1>1, <1>2, <1>6
<1>9. /\ pc' \in [Proc -> {"user"} \union SleepPoints \union ForkPoints]
      /\ child' \in [Proc -> Proc]
  BY <1>1, <1>2 DEF ForkPoints
<1>10. \A r \in Proc : Forking(r)' <=> r = p \/ Forking(r)
  BY <1>8 DEF Forking
<1>11. ~Forking(p)
  BY <1>1 DEF Forking
<1>12. Unborn' = Unborn \union {c}
  <2>1. Unborn = {child[r] : r \in {q \in Proc : Forking(q)}}
    BY DEF Unborn, Forking
  <2>2. Unborn' = {child'[r] : r \in {q \in Proc : Forking(q)'}}
    BY DEF Unborn, Forking
  <2> QED BY <1>8, <1>10, <1>11, <2>1, <2>2
<1>13. Queued' = Queued /\ Parked' = Parked
  BY <1>1, <1>2, <1>3, <1>8, <1>12 DEF Queued, Parked
<1>14. RingTyped'
  BY <1>1, <1>2, <1>7, <1>9 DEF RingTyped
<1>15. PointsExact'
  <2>1. ASSUME NEW r \in Proc
        PROVE  /\ pc'[r] \in Inside => r = rs'.cur /\ intimer' = FALSE
               /\ pc'[r] = "out" => rs'.state[r] = "RUNNING"
               /\ pc'[r] \in {"marked", "aimed", "linked"} => rs'.state[r] = "WAITING"
               /\ rs'.state[r] = "WAITING" => pc'[r] \in {"user", "marked", "aimed", "linked", "slept"}
               /\ rs'.state[r] = "NONE" => pc'[r] = "user"
               /\ pc'[r] \in SleepPoints => r # P1
    BY <1>1, <1>2, <1>3, <1>6, <1>8 DEF RingInv, PointsExact, Inside, SleepPoints
  <2>2. /\ rs'.state[rs'.cur] = "RUNNING" /\ rs'.rest[rs'.cur] > 0
        /\ (rs'.cur \in Queued' => rs'.sq[rs'.cur] = rs'.active)
        /\ P1 \in Queued'
    BY <1>1, <1>2, <1>3, <1>6, <1>8, <1>13 DEF RingInv, PointsExact
  <2> QED BY <2>1, <2>2 DEF PointsExact
<1>16. ChildrenApart'
  <2>1. ASSUME NEW r \in Proc, Forking(r)'
        PROVE  /\ rs'.state[child'[r]] = "RUNNING" /\ rs'.rest[child'[r]] > 0
               /\ pc'[child'[r]] = "user" /\ child'[r] # rs'.cur /\ child'[r] # P1
               /\ child'[r] = c => r = p
    <3>1. CASE r = p
      BY <1>1, <1>2, <1>3, <1>6, <1>8, <3>1
    <3>2. CASE r # p
      <4>1. Forking(r) /\ child'[r] = child[r] /\ child[r] \in Unborn /\ child[r] \in Proc
        BY <1>2, <1>8, <1>10, <2>1, <3>2, InvFacts
      <4>2. child[r] # c /\ child[r] # p
        BY <1>2, <1>3, <4>1
      <4> QED BY <1>6, <1>8, <3>2, <4>1, <4>2 DEF RingInv, ChildrenApart
    <3> QED BY <3>1, <3>2
  <2>2. ASSUME NEW r \in Proc, NEW q \in Proc, Forking(r)', Forking(q)', child'[r] = child'[q]
        PROVE  r = q
    <3>1. CASE r = p \/ q = p
      BY <1>8, <2>1, <2>2, <3>1
    <3>2. CASE r # p /\ q # p
      BY <1>8, <1>10, <2>2, <3>2 DEF RingInv, ChildrenApart
    <3> QED BY <3>1, <3>2
  <2> QED BY <2>1, <2>2 DEF ChildrenApart
<1>17. Sound(rs', Queued, Parked, SleepAt')
  <2>1. Sound(rs, Queued, Parked, SleepAt)
    BY <1>1, InvFacts
  <2>2. SleepAt' \in [Proc -> SleepHeads] /\ \A r \in Parked : SleepAt'[r] = SleepAt[r]
    <3>1. \A r \in Parked : rs'.wakeup[r] = rs.wakeup[r]
      BY <1>2, <1>3, <1>8
    <3>2. SleepAt' = HeadsFor(timeout, rs'.wakeup) /\ SleepAt = HeadsFor(timeout, rs.wakeup)
      BY <1>1 DEF SleepAt
    <3> QED BY <1>2, <1>7, <3>1, <3>2, HeadsForType
  <2>3. Lined(rs', Queued, Parked, SleepAt')
    <3>1. \A n \in Heads : rs'.links.next[n] = rs.links.next[n] /\ rs'.links.pre[n] = rs.links.pre[n]
      <4>1. \A n \in Heads : n \in Node /\ n # SchedNode(c) /\ n # SleepNode(c)
        BY NodeFacts DEF Node
      <4> QED BY <1>4, <1>6, <4>1
    <3>2. \A r \in Queued : /\ rs'.links.next[SchedNode(r)] = rs.links.next[SchedNode(r)]
                            /\ rs'.links.pre[SchedNode(r)] = rs.links.pre[SchedNode(r)]
      <4>1. \A r \in Queued : SchedNode(r) \in Node /\ SchedNode(r) # SchedNode(c)
                              /\ SchedNode(r) # SleepNode(c)
        BY <1>2, <1>3, NodeFacts
      <4> QED BY <1>4, <1>6, <4>1
    <3>3. \A r \in Parked : /\ rs'.links.next[SleepNode(r)] = rs.links.next[SleepNode(r)]
                            /\ rs'.links.pre[SleepNode(r)] = rs.links.pre[SleepNode(r)]
      <4>1. \A r \in Parked : SleepNode(r) \in Node /\ SleepNode(r) # SchedNode(c)
                              /\ SleepNode(r) # SleepNode(c)
        BY <1>2, <1>3, NodeFacts
      <4> QED BY <1>4, <1>6, <4>1
    <3>4. \A r \in Queued : rs'.sq[r] = rs.sq[r]
      BY <1>2, <1>3, <1>8
    <3>5. Lined(rs, Queued, Parked, SleepAt) /\ rs'.count = rs.count /\ rs' \in Kernel
      BY <1>6, <1>7, <2>1 DEF Sound
    <3> QED BY <2>2, <3>1, <3>2, <3>3, <3>4, <3>5, LinedKept
  <2> QED BY <1>2, <1>3, <1>6, <1>8, <2>1, <2>3 DEF Sound
<1>18. pc'[rs'.cur] = "copied"
  BY <1>1, <1>2, <1>6, <1>8
<1> QED BY <1>13, <1>14, <1>15, <1>16, <1>17, <1>18, InvIntro

LEMMA ForkInitStep ==
    ASSUME RingInv, NEW p \in Proc, ForkInit(p)
    PROVE  RingInv'
<1> DEFINE c == child[p]
           x == rs.rest[p] - rs.rest[p] \div 2
<1>1. /\ p = rs.cur /\ pc[p] = "copied" /\ intimer = FALSE
      /\ rs' = [rs EXCEPT !.rest[c] = x]
      /\ child' = child /\ pc' = [pc EXCEPT ![p] = "inited"]
      /\ timeout' = timeout /\ intimer' = intimer
  BY DEF ForkInit, Runs, RingInv, RingTyped
<1>2. /\ rs \in Kernel /\ rs.rest \in [Proc -> Nat] /\ rs.rest[p] > 0
      /\ P1 \in Queued /\ Queued \subseteq Proc /\ Parked \subseteq Proc
      /\ timeout \in [Proc -> {0} \union Timeouts]
      /\ child \in [Proc -> Proc] /\ c \in Proc
      /\ pc \in [Proc -> {"user"} \union SleepPoints \union ForkPoints]
  BY <1>1, InvFacts DEF RingInv, RingTyped, PointsExact
<1>3. c \in Unborn /\ c # p /\ c \notin Queued
  BY <1>1, InvFacts DEF Forking, Queued
<1>4. x \in Nat /\ x > 0
  <2> DEFINE r == rs.rest[p]
  <2>1. r \in Nat /\ r > 0
    BY <1>2
  <2> HIDE DEF r
  <2>2. r - r \div 2 \in Nat /\ r - r \div 2 > 0
    BY <2>1
  <2> QED BY <2>2 DEF r
<1> HIDE DEF x, c
<1>5. /\ rs'.cur = rs.cur /\ rs'.active = rs.active /\ rs'.count = rs.count
      /\ rs'.panic = rs.panic /\ rs'.links = rs.links /\ rs'.state = rs.state
      /\ rs'.sq = rs.sq /\ rs'.wakeup = rs.wakeup
      /\ rs'.rest = [rs.rest EXCEPT ![c] = x] /\ rs'.rest \in [Proc -> Nat]
  BY <1>1, <1>2, <1>4 DEF Kernel
<1>6. rs' \in Kernel
  BY <1>1, <1>2, <1>5 DEF Kernel
<1>7. \A r \in Proc : /\ rs'.rest[r] = IF r = c THEN x ELSE rs.rest[r]
                      /\ pc'[r] = IF r = p THEN "inited" ELSE pc[r]
  BY <1>1, <1>2, <1>5
<1>8. \A r \in Proc : Forking(r)' <=> Forking(r)
  BY <1>1, <1>7 DEF Forking
<1>9. Unborn' = Unborn
  BY <1>1, <1>8 DEF Unborn, Forking
<1>10. Queued' = Queued /\ Parked' = Parked /\ SleepAt' = SleepAt
  BY <1>1, <1>5, <1>7, <1>9 DEF Queued, Parked, SleepAt
<1>11. RingTyped'
  <2>1. pc' \in [Proc -> {"user"} \union SleepPoints \union ForkPoints]
    BY <1>1, <1>2 DEF ForkPoints
  <2> QED BY <1>1, <1>2, <1>6, <2>1 DEF RingTyped, RingInv
<1>12. PointsExact'
  <2>1. ASSUME NEW r \in Proc
        PROVE  /\ pc'[r] \in Inside => r = rs'.cur /\ intimer' = FALSE
               /\ pc'[r] = "out" => rs'.state[r] = "RUNNING"
               /\ pc'[r] \in {"marked", "aimed", "linked"} => rs'.state[r] = "WAITING"
               /\ rs'.state[r] = "WAITING" => pc'[r] \in {"user", "marked", "aimed", "linked", "slept"}
               /\ rs'.state[r] = "NONE" => pc'[r] = "user"
               /\ pc'[r] \in SleepPoints => r # P1
    BY <1>1, <1>5, <1>7 DEF RingInv, PointsExact, Inside, SleepPoints
  <2>2. /\ rs'.state[rs'.cur] # "NONE" /\ rs'.rest[rs'.cur] > 0
        /\ (pc'[rs'.cur] = "user" => rs'.state[rs'.cur] = "RUNNING")
        /\ (rs'.cur \in Queued' => rs'.sq[rs'.cur] = rs'.active)
        /\ P1 \in Queued'
    BY <1>1, <1>2, <1>3, <1>5, <1>7, <1>10 DEF RingInv, PointsExact
  <2> QED BY <2>1, <2>2 DEF PointsExact
<1>13. ChildrenApart'
  <2>1. \A r \in Proc : Forking(r) => child[r] # p /\ child[r] \in Proc
    BY <1>1, <1>2, InvFacts
  <2> QED BY <1>1, <1>4, <1>5, <1>7, <1>8, <2>1 DEF RingInv, ChildrenApart, Forking
<1>14. Sound(rs', Queued', Parked', SleepAt')
  <2>1. Sound(rs, Queued, Parked, SleepAt) /\ SleepAt \in [Proc -> SleepHeads]
    BY <1>1, InvFacts, HeadsForType DEF SleepAt
  <2>2. \A r \in Queued : rs'.rest[r] > 0
    BY <1>2, <1>3, <1>7, <2>1 DEF Sound
  <2>3. Sound(rs', Queued, Parked, SleepAt)
    BY <1>5, <1>6, <2>1, <2>2, SoundKept
  <2> QED BY <1>10, <2>3
<1>15. pc'[rs'.cur] = "inited"
  BY <1>1, <1>5, <1>7, <1>2
<1> QED BY <1>11, <1>12, <1>13, <1>14, <1>15, InvIntro

LEMMA ForkQueueStep ==
    ASSUME RingInv, NEW p \in Proc, ForkQueue(p)
    PROVE  RingInv'
<1> DEFINE c == child[p]
           x == IF rs.rest[p] \div 2 = 0 THEN 1 ELSE rs.rest[p] \div 2
           k == [rs EXCEPT !.rest[p] = x]
<1>1. /\ p = rs.cur /\ pc[p] = "inited" /\ intimer = FALSE
      /\ rs' = in_sched_queue(k, c)
      /\ child' = [child EXCEPT ![p] = p] /\ pc' = [pc EXCEPT ![p] = "queued"]
      /\ timeout' = timeout /\ intimer' = intimer
  BY DEF ForkQueue, Runs, RingInv, RingTyped
<1>2. /\ rs \in Kernel /\ rs.rest \in [Proc -> Nat] /\ rs.rest[p] > 0
      /\ rs.state \in [Proc -> States]
      /\ P1 \in Queued /\ Queued \subseteq Proc /\ Parked \subseteq Proc
      /\ timeout \in [Proc -> {0} \union Timeouts]
      /\ child \in [Proc -> Proc] /\ c \in Proc
      /\ pc \in [Proc -> {"user"} \union SleepPoints \union ForkPoints]
      /\ Forking(p) /\ p \notin Unborn /\ P1 \notin Unborn
  BY <1>1, InvFacts DEF RingInv, RingTyped, PointsExact, Forking
<1>3. /\ c \in Unborn /\ c # p /\ c \notin Queued /\ c \notin Parked
      /\ rs.state[c] = "RUNNING" /\ rs.rest[c] > 0 /\ pc[c] = "user"
  BY <1>1, <1>2, InvFacts DEF Queued, Parked
<1>4. x \in Nat /\ x > 0
  <2> DEFINE r == rs.rest[p]
  <2>1. r \in Nat
    BY <1>2
  <2> HIDE DEF r
  <2>2. r \div 2 \in Nat
    BY <2>1
  <2> QED BY <2>2 DEF r
<1> HIDE DEF x, c
<1>5. /\ k.cur = rs.cur /\ k.active = rs.active /\ k.count = rs.count
      /\ k.panic = rs.panic /\ k.links = rs.links /\ k.state = rs.state
      /\ k.sq = rs.sq /\ k.wakeup = rs.wakeup /\ k.jiffies = rs.jiffies
      /\ k.rest = [rs.rest EXCEPT ![p] = x] /\ k.rest \in [Proc -> Nat] /\ k \in Kernel
  <2>1. [rs.rest EXCEPT ![p] = x] \in [Proc -> Nat]
    BY <1>2, <1>4
  <2> QED BY <1>2, <2>1 DEF Kernel
<1> HIDE DEF k
<1>6. \A r \in Proc : k.rest[r] = IF r = p THEN x ELSE rs.rest[r]
  BY <1>2, <1>5
<1>7. Sound(k, Queued, Parked, SleepAt)
  <2>1. Sound(rs, Queued, Parked, SleepAt) /\ SleepAt \in [Proc -> SleepHeads]
    BY <1>1, InvFacts, HeadsForType DEF SleepAt
  <2>2. \A r \in Queued : k.rest[r] > 0
    BY <1>2, <1>4, <1>6, <2>1 DEF Sound
  <2> QED BY <1>5, <2>1, <2>2, SoundKept
<1>8. /\ Sound(rs', Queued \union {c}, Parked, SleepAt)
      /\ rs'.cur = rs.cur /\ rs'.active = rs.active
      /\ rs'.wakeup = rs.wakeup
      /\ rs'.state = [rs.state EXCEPT ![c] = "RUNNING"]
      /\ rs'.rest = [k.rest EXCEPT ![c] = IF @ > 0 THEN @ ELSE Nice + 1]
      /\ \A r \in Proc \ {c} : rs'.sq[r] = rs.sq[r]
  <2>1. Sound(rs', Queued \union {c}, Parked, SleepAt) /\ Readied(k, c, rs')
    BY <1>1, <1>2, <1>3, <1>7, InSched
  <2> QED BY <1>5, <2>1 DEF Readied
<1>9. /\ \A r \in Proc : /\ rs'.state[r] = rs.state[r]
                         /\ r # p => rs'.rest[r] = rs.rest[r]
                         /\ pc'[r] = IF r = p THEN "queued" ELSE pc[r]
                         /\ r # p => child'[r] = child[r]
      /\ rs'.rest[p] > 0 /\ child' \in [Proc -> Proc]
  <2>1. \A r \in Proc : rs'.rest[r] = IF r = c /\ ~(k.rest[r] > 0) THEN Nice + 1 ELSE k.rest[r]
    BY <1>5, <1>8
  <2>2. \A r \in Proc : r # p => rs'.rest[r] = rs.rest[r]
    BY <1>3, <1>6, <2>1
  <2>3. rs'.rest[p] > 0
    BY <1>3, <1>4, <1>6, <2>1, <1>2
  <2> QED BY <1>1, <1>2, <1>3, <1>8, <2>2, <2>3
<1>10. \A r \in Proc : Forking(r)' <=> Forking(r) /\ r # p
  BY <1>9 DEF Forking
<1>11. \A r \in Proc : Forking(r) /\ r # p => child[r] # c
  BY <1>2 DEF RingInv, ChildrenApart, c
<1>12. Unborn' = Unborn \ {c}
  <2>1. Unborn = {child[r] : r \in {q \in Proc : Forking(q)}}
    BY DEF Unborn, Forking
  <2>2. Unborn' = {child'[r] : r \in {q \in Proc : Forking(q)'}}
    BY DEF Unborn, Forking
  <2>3. {child'[r] : r \in {q \in Proc : Forking(q)'}}
        = {child[r] : r \in {q \in Proc : Forking(q) /\ q # p}}
    BY <1>9, <1>10
  <2> QED BY <1>2, <1>11, <2>1, <2>2, <2>3 DEF c
<1>13. /\ Queued' = Queued \union {c} /\ Parked' = Parked /\ SleepAt' = SleepAt
  <2>1. ASSUME NEW r \in Proc
        PROVE  /\ r \in Queued' <=> r \in Queued \/ r = c
               /\ r \in Parked' <=> r \in Parked
    BY <1>1, <1>2, <1>3, <1>9, <1>12 DEF Queued, Parked
  <2>2. Queued' \subseteq Proc /\ Parked' \subseteq Proc
    BY DEF Queued, Parked
  <2>3. SleepAt' = SleepAt
    BY <1>1, <1>8 DEF SleepAt
  <2> QED BY <1>2, <2>1, <2>2, <2>3
<1>14. RingTyped'
  <2>1. pc' \in [Proc -> {"user"} \union SleepPoints \union ForkPoints]
    BY <1>1, <1>2 DEF ForkPoints
  <2>2. rs' \in Kernel
    BY <1>8 DEF Sound, Lined
  <2> QED BY <1>1, <1>2, <1>9, <2>1, <2>2 DEF RingTyped, RingInv
<1>15. PointsExact'
  <2>1. ASSUME NEW r \in Proc
        PROVE  /\ pc'[r] \in Inside => r = rs'.cur /\ intimer' = FALSE
               /\ pc'[r] = "out" => rs'.state[r] = "RUNNING"
               /\ pc'[r] \in {"marked", "aimed", "linked"} => rs'.state[r] = "WAITING"
               /\ rs'.state[r] = "WAITING" => pc'[r] \in {"user", "marked", "aimed", "linked", "slept"}
               /\ rs'.state[r] = "NONE" => pc'[r] = "user"
               /\ pc'[r] \in SleepPoints => r # P1
    BY <1>1, <1>8, <1>9 DEF RingInv, PointsExact, Inside, SleepPoints
  <2>2. /\ rs'.state[rs'.cur] # "NONE" /\ rs'.rest[rs'.cur] > 0
        /\ (pc'[rs'.cur] = "user" => rs'.state[rs'.cur] = "RUNNING")
        /\ P1 \in Queued'
    BY <1>1, <1>2, <1>8, <1>9, <1>13 DEF RingInv, PointsExact
  <2>3. rs'.cur \in Queued' => rs'.sq[rs'.cur] = rs'.active
    BY <1>1, <1>3, <1>8, <1>13 DEF RingInv, PointsExact
  <2> QED BY <2>1, <2>2, <2>3 DEF PointsExact
<1>16. ChildrenApart'
  <2>1. \A r \in Proc : Forking(r) => child[r] # p /\ child[r] \in Proc
    BY <1>1, <1>2, InvFacts
  <2> QED BY <1>1, <1>8, <1>9, <1>10, <2>1 DEF RingInv, ChildrenApart, Forking
<1>17. pc'[rs'.cur] = "queued"
  BY <1>1, <1>2, <1>8, <1>9
<1>18. Sound(rs', Queued', Parked', SleepAt')
  BY <1>8, <1>13
<1> QED BY <1>14, <1>15, <1>16, <1>17, <1>18, InvIntro

LEMMA EmptyRingsAreRings ==
    /\ EmptyRings \in Links
    /\ Rings(EmptyRings, [h \in Heads |-> <<>>])
<1>1. EmptyRings \in Links /\ \A h \in Heads : EmptyRings.next[h] = h /\ EmptyRings.pre[h] = h
  BY DEF EmptyRings, Links, Node
<1> DEFINE R == [h \in Heads |-> <<>>]
<1>2. /\ R \in [Heads -> Seq(Node \ Heads)]
      /\ \A h \in Heads : R[h] = <<>> /\ Len(R[h]) = 0 /\ DOMAIN R[h] = {}
  OBVIOUS
<1>3. \A h \in Heads, x \in Node : ~InSeq(x, R[h])
  BY <1>2 DEF InSeq
<1> HIDE DEF R
<1>4. \A h \in Heads : Injective(R[h]) /\ Reads(EmptyRings, h, R[h])
  BY <1>1, <1>2 DEF Injective, Reads, At
<1> QED BY <1>1, <1>2, <1>3, <1>4 DEF Rings, R

LEMMA RingInitInv == Init => RingInv
<1> SUFFICES ASSUME Init PROVE RingInv
  OBVIOUS
<1> DEFINE k == [cur     |-> P1,
                 active  |-> 1,
                 count   |-> [q \in Queues |-> 0],
                 sq      |-> [p \in Proc |-> 1],
                 state   |-> [p \in Proc |-> IF p = P1 THEN "RUNNING" ELSE "NONE"],
                 rest    |-> [p \in Proc |-> BootRest],
                 jiffies |-> 0,
                 wakeup  |-> [p \in Proc |-> 0],
                 links   |-> EmptyRings,
                 panic   |-> FALSE]
<1>1. /\ P1 \in Proc /\ BootRest \in Nat /\ BootRest > 0 /\ 0 \in Jiffies
      /\ 1 \in Queues
  BY RingAssumption DEF Jiffies, Queues
<1>2. /\ rs = in_sched_queue(k, P1)
      /\ pc = [p \in Proc |-> "user"] /\ timeout = [p \in Proc |-> 0]
      /\ child = [p \in Proc |-> p] /\ intimer = FALSE
  BY DEF Init
<1>3. /\ k.cur = P1 /\ k.active = 1 /\ k.links = EmptyRings /\ k.panic = FALSE
      /\ k.count = [q \in Queues |-> 0] /\ k.rest = [p \in Proc |-> BootRest]
      /\ k.sq = [p \in Proc |-> 1]
      /\ k.wakeup = [p \in Proc |-> 0] /\ k.jiffies = 0
      /\ k.state = [p \in Proc |-> IF p = P1 THEN "RUNNING" ELSE "NONE"]
  OBVIOUS
<1>4. k \in Kernel
  <2>1. /\ [q \in Queues |-> 0] \in [Queues -> Int] /\ [p \in Proc |-> BootRest] \in [Proc -> Nat]
        /\ [p \in Proc |-> 0] \in [Proc -> Jiffies] /\ [p \in Proc |-> 1] \in [Proc -> Queues]
        /\ [p \in Proc |-> IF p = P1 THEN "RUNNING" ELSE "NONE"] \in [Proc -> States]
    BY <1>1 DEF States
  <2>2. EmptyRings \in Links
    BY EmptyRingsAreRings
  <2> QED BY <1>1, <2>1, <2>2 DEF Kernel
<1> HIDE DEF k
<1> DEFINE d == HeadsFor(timeout, k.wakeup)
<1>5. d \in [Proc -> SleepHeads]
  BY <1>4, HeadsForType DEF Kernel
<1> HIDE DEF d
<1>6. Sound(k, {}, {}, d)
  <2> DEFINE R == [h \in Heads |-> <<>>]
  <2>1. Rings(k.links, R)
    BY <1>3, EmptyRingsAreRings
  <2>2. QueueLists(k, R, {}) /\ SleepLists(R, {}, d)
    <3>1. \A h \in Heads : \A x : ~InSeq(x, R[h])
      BY DEF InSeq
    <3> HIDE DEF R
    <3> QED BY <3>1 DEF QueueLists, SleepLists
  <2>3. \A q \in Queues : k.count[q] = Cardinality(InQueue(k, {}, q))
    <3>1. \A q : InQueue(k, {}, q) = {}
      BY DEF InQueue
    <3> QED BY <1>3, <3>1, FS_EmptySet
  <2> HIDE DEF R
  <2>4. Lined(k, {}, {}, d)
    BY <1>4, <1>5, <2>1, <2>2, <2>3 DEF Lined
  <2> QED BY <1>3, <2>4 DEF Sound
<1>7. /\ Sound(rs, {P1}, {}, d)
      /\ rs.cur = P1 /\ rs.active = k.active /\ rs.wakeup = k.wakeup
      /\ rs.state = [k.state EXCEPT ![P1] = "RUNNING"]
      /\ rs.rest = [k.rest EXCEPT ![P1] = IF @ > 0 THEN @ ELSE Nice + 1]
      /\ rs.sq[P1] = k.active
  <2>1. k.rest[P1] > 0 /\ {} \union {P1} = {P1}
    BY <1>1, <1>3
  <2>2. Sound(rs, {} \union {P1}, {}, d) /\ Readied(k, P1, rs)
    BY <1>1, <1>2, <1>6, InSched
  <2> QED BY <1>3, <2>1, <2>2 DEF Readied
<1>8. /\ \A p \in Proc : rs.state[p] = IF p = P1 THEN "RUNNING" ELSE "NONE"
      /\ rs.rest[P1] > 0
  BY <1>1, <1>3, <1>7
<1>9. Queued = {P1} /\ Parked = {} /\ SleepAt = d
  <2>1. Unborn = {}
    BY <1>2 DEF Unborn
  <2> QED BY <1>1, <1>2, <1>7, <1>8, <2>1 DEF Queued, Parked, SleepAt, d
<1>10. RingTyped
  BY <1>2, <1>7 DEF RingTyped, Sound, Lined
<1>11. PointsExact
  BY <1>1, <1>2, <1>7, <1>8, <1>9 DEF PointsExact, Inside, SleepPoints
<1>12. ChildrenApart
  BY <1>2 DEF ChildrenApart, Forking
<1>13. Backed(rs, pc[rs.cur], Queued, Parked, SleepAt)
  <2>1. pc[rs.cur] = "user" /\ rs \in Kernel
    BY <1>1, <1>2, <1>7, <1>10 DEF RingTyped
  <2> QED BY <1>7, <1>9, <2>1, Settled
<1> QED BY <1>10, <1>11, <1>12, <1>13 DEF RingInv

LEMMA RingNextInv == Locked /\ RingInv /\ [Next]_vars => RingInv'
<1> SUFFICES ASSUME Locked, RingInv, [Next]_vars PROVE RingInv'
  OBVIOUS
<1>1. CASE UNCHANGED vars
  BY <1>1 DEF vars, RingInv, RingTyped, PointsExact, ChildrenApart, Forking, Queued, Parked,
              Unborn, SleepAt
<1>2. CASE TimerEnter
  BY <1>2, TimerEnterStep
<1>3. CASE TimerWake
  BY <1>3, WakeStep
<1>4. CASE TimerSchedule
  BY <1>4, ScheduleCalls
<1>5. ASSUME NEW p \in Proc, Yield(p) PROVE RingInv'
  BY <1>5, ScheduleCalls
<1>6. ASSUME NEW p \in Proc, Fork(p) PROVE RingInv'
  <2>1. CASE ForkSchedule(p)
    BY <2>1, ScheduleCalls
  <2>2. ASSUME NEW c \in Proc, ForkCopy(p, c) PROVE RingInv'
    BY <2>2, ForkCopyStep
  <2> QED BY <1>6, <2>1, <2>2, ForkInitStep, ForkQueueStep DEF Fork
<1>7. ASSUME NEW p \in Proc, Tsleep(p) PROVE RingInv'
  <2>1. CASE TsleepSchedule(p)
    BY <2>1, ScheduleCalls
  <2>2. ASSUME p \in Sleepers, NEW ticks \in Timeouts, TsleepOut(p, ticks) PROVE RingInv'
    BY <2>2, TsleepOutStep
  <2> QED BY <1>7, <2>1, <2>2, TsleepMarkStep, TsleepInsertStep DEF Tsleep
<1> QED BY <1>1, <1>2, <1>3, <1>4, <1>5, <1>6, <1>7 DEF Next

-----------------------------------------------------------------------------
(***************************************************************************)
(* The theorem.                                                            *)
(***************************************************************************)
LEMMA RingInvExact == RingInv => RingsExact
<1> SUFFICES ASSUME RingInv PROVE RingsExact
  OBVIOUS
<1>1. /\ rs \in Kernel /\ rs.cur \in Proc /\ rs.panic = FALSE /\ rs.links \in Links
      /\ rs.wakeup \in [Proc -> Jiffies] /\ timeout \in [Proc -> {0} \union Timeouts]
      /\ SleepAt \in [Proc -> SleepHeads]
      /\ Queued \subseteq Proc /\ Parked \subseteq Proc
      /\ rs.cur \notin Parked \/ pc[rs.cur] \notin {"aimed", "linked"}
  BY InvFacts, HeadsForType DEF RingInv, RingTyped, SleepAt, Kernel, Parked
<1> DEFINE h == SleepAt[rs.cur]
           n == SleepNode(rs.cur)
<1>2. PICK l \in Links : /\ Sound([rs EXCEPT !.links = l], Queued, Parked, SleepAt)
                         /\ rs.links = Half(l, pc[rs.cur], h, n)
  BY DEF RingInv, Backed
<1> DEFINE k == [rs EXCEPT !.links = l]
<1>3. k.links = l /\ k.sq = rs.sq /\ k.count = rs.count /\ k.panic = rs.panic
  BY <1>1 DEF Kernel
<1>4. Lined(k, Queued, Parked, SleepAt)
  BY <1>2 DEF Sound
<1> HIDE DEF k
<1>5. h \in SleepHeads /\ h \in Node /\ n \in Node /\ n \notin Heads /\ n \notin SchedNodes
      /\ \A q \in Queues : QueueHead(q) # h
  BY <1>1, NodeFacts, HeadFacts DEF SleepHeads, Node, SchedNodes
<1> HIDE DEF h, n
<1>6. /\ \A x \in Node : x # n /\ x # h =>
            rs.links.next[x] = l.next[x] /\ rs.links.pre[x] = l.pre[x]
      /\ pc[rs.cur] # "linked" => \A x \in Node : x # n =>
            rs.links.next[x] = l.next[x] /\ rs.links.pre[x] = l.pre[x]
  <2>1. /\ l.next \in [Node -> Node \union {NULL}] /\ l.pre \in [Node -> Node \union {NULL}]
        /\ Aim(l, h, n).next = [l.next EXCEPT ![n] = l.next[h]]
        /\ Aim(l, h, n).pre = [l.pre EXCEPT ![n] = h]
    BY DEF Links, Aim
  <2>2. \A x \in Node : x # n => Aim(l, h, n).next[x] = l.next[x] /\ Aim(l, h, n).pre[x] = l.pre[x]
    BY <2>1
  <2>3. \A x \in Node : x # n /\ x # h =>
            /\ LinkForward(Aim(l, h, n), h, n).next[x] = l.next[x]
            /\ LinkForward(Aim(l, h, n), h, n).pre[x] = l.pre[x]
    <3> DEFINE a == Aim(l, h, n)
    <3>1. a \in Links
      BY <1>5, LinksKept
    <3> HIDE DEF a
    <3>2. \A x \in Node : x # h => /\ LinkForward(a, h, n).next[x] = a.next[x]
                                   /\ LinkForward(a, h, n).pre[x] = a.pre[x]
      BY <3>1 DEF LinkForward, Links
    <3> QED BY <2>2, <3>2 DEF a
  <2> QED BY <1>2, <2>2, <2>3 DEF Half
<1>7. TypeOK /\ NoPanic
  BY <1>1 DEF RingInv, RingTyped, Kernel, TypeOK, NoPanic
<1>8. QueueRingsExact
  <2>1. SameQueues(k.links, rs.links)
    BY <1>3, <1>5, <1>6, HeadFacts, NodeFacts DEF SleepHeads, SchedNodes, SameQueues
  <2>2. \A q \in Queues :
           /\ WellLinked(rs.links, QueueHead(q))
           /\ {Nth(rs.links, QueueHead(q), i) : i \in 1..Length(rs.links, QueueHead(q))}
              = {SchedNode(p) : p \in InQueue(k, Queued, q)}
    BY <1>1, <1>4, <2>1, QueuesHold
  <2>3. \A q \in Queues : /\ InQueue(k, Queued, q) = {p \in Queued : rs.sq[p] = q}
                          /\ rs.count[q] = Cardinality(InQueue(k, Queued, q))
    BY <1>3, <1>4 DEF InQueue, Lined
  <2> QED BY <2>2, <2>3 DEF QueueRingsExact, Holds
<1>9. SleepRingsExact
  <2> SUFFICES ASSUME pc[rs.cur] # "linked"
               PROVE  /\ Holds(WaitHead, {SleepNode(p) : p \in {r \in Parked : timeout[r] = 0}})
                      /\ \A s \in Slots :
                            Holds(SlotHead(s),
                                  {SleepNode(p) : p \in {r \in Parked :
                                                            /\ timeout[r] # 0
                                                            /\ WHEEL_HASH(rs.wakeup[r]) = s}})
    BY <1>1 DEF SleepRingsExact
  <2>1. Lined(rs, Queued, Parked, SleepAt)
    <3>1. CASE pc[rs.cur] = "aimed"
      <4>1. \A x \in Heads : rs.links.next[x] = k.links.next[x] /\ rs.links.pre[x] = k.links.pre[x]
        BY <1>3, <1>5, <1>6 DEF Node
      <4>2. \A p \in Queued : /\ rs.links.next[SchedNode(p)] = k.links.next[SchedNode(p)]
                              /\ rs.links.pre[SchedNode(p)] = k.links.pre[SchedNode(p)]
        BY <1>1, <1>3, <1>5, <1>6, NodeFacts
      <4>3. \A p \in Parked : /\ rs.links.next[SleepNode(p)] = k.links.next[SleepNode(p)]
                              /\ rs.links.pre[SleepNode(p)] = k.links.pre[SleepNode(p)]
        <5>1. \A p \in Parked : SleepNode(p) \in Node /\ SleepNode(p) # n
          BY <1>1, <3>1, NodeFacts DEF n
        <5> QED BY <1>3, <1>6, <5>1
      <4>4. \A p \in Queued : rs.sq[p] = k.sq[p]
        BY <1>3
      <4> QED BY <1>1, <1>3, <1>4, <4>1, <4>2, <4>3, <4>4, LinedKept
    <3>2. CASE pc[rs.cur] # "aimed"
      <4>1. rs.links = l
        BY <1>2, <3>2 DEF Half
      <4>2. k = rs
        BY <1>1, <4>1 DEF k, Kernel
      <4> QED BY <1>4, <4>2
    <3> QED BY <3>1, <3>2
  <2>2. \A g \in SleepHeads :
           Holds(g, {SleepNode(p) : p \in {r \in Parked : SleepAt[r] = g}})
    BY <2>1, SleepersHold DEF Holds
  <2>3. ASSUME NEW r \in Parked
        PROVE  /\ SleepAt[r] = WaitHead <=> timeout[r] = 0
               /\ \A s \in Slots : SleepAt[r] = SlotHead(s)
                                   <=> timeout[r] # 0 /\ WHEEL_HASH(rs.wakeup[r]) = s
    <3>1. r \in Proc /\ WHEEL_HASH(rs.wakeup[r]) \in Slots
      <4>1. rs.wakeup[r] \in Nat /\ WHEEL_SIZE \in Nat \ {0}
        BY <1>1, RingAssumption DEF Jiffies
      <4> QED BY <1>1, <4>1 DEF WHEEL_HASH, Slots
    <3>2. SleepAt[r] = IF timeout[r] = 0 THEN WaitHead ELSE SlotHead(WHEEL_HASH(rs.wakeup[r]))
      BY <3>1 DEF SleepAt, HeadsFor
    <3> QED BY <3>1, <3>2, HeadFacts
  <2>4. WaitHead \in SleepHeads /\ \A s \in Slots : SlotHead(s) \in SleepHeads
    BY DEF SleepHeads
  <2>5. {r \in Parked : SleepAt[r] = WaitHead} = {r \in Parked : timeout[r] = 0}
    BY <2>3
  <2>6. \A s \in Slots : {r \in Parked : SleepAt[r] = SlotHead(s)}
                         = {r \in Parked : timeout[r] # 0 /\ WHEEL_HASH(rs.wakeup[r]) = s}
    BY <2>3
  <2> QED BY <2>2, <2>4, <2>5, <2>6
<1> QED BY <1>7, <1>8, <1>9 DEF RingsExact

\* RingsExact of SchedRing, for every set of processes, every set of sleepers that
\* process1 is not in, and wheels and counters of any size: when no tick is taken
\* inside sys_tsleep before schedule, no node is ever lost or half linked in the
\* run queues, the wait list and the slots of the wheel, each ring holds exactly the
\* processes it should, and no assertion of in_sched_queue and out_sched_queue fails.
THEOREM RingsAlwaysExact == Locked => (Spec => []RingsExact)
<1>1. ASSUME Locked PROVE Spec => []RingInv
  <2>1. RingInv /\ [Next]_vars => RingInv'
    BY <1>1, RingNextInv
  <2> QED BY <2>1, RingInitInv, PTL DEF Spec
<1>2. ASSUME Locked PROVE Spec => []RingsExact
  BY <1>1, <1>2, RingInvExact, PTL
<1> QED BY <1>2
=============================================================================
