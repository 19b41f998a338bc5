---------------------------- MODULE SyncOpsProofs ---------------------------
(***************************************************************************)
(* What the routines of sched.c, wait.c and ksemaphore.c keep, for every   *)
(* set of processes, nice value, quantum and wheel size: the lemmas that   *)
(* the proofs about their callers rest on.                                 *)
(***************************************************************************)
EXTENDS SyncOps, Folds, FiniteSetTheorems, SequenceTheorems, NaturalsInduction, TLAPS

-----------------------------------------------------------------------------
(***************************************************************************)
(* Lists.                                                                  *)
(***************************************************************************)

\* Appending a new member keeps a list free of repetitions.
LEMMA AppendList ==
    ASSUME NEW s \in Seq(Proc), Injective(s), NEW p \in Proc, ~InSeq(p, s)
    PROVE  /\ Append(s, p) \in Seq(Proc)
           /\ Injective(Append(s, p))
           /\ \A x \in Proc : InSeq(x, Append(s, p)) <=> InSeq(x, s) \/ x = p
           /\ Append(s, p) # <<>>
           /\ s # <<>> => Head(Append(s, p)) = Head(s)
<1> DEFINE a == Append(s, p)
<1>1. /\ a \in Seq(Proc)
      /\ Len(a) = Len(s) + 1
      /\ \A i \in 1..Len(s) : a[i] = s[i]
      /\ a[Len(s) + 1] = p
  OBVIOUS
<1>2. DOMAIN s = 1..Len(s) /\ DOMAIN a = 1..(Len(s) + 1) /\ Len(s) \in Nat
  BY <1>1
<1> HIDE DEF a
<1>3. Injective(a)
  BY <1>1, <1>2 DEF Injective, InSeq
<1>4. \A x \in Proc : InSeq(x, a) <=> InSeq(x, s) \/ x = p
  <2> SUFFICES ASSUME NEW x \in Proc PROVE InSeq(x, a) <=> InSeq(x, s) \/ x = p
    OBVIOUS
  <2>1. ASSUME InSeq(x, a) PROVE InSeq(x, s) \/ x = p
    BY <2>1, <1>1, <1>2 DEF InSeq
  <2>2. ASSUME InSeq(x, s) PROVE InSeq(x, a)
    BY <2>2, <1>1, <1>2 DEF InSeq
  <2>3. ASSUME x = p PROVE InSeq(x, a)
    <3>1. Len(s) + 1 \in DOMAIN a
      BY <1>2
    <3> QED BY <2>3, <3>1, <1>1 DEF InSeq
  <2> QED BY <2>1, <2>2, <2>3
<1>5. a # <<>>
  BY <1>1, <1>2
<1>6. s # <<>> => Head(a) = Head(s)
  BY <1>1, <1>2
<1> QED BY <1>1, <1>3, <1>4, <1>5, <1>6 DEF a

\* So does putting it in front.
LEMMA InsertList ==
    ASSUME NEW S, NEW s \in Seq(S), Injective(s), NEW p \in S, ~InSeq(p, s)
    PROVE  /\ Insert(s, p) \in Seq(S) /\ Len(Insert(s, p)) = Len(s) + 1
           /\ Injective(Insert(s, p))
           /\ \A x \in S : InSeq(x, Insert(s, p)) <=> InSeq(x, s) \/ x = p
<1> DEFINE a == Insert(s, p)
<1>1. /\ a \in Seq(S)
      /\ Len(a) = Len(s) + 1
      /\ \A i \in 1..Len(s) : a[i + 1] = s[i]
      /\ a[1] = p
  BY DEF Insert
<1>2. DOMAIN s = 1..Len(s) /\ DOMAIN a = 1..(Len(s) + 1) /\ Len(s) \in Nat
  BY <1>1
<1> HIDE DEF a
<1>3. \A i \in DOMAIN a : i = 1 \/ (i - 1 \in DOMAIN s /\ a[i] = s[i - 1])
  BY <1>1, <1>2
<1>4. Injective(a)
  BY <1>1, <1>2, <1>3 DEF Injective, InSeq
<1>5. \A x \in S : InSeq(x, a) <=> InSeq(x, s) \/ x = p
  <2> SUFFICES ASSUME NEW x \in S PROVE InSeq(x, a) <=> InSeq(x, s) \/ x = p
    OBVIOUS
  <2>1. ASSUME InSeq(x, a) PROVE InSeq(x, s) \/ x = p
    BY <2>1, <1>1, <1>3 DEF InSeq
  <2>2. ASSUME InSeq(x, s) PROVE InSeq(x, a)
    <3>1. PICK i \in DOMAIN s : s[i] = x
      BY <2>2 DEF InSeq
    <3>2. i + 1 \in DOMAIN a /\ a[i + 1] = x
      BY <3>1, <1>1, <1>2
    <3> QED BY <3>2 DEF InSeq
  <2>3. ASSUME x = p PROVE InSeq(x, a)
    <3>1. 1 \in DOMAIN a
      BY <1>2
    <3> QED BY <2>3, <3>1, <1>1 DEF InSeq
  <2> QED BY <2>1, <2>2, <2>3
<1> QED BY <1>1, <1>4, <1>5 DEF a

\* Unlinking a member removes it and nothing else.
LEMMA UnlinkList ==
    ASSUME NEW s \in Seq(Proc), Injective(s), NEW p \in Proc, InSeq(p, s)
    PROVE  /\ Unlink(s, p) \in Seq(Proc)
           /\ Injective(Unlink(s, p))
           /\ \A x \in Proc : InSeq(x, Unlink(s, p)) <=> InSeq(x, s) /\ x # p
<1> DEFINE n == Position(s, p)
           u == Unlink(s, p)
<1>1. n \in DOMAIN s /\ s[n] = p
  BY DEF Position, InSeq
<1>2. DOMAIN s = 1..Len(s) /\ Len(s) \in Nat
  OBVIOUS
<1>3. u = [i \in 1..(Len(s) - 1) |-> IF i < n THEN s[i] ELSE s[i + 1]]
  BY DEF Unlink
<1>4. \A i \in 1..(Len(s) - 1) : i \in DOMAIN s /\ i + 1 \in DOMAIN s
  BY <1>2
<1>5. Len(s) - 1 \in Nat
  BY <1>1, <1>2
<1> HIDE DEF n, u
<1>6. /\ DOMAIN u = 1..(Len(s) - 1)
      /\ \A i \in DOMAIN u : u[i] = IF i < n THEN s[i] ELSE s[i + 1]
  BY <1>3
<1>7. \A i \in DOMAIN u : u[i] \in Proc
  BY <1>6, <1>4
<1>8. u \in Seq(Proc)
  BY <1>3, <1>5, <1>4
<1>9. Injective(u)
  <2> SUFFICES ASSUME NEW i \in DOMAIN u, NEW j \in DOMAIN u, u[i] = u[j]
               PROVE  i = j
    BY DEF Injective
  <2>1. \A a, b \in DOMAIN s : s[a] = s[b] => a = b
    BY DEF Injective
  <2>2. i \in Int /\ j \in Int /\ n \in Int
    BY <1>6, <1>1, <1>2
  <2> DEFINE At(x) == IF x < n THEN x ELSE x + 1
  <2>3. \A x \in DOMAIN u : At(x) \in DOMAIN s /\ s[At(x)] = u[x]
    BY <1>4, <1>6
  <2>4. At(i) = At(j)
    BY <2>1, <2>3
  <2> QED BY <2>2, <2>4
<1>10. \A x \in Proc : InSeq(x, u) <=> InSeq(x, s) /\ x # p
  <2> SUFFICES ASSUME NEW x \in Proc
               PROVE  InSeq(x, u) <=> InSeq(x, s) /\ x # p
    OBVIOUS
  <2>1. ASSUME InSeq(x, u) PROVE InSeq(x, s) /\ x # p
    <3>1. PICK i \in DOMAIN u : u[i] = x
      BY <2>1 DEF InSeq
    <3>2. PICK j \in DOMAIN s : s[j] = x /\ j # n
      <4>1. CASE i < n
        BY <4>1, <3>1, <1>4, <1>6
      <4>2. CASE ~(i < n)
        <5>1. i + 1 # n
          BY <4>2, <1>1, <1>2, <1>6
        <5> QED BY <5>1, <4>2, <3>1, <1>4, <1>6
      <4> QED BY <4>1, <4>2
    <3> QED BY <3>2, <1>1 DEF InSeq, Injective
  <2>2. ASSUME InSeq(x, s), x # p PROVE InSeq(x, u)
    <3>1. PICK i \in DOMAIN s : s[i] = x
      BY <2>2 DEF InSeq
    <3>2. CASE i < n
      <4>1. i \in DOMAIN u /\ u[i] = x
        BY <3>1, <3>2, <1>1, <1>2, <1>6
      <4> QED BY <4>1 DEF InSeq
    <3>3. CASE i > n
      <4>1. i - 1 \in DOMAIN u /\ ~(i - 1 < n)
        BY <3>3, <1>1, <1>2, <1>6
      <4>2. u[i - 1] = x
        BY <4>1, <3>1, <1>2, <1>6
      <4> QED BY <4>1, <4>2 DEF InSeq
    <3> QED BY <3>1, <3>2, <3>3, <2>2, <1>1, <1>2
  <2> QED BY <2>1, <2>2
<1> QED BY <1>8, <1>9, <1>10 DEF u

-----------------------------------------------------------------------------
(***************************************************************************)
(* What the queues, the wheel and the states agree on while a set D of     *)
(* processes is detached from them.                                        *)
(***************************************************************************)
Typed(k) ==
    /\ k \in KernelState
    /\ \A p \in Proc : k.nice[p] = BootNice

Base(k, D) ==
    /\ Typed(k)
    /\ RunQueuesExactFor(k, D)
    /\ CountsExactFor(k, D)
    /\ WaitQueuesExactFor(k, D)
    /\ ~k.panic

\* A change of nothing the queues and the wheel depend on.
SameQueues(k, m) ==
    /\ m.levels = k.levels /\ m.count = k.count /\ m.sq = k.sq
    /\ m.state = k.state /\ m.nice = k.nice
    /\ m.wheel = k.wheel /\ m.waitlist = k.waitlist /\ m.wakeup = k.wakeup
    /\ m.panic = k.panic

LEMMA Frame ==
    ASSUME NEW k, NEW m, NEW D, Base(k, D), Typed(m), SameQueues(k, m)
    PROVE  Base(m, D)
<1>1. \A q : Members(m, D, q) = Members(k, D, q)
  BY DEF Members, Runnable, SameQueues
<1>2. RunQueuesExactFor(m, D)
  BY <1>1 DEF RunQueuesExactFor, SameQueues, Base
<1>3. CountsExactFor(m, D)
  BY <1>1 DEF CountsExactFor, SameQueues, Base
<1>4. WaitQueuesExactFor(m, D)
  BY DEF WaitQueuesExactFor, SameQueues, Base
<1> QED BY <1>2, <1>3, <1>4 DEF Base, SameQueues

\* The run queues are as exact as before when their members are the same.
LEMMA SameMembers ==
    ASSUME NEW k, NEW m, NEW D, NEW E,
           Base(k, D), m.levels = k.levels, m.count = k.count, m.nice = k.nice,
           \A q : Members(m, E, q) = Members(k, D, q)
    PROVE  RunQueuesExactFor(m, E) /\ CountsExactFor(m, E)
<1>1. RunQueuesExactFor(m, E)
  BY DEF RunQueuesExactFor, Base
<1>2. CountsExactFor(m, E)
  BY DEF CountsExactFor, Base
<1> QED BY <1>1, <1>2

LEMMA MembersFinite ==
    ASSUME NEW k, NEW D, NEW q
    PROVE  IsFiniteSet(Members(k, D, q))
<1>1. Members(k, D, q) \subseteq Proc
  BY DEF Members, Runnable
<1> QED BY <1>1, ProcAssumption, FS_Subset

LEMMA BootNiceIsLevel == BootNice \in Levels /\ BootNice + 1 \in 1..(REST_MOD - 1)
BY LevelAssumption DEF Levels

\* What m has in common with k but the members of the run queues.
RestOf(k, m) ==
    /\ m.state = k.state /\ m.nice = k.nice /\ m.rest = k.rest
    /\ m.wheel = k.wheel /\ m.waitlist = k.waitlist /\ m.wakeup = k.wakeup
    /\ m.panic = k.panic /\ m.cur = k.cur /\ m.active = k.active
    /\ m.jiffies = k.jiffies /\ m.ctx = k.ctx

\* The fields Enqueue and Dequeue change.
Linked(k, q, p, m) ==
    /\ m.levels = [k.levels EXCEPT ![q] =
                     [k.levels[q] EXCEPT ![BootNice] = Append(k.levels[q][BootNice], p)]]
    /\ m.sq = [k.sq EXCEPT ![p] = q]
    /\ m.count = [k.count EXCEPT ![q] = k.count[q] + 1]
    /\ RestOf(k, m)

Unlinked(k, q, p, m) ==
    /\ m.levels = [k.levels EXCEPT ![q] =
                     [k.levels[q] EXCEPT ![BootNice] = Unlink(k.levels[q][BootNice], p)]]
    /\ m.sq = k.sq
    /\ m.count = [k.count EXCEPT ![q] = k.count[q] - 1]
    /\ RestOf(k, m)

LEMMA EnqueueFields ==
    ASSUME NEW k, Typed(k), NEW q \in Queues, NEW p \in Proc
    PROVE  Linked(k, q, p, Enqueue(k, q, p)) /\ Typed(Enqueue(k, q, p))
<1> DEFINE m == Enqueue(k, q, p)
<1>1. k.nice[p] = BootNice /\ BootNice \in Levels
  BY BootNiceIsLevel DEF Typed
<1>2. Linked(k, q, p, m)
  BY <1>1 DEF Enqueue, Typed, KernelState, Linked, RestOf
<1>3. m \in KernelState
  <2>1. Append(k.levels[q][BootNice], p) \in Seq(Proc)
    BY <1>1 DEF Typed, KernelState
  <2>2. [k.levels[q] EXCEPT ![BootNice] = Append(k.levels[q][BootNice], p)]
            \in [Levels -> Seq(Proc)]
    BY <2>1, <1>1 DEF Typed, KernelState
  <2>3. /\ m.levels \in [Queues -> [Levels -> Seq(Proc)]]
        /\ m.sq \in [Proc -> Queues]
        /\ m.count \in [Queues -> Int]
    <3>1. /\ k.levels \in [Queues -> [Levels -> Seq(Proc)]]
          /\ k.sq \in [Proc -> Queues] /\ k.count \in [Queues -> Int]
      BY DEF Typed, KernelState
    <3>2. /\ m.levels = [k.levels EXCEPT ![q] =
                            [k.levels[q] EXCEPT ![BootNice] = Append(k.levels[q][BootNice], p)]]
          /\ m.sq = [k.sq EXCEPT ![p] = q]
          /\ m.count = [k.count EXCEPT ![q] = k.count[q] + 1]
      BY <1>2 DEF Linked
    <3> HIDE DEF m
    <3> QED BY <2>2, <3>1, <3>2
  <2>4. m = [k EXCEPT !.levels = m.levels, !.sq = m.sq, !.count = m.count]
    BY <1>1 DEF Enqueue, Typed, KernelState
  <2> HIDE DEF m
  <2> QED BY <2>3, <2>4 DEF Typed, KernelState
<1>4. Typed(m)
  BY <1>2, <1>3 DEF Typed, Linked, RestOf
<1> QED BY <1>2, <1>4

\* Linking a detached running process into a queue.
LEMMA EnqueueBase ==
    ASSUME NEW k, NEW D, Base(k, D), NEW q \in Queues, NEW p \in Proc,
           p \in D, k.state[p] = "RUNNING"
    PROVE  Base(Enqueue(k, q, p), D \ {p})
<1> DEFINE m == Enqueue(k, q, p)
           E == D \ {p}
           s == k.levels[q][BootNice]
<1>1. Typed(k) /\ Typed(m) /\ BootNice \in Levels
  BY EnqueueFields, BootNiceIsLevel DEF Base
<1>2. /\ m.levels = [k.levels EXCEPT ![q] = [k.levels[q] EXCEPT ![BootNice] = Append(s, p)]]
      /\ m.sq = [k.sq EXCEPT ![p] = q]
      /\ m.count = [k.count EXCEPT ![q] = k.count[q] + 1]
      /\ m.state = k.state /\ m.nice = k.nice
      /\ m.wheel = k.wheel /\ m.waitlist = k.waitlist /\ m.wakeup = k.wakeup
      /\ m.panic = k.panic
  BY <1>1, EnqueueFields DEF Linked, RestOf
<1>3. /\ k.levels \in [Queues -> [Levels -> Seq(Proc)]]
      /\ k.sq \in [Proc -> Queues] /\ k.count \in [Queues -> Int]
      /\ \A x \in Proc : k.nice[x] = BootNice
  BY <1>1 DEF Typed, KernelState
<1> HIDE DEF m
<1>4. /\ Members(m, E, q) = Members(k, D, q) \union {p}
      /\ p \notin Members(k, D, q)
      /\ \A r \in Queues : r # q => Members(m, E, r) = Members(k, D, r)
  BY <1>2, <1>3 DEF Members, Runnable
<1>5. /\ s \in Seq(Proc) /\ Injective(s)
      /\ \A x \in Proc : InSeq(x, s) <=> x \in Members(k, D, q)
  BY <1>1, <1>3 DEF Base, RunQueuesExactFor
<1>6. /\ Injective(Append(s, p))
      /\ \A x \in Proc : InSeq(x, Append(s, p)) <=> InSeq(x, s) \/ x = p
  BY <1>4, <1>5, AppendList
<1>7. RunQueuesExactFor(m, E)
  <2> SUFFICES ASSUME NEW r \in Queues, NEW l \in Levels
               PROVE  /\ Injective(m.levels[r][l])
                      /\ \A x \in Proc : InSeq(x, m.levels[r][l]) <=>
                                            x \in Members(m, E, r) /\ m.nice[x] = l
    BY DEF RunQueuesExactFor
  <2>1. CASE r = q /\ l = BootNice
    <3>1. m.levels[r][l] = Append(s, p)
      BY <2>1, <1>1, <1>2, <1>3
    <3> QED BY <3>1, <2>1, <1>2, <1>3, <1>4, <1>5, <1>6
  <2>2. CASE ~(r = q /\ l = BootNice)
    <3>1. m.levels[r][l] = k.levels[r][l]
      BY <2>2, <1>1, <1>2, <1>3
    <3>2. \A x \in Proc : (x \in Members(m, E, r) /\ m.nice[x] = l) <=>
                             (x \in Members(k, D, r) /\ k.nice[x] = l)
      <4>1. CASE r # q
        BY <4>1, <1>2, <1>4
      <4>2. CASE l # BootNice
        BY <4>2, <1>2, <1>3
      <4> QED BY <4>1, <4>2, <2>2
    <3> QED BY <3>1, <3>2 DEF Base, RunQueuesExactFor
  <2> QED BY <2>1, <2>2
<1>8. CountsExactFor(m, E)
  <2> SUFFICES ASSUME NEW r \in Queues
               PROVE  m.count[r] = Cardinality(Members(m, E, r))
    BY DEF CountsExactFor
  <2>1. k.count[r] = Cardinality(Members(k, D, r))
    BY DEF Base, CountsExactFor
  <2>2. CASE r = q
    <3>1. Cardinality(Members(k, D, q) \union {p}) = Cardinality(Members(k, D, q)) + 1
      BY <1>4, MembersFinite, FS_AddElement
    <3> QED BY <3>1, <2>1, <2>2, <1>2, <1>3, <1>4
  <2>3. CASE r # q
    BY <2>1, <2>3, <1>2, <1>3, <1>4
  <2> QED BY <2>2, <2>3
<1>9. WaitQueuesExactFor(m, E)
  BY <1>2 DEF Base, WaitQueuesExactFor
<1> QED BY <1>1, <1>2, <1>7, <1>8, <1>9 DEF Base, m

LEMMA DequeueFields ==
    ASSUME NEW k, Typed(k), NEW p \in Proc
    PROVE  Unlinked(k, k.sq[p], p, Dequeue(k, p))
<1> DEFINE m == Dequeue(k, p)
<1>1. k.nice[p] = BootNice /\ BootNice \in Levels
  BY BootNiceIsLevel DEF Typed
<1> QED BY <1>1 DEF Dequeue, Typed, KernelState, Unlinked, RestOf

\* Unlinking a running process detaches it.
LEMMA DequeueBase ==
    ASSUME NEW k, NEW D, Base(k, D), NEW p \in Proc,
           p \notin D, k.state[p] = "RUNNING"
    PROVE  Base(Dequeue(k, p), D \union {p})
<1> DEFINE m == Dequeue(k, p)
           E == D \union {p}
           q == k.sq[p]
           s == k.levels[q][BootNice]
<1>1. Typed(k) /\ BootNice \in Levels
  BY BootNiceIsLevel DEF Base
<1>2. /\ m.levels = [k.levels EXCEPT ![q] = [k.levels[q] EXCEPT ![BootNice] = Unlink(s, p)]]
      /\ m.count = [k.count EXCEPT ![q] = k.count[q] - 1]
      /\ m.state = k.state /\ m.nice = k.nice /\ m.sq = k.sq
      /\ m.wheel = k.wheel /\ m.waitlist = k.waitlist /\ m.wakeup = k.wakeup
      /\ m.panic = k.panic
  BY <1>1, DequeueFields DEF Unlinked, RestOf
<1>11. m = [k EXCEPT !.levels = m.levels, !.count = m.count]
  BY <1>1 DEF Dequeue, Typed, KernelState
<1>3. /\ k.levels \in [Queues -> [Levels -> Seq(Proc)]]
      /\ k.sq \in [Proc -> Queues] /\ k.count \in [Queues -> Int]
      /\ \A x \in Proc : k.nice[x] = BootNice
      /\ q \in Queues
  BY <1>1 DEF Typed, KernelState
<1> HIDE DEF m
<1>4. /\ Members(m, E, q) = Members(k, D, q) \ {p}
      /\ p \in Members(k, D, q)
      /\ \A r \in Queues : r # q => Members(m, E, r) = Members(k, D, r)
  BY <1>2, <1>3 DEF Members, Runnable
<1> HIDE DEF q
<1>5. /\ s \in Seq(Proc) /\ Injective(s)
      /\ \A x \in Proc : InSeq(x, s) <=> x \in Members(k, D, q)
  BY <1>1, <1>3 DEF Base, RunQueuesExactFor
<1>6. /\ Unlink(s, p) \in Seq(Proc)
      /\ Injective(Unlink(s, p))
      /\ \A x \in Proc : InSeq(x, Unlink(s, p)) <=> InSeq(x, s) /\ x # p
  BY <1>4, <1>5, UnlinkList
<1>7. Typed(m)
  <2>1. [k.levels[q] EXCEPT ![BootNice] = Unlink(s, p)] \in [Levels -> Seq(Proc)]
    BY <1>3, <1>6
  <2>2. /\ m.levels \in [Queues -> [Levels -> Seq(Proc)]]
        /\ m.count \in [Queues -> Int]
    BY <2>1, <1>2, <1>3
  <2>3. m \in KernelState
    BY <2>2, <1>1, <1>11 DEF Typed, KernelState
  <2> QED BY <2>3, <1>1, <1>2 DEF Typed
<1>8. RunQueuesExactFor(m, E)
  <2> SUFFICES ASSUME NEW r \in Queues, NEW l \in Levels
               PROVE  /\ Injective(m.levels[r][l])
                      /\ \A x \in Proc : InSeq(x, m.levels[r][l]) <=>
                                            x \in Members(m, E, r) /\ m.nice[x] = l
    BY DEF RunQueuesExactFor
  <2>1. CASE r = q /\ l = BootNice
    <3>1. m.levels[r][l] = Unlink(s, p)
      BY <2>1, <1>1, <1>2, <1>3
    <3> QED BY <3>1, <2>1, <1>2, <1>3, <1>4, <1>5, <1>6
  <2>2. CASE ~(r = q /\ l = BootNice)
    <3>1. m.levels[r][l] = k.levels[r][l]
      BY <2>2, <1>1, <1>2, <1>3
    <3>2. \A x \in Proc : (x \in Members(m, E, r) /\ m.nice[x] = l) <=>
                             (x \in Members(k, D, r) /\ k.nice[x] = l)
      <4>1. CASE r # q
        BY <4>1, <1>2, <1>4
      <4>2. CASE l # BootNice
        BY <4>2, <1>2, <1>3
      <4> QED BY <4>1, <4>2, <2>2
    <3> QED BY <3>1, <3>2 DEF Base, RunQueuesExactFor
  <2> QED BY <2>1, <2>2
<1>9. CountsExactFor(m, E)
  <2> SUFFICES ASSUME NEW r \in Queues
               PROVE  m.count[r] = Cardinality(Members(m, E, r))
    BY DEF CountsExactFor
  <2>1. k.count[r] = Cardinality(Members(k, D, r))
    BY DEF Base, CountsExactFor
  <2>2. CASE r = q
    <3>1. Cardinality(Members(k, D, q) \ {p}) = Cardinality(Members(k, D, q)) - 1
      BY <1>4, MembersFinite, FS_RemoveElement
    <3> QED BY <3>1, <2>1, <2>2, <1>2, <1>3, <1>4
  <2>3. CASE r # q
    BY <2>1, <2>3, <1>2, <1>3, <1>4
  <2> QED BY <2>2, <2>3
<1>10. WaitQueuesExactFor(m, E)
  <2>1. \A x \in Proc : k.state[x] = "WAITING" => (x \in E <=> x \in D)
    OBVIOUS
  <2> QED BY <2>1, <1>2 DEF Base, WaitQueuesExactFor
<1> QED BY <1>2, <1>7, <1>8, <1>9, <1>10 DEF Base, m

-----------------------------------------------------------------------------
(***************************************************************************)
(* wait.c                                                                  *)
(***************************************************************************)
LEMMA HashIsSlot ==
    /\ \A t \in Nat : t % JIFFIES_MOD \in Jiffies
    /\ \A t \in Jiffies : WHEEL_HASH(t) \in Slots /\ t \in Nat
BY WheelAssumption DEF WHEEL_HASH, Slots, Jiffies

\* A detached process goes to the wait list.
LEMMA KwaitBase ==
    ASSUME NEW k, NEW D, Base(k, D), NEW p \in Proc, p \in D
    PROVE  Base(kwait(k, p), D \ {p})
<1> DEFINE m == kwait(k, p)
           E == D \ {p}
<1>1. /\ m.levels = k.levels /\ m.count = k.count /\ m.sq = k.sq /\ m.nice = k.nice
      /\ m.state = [k.state EXCEPT ![p] = "WAITING"]
      /\ m.wheel = k.wheel /\ m.waitlist = k.waitlist \union {p} /\ m.wakeup = k.wakeup
      /\ m.panic = k.panic
      /\ k.state \in [Proc -> ProcState]
      /\ m \in KernelState
  BY DEF kwait, Base, Typed, KernelState, ProcState
<1> HIDE DEF m
<1>2. Typed(m)
  BY <1>1 DEF Base, Typed
<1>3. \A q : Members(m, E, q) = Members(k, D, q)
  BY <1>1 DEF Members, Runnable
<1>4. RunQueuesExactFor(m, E) /\ CountsExactFor(m, E)
  BY <1>1, <1>3, SameMembers
<1>5. WaitQueuesExactFor(m, E)
  BY <1>1 DEF Base, WaitQueuesExactFor
<1> QED BY <1>1, <1>2, <1>4, <1>5 DEF Base, m

\* A detached process goes to the wheel slot of its deadline.
LEMMA KsleepBase ==
    ASSUME NEW k, NEW D, Base(k, D), NEW p \in Proc, p \in D, NEW tick \in Jiffies
    PROVE  Base(ksleep(k, p, tick), D \ {p})
<1> DEFINE m == ksleep(k, p, tick)
           E == D \ {p}
           due == (tick + k.jiffies) % JIFFIES_MOD
           h == WHEEL_HASH(due)
<1>1. due \in Jiffies /\ h \in Slots
  <2>1. k.jiffies \in Jiffies
    BY DEF Base, Typed, KernelState
  <2>2. tick + k.jiffies \in Nat
    BY <2>1 DEF Jiffies
  <2> QED BY <2>2, HashIsSlot
<1>2. /\ k.wheel \in [Slots -> Seq(Proc)]
      /\ k.state \in [Proc -> ProcState]
      /\ k.wakeup \in [Proc -> Jiffies]
  BY DEF Base, Typed, KernelState
<1>3. /\ m.levels = k.levels /\ m.count = k.count /\ m.sq = k.sq /\ m.nice = k.nice
      /\ m.state = [k.state EXCEPT ![p] = "WAITING"]
      /\ m.wakeup = [k.wakeup EXCEPT ![p] = due]
      /\ m.wheel = [k.wheel EXCEPT ![h] = Insert(k.wheel[h], p)]
      /\ m.waitlist = k.waitlist
      /\ m.panic = k.panic
  BY DEF ksleep, Base, Typed, KernelState
<1>10. m = [k EXCEPT !.state = m.state, !.wakeup = m.wakeup, !.wheel = m.wheel]
  BY DEF ksleep, Base, Typed, KernelState
<1> HIDE DEF m, due, h
<1>4. /\ Injective(k.wheel[h]) /\ ~InSeq(p, k.wheel[h]) /\ k.wheel[h] \in Seq(Proc)
      /\ p \notin k.waitlist
  BY <1>1, <1>2 DEF Base, WaitQueuesExactFor
<1>5. /\ Insert(k.wheel[h], p) \in Seq(Proc)
      /\ Injective(Insert(k.wheel[h], p))
      /\ \A x \in Proc : InSeq(x, Insert(k.wheel[h], p)) <=> InSeq(x, k.wheel[h]) \/ x = p
  BY <1>4, InsertList
<1>6. Typed(m)
  <2>1. /\ m.state \in [Proc -> ProcState]
        /\ m.wakeup \in [Proc -> Jiffies]
        /\ m.wheel \in [Slots -> Seq(Proc)]
    BY <1>1, <1>2, <1>3, <1>5 DEF ProcState
  <2>2. m \in KernelState
    BY <2>1, <1>10 DEF Base, Typed, KernelState
  <2> QED BY <2>2, <1>3 DEF Base, Typed
<1>7. \A q : Members(m, E, q) = Members(k, D, q)
  BY <1>2, <1>3 DEF Members, Runnable
<1>8. RunQueuesExactFor(m, E) /\ CountsExactFor(m, E)
  <2>1. m.levels = k.levels /\ m.count = k.count /\ m.nice = k.nice
    BY <1>3
  <2> HIDE DEF E
  <2> QED BY <1>7, <2>1, SameMembers
<1>9. WaitQueuesExactFor(m, E)
  <2>1. \A x \in m.waitlist : x \notin E /\ m.state[x] = "WAITING"
    BY <1>2, <1>3, <1>4 DEF Base, WaitQueuesExactFor, Typed, KernelState
  <2>2. ASSUME NEW s \in Slots
        PROVE  /\ Injective(m.wheel[s])
               /\ \A x \in Proc : InSeq(x, m.wheel[s]) <=>
                     /\ x \in Proc \ E
                     /\ m.state[x] = "WAITING"
                     /\ x \notin m.waitlist
                     /\ WHEEL_HASH(m.wakeup[x]) = s
    <3>1. /\ Injective(k.wheel[s])
          /\ \A x \in Proc : InSeq(x, k.wheel[s]) <=>
                     /\ x \in Proc \ D
                     /\ k.state[x] = "WAITING"
                     /\ x \notin k.waitlist
                     /\ WHEEL_HASH(k.wakeup[x]) = s
      BY DEF Base, WaitQueuesExactFor
    <3>2. CASE s = h
      <4>1. m.wheel[s] = Insert(k.wheel[s], p)
        BY <3>2, <1>2, <1>3
      <4>2. WHEEL_HASH(m.wakeup[p]) = s /\ m.state[p] = "WAITING" /\ p \notin m.waitlist
        BY <3>2, <1>2, <1>3, <1>4 DEF h
      <4> QED BY <3>1, <3>2, <4>1, <4>2, <1>2, <1>3, <1>5
    <3>3. CASE s # h
      <4>1. m.wheel[s] = k.wheel[s]
        BY <3>3, <1>2, <1>3
      <4>2. WHEEL_HASH(m.wakeup[p]) # s
        BY <3>3, <1>2, <1>3 DEF h
      <4> QED BY <3>1, <4>1, <4>2, <1>2, <1>3
    <3> QED BY <3>2, <3>3
  <2> QED BY <2>1, <2>2 DEF WaitQueuesExactFor
<1> QED BY <1>3, <1>6, <1>8, <1>9 DEF Base, m

\* A process of the current slot is detached from it.
LEMMA TakeReadyBase ==
    ASSUME NEW k, NEW D, Base(k, D), NEW p \in Proc, InSeq(p, CurrentSlot(k))
    PROVE  /\ Base(TakeReady(k, p), D \union {p})
           /\ k.state[p] = "WAITING" /\ p \notin D
           /\ LET m == TakeReady(k, p) IN
                 /\ m.levels = k.levels /\ m.count = k.count /\ m.sq = k.sq
                 /\ m.nice = k.nice /\ m.state = k.state /\ m.wakeup = k.wakeup
                 /\ m.cur = k.cur /\ m.active = k.active /\ m.rest = k.rest
<1> DEFINE m == TakeReady(k, p)
           E == D \union {p}
           h == WHEEL_HASH(k.jiffies)
<1>1. h \in Slots
  BY HashIsSlot DEF Base, Typed, KernelState
<1>2. k.wheel \in [Slots -> Seq(Proc)]
  BY DEF Base, Typed, KernelState
<1>3. k.state[p] = "WAITING" /\ p \notin D /\ p \notin k.waitlist /\ WHEEL_HASH(k.wakeup[p]) = h
  BY <1>1 DEF Base, WaitQueuesExactFor, CurrentSlot
<1>4. /\ m.levels = k.levels /\ m.count = k.count /\ m.sq = k.sq /\ m.nice = k.nice
      /\ m.state = k.state /\ m.wakeup = k.wakeup
      /\ m.wheel = [k.wheel EXCEPT ![h] = Unlink(k.wheel[h], p)]
      /\ m.waitlist = k.waitlist
      /\ m.cur = k.cur /\ m.active = k.active /\ m.rest = k.rest
      /\ m.panic = FALSE
  BY <1>3 DEF TakeReady, kassert, Base, Typed, KernelState
<1>11. m = [k EXCEPT !.wheel = m.wheel, !.panic = m.panic]
  BY <1>3 DEF TakeReady, kassert, Base, Typed, KernelState
<1> HIDE DEF m, h
<1>5. /\ Injective(k.wheel[h]) /\ InSeq(p, k.wheel[h]) /\ k.wheel[h] \in Seq(Proc)
  BY <1>1, <1>2 DEF Base, WaitQueuesExactFor, CurrentSlot, h
<1>6. /\ Unlink(k.wheel[h], p) \in Seq(Proc)
      /\ Injective(Unlink(k.wheel[h], p))
      /\ \A x \in Proc : InSeq(x, Unlink(k.wheel[h], p)) <=> InSeq(x, k.wheel[h]) /\ x # p
  BY <1>5, UnlinkList
<1>7. Typed(m)
  <2>1. m.wheel \in [Slots -> Seq(Proc)] /\ m.panic \in BOOLEAN
    BY <1>1, <1>2, <1>4, <1>6
  <2>2. m \in KernelState
    BY <2>1, <1>11 DEF Base, Typed, KernelState
  <2> QED BY <2>2, <1>4 DEF Base, Typed
<1>8. \A q : Members(m, E, q) = Members(k, D, q)
  BY <1>3, <1>4 DEF Members, Runnable
<1>9. RunQueuesExactFor(m, E) /\ CountsExactFor(m, E)
  BY <1>4, <1>8, SameMembers
<1>10. WaitQueuesExactFor(m, E)
  <2>1. \A x \in m.waitlist : x \notin E /\ m.state[x] = "WAITING"
    BY <1>3, <1>4 DEF Base, WaitQueuesExactFor
  <2>2. ASSUME NEW s \in Slots
        PROVE  /\ Injective(m.wheel[s])
               /\ \A x \in Proc : InSeq(x, m.wheel[s]) <=>
                     /\ x \in Proc \ E
                     /\ m.state[x] = "WAITING"
                     /\ x \notin m.waitlist
                     /\ WHEEL_HASH(m.wakeup[x]) = s
    <3>1. /\ Injective(k.wheel[s])
          /\ \A x \in Proc : InSeq(x, k.wheel[s]) <=>
                     /\ x \in Proc \ D
                     /\ k.state[x] = "WAITING"
                     /\ x \notin k.waitlist
                     /\ WHEEL_HASH(k.wakeup[x]) = s
      BY DEF Base, WaitQueuesExactFor
    <3>2. CASE s = h
      <4>1. m.wheel[s] = Unlink(k.wheel[s], p)
        BY <3>2, <1>2, <1>4
      <4> QED BY <3>1, <3>2, <4>1, <1>4, <1>6
    <3>3. CASE s # h
      <4>1. m.wheel[s] = k.wheel[s]
        BY <3>3, <1>2, <1>4
      <4> QED BY <3>1, <3>3, <4>1, <1>3, <1>4
    <3> QED BY <3>2, <3>3
  <2> QED BY <2>1, <2>2 DEF WaitQueuesExactFor
<1> QED BY <1>3, <1>4, <1>7, <1>9, <1>10 DEF Base, m

-----------------------------------------------------------------------------
(***************************************************************************)
(* sched.c                                                                 *)
(***************************************************************************)
LEMMA MaxRestRange == MaxRest \in 1..(REST_MOD - 1) /\ BootNice + 1 <= MaxRest
BY LevelAssumption DEF MaxRest

\* A detached process becomes ready; nothing is taken from the others.
LEMMA InSchedQueue ==
    ASSUME NEW k, NEW D, Base(k, D), QuantumBoundsFor(k, D), NEW p \in Proc, p \in D
    PROVE  LET m == in_sched_queue(k, p) IN
           /\ Base(m, D \ {p})
           /\ QuantumBoundsFor(m, D \ {p})
           /\ m.cur = k.cur
           /\ m.state = [k.state EXCEPT ![p] = "RUNNING"]
           /\ CurrentIsHeadOf(k) /\ k.cur \notin D => CurrentIsHeadOf(m)
<1> DEFINE m == in_sched_queue(k, p)
           running == [k EXCEPT !.state[p] = "RUNNING"]
           ready == IF k.rest[p] > 0 THEN running
                    ELSE [running EXCEPT !.rest[p] = BootNice + 1]
           q == IF k.rest[p] > 0 THEN k.active ELSE Expire(k)
           E == D \ {p}
<1>1. /\ k.state \in [Proc -> ProcState] /\ k.rest \in [Proc -> 0..(REST_MOD - 1)]
      /\ k.active \in Queues /\ k.cur \in Proc
      /\ k.levels \in [Queues -> [Levels -> Seq(Proc)]] /\ k.sq \in [Proc -> Queues]
      /\ \A x \in Proc : k.nice[x] = BootNice
      /\ BootNice \in Levels
      /\ BootNice + 1 \in 1..(REST_MOD - 1)
  BY BootNiceIsLevel DEF Base, Typed, KernelState
<1>2. q \in Queues
  BY <1>1 DEF Expire, Queues
<1>3. m = Enqueue(ready, q, p)
  BY <1>1 DEF in_sched_queue, flush_rest_time, Expire
<1>4. /\ running.levels = k.levels /\ running.count = k.count /\ running.sq = k.sq
      /\ running.nice = k.nice /\ running.rest = k.rest
      /\ running.state = [k.state EXCEPT ![p] = "RUNNING"]
      /\ running.wheel = k.wheel /\ running.waitlist = k.waitlist
      /\ running.wakeup = k.wakeup /\ running.panic = k.panic
      /\ running.cur = k.cur /\ running.active = k.active
      /\ running \in KernelState
  BY <1>1 DEF Base, Typed, KernelState, ProcState
<1>5. Base(running, D)
  <2> HIDE DEF running
  <2>1. \A r : Members(running, D, r) = Members(k, D, r)
    BY <1>1, <1>4 DEF Members, Runnable
  <2>2. RunQueuesExactFor(running, D) /\ CountsExactFor(running, D)
    BY <1>4, <2>1, SameMembers
  <2>3. WaitQueuesExactFor(running, D)
    BY <1>1, <1>4 DEF Base, WaitQueuesExactFor
  <2>4. Typed(running)
    BY <1>4 DEF Base, Typed
  <2> QED BY <1>4, <2>2, <2>3, <2>4 DEF Base
<1>6. /\ ready.levels = k.levels /\ ready.sq = k.sq
      /\ ready.state = [k.state EXCEPT ![p] = "RUNNING"]
      /\ ready.cur = k.cur /\ ready.active = k.active /\ ready.nice = k.nice
      /\ ready.rest = IF k.rest[p] > 0 THEN k.rest ELSE [k.rest EXCEPT ![p] = BootNice + 1]
      /\ Base(ready, D)
  <2>1. CASE k.rest[p] > 0
    BY <2>1, <1>4, <1>5
  <2>2. CASE ~(k.rest[p] > 0)
    <3>1. /\ ready.levels = k.levels /\ ready.sq = k.sq
          /\ ready.state = [k.state EXCEPT ![p] = "RUNNING"]
          /\ ready.cur = k.cur /\ ready.active = k.active /\ ready.nice = k.nice
          /\ ready.rest = [k.rest EXCEPT ![p] = BootNice + 1]
      BY <2>2, <1>1, <1>4 DEF Base, Typed, KernelState
    <3>2. SameQueues(running, ready)
      BY <2>2, <1>4 DEF SameQueues
    <3>3. Typed(ready)
      <4>1. ready \in KernelState
        <5> DEFINE rest1 == [k.rest EXCEPT ![p] = BootNice + 1]
        <5>1. rest1 \in [Proc -> 0..(REST_MOD - 1)]
          BY <1>1
        <5>2. ready = [running EXCEPT !.rest = rest1]
          BY <2>2, <1>4
        <5> HIDE DEF ready, running, rest1
        <5> QED BY <5>1, <5>2, <1>4 DEF KernelState
      <4> QED BY <3>1, <4>1, <1>1 DEF Typed
    <3>4. Base(ready, D)
      BY <1>5, <3>2, <3>3, Frame
    <3> QED BY <2>2, <3>1, <3>4
  <2> QED BY <2>1, <2>2
<1> HIDE DEF m, ready, running, q
<1>7. /\ m.levels = [k.levels EXCEPT ![q] =
                      [k.levels[q] EXCEPT ![BootNice] = Append(k.levels[q][BootNice], p)]]
      /\ m.sq = [k.sq EXCEPT ![p] = q]
      /\ m.state = ready.state /\ m.nice = k.nice /\ m.rest = ready.rest
      /\ m.cur = k.cur /\ m.active = k.active
  <2>1. Typed(ready)
    BY <1>6 DEF Base
  <2>2. Linked(ready, q, p, m)
    BY <2>1, <1>2, <1>3, EnqueueFields
  <2> QED BY <2>2, <1>6 DEF Linked, RestOf
<1>8. Base(m, E)
  <2>1. ready.state[p] = "RUNNING"
    BY <1>1, <1>6
  <2> QED BY <2>1, <1>2, <1>3, <1>6, EnqueueBase
<1>9. QuantumBoundsFor(m, E)
  BY <1>1, <1>6, <1>7, MaxRestRange DEF QuantumBoundsFor, Runnable
<1>10. ASSUME CurrentIsHeadOf(k), k.cur \notin D PROVE CurrentIsHeadOf(m)
  <2> DEFINE s == k.levels[q][BootNice]
  <2>1. k.cur # p
    BY <1>10
  <2>2. m.state[m.cur] = "RUNNING" /\ m.sq[m.cur] = m.active /\ m.nice[m.cur] = BootNice
    BY <2>1, <1>1, <1>6, <1>7, <1>10 DEF CurrentIsHeadOf
  <2>3. \A l \in Levels : l < BootNice => m.levels[k.active][l] = <<>>
    BY <1>1, <1>2, <1>7, <1>10 DEF CurrentIsHeadOf, Levels
  <2>4. s \in Seq(Proc) /\ Injective(s) /\ ~InSeq(p, s)
    BY <1>1, <1>2, <1>10 DEF Base, RunQueuesExactFor, Members, Runnable
  <2>5. Append(s, p) # <<>> /\ (s # <<>> => Head(Append(s, p)) = Head(s))
    BY <2>4, AppendList
  <2>6. /\ m.levels[k.active][BootNice] # <<>>
        /\ Head(m.levels[k.active][BootNice]) = k.cur
    <3>1. k.levels[k.active][BootNice] # <<>> /\ Head(k.levels[k.active][BootNice]) = k.cur
      BY <1>1, <1>10 DEF CurrentIsHeadOf
    <3>2. CASE q = k.active
      <4>1. m.levels[k.active][BootNice] = Append(s, p)
        BY <3>2, <1>1, <1>2, <1>7
      <4> QED BY <4>1, <3>1, <3>2, <2>5
    <3>3. CASE q # k.active
      <4>1. m.levels[k.active][BootNice] = k.levels[k.active][BootNice]
        BY <3>3, <1>1, <1>2, <1>7
      <4> QED BY <4>1, <3>1
    <3> QED BY <3>2, <3>3
  <2> QED BY <2>2, <2>3, <2>6, <1>7 DEF CurrentIsHeadOf
<1> QED BY <1>6, <1>7, <1>8, <1>9, <1>10 DEF m

\* The quantum of the caller of schedule.
Charged(k) == Charge(kassert(k, k.nice[k.cur] < SCHED_LEVEL_SIZE))

LEMMA ChargedFields ==
    ASSUME NEW k, NEW D, Base(k, D), k.rest[k.cur] >= 1
    PROVE  /\ Base(Charged(k), D)
           /\ Charged(k).rest = [k.rest EXCEPT ![k.cur] = k.rest[k.cur] - 1]
           /\ Charged(k).levels = k.levels /\ Charged(k).count = k.count
           /\ Charged(k).sq = k.sq /\ Charged(k).state = k.state
           /\ Charged(k).cur = k.cur /\ Charged(k).active = k.active
<1> DEFINE c == Charged(k)
<1>1. /\ k.rest \in [Proc -> 0..(REST_MOD - 1)] /\ k.cur \in Proc
      /\ k.nice[k.cur] < SCHED_LEVEL_SIZE /\ k.panic = FALSE /\ REST_MOD \in Nat
  BY BootNiceIsLevel, LevelAssumption DEF Base, Typed, KernelState, Levels
<1>2. (k.rest[k.cur] + REST_MOD - 1) % REST_MOD = k.rest[k.cur] - 1
  <2> DEFINE r == k.rest[k.cur] - 1
  <2>1. r \in 0..(REST_MOD - 1)
    BY <1>1
  <2> HIDE DEF r
  <2>2. (r + REST_MOD) % REST_MOD = r
    BY <2>1, <1>1
  <2>3. k.rest[k.cur] + REST_MOD - 1 = r + REST_MOD
    BY <1>1 DEF r
  <2> QED BY <2>2, <2>3 DEF r
<1> DEFINE rest1 == [k.rest EXCEPT ![k.cur] = k.rest[k.cur] - 1]
<1>3. rest1 \in [Proc -> 0..(REST_MOD - 1)]
  BY <1>1
<1>4. c = [k EXCEPT !.panic = FALSE, !.rest = rest1]
  BY <1>1, <1>2 DEF Charged, Charge, kassert, Base, Typed, KernelState
<1> HIDE DEF rest1, c
<1>5. /\ c \in KernelState /\ SameQueues(k, c)
      /\ c.rest = rest1 /\ c.cur = k.cur /\ c.active = k.active
  BY <1>1, <1>3, <1>4 DEF Base, Typed, KernelState, SameQueues
<1>6. Typed(c)
  BY <1>5 DEF Base, Typed, SameQueues
<1>7. Base(c, D)
  BY <1>5, <1>6, Frame
<1> QED BY <1>5, <1>7 DEF c, rest1, SameQueues

\* What schedule does before it picks the next process.
LEMMA Requeued ==
    ASSUME NEW k, NEW D, Base(k, D), QuantumBoundsFor(k, D), k.cur \notin D,
           k.rest[k.cur] >= 1, k.state[k.cur] = "RUNNING" => k.sq[k.cur] = k.active
    PROVE  LET m == RequeueCurrent(Charged(k)) IN
           /\ Base(m, D)
           /\ QuantumBoundsFor(m, D)
           /\ m.state = k.state /\ m.cur = k.cur /\ m.active = k.active
<1> DEFINE c == Charged(k)
           m == RequeueCurrent(c)
           p == k.cur
<1>1. /\ Base(c, D)
      /\ c.rest = [k.rest EXCEPT ![k.cur] = k.rest[k.cur] - 1]
      /\ c.levels = k.levels /\ c.count = k.count /\ c.sq = k.sq /\ c.state = k.state
      /\ c.cur = k.cur /\ c.active = k.active
  BY ChargedFields
<1> HIDE DEF c
<1>2. /\ p \in Proc /\ k.active \in Queues /\ Expire(c) \in Queues
      /\ k.rest \in [Proc -> 0..(REST_MOD - 1)]
      /\ BootNice \in Levels /\ BootNice + 1 \in 1..(REST_MOD - 1)
      /\ c \in KernelState /\ Typed(c)
      /\ \A x \in Proc : c.nice[x] = BootNice
  BY <1>1, BootNiceIsLevel DEF Base, Typed, KernelState, Expire, Queues
<1> HIDE DEF p
<1>3. CASE c.state[c.cur] # "RUNNING"
  <2>1. m = c
    BY <1>3 DEF RequeueCurrent
  <2>2. QuantumBoundsFor(c, D)
    BY <1>1, <1>2, <1>3, MaxRestRange DEF QuantumBoundsFor, Runnable, p
  <2> HIDE DEF m
  <2> QED BY <1>1, <2>1, <2>2 DEF m, c
<1>4. CASE c.state[c.cur] = "RUNNING" /\ c.rest[c.cur] = 0
  <2> DEFINE d == Dequeue(c, p)
             e == [d EXCEPT !.rest[p] = BootNice + 1]
  <2>1. Base(d, D \union {p})
    BY <1>1, <1>2, <1>4, DequeueBase DEF p
  <2>2. Unlinked(c, c.sq[p], p, d)
    BY <1>2, DequeueFields
  <2>3. m = Enqueue(e, Expire(c), p)
    BY <1>1, <1>2, <1>4 DEF flush_rest_time, p, RequeueCurrent
  <2> HIDE DEF d, m
  <2> DEFINE rest1 == [d.rest EXCEPT ![p] = BootNice + 1]
  <2>4. /\ d.rest = c.rest /\ d.state = c.state /\ d.nice = c.nice
        /\ d.cur = c.cur /\ d.active = c.active
    BY <2>2 DEF Unlinked, RestOf
  <2>5. rest1 \in [Proc -> 0..(REST_MOD - 1)]
    <3>1. c.rest \in [Proc -> 0..(REST_MOD - 1)]
      BY <1>2 DEF KernelState
    <3>2. BootNice + 1 \in 0..(REST_MOD - 1)
      BY <1>2
    <3> QED BY <3>1, <3>2, <2>4
  <2>6. e = [d EXCEPT !.rest = rest1]
    OBVIOUS
  <2> HIDE DEF rest1, e
  <2>7. /\ e \in KernelState /\ SameQueues(d, e) /\ e.rest = rest1
        /\ e.cur = d.cur /\ e.active = d.active
    BY <2>1, <2>5, <2>6 DEF Base, Typed, KernelState, SameQueues
  <2>8. Typed(e)
    BY <2>1, <2>7 DEF Base, Typed, SameQueues
  <2>9. Base(e, D \union {p})
    BY <2>1, <2>7, <2>8, Frame
  <2>10. Linked(e, Expire(c), p, m)
    BY <2>3, <2>8, <1>2, EnqueueFields
  <2>11. e.state[p] = "RUNNING"
    BY <2>4, <2>7, <1>1, <1>4 DEF SameQueues, p
  <2>12. (D \union {p}) \ {p} = D
    BY DEF p
  <2>13. Base(m, D)
    BY <2>3, <2>9, <2>11, <2>12, <1>2, EnqueueBase
  <2>14. /\ m.state = k.state /\ m.cur = k.cur /\ m.active = k.active
         /\ m.rest = [c.rest EXCEPT ![p] = BootNice + 1]
    BY <2>4, <2>7, <2>10, <1>1 DEF Linked, RestOf, SameQueues, rest1
  <2>15. QuantumBoundsFor(m, D)
    BY <2>14, <1>1, <1>2, MaxRestRange DEF QuantumBoundsFor, Runnable, p
  <2> QED BY <2>13, <2>14, <2>15 DEF m, c
<1>5. CASE c.state[c.cur] = "RUNNING" /\ c.rest[c.cur] # 0
  <2> DEFINE a == k.active
             s == k.levels[a][BootNice]
             t == Append(Unlink(s, p), p)
  <2>1. /\ k.levels \in [Queues -> [Levels -> Seq(Proc)]]
        /\ c.sq[p] = a
    BY <1>1, <1>2, <1>5 DEF KernelState, p
  <2>2. /\ s \in Seq(Proc) /\ Injective(s) /\ InSeq(p, s)
        /\ \A x \in Proc : InSeq(x, s) <=> x \in Members(c, D, a)
    BY <2>1, <1>1, <1>2, <1>5 DEF Base, RunQueuesExactFor, Members, Runnable, p
  <2>3. /\ Unlink(s, p) \in Seq(Proc) /\ Injective(Unlink(s, p))
        /\ \A x \in Proc : InSeq(x, Unlink(s, p)) <=> InSeq(x, s) /\ x # p
    BY <2>2, <1>2, UnlinkList
  <2>4. /\ t \in Seq(Proc) /\ Injective(t)
        /\ \A x \in Proc : InSeq(x, t) <=> InSeq(x, s)
    BY <2>2, <2>3, <1>2, AppendList
  <2> DEFINE levels1 == [k.levels EXCEPT ![a] = [k.levels[a] EXCEPT ![BootNice] = t]]
  <2>5. m = [c EXCEPT !.levels = levels1]
    BY <2>1, <1>1, <1>2, <1>5 DEF p, RequeueCurrent
  <2>6. levels1 \in [Queues -> [Levels -> Seq(Proc)]]
    <3>1. [k.levels[a] EXCEPT ![BootNice] = t] \in [Levels -> Seq(Proc)]
      BY <2>1, <2>4, <1>2
    <3> QED BY <3>1, <2>1, <1>2
  <2> HIDE DEF m, t, s
  <2>7. /\ m.levels = levels1 /\ m.state = c.state /\ m.nice = c.nice /\ m.count = c.count
        /\ m.sq = c.sq /\ m.wheel = c.wheel /\ m.waitlist = c.waitlist
        /\ m.wakeup = c.wakeup /\ m.panic = c.panic /\ m.cur = c.cur
        /\ m.active = c.active /\ m.rest = c.rest
        /\ m \in KernelState
    <3> HIDE DEF levels1
    <3> QED BY <2>5, <2>6, <1>2 DEF KernelState
  <2>8. \A r : Members(m, D, r) = Members(c, D, r)
    BY <2>7 DEF Members, Runnable
  <2>9. RunQueuesExactFor(m, D)
    <3> SUFFICES ASSUME NEW r \in Queues, NEW l \in Levels
                 PROVE  /\ Injective(m.levels[r][l])
                        /\ \A x \in Proc : InSeq(x, m.levels[r][l]) <=>
                                              x \in Members(m, D, r) /\ m.nice[x] = l
      BY DEF RunQueuesExactFor
    <3>1. CASE r = a /\ l = BootNice
      <4>1. m.levels[r][l] = t
        BY <3>1, <2>1, <2>7, <1>2
      <4> QED BY <4>1, <3>1, <2>2, <2>4, <2>7, <2>8, <1>2
    <3>2. CASE ~(r = a /\ l = BootNice)
      <4>1. m.levels[r][l] = c.levels[r][l]
        BY <3>2, <2>1, <2>7, <1>1, <1>2
      <4> QED BY <4>1, <2>7, <2>8, <1>1 DEF Base, RunQueuesExactFor
    <3> QED BY <3>1, <3>2
  <2>10. CountsExactFor(m, D)
    BY <2>7, <2>8, <1>1 DEF Base, CountsExactFor
  <2>11. WaitQueuesExactFor(m, D)
    BY <2>7, <1>1 DEF Base, WaitQueuesExactFor
  <2>12. Base(m, D)
    BY <2>7, <2>9, <2>10, <2>11, <1>1, <1>2 DEF Base, Typed
  <2>13. QuantumBoundsFor(m, D)
    BY <2>7, <1>1, <1>2, <1>5, MaxRestRange DEF QuantumBoundsFor, Runnable, p
  <2> QED BY <2>7, <2>12, <2>13, <1>1 DEF m, c
<1> QED BY <1>3, <1>4, <1>5 DEF c

\* The state a caller of schedule leaves behind: everything consistent, and
\* the running process where schedule expects it.
Good(k, D) ==
    /\ Base(k, D)
    /\ QuantumBoundsFor(k, D)
    /\ CurrentIsHeadOf(k)
    /\ P1 \in Runnable(k, D)

\* As long as process1 is ready, the queue schedule ends up with has a process.
LEMMA Swapped ==
    ASSUME NEW k, NEW D, Base(k, D), P1 \in Runnable(k, D)
    PROVE  LET m == SwapIfDrained(k) IN
           /\ m.active \in Queues
           /\ Members(k, D, m.active) # {}
           /\ SameQueues(k, m)
           /\ m.cur = k.cur /\ m.rest = k.rest
           /\ m \in KernelState
<1> DEFINE m == SwapIfDrained(k)
<1>1. k.active \in Queues /\ k.sq \in [Proc -> Queues] /\ P1 \in Proc
  BY ProcAssumption DEF Base, Typed, KernelState
<1>2. k.count[k.active] = Cardinality(Members(k, D, k.active))
  BY <1>1 DEF Base, CountsExactFor
<1>3. CASE k.count[k.active] = 0
  <2>1. Members(k, D, k.active) = {}
    BY <1>2, <1>3, MembersFinite, FS_EmptySet
  <2>2. Expire(k) \in Queues /\ P1 \in Members(k, D, Expire(k))
    BY <2>1, <1>1 DEF Members, Queues, Expire
  <2>3. /\ SameQueues(k, m) /\ m.active = Expire(k)
        /\ m.cur = k.cur /\ m.rest = k.rest /\ m \in KernelState
    BY <2>2, <1>3 DEF SwapIfDrained, SameQueues, Base, Typed, KernelState
  <2> QED BY <2>2, <2>3
<1>4. CASE k.count[k.active] # 0
  <2>1. Members(k, D, k.active) # {}
    BY <1>2, <1>4, FS_EmptySet
  <2>2. m = k
    BY <1>4 DEF SwapIfDrained
  <2> QED BY <2>1, <2>2, <1>1 DEF SameQueues, Base, Typed
<1> QED BY <1>3, <1>4

\* The process schedule picks is the head of the only level in use.
LEMMA Picked ==
    ASSUME NEW k, NEW D, Base(k, D), Members(k, D, k.active) # {}
    PROVE  /\ PickNext(k) \in Members(k, D, k.active)
           /\ k.levels[k.active][BootNice] # <<>>
           /\ PickNext(k) = Head(k.levels[k.active][BootNice])
           /\ \A l \in Levels : l # BootNice => k.levels[k.active][l] = <<>>
<1> DEFINE s(l) == k.levels[k.active][l]
           used == {l \in Levels : s(l) # <<>>}
<1>1. /\ k.active \in Queues /\ BootNice \in Levels
      /\ \A l \in Levels : s(l) \in Seq(Proc)
      /\ \A x \in Proc : k.nice[x] = BootNice
  BY BootNiceIsLevel DEF Base, Typed, KernelState
<1>2. \A l \in Levels, x \in Proc :
          InSeq(x, s(l)) <=> x \in Members(k, D, k.active) /\ l = BootNice
  BY <1>1 DEF Base, RunQueuesExactFor
<1>3. ASSUME NEW l \in Levels, l # BootNice PROVE s(l) = <<>>
  <2>1. \A x \in Proc : ~InSeq(x, s(l))
    BY <1>2, <1>3
  <2>2. \A i \in 1..Len(s(l)) : s(l)[i] \in Proc /\ InSeq(s(l)[i], s(l))
    BY <1>1, <1>3 DEF InSeq
  <2> HIDE DEF s
  <2> QED BY <2>1, <2>2, <1>1, <1>3
<1>4. PICK x \in Members(k, D, k.active) : x \in Proc
  BY DEF Members, Runnable
<1>5. s(BootNice) # <<>> /\ Head(s(BootNice)) \in Members(k, D, k.active)
  <2>1. InSeq(x, s(BootNice))
    BY <1>1, <1>2, <1>4
  <2>2. s(BootNice) # <<>> /\ 1 \in DOMAIN s(BootNice) /\ s(BootNice) \in Seq(Proc)
    BY <2>1, <1>1 DEF InSeq
  <2>3. Head(s(BootNice)) = s(BootNice)[1] /\ Head(s(BootNice)) \in Proc
    BY <2>2
  <2>4. InSeq(Head(s(BootNice)), s(BootNice))
    BY <2>2, <2>3 DEF InSeq
  <2> QED BY <2>2, <2>3, <2>4, <1>1, <1>2
<1>6. used = {BootNice}
  BY <1>1, <1>3, <1>5
<1>7. (CHOOSE l \in used : \A n \in used : l <= n) = BootNice
  <2>1. BootNice <= BootNice
    BY <1>1 DEF Levels
  <2> QED BY <1>6, <2>1
<1>8. PickNext(k) = Head(s(BootNice))
  BY <1>6, <1>7 DEF PickNext
<1> QED BY <1>3, <1>5, <1>8

\* schedule: nobody is lost, nobody's quantum wraps, and a ready process that
\* is the head of its level gets the processor.
LEMMA Schedule ==
    ASSUME NEW k, NEW D, Base(k, D), QuantumBoundsFor(k, D), P1 \in Runnable(k, D),
           k.cur \notin D, k.rest[k.cur] >= 1,
           k.state[k.cur] = "RUNNING" => k.sq[k.cur] = k.active
    PROVE  Good(schedule(k), D) /\ schedule(k).state = k.state
<1> DEFINE r == RequeueCurrent(Charged(k))
           w == SwapIfDrained(r)
           n == PickNext(w)
           m == SwitchTo(w, n)
<1>1. /\ Base(r, D) /\ QuantumBoundsFor(r, D)
      /\ r.state = k.state /\ r.cur = k.cur
  BY Requeued
<1>2. schedule(k) = m
  BY DEF schedule, Rotated, Charged
<1> HIDE DEF r
<1>3. P1 \in Runnable(r, D)
  BY <1>1 DEF Runnable
<1>4. /\ Members(r, D, w.active) # {}
      /\ SameQueues(r, w)
      /\ w.cur = r.cur /\ w.rest = r.rest /\ w \in KernelState
  BY <1>1, <1>3, Swapped
<1> HIDE DEF w
<1>5. Base(w, D)
  <2>1. Typed(w)
    BY <1>1, <1>4 DEF Base, Typed, SameQueues
  <2> QED BY <2>1, <1>1, <1>4, Frame
<1>6. Members(w, D, w.active) # {}
  BY <1>4 DEF Members, Runnable, SameQueues
<1>7. /\ n \in Members(w, D, w.active)
      /\ w.levels[w.active][BootNice] # <<>>
      /\ n = Head(w.levels[w.active][BootNice])
      /\ \A l \in Levels : l # BootNice => w.levels[w.active][l] = <<>>
  BY <1>5, <1>6, Picked
<1> HIDE DEF n
<1>8. n \in Proc /\ w.state[n] = "RUNNING" /\ w.sq[n] = w.active /\ w.nice[n] = BootNice
  BY <1>5, <1>7 DEF Members, Runnable, Base, Typed
<1>9. /\ m.cur = n /\ SameQueues(w, m) /\ m.active = w.active /\ m.rest = w.rest
      /\ m \in KernelState
  BY <1>4, <1>8 DEF SwitchTo, KernelState, SameQueues, SavedContext
<1> HIDE DEF m
<1>10. Base(m, D)
  <2>1. Typed(m)
    BY <1>5, <1>9 DEF Base, Typed, SameQueues
  <2> QED BY <2>1, <1>5, <1>9, Frame
<1>11. CurrentIsHeadOf(m)
  <2>1. \A l \in Levels : l < BootNice => l # BootNice
    BY BootNiceIsLevel DEF Levels
  <2> QED BY <2>1, <1>7, <1>8, <1>9 DEF CurrentIsHeadOf, SameQueues
<1>12. QuantumBoundsFor(m, D) /\ P1 \in Runnable(m, D) /\ m.state = k.state
  BY <1>1, <1>3, <1>4, <1>9 DEF QuantumBoundsFor, Runnable, SameQueues
<1> QED BY <1>2, <1>10, <1>11, <1>12 DEF Good

\* The calls of schedule by a process that is still running.
LEMMA ScheduleGood ==
    ASSUME NEW k, NEW D, Good(k, D)
    PROVE  Good(schedule(k), D) /\ schedule(k).state = k.state
<1>1. /\ k.state[k.cur] = "RUNNING" /\ k.sq[k.cur] = k.active
      /\ InSeq(k.cur, k.levels[k.active][BootNice])
      /\ k.cur \in Proc /\ k.active \in Queues /\ BootNice \in Levels
  <2>1. /\ k.levels[k.active][BootNice] \in Seq(Proc)
        /\ k.levels[k.active][BootNice] # <<>>
        /\ k.cur = Head(k.levels[k.active][BootNice])
        /\ k.cur \in Proc /\ k.active \in Queues /\ BootNice \in Levels
    BY BootNiceIsLevel DEF Good, CurrentIsHeadOf, Base, Typed, KernelState
  <2> DEFINE s == k.levels[k.active][BootNice]
  <2>2. 1 \in DOMAIN s /\ s[1] = k.cur
    BY <2>1
  <2> QED BY <2>1, <2>2 DEF InSeq, Good, CurrentIsHeadOf
<1>2. k.cur \in Runnable(k, D)
  BY <1>1 DEF Good, Base, RunQueuesExactFor, Members
<1>3. k.cur \notin D /\ k.rest[k.cur] >= 1
  BY <1>1, <1>2 DEF Good, QuantumBoundsFor, Runnable
<1> QED BY <1>1, <1>3, Schedule DEF Good

\* The running process is in the active queue and has quantum left.
LEMMA CurrentGood ==
    ASSUME NEW k, NEW D, Good(k, D)
    PROVE  /\ k.cur \in Proc /\ k.cur \notin D /\ k.state[k.cur] = "RUNNING"
           /\ k.rest[k.cur] \in 1..(REST_MOD - 1)
           /\ k.sq[k.cur] = k.active
<1>1. /\ k.levels[k.active][BootNice] \in Seq(Proc)
      /\ k.levels[k.active][BootNice] # <<>>
      /\ k.cur = Head(k.levels[k.active][BootNice])
      /\ k.cur \in Proc /\ k.active \in Queues /\ BootNice \in Levels
      /\ k.rest \in [Proc -> 0..(REST_MOD - 1)]
  BY BootNiceIsLevel DEF Good, CurrentIsHeadOf, Base, Typed, KernelState
<1> DEFINE s == k.levels[k.active][BootNice]
<1>2. 1 \in DOMAIN s /\ s[1] = k.cur
  BY <1>1
<1>3. InSeq(k.cur, s)
  BY <1>2 DEF InSeq
<1>4. k.cur \in Runnable(k, D) /\ k.sq[k.cur] = k.active
  BY <1>1, <1>3 DEF Good, Base, RunQueuesExactFor, Members
<1> QED BY <1>1, <1>4, LevelAssumption DEF Good, QuantumBoundsFor, Runnable

-----------------------------------------------------------------------------
(***************************************************************************)
(* The fields the routines of sched.c leave alone, and the quanta.         *)
(***************************************************************************)
SameClock(k, m) ==
    m.wakeup = k.wakeup /\ m.waitlist = k.waitlist /\ m.jiffies = k.jiffies

\* in_sched_queue gives a new quantum only to a process it sends to the expire queue.
LEMMA InSchedQueueQuantum ==
    ASSUME NEW k, Typed(k), NEW p \in Proc
    PROVE  LET m == in_sched_queue(k, p) IN
           /\ SameClock(k, m) /\ m.active = k.active /\ m.cur = k.cur
           /\ \A r \in Proc : r # p => m.rest[r] = k.rest[r]
           /\ m.rest[p] # k.rest[p] => m.sq[p] = Expire(k)
<1> DEFINE running == [k EXCEPT !.state[p] = "RUNNING"]
           fresh == [running EXCEPT !.rest[p] = flush_rest_time(k, p)]
<1>1. k \in KernelState /\ k.nice[p] = BootNice /\ Expire(k) \in Queues
  BY DEF Typed, KernelState, Expire, Queues
<1>2. /\ running \in KernelState /\ running.nice = k.nice /\ running.rest = k.rest
      /\ SameClock(k, running) /\ running.active = k.active /\ running.cur = k.cur
      /\ running.sq = k.sq
  BY <1>1 DEF KernelState, ProcState, SameClock
<1>3. Typed(running)
  BY <1>2 DEF Typed
<1> HIDE DEF running
<1>4. CASE k.rest[p] > 0
  <2>1. in_sched_queue(k, p) = Enqueue(running, k.active, p) /\ k.active \in Queues
    BY <1>1, <1>4 DEF in_sched_queue, running, KernelState
  <2>2. Linked(running, k.active, p, in_sched_queue(k, p))
    BY <2>1, <1>3, EnqueueFields
  <2> QED BY <2>2, <1>2 DEF Linked, RestOf, SameClock
<1>5. CASE ~(k.rest[p] > 0)
  <2>1. in_sched_queue(k, p) = Enqueue(fresh, Expire(k), p)
    BY <1>5 DEF in_sched_queue, running
  <2>2. /\ fresh \in KernelState /\ fresh.nice = k.nice
        /\ SameClock(k, fresh) /\ fresh.active = k.active /\ fresh.cur = k.cur
        /\ fresh.sq = k.sq /\ k.sq \in [Proc -> Queues]
        /\ fresh.rest = [k.rest EXCEPT ![p] = BootNice + 1]
    <3> DEFINE rest1 == [k.rest EXCEPT ![p] = BootNice + 1]
    <3>1. rest1 \in [Proc -> 0..(REST_MOD - 1)]
      BY <1>1, BootNiceIsLevel DEF KernelState
    <3>2. fresh = [running EXCEPT !.rest = rest1]
      BY <1>1, <1>2 DEF flush_rest_time
    <3> HIDE DEF rest1, fresh
    <3> QED BY <3>1, <3>2, <1>1, <1>2 DEF KernelState, SameClock, rest1
  <2>3. Typed(fresh)
    BY <2>2 DEF Typed
  <2> HIDE DEF fresh
  <2>4. Linked(fresh, Expire(k), p, in_sched_queue(k, p))
    BY <2>1, <2>3, <1>1, EnqueueFields
  <2> QED BY <2>2, <2>4, <1>1 DEF Linked, RestOf, SameClock, KernelState
<1> QED BY <1>4, <1>5

LEMMA InSchedQueueState ==
    ASSUME NEW k, Typed(k), NEW p \in Proc
    PROVE  in_sched_queue(k, p).state = [k.state EXCEPT ![p] = "RUNNING"]
<1> DEFINE running == [k EXCEPT !.state[p] = "RUNNING"]
           rest1 == [k.rest EXCEPT ![p] = k.nice[p] + 1]
           fresh == [running EXCEPT !.rest = rest1]
           state1 == [k.state EXCEPT ![p] = "RUNNING"]
<1>1. k \in KernelState /\ k.active \in Queues /\ Expire(k) \in Queues /\ k.nice[p] = BootNice
  BY DEF Typed, KernelState, Expire, Queues
<1>2. running \in KernelState /\ running.state = state1 /\ running.nice = k.nice
      /\ running.rest = k.rest
  BY <1>1 DEF KernelState, ProcState
<1>3. rest1 \in [Proc -> 0..(REST_MOD - 1)]
  <2>1. BootNice + 1 \in 0..(REST_MOD - 1)
    BY BootNiceIsLevel
  <2> QED BY <2>1, <1>1 DEF KernelState
<1>4. \/ in_sched_queue(k, p) = Enqueue(running, k.active, p)
      \/ in_sched_queue(k, p) = Enqueue(fresh, Expire(k), p)
  BY <1>2 DEF in_sched_queue, flush_rest_time
<1> HIDE DEF running, rest1, state1
<1>5. fresh \in KernelState /\ fresh.state = state1 /\ fresh.nice = k.nice
  BY <1>2, <1>3 DEF KernelState
<1> HIDE DEF fresh
<1>6. Typed(running) /\ Typed(fresh)
  BY <1>2, <1>5 DEF Typed
<1>7. /\ Linked(running, k.active, p, Enqueue(running, k.active, p))
      /\ Linked(fresh, Expire(k), p, Enqueue(fresh, Expire(k), p))
  BY <1>1, <1>6, EnqueueFields
<1>8. Enqueue(running, k.active, p).state = state1 /\ Enqueue(fresh, Expire(k), p).state = state1
  BY <1>2, <1>5, <1>7 DEF Linked, RestOf
<1> QED BY <1>4, <1>8 DEF state1

\* So does the requeueing of the caller of schedule.
LEMMA RequeuedQuantum ==
    ASSUME NEW k, NEW D, Base(k, D), k.rest[k.cur] >= 1, k.cur \notin D,
           k.state[k.cur] = "RUNNING" => k.sq[k.cur] = k.active
    PROVE  LET m == RequeueCurrent(Charged(k)) IN
           /\ SameClock(k, m)
           /\ \A p \in Proc : m.rest[p] > k.rest[p] => m.sq[p] = Expire(k)
<1> DEFINE c == Charged(k)
           m == RequeueCurrent(c)
           p == k.cur
<1>1. /\ Base(c, D)
      /\ c.rest = [k.rest EXCEPT ![k.cur] = k.rest[k.cur] - 1]
      /\ c.levels = k.levels /\ c.count = k.count /\ c.sq = k.sq /\ c.state = k.state
      /\ c.cur = k.cur /\ c.active = k.active
  BY ChargedFields
<1>2. SameClock(k, c)
  BY DEF Charged, Charge, kassert, SameClock, Base, Typed, KernelState
<1> HIDE DEF c
<1>3. /\ p \in Proc /\ k.rest \in [Proc -> 0..(REST_MOD - 1)] /\ c \in KernelState
      /\ Typed(c) /\ Expire(c) = Expire(k) /\ Expire(k) \in Queues
      /\ c.nice[p] = BootNice /\ REST_MOD \in Nat /\ c.rest \in [Proc -> 0..(REST_MOD - 1)]
  <2>1. Typed(k) /\ Typed(c)
    BY <1>1 DEF Base
  <2>2. k.cur \in Proc /\ k.active \in Queues /\ k.rest \in [Proc -> 0..(REST_MOD - 1)]
    BY <2>1 DEF Typed, KernelState
  <2>3. c \in KernelState /\ c.rest \in [Proc -> 0..(REST_MOD - 1)] /\ c.nice[p] = BootNice
    BY <2>1, <2>2 DEF Typed, KernelState
  <2>4. Expire(c) = Expire(k) /\ Expire(k) \in Queues
    BY <2>2, <1>1 DEF Expire, Queues
  <2> QED BY <2>1, <2>2, <2>3, <2>4, LevelAssumption
<1>4. \A r \in Proc : c.rest[r] <= k.rest[r] /\ c.rest[r] \in Nat /\ k.rest[r] \in Nat
  BY <1>1, <1>3
<1> HIDE DEF p
<1>5. CASE c.state[c.cur] # "RUNNING"
  <2>1. m = c
    BY <1>5 DEF RequeueCurrent
  <2> QED BY <2>1, <1>2, <1>4 DEF c
<1>6. CASE c.state[c.cur] = "RUNNING" /\ c.rest[c.cur] = 0
  <2> DEFINE d == Dequeue(c, p)
             e == [d EXCEPT !.rest[p] = BootNice + 1]
  <2>1. Base(d, D \union {p})
    BY <1>1, <1>3, <1>6, DequeueBase DEF p
  <2>2. Unlinked(c, c.sq[p], p, d)
    BY <1>3, DequeueFields
  <2>3. m = Enqueue(e, Expire(k), p)
    BY <1>1, <1>3, <1>6 DEF flush_rest_time, p, RequeueCurrent
  <2>4. d.rest = c.rest /\ SameClock(c, d) /\ d.nice = c.nice /\ d.sq = c.sq
    BY <2>2 DEF Unlinked, RestOf, SameClock
  <2> HIDE DEF d, m
  <2> DEFINE rest1 == [d.rest EXCEPT ![p] = BootNice + 1]
  <2>5. rest1 \in [Proc -> 0..(REST_MOD - 1)]
    <3>1. BootNice + 1 \in 0..(REST_MOD - 1)
      BY BootNiceIsLevel, <1>3
    <3> QED BY <3>1, <2>4, <1>3
  <2>6. e = [d EXCEPT !.rest = rest1]
    OBVIOUS
  <2> HIDE DEF rest1, e
  <2>7. e \in KernelState /\ e.rest = rest1 /\ SameClock(d, e) /\ e.nice = d.nice /\ e.sq = d.sq
    BY <2>1, <2>5, <2>6 DEF Base, Typed, KernelState, SameClock
  <2>8. Typed(e)
    BY <2>1, <2>7 DEF Base, Typed
  <2>9. Linked(e, Expire(k), p, m)
    BY <2>3, <2>8, <1>3, EnqueueFields
  <2>10. /\ m.rest = rest1 /\ SameClock(k, m)
    BY <2>4, <2>7, <2>9, <1>2 DEF Linked, RestOf, SameClock
  <2>11. m.sq[p] = Expire(k)
    BY <2>9, <2>7, <2>4, <1>3 DEF Linked, KernelState
  <2>12. \A r \in Proc : r # p => m.rest[r] = c.rest[r]
    BY <2>10, <2>4, <1>3 DEF rest1, KernelState
  <2>13. \A r \in Proc : r # p => ~(m.rest[r] > k.rest[r])
    BY <2>12, <1>4
  <2> QED BY <2>10, <2>11, <2>13 DEF m, c
<1>7. CASE c.state[c.cur] = "RUNNING" /\ c.rest[c.cur] # 0
  <2> DEFINE t == Append(Unlink(c.levels[c.active][c.nice[c.cur]], c.cur), c.cur)
  <2>1. m = [c EXCEPT !.levels[c.active][c.nice[c.cur]] = t]
    BY <1>7 DEF RequeueCurrent
  <2> HIDE DEF t, m
  <2>2. m.rest = c.rest /\ SameClock(c, m)
    BY <2>1, <1>3 DEF KernelState, SameClock
  <2> QED BY <2>2, <1>2, <1>4 DEF SameClock, m, c
<1> QED BY <1>5, <1>6, <1>7 DEF c

\* A call of schedule: nobody gets a quantum but on the way to the expire queue,
\* the active queue is left only when it is empty, the clock stands still.
LEMMA ScheduleRounds ==
    ASSUME NEW k, NEW D, Base(k, D), QuantumBoundsFor(k, D),
           k.cur \notin D, k.rest[k.cur] >= 1, P1 \in Runnable(k, D),
           k.state[k.cur] = "RUNNING" => k.sq[k.cur] = k.active
    PROVE  LET m == schedule(k) IN
           /\ SameClock(k, m)
           /\ \A p \in Proc : m.rest[p] > k.rest[p] => m.sq[p] = Expire(k)
           /\ m.active # k.active => Members(m, D, k.active) = {}
<1> DEFINE r == RequeueCurrent(Charged(k))
           w == SwapIfDrained(r)
           n == PickNext(w)
           m == SwitchTo(w, n)
<1>1. Base(r, D) /\ r.state = k.state /\ r.active = k.active
  BY Requeued
<1>2. /\ SameClock(k, r)
      /\ \A p \in Proc : r.rest[p] > k.rest[p] => r.sq[p] = Expire(k)
  BY RequeuedQuantum
<1>3. schedule(k) = m
  BY DEF schedule, Rotated, Charged
<1> HIDE DEF r
<1>4. /\ w.rest = r.rest /\ w.sq = r.sq /\ w.state = r.state /\ w.levels = r.levels
      /\ SameClock(r, w) /\ w \in KernelState
      /\ w.active # r.active => r.count[r.active] = 0
  <2>1. r \in KernelState
    BY <1>1 DEF Base, Typed
  <2>2. CASE r.count[r.active] = 0
    <3>1. w = [r EXCEPT !.active = Expire(r)] /\ Expire(r) \in Queues
      BY <2>1, <2>2 DEF SwapIfDrained, Expire, Queues, KernelState
    <3> QED BY <2>1, <2>2, <3>1 DEF KernelState, SameClock
  <2>3. CASE r.count[r.active] # 0
    <3>1. w = r
      BY <2>3 DEF SwapIfDrained
    <3> QED BY <2>1, <3>1 DEF SameClock
  <2> QED BY <2>2, <2>3
<1> HIDE DEF w, n
<1>5. /\ m.rest = w.rest /\ m.sq = w.sq /\ m.state = w.state /\ m.active = w.active
      /\ SameClock(w, m)
  BY <1>4 DEF SwitchTo, KernelState, SameClock
<1> HIDE DEF m
<1>6. ASSUME m.active # k.active PROVE Members(m, D, k.active) = {}
  <2>1. r.count[k.active] = 0 /\ k.active \in Queues
    BY <1>1, <1>4, <1>5, <1>6 DEF Base, Typed, KernelState
  <2>2. Cardinality(Members(r, D, k.active)) = 0
    BY <2>1, <1>1 DEF Base, CountsExactFor
  <2>3. Members(r, D, k.active) = {}
    BY <2>2, MembersFinite, FS_EmptySet
  <2> QED BY <2>3, <1>4, <1>5 DEF Members, Runnable
<1> QED BY <1>2, <1>3, <1>4, <1>5, <1>6 DEF SameClock

-----------------------------------------------------------------------------
(***************************************************************************)
(* The scheduler between two of its routines, nobody asleep with a         *)
(* deadline: what the blocking primitives find and leave.                  *)
(***************************************************************************)
Untimed(k) ==
    /\ Good(k, {})
    /\ \A p \in Proc : k.state[p] = "WAITING" => p \in k.waitlist

\* Who waits is in the wait list, and no slot of the wheel holds anybody.
LEMMA UntimedWaiters ==
    ASSUME NEW k, Untimed(k)
    PROVE  /\ k \in KernelState /\ Typed(k) /\ k.panic = FALSE
           /\ k.waitlist \subseteq Proc
           /\ \A p \in Proc : p \in k.waitlist <=> k.state[p] = "WAITING"
           /\ \A t \in Slots : k.wheel[t] = <<>>
<1>1. Base(k, {}) /\ Typed(k) /\ k \in KernelState /\ k.panic = FALSE
  BY DEF Untimed, Good, Base, Typed, KernelState
<1>2. k.waitlist \subseteq Proc /\ k.wheel \in [Slots -> Seq(Proc)]
  BY <1>1 DEF KernelState
<1>3. \A p \in Proc : p \in k.waitlist <=> k.state[p] = "WAITING"
  BY <1>1 DEF Untimed, Base, WaitQueuesExactFor
<1>4. ASSUME NEW t \in Slots PROVE k.wheel[t] = <<>>
  <2> DEFINE s == k.wheel[t]
  <2>1. s \in Seq(Proc)
    BY <1>2
  <2>2. \A p \in Proc : ~InSeq(p, s)
    BY <1>1, <1>3 DEF Base, WaitQueuesExactFor
  <2> HIDE DEF s
  <2>3. ASSUME s # <<>> PROVE FALSE
    <3>1. 1 \in DOMAIN s /\ s[1] \in Proc
      BY <2>1, <2>3
    <3> QED BY <3>1, <2>2 DEF InSeq
  <2> QED BY <2>3 DEF s
<1> QED BY <1>1, <1>2, <1>3, <1>4

\* schedule, called by a process that is still running.
LEMMA UntimedSchedule ==
    ASSUME NEW k, Untimed(k)
    PROVE  Untimed(schedule(k)) /\ schedule(k).state = k.state
<1>1. Good(k, {}) /\ Base(k, {}) /\ QuantumBoundsFor(k, {}) /\ P1 \in Runnable(k, {})
  BY DEF Untimed, Good
<1>2. k.cur \notin {} /\ k.rest[k.cur] >= 1 /\ k.sq[k.cur] = k.active
  BY <1>1, CurrentGood, LevelAssumption
<1>3. Good(schedule(k), {}) /\ schedule(k).state = k.state
  BY <1>1, ScheduleGood
<1>4. SameClock(k, schedule(k))
  BY <1>1, <1>2, ScheduleRounds
<1> QED BY <1>3, <1>4 DEF Untimed, SameClock

\* What a tick finds due: nobody.
LEMMA NobodyDue ==
    ASSUME NEW k, Untimed(k)
    PROVE  WakeDue(k) = k
<1> DEFINE slot == CurrentSlot(k)
<1>1. slot = <<>>
  BY UntimedWaiters, HashIsSlot DEF CurrentSlot, KernelState
<1> DEFINE Woken(f) == f = [n \in 0..Len(slot) |->
                                IF n = 0 THEN k
                                ELSE IF Due(k, slot[n])
                                THEN in_sched_queue(TakeReady(f[n - 1], slot[n]), slot[n])
                                ELSE f[n - 1]]
           f0 == [n \in 0..Len(slot) |-> k]
           g  == CHOOSE f : Woken(f)
<1>2. Len(slot) = 0 /\ \A n \in 0..Len(slot) : n = 0
  BY <1>1
<1>3. WakeDue(k) = g[Len(slot)]
  BY DEF WakeDue
<1> HIDE DEF slot
<1>4. Woken(f0)
  BY <1>2
<1>5. Woken(g)
  BY <1>4
<1> HIDE DEF g
<1> QED BY <1>2, <1>3, <1>5

\* A tick.
LEMMA UntimedTick ==
    ASSUME NEW k, Untimed(k)
    PROVE  Untimed(do_timer(k)) /\ do_timer(k).state = k.state
<1> DEFINE j == (k.jiffies + 1) % JIFFIES_MOD
           m == [k EXCEPT !.jiffies = j]
<1>1. k \in KernelState /\ Typed(k)
  BY UntimedWaiters
<1>2. j \in Jiffies
  <2>1. k.jiffies \in Jiffies
    BY <1>1 DEF KernelState
  <2>2. k.jiffies + 1 \in Nat
    BY <2>1 DEF Jiffies
  <2> QED BY <2>2, HashIsSlot
<1>3. do_timer(k) = schedule(WakeDue(m))
  BY DEF do_timer
<1> HIDE DEF j
<1>4. /\ m \in KernelState /\ SameQueues(k, m)
      /\ m.cur = k.cur /\ m.active = k.active /\ m.rest = k.rest
  BY <1>1, <1>2 DEF KernelState, SameQueues
<1> HIDE DEF m
<1>5. Typed(m)
  BY <1>1, <1>4 DEF Typed, SameQueues
<1>6. Base(m, {})
  BY <1>4, <1>5, Frame DEF Untimed, Good
<1>7. Untimed(m)
  BY <1>4, <1>6 DEF Untimed, Good, CurrentIsHeadOf, QuantumBoundsFor, Runnable, SameQueues
<1>8. Untimed(schedule(m)) /\ schedule(m).state = m.state
  BY <1>7, UntimedSchedule
<1> QED BY <1>3, <1>4, <1>7, <1>8, NobodyDue DEF SameQueues

\* A caller of a blocking routine goes to sleep for as long as it takes.
LEMMA UntimedSuspend ==
    ASSUME NEW k, Untimed(k), k.cur # P1
    PROVE  LET m == Suspend(k, k.cur, 0)
           IN  Untimed(m) /\ m.state = [k.state EXCEPT ![k.cur] = "WAITING"]
<1> DEFINE p == k.cur
           out == out_sched_queue(k, p)
           m == kwait(out, p)
<1>1. /\ k \in KernelState /\ k.panic = FALSE /\ Base(k, {}) /\ Typed(k)
      /\ \A q \in Proc : k.state[q] = "WAITING" => q \in k.waitlist
  BY UntimedWaiters DEF Untimed, Good
<1>2. p \in Proc /\ k.state[p] = "RUNNING" /\ k.rest[p] >= 1
  BY CurrentGood, LevelAssumption DEF Untimed
<1>3. Suspend(k, p, 0) = schedule(m)
  BY DEF Suspend
<1>4. out = Dequeue(k, p)
  <2>1. kassert(k, k.state[p] = "RUNNING") = k
    BY <1>1, <1>2 DEF kassert, KernelState
  <2> QED BY <2>1 DEF out_sched_queue
<1>5. /\ Base(out, {} \union {p})
      /\ out.state = k.state /\ out.rest = k.rest /\ out.cur = p
      /\ out.waitlist = k.waitlist
  <2>1. Base(Dequeue(k, p), {} \union {p})
    BY <1>1, <1>2, DequeueBase
  <2>2. Unlinked(k, k.sq[p], p, Dequeue(k, p))
    BY <1>1, <1>2, DequeueFields
  <2> QED BY <1>4, <2>1, <2>2 DEF Unlinked, RestOf
<1> HIDE DEF out
<1>6. Base(m, {})
  <2>1. Base(m, ({} \union {p}) \ {p})
    BY <1>2, <1>5, KwaitBase
  <2>2. ({} \union {p}) \ {p} = {}
    OBVIOUS
  <2> QED BY <2>1, <2>2
<1>7. /\ m.state = [k.state EXCEPT ![p] = "WAITING"] /\ m.rest = k.rest /\ m.cur = p
      /\ m.waitlist = k.waitlist \union {p}
  <2>1. out \in KernelState
    BY <1>5 DEF Base, Typed
  <2> QED BY <1>5, <2>1 DEF kwait, KernelState
<1> HIDE DEF m
<1>8. k.state \in [Proc -> ProcState] /\ P1 \in Proc
  BY <1>1, ProcAssumption DEF KernelState
<1>9. QuantumBoundsFor(m, {}) /\ P1 \in Runnable(m, {})
  BY <1>2, <1>7, <1>8 DEF Untimed, Good, QuantumBoundsFor, Runnable
<1>10. m.state[m.cur] # "RUNNING" /\ m.rest[m.cur] >= 1 /\ m.cur \notin {}
  BY <1>2, <1>7, <1>8
<1>11. Good(schedule(m), {}) /\ schedule(m).state = m.state
  BY <1>6, <1>9, <1>10, Schedule
<1>12. SameClock(m, schedule(m))
  BY <1>6, <1>9, <1>10, ScheduleRounds
<1>13. \A q \in Proc : m.state[q] = "WAITING" => q \in m.waitlist
  BY <1>1, <1>7, <1>8
<1> QED BY <1>3, <1>7, <1>11, <1>12, <1>13 DEF Untimed, SameClock

\* A process that waits is made ready; the caller goes on.
LEMMA UntimedResume ==
    ASSUME NEW k, Untimed(k), NEW p \in Proc, k.state[p] = "WAITING"
    PROVE  LET m == Resume(k, p)
           IN  Untimed(m) /\ m.cur = k.cur /\ m.state = [k.state EXCEPT ![p] = "RUNNING"]
<1> DEFINE w == kwakeup(k, p)
           D == {p}
<1>1. /\ k \in KernelState /\ Typed(k) /\ k.panic = FALSE /\ p \in k.waitlist
      /\ \A q \in Proc : q \in k.waitlist <=> k.state[q] = "WAITING"
      /\ Base(k, {}) /\ QuantumBoundsFor(k, {}) /\ CurrentIsHeadOf(k) /\ P1 \in Runnable(k, {})
  BY UntimedWaiters DEF Untimed, Good
<1>2. w = [k EXCEPT !.waitlist = k.waitlist \ {p}]
  BY <1>1 DEF kwakeup, kassert, KernelState
<1>3. /\ w \in KernelState /\ w.waitlist = k.waitlist \ {p}
      /\ w.levels = k.levels /\ w.count = k.count /\ w.sq = k.sq /\ w.state = k.state
      /\ w.nice = k.nice /\ w.wheel = k.wheel /\ w.wakeup = k.wakeup /\ w.panic = k.panic
      /\ w.cur = k.cur /\ w.active = k.active /\ w.rest = k.rest
  BY <1>1, <1>2 DEF KernelState
<1> HIDE DEF w
<1>4. Typed(w)
  BY <1>1, <1>3 DEF Typed
<1>5. \A q : Members(w, D, q) = Members(k, {}, q)
  BY <1>3 DEF Members, Runnable
<1>6. RunQueuesExactFor(w, D) /\ CountsExactFor(w, D)
  BY <1>1, <1>3, <1>5, SameMembers
<1>7. WaitQueuesExactFor(w, D)
  BY <1>1, <1>3 DEF Base, WaitQueuesExactFor
<1>8. Base(w, D)
  BY <1>1, <1>3, <1>4, <1>6, <1>7 DEF Base
<1>9. QuantumBoundsFor(w, D) /\ CurrentIsHeadOf(w) /\ w.cur \notin D
  BY <1>1, <1>3 DEF QuantumBoundsFor, Runnable, CurrentIsHeadOf
<1>10. /\ Base(in_sched_queue(w, p), D \ {p})
       /\ QuantumBoundsFor(in_sched_queue(w, p), D \ {p})
       /\ in_sched_queue(w, p).cur = w.cur
       /\ in_sched_queue(w, p).state = [w.state EXCEPT ![p] = "RUNNING"]
       /\ CurrentIsHeadOf(in_sched_queue(w, p))
  BY <1>8, <1>9, InSchedQueue
<1>11. SameClock(w, in_sched_queue(w, p))
  BY <1>4, InSchedQueueQuantum
<1>12. Resume(k, p) = in_sched_queue(w, p) /\ D \ {p} = {}
  BY DEF Resume, w
<1> DEFINE m == in_sched_queue(w, p)
<1> HIDE DEF m, D
<1>13. k.state \in [Proc -> ProcState]
  BY <1>1 DEF KernelState
<1>14. P1 \in Runnable(m, {})
  BY <1>1, <1>3, <1>10, <1>13 DEF Runnable, m
<1>15. \A q \in Proc : m.state[q] = "WAITING" => q \in m.waitlist
  BY <1>1, <1>3, <1>10, <1>11, <1>13 DEF SameClock, m
<1> QED BY <1>3, <1>10, <1>12, <1>14, <1>15 DEF Untimed, Good, m

\* The processes in the order in which they stand in the active queue, all of them.
LEMMA OrderOfAll ==
    ASSUME NEW order \in Orders
    PROVE  /\ order \in Seq(Proc) /\ Injective(order) /\ Len(order) = Cardinality(Proc)
           /\ order # <<>> /\ Head(order) = P1
           /\ \A p \in Proc : InSeq(p, order)
<1> DEFINE n == Cardinality(Proc)
<1>1. n \in Nat /\ IsFiniteSet(Proc)
  BY ProcAssumption, FS_CardinalityType
<1>2. order \in [1..n -> Proc] /\ order[1] = P1 /\ Injective(order)
  BY DEF Orders
<1>3. n # 0
  BY <1>1, ProcAssumption, FS_EmptySet
<1>4. Cardinality(1..n) = n /\ IsFiniteSet(1..n)
  <2>1. IsFiniteSet(1..n) /\ Cardinality(1..n) = IF 1 > n THEN 0 ELSE n - 1 + 1
    BY <1>1, FS_Interval
  <2> QED BY <2>1, <1>1, <1>3
<1> HIDE DEF n
<1>5. order \in Injection(1..n, Proc)
  BY <1>2 DEF Injection, IsInjective, Injective
<1>6. order \in Surjection(1..n, Proc)
  BY <1>1, <1>4, <1>5, FS_Injection DEF n
<1>7. \A p \in Proc : \E i \in 1..n : order[i] = p
  BY <1>6 DEF Surjection
<1>8. order \in Seq(Proc) /\ Len(order) = n /\ DOMAIN order = 1..n
  BY <1>1, <1>2
<1>9. order # <<>> /\ Head(order) = P1
  BY <1>1, <1>2, <1>3, <1>8
<1> QED BY <1>2, <1>7, <1>8, <1>9 DEF InSeq, n

\* The scheduler the behaviours start with.
LEMMA UntimedAtFirst ==
    ASSUME NEW order \in Orders
    PROVE  /\ Untimed(ForkedState(order)) /\ ForkedState(order).cur = P1
           /\ \A p \in Proc : ForkedState(order).state[p] = "RUNNING"
<1> DEFINE k == ForkedState(order)
<1>1. /\ order \in Seq(Proc) /\ Injective(order) /\ Len(order) = Cardinality(Proc)
      /\ order # <<>> /\ Head(order) = P1
      /\ \A p \in Proc : InSeq(p, order)
  BY OrderOfAll
<1>2. /\ BootNice \in Levels /\ BootNice + 1 \in 1..(REST_MOD - 1) /\ P1 \in Proc
      /\ 0 \in Jiffies /\ Cardinality(Proc) \in Nat
  BY BootNiceIsLevel, ProcAssumption, WheelAssumption, FS_CardinalityType DEF Jiffies
<1> DEFINE levels0 == [q \in Queues |-> [l \in Levels |->
                           IF q = 1 /\ l = BootNice THEN order ELSE <<>>]]
           count0 == [q \in Queues |-> IF q = 1 THEN Len(order) ELSE 0]
<1>3. /\ k.cur = P1 /\ k.active = 1 /\ k.levels = levels0 /\ k.count = count0
      /\ k.sq = [p \in Proc |-> 1] /\ k.state = [p \in Proc |-> "RUNNING"]
      /\ k.nice = [p \in Proc |-> BootNice] /\ k.rest = [p \in Proc |-> BootNice + 1]
      /\ k.ctx = [p \in Proc |-> "switch"] /\ k.jiffies = 0
      /\ k.wakeup = [p \in Proc |-> 0] /\ k.wheel = [t \in Slots |-> <<>>]
      /\ k.waitlist = {} /\ k.panic = FALSE
  BY DEF ForkedState
<1>4. levels0 \in [Queues -> [Levels -> Seq(Proc)]] /\ count0 \in [Queues -> Int]
  BY <1>1, <1>2
<1>5. k \in KernelState
  <2>1. k = [cur |-> P1, active |-> 1, levels |-> levels0, count |-> count0,
             sq |-> [p \in Proc |-> 1], state |-> [p \in Proc |-> "RUNNING"],
             nice |-> [p \in Proc |-> BootNice], rest |-> [p \in Proc |-> BootNice + 1],
             ctx |-> [p \in Proc |-> "switch"], jiffies |-> 0,
             wakeup |-> [p \in Proc |-> 0], wheel |-> [t \in Slots |-> <<>>],
             waitlist |-> {}, panic |-> FALSE]
    BY DEF ForkedState
  <2>2. /\ [p \in Proc |-> 1] \in [Proc -> Queues]
        /\ [p \in Proc |-> "RUNNING"] \in [Proc -> ProcState]
        /\ [p \in Proc |-> "switch"] \in [Proc -> SavedContext]
        /\ 1 \in Queues
    BY DEF Queues, ProcState, SavedContext
  <2>3. /\ [p \in Proc |-> BootNice] \in [Proc -> Levels]
        /\ [p \in Proc |-> BootNice + 1] \in [Proc -> 0..(REST_MOD - 1)]
        /\ [p \in Proc |-> 0] \in [Proc -> Jiffies]
    BY <1>2
  <2>4. [t \in Slots |-> <<>>] \in [Slots -> Seq(Proc)]
    OBVIOUS
  <2> HIDE DEF k, levels0, count0
  <2> QED BY <2>1, <2>2, <2>3, <2>4, <1>2, <1>4 DEF KernelState
<1> HIDE DEF k
<1>6. Typed(k)
  BY <1>3, <1>5 DEF Typed
<1>7. Members(k, {}, 1) = Proc /\ Members(k, {}, 2) = {}
  BY <1>3 DEF Members, Runnable
<1>8. RunQueuesExactFor(k, {})
  <2> SUFFICES ASSUME NEW q \in Queues, NEW l \in Levels
               PROVE  /\ Injective(k.levels[q][l])
                      /\ \A p \in Proc : InSeq(p, k.levels[q][l]) <=>
                                            p \in Members(k, {}, q) /\ k.nice[p] = l
    BY DEF RunQueuesExactFor
  <2>1. k.levels[q][l] = IF q = 1 /\ l = BootNice THEN order ELSE <<>>
    BY <1>3
  <2>2. Injective(<<>>) /\ \A p \in Proc : ~InSeq(p, <<>>)
    BY DEF Injective, InSeq
  <2>3. q = 1 \/ q = 2
    BY DEF Queues
  <2> QED BY <1>1, <1>3, <1>7, <2>1, <2>2, <2>3
<1>9. CountsExactFor(k, {})
  <2>1. Cardinality({}) = 0
    BY FS_EmptySet
  <2> QED BY <1>1, <1>3, <1>7, <2>1 DEF CountsExactFor, Queues
<1>10. WaitQueuesExactFor(k, {})
  <2>1. Injective(<<>>) /\ \A p \in Proc : ~InSeq(p, <<>>)
    BY DEF Injective, InSeq
  <2> QED BY <1>3, <2>1 DEF WaitQueuesExactFor
<1>11. QuantumBoundsFor(k, {})
  <2>1. BootNice + 1 <= MaxRest /\ BootNice + 1 >= 1
    BY MaxRestRange, <1>2
  <2> QED BY <1>3, <2>1 DEF QuantumBoundsFor
<1>12. CurrentIsHeadOf(k)
  <2>1. k.levels[1][BootNice] = order
    BY <1>2, <1>3 DEF Queues
  <2>2. \A l \in Levels : l < BootNice => k.levels[1][l] = <<>>
    BY <1>2, <1>3 DEF Queues, Levels
  <2>3. /\ k.state[P1] = "RUNNING" /\ k.sq[P1] = 1 /\ k.nice[P1] = BootNice
        /\ k.cur = P1 /\ k.active = 1
    BY <1>2, <1>3
  <2> QED BY <1>1, <2>1, <2>2, <2>3 DEF CurrentIsHeadOf
<1>13. P1 \in Runnable(k, {})
  BY <1>2, <1>3 DEF Runnable
<1> QED BY <1>3, <1>6, <1>8, <1>9, <1>10, <1>11, <1>12, <1>13 DEF Untimed, Good, Base, k

-----------------------------------------------------------------------------
(***************************************************************************)
(* Sums of a function's values over a finite set, as MapThenSumSet takes   *)
(* them: element by element, whichever CHOOSE returns first.               *)
(***************************************************************************)

\* A set of numbers that is not empty has a least one.
LEMMA Least ==
    ASSUME NEW T, T \subseteq Nat, T # {}
    PROVE  \E m \in T : \A k \in T : m <= k
<1> DEFINE R == OpToRel(<, Nat)
<1>1. IsWellFoundedOn(R, Nat)
  BY NatLessThanWellFounded
<1>2. \A k, m \in Nat : k < m => <<k, m>> \in R
  BY DEF OpToRel
<1>3. PICK m \in T : \A k \in T : ~ (<<k, m>> \in R)
  <2> HIDE DEF R
  <2> QED BY <1>1, WFMin
<1> HIDE DEF R
<1>4. ASSUME NEW k \in T PROVE m <= k
  <2>1. k \in Nat /\ m \in Nat /\ ~ (k < m)
    BY <1>2, <1>3
  <2> QED BY <2>1
<1> QED BY <1>4

\* Of the subsets of a finite set with some property, one has it while its own
\* subsets with one element less do not.
LEMMA Smallest ==
    ASSUME NEW S, IsFiniteSet(S), NEW F, F \subseteq SUBSET S, F # {}
    PROVE  \E U \in F : \A x \in U : U \ {x} \notin F
<1> DEFINE N == {n \in Nat : \E U \in F : Cardinality(U) = n}
<1>1. \A U \in F : IsFiniteSet(U) /\ Cardinality(U) \in Nat
  BY FS_Subset, FS_CardinalityType
<1>2. N \subseteq Nat /\ N # {}
  BY <1>1
<1>3. PICK n \in N : \A k \in N : n <= k
  <2> HIDE DEF N
  <2> QED BY <1>2, Least
<1>4. PICK U \in F : Cardinality(U) = n
  OBVIOUS
<1>5. ASSUME NEW x \in U, U \ {x} \in F PROVE FALSE
  <2>1. Cardinality(U \ {x}) = n - 1 /\ n \in Nat
    BY <1>1, <1>4, FS_RemoveElement
  <2>2. Cardinality(U \ {x}) \in N
    BY <1>1, <1>5
  <2>3. n <= Cardinality(U \ {x})
    BY <1>3, <2>2
  <2> QED BY <2>1, <2>3
<1> QED BY <1>5

\* The sum of f over S, and what its definition computes for the subsets of S.
Total(f, S) == MapThenFoldSet(+, 0, LAMBDA x : f[x], LAMBDA s : CHOOSE x \in s : TRUE, S)

AnElement(s) == CHOOSE x \in s : TRUE

Sums(f, S, g) ==
    g = [s \in S |-> IF s = {} THEN 0 ELSE f[AnElement(s)] + g[s \ {AnElement(s)}]]

LEMMA TotalIsSum ==
    ASSUME NEW f, NEW S, \E g : Sums(f, SUBSET S, g)
    PROVE  \E g : Sums(f, SUBSET S, g) /\ Total(f, S) = g[S]
<1> DEFINE g == CHOOSE h : Sums(f, SUBSET S, h)
<1>1. Sums(f, SUBSET S, g)
  OBVIOUS
<1>2. Total(f, S) = g[S]
  BY DEF Total, MapThenFoldSet, Sums, AnElement
<1> HIDE DEF g
<1> QED BY <1>1, <1>2

\* There is such a function, for the subsets of up to n elements.
LEMMA SumsExist ==
    ASSUME NEW f, NEW S, IsFiniteSet(S)
    PROVE  \E g : Sums(f, SUBSET S, g)
<1> DEFINE Part(n) == {s \in SUBSET S : Cardinality(s) <= n}
           Bad == {n \in Nat : ~ \E g : Sums(f, Part(n), g)}
<1>1. \A s \in SUBSET S : IsFiniteSet(s) /\ Cardinality(s) \in Nat /\ Cardinality(s) <= Cardinality(S)
  BY FS_Subset, FS_CardinalityType
<1>2. ASSUME Bad # {} PROVE FALSE
  <2>1. PICK m \in Bad : \A n \in Bad : m <= n
    <3>1. Bad \subseteq Nat
      OBVIOUS
    <3> HIDE DEF Bad
    <3> QED BY <1>2, <3>1, Least
  <2>2. CASE m = 0
    <3>1. \A s \in Part(0) : s = {}
      <4> SUFFICES ASSUME NEW s \in Part(0) PROVE s = {}
        OBVIOUS
      <4>1. Cardinality(s) = 0
        BY <1>1
      <4> QED BY <1>1, <4>1, FS_EmptySet
    <3> DEFINE g == [s \in Part(0) |-> 0]
    <3> HIDE DEF Part
    <3>2. Sums(f, Part(0), g)
      BY <3>1 DEF Sums
    <3> QED BY <2>2, <3>2
  <2>3. CASE m # 0
    <3>1. m - 1 \in Nat /\ m - 1 \notin Bad
      BY <2>1, <2>3
    <3>2. PICK g : Sums(f, Part(m - 1), g)
      BY <3>1
    <3> DEFINE h == [s \in Part(m) |->
                        IF s = {} THEN 0 ELSE f[AnElement(s)] + g[s \ {AnElement(s)}]]
    <3>3. ASSUME NEW s \in Part(m), s # {} PROVE s \ {AnElement(s)} \in Part(m - 1)
      <4>1. AnElement(s) \in s
        BY <3>3 DEF AnElement
      <4>2. Cardinality(s \ {AnElement(s)}) = Cardinality(s) - 1
        BY <1>1, <4>1, FS_RemoveElement
      <4> QED BY <1>1, <4>2, <3>1
    <3>4. \A s \in Part(m - 1) : s \in Part(m)
      <4> SUFFICES ASSUME NEW s \in SUBSET S, Cardinality(s) <= m - 1 PROVE Cardinality(s) <= m
        OBVIOUS
      <4> QED BY <1>1, <3>1
    <3> HIDE DEF Part
    <3>5. \A s \in Part(m - 1) : h[s] = g[s]
      BY <3>2, <3>4 DEF Sums
    <3>6. Sums(f, Part(m), h)
      <4>1. \A s \in Part(m) : h[s] = IF s = {} THEN 0 ELSE f[AnElement(s)] + h[s \ {AnElement(s)}]
        BY <3>3, <3>5
      <4>2. h = [s \in Part(m) |-> h[s]]
        OBVIOUS
      <4> HIDE DEF h
      <4> QED BY <4>1, <4>2 DEF Sums
    <3> HIDE DEF h
    <3> QED BY <2>1, <3>6
  <2> QED BY <2>2, <2>3
<1>3. Cardinality(S) \in Nat
  BY FS_CardinalityType
<1>4. Part(Cardinality(S)) = SUBSET S
  BY <1>1
<1>5. \E g : Sums(f, Part(Cardinality(S)), g)
  BY <1>2, <1>3
<1> QED BY <1>4, <1>5

\* And only one.
LEMMA SumsAgree ==
    ASSUME NEW f, NEW S, IsFiniteSet(S), NEW T, S \subseteq T, NEW g, NEW h,
           Sums(f, SUBSET S, g), Sums(f, SUBSET T, h)
    PROVE  g[S] = h[S]
<1> DEFINE F == {s \in SUBSET S : g[s] # h[s]}
<1>1. ASSUME F # {} PROVE FALSE
  <2>1. PICK U \in F : \A x \in U : U \ {x} \notin F
    <3>1. F \subseteq SUBSET S
      OBVIOUS
    <3> HIDE DEF F
    <3> QED BY <1>1, <3>1, Smallest
  <2>2. /\ g[U] = IF U = {} THEN 0 ELSE f[AnElement(U)] + g[U \ {AnElement(U)}]
        /\ h[U] = IF U = {} THEN 0 ELSE f[AnElement(U)] + h[U \ {AnElement(U)}]
    BY DEF Sums
  <2>3. U # {} => AnElement(U) \in U
    BY DEF AnElement
  <2>4. U # {} => g[U \ {AnElement(U)}] = h[U \ {AnElement(U)}]
    BY <2>1, <2>3
  <2> QED BY <2>2, <2>4
<1> QED BY <1>1

LEMMA TotalUnfolds ==
    ASSUME NEW f, NEW S, IsFiniteSet(S)
    PROVE  Total(f, S) = IF S = {} THEN 0 ELSE f[AnElement(S)] + Total(f, S \ {AnElement(S)})
<1>1. PICK g : Sums(f, SUBSET S, g) /\ Total(f, S) = g[S]
  BY SumsExist, TotalIsSum
<1>2. g[S] = IF S = {} THEN 0 ELSE f[AnElement(S)] + g[S \ {AnElement(S)}]
  BY <1>1 DEF Sums
<1> DEFINE T == S \ {AnElement(S)}
<1>3. IsFiniteSet(T) /\ T \subseteq S
  BY FS_Subset
<1> HIDE DEF T
<1>4. PICK h : Sums(f, SUBSET T, h) /\ Total(f, T) = h[T]
  BY <1>3, SumsExist, TotalIsSum
<1>5. h[T] = g[T]
  BY <1>1, <1>3, <1>4, SumsAgree
<1> QED BY <1>1, <1>2, <1>4, <1>5 DEF T

\* A sum of numbers is a number.
LEMMA TotalNat ==
    ASSUME NEW f, NEW S, IsFiniteSet(S), \A x \in S : f[x] \in Nat
    PROVE  \A s \in SUBSET S : Total(f, s) \in Nat
<1> DEFINE F == {s \in SUBSET S : Total(f, s) \notin Nat}
<1>1. ASSUME F # {} PROVE FALSE
  <2>1. PICK U \in F : \A x \in U : U \ {x} \notin F
    <3>1. F \subseteq SUBSET S
      OBVIOUS
    <3> HIDE DEF F
    <3> QED BY <1>1, <3>1, Smallest
  <2>2. IsFiniteSet(U) /\ U \subseteq S
    BY FS_Subset
  <2> DEFINE c == AnElement(U)
  <2>3. Total(f, U) = IF U = {} THEN 0 ELSE f[c] + Total(f, U \ {c})
    BY <2>2, TotalUnfolds
  <2>4. U # {} => c \in U
    BY DEF AnElement
  <2> HIDE DEF c
  <2>5. U # {} => Total(f, U \ {c}) \in Nat /\ f[c] \in Nat
    BY <2>1, <2>2, <2>4
  <2> QED BY <2>3, <2>5
<1> QED BY <1>1

\* The order does not matter.
LEMMA TotalRemove ==
    ASSUME NEW f, NEW S, IsFiniteSet(S), \A x \in S : f[x] \in Nat
    PROVE  \A x \in S : Total(f, S) = f[x] + Total(f, S \ {x})
<1> DEFINE Fine(s) == \A x \in s : Total(f, s) = f[x] + Total(f, s \ {x})
           F == {s \in SUBSET S : ~ Fine(s)}
<1>0. \A s \in SUBSET S : Total(f, s) \in Nat
  BY TotalNat
<1>1. ASSUME F # {} PROVE FALSE
  <2>1. PICK U \in F : \A x \in U : U \ {x} \notin F
    <3>1. F \subseteq SUBSET S
      OBVIOUS
    <3> HIDE DEF F
    <3> QED BY <1>1, <3>1, Smallest
  <2>2. IsFiniteSet(U) /\ U \subseteq S
    BY FS_Subset
  <2>3. PICK x \in U : Total(f, U) # f[x] + Total(f, U \ {x})
    OBVIOUS
  <2> DEFINE c == AnElement(U)
  <2>4. Total(f, U) = f[c] + Total(f, U \ {c})
    BY <2>2, <2>3, TotalUnfolds
  <2>5. c \in U
    BY <2>3 DEF AnElement
  <2> HIDE DEF c
  <2>6. x # c
    BY <2>3, <2>4
  <2>7. U \ {c} \in SUBSET S /\ U \ {x} \in SUBSET S
    BY <2>2
  <2>8. Fine(U \ {c}) /\ Fine(U \ {x})
    BY <2>1, <2>3, <2>5, <2>7
  <2> DEFINE rest == Total(f, (U \ {x}) \ {c})
  <2>9. Total(f, U \ {x}) = f[c] + rest
    BY <2>5, <2>6, <2>8
  <2>10. (U \ {c}) \ {x} = (U \ {x}) \ {c}
    OBVIOUS
  <2>11. Total(f, U \ {c}) = f[x] + rest
    BY <2>3, <2>6, <2>8, <2>10
  <2>12. rest \in Nat /\ f[x] \in Nat /\ f[c] \in Nat
    <3>1. (U \ {x}) \ {c} \in SUBSET S
      BY <2>2
    <3> QED BY <1>0, <2>2, <2>3, <2>5, <3>1
  <2> HIDE DEF rest
  <2> QED BY <2>3, <2>4, <2>9, <2>11, <2>12
<1> QED BY <1>1

\* Functions that agree on the set have the same sum.
LEMMA TotalSame ==
    ASSUME NEW f, NEW g, NEW S, IsFiniteSet(S), \A x \in S : f[x] = g[x]
    PROVE  Total(f, S) = Total(g, S)
<1> DEFINE F == {s \in SUBSET S : Total(f, s) # Total(g, s)}
<1>1. ASSUME F # {} PROVE FALSE
  <2>1. PICK U \in F : \A x \in U : U \ {x} \notin F
    <3>1. F \subseteq SUBSET S
      OBVIOUS
    <3> HIDE DEF F
    <3> QED BY <1>1, <3>1, Smallest
  <2>2. IsFiniteSet(U) /\ U \subseteq S
    BY FS_Subset
  <2> DEFINE c == AnElement(U)
  <2>3. /\ Total(f, U) = IF U = {} THEN 0 ELSE f[c] + Total(f, U \ {c})
        /\ Total(g, U) = IF U = {} THEN 0 ELSE g[c] + Total(g, U \ {c})
    BY <2>2, TotalUnfolds
  <2>4. U # {} => c \in U
    BY DEF AnElement
  <2> HIDE DEF c
  <2>5. U # {} => Total(f, U \ {c}) = Total(g, U \ {c}) /\ f[c] = g[c]
    BY <2>1, <2>2, <2>4
  <2> QED BY <2>3, <2>5
<1> QED BY <1>1

\* One summand changes.
LEMMA TotalChange ==
    ASSUME NEW f, NEW g, NEW S, IsFiniteSet(S), \A y \in S : f[y] \in Nat /\ g[y] \in Nat,
           NEW x \in S, \A y \in S \ {x} : g[y] = f[y]
    PROVE  Total(g, S) + f[x] = Total(f, S) + g[x]
<1>1. Total(f, S) = f[x] + Total(f, S \ {x}) /\ Total(g, S) = g[x] + Total(g, S \ {x})
  BY TotalRemove
<1>2. Total(f, S \ {x}) = Total(g, S \ {x})
  <2>1. IsFiniteSet(S \ {x})
    BY FS_Subset
  <2> QED BY <2>1, TotalSame
<1>3. Total(f, S \ {x}) \in Nat
  BY TotalNat
<1> QED BY <1>1, <1>2, <1>3

\* A set grows by one.
LEMMA TotalAdd ==
    ASSUME NEW f, NEW S, IsFiniteSet(S), NEW x, x \notin S, \A y \in S \union {x} : f[y] \in Nat
    PROVE  Total(f, S \union {x}) = Total(f, S) + f[x]
<1> DEFINE T == S \union {x}
<1>1. IsFiniteSet(T)
  BY FS_AddElement
<1>2. Total(f, T) = f[x] + Total(f, T \ {x})
  <2> HIDE DEF T
  <2>1. x \in T
    BY DEF T
  <2> QED BY <1>1, <2>1, TotalRemove DEF T
<1>3. T \ {x} = S
  OBVIOUS
<1>4. Total(f, S) \in Nat /\ f[x] \in Nat
  BY TotalNat
<1>5. Total(f, T) = f[x] + Total(f, S)
  BY <1>2, <1>3
<1> HIDE DEF T
<1> QED BY <1>4, <1>5 DEF T

\* Two sets with nothing in common.
LEMMA TotalUnion ==
    ASSUME NEW f, NEW S, NEW T, IsFiniteSet(S), IsFiniteSet(T), S \intersect T = {},
           \A x \in S \union T : f[x] \in Nat
    PROVE  Total(f, S \union T) = Total(f, S) + Total(f, T)
<1> DEFINE F == {t \in SUBSET T : Total(f, S \union t) # Total(f, S) + Total(f, t)}
<1>0. Total(f, S) \in Nat /\ \A t \in SUBSET T : Total(f, t) \in Nat
  BY TotalNat
<1>1. ASSUME F # {} PROVE FALSE
  <2>1. PICK U \in F : \A x \in U : U \ {x} \notin F
    <3>1. F \subseteq SUBSET T
      OBVIOUS
    <3> HIDE DEF F
    <3> QED BY <1>1, <3>1, Smallest
  <2>2. U \in SUBSET T /\ IsFiniteSet(U) /\ Total(f, S \union U) # Total(f, S) + Total(f, U)
    BY FS_Subset
  <2>3. CASE U = {}
    <3>1. Total(f, U) = 0 /\ S \union U = S
      BY <2>3, TotalUnfolds, FS_EmptySet
    <3>2. Total(f, S \union U) = Total(f, S)
      BY <3>1, Zenon
    <3> QED BY <1>0, <2>2, <3>1, <3>2
  <2>4. CASE U # {}
    <3>1. PICK x \in U : TRUE
      BY <2>4
    <3> DEFINE V == U \ {x}
               W == S \union V
    <3>2. V \in SUBSET T /\ V \notin F
      BY <2>1, <2>2, <3>1
    <3>3. Total(f, W) = Total(f, S) + Total(f, V)
      BY <3>2
    <3>4. IsFiniteSet(V) /\ x \notin V /\ x \in T
      BY <2>2, <3>1, FS_Subset
    <3>5. IsFiniteSet(W) /\ x \notin W /\ W \subseteq S \union T
      BY <2>2, <3>1, <3>4, FS_Union
    <3>6. V \union {x} = U /\ W \union {x} = S \union U
      BY <3>1
    <3> HIDE DEF V, W, F
    <3>7. (\A y \in V \union {x} : f[y] \in Nat) /\ \A y \in W \union {x} : f[y] \in Nat
      BY <3>2, <3>4, <3>5
    <3>8. Total(f, V \union {x}) = Total(f, V) + f[x]
      BY <3>4, <3>7, TotalAdd
    <3>9. Total(f, W \union {x}) = Total(f, W) + f[x]
      BY <3>5, <3>7, TotalAdd
    <3>10. f[x] \in Nat /\ Total(f, V) \in Nat
      BY <1>0, <3>2, <3>4
    <3>11. Total(f, U) = Total(f, V) + f[x] /\ Total(f, S \union U) = Total(f, W) + f[x]
      BY <3>6, <3>8, <3>9, Zenon
    <3> QED BY <1>0, <2>2, <3>3, <3>10, <3>11
  <2> QED BY <2>3, <2>4
<1>2. F = {}
  BY <1>1
<1> QED BY <1>2

LEMMA TotalEmpty ==
    ASSUME NEW f
    PROVE  Total(f, {}) = 0
BY TotalUnfolds, FS_EmptySet

-----------------------------------------------------------------------------
(***************************************************************************)
(* ksemaphore.c, while nobody waits with a timeout.                        *)
(***************************************************************************)

\* A list without its head.
LEMMA TailList ==
    ASSUME NEW S, NEW l \in Seq(S), Injective(l), l # <<>>
    PROVE  /\ Head(l) \in S /\ InSeq(Head(l), l)
           /\ Tail(l) \in Seq(S) /\ Injective(Tail(l)) /\ Len(Tail(l)) = Len(l) - 1
           /\ \A p \in S : InSeq(p, Tail(l)) <=> InSeq(p, l) /\ p # Head(l)
<1> DEFINE t == Tail(l)
           n == Len(l)
<1>1. /\ n \in Nat /\ n >= 1 /\ DOMAIN l = 1..n
      /\ t \in Seq(S) /\ Len(t) = n - 1 /\ DOMAIN t = 1..(n - 1)
      /\ \A i \in 1..(n - 1) : t[i] = l[i + 1]
      /\ Head(l) = l[1] /\ \A i \in 1..n : l[i] \in S
  OBVIOUS
<1> HIDE DEF t, n
<1>2. \A i, j \in 1..n : l[i] = l[j] => i = j
  BY <1>1 DEF Injective
<1>3. 1 \in 1..n
  BY <1>1
<1>4. \A i \in 1..(n - 1) : i + 1 \in 1..n /\ i + 1 # 1
  BY <1>1
<1>5. Injective(t)
  <2> SUFFICES ASSUME NEW i \in 1..(n - 1), NEW j \in 1..(n - 1), t[i] = t[j] PROVE i = j
    BY <1>1 DEF Injective
  <2>1. i + 1 = j + 1
    BY <1>1, <1>2, <1>4
  <2> QED BY <1>1, <2>1
<1>6. ASSUME NEW p \in S PROVE InSeq(p, t) <=> InSeq(p, l) /\ p # Head(l)
  <2>1. ASSUME InSeq(p, t) PROVE InSeq(p, l) /\ p # Head(l)
    <3>1. PICK i \in 1..(n - 1) : t[i] = p
      BY <1>1, <2>1 DEF InSeq
    <3>2. l[i + 1] = p /\ l[i + 1] # l[1]
      BY <1>1, <1>2, <1>3, <1>4, <3>1
    <3> QED BY <1>1, <1>4, <3>2 DEF InSeq
  <2>2. ASSUME InSeq(p, l), p # Head(l) PROVE InSeq(p, t)
    <3>1. PICK i \in 1..n : l[i] = p
      BY <1>1, <2>2 DEF InSeq
    <3>2. i # 1
      BY <1>1, <2>2, <3>1
    <3>3. i - 1 \in 1..(n - 1) /\ (i - 1) + 1 = i
      BY <1>1, <3>2
    <3>4. t[i - 1] = p
      BY <1>1, <3>1, <3>3
    <3> QED BY <1>1, <3>3, <3>4 DEF InSeq
  <2> QED BY <2>1, <2>2
<1> QED BY <1>1, <1>3, <1>5, <1>6 DEF t, InSeq

\* A list is one over any set its members are in.
LEMMA SeqOfMembers ==
    ASSUME NEW S, NEW T, NEW l \in Seq(S), \A x \in S : InSeq(x, l) => x \in T
    PROVE  l \in Seq(T)
<1> DEFINE n == Len(l)
<1>1. n \in Nat /\ DOMAIN l = 1..n /\ l = [i \in 1..n |-> l[i]] /\ \A i \in 1..n : l[i] \in S
  OBVIOUS
<1> HIDE DEF n
<1>2. \A i \in 1..n : l[i] \in T
  BY <1>1 DEF InSeq
<1>3. [i \in 1..n |-> l[i]] \in Seq(T)
  BY <1>1, <1>2
<1> QED BY <1>1, <1>3

\* What is left of a list after its first m members.
After(l, m) == SubSeq(l, m + 1, Len(l))

LEMMA AfterIs ==
    ASSUME NEW l \in Seq(Proc), NEW m \in 0..Len(l)
    PROVE  /\ After(l, m) \in Seq(Proc)
           /\ Len(After(l, m)) = Len(l) - m
           /\ \A i \in 1..(Len(l) - m) : After(l, m)[i] = l[m + i]
<1> DEFINE n == Len(l)
           b == m + 1
           a == SubSeq(l, b, n)
<1>1. n \in Nat /\ m \in Nat /\ m <= n /\ b \in Int /\ n \in Int
  OBVIOUS
<1>2. \A i \in b..n : l[i] \in Proc
  BY <1>1
<1>3. /\ a \in Seq(Proc) /\ Len(a) = IF b <= n THEN n - b + 1 ELSE 0
      /\ \A i \in 1..(n - b + 1) : a[i] = l[b + i - 1]
  <2> HIDE DEF n, b
  <2> QED BY <1>1, <1>2, SubSeqProperties
<1>4. Len(a) = n - m
  BY <1>1, <1>3
<1>5. ASSUME NEW i \in 1..(n - m) PROVE a[i] = l[m + i]
  <2>1. i \in 1..(n - b + 1) /\ b + i - 1 = m + i
    BY <1>1
  <2> QED BY <1>3, <2>1
<1> QED BY <1>3, <1>4, <1>5 DEF After

LEMMA AfterList ==
    ASSUME NEW l \in Seq(Proc), NEW m \in 0..Len(l)
    PROVE  /\ m = 0 => After(l, m) = l
           /\ m = Len(l) => After(l, m) = <<>>
           /\ m < Len(l) => /\ After(l, m) # <<>>
                            /\ Head(After(l, m)) = l[m + 1]
                            /\ Tail(After(l, m)) = After(l, m + 1)
<1> DEFINE a == After(l, m)
<1>1. /\ a \in Seq(Proc) /\ Len(a) = Len(l) - m
      /\ \A i \in 1..(Len(l) - m) : a[i] = l[m + i]
  BY AfterIs
<1>2. m = 0 => a = l
  BY <1>1
<1>3. m = Len(l) => a = <<>>
  BY <1>1
<1>4. ASSUME m < Len(l)
      PROVE  /\ a # <<>> /\ Head(a) = l[m + 1]
             /\ Tail(a) = After(l, m + 1)
  <2> DEFINE b == After(l, m + 1)
  <2>1. /\ b \in Seq(Proc) /\ Len(b) = Len(l) - (m + 1)
        /\ \A i \in 1..(Len(l) - (m + 1)) : b[i] = l[(m + 1) + i]
    <3>1. m + 1 \in 0..Len(l)
      BY <1>4
    <3> QED BY <3>1, AfterIs
  <2> HIDE DEF a, b
  <2>2. Len(a) >= 1 /\ a # <<>> /\ Head(a) = a[1] /\ a[1] = l[m + 1]
    BY <1>1, <1>4
  <2>3. /\ Tail(a) \in Seq(Proc) /\ Len(Tail(a)) = Len(a) - 1
        /\ \A i \in 1..(Len(a) - 1) : Tail(a)[i] = a[i + 1]
    BY <1>1, <2>2
  <2>4. Len(Tail(a)) = Len(b)
    BY <1>1, <1>4, <2>1, <2>3
  <2>5. ASSUME NEW i \in 1..Len(b) PROVE Tail(a)[i] = b[i]
    <3>1. i \in 1..(Len(a) - 1) /\ i + 1 \in 1..(Len(l) - m) /\ m + (i + 1) = (m + 1) + i
      BY <1>1, <1>4, <2>1
    <3> QED BY <1>1, <2>1, <2>3, <3>1
  <2>6. Tail(a) = b
    BY <2>1, <2>3, <2>4, <2>5, SeqEqual
  <2> QED BY <2>2, <2>6 DEF b
<1> QED BY <1>2, <1>3, <1>4

\* A semaphore between two calls, while its sleepers wait without a deadline: its
\* list is exactly the processes that sleep, and each of them needs something.
Semaphores == [k : KernelState, surplus : Nat, list : Seq(Proc), node : [Proc -> Nat]]

Sound(s) ==
    /\ s \in Semaphores
    /\ Untimed(s.k)
    /\ Injective(s.list)
    /\ \A p \in Proc : InSeq(p, s.list) <=> s.k.state[p] = "WAITING"
    /\ \A p \in Proc : InSeq(p, s.list) => s.node[p] > 0

\* The running process does not sleep.
LEMMA SoundRuns ==
    ASSUME NEW s, Sound(s)
    PROVE  /\ s.k \in KernelState /\ s.k.panic = FALSE /\ s.k.cur \in Proc
           /\ s.k.state[s.k.cur] = "RUNNING" /\ ~InSeq(s.k.cur, s.list)
           /\ s.surplus \in Nat /\ s.list \in Seq(Proc) /\ s.node \in [Proc -> Nat]
           /\ Injective(s.list) /\ Len(s.list) \in Nat /\ s \in Semaphores
<1>0. Untimed(s.k)
  BY DEF Sound
<1>1. s.k \in KernelState /\ s.k.panic = FALSE /\ Good(s.k, {})
  <2>1. s.k \in KernelState /\ s.k.panic = FALSE
    BY <1>0, UntimedWaiters
  <2> QED BY <1>0, <2>1 DEF Untimed
<1>2. s.k.cur \in Proc /\ s.k.state[s.k.cur] = "RUNNING"
  BY <1>1 DEF Good, CurrentIsHeadOf, KernelState
<1>3. ~InSeq(s.k.cur, s.list)
  BY <1>2 DEF Sound
<1>4. /\ s.surplus \in Nat /\ s.list \in Seq(Proc) /\ s.node \in [Proc -> Nat]
      /\ Injective(s.list) /\ s \in Semaphores
  BY DEF Sound, Semaphores
<1>5. Len(s.list) \in Nat
  BY <1>4
<1> QED BY <1>1, <1>2, <1>3, <1>4, <1>5

\* A tick.
LEMMA SoundTick ==
    ASSUME NEW s, Sound(s), NEW t, t = [s EXCEPT !.k = do_timer(@)]
    PROVE  /\ Sound(t)
           /\ t.surplus = s.surplus /\ t.list = s.list /\ t.node = s.node
<1>1. Untimed(do_timer(s.k)) /\ do_timer(s.k).state = s.k.state
  BY UntimedTick DEF Sound
<1>2. do_timer(s.k) \in KernelState
  BY <1>1, UntimedWaiters
<1>3. /\ t \in Semaphores /\ t.k = do_timer(s.k)
      /\ t.surplus = s.surplus /\ t.list = s.list /\ t.node = s.node
  BY <1>2 DEF Sound, Semaphores
<1> QED BY <1>1, <1>3 DEF Sound

\* The running process finds too little, joins the list and sleeps.
LEMMA SoundJoin ==
    ASSUME NEW s, Sound(s), s.k.cur # P1, NEW demand \in Nat, demand > 0,
           NEW t, t = JoinSemaphore(s, s.k.cur, demand, 0)
    PROVE  /\ Sound(t)
           /\ t.surplus = s.surplus /\ t.list = Append(s.list, s.k.cur)
           /\ t.node = [s.node EXCEPT ![s.k.cur] = demand]
<1> DEFINE p == s.k.cur
           m == Suspend(s.k, p, 0)
<1>1. /\ s.k \in KernelState /\ p \in Proc /\ ~InSeq(p, s.list)
      /\ s.list \in Seq(Proc) /\ s.node \in [Proc -> Nat] /\ Injective(s.list)
  BY SoundRuns
<1>2. Untimed(m) /\ m.state = [s.k.state EXCEPT ![p] = "WAITING"]
  BY UntimedSuspend DEF Sound
<1>3. /\ t.k = m /\ t.surplus = s.surplus /\ t.list = Append(s.list, p)
      /\ t.node = [s.node EXCEPT ![p] = demand]
      /\ DOMAIN t = {"k", "surplus", "list", "node"}
      /\ t = [k |-> t.k, surplus |-> t.surplus, list |-> t.list, node |-> t.node]
  BY DEF JoinSemaphore, Sound, Semaphores
<1>4. m \in KernelState
  BY <1>2, UntimedWaiters
<1>5. /\ Append(s.list, p) \in Seq(Proc) /\ Injective(Append(s.list, p))
      /\ \A x \in Proc : InSeq(x, Append(s.list, p)) <=> InSeq(x, s.list) \/ x = p
  BY <1>1, AppendList
<1>6. s.k.state \in [Proc -> ProcState]
  BY <1>1 DEF KernelState
<1> HIDE DEF m
<1>7. t \in Semaphores
  <2>1. s.surplus \in Nat /\ [s.node EXCEPT ![p] = demand] \in [Proc -> Nat]
    BY <1>1, SoundRuns
  <2> QED BY <1>3, <1>4, <1>5, <2>1 DEF Semaphores
<1>8. \A x \in Proc : InSeq(x, t.list) <=> t.k.state[x] = "WAITING"
  <2> SUFFICES ASSUME NEW x \in Proc PROVE InSeq(x, t.list) <=> t.k.state[x] = "WAITING"
    OBVIOUS
  <2>1. t.k.state[x] = IF x = p THEN "WAITING" ELSE s.k.state[x]
    BY <1>1, <1>2, <1>3, <1>6
  <2> QED BY <1>3, <1>5, <2>1 DEF Sound
<1>9. \A x \in Proc : InSeq(x, t.list) => t.node[x] > 0
  <2> SUFFICES ASSUME NEW x \in Proc, InSeq(x, t.list) PROVE t.node[x] > 0
    OBVIOUS
  <2>1. t.node[x] = IF x = p THEN demand ELSE s.node[x]
    BY <1>1, <1>3
  <2>2. InSeq(x, s.list) \/ x = p
    BY <1>3, <1>5
  <2> QED BY <2>1, <2>2 DEF Sound
<1> QED BY <1>2, <1>3, <1>5, <1>7, <1>8, <1>9 DEF Sound

\* The first waiter gets its units.
LEMMA SoundGrant ==
    ASSUME NEW s, Sound(s), ~Unserved(s), NEW t, t = Grant(s)
    PROVE  /\ Sound(t) /\ t.k.cur = s.k.cur
           /\ t.list = Tail(s.list)
           /\ t.surplus + s.node[Head(s.list)] = s.surplus
           /\ t.node = [s.node EXCEPT ![Head(s.list)] = 0]
<1> DEFINE p == Head(s.list)
           m == Resume(s.k, p)
<1>1. /\ s.k \in KernelState /\ s.surplus \in Nat
      /\ s.list \in Seq(Proc) /\ s.node \in [Proc -> Nat] /\ Injective(s.list)
  BY SoundRuns
<1>2. s.list # <<>> /\ ~(s.node[p] > s.surplus)
  BY DEF Unserved
<1>3. /\ p \in Proc /\ InSeq(p, s.list)
      /\ Tail(s.list) \in Seq(Proc) /\ Injective(Tail(s.list))
      /\ \A x \in Proc : InSeq(x, Tail(s.list)) <=> InSeq(x, s.list) /\ x # p
  BY <1>1, <1>2, TailList
<1>4. Untimed(m) /\ m.cur = s.k.cur /\ m.state = [s.k.state EXCEPT ![p] = "RUNNING"]
  <2>1. s.k.state[p] = "WAITING" /\ Untimed(s.k)
    BY <1>3 DEF Sound
  <2> QED BY <1>3, <2>1, UntimedResume
<1>5. /\ t.k = m /\ t.surplus = s.surplus - s.node[p] /\ t.list = Tail(s.list)
      /\ t.node = [s.node EXCEPT ![p] = 0]
      /\ t = [k |-> t.k, surplus |-> t.surplus, list |-> t.list, node |-> t.node]
  BY DEF Grant, Sound, Semaphores
<1>6. m \in KernelState
  BY <1>4, UntimedWaiters
<1>7. s.k.state \in [Proc -> ProcState]
  BY <1>1 DEF KernelState
<1> HIDE DEF m, p
<1>8. t.surplus \in Nat /\ t.surplus + s.node[p] = s.surplus
  <2>1. s.node[p] \in Nat
    BY <1>1, <1>3
  <2> QED BY <1>1, <1>2, <1>5, <2>1
<1>9. t \in Semaphores
  <2>1. [s.node EXCEPT ![p] = 0] \in [Proc -> Nat]
    BY <1>1
  <2> QED BY <1>3, <1>5, <1>6, <1>8, <2>1 DEF Semaphores
<1>10. \A x \in Proc : InSeq(x, t.list) <=> t.k.state[x] = "WAITING"
  <2> SUFFICES ASSUME NEW x \in Proc PROVE InSeq(x, t.list) <=> t.k.state[x] = "WAITING"
    OBVIOUS
  <2>1. t.k.state[x] = IF x = p THEN "RUNNING" ELSE s.k.state[x]
    BY <1>3, <1>4, <1>5, <1>7
  <2> QED BY <1>3, <1>5, <2>1 DEF Sound
<1>11. \A x \in Proc : InSeq(x, t.list) => t.node[x] > 0
  <2> SUFFICES ASSUME NEW x \in Proc, InSeq(x, t.list) PROVE t.node[x] > 0
    OBVIOUS
  <2>1. x # p /\ InSeq(x, s.list)
    BY <1>3, <1>5
  <2>2. t.node[x] = s.node[x]
    BY <1>1, <1>5, <2>1
  <2> QED BY <2>1, <2>2 DEF Sound
<1> QED BY <1>3, <1>4, <1>5, <1>8, <1>9, <1>10, <1>11 DEF Sound, p

\* The first m members of a list.
FirstOf(l, m) == {l[i] : i \in 1..m}

LEMMA FirstOfList ==
    ASSUME NEW l \in Seq(Proc), Injective(l), NEW m \in 0..Len(l)
    PROVE  /\ FirstOf(l, m) \subseteq Proc /\ IsFiniteSet(FirstOf(l, m))
           /\ m = 0 => FirstOf(l, m) = {}
           /\ m < Len(l) => /\ l[m + 1] \in Proc /\ l[m + 1] \notin FirstOf(l, m)
                            /\ FirstOf(l, m + 1) = FirstOf(l, m) \union {l[m + 1]}
           /\ \A p \in Proc : InSeq(p, l) <=> p \in FirstOf(l, m) \/ InSeq(p, After(l, m))
<1>1. /\ DOMAIN l = 1..Len(l) /\ Len(l) \in Nat /\ \A i \in 1..Len(l) : l[i] \in Proc
      /\ \A i, j \in 1..Len(l) : l[i] = l[j] => i = j
  BY DEF Injective
<1>2. FirstOf(l, m) \subseteq Proc
  BY <1>1 DEF FirstOf
<1>3. IsFiniteSet(FirstOf(l, m))
  BY <1>2, ProcAssumption, FS_Subset
<1>4. m = 0 => FirstOf(l, m) = {}
  BY DEF FirstOf
<1>5. ASSUME m < Len(l)
      PROVE  /\ l[m + 1] \in Proc /\ l[m + 1] \notin FirstOf(l, m)
             /\ FirstOf(l, m + 1) = FirstOf(l, m) \union {l[m + 1]}
  <2>1. m + 1 \in 1..Len(l) /\ m + 1 \notin 1..m /\ 1..m \subseteq 1..Len(l)
        /\ 1..(m + 1) = (1..m) \union {m + 1}
    BY <1>1, <1>5
  <2> QED BY <1>1, <2>1 DEF FirstOf
<1>6. ASSUME NEW p \in Proc
      PROVE  InSeq(p, l) <=> p \in FirstOf(l, m) \/ InSeq(p, After(l, m))
  <2> DEFINE a == After(l, m)
  <2>1. /\ a \in Seq(Proc) /\ Len(a) = Len(l) - m /\ DOMAIN a = 1..(Len(l) - m)
        /\ \A i \in 1..(Len(l) - m) : a[i] = l[m + i]
    <3>1. /\ a \in Seq(Proc) /\ Len(a) = Len(l) - m
          /\ \A i \in 1..(Len(l) - m) : a[i] = l[m + i]
      BY AfterIs
    <3> HIDE DEF a
    <3> QED BY <3>1
  <2> HIDE DEF a
  <2>2. ASSUME InSeq(p, l), ~InSeq(p, a) PROVE p \in FirstOf(l, m)
    <3>1. PICK i \in 1..Len(l) : l[i] = p
      BY <1>1, <2>2 DEF InSeq
    <3>2. ASSUME i > m PROVE FALSE
      <4>1. i - m \in 1..(Len(l) - m) /\ m + (i - m) = i
        BY <1>1, <3>2
      <4> QED BY <2>1, <2>2, <3>1, <4>1 DEF InSeq
    <3>3. i \in 1..m
      BY <1>1, <3>2
    <3> QED BY <3>1, <3>3 DEF FirstOf
  <2>3. ASSUME p \in FirstOf(l, m) PROVE InSeq(p, l)
    BY <1>1, <2>3 DEF FirstOf, InSeq
  <2>4. ASSUME InSeq(p, a) PROVE InSeq(p, l)
    <3>1. PICK i \in 1..(Len(l) - m) : a[i] = p
      BY <2>1, <2>4 DEF InSeq
    <3>2. m + i \in 1..Len(l) /\ l[m + i] = p
      BY <1>1, <2>1, <3>1
    <3> QED BY <1>1, <3>2 DEF InSeq
  <2> QED BY <2>2, <2>3, <2>4 DEF a
<1> QED BY <1>2, <1>3, <1>4, <1>5, <1>6

\* What an up of num units makes of s when it serves the first m waiters.
Serves(s, num, m, t) ==
    /\ Sound(t) /\ t.k.cur = s.k.cur
    /\ t.list = After(s.list, m)
    /\ t.node = [p \in Proc |-> IF p \in FirstOf(s.list, m) THEN 0 ELSE s.node[p]]
    /\ t.surplus + Total(s.node, FirstOf(s.list, m)) = s.surplus + num

LEMMA ServesNobody ==
    ASSUME NEW s, Sound(s), NEW num \in Nat, NEW t, t = [s EXCEPT !.surplus = @ + num]
    PROVE  Serves(s, num, 0, t)
<1>1. /\ s.surplus \in Nat /\ s.list \in Seq(Proc) /\ s.node \in [Proc -> Nat]
      /\ Injective(s.list) /\ s \in Semaphores
  BY SoundRuns
<1>2. /\ t \in Semaphores /\ t.k = s.k /\ t.list = s.list /\ t.node = s.node
      /\ t.surplus = s.surplus + num
  BY <1>1 DEF Semaphores
<1>3. Sound(t)
  BY <1>2 DEF Sound
<1>4. FirstOf(s.list, 0) = {} /\ After(s.list, 0) = s.list
  BY <1>1, FirstOfList, AfterList
<1>5. Total(s.node, FirstOf(s.list, 0)) = 0
  BY <1>4, TotalEmpty
<1>6. t.surplus + Total(s.node, FirstOf(s.list, 0)) = s.surplus + num
  <2>1. t.surplus \in Nat
    BY <1>1, <1>2
  <2> QED BY <1>2, <1>5, <2>1
<1>7. t.node = [p \in Proc |-> IF p \in FirstOf(s.list, 0) THEN 0 ELSE s.node[p]]
  BY <1>1, <1>2, <1>4
<1> QED BY <1>2, <1>3, <1>4, <1>6, <1>7 DEF Serves

LEMMA ServesOneMore ==
    ASSUME NEW s, Sound(s), NEW num \in Nat, NEW m \in 0..Len(s.list), NEW t,
           Serves(s, num, m, t), ~Unserved(t)
    PROVE  m < Len(s.list) /\ Serves(s, num, m + 1, Grant(t))
<1> DEFINE l == s.list
           p == l[m + 1]
           u == Grant(t)
<1>1. /\ l \in Seq(Proc) /\ Injective(l) /\ s.node \in [Proc -> Nat] /\ s.surplus \in Nat
      /\ m \in 0..Len(l) /\ Len(l) \in Nat
  BY SoundRuns
<1>2. /\ Sound(t) /\ t.k.cur = s.k.cur /\ t.list = After(l, m)
      /\ t.node = [q \in Proc |-> IF q \in FirstOf(l, m) THEN 0 ELSE s.node[q]]
      /\ t.surplus + Total(s.node, FirstOf(l, m)) = s.surplus + num
  BY DEF Serves
<1>3. t.list # <<>>
  BY DEF Unserved
<1> HIDE DEF l
<1>4. m < Len(l)
  BY <1>1, <1>2, <1>3, AfterList
<1>5. Head(t.list) = p /\ Tail(t.list) = After(l, m + 1)
  BY <1>1, <1>2, <1>4, AfterList
<1>6. p \in Proc /\ p \notin FirstOf(l, m) /\ FirstOf(l, m + 1) = FirstOf(l, m) \union {p}
  BY <1>1, <1>4, FirstOfList
<1>7. /\ Sound(u) /\ u.k.cur = s.k.cur /\ u.list = After(l, m + 1)
      /\ u.surplus + t.node[p] = t.surplus
      /\ u.node = [t.node EXCEPT ![p] = 0]
  <2>1. /\ Sound(u) /\ u.k.cur = t.k.cur /\ u.list = Tail(t.list)
        /\ u.surplus + t.node[Head(t.list)] = t.surplus
        /\ u.node = [t.node EXCEPT ![Head(t.list)] = 0]
    BY <1>2, SoundGrant
  <2> HIDE DEF u, p
  <2> QED BY <1>2, <1>5, <2>1
<1> HIDE DEF u, p
<1>8. t.node[p] = s.node[p]
  BY <1>2, <1>6
<1>9. u.node = [q \in Proc |-> IF q \in FirstOf(l, m + 1) THEN 0 ELSE s.node[q]]
  <2>1. \A q \in Proc : u.node[q] = IF q = p THEN 0 ELSE t.node[q]
    BY <1>2, <1>7
  <2>2. DOMAIN u.node = Proc /\ u.node = [q \in Proc |-> u.node[q]]
    BY <1>2, <1>7
  <2> QED BY <1>2, <1>6, <2>1, <2>2
<1>10. Total(s.node, FirstOf(l, m + 1)) = Total(s.node, FirstOf(l, m)) + s.node[p]
  <2>1. FirstOf(l, m) \subseteq Proc /\ IsFiniteSet(FirstOf(l, m))
    BY <1>1, FirstOfList
  <2>2. \A q \in FirstOf(l, m) \union {p} : s.node[q] \in Nat
    BY <1>1, <1>6, <2>1
  <2>3. Total(s.node, FirstOf(l, m) \union {p}) = Total(s.node, FirstOf(l, m)) + s.node[p]
    BY <1>6, <2>1, <2>2, TotalAdd
  <2> QED BY <1>6, <2>3
<1>11. Total(s.node, FirstOf(l, m)) \in Nat
  <2>1. FirstOf(l, m) \subseteq Proc /\ IsFiniteSet(FirstOf(l, m))
    BY <1>1, FirstOfList
  <2>2. \A q \in FirstOf(l, m) : s.node[q] \in Nat
    BY <1>1, <2>1
  <2> QED BY <2>1, <2>2, TotalNat
<1>12. u.surplus \in Nat /\ s.node[p] \in Nat /\ t.surplus \in Nat
  BY <1>1, <1>2, <1>6, <1>7, SoundRuns
<1>13. u.surplus + Total(s.node, FirstOf(l, m + 1)) = s.surplus + num
  BY <1>1, <1>2, <1>7, <1>8, <1>10, <1>11, <1>12
<1> QED BY <1>4, <1>7, <1>9, <1>13 DEF Serves, l, u

\* What ksemaphore_up computes, up to its n-th turn.
Turns(s, num, n, f) ==
    f = [i \in 0..n |-> IF i = 0 THEN [s EXCEPT !.surplus = @ + num]
                        ELSE IF Unserved(f[i - 1]) THEN f[i - 1]
                        ELSE Grant(f[i - 1])]

LEMMA TurnsExist ==
    ASSUME NEW s, NEW num, NEW n \in Nat
    PROVE  \E f : Turns(s, num, n, f)
<1> DEFINE Bad == {k \in Nat : ~ \E f : Turns(s, num, k, f)}
<1>1. ASSUME Bad # {} PROVE FALSE
  <2>1. PICK k \in Bad : \A i \in Bad : k <= i
    <3>1. Bad \subseteq Nat
      OBVIOUS
    <3> HIDE DEF Bad
    <3> QED BY <1>1, <3>1, Least
  <2>2. CASE k = 0
    <3> DEFINE f == [i \in 0..0 |-> [s EXCEPT !.surplus = @ + num]]
    <3>1. Turns(s, num, 0, f)
      BY DEF Turns
    <3> HIDE DEF f
    <3> QED BY <2>1, <2>2, <3>1
  <2>3. CASE k # 0
    <3>1. k \in Nat /\ k - 1 \in Nat /\ k - 1 \notin Bad
      BY <2>1, <2>3
    <3>2. PICK f : Turns(s, num, k - 1, f)
      BY <3>1
    <3> DEFINE last == IF Unserved(f[k - 1]) THEN f[k - 1] ELSE Grant(f[k - 1])
               g == [i \in 0..k |-> IF i = k THEN last ELSE f[i]]
    <3>3. g[k] = last /\ DOMAIN g = 0..k /\ \A i \in 0..(k - 1) : g[i] = f[i]
      <4> HIDE DEF last
      <4> QED BY <3>1
    <3>4. g[k] = IF Unserved(g[k - 1]) THEN g[k - 1] ELSE Grant(g[k - 1])
      <4>1. g[k - 1] = f[k - 1]
        BY <3>1, <3>3
      <4> HIDE DEF g
      <4> QED BY <3>3, <4>1
    <3>5. g = [i \in 0..k |-> g[i]]
      OBVIOUS
    <3> HIDE DEF g, last
    <3>6. ASSUME NEW i \in 0..(k - 1)
          PROVE  g[i] = IF i = 0 THEN [s EXCEPT !.surplus = @ + num]
                        ELSE IF Unserved(g[i - 1]) THEN g[i - 1]
                        ELSE Grant(g[i - 1])
      <4>1. f[i] = IF i = 0 THEN [s EXCEPT !.surplus = @ + num]
                   ELSE IF Unserved(f[i - 1]) THEN f[i - 1]
                   ELSE Grant(f[i - 1])
        BY <3>2 DEF Turns
      <4>2. i # 0 => g[i - 1] = f[i - 1]
        BY <3>1, <3>3
      <4> QED BY <3>3, <4>1, <4>2
    <3>7. \A i \in 0..k : i = k \/ i \in 0..(k - 1)
      BY <3>1
    <3>8. Turns(s, num, k, g)
      <4>1. \A i \in 0..k : g[i] = IF i = 0 THEN [s EXCEPT !.surplus = @ + num]
                                   ELSE IF Unserved(g[i - 1]) THEN g[i - 1]
                                   ELSE Grant(g[i - 1])
        BY <2>3, <3>4, <3>6, <3>7
      <4> QED BY <3>5, <4>1 DEF Turns
    <3> QED BY <2>1, <3>8
  <2> QED BY <2>2, <2>3
<1> QED BY <1>1

\* An up serves the first waiters, as many as can be: the next one needs more
\* than is left.
LEMMA UpServes ==
    ASSUME NEW s, Sound(s), NEW num \in Nat
    PROVE  \E m \in 0..Len(s.list) :
              Serves(s, num, m, ksemaphore_up(s, num)) /\ Unserved(ksemaphore_up(s, num))
<1> DEFINE n == Len(s.list)
           f == CHOOSE g : Turns(s, num, n, g)
<1>1. s.list \in Seq(Proc) /\ n \in Nat
  BY SoundRuns
<1>2. Turns(s, num, n, f)
  BY <1>1, TurnsExist
<1>3. ksemaphore_up(s, num) = f[n]
  BY DEF ksemaphore_up, Turns
<1> HIDE DEF f
<1> DEFINE Fine(i) == \E m \in 0..i : /\ m <= n
                                      /\ Serves(s, num, m, f[i])
                                      /\ m = i \/ Unserved(f[i])
           Bad == {i \in 0..n : ~Fine(i)}
<1>4. \A i \in 0..n : f[i] = IF i = 0 THEN [s EXCEPT !.surplus = @ + num]
                             ELSE IF Unserved(f[i - 1]) THEN f[i - 1]
                             ELSE Grant(f[i - 1])
  BY <1>2 DEF Turns
<1>5. Fine(0)
  <2>1. f[0] = [s EXCEPT !.surplus = @ + num]
    BY <1>1, <1>4
  <2>2. Serves(s, num, 0, f[0])
    BY <2>1, ServesNobody
  <2> QED BY <1>1, <2>2
<1>6. ASSUME NEW i \in 1..n, Fine(i - 1) PROVE Fine(i)
  <2>1. i - 1 \in 0..n /\ i \in 0..n /\ i # 0
    BY <1>1
  <2>2. PICK m \in 0..(i - 1) : /\ m <= n
                                /\ Serves(s, num, m, f[i - 1])
                                /\ m = i - 1 \/ Unserved(f[i - 1])
    BY <1>6
  <2>3. CASE Unserved(f[i - 1])
    <3>1. f[i] = f[i - 1]
      BY <1>4, <2>1, <2>3
    <3>2. m \in 0..i
      BY <2>1
    <3> QED BY <2>2, <2>3, <3>1, <3>2
  <2>4. CASE ~Unserved(f[i - 1])
    <3>1. f[i] = Grant(f[i - 1])
      BY <1>4, <2>1, <2>4
    <3>2. m = i - 1 /\ m \in 0..n /\ m + 1 = i
      BY <2>1, <2>2, <2>4
    <3>3. Serves(s, num, m + 1, Grant(f[i - 1]))
      BY <2>2, <2>4, <3>2, ServesOneMore
    <3> QED BY <2>1, <3>1, <3>2, <3>3
  <2> QED BY <2>3, <2>4
<1>7. ASSUME Bad # {} PROVE FALSE
  <2>1. Bad \subseteq Nat
    BY <1>1
  <2>2. PICK i \in Bad : \A j \in Bad : i <= j
    <3> HIDE DEF Bad
    <3> QED BY <1>7, <2>1, Least
  <2>3. i \in 0..n /\ ~Fine(i) /\ i # 0
    BY <1>5, <2>2
  <2>4. i \in 1..n /\ i - 1 \in 0..n /\ ~(i <= i - 1)
    BY <1>1, <2>3
  <2>5. Fine(i - 1)
    BY <2>2, <2>4
  <2> QED BY <1>6, <2>3, <2>4, <2>5
<1>8. Fine(n)
  BY <1>1, <1>7
<1>9. PICK m \in 0..n : Serves(s, num, m, f[n]) /\ (m = n \/ Unserved(f[n]))
  BY <1>8
<1>10. ASSUME m = n PROVE Unserved(f[n])
  <2>1. f[n].list = After(s.list, n)
    BY <1>9, <1>10 DEF Serves
  <2>2. After(s.list, n) = <<>>
    BY <1>1, AfterList
  <2> QED BY <2>1, <2>2 DEF Unserved
<1> QED BY <1>3, <1>9, <1>10
=============================================================================
