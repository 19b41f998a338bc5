----------------------------- MODULE SyncProofs -----------------------------
(***************************************************************************)
(* Why the semaphore of ksemaphore.c is exact, and fair, and why the       *)
(* condition of kcond.c and the mutex of kmutex.c know their sleepers, for *)
(* every set of users, every number of units and every scheduler that      *)
(* SchedOps allows.                                                        *)
(*                                                                         *)
(* All theorems are about callers that wait as long as it takes: a node    *)
(* that a timed-out call left in a list is what the modules do not model.  *)
(* Process1 is not among them: schedule falls back on it when nobody is    *)
(* ready.                                                                  *)
(***************************************************************************)
EXTENDS MCSync, SyncOpsProofs

Patient == Timeouts \subseteq {0} /\ P1 \notin Users

\* Where a process is in down and what it waits for agree with its node: it is
\* not zero exactly while the node is in the list.
NodesExact ==
    /\ pc \in [Proc -> {"user", "down"}]
    /\ want \in [Proc -> Nat] /\ held \in [Proc -> Nat]
    /\ \A p \in Proc : s.node[p] > 0 <=> InSeq(p, s.list)
    /\ \A p \in Proc : s.node[p] > 0 => pc[p] = "down" /\ want[p] = s.node[p]
    /\ \A p \in Proc : pc[p] = "down" => p \in Users

Conserved == Units = s.surplus + Total(held, Users) + Total(want, Granted)

\* The inductive invariant.
SemInv == Sound(s) /\ NodesExact /\ Conserved

LEMMA ConservedIs == UnitsConserved <=> Conserved
BY DEF UnitsConserved, Conserved, MapThenSumSet, Total

LEMMA UsersFinite ==
    /\ Users \subseteq Proc /\ IsFiniteSet(Users)
    /\ Granted \subseteq Users /\ IsFiniteSet(Granted)
<1>1. Users \subseteq Proc /\ IsFiniteSet(Users)
  BY SyncAssumption, ProcAssumption, FS_Subset
<1>2. Granted \subseteq Users
  BY DEF Granted
<1> QED BY <1>1, <1>2, FS_Subset

\* A new object.
Fresh(order) ==
    [k |-> ForkedState(order), surplus |-> Units, list |-> <<>>, node |-> [p \in Proc |-> 0]]

LEMMA FreshSound ==
    ASSUME NEW order \in Orders, NEW it, it = Fresh(order)
    PROVE  /\ Sound(it) /\ it.list = <<>> /\ it.k.panic = FALSE
           /\ it.node = [p \in Proc |-> 0]
           /\ \A p \in Proc : it.k.state[p] = "RUNNING" /\ ~InSeq(p, it.list)
<1>1. /\ it.k = ForkedState(order) /\ it.surplus = Units /\ it.list = <<>>
      /\ it.node = [p \in Proc |-> 0]
      /\ it = [k |-> it.k, surplus |-> it.surplus, list |-> it.list, node |-> it.node]
  BY DEF Fresh
<1>2. Untimed(it.k) /\ \A p \in Proc : it.k.state[p] = "RUNNING"
  BY <1>1, UntimedAtFirst
<1>3. it.k \in KernelState /\ it.k.panic = FALSE
  BY <1>2, UntimedWaiters
<1>4. it \in Semaphores
  <2>1. it.surplus \in Nat /\ it.list \in Seq(Proc) /\ it.node \in [Proc -> Nat]
    BY <1>1, SyncAssumption
  <2> QED BY <1>1, <1>3, <2>1 DEF Semaphores
<1>5. \A p \in Proc : ~InSeq(p, it.list)
  BY <1>1 DEF InSeq
<1>6. Injective(it.list)
  BY <1>1 DEF Injective
<1>7. Sound(it)
  BY <1>2, <1>4, <1>5, <1>6 DEF Sound
<1> QED BY <1>1, <1>2, <1>3, <1>5, <1>7

LEMMA InitInv == Init => SemInv
<1> SUFFICES ASSUME Init PROVE SemInv
  OBVIOUS
<1>1. PICK order \in Orders : s = Fresh(order)
  BY DEF Init, UserInit, Fresh
<1>2. /\ pc = [p \in Proc |-> "user"] /\ want = [p \in Proc |-> 0] /\ held = [p \in Proc |-> 0]
  BY DEF Init, UserInit
<1>3. s.surplus = Units
  BY <1>1 DEF Fresh
<1>4. Units \in Nat
  BY SyncAssumption
<1>5. \A p \in Proc : ~InSeq(p, s.list) /\ s.node[p] = 0
  BY <1>1, FreshSound
<1>6. Sound(s)
  BY <1>1, FreshSound
<1>7. NodesExact
  BY <1>2, <1>5 DEF NodesExact
<1>8. Granted = {}
  BY <1>2, UsersFinite DEF Granted
<1>9. Total(held, Users) = 0
  <2> DEFINE Nonzero == {U \in SUBSET Users : Total(held, U) # 0}
  <2>1. ASSUME Nonzero # {} PROVE FALSE
    <3>1. PICK U \in Nonzero : \A x \in U : U \ {x} \notin Nonzero
      <4>1. Nonzero \subseteq SUBSET Users
        OBVIOUS
      <4> HIDE DEF Nonzero
      <4> QED BY <2>1, <4>1, UsersFinite, Smallest
    <3>2. U \subseteq Users /\ IsFiniteSet(U) /\ Total(held, U) # 0
      BY UsersFinite, FS_Subset
    <3>3. U # {}
      BY <3>2, TotalEmpty
    <3>4. PICK x \in U : TRUE
      BY <3>3
    <3>5. \A y \in U : held[y] = 0
      BY <1>2, <3>2, UsersFinite
    <3>6. Total(held, U) = held[x] + Total(held, U \ {x})
      BY <3>2, <3>5, TotalRemove
    <3>7. Total(held, U \ {x}) = 0
      BY <3>1, <3>2
    <3> QED BY <3>2, <3>5, <3>6, <3>7
  <2> QED BY <2>1
<1>10. Total(want, Granted) = 0
  BY <1>8, TotalEmpty
<1>11. Conserved
  BY <1>3, <1>4, <1>9, <1>10 DEF Conserved
<1> QED BY <1>6, <1>7, <1>11 DEF SemInv

\* The running process, and the sums.
LEMMA InvFacts ==
    ASSUME SemInv
    PROVE  /\ s.k.cur \in Proc /\ s.node[s.k.cur] = 0 /\ ~InSeq(s.k.cur, s.list)
           /\ s.surplus \in Nat /\ s.list \in Seq(Proc) /\ s.node \in [Proc -> Nat]
           /\ pc \in [Proc -> {"user", "down"}] /\ want \in [Proc -> Nat] /\ held \in [Proc -> Nat]
           /\ Total(held, Users) \in Nat /\ Total(want, Granted) \in Nat
           /\ Granted = {p \in Proc : pc[p] = "down" /\ ~InSeq(p, s.list)}
<1>1. Sound(s) /\ NodesExact
  BY DEF SemInv
<1>2. /\ s.k.cur \in Proc /\ ~InSeq(s.k.cur, s.list)
      /\ s.surplus \in Nat /\ s.list \in Seq(Proc) /\ s.node \in [Proc -> Nat]
  BY <1>1, SoundRuns
<1>3. pc \in [Proc -> {"user", "down"}] /\ want \in [Proc -> Nat] /\ held \in [Proc -> Nat]
  BY <1>1 DEF NodesExact
<1>4. s.node[s.k.cur] = 0
  BY <1>1, <1>2 DEF NodesExact
<1>5. Total(held, Users) \in Nat
  <2>1. \A p \in Users : held[p] \in Nat
    BY <1>3, UsersFinite
  <2> QED BY <2>1, UsersFinite, TotalNat
<1>6. Total(want, Granted) \in Nat
  <2>1. \A p \in Granted : want[p] \in Nat
    BY <1>3, UsersFinite
  <2> QED BY <2>1, UsersFinite, TotalNat
<1>7. Granted = {p \in Proc : pc[p] = "down" /\ ~InSeq(p, s.list)}
  <2>1. \A p \in Proc : s.node[p] = 0 <=> ~InSeq(p, s.list)
    BY <1>1, <1>2 DEF NodesExact
  <2> QED BY <1>1, <2>1, UsersFinite DEF Granted, NodesExact
<1> QED BY <1>2, <1>3, <1>4, <1>5, <1>6, <1>7

-----------------------------------------------------------------------------
(***************************************************************************)
(* The actions.  Each keeps the invariant and is a step of FairSemaphore,  *)
(* or none.                                                                *)
(***************************************************************************)
Owns == [p \in Proc |-> held[p] + (IF p \in Granted THEN want[p] ELSE 0)]

\* The variables of FairSemaphore, as KSemaphore implements them.
fairvars == <<s.surplus, s.list, s.node, Owns>>

LEMMA FairVars == F!fvars = fairvars
BY DEF F!fvars, fairvars, Owns

LEMMA TimerStep ==
    ASSUME SemInv, Timer
    PROVE  SemInv' /\ UNCHANGED fairvars
<1>1. /\ s' = [s EXCEPT !.k = do_timer(@)]
      /\ pc' = pc /\ want' = want /\ held' = held
  BY DEF Timer, Tick
<1>2. Sound(s) /\ NodesExact /\ Conserved
  BY DEF SemInv
<1>3. Sound(s') /\ s'.surplus = s.surplus /\ s'.list = s.list /\ s'.node = s.node
  BY <1>1, <1>2, SoundTick
<1>4. Granted' = Granted
  BY <1>1, <1>3 DEF Granted
<1>5. NodesExact'
  BY <1>1, <1>2, <1>3 DEF NodesExact
<1>6. Conserved'
  BY <1>1, <1>2, <1>3, <1>4 DEF Conserved
<1>7. Owns' = Owns
  BY <1>1, <1>4 DEF Owns
<1> QED BY <1>3, <1>5, <1>6, <1>7 DEF SemInv, fairvars

LEMMA DownTakeStep ==
    ASSUME SemInv, NEW p \in Users, NEW n \in 1..Units, DownTake(p, n)
    PROVE  SemInv' /\ F!Take(p, n)
<1>1. /\ s.k.cur = p /\ pc[p] = "user" /\ s.surplus >= n /\ s.list = <<>>
      /\ s' = [s EXCEPT !.surplus = @ - n]
      /\ held' = [held EXCEPT ![p] = @ + n]
      /\ pc' = pc /\ want' = want
  BY DEF DownTake, Runs, Available
<1>2. Sound(s) /\ NodesExact /\ Conserved /\ s \in Semaphores
  BY DEF SemInv, Sound
<1>3. /\ s.surplus \in Nat /\ held \in [Proc -> Nat] /\ n \in Nat /\ p \in Proc
      /\ Total(held, Users) \in Nat /\ Total(want, Granted) \in Nat /\ Units \in Nat
  BY InvFacts, UsersFinite, SyncAssumption
<1>4. /\ s' \in Semaphores /\ s'.k = s.k /\ s'.list = s.list /\ s'.node = s.node
      /\ s'.surplus = s.surplus - n
  <2>1. s.surplus - n \in Nat
    BY <1>1, <1>3
  <2> QED BY <1>1, <1>2, <2>1 DEF Semaphores
<1>5. Sound(s')
  BY <1>2, <1>4 DEF Sound
<1>6. held' \in [Proc -> Nat]
  BY <1>1, <1>3
<1>7. NodesExact'
  BY <1>1, <1>2, <1>4, <1>6 DEF NodesExact
<1>8. Granted' = Granted
  BY <1>1, <1>4 DEF Granted
<1>9. Total(held', Users) = Total(held, Users) + n
  <2>1. \A q \in Users : held[q] \in Nat /\ held'[q] \in Nat
    BY <1>3, <1>6, UsersFinite
  <2>2. (\A q \in Users \ {p} : held'[q] = held[q]) /\ held'[p] = held[p] + n
    BY <1>1, <1>3, UsersFinite
  <2>3. Total(held', Users) + held[p] = Total(held, Users) + held'[p]
    BY <2>1, <2>2, UsersFinite, TotalChange
  <2>4. Total(held', Users) \in Nat /\ held[p] \in Nat
    BY <2>1, UsersFinite, TotalNat
  <2> QED BY <1>3, <2>2, <2>3, <2>4
<1>10. Conserved'
  <2>1. Units = s.surplus + Total(held, Users) + Total(want, Granted)
    BY <1>2 DEF Conserved
  <2>2. Units = s'.surplus + Total(held', Users) + Total(want, Granted)
    BY <1>1, <1>3, <1>4, <1>9, <2>1
  <2> QED BY <1>1, <1>8, <2>2 DEF Conserved
<1>11. Owns' = [Owns EXCEPT ![p] = @ + n]
  <2>1. p \notin Granted
    BY <1>1 DEF Granted
  <2>2. \A q \in Proc : Owns'[q] = IF q = p THEN Owns[q] + n ELSE Owns[q]
    BY <1>1, <1>3, <1>8, <2>1 DEF Owns
  <2>3. Owns' = [q \in Proc |-> Owns'[q]] /\ Owns = [q \in Proc |-> Owns[q]]
    BY DEF Owns
  <2> HIDE DEF Owns
  <2> QED BY <1>3, <2>2, <2>3
<1>12. F!Take(p, n)
  BY <1>1, <1>4, <1>11 DEF F!Take, Owns
<1> QED BY <1>5, <1>7, <1>10, <1>12 DEF SemInv

LEMMA DownWaitStep ==
    ASSUME SemInv, Patient,
           NEW p \in Users, NEW n \in 1..Units, NEW timeout \in Timeouts, DownWait(p, n, timeout)
    PROVE  SemInv' /\ F!Request(p, n)
<1>1. /\ s.k.cur = p /\ pc[p] = "user" /\ ~(s.surplus >= n /\ s.list = <<>>)
      /\ ~InSeq(p, s.list)
      /\ s' = JoinSemaphore(s, p, n, timeout)
      /\ pc' = [pc EXCEPT ![p] = "down"]
      /\ want' = [want EXCEPT ![p] = n]
      /\ held' = held
  BY DEF DownWait, Runs, Available
<1>2. timeout = 0 /\ p # P1 /\ p \in Proc /\ n \in Nat /\ n > 0
  BY UsersFinite, SyncAssumption DEF Patient
<1>3. Sound(s) /\ NodesExact /\ Conserved
  BY DEF SemInv
<1>4. /\ s.surplus \in Nat /\ s.list \in Seq(Proc) /\ s.node \in [Proc -> Nat]
      /\ want \in [Proc -> Nat] /\ held \in [Proc -> Nat] /\ pc \in [Proc -> {"user", "down"}]
      /\ Injective(s.list)
  BY <1>3, InvFacts, SoundRuns
<1>5. /\ Sound(s') /\ s'.surplus = s.surplus /\ s'.list = Append(s.list, p)
      /\ s'.node = [s.node EXCEPT ![p] = n]
  BY <1>1, <1>2, <1>3, SoundJoin
<1>6. \A q \in Proc : InSeq(q, s'.list) <=> InSeq(q, s.list) \/ q = p
  <2>1. \A q \in Proc : InSeq(q, Append(s.list, p)) <=> InSeq(q, s.list) \/ q = p
    BY <1>1, <1>2, <1>4, AppendList
  <2> QED BY <1>5, <2>1
<1>7. NodesExact'
  <2>1. pc' \in [Proc -> {"user", "down"}] /\ want' \in [Proc -> Nat] /\ held' \in [Proc -> Nat]
    BY <1>1, <1>2, <1>4
  <2>2. ASSUME NEW q \in Proc
        PROVE  /\ s'.node[q] > 0 <=> InSeq(q, s'.list)
               /\ s'.node[q] > 0 => pc'[q] = "down" /\ want'[q] = s'.node[q]
               /\ pc'[q] = "down" => q \in Users
    <3>1. CASE q = p
      BY <1>1, <1>2, <1>4, <1>5, <1>6, <3>1
    <3>2. CASE q # p
      <4>1. s'.node[q] = s.node[q] /\ pc'[q] = pc[q] /\ want'[q] = want[q]
        BY <1>1, <1>4, <1>5, <3>2
      <4> QED BY <1>3, <1>6, <3>2, <4>1 DEF NodesExact
    <3> QED BY <3>1, <3>2
  <2> QED BY <2>1, <2>2 DEF NodesExact
<1>8. Granted' = Granted /\ p \notin Granted
  <2>1. p \notin Granted /\ p \notin Granted'
    BY <1>1, <1>2, <1>4, <1>5 DEF Granted
  <2>2. \A q \in Users : q # p => pc'[q] = pc[q] /\ s'.node[q] = s.node[q]
    BY <1>1, <1>2, <1>4, <1>5, UsersFinite
  <2> QED BY <2>1, <2>2 DEF Granted
<1>9. \A q \in Granted : want'[q] = want[q]
  BY <1>1, <1>4, <1>8, UsersFinite
<1>10. Conserved'
  <2>1. Total(want', Granted) = Total(want, Granted)
    BY <1>9, UsersFinite, TotalSame
  <2> QED BY <1>1, <1>3, <1>5, <1>8, <2>1 DEF Conserved
<1>11. Owns' = Owns
  BY <1>1, <1>8, <1>9 DEF Owns
<1>12. F!Request(p, n)
  <2>1. ~F!Waits(p)
    BY <1>1 DEF F!Waits, InSeq
  <2>2. s.list # <<>> \/ n > s.surplus
    BY <1>1, <1>2, <1>4
  <2> QED BY <1>5, <1>11, <2>1, <2>2 DEF F!Request, Owns
<1> QED BY <1>5, <1>7, <1>10, <1>12 DEF SemInv

LEMMA DownReturnStep ==
    ASSUME SemInv, NEW p \in Users, DownReturn(p)
    PROVE  SemInv' /\ UNCHANGED fairvars
<1>1. /\ s.k.cur = p /\ pc[p] = "down"
      /\ pc' = [pc EXCEPT ![p] = "user"]
      /\ held' = [held EXCEPT ![p] = @ + (IF s.node[p] = 0 THEN want[p] ELSE 0)]
      /\ s' = s /\ want' = want
  BY DEF DownReturn, Runs
<1>2. Sound(s) /\ NodesExact /\ Conserved
  BY DEF SemInv
<1>3. /\ s.surplus \in Nat /\ s.node \in [Proc -> Nat] /\ p \in Proc /\ s.node[p] = 0
      /\ want \in [Proc -> Nat] /\ held \in [Proc -> Nat] /\ pc \in [Proc -> {"user", "down"}]
      /\ Total(held, Users) \in Nat /\ Total(want, Granted) \in Nat
  BY <1>1, InvFacts, UsersFinite
<1>4. held' = [held EXCEPT ![p] = @ + want[p]] /\ held' \in [Proc -> Nat]
  BY <1>1, <1>3
<1>5. NodesExact'
  <2>1. pc' \in [Proc -> {"user", "down"}]
    BY <1>1, <1>3
  <2>2. \A q \in Proc : q # p => pc'[q] = pc[q]
    BY <1>1, <1>3
  <2>3. pc'[p] = "user"
    BY <1>1, <1>3
  <2> QED BY <1>1, <1>2, <1>3, <1>4, <2>1, <2>2, <2>3 DEF NodesExact
<1>6. p \in Granted /\ Granted' = Granted \ {p}
  <2>1. \A q \in Users : pc'[q] = IF q = p THEN "user" ELSE pc[q]
    BY <1>1, <1>3, UsersFinite
  <2> QED BY <1>1, <1>3, <2>1 DEF Granted
<1>7. Total(held', Users) = Total(held, Users) + want[p]
  <2>1. \A q \in Users : held[q] \in Nat /\ held'[q] \in Nat
    BY <1>3, <1>4, UsersFinite
  <2>2. (\A q \in Users \ {p} : held'[q] = held[q]) /\ held'[p] = held[p] + want[p]
    BY <1>3, <1>4, UsersFinite
  <2>3. Total(held', Users) + held[p] = Total(held, Users) + held'[p]
    BY <2>1, <2>2, UsersFinite, TotalChange
  <2>4. Total(held', Users) \in Nat /\ held[p] \in Nat /\ want[p] \in Nat
    BY <1>3, <2>1, UsersFinite, TotalNat
  <2> QED BY <1>3, <2>2, <2>3, <2>4
<1>8. Total(want, Granted) = want[p] + Total(want, Granted \ {p}) /\ Total(want, Granted \ {p}) \in Nat
  <2>1. \A q \in Granted : want[q] \in Nat
    BY <1>3, UsersFinite
  <2> QED BY <1>6, <2>1, UsersFinite, TotalRemove, TotalNat
<1>9. Conserved'
  <2>1. Units = s.surplus + Total(held, Users) + Total(want, Granted)
    BY <1>2 DEF Conserved
  <2>2. want[p] \in Nat
    BY <1>3
  <2>3. Units = s.surplus + Total(held', Users) + Total(want, Granted \ {p})
    BY <1>3, <1>7, <1>8, <2>1, <2>2
  <2> QED BY <1>1, <1>6, <2>3 DEF Conserved
<1>10. Owns' = Owns
  <2>1. \A q \in Proc : Owns'[q] = Owns[q]
    BY <1>1, <1>3, <1>4, <1>6 DEF Owns
  <2>2. Owns' = [q \in Proc |-> Owns'[q]] /\ Owns = [q \in Proc |-> Owns[q]]
    BY DEF Owns
  <2> HIDE DEF Owns
  <2> QED BY <2>1, <2>2
<1> QED BY <1>1, <1>2, <1>5, <1>9, <1>10 DEF SemInv, fairvars

\* Wanted of FairSemaphore adds along the queue what Total adds over the set.
LEMMA WantedIsTotal ==
    ASSUME SemInv, NEW m \in 0..Len(s.list)
    PROVE  F!Wanted(m) = Total(s.node, FirstOf(s.list, m))
<1> DEFINE Adds(f) == f = [i \in 0..m |-> IF i = 0 THEN 0 ELSE f[i - 1] + s.node[s.list[i]]]
           g == CHOOSE f : Adds(f)
           h == [i \in 0..m |-> Total(s.node, FirstOf(s.list, i))]
<1>1. F!Wanted(m) = g[m]
  BY DEF F!Wanted
<1>2. /\ s.list \in Seq(Proc) /\ Injective(s.list) /\ Len(s.list) \in Nat
      /\ s.node \in [Proc -> Nat]
  BY SoundRuns DEF SemInv
<1>3. ASSUME NEW i \in 0..m, i # 0 PROVE h[i] = h[i - 1] + s.node[s.list[i]]
  <2> DEFINE j == i - 1
  <2>1. j \in 0..Len(s.list) /\ j < Len(s.list) /\ j \in 0..m /\ j + 1 = i
    BY <1>2, <1>3
  <2> HIDE DEF j
  <2>2. /\ FirstOf(s.list, j) \subseteq Proc /\ IsFiniteSet(FirstOf(s.list, j))
        /\ s.list[j + 1] \in Proc /\ s.list[j + 1] \notin FirstOf(s.list, j)
        /\ FirstOf(s.list, j + 1) = FirstOf(s.list, j) \union {s.list[j + 1]}
    BY <1>2, <2>1, FirstOfList
  <2>3. \A q \in FirstOf(s.list, j) \union {s.list[j + 1]} : s.node[q] \in Nat
    BY <1>2, <2>2
  <2>4. Total(s.node, FirstOf(s.list, j) \union {s.list[j + 1]})
            = Total(s.node, FirstOf(s.list, j)) + s.node[s.list[j + 1]]
    BY <2>2, <2>3, TotalAdd
  <2>5. Total(s.node, FirstOf(s.list, j + 1))
            = Total(s.node, FirstOf(s.list, j)) + s.node[s.list[j + 1]]
    BY <2>2, <2>4, Zenon
  <2>6. h[i] = Total(s.node, FirstOf(s.list, j + 1)) /\ h[j] = Total(s.node, FirstOf(s.list, j))
    BY <2>1
  <2> HIDE DEF h
  <2>7. h[i] = h[j] + s.node[s.list[i]]
    BY <2>1, <2>5, <2>6
  <2> QED BY <2>7 DEF j
<1>4. h[0] = 0
  <2>1. FirstOf(s.list, 0) = {}
    BY <1>2, FirstOfList
  <2>2. h[0] = Total(s.node, FirstOf(s.list, 0))
    BY <1>2
  <2> QED BY <2>1, <2>2, TotalEmpty
<1>5. h = [i \in 0..m |-> h[i]]
  OBVIOUS
<1>6. h[m] = Total(s.node, FirstOf(s.list, m)) /\ m \in 0..m
  BY <1>2
<1> HIDE DEF h
<1>7. Adds(h)
  BY <1>3, <1>4, <1>5
<1>8. Adds(g)
  <2> HIDE DEF Adds
  <2> QED BY <1>7
<1>9. \A i \in 0..m : g[i] = IF i = 0 THEN 0 ELSE g[i - 1] + s.node[s.list[i]]
  BY <1>8
<1> HIDE DEF g
<1> DEFINE Bad == {i \in 0..m : g[i] # h[i]}
<1>10. ASSUME Bad # {} PROVE FALSE
  <2>1. Bad \subseteq Nat
    OBVIOUS
  <2>2. PICK i \in Bad : \A k \in Bad : i <= k
    <3> HIDE DEF Bad
    <3> QED BY <1>10, <2>1, Least
  <2>3. i \in 0..m /\ g[i] # h[i]
    BY <2>2
  <2>4. i # 0
    BY <1>4, <1>9, <2>3
  <2>5. i - 1 \in 0..m /\ ~(i <= i - 1)
    BY <2>3, <2>4
  <2>6. g[i - 1] = h[i - 1]
    BY <2>2, <2>5
  <2> QED BY <1>3, <1>9, <2>3, <2>4, <2>6
<1> QED BY <1>1, <1>6, <1>10

LEMMA UpStep ==
    ASSUME SemInv, NEW p \in Users, NEW n \in 1..Units, Up(p, n)
    PROVE  SemInv' /\ \E m \in 0..Len(s.list) : F!Release(p, n, m)
<1>1. /\ s.k.cur = p /\ pc[p] = "user" /\ n <= held[p]
      /\ s' = ksemaphore_up(s, n)
      /\ held' = [held EXCEPT ![p] = @ - n]
      /\ pc' = pc /\ want' = want
  BY DEF Up, Runs
<1>2. Sound(s) /\ NodesExact /\ Conserved
  BY DEF SemInv
<1>3. /\ s.surplus \in Nat /\ s.list \in Seq(Proc) /\ s.node \in [Proc -> Nat]
      /\ Injective(s.list) /\ Len(s.list) \in Nat
      /\ want \in [Proc -> Nat] /\ held \in [Proc -> Nat] /\ pc \in [Proc -> {"user", "down"}]
      /\ Total(held, Users) \in Nat /\ Total(want, Granted) \in Nat
  <2>1. Injective(s.list) /\ Len(s.list) \in Nat
    BY <1>2, SoundRuns
  <2> QED BY <2>1, InvFacts
<1>30. p \in Proc /\ n \in Nat
  BY UsersFinite, SyncAssumption
<1>31. held[p] \in Nat
  BY <1>3, <1>30
<1>4. PICK m \in 0..Len(s.list) : Serves(s, n, m, s') /\ Unserved(s')
  BY <1>1, <1>2, <1>30, UpServes
<1> DEFINE D == FirstOf(s.list, m)
<1>5. /\ Sound(s') /\ s'.list = After(s.list, m)
      /\ s'.node = [q \in Proc |-> IF q \in D THEN 0 ELSE s.node[q]]
      /\ s'.surplus + Total(s.node, D) = s.surplus + n
  BY <1>4 DEF Serves
<1>6. /\ D \subseteq Proc /\ IsFiniteSet(D)
      /\ \A q \in Proc : InSeq(q, s.list) <=> q \in D \/ InSeq(q, s'.list)
  BY <1>3, <1>5, FirstOfList
<1> HIDE DEF D
<1>7. \A q \in D : s.node[q] > 0 /\ s'.node[q] = 0 /\ ~InSeq(q, s'.list) /\ pc[q] = "down"
                   /\ want[q] = s.node[q] /\ q \in Users
  <2> SUFFICES ASSUME NEW q \in D
               PROVE  s.node[q] > 0 /\ s'.node[q] = 0 /\ ~InSeq(q, s'.list) /\ pc[q] = "down"
                      /\ want[q] = s.node[q] /\ q \in Users
    OBVIOUS
  <2>1. q \in Proc /\ InSeq(q, s.list) /\ s'.node[q] = 0
    BY <1>5, <1>6
  <2>2. s.node[q] > 0 /\ pc[q] = "down" /\ want[q] = s.node[q] /\ q \in Users
    BY <1>2, <2>1 DEF NodesExact
  <2>3. ~InSeq(q, s'.list)
    BY <1>5, <2>1 DEF Sound
  <2> QED BY <2>1, <2>2, <2>3
<1>8. \A q \in Proc \ D : s'.node[q] = s.node[q] /\ (InSeq(q, s'.list) <=> InSeq(q, s.list))
  BY <1>5, <1>6
<1>9. held' \in [Proc -> Nat]
  <2>1. held[p] - n \in Nat
    BY <1>1, <1>30, <1>31
  <2> QED BY <1>1, <1>3, <2>1
<1>10. NodesExact'
  <2>1. ASSUME NEW q \in Proc
        PROVE  /\ s'.node[q] > 0 <=> InSeq(q, s'.list)
               /\ s'.node[q] > 0 => pc'[q] = "down" /\ want'[q] = s'.node[q]
               /\ pc'[q] = "down" => q \in Users
    <3>1. CASE q \in D
      BY <1>1, <1>7, <3>1
    <3>2. CASE q \notin D
      BY <1>1, <1>2, <1>8, <3>2 DEF NodesExact
    <3> QED BY <3>1, <3>2
  <2> QED BY <1>1, <1>3, <1>9, <2>1 DEF NodesExact
<1>11. Granted' = Granted \union D /\ Granted \intersect D = {}
  <2>1. \A q \in Granted : q \notin D
    BY <1>7 DEF Granted
  <2>2. \A q \in Users : q \in Granted' <=> q \in Granted \/ q \in D
    BY <1>1, <1>7, <1>8, UsersFinite DEF Granted
  <2>3. Granted' \subseteq Users /\ D \subseteq Users
    BY <1>7 DEF Granted
  <2> QED BY <2>1, <2>2, <2>3, UsersFinite
<1>12. Total(want, Granted \union D) = Total(want, Granted) + Total(s.node, D)
       /\ Total(s.node, D) \in Nat
  <2>1. \A q \in Granted \union D : want[q] \in Nat
    BY <1>3, <1>6, UsersFinite
  <2>2. Total(want, Granted \union D) = Total(want, Granted) + Total(want, D)
    BY <1>6, <1>11, <2>1, UsersFinite, TotalUnion
  <2>3. Total(want, D) = Total(s.node, D)
    BY <1>6, <1>7, TotalSame
  <2>4. \A q \in D : s.node[q] \in Nat
    BY <1>3, <1>6
  <2>5. Total(s.node, D) \in Nat
    BY <1>6, <2>4, TotalNat
  <2> QED BY <2>2, <2>3, <2>5
<1>13. Total(held', Users) + n = Total(held, Users) /\ Total(held', Users) \in Nat
  <2>1. \A q \in Users : held[q] \in Nat /\ held'[q] \in Nat
    BY <1>3, <1>9, UsersFinite
  <2>2. (\A q \in Users \ {p} : held'[q] = held[q]) /\ held'[p] = held[p] - n
    BY <1>1, <1>3, <1>30, UsersFinite
  <2>3. Total(held', Users) + held[p] = Total(held, Users) + held'[p]
    BY <2>1, <2>2, UsersFinite, TotalChange
  <2>4. Total(held', Users) \in Nat
    BY <2>1, UsersFinite, TotalNat
  <2>5. Total(held, Users) \in Nat
    BY <1>3
  <2> DEFINE old == Total(held, Users)
             new == Total(held', Users)
  <2>6. new + held[p] = old + (held[p] - n) /\ new \in Nat /\ old \in Nat
    BY <2>2, <2>3, <2>4, <2>5
  <2> HIDE DEF old, new
  <2>7. new + n = old
    BY <1>30, <1>31, <2>6
  <2> QED BY <2>6, <2>7 DEF old, new
<1>14. s'.surplus \in Nat
  BY <1>5, SoundRuns
<1>15. Conserved'
  <2>1. Units = s.surplus + Total(held, Users) + Total(want, Granted)
    BY <1>2 DEF Conserved
  <2>10. s.surplus \in Nat /\ Total(held, Users) \in Nat /\ Total(want, Granted) \in Nat
    BY <1>3
  <2>2. Units = s'.surplus + Total(held', Users) + Total(want, Granted \union D)
    <3> DEFINE h0 == Total(held, Users)
               h1 == Total(held', Users)
               g0 == Total(want, Granted)
               g1 == Total(want, Granted \union D)
               d  == Total(s.node, D)
               a0 == s.surplus
               a1 == s'.surplus
    <3>1. Units = a0 + h0 + g0 /\ g1 = g0 + d /\ h1 + n = h0 /\ a1 + d = a0 + n
      BY <1>5, <1>12, <1>13, <2>1
    <3>2. a0 \in Nat /\ a1 \in Nat /\ h0 \in Nat /\ h1 \in Nat /\ g0 \in Nat /\ d \in Nat
      BY <1>12, <1>13, <1>14, <2>10
    <3> HIDE DEF h0, h1, g0, g1, d, a0, a1
    <3>3. Units = a1 + h1 + g1
      BY <1>30, <3>1, <3>2
    <3> QED BY <3>3 DEF h1, g1, a1
  <2>3. Total(want', Granted') = Total(want, Granted \union D)
    BY <1>1, <1>11, Zenon
  <2> QED BY <2>2, <2>3 DEF Conserved
<1>16. Owns' = [q \in Proc |-> Owns[q] - (IF q = p THEN n ELSE 0)
                                       + (IF q \in D THEN s.node[q] ELSE 0)]
  <2>1. ASSUME NEW q \in Proc
        PROVE  Owns'[q] = Owns[q] - (IF q = p THEN n ELSE 0) + (IF q \in D THEN s.node[q] ELSE 0)
    <3>1. /\ Owns[q] = held[q] + (IF q \in Granted THEN want[q] ELSE 0)
          /\ Owns'[q] = held'[q] + (IF q \in Granted' THEN want[q] ELSE 0)
      BY <1>1 DEF Owns
    <3>2. held[q] \in Nat /\ want[q] \in Nat /\ n \in Nat
      BY <1>3, <1>30
    <3>3. p \notin D /\ p \notin Granted
      BY <1>1, <1>7 DEF Granted
    <3>4. CASE q = p
      <4>1. held'[q] = held[q] - n /\ q \notin Granted' /\ q \notin D /\ q \notin Granted
        BY <1>1, <1>3, <1>11, <3>3, <3>4
      <4> QED BY <3>1, <3>2, <3>4, <4>1
    <3>5. CASE q # p /\ q \in D
      <4>1. held'[q] = held[q] /\ q \in Granted' /\ q \notin Granted /\ want[q] = s.node[q]
        BY <1>1, <1>3, <1>7, <1>11, <3>5
      <4> QED BY <3>1, <3>2, <3>5, <4>1
    <3>6. CASE q # p /\ q \notin D
      <4>1. held'[q] = held[q] /\ (q \in Granted' <=> q \in Granted)
        BY <1>1, <1>3, <1>11, <3>6
      <4> QED BY <3>1, <3>2, <3>6, <4>1
    <3> QED BY <3>4, <3>5, <3>6
  <2>2. Owns' = [q \in Proc |-> Owns'[q]]
    BY DEF Owns
  <2> HIDE DEF Owns
  <2> QED BY <2>1, <2>2
<1>17. F!Release(p, n, m)
  <2>1. {s.list[i] : i \in 1..m} = D
    BY DEF D, FirstOf
  <2>2. n <= Owns[p]
    <3>1. Owns[p] = held[p] + (IF p \in Granted THEN want[p] ELSE 0) /\ want[p] \in Nat
      BY <1>3, <1>30 DEF Owns
    <3> QED BY <1>1, <1>30, <1>31, <3>1
  <2>3. F!Wanted(m) = Total(s.node, D)
    BY WantedIsTotal DEF D
  <2>4. F!Wanted(m) <= s.surplus + n /\ s'.surplus = s.surplus + n - F!Wanted(m)
    <3> DEFINE w == F!Wanted(m)
               a0 == s.surplus
               a1 == s'.surplus
    <3>1. a1 + w = a0 + n
      BY <1>5, <2>3
    <3>2. a0 \in Nat /\ a1 \in Nat
      BY <1>3, <1>14
    <3>3. w \in Nat
      BY <1>12, <2>3
    <3> HIDE DEF w, a0, a1
    <3>4. w <= a0 + n /\ a1 = a0 + n - w
      BY <1>30, <3>1, <3>2, <3>3
    <3> QED BY <3>4 DEF w, a0, a1
  <2>5. ASSUME m < Len(s.list) PROVE F!Wanted(m + 1) > s.surplus + n
    <3> DEFINE q == s.list[m + 1]
    <3>1. s'.list # <<>> /\ Head(s'.list) = q
      <4>1. After(s.list, m) # <<>> /\ Head(After(s.list, m)) = q
        BY <1>3, <2>5, AfterList
      <4> QED BY <1>5, <4>1
    <3>2. /\ q \in Proc /\ q \notin D
          /\ FirstOf(s.list, m + 1) = D \union {q}
      BY <1>3, <2>5, FirstOfList DEF D
    <3> HIDE DEF q
    <3>3. s.node[q] > s'.surplus /\ s.node[q] \in Nat
      <4>1. s'.node[q] > s'.surplus
        BY <1>4, <3>1 DEF Unserved
      <4> QED BY <1>3, <1>8, <3>2, <4>1
    <3>4. Total(s.node, D \union {q}) = Total(s.node, D) + s.node[q]
      <4>1. \A x \in D \union {q} : s.node[x] \in Nat
        BY <1>3, <1>6, <3>2
      <4> QED BY <1>6, <3>2, <4>1, TotalAdd
    <3>5. m + 1 \in 0..Len(s.list)
      BY <1>3, <2>5
    <3>6. F!Wanted(m + 1) = Total(s.node, FirstOf(s.list, m + 1))
      BY <3>5, WantedIsTotal
    <3>7. F!Wanted(m + 1) = Total(s.node, D) + s.node[q]
      BY <3>2, <3>4, <3>6, Zenon
    <3> DEFINE w  == F!Wanted(m + 1)
               d  == Total(s.node, D)
               a0 == s.surplus
               a1 == s'.surplus
               z  == s.node[q]
    <3>8. w = d + z /\ a1 + d = a0 + n /\ z > a1
      BY <1>5, <3>3, <3>7
    <3>9. a0 \in Nat /\ a1 \in Nat /\ d \in Nat /\ z \in Nat
      BY <1>3, <1>12, <1>14, <3>3
    <3> HIDE DEF w, d, a0, a1, z
    <3>10. w > a0 + n
      BY <1>30, <3>8, <3>9
    <3> QED BY <3>10 DEF w, a0
  <2>6. s'.list = SubSeq(s.list, m + 1, Len(s.list))
    BY <1>5 DEF After
  <2> QED BY <1>5, <1>16, <2>1, <2>2, <2>4, <2>5, <2>6 DEF F!Release, Owns
<1>18. SemInv'
  BY <1>5, <1>10, <1>15 DEF SemInv
<1> QED BY <1>17, <1>18

LEMMA StepInv ==
    ASSUME Patient
    PROVE  SemInv /\ [Next]_vars => SemInv' /\ [F!FNext]_(F!fvars)
<1> SUFFICES ASSUME SemInv, [Next]_vars PROVE SemInv' /\ [F!FNext]_(F!fvars)
  OBVIOUS
<1>1. CASE UNCHANGED vars
  <2>1. SemInv'
    BY <1>1 DEF vars, SemInv, NodesExact, Conserved, Granted
  <2>2. UNCHANGED fairvars
    BY <1>1 DEF vars, fairvars, Owns, Granted
  <2> QED BY <2>1, <2>2, FairVars DEF F!fvars, fairvars, Owns
<1>2. CASE Timer
  BY <1>2, TimerStep DEF F!fvars, fairvars, Owns
<1>3. ASSUME NEW p \in Users, DownReturn(p) PROVE SemInv' /\ [F!FNext]_(F!fvars)
  BY <1>3, DownReturnStep DEF F!fvars, fairvars, Owns
<1>4. ASSUME NEW p \in Users, NEW n \in 1..Units, DownTake(p, n)
      PROVE  SemInv' /\ [F!FNext]_(F!fvars)
  BY <1>4, DownTakeStep, UsersFinite DEF F!FNext
<1>5. ASSUME NEW p \in Users, NEW n \in 1..Units, NEW timeout \in Timeouts, DownWait(p, n, timeout)
      PROVE  SemInv' /\ [F!FNext]_(F!fvars)
  BY <1>5, DownWaitStep, UsersFinite DEF F!FNext
<1>6. ASSUME NEW p \in Users, NEW n \in 1..Units, Up(p, n)
      PROVE  SemInv' /\ [F!FNext]_(F!fvars)
  BY <1>6, UpStep, UsersFinite DEF F!FNext
<1> QED BY <1>1, <1>2, <1>3, <1>4, <1>5, <1>6 DEF Next

-----------------------------------------------------------------------------
(***************************************************************************)
(* The theorems.                                                           *)
(***************************************************************************)

\* SemInv, the conjunction the properties below are read off, always holds.
THEOREM SemInvAlways == Patient => (Spec => []SemInv)
<1> SUFFICES ASSUME Patient PROVE Spec => []SemInv
  OBVIOUS
<1>1. Init => SemInv
  BY InitInv
<1>2. SemInv /\ [Next]_vars => SemInv'
  BY StepInv
<1> QED BY <1>1, <1>2, PTL DEF Spec

LEMMA SemInvImplies == SemInv => TypeOK /\ UnitsConserved /\ WaitersExact /\ NoPanic
<1> SUFFICES ASSUME SemInv PROVE TypeOK /\ UnitsConserved /\ WaitersExact /\ NoPanic
  OBVIOUS
<1>1. Sound(s) /\ NodesExact /\ Conserved
  BY DEF SemInv
<1>2. /\ s.k \in KernelState /\ s.k.panic = FALSE
      /\ s.surplus \in Nat /\ s.list \in Seq(Proc) /\ s.node \in [Proc -> Nat]
      /\ Injective(s.list) /\ Len(s.list) \in Nat
  BY <1>1, SoundRuns
<1>3. \A p \in Proc : InSeq(p, s.list) => p \in Users
  BY <1>1 DEF NodesExact
<1>4. s.list \in Seq(Users)
  BY <1>2, <1>3, SeqOfMembers
<1>5. TypeOK
  BY <1>1, <1>2, <1>4 DEF TypeOK, NodesExact
<1>6. UnitsConserved
  BY <1>1, ConservedIs
<1>7. WaitersExact
  <2>1. \A p \in Proc : p \in s.k.waitlist <=> s.k.state[p] = "WAITING"
    <3>1. Untimed(s.k)
      BY <1>1 DEF Sound
    <3> QED BY <3>1, UntimedWaiters
  <2>2. \A p \in Proc : InSeq(p, s.list) <=> s.k.state[p] = "WAITING"
    BY <1>1 DEF Sound
  <2>3. \A p \in Proc : InSeq(p, s.list) <=> pc[p] = "down" /\ s.node[p] > 0
    BY <1>1 DEF NodesExact
  <2> QED BY <1>2, <2>1, <2>2, <2>3 DEF WaitersExact
<1>8. NoPanic
  BY <1>2 DEF NoPanic
<1> QED BY <1>5, <1>6, <1>7, <1>8

\* ksemaphore_down and ksemaphore_up neither lose nor make units, also those that an
\* up has granted to a process that has not run since.
THEOREM UnitsAlwaysConserved == Patient => (Spec => []UnitsConserved)
BY SemInvAlways, SemInvImplies, PTL

\* The list is exactly the sleepers, so an up wakes a process that waits, and waits
\* for this semaphore.
THEOREM WaitersAlwaysExact == Patient => (Spec => []WaitersExact)
BY SemInvAlways, SemInvImplies, PTL

\* The assertions of out_sched_queue and kwakeup hold in every call.
THEOREM NeverPanics == Patient => (Spec => []NoPanic)
BY SemInvAlways, SemInvImplies, PTL

\* The semaphore implements FairSemaphore: the loop of ksemaphore_up serves the first
\* requests, as many as the units allow, and nobody overtakes them in ksemaphore_down.
THEOREM AlwaysFirstComeFirstServed == Patient => (Spec => FirstComeFirstServed)
<1> SUFFICES ASSUME Patient PROVE Spec => FirstComeFirstServed
  OBVIOUS
<1>1. Init => SemInv /\ F!FInit
  <2> SUFFICES ASSUME Init PROVE F!FInit
    BY InitInv
  <2>1. /\ s.surplus = Units /\ s.list = <<>> /\ s.node = [p \in Proc |-> 0]
        /\ pc = [p \in Proc |-> "user"] /\ held = [p \in Proc |-> 0]
    <3> HIDE DEF ForkedState
    <3> QED BY DEF Init, UserInit
  <2>2. \A p \in Proc : Owns[p] = 0
    <3>1. Granted = {}
      BY <2>1, UsersFinite DEF Granted
    <3> QED BY <2>1, <3>1 DEF Owns
  <2>3. Owns = [p \in Proc |-> Owns[p]]
    BY DEF Owns
  <2>4. Owns = [p \in Proc |-> 0]
    <3> HIDE DEF Owns
    <3> QED BY <2>2, <2>3
  <2> QED BY <2>1, <2>4 DEF F!FInit, Owns
<1>2. SemInv /\ [Next]_vars => SemInv' /\ [F!FNext]_(F!fvars)
  BY StepInv
<1> QED BY <1>1, <1>2, PTL DEF Spec, FirstComeFirstServed, F!FSpec

-----------------------------------------------------------------------------
(***************************************************************************)
(* The condition.                                                          *)
(***************************************************************************)

\* A signal, or one turn of a broadcast.
LEMMA SoundWake ==
    ASSUME NEW c, Sound(c), c.list # <<>>, NEW t, t = WakeFirst(c)
    PROVE  /\ Sound(t) /\ t.k.cur = c.k.cur
           /\ t.list = Tail(c.list)
           /\ t.node = [c.node EXCEPT ![Head(c.list)] = 0]
<1> DEFINE p == Head(c.list)
           m == Resume(c.k, p)
<1>1. /\ c.k \in KernelState /\ c.surplus \in Nat
      /\ c.list \in Seq(Proc) /\ c.node \in [Proc -> Nat] /\ Injective(c.list)
  BY SoundRuns
<1>2. /\ p \in Proc /\ InSeq(p, c.list)
      /\ Tail(c.list) \in Seq(Proc) /\ Injective(Tail(c.list))
      /\ \A x \in Proc : InSeq(x, Tail(c.list)) <=> InSeq(x, c.list) /\ x # p
  BY <1>1, TailList
<1>3. Untimed(m) /\ m.cur = c.k.cur /\ m.state = [c.k.state EXCEPT ![p] = "RUNNING"]
  <2>1. c.k.state[p] = "WAITING" /\ Untimed(c.k)
    BY <1>2 DEF Sound
  <2> QED BY <1>2, <2>1, UntimedResume
<1>4. /\ t.k = m /\ t.surplus = c.surplus /\ t.list = Tail(c.list)
      /\ t.node = [c.node EXCEPT ![p] = 0]
      /\ t = [k |-> t.k, surplus |-> t.surplus, list |-> t.list, node |-> t.node]
  BY DEF WakeFirst, Sound, Semaphores
<1>5. m \in KernelState
  BY <1>3, UntimedWaiters
<1>6. c.k.state \in [Proc -> ProcState]
  BY <1>1 DEF KernelState
<1> HIDE DEF m, p
<1>7. t \in Semaphores
  <2>1. [c.node EXCEPT ![p] = 0] \in [Proc -> Nat]
    BY <1>1
  <2> QED BY <1>1, <1>2, <1>4, <1>5, <2>1 DEF Semaphores
<1>8. \A x \in Proc : InSeq(x, t.list) <=> t.k.state[x] = "WAITING"
  <2> SUFFICES ASSUME NEW x \in Proc PROVE InSeq(x, t.list) <=> t.k.state[x] = "WAITING"
    OBVIOUS
  <2>1. t.k.state[x] = IF x = p THEN "RUNNING" ELSE c.k.state[x]
    BY <1>2, <1>3, <1>4, <1>6
  <2> QED BY <1>2, <1>4, <2>1 DEF Sound
<1>9. \A x \in Proc : InSeq(x, t.list) => t.node[x] > 0
  <2> SUFFICES ASSUME NEW x \in Proc, InSeq(x, t.list) PROVE t.node[x] > 0
    OBVIOUS
  <2>1. x # p /\ InSeq(x, c.list)
    BY <1>2, <1>4
  <2>2. t.node[x] = c.node[x]
    BY <1>1, <1>4, <2>1
  <2> QED BY <2>1, <2>2 DEF Sound
<1> QED BY <1>2, <1>3, <1>4, <1>7, <1>8, <1>9 DEF Sound, p

\* What c becomes when its first m waiters are woken.
Wakes(c, m, t) ==
    /\ Sound(t) /\ t.k.cur = c.k.cur
    /\ t.list = After(c.list, m)
    /\ t.node = [p \in Proc |-> IF p \in FirstOf(c.list, m) THEN 0 ELSE c.node[p]]

LEMMA WakesOneMore ==
    ASSUME NEW c, Sound(c), NEW m \in 0..Len(c.list), m < Len(c.list), NEW t, Wakes(c, m, t)
    PROVE  Wakes(c, m + 1, WakeFirst(t))
<1> DEFINE l == c.list
           p == l[m + 1]
           u == WakeFirst(t)
<1>1. /\ l \in Seq(Proc) /\ Injective(l) /\ c.node \in [Proc -> Nat]
      /\ m \in 0..Len(l) /\ Len(l) \in Nat /\ m < Len(l)
  BY SoundRuns
<1>2. /\ Sound(t) /\ t.k.cur = c.k.cur /\ t.list = After(l, m)
      /\ t.node = [q \in Proc |-> IF q \in FirstOf(l, m) THEN 0 ELSE c.node[q]]
  BY DEF Wakes
<1> HIDE DEF l
<1>3. t.list # <<>> /\ Head(t.list) = p /\ Tail(t.list) = After(l, m + 1)
  BY <1>1, <1>2, AfterList
<1>4. p \in Proc /\ p \notin FirstOf(l, m) /\ FirstOf(l, m + 1) = FirstOf(l, m) \union {p}
  BY <1>1, FirstOfList
<1>5. /\ Sound(u) /\ u.k.cur = c.k.cur /\ u.list = After(l, m + 1)
      /\ u.node = [t.node EXCEPT ![p] = 0]
  <2>1. /\ Sound(u) /\ u.k.cur = t.k.cur /\ u.list = Tail(t.list)
        /\ u.node = [t.node EXCEPT ![Head(t.list)] = 0]
    BY <1>2, <1>3, SoundWake
  <2> HIDE DEF u, p
  <2> QED BY <1>2, <1>3, <2>1
<1> HIDE DEF u, p
<1>6. u.node = [q \in Proc |-> IF q \in FirstOf(l, m + 1) THEN 0 ELSE c.node[q]]
  <2>1. \A q \in Proc : u.node[q] = IF q = p THEN 0 ELSE t.node[q]
    BY <1>2, <1>5
  <2>2. DOMAIN u.node = Proc /\ u.node = [q \in Proc |-> u.node[q]]
    BY <1>2, <1>5
  <2> QED BY <1>2, <1>4, <2>1, <2>2
<1> QED BY <1>5, <1>6 DEF Wakes, l, u

\* What kcond_broadcast computes, up to its n-th turn.
Rounds(c, n, f) == f = [i \in 0..n |-> IF i = 0 THEN c ELSE WakeFirst(f[i - 1])]

LEMMA RoundsExist ==
    ASSUME NEW c, NEW n \in Nat
    PROVE  \E f : Rounds(c, n, f)
<1> DEFINE Bad == {k \in Nat : ~ \E f : Rounds(c, k, f)}
<1>1. ASSUME Bad # {} PROVE FALSE
  <2>1. PICK k \in Bad : \A i \in Bad : k <= i
    <3>1. Bad \subseteq Nat
      OBVIOUS
    <3> HIDE DEF Bad
    <3> QED BY <1>1, <3>1, Least
  <2>2. CASE k = 0
    <3> DEFINE f == [i \in 0..0 |-> c]
    <3>1. Rounds(c, 0, f)
      BY DEF Rounds
    <3> HIDE DEF f
    <3> QED BY <2>1, <2>2, <3>1
  <2>3. CASE k # 0
    <3>1. k \in Nat /\ k - 1 \in Nat /\ k - 1 \notin Bad
      BY <2>1, <2>3
    <3>2. PICK f : Rounds(c, k - 1, f)
      BY <3>1
    <3> DEFINE last == WakeFirst(f[k - 1])
               g == [i \in 0..k |-> IF i = k THEN last ELSE f[i]]
    <3>3. g[k] = last /\ DOMAIN g = 0..k /\ \A i \in 0..(k - 1) : g[i] = f[i]
      <4> HIDE DEF last
      <4> QED BY <3>1
    <3>4. g[k] = WakeFirst(g[k - 1])
      <4>1. g[k - 1] = f[k - 1]
        BY <3>1, <3>3
      <4> HIDE DEF g
      <4> QED BY <3>3, <4>1
    <3>5. g = [i \in 0..k |-> g[i]]
      OBVIOUS
    <3> HIDE DEF g, last
    <3>6. ASSUME NEW i \in 0..(k - 1)
          PROVE  g[i] = IF i = 0 THEN c ELSE WakeFirst(g[i - 1])
      <4>1. f[i] = IF i = 0 THEN c ELSE WakeFirst(f[i - 1])
        BY <3>2 DEF Rounds
      <4>2. i # 0 => g[i - 1] = f[i - 1]
        BY <3>1, <3>3
      <4> QED BY <3>3, <4>1, <4>2
    <3>7. \A i \in 0..k : i = k \/ i \in 0..(k - 1)
      BY <3>1
    <3>8. Rounds(c, k, g)
      <4>1. \A i \in 0..k : g[i] = IF i = 0 THEN c ELSE WakeFirst(g[i - 1])
        BY <2>3, <3>4, <3>6, <3>7
      <4> QED BY <3>5, <4>1 DEF Rounds
    <3> QED BY <2>1, <3>8
  <2> QED BY <2>2, <2>3
<1> QED BY <1>1

\* A broadcast wakes all that wait, each once.
LEMMA BroadcastWakes ==
    ASSUME NEW c, Sound(c)
    PROVE  Wakes(c, Len(c.list), kcond_broadcast(c))
<1> DEFINE n == Len(c.list)
           f == CHOOSE g : Rounds(c, n, g)
<1>1. /\ c.list \in Seq(Proc) /\ n \in Nat /\ c.node \in [Proc -> Nat]
      /\ Injective(c.list)
  BY SoundRuns
<1>2. Rounds(c, n, f)
  BY <1>1, RoundsExist
<1>3. kcond_broadcast(c) = f[n]
  BY DEF kcond_broadcast, Rounds
<1> HIDE DEF f
<1> DEFINE Bad == {i \in 0..n : ~Wakes(c, i, f[i])}
<1>4. \A i \in 0..n : f[i] = IF i = 0 THEN c ELSE WakeFirst(f[i - 1])
  BY <1>2 DEF Rounds
<1>5. Wakes(c, 0, f[0])
  <2>1. f[0] = c
    BY <1>1, <1>4
  <2>2. FirstOf(c.list, 0) = {} /\ After(c.list, 0) = c.list
    BY <1>1, FirstOfList, AfterList
  <2> QED BY <1>1, <2>1, <2>2 DEF Wakes
<1>6. ASSUME NEW i \in 1..n, Wakes(c, i - 1, f[i - 1]) PROVE Wakes(c, i, f[i])
  <2>1. i - 1 \in 0..n /\ i \in 0..n /\ i # 0 /\ i - 1 < n /\ (i - 1) + 1 = i
    BY <1>1
  <2>2. f[i] = WakeFirst(f[i - 1])
    BY <1>4, <2>1
  <2>3. Wakes(c, (i - 1) + 1, WakeFirst(f[i - 1]))
    BY <1>6, <2>1, WakesOneMore
  <2> QED BY <2>1, <2>2, <2>3
<1>7. ASSUME Bad # {} PROVE FALSE
  <2>1. Bad \subseteq Nat
    BY <1>1
  <2>2. PICK i \in Bad : \A j \in Bad : i <= j
    <3> HIDE DEF Bad
    <3> QED BY <1>7, <2>1, Least
  <2>3. i \in 0..n /\ ~Wakes(c, i, f[i]) /\ i # 0
    BY <1>5, <2>2
  <2>4. i \in 1..n /\ i - 1 \in 0..n /\ ~(i <= i - 1)
    BY <1>1, <2>3
  <2>5. Wakes(c, i - 1, f[i - 1])
    BY <2>2, <2>4
  <2> QED BY <1>6, <2>3, <2>4, <2>5
<1>8. Wakes(c, n, f[n])
  BY <1>1, <1>7
<1> QED BY <1>3, <1>8

\* Whoever waits is in the list with a node of one until it is woken.
CondInv ==
    /\ Sound(cond)
    /\ condpc \in [Proc -> {"user", "wait"}]
    /\ \A p \in Proc : cond.node[p] \in {0, 1}
    /\ \A p \in Proc : InSeq(p, cond.list) <=> condpc[p] = "wait" /\ cond.node[p] = 1

LEMMA CondInitInv == CondInit => CondInv
<1> SUFFICES ASSUME CondInit PROVE CondInv
  OBVIOUS
<1>1. PICK order \in Orders : cond = Fresh(order)
  BY DEF CondInit, UserInit, Fresh
<1>2. condpc = [p \in Proc |-> "user"]
  BY DEF CondInit, UserInit
<1>3. /\ Sound(cond) /\ cond.node = [p \in Proc |-> 0]
      /\ \A p \in Proc : ~InSeq(p, cond.list)
  BY <1>1, FreshSound
<1> QED BY <1>2, <1>3 DEF CondInv

\* The steps that wake: whoever was woken has a node of 0, the others keep theirs.
LEMMA WakesInv ==
    ASSUME CondInv, NEW m \in 0..Len(cond.list), Wakes(cond, m, cond'), condpc' = condpc
    PROVE  CondInv'
<1>1. /\ cond.list \in Seq(Proc) /\ cond.node \in [Proc -> Nat] /\ Injective(cond.list)
  BY SoundRuns DEF CondInv
<1>2. /\ Sound(cond') /\ cond'.list = After(cond.list, m)
      /\ cond'.node = [p \in Proc |-> IF p \in FirstOf(cond.list, m) THEN 0 ELSE cond.node[p]]
  BY DEF Wakes
<1>3. ASSUME NEW p \in Proc
      PROVE  /\ cond'.node[p] \in {0, 1}
             /\ InSeq(p, cond'.list) <=> condpc[p] = "wait" /\ cond'.node[p] = 1
  <2>1. InSeq(p, cond.list) <=> p \in FirstOf(cond.list, m) \/ InSeq(p, cond'.list)
    BY <1>1, <1>2, FirstOfList
  <2>2. ~(p \in FirstOf(cond.list, m) /\ InSeq(p, cond'.list))
    <3>1. InSeq(p, cond'.list) => cond'.node[p] > 0
      BY <1>2 DEF Sound
    <3>2. p \in FirstOf(cond.list, m) => cond'.node[p] = 0
      BY <1>2
    <3> QED BY <3>1, <3>2
  <2>3. cond'.node[p] = IF p \in FirstOf(cond.list, m) THEN 0 ELSE cond.node[p]
    BY <1>2
  <2>4. /\ cond.node[p] \in {0, 1}
        /\ InSeq(p, cond.list) <=> condpc[p] = "wait" /\ cond.node[p] = 1
    BY DEF CondInv
  <2> QED BY <2>1, <2>2, <2>3, <2>4
<1>4. condpc' \in [Proc -> {"user", "wait"}]
  BY DEF CondInv
<1> QED BY <1>2, <1>3, <1>4 DEF CondInv

LEMMA CondStep ==
    ASSUME CondInv, Patient, CondNext
    PROVE  CondInv'
<1>1. /\ Sound(cond) /\ condpc \in [Proc -> {"user", "wait"}]
      /\ cond.list \in Seq(Proc) /\ cond.node \in [Proc -> Nat] /\ Injective(cond.list)
      /\ Len(cond.list) \in Nat
  BY SoundRuns DEF CondInv
<1>2. CASE CondTimer
  <2>1. cond' = [cond EXCEPT !.k = do_timer(@)] /\ condpc' = condpc
    BY <1>2 DEF CondTimer, Tick
  <2>2. Sound(cond') /\ cond'.list = cond.list /\ cond'.node = cond.node
    BY <1>1, <2>1, SoundTick
  <2> QED BY <2>1, <2>2 DEF CondInv
<1>3. ASSUME NEW p \in Users, NEW timeout \in Timeouts, Wait(p, timeout)
      PROVE  CondInv'
  <2>1. /\ cond.k.cur = p /\ ~InSeq(p, cond.list)
        /\ cond' = JoinCondition(cond, p, timeout)
        /\ condpc' = [condpc EXCEPT ![p] = "wait"]
    BY <1>3 DEF Wait, Runs
  <2>2. timeout = 0 /\ p # P1 /\ p \in Proc
    BY UsersFinite DEF Patient
  <2>3. JoinCondition(cond, p, 0) = JoinSemaphore(cond, p, 1, 0)
    BY <1>1 DEF JoinCondition, JoinSemaphore, Sound, Semaphores
  <2>4. /\ Sound(cond') /\ cond'.list = Append(cond.list, p)
        /\ cond'.node = [cond.node EXCEPT ![p] = 1]
    BY <1>1, <2>1, <2>2, <2>3, SoundJoin
  <2>5. \A q \in Proc : InSeq(q, cond'.list) <=> InSeq(q, cond.list) \/ q = p
    <3>1. \A q \in Proc : InSeq(q, Append(cond.list, p)) <=> InSeq(q, cond.list) \/ q = p
      BY <1>1, <2>1, <2>2, AppendList
    <3> QED BY <2>4, <3>1
  <2>6. condpc' \in [Proc -> {"user", "wait"}]
    BY <1>1, <2>1
  <2>7. ASSUME NEW q \in Proc
        PROVE  /\ cond'.node[q] = IF q = p THEN 1 ELSE cond.node[q]
               /\ condpc'[q] = IF q = p THEN "wait" ELSE condpc[q]
    BY <1>1, <2>1, <2>2, <2>4
  <2> QED BY <2>4, <2>5, <2>6, <2>7 DEF CondInv
<1>4. ASSUME NEW p \in Users, WaitReturn(p)
      PROVE  CondInv'
  <2>1. cond.k.cur = p /\ condpc' = [condpc EXCEPT ![p] = "user"] /\ cond' = cond
    BY <1>4 DEF WaitReturn, Runs
  <2>2. ~InSeq(p, cond.list) /\ p \in Proc
    BY <1>1, <2>1, SoundRuns
  <2>3. condpc' \in [Proc -> {"user", "wait"}]
    BY <1>1, <2>1
  <2>4. \A q \in Proc : condpc'[q] = IF q = p THEN "user" ELSE condpc[q]
    BY <1>1, <2>1
  <2> QED BY <2>1, <2>2, <2>3, <2>4 DEF CondInv
<1>5. ASSUME NEW p \in Users, Signal(p)
      PROVE  CondInv'
  <2>1. cond' = kcond_signal(cond) /\ condpc' = condpc
    BY <1>5 DEF Signal
  <2>2. CASE cond.list = <<>>
    <3>1. cond' = cond
      BY <2>1, <2>2 DEF kcond_signal
    <3> QED BY <2>1, <3>1 DEF CondInv
  <2>3. CASE cond.list # <<>>
    <3>1. cond' = WakeFirst(cond)
      BY <2>1, <2>3 DEF kcond_signal
    <3>2. 0 \in 0..Len(cond.list) /\ 1 \in 0..Len(cond.list) /\ 0 < Len(cond.list)
      BY <1>1, <2>3
    <3>3. Wakes(cond, 0, cond)
      <4>1. FirstOf(cond.list, 0) = {} /\ After(cond.list, 0) = cond.list
        BY <1>1, <3>2, FirstOfList, AfterList
      <4> QED BY <1>1, <4>1 DEF Wakes
    <3>4. Wakes(cond, 0 + 1, WakeFirst(cond))
      BY <1>1, <3>2, <3>3, WakesOneMore
    <3>5. Wakes(cond, 1, cond')
      BY <3>1, <3>4
    <3> QED BY <2>1, <3>2, <3>5, WakesInv
  <2> QED BY <2>2, <2>3
<1>6. ASSUME NEW p \in Users, Broadcast(p)
      PROVE  CondInv'
  <2>1. cond' = kcond_broadcast(cond) /\ condpc' = condpc
    BY <1>6 DEF Broadcast
  <2>2. Wakes(cond, Len(cond.list), cond')
    BY <1>1, <2>1, BroadcastWakes
  <2>3. Len(cond.list) \in 0..Len(cond.list)
    BY <1>1
  <2> QED BY <2>1, <2>2, <2>3, WakesInv
<1> QED BY <1>2, <1>3, <1>4, <1>5, <1>6 DEF CondNext

LEMMA CondInvImplies == CondInv => CondWaitersExact /\ CondNoPanic
<1> SUFFICES ASSUME CondInv PROVE CondWaitersExact /\ CondNoPanic
  OBVIOUS
<1>1. Sound(cond) /\ cond.k.panic = FALSE /\ Injective(cond.list)
  BY SoundRuns DEF CondInv
<1>2. \A p \in Proc : p \in cond.k.waitlist <=> cond.k.state[p] = "WAITING"
  <2>1. Untimed(cond.k)
    BY <1>1 DEF Sound
  <2> QED BY <2>1, UntimedWaiters
<1>3. \A p \in Proc : InSeq(p, cond.list) <=> cond.k.state[p] = "WAITING"
  BY <1>1 DEF Sound
<1>4. \A p \in Proc : InSeq(p, cond.list) <=> condpc[p] = "wait" /\ cond.node[p] = 1
  BY DEF CondInv
<1> QED BY <1>1, <1>2, <1>3, <1>4 DEF CondWaitersExact, CondNoPanic

LEMMA CondReturns ==
    ASSUME CondInv, CondNext, NEW p \in Users, condpc[p] = "wait", condpc'[p] = "user"
    PROVE  cond.node[p] = 0
<1>1. Sound(cond) /\ condpc \in [Proc -> {"user", "wait"}] /\ p \in Proc
  BY UsersFinite DEF CondInv
<1>2. ASSUME NEW q \in Users, WaitReturn(q)
      PROVE  cond.node[p] = 0
  <2>1. cond.k.cur = q /\ condpc' = [condpc EXCEPT ![q] = "user"]
    BY <1>2 DEF WaitReturn, Runs
  <2>2. p = q
    BY <1>1, <2>1
  <2>3. ~InSeq(p, cond.list)
    BY <1>1, <2>1, <2>2, SoundRuns
  <2> QED BY <1>1, <2>3 DEF CondInv
<1>3. ASSUME NEW q \in Users, NEW timeout \in Timeouts, Wait(q, timeout)
      PROVE  FALSE
  BY <1>1, <1>3 DEF Wait
<1>4. condpc' # condpc
  BY <1>1
<1> QED BY <1>2, <1>3, <1>4 DEF CondNext, CondTimer, Tick, Signal, Broadcast

-----------------------------------------------------------------------------
(***************************************************************************)
(* The mutex.  An unlock whose assertions fail stops the system; until     *)
(* then everybody in the list sleeps, but whoever is first, and so an      *)
(* unlock wakes a process that sleeps in kmutex_lock.                      *)
(***************************************************************************)
MutexSound ==
    /\ mutex \in Semaphores
    /\ Untimed(mutex.k)
    /\ mutexpc \in [Proc -> {"user", "lock", "holds"}]
    /\ Injective(mutex.list)
    /\ \A p \in Proc :
          /\ mutexpc[p] = "lock" => InSeq(p, mutex.list)
          /\ InSeq(p, mutex.list) => mutexpc[p] \in {"lock", "holds"}
          /\ mutex.k.state[p] = "WAITING" => mutexpc[p] = "lock"
          /\ InSeq(p, mutex.list) => First(mutex, p) \/ mutex.k.state[p] = "WAITING"

MutexInv == ~mutex.k.panic => MutexSound

LEMMA MutexRuns ==
    ASSUME MutexSound
    PROVE  /\ mutex.k \in KernelState /\ mutex.k.panic = FALSE /\ mutex.k.cur \in Proc
           /\ mutex.k.state[mutex.k.cur] = "RUNNING"
           /\ mutex.surplus \in Nat /\ mutex.list \in Seq(Proc) /\ mutex.node \in [Proc -> Nat]
           /\ mutex.k.state \in [Proc -> ProcState]
           /\ mutexpc \in [Proc -> {"user", "lock", "holds"}]
           /\ Injective(mutex.list)
           /\ mutex = [k |-> mutex.k, surplus |-> mutex.surplus, list |-> mutex.list,
                       node |-> mutex.node]
<1>1. Untimed(mutex.k)
  BY DEF MutexSound
<1>2. mutex.k \in KernelState /\ mutex.k.panic = FALSE
  BY <1>1, UntimedWaiters
<1>3. mutex.k.cur \in Proc /\ mutex.k.state[mutex.k.cur] = "RUNNING"
  <2>1. Good(mutex.k, {})
    BY <1>1 DEF Untimed
  <2> QED BY <1>2, <2>1 DEF Good, CurrentIsHeadOf, KernelState
<1>4. mutex.k.state \in [Proc -> ProcState]
  BY <1>2 DEF KernelState
<1> QED BY <1>2, <1>3, <1>4 DEF MutexSound, Semaphores

LEMMA MutexInitInv == MutexInit => MutexSound
<1> SUFFICES ASSUME MutexInit PROVE MutexSound
  OBVIOUS
<1>1. PICK order \in Orders : mutex = Fresh(order)
  BY DEF MutexInit, UserInit, Fresh
<1>2. mutexpc = [p \in Proc |-> "user"]
  BY DEF MutexInit, UserInit
<1>3. /\ Sound(mutex)
      /\ \A p \in Proc : mutex.k.state[p] = "RUNNING" /\ ~InSeq(p, mutex.list)
  BY <1>1, FreshSound
<1>4. mutex \in Semaphores /\ Untimed(mutex.k) /\ Injective(mutex.list)
  BY <1>3 DEF Sound
<1> QED BY <1>2, <1>3, <1>4 DEF MutexSound

\* kassert keeps a panic, and nothing of Resume takes it back.
LEMMA ResumeKeepsPanic ==
    ASSUME NEW k \in KernelState, k.panic, NEW p \in Proc
    PROVE  Resume(k, p).panic
<1> DEFINE w == kwakeup(k, p)
           r == [w EXCEPT !.state[p] = "RUNNING"]
<1>1. w.panic /\ w.active = k.active /\ "panic" \in DOMAIN w /\ DOMAIN w = DOMAIN k
  BY DEF kwakeup, kassert, KernelState
<1>2. r.panic /\ DOMAIN r = DOMAIN k
  BY <1>1
<1>3. DOMAIN k = {"cur", "active", "levels", "count", "sq", "state", "nice", "rest", "ctx",
                  "jiffies", "wakeup", "wheel", "waitlist", "panic"}
  BY DEF KernelState
<1> HIDE DEF w, r
<1>4. \A m, q : (m.panic /\ "panic" \in DOMAIN m) => Enqueue(m, q, p).panic
  BY DEF Enqueue
<1>5. r.panic /\ "panic" \in DOMAIN r
  BY <1>2, <1>3
<1>6. \A x : [r EXCEPT !.rest[p] = x].panic /\ "panic" \in DOMAIN [r EXCEPT !.rest[p] = x]
  BY <1>5
<1>7. in_sched_queue(w, p).panic
  BY <1>4, <1>5, <1>6 DEF in_sched_queue, r
<1> QED BY <1>7 DEF Resume, w

LEMMA MutexTimerStep ==
    ASSUME MutexSound, MutexTimer
    PROVE  MutexSound'
<1>1. mutex' = [mutex EXCEPT !.k = do_timer(@)] /\ mutexpc' = mutexpc
  BY DEF MutexTimer, Tick
<1> DEFINE m == do_timer(mutex.k)
<1>2. Untimed(m) /\ m.state = mutex.k.state
  BY UntimedTick DEF MutexSound
<1>3. m \in KernelState
  BY <1>2, UntimedWaiters
<1> HIDE DEF m
<1>4. /\ mutex' \in Semaphores /\ mutex'.k = m /\ mutex'.list = mutex.list
  BY <1>1, <1>3 DEF m, MutexSound, Semaphores
<1> QED BY <1>1, <1>2, <1>4 DEF MutexSound, First

LEMMA LockNowStep ==
    ASSUME MutexSound, NEW p \in Users, LockNow(p)
    PROVE  MutexSound'
<1>1. /\ mutex.list = <<>> /\ mutex' = HoldMutex(mutex, p)
      /\ mutexpc' = [mutexpc EXCEPT ![p] = "holds"] /\ mutexpc[p] = "user"
  BY DEF LockNow, Unheld, Runs
<1>2. p \in Proc
  BY UsersFinite
<1>3. \A q \in Proc : ~InSeq(q, mutex.list)
  BY <1>1 DEF InSeq
<1>4. /\ Insert(mutex.list, p) \in Seq(Proc) /\ Injective(Insert(mutex.list, p))
      /\ \A q \in Proc : InSeq(q, Insert(mutex.list, p)) <=> InSeq(q, mutex.list) \/ q = p
  BY <1>2, <1>3, MutexRuns, InsertList
<1>5. mutex' \in Semaphores /\ mutex'.k = mutex.k /\ mutex'.list = Insert(mutex.list, p)
  <2> HIDE DEF Insert
  <2> QED BY <1>1, <1>4, MutexRuns DEF HoldMutex, Semaphores
<1>6. First(mutex', p)
  BY <1>1, <1>2, <1>5 DEF First, Insert
<1>7. mutexpc' \in [Proc -> {"user", "lock", "holds"}]
  BY <1>1, MutexRuns
<1>8. ASSUME NEW q \in Proc
      PROVE  /\ mutexpc'[q] = "lock" => InSeq(q, mutex'.list)
             /\ InSeq(q, mutex'.list) => mutexpc'[q] \in {"lock", "holds"}
             /\ mutex'.k.state[q] = "WAITING" => mutexpc'[q] = "lock"
             /\ InSeq(q, mutex'.list) => First(mutex', q) \/ mutex'.k.state[q] = "WAITING"
  <2>1. mutexpc'[q] = IF q = p THEN "holds" ELSE mutexpc[q]
    BY <1>1, <1>2, MutexRuns
  <2> QED BY <1>1, <1>3, <1>4, <1>5, <1>6, <2>1 DEF MutexSound
<1>9. Untimed(mutex'.k) /\ Injective(mutex'.list)
  BY <1>4, <1>5 DEF MutexSound
<1> QED BY <1>5, <1>7, <1>8, <1>9 DEF MutexSound

LEMMA LockWaitStep ==
    ASSUME MutexSound, Patient, NEW p \in Users, NEW timeout \in Timeouts, LockWait(p, timeout)
    PROVE  MutexSound'
<1>1. /\ mutex.k.cur = p /\ mutex.list # <<>> /\ ~InSeq(p, mutex.list)
      /\ mutex' = JoinMutex(mutex, p, timeout)
      /\ mutexpc' = [mutexpc EXCEPT ![p] = "lock"]
  BY DEF LockWait, Unheld, Runs
<1>2. p \in Proc /\ timeout = 0 /\ p # P1
  BY UsersFinite DEF Patient
<1> DEFINE m == Suspend(mutex.k, p, 0)
<1>3. Untimed(m) /\ m.state = [mutex.k.state EXCEPT ![p] = "WAITING"]
  BY <1>1, <1>2, UntimedSuspend DEF MutexSound
<1>4. m \in KernelState
  BY <1>3, UntimedWaiters
<1>5. /\ Append(mutex.list, p) \in Seq(Proc) /\ Injective(Append(mutex.list, p))
      /\ \A q \in Proc : InSeq(q, Append(mutex.list, p)) <=> InSeq(q, mutex.list) \/ q = p
      /\ Append(mutex.list, p) # <<>>
      /\ Head(Append(mutex.list, p)) = Head(mutex.list)
  <2>1. mutex.list \in Seq(Proc) /\ Injective(mutex.list)
    BY MutexRuns
  <2> QED BY <1>1, <1>2, <2>1, AppendList
<1>6. mutex'.k = m /\ mutex'.list = Append(mutex.list, p) /\ mutex' \in Semaphores
  <2>1. mutex' = [mutex EXCEPT !.list = Append(mutex.list, p), !.k = m]
    BY <1>1, <1>2 DEF JoinMutex
  <2> HIDE DEF m
  <2> QED BY <1>4, <1>5, <2>1, MutexRuns DEF Semaphores
<1> HIDE DEF m
<1>7. mutexpc' \in [Proc -> {"user", "lock", "holds"}]
  BY <1>1, MutexRuns
<1>8. ASSUME NEW q \in Proc
      PROVE  /\ mutexpc'[q] = "lock" => InSeq(q, mutex'.list)
             /\ InSeq(q, mutex'.list) => mutexpc'[q] \in {"lock", "holds"}
             /\ mutex'.k.state[q] = "WAITING" => mutexpc'[q] = "lock"
             /\ InSeq(q, mutex'.list) => First(mutex', q) \/ mutex'.k.state[q] = "WAITING"
  <2>1. mutexpc'[q] = IF q = p THEN "lock" ELSE mutexpc[q]
    BY <1>1, <1>2, MutexRuns
  <2>2. mutex'.k.state[q] = IF q = p THEN "WAITING" ELSE mutex.k.state[q]
    BY <1>2, <1>3, <1>6, MutexRuns
  <2>3. First(mutex, q) <=> First(mutex', q)
    BY <1>1, <1>5, <1>6 DEF First
  <2> QED BY <1>5, <1>6, <2>1, <2>2, <2>3 DEF MutexSound
<1> QED BY <1>3, <1>5, <1>6, <1>7, <1>8 DEF MutexSound

LEMMA LockReturnStep ==
    ASSUME MutexSound, NEW p \in Users, LockReturn(p)
    PROVE  MutexSound'
<1>1. /\ mutex.k.cur = p /\ mutexpc[p] = "lock" /\ mutex' = AfterJoin(mutex, p)
      /\ mutexpc' = [mutexpc EXCEPT ![p] = IF First(mutex, p) THEN "holds" ELSE "user"]
  BY DEF LockReturn, Runs
<1>2. p \in Proc
  BY UsersFinite
<1>3. InSeq(p, mutex.list) /\ First(mutex, p)
  BY <1>1, <1>2, MutexRuns DEF MutexSound
<1>4. mutex.list # <<>> /\ Head(mutex.list) = p
  BY <1>3 DEF First
<1>5. /\ Tail(mutex.list) \in Seq(Proc) /\ Injective(Tail(mutex.list))
      /\ \A q \in Proc : InSeq(q, Tail(mutex.list)) <=> InSeq(q, mutex.list) /\ q # p
  BY <1>4, MutexRuns, TailList
<1>6. kassert(mutex.k, InSeq(p, mutex.list)) = mutex.k
  BY <1>3, MutexRuns DEF kassert, KernelState
<1>7. mutex' \in Semaphores /\ mutex'.k = mutex.k /\ mutex'.list = Tail(mutex.list)
  <2>1. mutex' = [mutex EXCEPT !.k = mutex.k, !.list = Tail(mutex.list)]
    BY <1>1, <1>3, <1>6 DEF AfterJoin
  <2> QED BY <1>5, <2>1, MutexRuns DEF Semaphores
<1>8. mutexpc' \in [Proc -> {"user", "lock", "holds"}]
  BY <1>1, MutexRuns
<1>9. ASSUME NEW q \in Proc
      PROVE  /\ mutexpc'[q] = "lock" => InSeq(q, mutex'.list)
             /\ InSeq(q, mutex'.list) => mutexpc'[q] \in {"lock", "holds"}
             /\ mutex'.k.state[q] = "WAITING" => mutexpc'[q] = "lock"
             /\ InSeq(q, mutex'.list) => First(mutex', q) \/ mutex'.k.state[q] = "WAITING"
  <2>1. mutexpc'[q] = IF q = p THEN "holds" ELSE mutexpc[q]
    BY <1>1, <1>2, <1>3, MutexRuns
  <2>2. q # p => ~First(mutex, q)
    BY <1>4 DEF First
  <2>3. mutex.k.state[p] = "RUNNING"
    BY <1>1, MutexRuns
  <2> QED BY <1>5, <1>7, <2>1, <2>2, <2>3 DEF MutexSound
<1>10. Untimed(mutex'.k) /\ Injective(mutex'.list)
  BY <1>5, <1>7 DEF MutexSound
<1> QED BY <1>7, <1>8, <1>9, <1>10 DEF MutexSound

LEMMA HeadUnlinked ==
    ASSUME NEW l \in Seq(Proc), Injective(l), l # <<>>
    PROVE  Unlink(l, Head(l)) = Tail(l)
<1>1. Len(l) \in Nat /\ Len(l) >= 1 /\ 1 \in DOMAIN l /\ l[1] = Head(l)
  OBVIOUS
<1>2. InSeq(Head(l), l)
  BY <1>1 DEF InSeq
<1>3. Position(l, Head(l)) = 1
  BY <1>1 DEF Position, Injective
<1>4. Unlink(l, Head(l)) = [i \in 1..(Len(l) - 1) |-> l[i + 1]]
  <2>1. Unlink(l, Head(l)) =
            [i \in 1..(Len(l) - 1) |-> IF i < 1 THEN l[i] ELSE l[i + 1]]
    BY <1>2, <1>3 DEF Unlink
  <2>2. \A i \in 1..(Len(l) - 1) : ~(i < 1)
    BY <1>1
  <2> QED BY <2>1, <2>2
<1>5. /\ Tail(l) \in Seq(Proc) /\ Len(Tail(l)) = Len(l) - 1
      /\ \A i \in 1..(Len(l) - 1) : Tail(l)[i] = l[i + 1]
  OBVIOUS
<1> QED BY <1>1, <1>4, <1>5

LEMMA UnlockStep ==
    ASSUME MutexSound, NEW p \in Users, Unlock(p)
    PROVE  MutexInv'
<1> DEFINE ok   == InSeq(p, mutex.list) /\ First(mutex, p)
           left == Unlink(mutex.list, p)
           k    == kassert(mutex.k, ok)
<1>1. /\ mutex' = kmutex_unlock(mutex, p) /\ mutexpc[p] = "holds"
      /\ mutexpc' = [mutexpc EXCEPT ![p] = "user"]
  BY DEF Unlock, Runs
<1>2. p \in Proc
  BY UsersFinite
<1>3. mutex'.k = (IF left = <<>> THEN k ELSE Resume(k, Head(left))) /\ mutex'.list = left
      /\ mutex'.surplus = mutex.surplus /\ mutex'.node = mutex.node
      /\ mutex' = [k |-> mutex'.k, surplus |-> mutex.surplus, list |-> left,
                   node |-> mutex.node]
  <2>1. mutex' = [mutex EXCEPT !.list = left,
                               !.k = IF left = <<>> THEN k ELSE Resume(k, Head(left))]
    BY <1>1 DEF kmutex_unlock
  <2> HIDE DEF left, k
  <2> QED BY <2>1, MutexRuns
<1>4. CASE ~ok
  <2>1. k \in KernelState /\ k.panic
    BY <1>4, MutexRuns DEF kassert, KernelState
  <2>2. left \in Seq(Proc)
    BY <1>2, MutexRuns, UnlinkList DEF Unlink
  <2> HIDE DEF k, left
  <2>3. mutex'.k.panic
    <3>1. CASE left = <<>>
      BY <1>3, <2>1, <3>1
    <3>2. CASE left # <<>>
      <4>1. Head(left) \in Proc
        BY <2>2, <3>2
      <4>2. Resume(k, Head(left)).panic
        BY <2>1, <4>1, ResumeKeepsPanic
      <4> QED BY <1>3, <3>2, <4>2
    <3> QED BY <3>1, <3>2
  <2> QED BY <2>3 DEF MutexInv
<1>5. CASE ok
  <2>1. /\ mutex.list # <<>> /\ Head(mutex.list) = p
    BY <1>5 DEF First
  <2>2. left = Tail(mutex.list)
    BY <2>1, MutexRuns, HeadUnlinked
  <2>3. k = mutex.k
    BY <1>5, MutexRuns DEF kassert, KernelState
  <2>4. /\ left \in Seq(Proc) /\ Injective(left)
        /\ \A q \in Proc : InSeq(q, left) <=> InSeq(q, mutex.list) /\ q # p
    BY <2>1, <2>2, MutexRuns, TailList
  <2> HIDE DEF left, k
  <2>5. \A q \in Proc : q # p => ~First(mutex, q)
    BY <2>1 DEF First
  <2>6. mutex.k.state[p] # "WAITING"
    BY <1>1, <1>2 DEF MutexSound
  <2>7. mutexpc' \in [Proc -> {"user", "lock", "holds"}]
    BY <1>1, MutexRuns
  <2>8. \A q \in Proc : mutexpc'[q] = IF q = p THEN "user" ELSE mutexpc[q]
    BY <1>1, <1>2, MutexRuns
  <2>9. CASE left = <<>>
    <3>1. mutex'.k = mutex.k /\ mutex'.list = left /\ mutex' \in Semaphores
      BY <1>3, <2>3, <2>4, <2>9, MutexRuns DEF Semaphores
    <3>2. \A q \in Proc : ~InSeq(q, left)
      BY <2>9 DEF InSeq
    <3>3. Untimed(mutex'.k) /\ Injective(mutex'.list)
      BY <2>4, <3>1 DEF MutexSound
    <3>4. ASSUME NEW q \in Proc
          PROVE  /\ mutexpc'[q] # "lock"
                 /\ mutex'.k.state[q] # "WAITING"
      <4>1. q # p => ~InSeq(q, mutex.list)
        BY <2>4, <3>2
      <4>2. q # p => mutexpc[q] # "lock"
        BY <4>1 DEF MutexSound
      <4>3. mutex.k.state[q] # "WAITING"
        BY <2>6, <4>2 DEF MutexSound
      <4> QED BY <2>8, <3>1, <4>2, <4>3
    <3>5. MutexSound'
      BY <2>7, <3>1, <3>2, <3>3, <3>4 DEF MutexSound
    <3> QED BY <3>5 DEF MutexInv
  <2>10. CASE left # <<>>
    <3> DEFINE h == Head(left)
               m == Resume(mutex.k, h)
    <3>1. h \in Proc /\ InSeq(h, left)
      BY <2>4, <2>10, TailList
    <3>2. h # p /\ InSeq(h, mutex.list)
      BY <2>4, <3>1
    <3> HIDE DEF h
    <3>3. mutex.k.state[h] = "WAITING" /\ mutexpc[h] = "lock"
      BY <2>5, <3>1, <3>2 DEF MutexSound
    <3>4. Untimed(m) /\ m.state = [mutex.k.state EXCEPT ![h] = "RUNNING"]
      BY <3>1, <3>3, UntimedResume DEF MutexSound
    <3>5. m \in KernelState
      BY <3>4, UntimedWaiters
    <3>6. mutex'.k = m /\ mutex'.list = left
      BY <1>3, <2>3, <2>10 DEF h
    <3> HIDE DEF m
    <3>7. mutex' \in Semaphores
      BY <1>3, <2>4, <3>5, <3>6, MutexRuns DEF Semaphores
    <3>8. First(mutex', h)
      BY <2>10, <3>6 DEF First, h
    <3>9. ASSUME NEW q \in Proc
          PROVE  /\ mutexpc'[q] = "lock" => InSeq(q, mutex'.list)
                 /\ InSeq(q, mutex'.list) => mutexpc'[q] \in {"lock", "holds"}
                 /\ mutex'.k.state[q] = "WAITING" => mutexpc'[q] = "lock"
                 /\ InSeq(q, mutex'.list) => First(mutex', q) \/ mutex'.k.state[q] = "WAITING"
      <4>1. mutex'.k.state[q] = IF q = h THEN "RUNNING" ELSE mutex.k.state[q]
        BY <3>1, <3>4, <3>6, MutexRuns
      <4>2. mutexpc'[q] = "lock" => InSeq(q, mutex'.list)
        BY <2>4, <2>8, <3>6 DEF MutexSound
      <4>3. InSeq(q, mutex'.list) => mutexpc'[q] \in {"lock", "holds"}
        BY <2>4, <2>8, <3>6 DEF MutexSound
      <4>4. mutex'.k.state[q] = "WAITING" => mutexpc'[q] = "lock"
        BY <2>6, <2>8, <4>1 DEF MutexSound
      <4>5. InSeq(q, mutex'.list) => First(mutex', q) \/ mutex'.k.state[q] = "WAITING"
        BY <2>4, <2>5, <3>6, <3>8, <4>1 DEF MutexSound
      <4> QED BY <4>2, <4>3, <4>4, <4>5
    <3>10. Untimed(mutex'.k) /\ Injective(mutex'.list)
      BY <2>4, <3>4, <3>6
    <3>11. MutexSound'
      BY <2>7, <3>7, <3>9, <3>10 DEF MutexSound
    <3> QED BY <3>11 DEF MutexInv
  <2> QED BY <2>9, <2>10
<1> QED BY <1>4, <1>5

LEMMA MutexStep ==
    ASSUME MutexInv, Patient, MutexNext
    PROVE  MutexInv'
<1>1. ~mutex.k.panic
  BY DEF MutexNext, MutexTimer, Tick, LockNow, LockWait, LockReturn, Unlock, Runs
<1>2. MutexSound
  BY <1>1 DEF MutexInv
<1>3. CASE MutexTimer
  BY <1>2, <1>3, MutexTimerStep DEF MutexInv
<1>4. ASSUME NEW p \in Users, LockNow(p)
      PROVE  MutexInv'
  BY <1>2, <1>4, LockNowStep DEF MutexInv
<1>5. ASSUME NEW p \in Users, LockReturn(p)
      PROVE  MutexInv'
  BY <1>2, <1>5, LockReturnStep DEF MutexInv
<1>6. ASSUME NEW p \in Users, Unlock(p)
      PROVE  MutexInv'
  BY <1>2, <1>6, UnlockStep
<1>7. ASSUME NEW p \in Users, NEW timeout \in Timeouts, LockWait(p, timeout)
      PROVE  MutexInv'
  BY <1>2, <1>7, LockWaitStep DEF MutexInv
<1> QED BY <1>3, <1>4, <1>5, <1>6, <1>7 DEF MutexNext

LEMMA MutexInvImplies == MutexInv => MutexWaitersExact
<1> SUFFICES ASSUME MutexSound PROVE MutexWaitersExact
  BY DEF MutexInv, MutexWaitersExact
<1> QED BY MutexRuns DEF MutexSound, MutexWaitersExact

-----------------------------------------------------------------------------
(***************************************************************************)
(* The composition.                                                        *)
(***************************************************************************)
LEMMA SleepersInv ==
    ASSUME Patient
    PROVE  /\ AllInit => CondInv /\ MutexInv
           /\ CondInv /\ MutexInv /\ [AllNext]_syncvars => CondInv' /\ MutexInv'
<1>1. AllInit => CondInv /\ MutexInv
  BY CondInitInv, MutexInitInv DEF AllInit, MutexInv
<1>2. ASSUME CondInv, MutexInv, UNCHANGED condvars
      PROVE  CondInv'
  BY <1>2 DEF CondInv, condvars
<1>3. ASSUME MutexInv, UNCHANGED mutexvars
      PROVE  MutexInv'
  BY <1>3 DEF MutexInv, MutexSound, First, mutexvars
<1>4. ASSUME CondInv, MutexInv, [AllNext]_syncvars
      PROVE  CondInv' /\ MutexInv'
  <2>1. CASE CondNext /\ UNCHANGED <<vars, mutexvars>>
    BY <1>3, <1>4, <2>1, CondStep
  <2>2. CASE MutexNext /\ UNCHANGED <<vars, condvars>>
    BY <1>2, <1>4, <2>2, MutexStep
  <2>3. CASE UNCHANGED <<condvars, mutexvars>>
    BY <1>2, <1>3, <1>4, <2>3
  <2> QED BY <1>4, <2>1, <2>2, <2>3 DEF AllNext, Only, syncvars
<1> QED BY <1>1, <1>4

\* A signal or an unlock wakes a process that sleeps, and sleeps for this condition or
\* mutex: kcond_wait, kcond_signal, kcond_broadcast, kmutex_lock and kmutex_unlock keep
\* their lists exact, and out_sched_queue and kwakeup never fail under a condition.
THEOREM SleepersAlwaysListed == Patient => (AllSpec => []SleepersListed)
<1> SUFFICES ASSUME Patient PROVE AllSpec => []SleepersListed
  OBVIOUS
<1>1. AllInit => CondInv /\ MutexInv
  BY SleepersInv
<1>2. CondInv /\ MutexInv /\ [AllNext]_syncvars => CondInv' /\ MutexInv'
  BY SleepersInv
<1>3. CondInv /\ MutexInv => SleepersListed
  BY CondInvImplies, MutexInvImplies DEF SleepersListed
<1> QED BY <1>1, <1>2, <1>3, PTL DEF AllSpec

\* Nobody returns from kcond_wait that was not signalled.
THEOREM WakeAlwaysMeansSignal == Patient => (AllSpec => WakeMeansSignal)
<1> SUFFICES ASSUME Patient PROVE AllSpec => WakeMeansSignal
  OBVIOUS
<1>1. AllInit => CondInv /\ MutexInv
  BY SleepersInv
<1>2. CondInv /\ MutexInv /\ [AllNext]_syncvars => CondInv' /\ MutexInv'
  BY SleepersInv
<1>3. CondInv /\ [AllNext]_syncvars =>
        [\A p \in Users : condpc[p] = "wait" /\ condpc'[p] = "user" => cond.node[p] = 0]_condvars
  <2> SUFFICES ASSUME CondInv, [AllNext]_syncvars, ~ UNCHANGED condvars,
                      NEW p \in Users, condpc[p] = "wait", condpc'[p] = "user"
               PROVE  cond.node[p] = 0
    OBVIOUS
  <2>1. CondNext
    BY DEF AllNext, Only, syncvars
  <2> QED BY <2>1, CondReturns
<1> QED BY <1>1, <1>2, <1>3, PTL DEF AllSpec, WakeMeansSignal
=============================================================================
