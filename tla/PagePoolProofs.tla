--------------------------- MODULE PagePoolProofs ---------------------------
(***************************************************************************)
(* Why no page is given out twice, lost, or waited for in vain, for every  *)
(* set of pages, processes and sizes: the list free_mem_desc_head and the  *)
(* semaphore that counts it agree, also while grants are on their way to   *)
(* processes that have not run since.                                      *)
(*                                                                         *)
(* Process1 allocates nothing: schedule falls back on it when nobody is    *)
(* ready, so it may not sleep.                                             *)
(***************************************************************************)
EXTENDS PagePool, SyncOpsProofs

\* The pages a process has or is about to free.
Mine(p) == got[p] \union drop[p] \union UNION owned[p]

PoolTypes ==
    /\ free \in Seq(Page)
    /\ pc \in [Proc -> {"user", "get", "down", "free"}]
    /\ todo \in [Proc -> Nat]
    /\ got \in [Proc -> SUBSET Page] /\ drop \in [Proc -> SUBSET Page]
    /\ owned \in [Proc -> SUBSET (SUBSET Page)]

\* The loop of get_pages has a page to take and an area it fills, that of free_pages
\* one it empties, and nobody else has either.
Loops(p) ==
    /\ pc[p] \in {"get", "down"} => todo[p] > 0
    /\ pc[p] \in {"user", "free"} => got[p] = {}
    /\ pc[p] # "free" => drop[p] = {}

\* No page is in two areas of a process.
Apart(p) ==
    /\ \A a \in owned[p] : a \intersect got[p] = {} /\ a \intersect drop[p] = {}
    /\ \A a, b \in owned[p] : a = b \/ a \intersect b = {}

\* A page that is not free belongs to one process.
OneOwner ==
    /\ Injective(free)
    /\ \A x \in Page : InSeq(x, free) <=> \A p \in Proc : x \notin Mine(p)
    /\ \A p, q \in Proc : \A x \in Page : x \in Mine(p) /\ x \in Mine(q) => p = q

Placed == PoolTypes /\ OneOwner /\ \A p \in Proc : Loops(p) /\ Apart(p)

\* Every sleeper needs one page, is inside down and allocates.
NodesExact ==
    /\ \A p \in Proc : s.node[p] = IF InSeq(p, s.list) THEN 1 ELSE 0
    /\ \A p \in Proc : InSeq(p, s.list) => pc[p] = "down"
    /\ \A p \in Proc : pc[p] # "user" => p \in Users

\* While somebody waits the semaphore counts nothing.
NothingIdle == s.list # <<>> => s.surplus = 0

\* The inductive invariant.
PoolInv == Sound(s) /\ NodesExact /\ NothingIdle /\ PoolCounted /\ Placed

LEMMA PromisedFinite ==
    /\ Users \subseteq Proc
    /\ Promised \subseteq Users /\ IsFiniteSet(Promised) /\ Cardinality(Promised) \in Nat
<1>1. Users \subseteq Proc /\ IsFiniteSet(Users)
  BY PoolAssumption, ProcAssumption, FS_Subset
<1>2. Promised \subseteq Users
  BY DEF Promised
<1> QED BY <1>1, <1>2, FS_Subset, FS_CardinalityType

-----------------------------------------------------------------------------
(***************************************************************************)
(* The pages.                                                              *)
(***************************************************************************)

\* A page moves from the list to the area get_pages fills, which is complete with the
\* last one.
LEMMA TakeKeepsPages ==
    ASSUME Placed, NEW p \in Proc, pc[p] \in {"get", "down"}, free # <<>>,
           TakeHead(p), drop' = drop
    PROVE  /\ Placed'
           /\ Len(free') = Len(free) - 1
           /\ \A q \in Proc : q # p => pc'[q] = pc[q]
           /\ pc'[p] \in {"user", "get"}
<1> DEFINE h == Head(free)
           mine == got[p] \union {h}
<1>1. /\ free' = Tail(free)
      /\ todo' = [todo EXCEPT ![p] = @ - 1]
      /\ got' = [got EXCEPT ![p] = IF todo[p] = 1 THEN {} ELSE mine]
      /\ owned' = [owned EXCEPT ![p] = IF todo[p] = 1 THEN @ \union {mine} ELSE @]
      /\ pc' = [pc EXCEPT ![p] = IF todo[p] = 1 THEN "user" ELSE "get"]
  BY DEF TakeHead
<1>2. PoolTypes /\ OneOwner /\ \A q \in Proc : Loops(q) /\ Apart(q)
  BY DEF Placed
<1>3. /\ h \in Page /\ InSeq(h, free)
      /\ free' \in Seq(Page) /\ Injective(free') /\ Len(free') = Len(free) - 1
      /\ \A x \in Page : InSeq(x, free') <=> InSeq(x, free) /\ x # h
  BY <1>1, <1>2, TailList DEF PoolTypes, OneOwner
<1> HIDE DEF h
<1>4. mine \subseteq Page
  BY <1>2, <1>3 DEF PoolTypes
<1>5. todo[p] > 0 /\ todo[p] \in Nat /\ todo[p] - 1 \in Nat
  BY <1>2 DEF Loops, PoolTypes
<1>6. \A q \in Proc : /\ q # p => /\ got'[q] = got[q] /\ owned'[q] = owned[q]
                                  /\ pc'[q] = pc[q] /\ todo'[q] = todo[q]
                      /\ drop'[q] = drop[q]
  BY <1>1, <1>2 DEF PoolTypes
<1>7. /\ todo'[p] = todo[p] - 1
      /\ got'[p] = IF todo[p] = 1 THEN {} ELSE mine
      /\ owned'[p] = IF todo[p] = 1 THEN owned[p] \union {mine} ELSE owned[p]
      /\ pc'[p] = IF todo[p] = 1 THEN "user" ELSE "get"
  BY <1>1, <1>2 DEF PoolTypes
<1>8. PoolTypes'
  <2>1. (IF todo[p] = 1 THEN {} ELSE mine) \in SUBSET Page
        /\ (IF todo[p] = 1 THEN owned[p] \union {mine} ELSE owned[p]) \in SUBSET (SUBSET Page)
    BY <1>2, <1>4 DEF PoolTypes
  <2>2. pc' \in [Proc -> {"user", "get", "down", "free"}] /\ todo' \in [Proc -> Nat]
    BY <1>1, <1>2, <1>5 DEF PoolTypes
  <2> HIDE DEF mine
  <2>3. got' \in [Proc -> SUBSET Page]
    BY <1>1, <1>2, <2>1 DEF PoolTypes
  <2>4. owned' \in [Proc -> SUBSET (SUBSET Page)]
    BY <1>1, <1>2, <2>1 DEF PoolTypes
  <2> QED BY <1>2, <1>3, <2>2, <2>3, <2>4 DEF PoolTypes
<1>9. \A q \in Proc : h \notin Mine(q)
  BY <1>2, <1>3 DEF OneOwner
<1>10. \A q \in Proc : q # p => Mine(q)' = Mine(q)
  BY <1>6 DEF Mine
<1>11. Mine(p)' = Mine(p) \union {h}
  BY <1>6, <1>7 DEF Mine
<1>12. OneOwner'
  <2>1. \A x \in Page : InSeq(x, free') <=> \A q \in Proc : x \notin Mine(q)'
    BY <1>2, <1>3, <1>9, <1>10, <1>11 DEF OneOwner
  <2>2. \A q, r \in Proc : \A x \in Page : x \in Mine(q)' /\ x \in Mine(r)' => q = r
    BY <1>2, <1>9, <1>10, <1>11 DEF OneOwner
  <2> QED BY <1>3, <2>1, <2>2 DEF OneOwner
<1>13. ASSUME NEW q \in Proc PROVE Loops(q)' /\ Apart(q)'
  <2>1. CASE q # p
    BY <1>2, <1>6, <2>1 DEF Loops, Apart
  <2>2. CASE q = p
    <3>1. Loops(p)'
      <4>1. drop'[p] = {} /\ pc'[p] # "free" /\ pc'[p] # "down"
        BY <1>2, <1>6, <1>7 DEF Loops
      <4> QED BY <1>5, <1>7, <4>1 DEF Loops
    <3>2. \A a \in owned[p] : a \intersect mine = {} /\ a \intersect drop[p] = {}
      BY <1>2, <1>9 DEF Apart, Mine
    <3>3. drop[p] = {}
      BY <1>2 DEF Loops
    <3>4. Apart(p)'
      <4> HIDE DEF mine
      <4> QED BY <1>2, <1>6, <1>7, <3>2, <3>3 DEF Apart
    <3> QED BY <2>2, <3>1, <3>4
  <2> QED BY <2>1, <2>2
<1>14. Placed'
  BY <1>8, <1>12, <1>13 DEF Placed
<1> QED BY <1>3, <1>6, <1>7, <1>14

\* An area moves from its owner to free_pages.
LEMMA FreePagesKeepsPages ==
    ASSUME Placed, NEW p \in Proc, NEW area \in owned[p], FreePages(p, area)
    PROVE  Placed'
<1>1. /\ pc[p] = "user"
      /\ pc' = [pc EXCEPT ![p] = "free"]
      /\ drop' = [drop EXCEPT ![p] = area]
      /\ owned' = [owned EXCEPT ![p] = @ \ {area}]
      /\ free' = free /\ todo' = todo /\ got' = got
  BY DEF FreePages, Runs
<1>2. PoolTypes /\ OneOwner /\ \A q \in Proc : Loops(q) /\ Apart(q)
  BY DEF Placed
<1>3. /\ \A q \in Proc : q # p => /\ drop'[q] = drop[q] /\ owned'[q] = owned[q] /\ pc'[q] = pc[q]
      /\ pc'[p] = "free" /\ drop'[p] = area /\ owned'[p] = owned[p] \ {area}
  BY <1>1, <1>2 DEF PoolTypes
<1>4. area \subseteq Page
  BY <1>2 DEF PoolTypes
<1>5. PoolTypes'
  <2>1. owned[p] \ {area} \in SUBSET (SUBSET Page)
    BY <1>2 DEF PoolTypes
  <2>2. owned' \in [Proc -> SUBSET (SUBSET Page)]
    BY <1>1, <1>2, <2>1 DEF PoolTypes
  <2>3. drop' \in [Proc -> SUBSET Page]
    BY <1>1, <1>2, <1>4 DEF PoolTypes
  <2> QED BY <1>1, <1>2, <2>2, <2>3 DEF PoolTypes
<1>6. got[p] = {} /\ drop[p] = {}
  BY <1>1, <1>2 DEF Loops
<1>7. \A q \in Proc : Mine(q)' = Mine(q)
  <2>1. UNION owned[p] = area \union UNION owned'[p]
    BY <1>3
  <2>2. Mine(p)' = Mine(p)
    BY <1>1, <1>3, <1>6, <2>1 DEF Mine
  <2> QED BY <1>1, <1>3, <2>2 DEF Mine
<1>8. OneOwner'
  BY <1>1, <1>2, <1>7 DEF OneOwner
<1>9. ASSUME NEW q \in Proc PROVE Loops(q)' /\ Apart(q)'
  <2>1. CASE q # p
    BY <1>1, <1>2, <1>3, <2>1 DEF Loops, Apart
  <2>2. CASE q = p
    <3>1. Loops(p)'
      BY <1>1, <1>2, <1>3, <1>6 DEF Loops
    <3>2. Apart(p)'
      BY <1>1, <1>2, <1>3, <1>6 DEF Apart
    <3> QED BY <2>2, <3>1, <3>2
  <2> QED BY <2>1, <2>2
<1> QED BY <1>5, <1>8, <1>9 DEF Placed

\* A page moves from free_pages to the list; its kassert holds.
LEMMA FreeOneKeepsPages ==
    ASSUME Placed, NEW p \in Proc, NEW page \in drop[p], FreeOne(p, page)
    PROVE  /\ Placed' /\ ~InSeq(page, free)
           /\ Len(free') = Len(free) + 1
           /\ \A q \in Proc : q # p => pc'[q] = pc[q]
           /\ pc[p] = "free" /\ pc'[p] \in {"user", "free"}
<1>1. /\ pc[p] = "free"
      /\ pc' = [pc EXCEPT ![p] = IF drop[p] = {page} THEN "user" ELSE "free"]
      /\ drop' = [drop EXCEPT ![p] = @ \ {page}]
      /\ free' = Insert(free, page)
      /\ owned' = owned /\ todo' = todo /\ got' = got
  BY DEF FreeOne, Runs
<1>2. PoolTypes /\ OneOwner /\ \A q \in Proc : Loops(q) /\ Apart(q)
  BY DEF Placed
<1>3. page \in Page /\ page \in Mine(p) /\ free \in Seq(Page)
  BY <1>2 DEF PoolTypes, Mine
<1>4. ~InSeq(page, free)
  BY <1>2, <1>3 DEF OneOwner
<1>5. /\ free' \in Seq(Page) /\ Injective(free') /\ Len(free') = Len(free) + 1
      /\ \A x \in Page : InSeq(x, free') <=> InSeq(x, free) \/ x = page
  BY <1>1, <1>2, <1>3, <1>4, InsertList DEF OneOwner
<1>6. /\ \A q \in Proc : q # p => drop'[q] = drop[q] /\ pc'[q] = pc[q]
      /\ drop'[p] = drop[p] \ {page}
      /\ pc'[p] = IF drop[p] = {page} THEN "user" ELSE "free"
  BY <1>1, <1>2 DEF PoolTypes
<1>7. PoolTypes'
  <2>1. drop[p] \ {page} \in SUBSET Page
    BY <1>2 DEF PoolTypes
  <2>2. drop' \in [Proc -> SUBSET Page]
    BY <1>1, <1>2, <2>1 DEF PoolTypes
  <2> QED BY <1>1, <1>2, <1>5, <2>2 DEF PoolTypes
<1>8. got[p] = {} /\ \A a \in owned[p] : page \notin a
  BY <1>1, <1>2 DEF Loops, Apart
<1>9. Mine(p)' = Mine(p) \ {page}
  BY <1>1, <1>6, <1>8 DEF Mine
<1>10. \A q \in Proc : q # p => Mine(q)' = Mine(q) /\ page \notin Mine(q)
  BY <1>1, <1>2, <1>3, <1>6 DEF Mine, OneOwner
<1>11. OneOwner'
  <2>1. \A x \in Page : InSeq(x, free') <=> \A q \in Proc : x \notin Mine(q)'
    BY <1>2, <1>3, <1>5, <1>9, <1>10 DEF OneOwner
  <2>2. \A q, r \in Proc : \A x \in Page : x \in Mine(q)' /\ x \in Mine(r)' => q = r
    BY <1>2, <1>9, <1>10 DEF OneOwner
  <2> QED BY <1>5, <2>1, <2>2 DEF OneOwner
<1>12. ASSUME NEW q \in Proc PROVE Loops(q)' /\ Apart(q)'
  <2>1. CASE q # p
    BY <1>1, <1>2, <1>6, <2>1 DEF Loops, Apart
  <2>2. CASE q = p
    <3>1. Loops(p)'
      BY <1>1, <1>2, <1>6 DEF Loops
    <3>2. Apart(p)'
      BY <1>1, <1>2, <1>6 DEF Apart
    <3> QED BY <2>2, <3>1, <3>2
  <2> QED BY <2>1, <2>2
<1> QED BY <1>1, <1>4, <1>5, <1>6, <1>7, <1>11, <1>12 DEF Placed

\* A call of get_pages and the wait in it move no page.
LEMMA PointsKeepPages ==
    ASSUME Placed, NEW p \in Proc,
           \/ /\ pc[p] = "user" /\ pc' = [pc EXCEPT ![p] = "get"]
              /\ \E n \in Nat : n > 0 /\ todo' = [todo EXCEPT ![p] = n]
           \/ pc[p] = "get" /\ pc' = [pc EXCEPT ![p] = "down"] /\ todo' = todo,
           UNCHANGED <<free, got, drop, owned>>
    PROVE  Placed'
<1>1. PoolTypes /\ OneOwner /\ \A q \in Proc : Loops(q) /\ Apart(q)
  BY DEF Placed
<1>2. free' = free /\ got' = got /\ drop' = drop /\ owned' = owned
  OBVIOUS
<1>3. PoolTypes'
  BY <1>1, <1>2 DEF PoolTypes
<1>4. OneOwner' /\ \A q \in Proc : Apart(q)'
  BY <1>1, <1>2 DEF OneOwner, Mine, Apart
<1>5. ASSUME NEW q \in Proc PROVE Loops(q)'
  <2>1. CASE q # p
    <3>1. pc'[q] = pc[q] /\ todo'[q] = todo[q]
      BY <1>1, <2>1 DEF PoolTypes
    <3> QED BY <1>1, <1>2, <3>1 DEF Loops
  <2>2. CASE q = p
    <3>1. pc'[p] \in {"get", "down"} /\ todo'[p] > 0
      BY <1>1 DEF PoolTypes, Loops
    <3>2. drop[p] = {}
      BY <1>1 DEF Loops
    <3> QED BY <1>2, <2>2, <3>1, <3>2 DEF Loops
  <2> QED BY <2>1, <2>2
<1> QED BY <1>3, <1>4, <1>5 DEF Placed

-----------------------------------------------------------------------------
(***************************************************************************)
(* The semaphore that counts them.                                         *)
(***************************************************************************)

\* An assertion that holds changes nothing.
LEMMA AssertHolds ==
    ASSUME NEW t, Sound(t), NEW c, c
    PROVE  [t EXCEPT !.k = kassert(@, c)] = t
<1>1. t \in Semaphores /\ t.k \in KernelState /\ t.k.panic = FALSE
  BY SoundRuns
<1>2. kassert(t.k, c) = [t.k EXCEPT !.panic = FALSE]
  BY <1>1 DEF kassert
<1>3. [t.k EXCEPT !.panic = FALSE] = t.k
  <2> DEFINE k == t.k
  <2>1. k \in KernelState /\ k.panic = FALSE
    BY <1>1
  <2> HIDE DEF k
  <2>2. [k EXCEPT !.panic = FALSE] = k
    BY <2>1 DEF KernelState
  <2> QED BY <2>2 DEF k
<1>4. [t EXCEPT !.k = t.k] = t
  BY <1>1 DEF Semaphores
<1> QED BY <1>2, <1>3, <1>4, Zenon

\* The sum of ones is the number of them.
LEMMA TotalOnes ==
    ASSUME NEW S, IsFiniteSet(S), NEW f, \A x \in S : f[x] = 1
    PROVE  Total(f, S) = Cardinality(S)
<1> DEFINE F == {U \in SUBSET S : Total(f, U) # Cardinality(U)}
<1>1. ASSUME F # {} PROVE FALSE
  <2>1. PICK U \in F : \A x \in U : U \ {x} \notin F
    <3>1. F \subseteq SUBSET S
      OBVIOUS
    <3> HIDE DEF F
    <3> QED BY <1>1, <3>1, Smallest
  <2>2. U \subseteq S /\ IsFiniteSet(U) /\ Total(f, U) # Cardinality(U)
    BY FS_Subset
  <2>3. U # {}
    BY <2>2, TotalEmpty, FS_EmptySet
  <2>4. PICK x \in U : TRUE
    BY <2>3
  <2>5. \A y \in U : f[y] = 1
    BY <2>2
  <2>6. \A y \in U : f[y] \in Nat
    BY <2>5
  <2>7. Total(f, U) = f[x] + Total(f, U \ {x})
    BY <2>2, <2>6, TotalRemove
  <2>8. Total(f, U \ {x}) = Cardinality(U \ {x})
    BY <2>1, <2>2
  <2>9. Cardinality(U \ {x}) = Cardinality(U) - 1 /\ Cardinality(U) \in Nat
    BY <2>2, FS_RemoveElement, FS_CardinalityType
  <2> QED BY <2>2, <2>5, <2>7, <2>8, <2>9
<1> QED BY <1>1

\* What the steps take from the invariant.
LEMMA InvFacts ==
    ASSUME PoolInv
    PROVE  /\ Sound(s) /\ NodesExact /\ NothingIdle /\ PoolCounted /\ Placed
           /\ s \in Semaphores /\ s.surplus \in Nat /\ s.list \in Seq(Proc) /\ s.node \in [Proc -> Nat]
           /\ s.k.cur \in Proc /\ ~InSeq(s.k.cur, s.list) /\ s.node[s.k.cur] = 0
           /\ free \in Seq(Page) /\ Len(free) \in Nat
           /\ pc \in [Proc -> {"user", "get", "down", "free"}]
<1>1. Sound(s) /\ NodesExact /\ NothingIdle /\ PoolCounted /\ Placed
  BY DEF PoolInv
<1>2. /\ s \in Semaphores /\ s.surplus \in Nat /\ s.list \in Seq(Proc) /\ s.node \in [Proc -> Nat]
      /\ s.k.cur \in Proc /\ ~InSeq(s.k.cur, s.list)
  BY <1>1, SoundRuns
<1>3. s.node[s.k.cur] = 0
  BY <1>1, <1>2 DEF NodesExact
<1>4. free \in Seq(Page) /\ pc \in [Proc -> {"user", "get", "down", "free"}]
  BY <1>1 DEF Placed, PoolTypes
<1>5. Len(free) \in Nat
  BY <1>4
<1> QED BY <1>1, <1>2, <1>3, <1>4, <1>5

\* Steps that change neither list nor demands keep the pool counted when they count
\* what they take.
LEMMA CountKept ==
    ASSUME PoolInv, Sound(s'), s'.list = s.list, s'.node = s.node,
           \A q \in Proc : InSeq(q, s.list) => pc'[q] = "down",
           \A q \in Proc : pc'[q] # "user" => q \in Users,
           s'.surplus <= s.surplus,
           Len(free') = s'.surplus + Cardinality(Promised'),
           Placed'
    PROVE  PoolInv'
<1>1. NodesExact'
  BY InvFacts DEF NodesExact
<1>2. s'.surplus \in Nat
  BY SoundRuns
<1>3. NothingIdle'
  BY <1>2, InvFacts DEF NothingIdle
<1> QED BY <1>1, <1>3 DEF PoolInv, PoolCounted

LEMMA TimerStep == PoolInv /\ Timer => PoolInv'
<1> SUFFICES ASSUME PoolInv, Timer PROVE PoolInv'
  OBVIOUS
<1>1. /\ s' = [s EXCEPT !.k = do_timer(@)]
      /\ UNCHANGED <<free, pc, todo, got, drop, owned>>
  BY DEF Timer
<1>2. Sound(s') /\ s'.surplus = s.surplus /\ s'.list = s.list /\ s'.node = s.node
  BY <1>1, InvFacts, SoundTick
<1>3. Placed'
  BY <1>1, InvFacts DEF Placed, PoolTypes, OneOwner, Loops, Apart, Mine
<1>4. NodesExact' /\ NothingIdle'
  BY <1>1, <1>2, InvFacts DEF NodesExact, NothingIdle
<1>5. Promised' = Promised
  BY <1>1, <1>2 DEF Promised
<1>6. PoolCounted'
  BY <1>1, <1>2, <1>5, InvFacts DEF PoolCounted
<1> QED BY <1>2, <1>3, <1>4, <1>6 DEF PoolInv

LEMMA GetPagesStep ==
    ASSUME PoolInv, NEW p \in Users, NEW n \in Sizes, GetPages(p, n)
    PROVE  PoolInv'
<1>1. /\ pc[p] = "user" /\ pc' = [pc EXCEPT ![p] = "get"] /\ todo' = [todo EXCEPT ![p] = n]
      /\ s' = s /\ free' = free /\ got' = got /\ drop' = drop /\ owned' = owned
  BY DEF GetPages, Runs
<1>2. p \in Proc /\ n \in Nat /\ n > 0
  BY PromisedFinite, PoolAssumption
<1>3. Placed'
  BY <1>1, <1>2, InvFacts, PointsKeepPages
<1>4. \A q \in Proc : pc'[q] = IF q = p THEN "get" ELSE pc[q]
  BY <1>1, InvFacts
<1>5. NodesExact' /\ NothingIdle'
  BY <1>1, <1>2, <1>4, InvFacts DEF NodesExact, NothingIdle
<1>6. Promised' = Promised
  BY <1>1, <1>2, <1>4, PromisedFinite DEF Promised
<1>7. PoolCounted'
  BY <1>1, <1>6, InvFacts DEF PoolCounted
<1> QED BY <1>1, <1>3, <1>5, <1>7, InvFacts DEF PoolInv

\* A page is there and counted.
LEMMA GetNowStep ==
    ASSUME PoolInv, NEW p \in Users, GetNow(p)
    PROVE  PoolInv'
<1>1. /\ pc[p] = "get" /\ s.surplus >= 1 /\ s.list = <<>>
      /\ s' = [s EXCEPT !.surplus = @ - 1, !.k = kassert(@, free # <<>>)]
      /\ TakeHead(p) /\ drop' = drop
  BY DEF GetNow, Runs, Available
<1>2. p \in Proc
  BY PromisedFinite
<1>3. Len(free) = s.surplus + Cardinality(Promised) /\ Len(free) \in Nat /\ s.surplus \in Nat
  BY InvFacts DEF PoolCounted
<1>4. free # <<>>
  <2>1. Len(free) >= 1
    BY <1>1, <1>3, PromisedFinite
  <2> QED BY <2>1
<1>5. /\ Placed' /\ Len(free') = Len(free) - 1
      /\ (\A q \in Proc : q # p => pc'[q] = pc[q]) /\ pc'[p] \in {"user", "get"}
  BY <1>1, <1>2, <1>4, InvFacts, TakeKeepsPages
<1>6. s' = [s EXCEPT !.surplus = s.surplus - 1]
  <2>1. s' = [[s EXCEPT !.k = kassert(@, free # <<>>)] EXCEPT !.surplus = s.surplus - 1]
    BY <1>1, InvFacts DEF Semaphores
  <2>2. [s EXCEPT !.k = kassert(@, free # <<>>)] = s
    BY <1>4, InvFacts, AssertHolds
  <2> QED BY <2>1, <2>2, Zenon
<1>7. /\ s' \in Semaphores /\ s'.k = s.k /\ s'.list = s.list /\ s'.node = s.node
      /\ s'.surplus = s.surplus - 1
  <2>1. s.surplus - 1 \in Nat
    BY <1>1, <1>3
  <2> QED BY <1>6, <2>1, InvFacts DEF Semaphores
<1>8. Sound(s')
  BY <1>7, InvFacts DEF Sound
<1>9. Promised' = Promised
  BY <1>1, <1>2, <1>5, <1>7, PromisedFinite DEF Promised
<1>10. Len(free') = s'.surplus + Cardinality(Promised')
  <2>1. Len(free') = s'.surplus + Cardinality(Promised)
    BY <1>3, <1>5, <1>7, PromisedFinite
  <2> QED BY <1>9, <2>1
<1>11. \A q \in Proc : InSeq(q, s.list) => pc'[q] = "down"
  BY <1>1, <1>2, <1>5, InvFacts DEF NodesExact
<1>12. \A q \in Proc : pc'[q] # "user" => q \in Users
  BY <1>5, InvFacts DEF NodesExact
<1>13. s'.surplus <= s.surplus
  BY <1>3, <1>7
<1> QED BY <1>5, <1>7, <1>8, <1>10, <1>11, <1>12, <1>13, CountKept

\* A page that was promised to the process is there, whatever happened since.
LEMMA GetResumeStep ==
    ASSUME PoolInv, NEW p \in Users, GetResume(p)
    PROVE  PoolInv'
<1>1. /\ s.k.cur = p /\ pc[p] = "down"
      /\ s' = [s EXCEPT !.k = kassert(@, free # <<>>)]
      /\ TakeHead(p) /\ drop' = drop
  BY DEF GetResume, Runs
<1>2. p \in Proc
  BY PromisedFinite
<1>3. Len(free) = s.surplus + Cardinality(Promised) /\ Len(free) \in Nat /\ s.surplus \in Nat
  BY InvFacts DEF PoolCounted
<1>4. p \in Promised
  BY <1>1, InvFacts DEF Promised
<1>5. Cardinality(Promised \ {p}) = Cardinality(Promised) - 1 /\ Cardinality(Promised \ {p}) \in Nat
  BY <1>4, PromisedFinite, FS_RemoveElement, FS_CardinalityType
<1>6. free # <<>>
  <2>1. Len(free) >= 1
    BY <1>3, <1>5, PromisedFinite
  <2> QED BY <2>1
<1>7. s' = s
  BY <1>1, <1>6, InvFacts, AssertHolds
<1>8. /\ Placed' /\ Len(free') = Len(free) - 1
      /\ (\A q \in Proc : q # p => pc'[q] = pc[q]) /\ pc'[p] \in {"user", "get"}
  BY <1>1, <1>2, <1>6, InvFacts, TakeKeepsPages
<1>9. Promised' = Promised \ {p}
  BY <1>2, <1>7, <1>8, PromisedFinite DEF Promised
<1>10. Len(free') = s'.surplus + Cardinality(Promised')
  <2>1. Len(free') = s.surplus + Cardinality(Promised \ {p})
    BY <1>3, <1>5, <1>8, PromisedFinite
  <2> QED BY <1>7, <1>9, <2>1
<1>11. \A q \in Proc : InSeq(q, s.list) => pc'[q] = "down"
  BY <1>1, <1>8, InvFacts DEF NodesExact
<1>12. \A q \in Proc : pc'[q] # "user" => q \in Users
  BY <1>8, InvFacts DEF NodesExact
<1>13. Sound(s') /\ s'.surplus <= s.surplus
  BY <1>3, <1>7, InvFacts
<1> QED BY <1>7, <1>8, <1>10, <1>11, <1>12, <1>13, CountKept

LEMMA GetWaitStep ==
    ASSUME PoolInv, P1 \notin Users, NEW p \in Users, GetWait(p)
    PROVE  PoolInv'
<1>1. /\ s.k.cur = p /\ pc[p] = "get" /\ ~(s.surplus >= 1 /\ s.list = <<>>)
      /\ s' = JoinSemaphore(s, p, 1, 0)
      /\ pc' = [pc EXCEPT ![p] = "down"]
      /\ free' = free /\ todo' = todo /\ got' = got /\ drop' = drop /\ owned' = owned
  BY DEF GetWait, Runs, Available
<1>2. p \in Proc /\ p # P1
  BY PromisedFinite
<1>3. /\ Sound(s') /\ s'.surplus = s.surplus /\ s'.list = Append(s.list, p)
      /\ s'.node = [s.node EXCEPT ![p] = 1]
  <2>1. s.k.cur # P1 /\ s' = JoinSemaphore(s, s.k.cur, 1, 0)
    BY <1>1, <1>2
  <2>2. Sound(s) /\ 1 \in Nat /\ 1 > 0
    BY InvFacts
  <2>3. /\ Sound(s') /\ s'.surplus = s.surplus /\ s'.list = Append(s.list, s.k.cur)
        /\ s'.node = [s.node EXCEPT ![s.k.cur] = 1]
    BY <2>1, <2>2, SoundJoin
  <2> QED BY <1>1, <2>3
<1>4. Placed'
  BY <1>1, <1>2, InvFacts, PointsKeepPages
<1>5. \A q \in Proc : InSeq(q, s'.list) <=> InSeq(q, s.list) \/ q = p
  <2>1. Injective(s.list)
    BY InvFacts, SoundRuns
  <2>2. \A q \in Proc : InSeq(q, Append(s.list, p)) <=> InSeq(q, s.list) \/ q = p
    BY <1>1, <1>2, <2>1, InvFacts, AppendList
  <2> QED BY <1>3, <2>2
<1>6. \A q \in Proc : /\ pc'[q] = IF q = p THEN "down" ELSE pc[q]
                      /\ s'.node[q] = IF q = p THEN 1 ELSE s.node[q]
  BY <1>1, <1>3, InvFacts
<1>7. NodesExact'
  BY <1>1, <1>5, <1>6, InvFacts DEF NodesExact
<1>8. NothingIdle'
  <2>1. s.surplus = 0
    BY <1>1, InvFacts DEF NothingIdle
  <2> QED BY <1>3, <2>1 DEF NothingIdle
<1>9. Promised' = Promised
  BY <1>1, <1>2, <1>6, PromisedFinite DEF Promised
<1>10. PoolCounted'
  BY <1>1, <1>3, <1>9, InvFacts DEF PoolCounted
<1> QED BY <1>3, <1>4, <1>7, <1>8, <1>10 DEF PoolInv

LEMMA FreePagesStep ==
    ASSUME PoolInv, NEW p \in Users, NEW area \in owned[p], FreePages(p, area)
    PROVE  PoolInv'
<1>1. pc[p] = "user" /\ pc' = [pc EXCEPT ![p] = "free"] /\ s' = s /\ free' = free
  BY DEF FreePages, Runs
<1>2. p \in Proc
  BY PromisedFinite
<1>3. Placed'
  BY <1>2, InvFacts, FreePagesKeepsPages
<1>4. \A q \in Proc : pc'[q] = IF q = p THEN "free" ELSE pc[q]
  BY <1>1, InvFacts
<1>5. NodesExact' /\ NothingIdle'
  BY <1>1, <1>2, <1>4, InvFacts DEF NodesExact, NothingIdle
<1>6. Promised' = Promised
  BY <1>1, <1>2, <1>4, PromisedFinite DEF Promised
<1>7. PoolCounted'
  BY <1>1, <1>6, InvFacts DEF PoolCounted
<1> QED BY <1>1, <1>3, <1>5, <1>7, InvFacts DEF PoolInv

\* A freed page goes to the first waiter, or to the surplus when nobody waits.
LEMMA FreeOneStep ==
    ASSUME PoolInv, NEW p \in Users, NEW page \in drop[p], FreeOne(p, page)
    PROVE  PoolInv'
<1>1. p \in Proc
  BY PromisedFinite
<1>2. /\ Placed' /\ ~InSeq(page, free) /\ Len(free') = Len(free) + 1
      /\ \A q \in Proc : q # p => pc'[q] = pc[q]
      /\ pc[p] = "free" /\ pc'[p] \in {"user", "free"}
  BY <1>1, InvFacts, FreeOneKeepsPages
<1>3. s' = ksemaphore_up(s, 1)
  <2>1. s' = ksemaphore_up([s EXCEPT !.k = kassert(@, ~InSeq(page, free))], 1)
    BY DEF FreeOne
  <2>2. [s EXCEPT !.k = kassert(@, ~InSeq(page, free))] = s
    BY <1>2, InvFacts, AssertHolds
  <2> QED BY <2>1, <2>2, Zenon
<1>4. PICK m \in 0..Len(s.list) : Serves(s, 1, m, s') /\ Unserved(s')
  BY <1>3, InvFacts, UpServes
<1> DEFINE D == FirstOf(s.list, m)
<1>5. /\ Sound(s') /\ s'.list = After(s.list, m)
      /\ s'.node = [q \in Proc |-> IF q \in D THEN 0 ELSE s.node[q]]
      /\ s'.surplus + Total(s.node, D) = s.surplus + 1
  BY <1>4 DEF Serves
<1>6. /\ D \subseteq Proc /\ IsFiniteSet(D)
      /\ \A q \in Proc : InSeq(q, s.list) <=> q \in D \/ InSeq(q, s'.list)
  <2>1. s.list \in Seq(Proc) /\ Injective(s.list)
    BY InvFacts, SoundRuns
  <2> QED BY <1>5, <2>1, FirstOfList
<1> HIDE DEF D
<1>7. \A q \in D : /\ q \in Proc /\ s.node[q] = 1 /\ s'.node[q] = 0 /\ ~InSeq(q, s'.list)
                   /\ pc[q] = "down" /\ q \in Users /\ q # p
  <2> SUFFICES ASSUME NEW q \in D
               PROVE  /\ q \in Proc /\ s.node[q] = 1 /\ s'.node[q] = 0 /\ ~InSeq(q, s'.list)
                      /\ pc[q] = "down" /\ q \in Users /\ q # p
    OBVIOUS
  <2>1. q \in Proc /\ InSeq(q, s.list) /\ s'.node[q] = 0
    BY <1>5, <1>6
  <2>2. s.node[q] = 1 /\ pc[q] = "down" /\ q \in Users
    BY <2>1, InvFacts DEF NodesExact
  <2>3. ~InSeq(q, s'.list)
    BY <1>5, <2>1 DEF Sound
  <2> QED BY <1>2, <2>1, <2>2, <2>3
<1>8. \A q \in Proc \ D : s'.node[q] = s.node[q] /\ (InSeq(q, s'.list) <=> InSeq(q, s.list))
  BY <1>5, <1>6
<1>9. NodesExact'
  <2>1. ASSUME NEW q \in Proc
        PROVE  /\ s'.node[q] = IF InSeq(q, s'.list) THEN 1 ELSE 0
               /\ InSeq(q, s'.list) => pc'[q] = "down"
               /\ pc'[q] # "user" => q \in Users
    <3>1. CASE q \in D
      BY <1>2, <1>7, <3>1
    <3>2. CASE q \notin D
      BY <1>2, <1>8, <3>2, InvFacts DEF NodesExact
    <3> QED BY <3>1, <3>2
  <2> QED BY <2>1 DEF NodesExact
<1>10. s'.surplus \in Nat /\ s'.list \in Seq(Proc)
  BY <1>5, SoundRuns
<1>11. NothingIdle'
  <2> SUFFICES ASSUME s'.list # <<>> PROVE s'.surplus = 0
    BY DEF NothingIdle
  <2> DEFINE q == Head(s'.list)
  <2>1. q \in Proc /\ InSeq(q, s'.list)
    BY <1>5, <1>10, TailList DEF Sound
  <2>2. s'.node[q] > s'.surplus
    BY <1>4 DEF Unserved
  <2> HIDE DEF q
  <2>3. s'.node[q] = 1
    BY <1>9, <2>1 DEF NodesExact
  <2> QED BY <1>10, <2>2, <2>3
<1>12. Promised' = Promised \union D /\ Promised \intersect D = {}
  <2>1. Promised \intersect D = {}
    BY <1>7 DEF Promised
  <2>2. \A q \in Users : q \in Promised' <=> q \in Promised \/ q \in D
    BY <1>2, <1>7, <1>8, PromisedFinite DEF Promised
  <2>3. Promised' \subseteq Users /\ Promised \union D \subseteq Users
    BY <1>7 DEF Promised
  <2> QED BY <2>1, <2>2, <2>3
<1>13. Cardinality(Promised \union D) = Cardinality(Promised) + Cardinality(D)
       /\ Cardinality(D) \in Nat
  <2>1. Cardinality(Promised \union D)
            = Cardinality(Promised) + Cardinality(D) - Cardinality(Promised \intersect D)
    BY <1>6, PromisedFinite, FS_Union
  <2>2. Cardinality(Promised \intersect D) = 0
    BY <1>12, FS_EmptySet
  <2>3. Cardinality(Promised) \in Nat /\ Cardinality(D) \in Nat
    BY <1>6, PromisedFinite, FS_CardinalityType
  <2> QED BY <2>1, <2>2, <2>3
<1>14. Total(s.node, D) = Cardinality(D)
  BY <1>6, <1>7, TotalOnes
<1>15. PoolCounted'
  <2>1. Len(free) = s.surplus + Cardinality(Promised) /\ s.surplus \in Nat
        /\ Cardinality(Promised) \in Nat
    BY InvFacts, PromisedFinite DEF PoolCounted
  <2>2. Len(free') = s'.surplus + Cardinality(Promised \union D)
    <3> DEFINE c0 == Cardinality(Promised)
               c1 == Cardinality(Promised \union D)
               d  == Cardinality(D)
               l0 == Len(free)
               l1 == Len(free')
               a0 == s.surplus
               a1 == s'.surplus
    <3>1. l1 = l0 + 1 /\ l0 = a0 + c0 /\ c1 = c0 + d /\ a1 + d = a0 + 1
      BY <1>2, <1>5, <1>13, <1>14, <2>1
    <3>2. a0 \in Nat /\ a1 \in Nat /\ c0 \in Nat /\ d \in Nat
      BY <1>10, <1>13, <2>1
    <3> HIDE DEF c0, c1, d, l0, l1, a0, a1
    <3>3. l1 = a1 + c1
      BY <3>1, <3>2
    <3> QED BY <3>3 DEF l1, a1, c1
  <2> QED BY <1>12, <2>2 DEF PoolCounted
<1> QED BY <1>2, <1>5, <1>9, <1>11, <1>15 DEF PoolInv

-----------------------------------------------------------------------------
(***************************************************************************)
(* The theorems.                                                           *)
(***************************************************************************)

\* The list init_mem_desc builds: every page, once.
LEMMA FreeAtFirst ==
    ASSUME NEW f, f = CHOOSE g \in [1..Cardinality(Page) -> Page] : Injective(g)
    PROVE  /\ f \in Seq(Page) /\ Injective(f) /\ Len(f) = Cardinality(Page)
           /\ \A x \in Page : InSeq(x, f)
<1> DEFINE n == Cardinality(Page)
<1>1. n \in Nat /\ ExistsBijection(1..n, Page) /\ IsFiniteSet(Page)
  BY PoolAssumption, FS_CardinalityType
<1>2. PICK b \in Bijection(1..n, Page) : TRUE
  BY <1>1 DEF ExistsBijection
<1>3. b \in [1..n -> Page] /\ Injective(b)
  BY <1>2 DEF Bijection, Injection, IsInjective, Injective
<1>4. f \in [1..n -> Page] /\ Injective(f)
  BY <1>3
<1>5. Cardinality(1..n) = n
  <2>1. Cardinality(1..n) = IF 1 > n THEN 0 ELSE n - 1 + 1
    BY <1>1, FS_Interval
  <2> HIDE DEF n
  <2> QED BY <2>1, <1>1
<1> HIDE DEF n
<1>6. f \in Injection(1..n, Page)
  BY <1>4 DEF Injection, IsInjective, Injective
<1>7. f \in Surjection(1..n, Page)
  BY <1>1, <1>5, <1>6, FS_Injection DEF n
<1>8. \A x \in Page : \E i \in 1..n : f[i] = x
  BY <1>7 DEF Surjection
<1>9. f \in Seq(Page) /\ Len(f) = n /\ DOMAIN f = 1..n
  BY <1>1, <1>4
<1> QED BY <1>4, <1>8, <1>9 DEF InSeq, n

LEMMA InitInv == Init => PoolInv
<1> SUFFICES ASSUME Init PROVE PoolInv
  OBVIOUS
<1>1. PICK order \in Orders : s = [k       |-> ForkedState(order),
                                   surplus |-> Cardinality(Page),
                                   list    |-> <<>>,
                                   node    |-> [p \in Proc |-> 0]]
  BY DEF Init
<1>2. /\ pc = [p \in Proc |-> "user"] /\ todo = [p \in Proc |-> 0]
      /\ got = [p \in Proc |-> {}] /\ drop = [p \in Proc |-> {}] /\ owned = [p \in Proc |-> {}]
  BY DEF Init
<1>3. /\ free \in Seq(Page) /\ Injective(free) /\ Len(free) = Cardinality(Page)
      /\ \A x \in Page : InSeq(x, free)
  <2>1. free = CHOOSE g \in [1..Cardinality(Page) -> Page] : Injective(g)
    BY DEF Init
  <2> QED BY <2>1, FreeAtFirst
<1>4. /\ s.k = ForkedState(order) /\ s.surplus = Cardinality(Page) /\ s.list = <<>>
      /\ s.node = [p \in Proc |-> 0]
      /\ s = [k |-> s.k, surplus |-> s.surplus, list |-> s.list, node |-> s.node]
  <2> HIDE DEF ForkedState
  <2> QED BY <1>1
<1>5. Untimed(s.k) /\ \A p \in Proc : s.k.state[p] = "RUNNING"
  BY <1>4, UntimedAtFirst
<1>6. s.k \in KernelState
  BY <1>5, UntimedWaiters
<1>7. s \in Semaphores
  <2>1. s.surplus \in Nat /\ s.list \in Seq(Proc) /\ s.node \in [Proc -> Nat]
    BY <1>4, PoolAssumption, FS_CardinalityType
  <2>2. s = [k |-> s.k, surplus |-> s.surplus, list |-> s.list, node |-> s.node]
    BY <1>4
  <2> QED BY <1>6, <2>1, <2>2 DEF Semaphores
<1>8. \A p \in Proc : ~InSeq(p, s.list) /\ s.node[p] = 0
  BY <1>4 DEF InSeq
<1>9. Sound(s)
  <2>1. Injective(s.list)
    BY <1>4 DEF Injective
  <2> QED BY <1>5, <1>7, <1>8, <2>1 DEF Sound
<1>10. NodesExact /\ NothingIdle
  BY <1>2, <1>4, <1>8 DEF NodesExact, NothingIdle
<1>11. PoolCounted
  <2>1. Promised = {}
    BY <1>2, PromisedFinite DEF Promised
  <2>2. Cardinality(Promised) = 0
    BY <2>1, FS_EmptySet
  <2>3. Cardinality(Page) \in Nat
    BY PoolAssumption, FS_CardinalityType
  <2> QED BY <1>3, <1>4, <2>2, <2>3 DEF PoolCounted
<1>12. Placed
  <2>1. PoolTypes
    BY <1>2, <1>3 DEF PoolTypes
  <2>2. \A p \in Proc : Mine(p) = {}
    BY <1>2 DEF Mine
  <2>3. OneOwner
    BY <1>3, <2>2 DEF OneOwner
  <2>4. \A p \in Proc : Loops(p) /\ Apart(p)
    BY <1>2 DEF Loops, Apart
  <2> QED BY <2>1, <2>3, <2>4 DEF Placed
<1> QED BY <1>9, <1>10, <1>11, <1>12 DEF PoolInv

LEMMA StepInv ==
    ASSUME P1 \notin Users
    PROVE  PoolInv /\ [Next]_vars => PoolInv'
<1> SUFFICES ASSUME PoolInv, [Next]_vars PROVE PoolInv'
  OBVIOUS
<1>1. CASE UNCHANGED vars
  <2>1. /\ s' = s /\ free' = free /\ pc' = pc /\ todo' = todo
        /\ got' = got /\ drop' = drop /\ owned' = owned
    BY <1>1 DEF vars
  <2>2. Placed'
    BY <2>1, InvFacts DEF Placed, PoolTypes, OneOwner, Loops, Apart, Mine
  <2>3. Promised' = Promised
    BY <2>1 DEF Promised
  <2>4. PoolCounted'
    BY <2>1, <2>3, InvFacts DEF PoolCounted
  <2> QED BY <2>1, <2>2, <2>4, InvFacts DEF PoolInv, NodesExact, NothingIdle
<1>2. CASE Timer
  BY <1>2, TimerStep
<1>3. ASSUME NEW p \in Users, NEW n \in Sizes, GetPages(p, n) PROVE PoolInv'
  BY <1>3, GetPagesStep
<1>4. ASSUME NEW p \in Users, GetNow(p) PROVE PoolInv'
  BY <1>4, GetNowStep
<1>5. ASSUME NEW p \in Users, GetWait(p) PROVE PoolInv'
  BY <1>5, GetWaitStep
<1>6. ASSUME NEW p \in Users, GetResume(p) PROVE PoolInv'
  BY <1>6, GetResumeStep
<1>7. ASSUME NEW p \in Users, NEW area \in owned[p], FreePages(p, area) PROVE PoolInv'
  BY <1>7, FreePagesStep
<1>8. ASSUME NEW p \in Users, NEW page \in drop[p], FreeOne(p, page) PROVE PoolInv'
  BY <1>8, FreeOneStep
<1> QED BY <1>1, <1>2, <1>3, <1>4, <1>5, <1>6, <1>7, <1>8 DEF Next

\* PoolInv, the conjunction the properties below are read off, always holds.
THEOREM PoolInvAlways == P1 \notin Users => (Spec => []PoolInv)
<1> SUFFICES ASSUME P1 \notin Users PROVE Spec => []PoolInv
  OBVIOUS
<1>1. Init => PoolInv
  BY InitInv
<1>2. PoolInv /\ [Next]_vars => PoolInv'
  BY StepInv
<1> QED BY <1>1, <1>2, PTL DEF Spec

LEMMA PoolInvImplies == PoolInv => PoolCounted /\ NoIdlePage /\ PagesExact
<1> SUFFICES ASSUME PoolInv PROVE PoolCounted /\ NoIdlePage /\ PagesExact
  OBVIOUS
<1>1. Sound(s) /\ NodesExact /\ NothingIdle /\ PoolCounted /\ Placed
  BY DEF PoolInv
<1>2. PoolTypes /\ OneOwner /\ \A q \in Proc : Loops(q) /\ Apart(q)
  BY <1>1 DEF Placed
<1>3. NoIdlePage
  BY <1>1, PromisedFinite DEF NothingIdle, PoolCounted, NoIdlePage
<1>4. TypeOK /\ ~s.k.panic
  <2>1. /\ s.k \in KernelState /\ s.k.panic = FALSE /\ s.surplus \in Nat
        /\ s.list \in Seq(Proc)
    BY <1>1, SoundRuns
  <2>2. \A p \in Proc : InSeq(p, s.list) => p \in Users
    BY <1>1 DEF NodesExact
  <2>3. s.list \in Seq(Users)
    BY <2>1, <2>2, SeqOfMembers
  <2> QED BY <1>2, <2>1, <2>3 DEF TypeOK, PoolTypes
<1>5. ASSUME NEW page \in Page, InSeq(page, free), NEW p \in Proc, NEW area \in Areas(p)
      PROVE  page \notin area
  <2>1. page \notin Mine(p)
    BY <1>2, <1>5 DEF OneOwner
  <2> QED BY <2>1 DEF Mine, Areas
<1>6. ASSUME NEW page \in Page, ~InSeq(page, free)
      PROVE  \E p \in Proc : \E area \in Areas(p) :
                /\ page \in area
                /\ \A q \in Proc : \A other \in Areas(q) :
                      page \in other => q = p /\ other = area
  <2>1. PICK p \in Proc : page \in Mine(p)
    BY <1>2, <1>6 DEF OneOwner
  <2>2. PICK area \in Areas(p) : page \in area
    BY <2>1 DEF Mine, Areas
  <2>3. ASSUME NEW q \in Proc, NEW other \in Areas(q), page \in other
        PROVE  q = p /\ other = area
    <3>1. page \in Mine(q)
      BY <2>3 DEF Mine, Areas
    <3>2. q = p
      BY <1>2, <2>1, <3>1 DEF OneOwner
    <3>3. got[p] = {} \/ drop[p] = {}
      BY <1>2 DEF Loops, PoolTypes
    <3>4. other \in owned[p] \union {got[p], drop[p]} /\ area \in owned[p] \union {got[p], drop[p]}
      BY <2>2, <2>3, <3>2 DEF Areas
    <3>5. other = area
      BY <1>2, <2>2, <2>3, <3>3, <3>4 DEF Apart
    <3> QED BY <3>2, <3>5
  <2> QED BY <2>2, <2>3
<1>7. PagesExact
  BY <1>2, <1>4, <1>5, <1>6 DEF PagesExact, OneOwner
<1> QED BY <1>1, <1>3, <1>7

\* mem_semaphore counts the free list: the list is not empty when a down returns,
\* however long the process waited and whoever allocated meanwhile.
THEOREM PoolAlwaysCounted == P1 \notin Users => (Spec => []PoolCounted)
BY PoolInvAlways, PoolInvImplies, PTL

\* Allocations that sleep half way neither share pages nor lose them, and the assertions
\* of getonefreepage and freeonepage hold.
THEOREM PagesAlwaysExact == P1 \notin Users => (Spec => []PagesExact)
BY PoolInvAlways, PoolInvImplies, PTL

\* Nobody waits for a page while one is left that is not promised.
THEOREM NoPageEverIdle == P1 \notin Users => (Spec => []NoIdlePage)
BY PoolInvAlways, PoolInvImplies, PTL
=============================================================================
