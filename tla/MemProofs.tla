----------------------------- MODULE MemProofs ------------------------------
(***************************************************************************)
(* Proofs about Mem, for any number of processes, regions and pages, and   *)
(* however they fault and fork: a table that is written through belongs to *)
(* one process, and counts bound the users of tables and of pages; where   *)
(* the handlers read cr2 in time, no assertion fails; and while no process *)
(* forks that has copied a page, each has a memory of its own.             *)
(***************************************************************************)
EXTENDS MCMem, FiniteSetTheorems, TLAPS

\* Tables and pages are taken in order, and a page not yet taken maps nothing.
InUse ==
    /\ \A p \in Proc : \A r \in Region : cat[p][r].at <= next
    /\ \A t \in Phys : \A i \in Page : pte[t][i].at <= next
    /\ \A t \in Phys : t > next => \A i \in Page : pte[t][i].at = 0

\* A table serves the same region in every process.
Apart ==
    \A p, q \in Proc : \A r, x \in Region :
        cat[p][r].at = cat[q][x].at /\ cat[p][r].at # 0 => r = x

\* A table that an entry lets its process write is in no other catalog.
Private ==
    \A p, q \in Proc : \A r, x \in Region :
        cat[p][r].rw /\ cat[p][r].at # 0 /\ cat[q][x].at = cat[p][r].at => q = p

\* The processes, born or not, whose catalog refers to a table.
Refs(t) == {p \in Proc : \E r \in Region : cat[p][r].at = t}

Counted == \A t \in 1..next : Cardinality(Refs(t)) <= share[t]

\* A process that forks has a child of its own, which does not run.
Forking ==
    \A p, q \in Proc :
        /\ pc[p] = "fork" => pc[child[p]] = "birth"
        /\ pc[p] = "fork" /\ pc[q] = "fork" /\ child[p] = child[q] => p = q

\* A handler that is about to copy has read cr2, and what it copies is still there.
Copying ==
    ~panic => \A p \in Proc :
        /\ pc[p] \in {"copy_table", "copy_page"} => p \notin unread /\ Table(p, addr[p]).at # 0
        /\ pc[p] = "copy_page" => Leaf(p, addr[p]).at # 0

MemInv ==
    /\ TypeOK /\ InUse /\ Apart /\ Private /\ Counted /\ PagesCounted
    /\ Forking /\ Copying

-----------------------------------------------------------------------------
(* What the updates of the model do. *)

LEMMA CatSet ==
    ASSUME NEW c \in [Proc -> [Region -> Entry]], NEW p \in Proc, NEW r \in Region,
           NEW e \in Entry, NEW d, d = [c EXCEPT ![p][r] = e]
    PROVE  /\ d \in [Proc -> [Region -> Entry]]
           /\ \A q \in Proc : \A x \in Region :
                  d[q][x] = IF q = p /\ x = r THEN e ELSE c[q][x]
  OBVIOUS

LEMMA PteSet ==
    ASSUME NEW c \in [Phys -> [Page -> Entry]], NEW p \in Phys, NEW r \in Page,
           NEW e \in Entry, NEW d, d = [c EXCEPT ![p][r] = e]
    PROVE  /\ d \in [Phys -> [Page -> Entry]]
           /\ \A q \in Phys : \A x \in Page :
                  d[q][x] = IF q = p /\ x = r THEN e ELSE c[q][x]
  OBVIOUS

\* A page is a number from 1: a physical page, and so in the range of share and pte.
LEMMA EntryFields ==
    ASSUME NEW e \in Entry
    PROVE  /\ e.at \in Nat /\ e.at <= MaxPages /\ e.rw \in BOOLEAN
           /\ e.at # 0 => e.at \in Phys
           /\ \A b \in BOOLEAN :
                  /\ [e EXCEPT !.rw = b] \in Entry
                  /\ [e EXCEPT !.rw = b].at = e.at
                  /\ [e EXCEPT !.rw = b].rw = b
  BY MemAssumption DEF Entry, Phys

LEMMA NewEntry ==
    ASSUME NEW n \in Nat, n <= MaxPages, NEW b \in BOOLEAN
    PROVE  [at |-> n, rw |-> b] \in Entry
  BY MemAssumption DEF Entry

LEMMA ReadOnlyTable ==
    ASSUME NEW table \in [Page -> Entry]
    PROVE  /\ ReadOnly(table) \in [Page -> Entry]
           /\ \A i \in Page : ReadOnly(table)[i].at = table[i].at /\ ~ ReadOnly(table)[i].rw
<1>1. \A i \in Page : /\ [table[i] EXCEPT !.rw = FALSE] \in Entry
                      /\ [table[i] EXCEPT !.rw = FALSE].at = table[i].at
                      /\ ~ [table[i] EXCEPT !.rw = FALSE].rw
  BY EntryFields
<1> QED  BY <1>1 DEF ReadOnly

\* The table and the page that a handler works on.
LEMMA TableAndLeaf ==
    ASSUME MemInv, NEW p \in Proc
    PROVE  /\ addr[p][1] \in Region /\ addr[p][2] \in Page
           /\ Table(p, addr[p]) = cat[p][addr[p][1]]
           /\ Table(p, addr[p]) \in Entry /\ Leaf(p, addr[p]) \in Entry
           /\ Table(p, addr[p]).at # 0 =>
                  /\ Table(p, addr[p]).at \in Phys /\ Table(p, addr[p]).at \in 1..next
                  /\ Table(p, addr[p]).at <= next
                  /\ pte[Table(p, addr[p]).at] \in [Page -> Entry]
           /\ Leaf(p, addr[p]).at # 0 =>
                  Table(p, addr[p]).at # 0 /\ Leaf(p, addr[p]).at \in Phys
<1> USE DEF MemInv
<1>1. /\ addr[p][1] \in Region /\ addr[p][2] \in Page
      /\ Table(p, addr[p]) = cat[p][addr[p][1]]
  BY DEF TypeOK, Table
<1>2. Table(p, addr[p]) \in Entry /\ Table(p, addr[p]).at <= next
  BY <1>1 DEF TypeOK, InUse
<1>3. /\ Table(p, addr[p]).at \in Nat /\ next \in Nat
      /\ Table(p, addr[p]).at # 0 => Table(p, addr[p]).at \in Phys
  BY <1>2, EntryFields DEF TypeOK
<1>4. Table(p, addr[p]).at # 0 => pte[Table(p, addr[p]).at] \in [Page -> Entry]
  BY <1>3 DEF TypeOK
<1>5. Leaf(p, addr[p]) \in Entry
  <2>1. [at |-> 0, rw |-> TRUE] \in Entry
    BY MemAssumption DEF Entry
  <2> QED  BY <2>1, <1>1, <1>4 DEF Leaf
<1>6. Leaf(p, addr[p]).at # 0 => Table(p, addr[p]).at # 0
  BY DEF Leaf
<1> QED  BY <1>1, <1>2, <1>3, <1>4, <1>5, <1>6, EntryFields

LEMMA MappedPages ==
    ASSUME NEW table \in [Page -> Entry], NEW f
    PROVE  f \in Mapped(table) <=> f # 0 /\ \E i \in Page : table[i].at = f
  BY DEF Mapped

LEMMA FewMappers ==
    ASSUME NEW f, NEW n \in Nat, next = n
    PROVE  IsFiniteSet(MappedBy(f)) /\ Cardinality(MappedBy(f)) \in Nat
<1>1. IsFiniteSet(1..n)
  BY FS_Interval
<1>2. MappedBy(f) \subseteq 1..n
  BY DEF MappedBy
<1> QED  BY <1>1, <1>2, FS_Subset, FS_CardinalityType

LEMMA FewUsers ==
    ASSUME NEW t
    PROVE  /\ IsFiniteSet(Refs(t)) /\ Cardinality(Refs(t)) \in Nat
           /\ IsFiniteSet(UsersOf(t)) /\ UsersOf(t) \subseteq Refs(t)
           /\ Cardinality(UsersOf(t)) \in Nat /\ Cardinality(UsersOf(t)) <= Cardinality(Refs(t))
<1>1. Refs(t) \subseteq Proc /\ UsersOf(t) \subseteq Refs(t)
  BY DEF Refs, UsersOf
<1> QED  BY <1>1, MemAssumption, FS_Subset, FS_CardinalityType

-----------------------------------------------------------------------------
(* The parts of the invariant that a step leaves alone. *)

\* Counts go up with new pages, and only with them do pages or tables come into use.
Grows ==
    /\ next' \in Nat /\ next <= next' /\ next' <= MaxPages
    /\ share' \in [Phys -> Nat]
    /\ \A f \in 1..next : share[f] <= share'[f]

LEMMA Grown ==
    ASSUME TypeOK, Grows
    PROVE  /\ next \in Nat /\ next' \in Nat /\ next <= next' /\ next' <= MaxPages
           /\ \A f \in 1..next : share[f] \in Nat /\ share[f] <= share'[f]
           /\ \A f \in 1..next' : f \in Nat /\ f \in Phys /\ share'[f] \in Nat
<1>1. next \in Nat /\ next' \in Nat /\ next <= next' /\ next' <= MaxPages
  BY MemAssumption DEF TypeOK, Grows
<1>2. \A f \in 1..next' : f \in Nat /\ f \in Phys /\ share'[f] \in Nat
  BY <1>1, MemAssumption DEF Grows, Phys
<1>3. \A f \in 1..next : share[f] \in Nat
  BY <1>1, MemAssumption DEF TypeOK, Phys
<1> QED  BY <1>1, <1>2, <1>3 DEF Grows

LEMMA Fewer ==
    ASSUME NEW S, IsFiniteSet(S), NEW T, T \subseteq S
    PROVE  /\ IsFiniteSet(T) /\ Cardinality(S) \in Nat
           /\ Cardinality(T) \in Nat /\ Cardinality(T) <= Cardinality(S)
  BY FS_Subset, FS_CardinalityType

LEMMA SameTables ==
    ASSUME MemInv, Grows, UNCHANGED cat
    PROVE  /\ \A p \in Proc : \A r \in Region : cat'[p][r].at <= next'
           /\ Apart' /\ Private' /\ Counted'
<1> USE DEF MemInv
<1>1. \A p \in Proc : \A r \in Region : cat'[p][r].at <= next'
  BY EntryFields DEF InUse, Grows, TypeOK
<1>2. Apart' /\ Private'
  BY DEF Apart, Private
<1>3. ASSUME NEW t \in 1..next' PROVE Cardinality(Refs(t)') <= share'[t]
  <2>1. Refs(t)' = Refs(t)
    BY DEF Refs
  <2>2. CASE t \in 1..next
    <3>1. Cardinality(Refs(t)) \in Nat /\ Cardinality(Refs(t)) <= share[t]
      BY <2>2, FewUsers DEF Counted
    <3>2. share[t] \in Nat /\ share'[t] \in Nat /\ share[t] <= share'[t]
      BY <2>2, Grown
    <3> QED  BY <2>1, <3>1, <3>2
  <2>3. CASE t > next
    <3>1. Refs(t) = {}
      BY <2>3, EntryFields DEF Refs, InUse, TypeOK
    <3>2. Cardinality(Refs(t)') = 0
      BY <2>1, <3>1, FS_EmptySet
    <3> QED  BY <3>2, Grown
  <2> QED  BY <2>2, <2>3, Grown
<1> QED  BY <1>1, <1>2, <1>3 DEF Counted

\* Write bits of catalogs change, not what the entries refer to.
LEMMA SameUsers ==
    ASSUME MemInv, UNCHANGED <<share, next>>, cat' \in [Proc -> [Region -> Entry]],
           \A q \in Proc : \A x \in Region : cat'[q][x].at = cat[q][x].at
    PROVE  /\ \A q \in Proc : \A x \in Region : cat'[q][x].at <= next'
           /\ Apart' /\ Counted'
<1> USE DEF MemInv
<1>1. \A q \in Proc : \A x \in Region : cat'[q][x].at <= next'
  BY DEF InUse
<1>2. Apart'
  BY DEF Apart
<1>3. ASSUME NEW t PROVE Refs(t)' = Refs(t)
  BY DEF Refs
<1>4. Counted'
  BY <1>3 DEF Counted
<1> QED  BY <1>1, <1>2, <1>4

LEMMA NewTable ==
    ASSUME MemInv, Grows, next' = next + 1, share'[next + 1] >= 1,
           NEW p \in Proc, NEW r \in Region,
           cat' = [cat EXCEPT ![p][r] = [at |-> next + 1, rw |-> TRUE]]
    PROVE  /\ cat' \in [Proc -> [Region -> Entry]]
           /\ \A q \in Proc : \A x \in Region :
                  cat'[q][x] = IF q = p /\ x = r THEN [at |-> next + 1, rw |-> TRUE] ELSE cat[q][x]
           /\ \A q \in Proc : \A x \in Region : cat'[q][x].at <= next'
           /\ Apart' /\ Private' /\ Counted'
<1> USE DEF MemInv
<1> DEFINE e == [at |-> next + 1, rw |-> TRUE]
<1>0. e \in Entry /\ e.at = next + 1 /\ e.rw
  BY NewEntry DEF Grows, TypeOK
<1> HIDE DEF e
<1>1. /\ cat' \in [Proc -> [Region -> Entry]]
      /\ \A q \in Proc : \A x \in Region : cat'[q][x] = IF q = p /\ x = r THEN e ELSE cat[q][x]
  BY <1>0, CatSet DEF TypeOK, e
<1>2. \A q \in Proc : \A x \in Region : cat[q][x].at \in Nat /\ cat[q][x].at <= next
  BY EntryFields DEF InUse, TypeOK
<1>3. next \in Nat
  BY DEF TypeOK
<1>4. \A q \in Proc : \A x \in Region : cat'[q][x].at <= next'
  BY <1>0, <1>1, <1>2, <1>3
<1>5. Apart'
  BY <1>0, <1>1, <1>2, <1>3 DEF Apart
<1>6. Private'
  BY <1>0, <1>1, <1>2, <1>3 DEF Private
<1>7. ASSUME NEW t \in 1..next' PROVE Cardinality(Refs(t)') <= share'[t]
  <2>1. CASE t \in 1..next
    <3>1. Refs(t)' \subseteq Refs(t)
      BY <2>1, <1>0, <1>1, <1>3 DEF Refs
    <3>2. IsFiniteSet(Refs(t)) /\ Cardinality(Refs(t)) <= share[t]
      BY <2>1, FewUsers DEF Counted
    <3>3. /\ Cardinality(Refs(t)) \in Nat /\ Cardinality(Refs(t)') \in Nat
          /\ Cardinality(Refs(t)') <= Cardinality(Refs(t))
      BY <3>1, <3>2, Fewer
    <3>4. share[t] \in Nat /\ share'[t] \in Nat /\ share[t] <= share'[t]
      BY <2>1, Grown
    <3> QED  BY <3>2, <3>3, <3>4
  <2>2. CASE t = next + 1
    <3>1. Refs(t)' \subseteq {p}
      BY <2>2, <1>0, <1>1, <1>2, <1>3 DEF Refs
    <3>2. IsFiniteSet({p}) /\ Cardinality({p}) = 1
      BY FS_Singleton
    <3>3. Cardinality(Refs(t)') \in Nat /\ Cardinality(Refs(t)') <= 1
      BY <3>1, <3>2, Fewer
    <3> QED  BY <2>2, <3>3, Grown
  <2> QED  BY <2>1, <2>2, <1>3
<1> QED  BY <1>1, <1>4, <1>5, <1>6, <1>7 DEF Counted, e

\* As far as they map no more than before, page tables keep PagesCounted.
LEMMA PagesStillCounted ==
    ASSUME MemInv, Grows,
           \A f \in 1..next' : \/ f <= next /\ MappedBy(f)' \subseteq MappedBy(f)
                               \/ Cardinality(MappedBy(f)') <= share'[f] + 1
    PROVE  PagesCounted'
<1> USE DEF MemInv
<1> SUFFICES ASSUME NEW f \in 1..next' PROVE share'[f] + 1 >= Cardinality(MappedBy(f)')
  BY DEF PagesCounted
<1>1. /\ next' \in Nat /\ share'[f] \in Nat
      /\ f <= next => share[f] \in Nat /\ share[f] <= share'[f]
  BY Grown
<1>2. IsFiniteSet(MappedBy(f)')
  <2>1. MappedBy(f)' \subseteq 1..next' /\ IsFiniteSet(1..next')
    BY <1>1, FS_Interval DEF MappedBy
  <2> QED  BY <2>1, Fewer
<1>3. Cardinality(MappedBy(f)') \in Nat
  BY <1>2, FS_CardinalityType
<1>4. CASE f <= next /\ MappedBy(f)' \subseteq MappedBy(f)
  <2>1. IsFiniteSet(MappedBy(f))
    BY FewMappers, Grown
  <2>2. /\ Cardinality(MappedBy(f)) \in Nat
        /\ Cardinality(MappedBy(f)') <= Cardinality(MappedBy(f))
    BY <1>4, <2>1, Fewer
  <2>3. share[f] + 1 >= Cardinality(MappedBy(f))
    BY <1>4, Grown DEF PagesCounted
  <2> QED  BY <2>2, <2>3, <1>1, <1>3, <1>4
<1>5. CASE Cardinality(MappedBy(f)') <= share'[f] + 1
  BY <1>1, <1>3, <1>5
<1> QED  BY <1>4, <1>5

LEMMA SamePages ==
    ASSUME MemInv, Grows, UNCHANGED pte
    PROVE  /\ \A t \in Phys : \A i \in Page : pte'[t][i].at <= next'
           /\ \A t \in Phys : t > next' => \A i \in Page : pte'[t][i].at = 0
           /\ PagesCounted'
<1> USE DEF MemInv
<1>1. next \in Nat /\ next' \in Nat /\ next <= next' /\ next' <= MaxPages
  BY DEF Grows, TypeOK
<1>2. \A t \in Phys : \A i \in Page : pte[t][i].at \in Nat /\ pte[t][i].at <= next
  BY EntryFields DEF InUse, TypeOK
<1>3. \A t \in Phys : \A i \in Page : pte'[t][i].at <= next'
  BY <1>1, <1>2
<1>4. \A t \in Phys : t > next' => \A i \in Page : pte'[t][i].at = 0
  BY <1>1 DEF InUse, Phys
<1>5. ASSUME NEW f \in 1..next'
      PROVE  \/ f <= next /\ MappedBy(f)' \subseteq MappedBy(f)
             \/ Cardinality(MappedBy(f)') <= share'[f] + 1
  <2>1. ASSUME NEW t \in MappedBy(f)' PROVE t \in MappedBy(f) /\ f <= next
    <3>0. t \in 1..next' /\ f \in Mapped(pte[t])
      BY DEF MappedBy, Mapped
    <3>1. t \in Phys /\ t \in 1..next' /\ f \in Mapped(pte[t]) /\ pte[t] \in [Page -> Entry]
      BY <3>0, Grown DEF TypeOK
    <3>2. PICK i \in Page : pte[t][i].at = f /\ f # 0
      BY <3>1, MappedPages
    <3>3. t <= next /\ f <= next
      BY <3>1, <3>2, <1>1, <1>2 DEF InUse
    <3> QED  BY <3>1, <3>3, <1>1 DEF MappedBy
  <2>2. CASE MappedBy(f)' = {}
    <3>1. Cardinality(MappedBy(f)') = 0 /\ share'[f] \in Nat
      BY <2>2, FS_EmptySet, Grown
    <3> QED  BY <3>1
  <2>3. CASE MappedBy(f)' # {}
    BY <2>1, <2>3
  <2> QED  BY <2>2, <2>3
<1> QED  BY <1>3, <1>4, <1>5, PagesStillCounted

\* A page entry of a table in use is set to a new page.
LEMMA NewPage ==
    ASSUME MemInv, Grows, next' = next + 1,
           NEW t \in Phys, t <= next, NEW i \in Page,
           pte' = [pte EXCEPT ![t][i] = [at |-> next + 1, rw |-> TRUE]]
    PROVE  /\ pte' \in [Phys -> [Page -> Entry]]
           /\ \A u \in Phys : \A j \in Page :
                  pte'[u][j] = IF u = t /\ j = i THEN [at |-> next + 1, rw |-> TRUE] ELSE pte[u][j]
           /\ \A u \in Phys : \A j \in Page : pte'[u][j].at <= next'
           /\ \A u \in Phys : u > next' => \A j \in Page : pte'[u][j].at = 0
           /\ PagesCounted'
<1> USE DEF MemInv
<1> DEFINE e == [at |-> next + 1, rw |-> TRUE]
<1>0. e \in Entry /\ e.at = next + 1
  BY NewEntry, Grown
<1> HIDE DEF e
<1>1. /\ pte' \in [Phys -> [Page -> Entry]]
      /\ \A u \in Phys : \A j \in Page : pte'[u][j] = IF u = t /\ j = i THEN e ELSE pte[u][j]
  BY <1>0, PteSet DEF TypeOK, e
<1>2. \A u \in Phys : \A j \in Page : pte[u][j].at \in Nat /\ pte[u][j].at <= next
  BY EntryFields DEF InUse, TypeOK
<1>3. next \in Nat /\ next' = next + 1
  BY Grown
<1>4. \A u \in Phys : \A j \in Page : pte'[u][j].at <= next'
  BY <1>0, <1>1, <1>2, <1>3
<1>5. \A u \in Phys : u > next' => \A j \in Page : pte'[u][j].at = 0
  BY <1>0, <1>1, <1>3 DEF InUse, Phys
<1>6. ASSUME NEW f \in 1..next', NEW u \in MappedBy(f)'
      PROVE  u \in Phys /\ u \in 1..next' /\ f # 0 /\ \E j \in Page : pte'[u][j].at = f
  <2>1. u \in 1..next' /\ f \in Mapped(pte'[u])
    BY DEF MappedBy, Mapped
  <2>2. u \in Phys /\ pte'[u] \in [Page -> Entry]
    BY <2>1, <1>1, Grown
  <2> QED  BY <2>1, <2>2, MappedPages
<1>7. ASSUME NEW f \in 1..next'
      PROVE  \/ f <= next /\ MappedBy(f)' \subseteq MappedBy(f)
             \/ Cardinality(MappedBy(f)') <= share'[f] + 1
  <2>1. CASE f <= next
    <3>1. ASSUME NEW u \in MappedBy(f)' PROVE u \in MappedBy(f)
      <4>1. u \in Phys /\ u \in 1..next' /\ f # 0 /\ f < next + 1
        BY <1>6, <2>1, <1>3
      <4>2. PICK j \in Page : pte'[u][j].at = f
        BY <1>6
      <4>3. pte[u][j].at = f
        BY <4>1, <4>2, <1>0, <1>1
      <4>4. u \in 1..next /\ pte[u] \in [Page -> Entry]
        BY <4>1, <4>3, <1>3 DEF InUse, TypeOK
      <4>5. f \in Mapped(pte[u])
        BY <4>1, <4>3, <4>4, MappedPages
      <4> QED  BY <4>4, <4>5 DEF MappedBy
    <3> QED  BY <2>1, <3>1
  <2>2. CASE f = next + 1
    <3>1. ASSUME NEW u \in MappedBy(f)' PROVE u = t
      <4>1. u \in Phys /\ \E j \in Page : pte'[u][j].at = next + 1
        BY <1>6, <2>2
      <4> QED  BY <4>1, <1>1, <1>2, <1>3
    <3>2. IsFiniteSet({t}) /\ Cardinality({t}) = 1
      BY FS_Singleton
    <3>3. Cardinality(MappedBy(f)') \in Nat /\ Cardinality(MappedBy(f)') <= 1
      BY <3>1, <3>2, Fewer
    <3>4. share'[f] \in Nat
      BY Grown
    <3> QED  BY <3>3, <3>4
  <2> QED  BY <2>1, <2>2, <1>3
<1> QED  BY <1>1, <1>4, <1>5, <1>7, PagesStillCounted DEF e

\* The write bits of a table change, not what it maps.
LEMMA SameMapping ==
    ASSUME MemInv, Grows, next' = next, pte' \in [Phys -> [Page -> Entry]],
           \A u \in Phys : \A j \in Page : pte'[u][j].at = pte[u][j].at
    PROVE  /\ \A u \in Phys : \A j \in Page : pte'[u][j].at <= next'
           /\ \A u \in Phys : u > next' => \A j \in Page : pte'[u][j].at = 0
           /\ PagesCounted'
<1> USE DEF MemInv
<1>1. \A u \in Phys : \A j \in Page : pte'[u][j].at <= next'
  BY DEF InUse
<1>2. \A u \in Phys : u > next' => \A j \in Page : pte'[u][j].at = 0
  BY DEF InUse
<1>3. ASSUME NEW f \in 1..next', NEW u \in MappedBy(f)' PROVE u \in MappedBy(f)
  <2>1. u \in 1..next' /\ f \in Mapped(pte'[u])
    BY DEF MappedBy, Mapped
  <2>2. u \in Phys /\ pte'[u] \in [Page -> Entry] /\ pte[u] \in [Page -> Entry]
    BY <2>1, Grown DEF TypeOK
  <2>3. f \in Mapped(pte[u])
    BY <2>1, <2>2, MappedPages
  <2> QED  BY <2>1, <2>3 DEF MappedBy
<1>4. \A f \in 1..next' : f <= next
  BY Grown
<1> QED  BY <1>1, <1>2, <1>3, <1>4, PagesStillCounted

-----------------------------------------------------------------------------
(* What a step of one process leaves of the invariant. *)

\* Tables, pages and counts stay.
LEMMA Quiet ==
    ASSUME MemInv, UNCHANGED <<cat, pte, share, next>>
    PROVE  Grows /\ InUse' /\ Apart' /\ Private' /\ Counted' /\ PagesCounted'
<1>1. Grows
  BY MemAssumption DEF MemInv, TypeOK, Grows, Phys
<1> QED  BY <1>1, SameTables, SamePages DEF InUse

\* A step of p, which neither starts nor ends a fork.
LEMMA StillForking ==
    ASSUME MemInv, UNCHANGED child, NEW p \in Proc,
           pc[p] # "birth", pc'[p] = pc[p] \/ pc'[p] # "fork",
           \A q \in Proc : q # p => pc'[q] = pc[q]
    PROVE  Forking'
<1>1. \A q \in Proc : child[q] \in Proc
  BY DEF MemInv, TypeOK
<1> QED  BY <1>1 DEF MemInv, Forking

\* What p does to the handler of another: it may only set the address it has not read.
LEMMA StillCopying ==
    ASSUME MemInv, TypeOK', ~panic, NEW p \in Proc,
           \A q \in Proc : q # p => pc'[q] = pc[q],
           \A q \in Proc : q # p /\ q \notin unread => q \notin unread' /\ addr'[q] = addr[q],
           \A q \in Proc : \A x \in Region :
               q # p /\ pc[q] \in {"copy_table", "copy_page"} => cat'[q][x].at = cat[q][x].at,
           \A t \in Phys : \A i \in Page : pte[t][i].at # 0 => pte'[t][i].at # 0,
           \/ panic'
           \/ pc'[p] \notin {"copy_table", "copy_page"}
           \/ p \notin unread' /\ Table(p, addr[p])'.at # 0
              /\ (pc'[p] = "copy_page" => Leaf(p, addr[p])'.at # 0)
    PROVE  Copying'
<1> USE DEF MemInv
<1> SUFFICES ASSUME ~panic', NEW q \in Proc, pc'[q] \in {"copy_table", "copy_page"}
             PROVE  /\ q \notin unread' /\ Table(q, addr[q])'.at # 0
                    /\ pc'[q] = "copy_page" => Leaf(q, addr[q])'.at # 0
  BY DEF Copying
<1>1. CASE q = p
  BY <1>1
<1>2. CASE q # p
  <2>1. /\ pc'[q] = pc[q] /\ q \notin unread /\ Table(q, addr[q]).at # 0
        /\ pc[q] = "copy_page" => Leaf(q, addr[q]).at # 0
    BY <1>2 DEF Copying
  <2>2. q \notin unread' /\ addr'[q] = addr[q]
    BY <1>2, <2>1
  <2>3. addr[q][1] \in Region /\ addr[q][2] \in Page
    BY DEF TypeOK
  <2>4. cat'[q][addr[q][1]].at = cat[q][addr[q][1]].at
    BY <1>2, <2>1, <2>3
  <2>5. Table(q, addr[q])'.at = Table(q, addr[q]).at
    BY <2>2, <2>4 DEF Table
  <2>6. ASSUME pc[q] = "copy_page" PROVE Leaf(q, addr[q])'.at # 0
    <3>1. Table(q, addr[q]).at \in Phys
      BY <2>1, <2>3, EntryFields DEF Table, TypeOK
    <3>2. pte[Table(q, addr[q]).at][addr[q][2]].at # 0
      BY <2>1, <2>6 DEF Leaf
    <3>3. pte'[Table(q, addr[q]).at][addr[q][2]].at # 0
      BY <3>1, <3>2, <2>3
    <3>4. pte'[Table(q, addr[q])'.at][addr'[q][2]].at # 0
      BY <3>3, <2>2, <2>5
    <3> QED  BY <3>4, <2>1, <2>5 DEF Leaf
  <2> QED  BY <2>1, <2>2, <2>5, <2>6
<1> QED  BY <1>1, <1>2

\* A new page with count n is taken.
LEMMA Taken ==
    ASSUME MemInv, NEW n \in Nat, NEW v \in Value, TakePage(n, v)
    PROVE  /\ Grows /\ next' = next + 1 /\ share'[next + 1] = n
           /\ share' \in [Phys -> Nat] /\ data' \in [Phys -> Value] /\ next' \in 0..MaxPages
<1>1. next + 1 \in Phys /\ next \in Nat /\ next + 1 <= MaxPages
  BY MemAssumption DEF MemInv, TypeOK, TakePage, Phys
<1>2. \A f \in 1..next : f # next + 1 /\ f \in Phys
  BY <1>1, MemAssumption DEF Phys
<1> QED  BY <1>1, <1>2 DEF MemInv, TypeOK, TakePage, Grows

-----------------------------------------------------------------------------
(* Initially, and by each action. *)

LEMMA MemInit == Init => MemInv
<1> SUFFICES ASSUME Init PROVE MemInv
  OBVIOUS
<1> USE DEF Init
<1>1. TypeOK
  <2>0. 1 \in Region /\ \E i : i \in Page
    BY MemAssumption DEF Region
  <2>1. PICK i : <<1, i>> \in Region \X Page
    BY <2>0
  <2>2. addr \in [Proc -> Region \X Page]
    BY <2>1
  <2>3. 0 \in 0..MaxPages /\ 1 \in 1..(Regions + 1)
    BY MemAssumption
  <2>4. [at |-> 0, rw |-> TRUE] \in Entry
    BY <2>3 DEF Entry
  <2>5. cat \in [Proc -> [Region -> Entry]] /\ pte \in [Phys -> [Page -> Entry]]
    BY <2>4
  <2> QED  BY <2>2, <2>3, <2>5, MemAssumption DEF TypeOK
<1>2. InUse /\ Apart /\ Private
  BY MemAssumption DEF InUse, Apart, Private, Phys
<1>3. Counted /\ PagesCounted
  BY DEF Counted, PagesCounted
<1>4. Forking /\ Copying
  BY DEF Forking, Copying
<1> QED  BY <1>1, <1>2, <1>3, <1>4 DEF MemInv

LEMMA UserWriteStep ==
    ASSUME MemInv, NEW p \in Proc, NEW a \in Region \X Page, NEW v \in Value,
           UserWrite(p, a, v)
    PROVE  MemInv'
<1> USE DEF UserWrite, At
<1>1. TypeOK'
  BY DEF MemInv, TypeOK, cr2
<1>2. InUse' /\ Apart' /\ Private' /\ Counted' /\ PagesCounted'
  BY Quiet
<1>3. Forking' /\ Copying'
  BY <1>1, StillForking, StillCopying DEF MemInv, cr2
<1> QED  BY <1>1, <1>2, <1>3 DEF MemInv

LEMMA FaultStep ==
    ASSUME MemInv, NEW p \in Proc, NEW a \in Region \X Page, Fault(p, a)
    PROVE  MemInv'
<1> USE DEF Fault, At, Goto, desc
<1>1. TypeOK'
  BY DEF MemInv, TypeOK
<1>2. InUse' /\ Apart' /\ Private' /\ Counted' /\ PagesCounted'
  BY Quiet
<1>3. pc'[p] \in {"lack", "cow"} /\ \A q \in Proc : q # p => pc'[q] = pc[q]
  BY DEF MemInv, TypeOK
<1>4. Forking'
  BY <1>3, StillForking
<1>5. \A q \in Proc : q # p /\ q \notin unread => q \notin unread' /\ addr'[q] = addr[q]
  BY DEF MemInv, TypeOK
<1>6. Copying'
  BY <1>1, <1>3, <1>5, StillCopying
<1> QED  BY <1>1, <1>2, <1>4, <1>6 DEF MemInv

LEMMA LackTableStep ==
    ASSUME MemInv, NEW p \in Proc, LackTable(p)
    PROVE  MemInv'
<1>0. /\ ~panic /\ pc[p] = "lack" /\ TakePage(1, image)
      /\ cat' = [cat EXCEPT ![p][addr[p][1]] = [at |-> next + 1, rw |-> TRUE]]
      /\ unread' = unread \ {p}
      /\ UNCHANGED <<addr, pte, marked, pc, child, todo>>
  BY DEF LackTable, At, Read
<1>1. addr[p][1] \in Region /\ image \in Value /\ panic' \in BOOLEAN
  BY MemAssumption DEF MemInv, TypeOK, LackTable, kassert
<1>2. /\ Grows /\ next' = next + 1 /\ share'[next + 1] >= 1
      /\ share' \in [Phys -> Nat] /\ data' \in [Phys -> Value] /\ next' \in 0..MaxPages
  BY <1>0, <1>1, Taken
<1>3. /\ cat' \in [Proc -> [Region -> Entry]]
      /\ \A q \in Proc : \A x \in Region : q # p => cat'[q][x] = cat[q][x]
      /\ \A q \in Proc : \A x \in Region : cat'[q][x].at <= next'
      /\ Apart' /\ Private' /\ Counted'
  BY <1>0, <1>1, <1>2, NewTable
<1>4. TypeOK'
  BY <1>0, <1>1, <1>2, <1>3 DEF MemInv, TypeOK
<1>5. InUse' /\ PagesCounted'
  BY <1>0, <1>2, <1>3, SamePages DEF InUse
<1>6. Forking' /\ Copying'
  BY <1>0, <1>3, <1>4, StillForking, StillCopying DEF MemInv
<1> QED  BY <1>3, <1>4, <1>5, <1>6 DEF MemInv

LEMMA LackPageStep ==
    ASSUME MemInv, NEW p \in Proc, LackPage(p)
    PROVE  MemInv'
<1> DEFINE t == Table(p, addr[p]).at
           i == addr[p][2]
<1>0. /\ ~panic /\ pc[p] = "lack" /\ t # 0 /\ TakePage(1, image)
      /\ pc' = [pc EXCEPT ![p] = "user"] /\ unread' = unread \ {p}
      /\ UNCHANGED <<cat, marked, addr, child, todo, panic>>
  BY DEF LackPage, At, Goto, Read
<1>n. pte' = [pte EXCEPT ![t][i] = [at |-> next + 1, rw |-> TRUE]]
  BY DEF LackPage
<1>1. t \in Phys /\ t <= next /\ i \in Page
  BY <1>0, TableAndLeaf
<1>2. /\ Grows /\ next' = next + 1
      /\ share' \in [Phys -> Nat] /\ data' \in [Phys -> Value] /\ next' \in 0..MaxPages
  BY <1>0, MemAssumption, Taken
<1> HIDE DEF t, i
<1>3. /\ pte' \in [Phys -> [Page -> Entry]]
      /\ \A u \in Phys : \A j \in Page :
             pte'[u][j] = IF u = t /\ j = i THEN [at |-> next + 1, rw |-> TRUE] ELSE pte[u][j]
      /\ \A u \in Phys : \A j \in Page : pte'[u][j].at <= next'
      /\ \A u \in Phys : u > next' => \A j \in Page : pte'[u][j].at = 0
      /\ PagesCounted'
  BY <1>n, <1>1, <1>2, NewPage
<1>4. TypeOK'
  BY <1>0, <1>2, <1>3 DEF MemInv, TypeOK
<1>5. InUse' /\ Apart' /\ Private' /\ Counted'
  BY <1>0, <1>2, <1>3, SameTables DEF InUse
<1>6. pc'[p] = "user" /\ \A q \in Proc : q # p => pc'[q] = pc[q]
  BY <1>0 DEF MemInv, TypeOK
<1>7. \A u \in Phys : \A j \in Page : pte[u][j].at # 0 => pte'[u][j].at # 0
  BY <1>2, <1>3, Grown DEF MemInv
<1>8. Forking' /\ Copying'
  BY <1>0, <1>4, <1>6, <1>7, StillForking, StillCopying DEF MemInv
<1> QED  BY <1>3, <1>4, <1>5, <1>8 DEF MemInv

LEMMA CowTableStep ==
    ASSUME MemInv, NEW p \in Proc, CowTable(p)
    PROVE  MemInv'
<1> DEFINE t == Table(p, addr[p])
           ok == t.at # 0 /\ t.at \in marked /\ share[t.at] >= 1
<1>0. /\ ~panic /\ pc[p] = "cow" /\ panic' = ~ok /\ unread' = unread \ {p}
      /\ UNCHANGED <<addr, share, data, next, child, todo>>
  BY DEF CowTable, At, kassert, Read
<1>1. /\ addr[p][1] \in Region /\ t = cat[p][addr[p][1]]
      /\ t.at # 0 => t.at \in Phys /\ t.at \in 1..next /\ pte[t.at] \in [Page -> Entry]
  BY TableAndLeaf
<1>2. CASE /\ ok => share[t.at] > 1
           /\ pc' = [pc EXCEPT ![p] = "copy_table"] /\ UNCHANGED <<cat, pte, marked>>
  <2>1. TypeOK'
    BY <1>0, <1>2 DEF MemInv, TypeOK
  <2>2. InUse' /\ Apart' /\ Private' /\ Counted' /\ PagesCounted'
    BY <1>0, <1>2, Quiet
  <2>3. pc'[p] = "copy_table" /\ \A q \in Proc : q # p => pc'[q] = pc[q]
    BY <1>2 DEF MemInv, TypeOK
  <2>4. panic' \/ Table(p, addr[p])'.at # 0
    BY <1>0, <1>2 DEF Table
  <2>5. Forking' /\ Copying'
    BY <1>0, <1>2, <2>1, <2>3, <2>4, StillForking, StillCopying DEF MemInv
  <2> QED  BY <2>1, <2>2, <2>5 DEF MemInv
<1>3. CASE /\ ok /\ ~(share[t.at] > 1)
           /\ cat' = [cat EXCEPT ![p][addr[p][1]].rw = TRUE]
           /\ pte' = [pte EXCEPT ![t.at] = ReadOnly(@)]
           /\ marked' = marked \ {t.at} /\ UNCHANGED pc
  <2>1. /\ cat' \in [Proc -> [Region -> Entry]]
        /\ \A q \in Proc : \A x \in Region :
               /\ cat'[q][x].at = cat[q][x].at
               /\ cat'[q][x].rw => (q = p /\ x = addr[p][1]) \/ cat[q][x].rw
    <3> DEFINE r == addr[p][1]
               e == [cat[p][r] EXCEPT !.rw = TRUE]
    <3>1. cat \in [Proc -> [Region -> Entry]] /\ r \in Region /\ cat[p][r] \in Entry
      BY <1>1 DEF MemInv, TypeOK
    <3>2. e \in Entry /\ e.at = cat[p][r].at
      BY <3>1, EntryFields
    <3>3. cat' = [cat EXCEPT ![p][r] = e]
      BY <1>3
    <3> HIDE DEF r, e
    <3>4. \A q \in Proc : \A x \in Region :
              cat'[q][x] = IF q = p /\ x = r THEN e ELSE cat[q][x]
      BY <3>1, <3>3
    <3>5. cat' \in [Proc -> [Region -> Entry]]
      BY <3>1, <3>2, <3>3
    <3> QED  BY <3>2, <3>4, <3>5 DEF r
  <2>2. /\ pte' \in [Phys -> [Page -> Entry]]
        /\ \A u \in Phys : \A i \in Page : pte'[u][i].at = pte[u][i].at
    <3>1. t.at \in Phys /\ pte[t.at] \in [Page -> Entry]
      BY <1>1, <1>3
    <3>2. /\ ReadOnly(pte[t.at]) \in [Page -> Entry]
          /\ \A i \in Page : ReadOnly(pte[t.at])[i].at = pte[t.at][i].at
      BY <3>1, ReadOnlyTable
    <3> QED  BY <1>3, <3>1, <3>2 DEF MemInv, TypeOK
  <2>3. TypeOK'
    BY <1>0, <1>3, <2>1, <2>2 DEF MemInv, TypeOK
  <2>4. Grows
    BY <1>0, MemAssumption DEF MemInv, TypeOK, Grows, Phys
  <2>5. InUse' /\ Apart' /\ Counted' /\ PagesCounted'
    BY <1>0, <2>1, <2>2, <2>4, SameUsers, SameMapping DEF InUse
  <2>6. \A q \in Proc : \A x \in Region : cat[q][x].at = t.at => q = p
    <3>1. IsFiniteSet(Refs(t.at)) /\ Cardinality(Refs(t.at)) \in Nat
      BY FewUsers
    <3>2. Cardinality(Refs(t.at)) <= share[t.at] /\ share[t.at] = 1
      BY <1>1, <1>3 DEF MemInv, Counted, TypeOK
    <3>3. p \in Refs(t.at)
      BY <1>1 DEF Refs
    <3>4. Cardinality(Refs(t.at)) = 1
      BY <3>1, <3>2, <3>3, FS_EmptySet
    <3>5. PICK x : Refs(t.at) = {x}
      BY <3>1, <3>4, FS_Singleton
    <3> QED  BY <3>3, <3>5 DEF Refs
  <2>7. Private'
    <3> SUFFICES ASSUME NEW q1 \in Proc, NEW q2 \in Proc, NEW x1 \in Region, NEW x2 \in Region,
                        cat'[q1][x1].rw, cat'[q1][x1].at # 0, cat'[q2][x2].at = cat'[q1][x1].at
                 PROVE  q2 = q1
      BY DEF Private
    <3>1. cat[q1][x1].at # 0 /\ cat[q2][x2].at = cat[q1][x1].at
      BY <2>1
    <3>2. CASE q1 = p /\ x1 = addr[p][1]
      BY <3>1, <3>2, <1>1, <2>6
    <3>3. CASE cat[q1][x1].rw
      BY <3>1, <3>3 DEF MemInv, Private
    <3> QED  BY <2>1, <3>2, <3>3
  <2>8. Forking' /\ Copying'
    BY <1>0, <1>3, <2>1, <2>2, <2>3, StillForking, StillCopying DEF MemInv
  <2> QED  BY <2>3, <2>5, <2>7, <2>8 DEF MemInv
<1> QED  BY <1>0, <1>2, <1>3 DEF CowTable, Goto

LEMMA CowPageStep ==
    ASSUME MemInv, NEW p \in Proc, CowPage(p)
    PROVE  MemInv'
<1> DEFINE f == Leaf(p, addr[p])
           ok == ~f.rw /\ f.at # 0 /\ f.at \in marked /\ share[f.at] >= 1
<1>0. /\ ~panic /\ pc[p] = "cow" /\ panic' = ~ok /\ unread' = unread \ {p}
      /\ UNCHANGED <<cat, addr, share, data, next, child, todo>>
  BY DEF CowPage, At, kassert, Read
<1>1. /\ addr[p][1] \in Region /\ addr[p][2] \in Page
      /\ f.at # 0 => Table(p, addr[p]).at # 0 /\ Table(p, addr[p]).at \in Phys
  BY TableAndLeaf
<1>2. Grows
  BY <1>0, MemAssumption DEF MemInv, TypeOK, Grows, Phys
<1>3. CASE /\ ok => share[f.at] > 1
           /\ pc' = [pc EXCEPT ![p] = "copy_page"] /\ UNCHANGED <<pte, marked>>
  <2>1. TypeOK'
    BY <1>0, <1>3 DEF MemInv, TypeOK
  <2>2. InUse' /\ Apart' /\ Private' /\ Counted' /\ PagesCounted'
    BY <1>0, <1>3, Quiet
  <2>3. pc'[p] = "copy_page" /\ \A q \in Proc : q # p => pc'[q] = pc[q]
    BY <1>3 DEF MemInv, TypeOK
  <2>4. Table(p, addr[p])' = Table(p, addr[p]) /\ Leaf(p, addr[p])' = f
    BY <1>0, <1>3 DEF Table, Leaf
  <2>5. panic' \/ (Table(p, addr[p])'.at # 0 /\ Leaf(p, addr[p])'.at # 0)
    <3>1. panic' \/ f.at # 0
      BY <1>0
    <3> QED  BY <3>1, <1>1, <2>4
  <2>6. Forking' /\ Copying'
    BY <1>0, <1>3, <2>1, <2>3, <2>5, StillForking, StillCopying DEF MemInv
  <2> QED  BY <2>1, <2>2, <2>6 DEF MemInv
<1>4. CASE /\ ok /\ pc' = [pc EXCEPT ![p] = "user"]
           /\ pte' = [pte EXCEPT ![Table(p, addr[p]).at][addr[p][2]].rw = TRUE]
           /\ marked' = marked \ {f.at}
  <2>1. Table(p, addr[p]).at \in Phys
    BY <1>1, <1>4
  <2>2. /\ pte' \in [Phys -> [Page -> Entry]]
        /\ \A u \in Phys : \A i \in Page : pte'[u][i].at = pte[u][i].at
    <3> DEFINE t == Table(p, addr[p]).at
               i == addr[p][2]
               e == [pte[t][i] EXCEPT !.rw = TRUE]
    <3>1. pte \in [Phys -> [Page -> Entry]] /\ t \in Phys /\ i \in Page /\ pte[t][i] \in Entry
      BY <1>1, <2>1 DEF MemInv, TypeOK
    <3>2. e \in Entry /\ e.at = pte[t][i].at
      BY <3>1, EntryFields
    <3>3. pte' = [pte EXCEPT ![t][i] = e]
      BY <1>4
    <3> HIDE DEF t, i, e
    <3>4. \A u \in Phys : \A x \in Page :
              pte'[u][x] = IF u = t /\ x = i THEN e ELSE pte[u][x]
      BY <3>1, <3>3
    <3>5. pte' \in [Phys -> [Page -> Entry]]
      BY <3>1, <3>2, <3>3
    <3> QED  BY <3>2, <3>4, <3>5
  <2>3. TypeOK'
    BY <1>0, <1>4, <2>2 DEF MemInv, TypeOK
  <2>4. InUse' /\ Apart' /\ Private' /\ Counted' /\ PagesCounted'
    BY <1>0, <1>2, <2>2, SameTables, SameMapping DEF InUse
  <2>5. pc'[p] = "user" /\ \A q \in Proc : q # p => pc'[q] = pc[q]
    BY <1>4 DEF MemInv, TypeOK
  <2>6. Forking' /\ Copying'
    BY <1>0, <2>2, <2>3, <2>5, StillForking, StillCopying DEF MemInv
  <2> QED  BY <2>3, <2>4, <2>6 DEF MemInv
<1> QED  BY <1>0, <1>3, <1>4 DEF CowPage, Goto

LEMMA CopyPageStep ==
    ASSUME MemInv, NEW p \in Proc, CopyPage(p)
    PROVE  MemInv'
<1>0. /\ ~panic /\ pc[p] = "copy_page" /\ TakePage(0, data[Leaf(p, addr[p]).at])
      /\ pc' = [pc EXCEPT ![p] = "user"]
      /\ UNCHANGED <<cat, marked, addr, unread, child, todo, panic>>
  BY DEF CopyPage, At, Goto, cr2
<1> DEFINE t == Table(p, addr[p]).at
           i == addr[p][2]
<1>n. pte' = [pte EXCEPT ![t][i] = [at |-> next + 1, rw |-> TRUE]]
  BY DEF CopyPage
<1>1. Table(p, addr[p]).at # 0 /\ Leaf(p, addr[p]).at # 0
  BY <1>0 DEF MemInv, Copying
<1>2. t \in Phys /\ t <= next /\ i \in Page
  BY <1>1, TableAndLeaf
<1>3. data[Leaf(p, addr[p]).at] \in Value
  BY <1>1, TableAndLeaf DEF MemInv, TypeOK
<1>4. /\ Grows /\ next' = next + 1
      /\ share' \in [Phys -> Nat] /\ data' \in [Phys -> Value] /\ next' \in 0..MaxPages
  BY <1>0, <1>3, Taken
<1> HIDE DEF t, i
<1>5. /\ pte' \in [Phys -> [Page -> Entry]]
      /\ \A u \in Phys : \A j \in Page :
             pte'[u][j] = IF u = t /\ j = i THEN [at |-> next + 1, rw |-> TRUE] ELSE pte[u][j]
      /\ \A u \in Phys : \A j \in Page : pte'[u][j].at <= next'
      /\ \A u \in Phys : u > next' => \A j \in Page : pte'[u][j].at = 0
      /\ PagesCounted'
  BY <1>n, <1>2, <1>4, NewPage
<1>6. TypeOK'
  BY <1>0, <1>4, <1>5 DEF MemInv, TypeOK
<1>7. InUse' /\ Apart' /\ Private' /\ Counted'
  BY <1>0, <1>4, <1>5, SameTables DEF InUse
<1>8. pc'[p] = "user" /\ \A q \in Proc : q # p => pc'[q] = pc[q]
  BY <1>0 DEF MemInv, TypeOK
<1>9. \A u \in Phys : \A j \in Page : pte[u][j].at # 0 => pte'[u][j].at # 0
  BY <1>4, <1>5, Grown DEF MemInv
<1>10. Forking' /\ Copying'
  BY <1>0, <1>6, <1>8, <1>9, StillForking, StillCopying DEF MemInv
<1> QED  BY <1>5, <1>6, <1>7, <1>10 DEF MemInv

LEMMA ForkStep ==
    ASSUME MemInv, NEW p \in Proc, NEW c \in Proc, Fork(p, c)
    PROVE  MemInv'
<1>0. /\ ~panic /\ pc[p] = "user" /\ pc[c] = "unborn" /\ p # c
      /\ pc' = [pc EXCEPT ![p] = "fork", ![c] = "birth"]
      /\ child' = [child EXCEPT ![p] = c] /\ todo' = [todo EXCEPT ![p] = 1]
      /\ UNCHANGED <<cat, pte, share, marked, data, next, addr, unread, panic>>
  BY DEF Fork, At, desc, cr2
<1>1. TypeOK'
  <2>1. 1 \in 1..(Regions + 1)
    BY MemAssumption
  <2> QED  BY <2>1, <1>0 DEF MemInv, TypeOK
<1>2. InUse' /\ Apart' /\ Private' /\ Counted' /\ PagesCounted'
  BY <1>0, Quiet
<1>3. /\ pc'[p] = "fork" /\ pc'[c] = "birth" /\ child'[p] = c
      /\ \A q \in Proc : q # p /\ q # c => pc'[q] = pc[q]
      /\ \A q \in Proc : q # p => child'[q] = child[q] /\ child[q] \in Proc
  BY <1>0 DEF MemInv, TypeOK
<1>4. Forking'
  <2>1. ASSUME NEW q \in Proc, q # p, pc'[q] = "fork"
        PROVE  /\ pc[q] = "fork" /\ child'[q] = child[q] /\ pc[child[q]] = "birth"
               /\ child[q] # p /\ child[q] # c /\ pc'[child[q]] = "birth"
    <3>1. pc[q] = "fork" /\ child'[q] = child[q] /\ child[q] \in Proc
      BY <2>1, <1>3
    <3>2. pc[child[q]] = "birth"
      BY <3>1 DEF MemInv, Forking
    <3> QED  BY <3>1, <3>2, <1>0, <1>3
  <2> QED  BY <1>3, <2>1 DEF MemInv, Forking
<1>5. Copying'
  <2>1. \A q \in Proc : pc'[q] \in {"copy_table", "copy_page"} => pc'[q] = pc[q]
    BY <1>3
  <2>2. \A q \in Proc : Table(q, addr[q])' = Table(q, addr[q]) /\ Leaf(q, addr[q])' = Leaf(q, addr[q])
    BY <1>0 DEF Table, Leaf
  <2> QED  BY <1>0, <2>1, <2>2 DEF MemInv, Copying
<1> QED  BY <1>1, <1>2, <1>4, <1>5 DEF MemInv

LEMMA ForkDoneStep ==
    ASSUME MemInv, NEW p \in Proc, ForkDone(p)
    PROVE  MemInv'
<1> DEFINE c == child[p]
<1>0. /\ ~panic /\ pc[p] = "fork"
      /\ pc' = [pc EXCEPT ![p] = "user", ![c] = "user"]
      /\ UNCHANGED <<cat, pte, share, marked, data, next, addr, unread, child, todo, panic>>
  BY DEF ForkDone, At, desc, cr2
<1>1. TypeOK'
  BY <1>0 DEF MemInv, TypeOK
<1>2. InUse' /\ Apart' /\ Private' /\ Counted' /\ PagesCounted'
  BY <1>0, Quiet
<1>3. /\ c \in Proc /\ pc'[p] = "user" /\ pc'[c] = "user"
      /\ \A q \in Proc : q # p /\ q # c => pc'[q] = pc[q]
      /\ \A q \in Proc : child'[q] = child[q] /\ child[q] \in Proc
  BY <1>0 DEF MemInv, TypeOK
<1>4. Forking'
  <2>1. ASSUME NEW q \in Proc, pc'[q] = "fork"
        PROVE  pc[q] = "fork" /\ pc'[child[q]] = "birth"
    <3>1. pc[q] = "fork" /\ q # p
      BY <2>1, <1>3
    <3>2. pc[child[q]] = "birth" /\ child[q] # c
      BY <3>1, <1>0 DEF MemInv, Forking
    <3> QED  BY <3>1, <3>2, <1>0, <1>3
  <2> QED  BY <1>3, <2>1 DEF MemInv, Forking
<1>5. Copying'
  <2>1. \A q \in Proc : pc'[q] \in {"copy_table", "copy_page"} => pc'[q] = pc[q]
    BY <1>3
  <2>2. \A q \in Proc : Table(q, addr[q])' = Table(q, addr[q]) /\ Leaf(q, addr[q])' = Leaf(q, addr[q])
    BY <1>0 DEF Table, Leaf
  <2> QED  BY <1>0, <2>1, <2>2 DEF MemInv, Copying
<1> QED  BY <1>1, <1>2, <1>4, <1>5 DEF MemInv

LEMMA ForkRegionStep ==
    ASSUME MemInv, NEW p \in Proc, ForkRegion(p)
    PROVE  MemInv'
<1> DEFINE c == child[p]
           r == todo[p]
           e == [cat[p][r] EXCEPT !.rw = FALSE]
<1>0. /\ ~panic /\ pc[p] = "fork" /\ r \in Region
      /\ todo' = [todo EXCEPT ![p] = r + 1]
      /\ UNCHANGED <<pte, data, next, pc, addr, unread, child, panic>>
      /\ marked' = IF e.at # 0 THEN marked \union {e.at} ELSE marked
      /\ share' = IF e.at # 0 THEN [share EXCEPT ![e.at] = @ + 1] ELSE share
  BY DEF ForkRegion, At, cr2
<1>n. cat' = [cat EXCEPT ![p][r] = e, ![c][r] = e]
  BY DEF ForkRegion
<1>1. c \in Proc /\ pc[c] = "birth" /\ p # c
  BY <1>0 DEF MemInv, TypeOK, Forking
<1>2. cat \in [Proc -> [Region -> Entry]] /\ cat[p][r] \in Entry /\ next \in Nat
  BY <1>0 DEF MemInv, TypeOK
<1>3. /\ e \in Entry /\ e.at = cat[p][r].at /\ ~e.rw /\ e.at \in Nat /\ e.at <= next
      /\ e.at # 0 => e.at \in Phys /\ e.at \in 1..next
  <2>1. e \in Entry /\ e.at = cat[p][r].at /\ ~e.rw
    BY <1>2, EntryFields
  <2>2. e.at <= next
    BY <1>0, <2>1 DEF MemInv, InUse
  <2> HIDE DEF e
  <2> QED  BY <1>2, <2>1, <2>2, EntryFields
<1> HIDE DEF c, r, e
<1>4. /\ cat' \in [Proc -> [Region -> Entry]]
      /\ \A q \in Proc : \A x \in Region :
             cat'[q][x] = IF q \in {p, c} /\ x = r THEN e ELSE cat[q][x]
  <2> DEFINE d == [cat EXCEPT ![p][r] = e]
  <2>1. /\ d \in [Proc -> [Region -> Entry]]
        /\ \A q \in Proc : \A x \in Region :
               d[q][x] = IF q = p /\ x = r THEN e ELSE cat[q][x]
    BY <1>0, <1>2, <1>3, CatSet
  <2>2. cat' = [d EXCEPT ![c][r] = e]
    BY <1>n
  <2> HIDE DEF d
  <2>3. /\ cat' \in [Proc -> [Region -> Entry]]
        /\ \A q \in Proc : \A x \in Region :
               cat'[q][x] = IF q = c /\ x = r THEN e ELSE d[q][x]
    BY <1>0, <1>1, <1>3, <2>1, <2>2, CatSet
  <2> QED  BY <2>1, <2>3
<1>5. /\ share' \in [Phys -> Nat] /\ marked' \subseteq Phys
      /\ \A f \in 1..next : share'[f] = IF f = e.at THEN share[f] + 1 ELSE share[f]
  <2>1. \A f \in 1..next : f \in Phys /\ f # 0
    BY MemAssumption DEF MemInv, TypeOK, Phys
  <2> QED  BY <1>0, <1>3, <2>1 DEF MemInv, TypeOK
<1>6. Grows
  <2>1. \A f \in 1..next : share[f] \in Nat
    BY MemAssumption DEF MemInv, TypeOK, Phys
  <2> QED  BY <1>0, <1>5, <2>1, MemAssumption DEF MemInv, TypeOK, Grows
<1>7. TypeOK'
  <2>1. r + 1 \in 1..(Regions + 1)
    BY <1>0, MemAssumption DEF Region
  <2> QED  BY <1>0, <1>4, <1>5, <2>1 DEF MemInv, TypeOK
<1>8. InUse' /\ PagesCounted'
  <2>1. \A q \in Proc : \A x \in Region : cat'[q][x].at <= next'
    BY <1>0, <1>3, <1>4 DEF MemInv, InUse
  <2> QED  BY <1>0, <1>6, <2>1, SamePages DEF InUse
<1>9. Apart'
  <2>1. \A q \in Proc : \A x \in Region :
            \/ x = r /\ cat'[q][x].at = cat[p][x].at
            \/ cat'[q][x].at = cat[q][x].at
    BY <1>3, <1>4
  <2> SUFFICES ASSUME NEW q1 \in Proc, NEW q2 \in Proc, NEW x1 \in Region, NEW x2 \in Region,
                      cat'[q1][x1].at = cat'[q2][x2].at, cat'[q1][x1].at # 0
               PROVE  x1 = x2
    BY DEF Apart
  <2>2. PICK o1 \in Proc : cat'[q1][x1].at = cat[o1][x1].at
    BY <2>1
  <2>3. PICK o2 \in Proc : cat'[q2][x2].at = cat[o2][x2].at
    BY <2>1
  <2>4. cat[o1][x1].at = cat[o2][x2].at /\ cat[o1][x1].at # 0
    BY <2>2, <2>3
  <2> QED  BY <2>4 DEF MemInv, Apart
<1>10. Private'
  <2> SUFFICES ASSUME NEW q1 \in Proc, NEW q2 \in Proc, NEW x1 \in Region, NEW x2 \in Region,
                      cat'[q1][x1].rw, cat'[q1][x1].at # 0, cat'[q2][x2].at = cat'[q1][x1].at
               PROVE  q2 = q1
    BY DEF Private
  <2>1. ~(q1 \in {p, c} /\ x1 = r) /\ cat'[q1][x1] = cat[q1][x1]
    BY <1>3, <1>4
  <2>2. CASE q2 \in {p, c} /\ x2 = r
    <3>1. cat[p][r].at = cat[q1][x1].at
      BY <1>3, <1>4, <2>1, <2>2
    <3>2. p = q1 /\ r = x1
      BY <1>0, <2>1, <3>1 DEF MemInv, Private, Apart
    <3> QED  BY <2>1, <3>2
  <2>3. CASE ~(q2 \in {p, c} /\ x2 = r)
    <3>1. cat'[q2][x2] = cat[q2][x2]
      BY <1>4, <2>3
    <3> QED  BY <2>1, <3>1 DEF MemInv, Private
  <2> QED  BY <2>2, <2>3
<1>11. Counted'
  <2> SUFFICES ASSUME NEW t \in 1..next PROVE Cardinality(Refs(t)') <= share'[t]
    BY <1>0 DEF Counted
  <2>1. /\ IsFiniteSet(Refs(t)) /\ Cardinality(Refs(t)) \in Nat
        /\ Cardinality(Refs(t)) <= share[t] /\ share[t] \in Nat
    BY FewUsers, Grown, <1>6 DEF MemInv, Counted
  <2>2. CASE t = e.at
    <3>1. Refs(t)' \subseteq Refs(t) \union {c}
      BY <1>0, <1>2, <1>3, <1>4, <2>2 DEF Refs
    <3>2. /\ IsFiniteSet(Refs(t) \union {c})
          /\ Cardinality(Refs(t) \union {c}) <= Cardinality(Refs(t)) + 1
      BY <2>1, FS_AddElement
    <3>3. /\ Cardinality(Refs(t)') \in Nat /\ Cardinality(Refs(t) \union {c}) \in Nat
          /\ Cardinality(Refs(t)') <= Cardinality(Refs(t) \union {c})
      BY <3>1, <3>2, Fewer
    <3>4. share'[t] = share[t] + 1
      BY <1>5, <2>2
    <3> QED  BY <2>1, <3>2, <3>3, <3>4
  <2>3. CASE t # e.at
    <3>1. Refs(t)' \subseteq Refs(t)
      BY <1>4, <2>3 DEF Refs
    <3>2. Cardinality(Refs(t)') \in Nat /\ Cardinality(Refs(t)') <= Cardinality(Refs(t))
      BY <2>1, <3>1, Fewer
    <3>3. share'[t] = share[t]
      BY <1>5, <2>3
    <3> QED  BY <2>1, <3>2, <3>3
  <2> QED  BY <2>2, <2>3
<1>12. Forking'
  BY <1>0 DEF MemInv, Forking
<1>13. Copying'
  <2>1. \A q \in Proc : \A x \in Region :
            pc[q] \in {"copy_table", "copy_page"} => cat'[q][x].at = cat[q][x].at
    BY <1>1, <1>3, <1>4
  <2> QED  BY <1>0, <1>7, <2>1, StillCopying DEF MemInv
<1> QED  BY <1>7, <1>8, <1>9, <1>10, <1>11, <1>12, <1>13 DEF MemInv

LEMMA CopyTableStep ==
    ASSUME MemInv, NEW p \in Proc, CopyTable(p)
    PROVE  MemInv'
<1> DEFINE r   == addr[p][1]
           old == pte[Table(p, addr[p]).at]
           n   == next + 1
<1>0. /\ ~panic /\ pc[p] = "copy_table" /\ next < MaxPages /\ next' = n
      /\ share' = [f \in Phys |-> IF f = n THEN 1
                                  ELSE IF f \in Mapped(old) THEN share[f] + 1 ELSE share[f]]
      /\ marked' = marked \union Mapped(old)
      /\ pc' = [pc EXCEPT ![p] = "cow"]
      /\ UNCHANGED <<data, addr, unread, child, todo, panic>>
  BY DEF CopyTable, At, Goto, cr2
<1>n. pte' = [pte EXCEPT ![n] = ReadOnly(old)]
  BY DEF CopyTable
<1>c. cat' = [cat EXCEPT ![p][r] = [at |-> next + 1, rw |-> TRUE]]
  BY DEF CopyTable
<1>1. r \in Region /\ old \in [Page -> Entry]
  <2>1. Table(p, addr[p]).at # 0
    BY <1>0 DEF MemInv, Copying
  <2> QED  BY <2>1, TableAndLeaf
<1>2. /\ next \in Nat /\ n \in Phys /\ n \in Nat /\ n <= MaxPages
      /\ \A f \in 1..next : f \in Phys /\ f # n /\ f # 0
  BY <1>0, MemAssumption DEF MemInv, TypeOK, Phys
<1>3. /\ \A t \in Phys : \A i \in Page : pte[t][i].at \in Nat /\ pte[t][i].at <= next
      /\ \A i \in Page : old[i].at \in Nat /\ old[i].at <= next
  <2>1. \A t \in Phys : \A i \in Page : pte[t][i].at \in Nat /\ pte[t][i].at <= next
    BY EntryFields DEF MemInv, TypeOK, InUse
  <2>2. Table(p, addr[p]).at \in Phys
    BY <1>0, TableAndLeaf DEF MemInv, Copying
  <2> QED  BY <2>1, <2>2
<1>r. /\ ReadOnly(old) \in [Page -> Entry]
      /\ \A i \in Page : ReadOnly(old)[i].at = old[i].at
  BY <1>1, ReadOnlyTable
<1>m. \A f : f \in Mapped(old) <=> f # 0 /\ \E i \in Page : old[i].at = f
  BY <1>1, MappedPages
<1> HIDE DEF r, old, n
<1>4. share' \in [Phys -> Nat]
  BY <1>0 DEF MemInv, TypeOK
<1>5. /\ share'[n] = 1
      /\ \A f \in 1..next : share[f] \in Nat
             /\ share'[f] = IF f \in Mapped(old) THEN share[f] + 1 ELSE share[f]
  BY <1>0, <1>2 DEF MemInv, TypeOK
<1>6. Grows
  <2>1. next' \in Nat /\ next <= next' /\ next' <= MaxPages
    BY <1>0, <1>2 DEF n
  <2>2. \A f \in 1..next : share[f] <= share'[f]
    BY <1>5
  <2> QED  BY <1>4, <2>1, <2>2 DEF Grows
<1>7. /\ cat' \in [Proc -> [Region -> Entry]]
      /\ \A q \in Proc : \A x \in Region : q # p => cat'[q][x] = cat[q][x]
      /\ \A q \in Proc : \A x \in Region : cat'[q][x].at <= next'
      /\ Apart' /\ Private' /\ Counted'
  <2>1. next' = next + 1 /\ share'[next + 1] >= 1
    BY <1>0, <1>5 DEF n
  <2>2. /\ cat' \in [Proc -> [Region -> Entry]]
        /\ \A q \in Proc : \A x \in Region :
               cat'[q][x] = IF q = p /\ x = r THEN [at |-> next + 1, rw |-> TRUE] ELSE cat[q][x]
        /\ \A q \in Proc : \A x \in Region : cat'[q][x].at <= next'
        /\ Apart' /\ Private' /\ Counted'
    BY <1>c, <1>1, <1>6, <2>1, NewTable
  <2> QED  BY <2>2
<1>8. /\ pte' \in [Phys -> [Page -> Entry]]
      /\ \A t \in Phys : pte'[t] = IF t = n THEN ReadOnly(old) ELSE pte[t]
  BY <1>n, <1>2, <1>r DEF MemInv, TypeOK
<1>9. marked' \subseteq Phys
  <2>1. ASSUME NEW f \in Mapped(old) PROVE f \in Phys
    BY <1>2, <1>3, <1>m DEF Phys
  <2> QED  BY <1>0, <2>1 DEF MemInv, TypeOK
<1>10. TypeOK'
  <2>1. next' \in 0..MaxPages
    BY <1>0, <1>2, MemAssumption
  <2>2. pc' \in [Proc -> {"user", "lack", "cow", "copy_table", "copy_page", "fork",
                          "birth", "unborn"}]
    BY <1>0 DEF MemInv, TypeOK
  <2> QED  BY <1>0, <1>4, <1>7, <1>8, <1>9, <2>1, <2>2 DEF MemInv, TypeOK
<1>11. InUse'
  <2>1. \A t \in Phys : \A i \in Page : pte'[t][i].at <= next'
    BY <1>0, <1>2, <1>3, <1>8, <1>r DEF n
  <2>2. \A t \in Phys : t > next' => t > next /\ t # n
    BY <1>0, <1>2 DEF n, Phys
  <2>3. \A t \in Phys : t > next' => \A i \in Page : pte'[t][i].at = 0
    BY <2>2, <1>8 DEF MemInv, InUse
  <2> QED  BY <1>7, <2>1, <2>3 DEF InUse
<1>12. ASSUME NEW f \in 1..next', NEW t \in MappedBy(f)'
       PROVE  \/ t \in MappedBy(f)
              \/ t = n /\ f \in Mapped(old)
  <2>1. t \in 1..next' /\ f \in Mapped(pte'[t])
    BY DEF MappedBy, Mapped
  <2>2. t \in Phys
    BY <2>1, <1>0, <1>2 DEF n, Phys
  <2>3. CASE t = n
    <3>1. pte'[t] \in [Page -> Entry] /\ pte'[t] = ReadOnly(old)
      BY <2>2, <2>3, <1>8
    <3>2. PICK i \in Page : pte'[t][i].at = f /\ f # 0
      BY <2>1, <3>1, MappedPages
    <3>3. old[i].at = f
      BY <3>1, <3>2, <1>r
    <3> QED  BY <2>3, <3>2, <3>3, <1>m
  <2>4. CASE t # n
    <3>1. pte'[t] = pte[t] /\ t \in 1..next
      BY <2>1, <2>2, <2>4, <1>0, <1>2, <1>8 DEF n
    <3> QED  BY <2>1, <3>1 DEF MappedBy
  <2> QED  BY <2>3, <2>4
<1>13. ASSUME NEW f \in 1..next'
       PROVE  \/ f <= next /\ MappedBy(f)' \subseteq MappedBy(f)
              \/ Cardinality(MappedBy(f)') <= share'[f] + 1
  <2>1. f \in 1..next \/ f = n
    BY <1>0, <1>2 DEF n
  <2>2. CASE f \in 1..next /\ f \in Mapped(old)
    <3>1. MappedBy(f)' \subseteq MappedBy(f) \union {n}
      BY <1>12
    <3>2. /\ IsFiniteSet(MappedBy(f)) /\ Cardinality(MappedBy(f)) \in Nat
          /\ Cardinality(MappedBy(f)) <= share[f] + 1
      BY <2>2, <1>2, FewMappers, <1>5 DEF MemInv, PagesCounted
    <3>3. /\ IsFiniteSet(MappedBy(f) \union {n})
          /\ Cardinality(MappedBy(f) \union {n}) <= Cardinality(MappedBy(f)) + 1
      BY <3>2, FS_AddElement
    <3>4. /\ Cardinality(MappedBy(f)') \in Nat /\ Cardinality(MappedBy(f) \union {n}) \in Nat
          /\ Cardinality(MappedBy(f)') <= Cardinality(MappedBy(f) \union {n})
      BY <3>1, <3>3, Fewer
    <3>5. share'[f] = share[f] + 1 /\ share[f] \in Nat
      BY <2>2, <1>5
    <3> QED  BY <3>2, <3>3, <3>4, <3>5
  <2>3. CASE f \in 1..next /\ f \notin Mapped(old)
    BY <2>3, <1>2, <1>12
  <2>4. CASE f = n
    <3>1. f \notin Mapped(old)
      BY <2>4, <1>2, <1>3, <1>m DEF n
    <3>2. ASSUME NEW t \in MappedBy(f)' PROVE FALSE
      <4>1. t \in 1..next /\ f \in Mapped(pte[t])
        BY <1>12, <3>1 DEF MappedBy
      <4>2. t \in Phys /\ pte[t] \in [Page -> Entry]
        BY <4>1, <1>2 DEF MemInv, TypeOK
      <4>3. PICK i \in Page : pte[t][i].at = f
        BY <4>1, <4>2, MappedPages
      <4> QED  BY <4>2, <4>3, <2>4, <1>2, <1>3 DEF n
    <3>3. MappedBy(f)' = {}
      BY <3>2
    <3>4. Cardinality(MappedBy(f)') = 0
      BY <3>3, FS_EmptySet
    <3> QED  BY <3>4, <2>4, <1>5
  <2> QED  BY <2>1, <2>2, <2>3, <2>4
<1>14. PagesCounted'
  BY <1>6, <1>13, PagesStillCounted
<1>15. pc'[p] = "cow" /\ \A q \in Proc : q # p => pc'[q] = pc[q]
  BY <1>0 DEF MemInv, TypeOK
<1>16. \A t \in Phys : \A i \in Page : pte[t][i].at # 0 => pte'[t][i].at # 0
  <2>1. n > next
    BY <1>2 DEF n
  <2>2. \A i \in Page : pte[n][i].at = 0
    BY <2>1, <1>2 DEF MemInv, InUse
  <2> QED  BY <2>2, <1>8
<1>17. Forking' /\ Copying'
  BY <1>0, <1>7, <1>10, <1>15, <1>16, StillForking, StillCopying DEF MemInv
<1> QED  BY <1>7, <1>10, <1>11, <1>14, <1>17 DEF MemInv

-----------------------------------------------------------------------------
LEMMA MemNext == MemInv /\ [Next]_vars => MemInv'
<1> SUFFICES ASSUME MemInv, [Next]_vars PROVE MemInv'
  OBVIOUS
<1>1. CASE Next
  <2>1. PICK p \in Proc :
          \/ \E a \in Region \X Page : Fault(p, a) \/ \E v \in Value : UserWrite(p, a, v)
          \/ LackTable(p) \/ LackPage(p)
          \/ CowTable(p) \/ CopyTable(p) \/ CowPage(p) \/ CopyPage(p)
          \/ (\E c \in Proc : Fork(p, c)) \/ ForkRegion(p) \/ ForkDone(p)
    BY <1>1 DEF Next
  <2>2. CASE \E a \in Region \X Page : Fault(p, a) \/ \E v \in Value : UserWrite(p, a, v)
    BY <2>2, FaultStep, UserWriteStep
  <2>3. CASE LackTable(p)
    BY <2>3, LackTableStep
  <2>4. CASE LackPage(p)
    BY <2>4, LackPageStep
  <2>5. CASE CowTable(p)
    BY <2>5, CowTableStep
  <2>6. CASE CopyTable(p)
    BY <2>6, CopyTableStep
  <2>7. CASE CowPage(p)
    BY <2>7, CowPageStep
  <2>8. CASE CopyPage(p)
    BY <2>8, CopyPageStep
  <2>9. CASE \E c \in Proc : Fork(p, c)
    BY <2>9, ForkStep
  <2>10. CASE ForkRegion(p)
    BY <2>10, ForkRegionStep
  <2>11. CASE ForkDone(p)
    BY <2>11, ForkDoneStep
  <2> QED  BY <2>1, <2>2, <2>3, <2>4, <2>5, <2>6, <2>7, <2>8, <2>9, <2>10, <2>11
<1>2. CASE UNCHANGED vars
  <2>1. UNCHANGED <<cat, pte, share, marked, data, next, pc, addr, unread, child, todo, panic>>
    BY <1>2 DEF vars
  <2>2. TypeOK' /\ Forking'
    BY <2>1 DEF MemInv, TypeOK, Forking
  <2>3. InUse' /\ Apart' /\ Private' /\ Counted' /\ PagesCounted'
    BY <2>1, Quiet
  <2>4. Copying'
    BY <2>1 DEF MemInv, Copying, Table, Leaf
  <2> QED  BY <2>2, <2>3, <2>4 DEF MemInv
<1> QED  BY <1>1, <1>2

\* The inductive invariant holds in every behaviour, whatever registers handlers read
\* and whoever forks: mem.c's counts and tables never depend on those restrictions.
THEOREM MemInvAlways == Spec => []MemInv
<1>1. Init => MemInv
  BY MemInit
<1>2. MemInv /\ [Next]_vars => MemInv'
  BY MemNext
<1> QED  BY <1>1, <1>2, PTL DEF Spec

\* A page table that a process may write through is in no other catalog, and the count
\* of a table (desc->share, mem.c) is never below the number of its users, so that
\* process_cow takes a table over only when it is the process's own.
THEOREM TablesAlwaysExact == Spec => []TablesExact
<1>1. MemInv => TablesExact
  <2> SUFFICES ASSUME MemInv PROVE TablesExact
    OBVIOUS
  <2>1. TablesPrivate
    <3> SUFFICES ASSUME NEW p \in Alive, NEW r \in Region, cat[p][r].rw, cat[p][r].at # 0
                 PROVE  UsersOf(cat[p][r].at) = {p}
      BY DEF TablesPrivate
    <3>1. p \in Proc /\ pc[p] # "unborn"
      BY DEF Alive
    <3>2. p \in UsersOf(cat[p][r].at)
      BY <3>1 DEF UsersOf
    <3>3. ASSUME NEW q \in UsersOf(cat[p][r].at) PROVE q = p
      BY <3>1, <3>3 DEF UsersOf, MemInv, Private
    <3> QED  BY <3>2, <3>3
  <2>2. TablesCounted
    <3> SUFFICES ASSUME NEW t \in 1..next PROVE share[t] >= Cardinality(UsersOf(t))
      BY DEF TablesCounted
    <3>1. Cardinality(Refs(t)) <= share[t] /\ share[t] \in Nat
      BY MemAssumption DEF MemInv, Counted, TypeOK, Phys
    <3>2. /\ Cardinality(UsersOf(t)) \in Nat /\ Cardinality(Refs(t)) \in Nat
          /\ Cardinality(UsersOf(t)) <= Cardinality(Refs(t))
      BY FewUsers
    <3> QED  BY <3>1, <3>2
  <2> QED  BY <2>1, <2>2 DEF MemInv, TablesExact
<1> QED  BY <1>1, MemInvAlways, PTL

\* No page is mapped by more than one table beyond its count: the copy that starts one
\* behind (mem.c:356) never falls further back.
THEOREM PagesAlwaysCounted == Spec => []PagesCounted
<1>1. MemInv => PagesCounted
  BY DEF MemInv
<1> QED  BY <1>1, MemInvAlways, PTL

-----------------------------------------------------------------------------
(* No assertion fails, where each handler reads the register in time.      *)

\* The tables that map a page read-only.
ReadOnlyIn(f) == {t \in 1..next : \E i \in Page : pte[t][i].at = f /\ ~ pte[t][i].rw}

\* A table that a catalog refers to read-only is marked, and was shared.
TablesMarked ==
    \A p \in Proc : \A r \in Region :
        cat[p][r].at # 0 /\ ~ cat[p][r].rw => cat[p][r].at \in marked /\ share[cat[p][r].at] >= 2

PagesMarked == \A t \in Phys : \A i \in Page : pte[t][i].at # 0 /\ ~ pte[t][i].rw => pte[t][i].at \in marked

\* Tables are not mapped as pages, and a page has one index in all tables.
Separate == \A p \in Proc : \A r \in Region : \A t \in Phys : \A i \in Page :
                cat[p][r].at # 0 => cat[p][r].at # pte[t][i].at
OneIndex == \A t, u \in Phys : \A i, j \in Page :
                pte[t][i].at # 0 /\ pte[t][i].at = pte[u][j].at => i = j

\* Each table that maps a page read-only is counted.
ReadOnlyCounted == \A f \in 1..next : Cardinality(ReadOnlyIn(f)) <= share[f]

\* The fault is still what the handler takes it for.
Handler(p) ==
    /\ pc[p] = "lack" => Table(p, addr[p]).at # 0 \/ Table(p, addr[p]).rw
    /\ pc[p] \in {"cow", "copy_table"} => Table(p, addr[p]).at # 0 /\ Leaf(p, addr[p]).at # 0
    /\ pc[p] = "cow" /\ Table(p, addr[p]).rw => ~ Leaf(p, addr[p]).rw
Handlers == \A p \in Proc : Handler(p)

Calm ==
    /\ unread = {} /\ ~ panic
    /\ TablesMarked /\ PagesMarked /\ Separate /\ OneIndex /\ ReadOnlyCounted /\ Handlers

LEMMA CalmInit == Init => Calm
<1> SUFFICES ASSUME Init PROVE Calm
  OBVIOUS
<1>1. TablesMarked /\ PagesMarked /\ Separate /\ OneIndex
  BY DEF Init, TablesMarked, PagesMarked, Separate, OneIndex
<1>2. ReadOnlyCounted
  BY DEF Init, ReadOnlyCounted
<1>3. Handlers
  BY MemAssumption DEF Init, Handlers, Handler
<1> QED  BY <1>1, <1>2, <1>3 DEF Init, Calm

LEMMA FewReaders ==
    ASSUME MemInv, NEW f
    PROVE  IsFiniteSet(ReadOnlyIn(f)) /\ Cardinality(ReadOnlyIn(f)) \in Nat
<1>1. next \in Nat /\ IsFiniteSet(1..next)
  BY FS_Interval DEF MemInv, TypeOK
<1>2. ReadOnlyIn(f) \subseteq 1..next
  BY DEF ReadOnlyIn
<1> QED  BY <1>1, <1>2, FS_Subset, FS_CardinalityType

\* Where no table comes to map a page read-only, and counts do not fall.
LEMMA StillReadOnlyCounted ==
    ASSUME MemInv, Calm, Grows,
           \A f \in 1..next' : \/ f <= next /\ ReadOnlyIn(f)' \subseteq ReadOnlyIn(f)
                               \/ ReadOnlyIn(f)' = {}
    PROVE  ReadOnlyCounted'
<1> SUFFICES ASSUME NEW f \in 1..next' PROVE Cardinality(ReadOnlyIn(f)') <= share'[f]
  BY DEF ReadOnlyCounted
<1>1. /\ next' \in Nat /\ next \in Nat /\ f \in Nat /\ share'[f] \in Nat
      /\ f <= next => share[f] \in Nat /\ share[f] <= share'[f]
  BY Grown DEF MemInv
<1>2. CASE f <= next /\ ReadOnlyIn(f)' \subseteq ReadOnlyIn(f)
  <2>1. IsFiniteSet(ReadOnlyIn(f)) /\ Cardinality(ReadOnlyIn(f)) \in Nat
    BY FewReaders
  <2>2. Cardinality(ReadOnlyIn(f)') \in Nat /\ Cardinality(ReadOnlyIn(f)') <= Cardinality(ReadOnlyIn(f))
    BY <1>2, <2>1, Fewer
  <2>3. Cardinality(ReadOnlyIn(f)) <= share[f]
    BY <1>1, <1>2 DEF Calm, ReadOnlyCounted
  <2> QED  BY <1>1, <1>2, <2>1, <2>2, <2>3
<1>3. CASE ReadOnlyIn(f)' = {}
  <2>1. Cardinality(ReadOnlyIn(f)') = 0
    BY <1>3, FS_EmptySet
  <2> QED  BY <1>1, <2>1
<1> QED  BY <1>2, <1>3

\* Tables and counts stay as they are.
LEMMA QuietCalm ==
    ASSUME Calm, UNCHANGED <<cat, pte, share, marked, next>>
    PROVE  TablesMarked' /\ PagesMarked' /\ Separate' /\ OneIndex' /\ ReadOnlyCounted'
<1>1. TablesMarked' /\ PagesMarked' /\ Separate' /\ OneIndex'
  BY DEF Calm, TablesMarked, PagesMarked, Separate, OneIndex
<1>2. ASSUME NEW f PROVE ReadOnlyIn(f)' = ReadOnlyIn(f)
  BY DEF ReadOnlyIn
<1> QED  BY <1>1, <1>2 DEF Calm, ReadOnlyCounted

\* A handler whose process finds what it found before.
LEMMA SameHandler ==
    ASSUME MemInv, Calm, NEW q \in Proc, pc'[q] = pc[q], addr'[q] = addr[q],
           \A x \in Region : cat'[q][x] = cat[q][x],
           \A t \in Phys : \A i \in Page :
               t = Table(q, addr[q]).at => \/ pte'[t][i] = pte[t][i]
                                           \/ ~ Table(q, addr[q]).rw /\ pte'[t][i].at # 0
    PROVE  Handler(q)'
<1> DEFINE a == addr[q]
           t == Table(q, a).at
<1>1. a[1] \in Region /\ a[2] \in Page /\ (t # 0 => t \in Phys)
  BY TableAndLeaf
<1>2. Table(q, addr[q])' = Table(q, a)
  BY <1>1 DEF Table
<1>3. CASE t = 0
  <2>1. Leaf(q, addr[q])' = Leaf(q, a)
    BY <1>2, <1>3 DEF Leaf
  <2> QED  BY <1>2, <2>1 DEF Calm, Handlers, Handler
<1>4. CASE t # 0
  <2>1. Leaf(q, a) = pte[t][a[2]]
    BY <1>4 DEF Leaf
  <2>2. Leaf(q, addr[q])' = pte'[t][a[2]]
    BY <1>2, <1>4 DEF Leaf
  <2>3. \/ pte'[t][a[2]] = pte[t][a[2]]
        \/ ~ Table(q, a).rw /\ pte'[t][a[2]].at # 0
    BY <1>1, <1>4
  <2>4. Handler(q)
    BY DEF Calm, Handlers
  <2> HIDE DEF t, a
  <2>5. CASE pte'[t][a[2]] = pte[t][a[2]]
    <3>1. Leaf(q, addr[q])' = Leaf(q, a)
      BY <2>1, <2>2, <2>5
    <3> QED  BY <1>2, <2>4, <3>1 DEF Handler, a
  <2>6. CASE ~ Table(q, a).rw /\ pte'[t][a[2]].at # 0
    <3>1. Leaf(q, addr[q])'.at # 0
      BY <2>2, <2>6
    <3> QED  BY <1>2, <2>4, <2>6, <3>1 DEF Handler, a
  <2> QED  BY <2>3, <2>5, <2>6
<1> QED  BY <1>3, <1>4

\* A table that p writes through is no other's own.
LEMMA OthersTable ==
    ASSUME MemInv, NEW p \in Proc, NEW q \in Proc, q # p,
           Table(p, addr[p]).at # 0, Table(q, addr[q]).at = Table(p, addr[p]).at
    PROVE  ~ Table(q, addr[q]).rw
  BY TableAndLeaf DEF MemInv, Private

\* An entry of p's table is set to a new page, whatever its count.
LEMMA NewPageCalm ==
    ASSUME MemInv, Calm, Grows, next' = next + 1, NEW p \in Proc,
           UNCHANGED <<cat, marked, addr>>,
           \A f \in 1..next : share'[f] = share[f],
           Table(p, addr[p]).at # 0,
           \A u \in Phys : \A j \in Page :
               pte'[u][j] = IF u = Table(p, addr[p]).at /\ j = addr[p][2]
                            THEN [at |-> next + 1, rw |-> TRUE] ELSE pte[u][j],
           \A q \in Proc : q # p => pc'[q] = pc[q]
    PROVE  /\ TablesMarked' /\ PagesMarked' /\ Separate' /\ OneIndex' /\ ReadOnlyCounted'
           /\ \A q \in Proc : q # p => Handler(q)'
<1> DEFINE t == Table(p, addr[p]).at
           i == addr[p][2]
           e == [at |-> next + 1, rw |-> TRUE]
<1>1. t \in Phys /\ i \in Page /\ t <= next
  BY TableAndLeaf
<1>2. e.at = next + 1 /\ e.rw
  OBVIOUS
<1>3. \A u \in Phys : \A j \in Page : pte'[u][j] = IF u = t /\ j = i THEN e ELSE pte[u][j]
  OBVIOUS
<1>4. \A q \in Proc : q # p /\ Table(q, addr[q]).at = t => ~ Table(q, addr[q]).rw
  BY OthersTable
<1> HIDE DEF e, t, i
<1>5. /\ next \in Nat
      /\ \A q \in Proc : \A x \in Region : cat[q][x].at \in Nat /\ cat[q][x].at <= next
      /\ \A u \in Phys : \A j \in Page : pte[u][j].at \in Nat /\ pte[u][j].at <= next
  BY EntryFields DEF MemInv, InUse, TypeOK
<1>6. TablesMarked'
  <2>1. \A q \in Proc : \A x \in Region : cat[q][x].at # 0 => share'[cat[q][x].at] = share[cat[q][x].at]
    BY <1>5
  <2> QED  BY <2>1 DEF Calm, TablesMarked
<1>7. PagesMarked'
  BY <1>2, <1>3 DEF Calm, PagesMarked
<1>8. Separate'
  BY <1>2, <1>3, <1>5 DEF Calm, Separate
<1>9. OneIndex'
  BY <1>2, <1>3, <1>5 DEF Calm, OneIndex
<1>10. ReadOnlyCounted'
  <2>1. ASSUME NEW f \in 1..next', NEW u \in ReadOnlyIn(f)' PROVE f <= next /\ u \in ReadOnlyIn(f)
    <3>1. u \in 1..(next + 1) /\ u \in Phys
      BY <1>5, Grown DEF ReadOnlyIn, MemInv
    <3>2. PICK j \in Page : pte'[u][j].at = f /\ ~ pte'[u][j].rw
      BY DEF ReadOnlyIn
    <3>3. pte[u][j].at = f /\ ~ pte[u][j].rw
      BY <1>2, <1>3, <3>1, <3>2
    <3>4. f <= next /\ f # 0
      BY <1>5, <3>1, <3>3
    <3>5. u \in 1..next
      <4>1. CASE u > next
        BY <3>1, <3>3, <3>4, <4>1 DEF MemInv, InUse
      <4> QED  BY <1>5, <3>1, <4>1
    <3> QED  BY <3>3, <3>4, <3>5 DEF ReadOnlyIn
  <2> QED  BY <2>1, StillReadOnlyCounted
<1>11. ASSUME NEW q \in Proc, q # p PROVE Handler(q)'
  <2>1. \A u \in Phys : \A j \in Page :
            u = Table(q, addr[q]).at => \/ pte'[u][j] = pte[u][j]
                                        \/ ~ Table(q, addr[q]).rw /\ pte'[u][j].at # 0
    BY <1>2, <1>3, <1>4, <1>5, <1>11
  <2> QED  BY <1>11, <2>1, SameHandler
<1> QED  BY <1>6, <1>7, <1>8, <1>9, <1>10, <1>11

Gentle == LateRegions = FALSE /\ LateRead = FALSE

LEMMA UserWriteCalm ==
    ASSUME MemInv, Calm, NEW p \in Proc, NEW a \in Region \X Page, NEW v \in Value,
           UserWrite(p, a, v)
    PROVE  Calm'
<1>1. UNCHANGED <<cat, pte, share, marked, next, pc, addr, unread, child, todo, panic>>
  BY DEF UserWrite, cr2
<1>2. \A q \in Proc : Handler(q)'
  BY <1>1, SameHandler
<1> QED  BY <1>1, <1>2, QuietCalm DEF Calm, Handlers

LEMMA FaultCalm ==
    ASSUME Gentle, MemInv, Calm, NEW p \in Proc, NEW a \in Region \X Page, Fault(p, a)
    PROVE  Calm'
<1>1. /\ UNCHANGED <<cat, pte, share, marked, data, next, child, todo, panic>>
      /\ ~ Writable(p, a) /\ (Table(p, a).at # 0 \/ Table(p, a).rw)
      /\ addr' = [q \in Proc |-> IF q = p \/ q \in unread THEN a ELSE addr[q]]
      /\ unread' = {} /\ unread = {}
      /\ pc' = [pc EXCEPT ![p] = IF Present(p, a) THEN "cow" ELSE "lack"]
  BY DEF Fault, Goto, Calm, Gentle, desc
<1>2. /\ addr'[p] = a /\ pc'[p] = IF Present(p, a) THEN "cow" ELSE "lack"
      /\ \A q \in Proc : q # p => pc'[q] = pc[q] /\ addr'[q] = addr[q]
  BY <1>1 DEF MemInv, TypeOK
<1>3. Handler(p)'
  <2>1. Table(p, addr[p])' = Table(p, a) /\ Leaf(p, addr[p])' = Leaf(p, a)
    BY <1>1, <1>2 DEF Table, Leaf
  <2> QED  BY <1>1, <1>2, <2>1 DEF Handler, Present, Writable
<1>4. \A q \in Proc : q # p => Handler(q)'
  BY <1>1, <1>2, SameHandler
<1> QED  BY <1>1, <1>3, <1>4, QuietCalm DEF Calm, Handlers

LEMMA LackTableCalm ==
    ASSUME MemInv, Calm, NEW p \in Proc, LackTable(p)
    PROVE  Calm'
<1> DEFINE r == addr[p][1]
           e == [at |-> next + 1, rw |-> TRUE]
<1>0. /\ ~panic /\ pc[p] = "lack" /\ TakePage(1, image) /\ Table(p, addr[p]).at = 0
      /\ panic' = (panic \/ ~ Table(p, addr[p]).rw)
      /\ cat' = [cat EXCEPT ![p][r] = e] /\ unread' = unread \ {p}
      /\ UNCHANGED <<addr, pte, marked, pc, child, todo>>
  BY DEF LackTable, At, Read, kassert
<1>1. r \in Region /\ image \in Value /\ e.at = next + 1 /\ e.rw
  BY MemAssumption DEF MemInv, TypeOK
<1>2. /\ Grows /\ next' = next + 1 /\ share'[next + 1] = 1
      /\ \A f \in 1..next : share'[f] = share[f]
  <2>1. Grows /\ next' = next + 1 /\ share'[next + 1] = 1
    BY <1>0, <1>1, Taken
  <2>2. next \in Nat /\ share' = [share EXCEPT ![next + 1] = 1] /\ \A f \in 1..next : f # next + 1
    BY <1>0 DEF TakePage, MemInv, TypeOK
  <2> QED  BY <2>1, <2>2 DEF MemInv, TypeOK, Phys
<1>3. \A q \in Proc : \A x \in Region : cat'[q][x] = IF q = p /\ x = r THEN e ELSE cat[q][x]
  <2>1. share'[next + 1] >= 1
    BY <1>2
  <2> QED  BY <1>0, <1>1, <1>2, <2>1, NewTable
<1> HIDE DEF r, e
<1>5. /\ next \in Nat
      /\ \A q \in Proc : \A x \in Region : cat[q][x].at \in Nat /\ cat[q][x].at <= next
      /\ \A u \in Phys : \A j \in Page : pte[u][j].at \in Nat /\ pte[u][j].at <= next
  BY EntryFields DEF MemInv, InUse, TypeOK
<1>6. TablesMarked'
  <2>1. \A q \in Proc : \A x \in Region : cat[q][x].at # 0 => share'[cat[q][x].at] = share[cat[q][x].at]
    BY <1>2, <1>5
  <2> QED  BY <1>0, <1>1, <1>3, <2>1 DEF Calm, TablesMarked
<1>7. PagesMarked' /\ OneIndex'
  BY <1>0 DEF Calm, PagesMarked, OneIndex
<1>8. Separate'
  BY <1>0, <1>1, <1>3, <1>5 DEF Calm, Separate
<1>9. ReadOnlyCounted'
  <2>1. ASSUME NEW f \in 1..next', NEW u \in ReadOnlyIn(f)' PROVE f <= next /\ u \in ReadOnlyIn(f)
    <3>1. u \in 1..(next + 1) /\ u \in Phys
      BY <1>2, <1>5, Grown DEF ReadOnlyIn, MemInv
    <3>2. PICK j \in Page : pte[u][j].at = f /\ ~ pte[u][j].rw
      BY <1>0 DEF ReadOnlyIn
    <3>3. f <= next /\ f # 0
      BY <1>2, <1>5, <3>1, <3>2
    <3>4. u \in 1..next
      <4>1. CASE u > next
        BY <3>1, <3>2, <3>3, <4>1 DEF MemInv, InUse
      <4> QED  BY <1>5, <3>1, <4>1
    <3> QED  BY <3>2, <3>3, <3>4 DEF ReadOnlyIn
  <2> QED  BY <1>2, <2>1, StillReadOnlyCounted
<1>10. Handler(p)'
  <2>1. Table(p, addr[p])' = e
    BY <1>0, <1>1, <1>3 DEF Table, r
  <2> QED  BY <1>0, <1>1, <1>5, <2>1 DEF Handler
<1>11. ASSUME NEW q \in Proc, q # p PROVE Handler(q)'
  BY <1>0, <1>3, <1>11, SameHandler
<1>12. unread' = {} /\ ~panic'
  BY <1>0 DEF Calm, Handlers, Handler
<1> QED  BY <1>6, <1>7, <1>8, <1>9, <1>10, <1>11, <1>12 DEF Calm, Handlers

LEMMA LackPageCalm ==
    ASSUME MemInv, Calm, NEW p \in Proc, LackPage(p)
    PROVE  Calm'
<1> DEFINE t == Table(p, addr[p]).at
           i == addr[p][2]
<1>0. /\ ~panic /\ t # 0 /\ TakePage(1, image)
      /\ pc' = [pc EXCEPT ![p] = "user"] /\ unread' = unread \ {p}
      /\ UNCHANGED <<cat, marked, addr, child, todo, panic>>
  BY DEF LackPage, At, Goto, Read
<1>n. pte' = [pte EXCEPT ![t][i] = [at |-> next + 1, rw |-> TRUE]]
  BY DEF LackPage
<1>1. t \in Phys /\ t <= next /\ i \in Page
  BY <1>0, TableAndLeaf
<1>2. Grows /\ next' = next + 1
  BY <1>0, MemAssumption, Taken
<1>3. \A f \in 1..next : share'[f] = share[f]
  <2>1. next \in Nat /\ share' = [share EXCEPT ![next + 1] = 1] /\ \A f \in 1..next : f # next + 1
    BY <1>0 DEF TakePage, MemInv, TypeOK
  <2> QED  BY <2>1 DEF MemInv, TypeOK
<1>4. \A u \in Phys : \A j \in Page :
          pte'[u][j] = IF u = t /\ j = i THEN [at |-> next + 1, rw |-> TRUE] ELSE pte[u][j]
  BY <1>n, <1>1, <1>2, NewPage
<1>5. pc'[p] = "user" /\ \A q \in Proc : q # p => pc'[q] = pc[q]
  BY <1>0 DEF MemInv, TypeOK
<1>6. /\ TablesMarked' /\ PagesMarked' /\ Separate' /\ OneIndex' /\ ReadOnlyCounted'
      /\ \A q \in Proc : q # p => Handler(q)'
  BY <1>0, <1>2, <1>3, <1>4, <1>5, NewPageCalm
<1>7. Handler(p)'
  BY <1>5 DEF Handler
<1>8. unread' = {} /\ ~panic'
  BY <1>0 DEF Calm
<1> QED  BY <1>6, <1>7, <1>8 DEF Calm, Handlers

LEMMA CopyPageCalm ==
    ASSUME MemInv, Calm, NEW p \in Proc, CopyPage(p)
    PROVE  Calm'
<1> DEFINE t == Table(p, addr[p]).at
           i == addr[p][2]
<1>0. /\ ~panic /\ pc[p] = "copy_page" /\ TakePage(0, data[Leaf(p, addr[p]).at])
      /\ pc' = [pc EXCEPT ![p] = "user"]
      /\ UNCHANGED <<cat, marked, addr, unread, child, todo, panic>>
  BY DEF CopyPage, At, Goto, cr2
<1>n. pte' = [pte EXCEPT ![t][i] = [at |-> next + 1, rw |-> TRUE]]
  BY DEF CopyPage
<1>c. Table(p, addr[p]).at # 0 /\ Leaf(p, addr[p]).at # 0
  BY <1>0 DEF MemInv, Copying
<1>1. t \in Phys /\ t <= next /\ i \in Page
  BY <1>c, TableAndLeaf
<1>d. data[Leaf(p, addr[p]).at] \in Value
  BY <1>c, TableAndLeaf DEF MemInv, TypeOK
<1>2. Grows /\ next' = next + 1
  BY <1>0, <1>d, Taken
<1>3. \A f \in 1..next : share'[f] = share[f]
  <2>1. next \in Nat /\ share' = [share EXCEPT ![next + 1] = 0] /\ \A f \in 1..next : f # next + 1
    BY <1>0 DEF TakePage, MemInv, TypeOK
  <2> QED  BY <2>1 DEF MemInv, TypeOK
<1>4. \A u \in Phys : \A j \in Page :
          pte'[u][j] = IF u = t /\ j = i THEN [at |-> next + 1, rw |-> TRUE] ELSE pte[u][j]
  BY <1>n, <1>1, <1>2, NewPage
<1>5. pc'[p] = "user" /\ \A q \in Proc : q # p => pc'[q] = pc[q]
  BY <1>0 DEF MemInv, TypeOK
<1>6. /\ TablesMarked' /\ PagesMarked' /\ Separate' /\ OneIndex' /\ ReadOnlyCounted'
      /\ \A q \in Proc : q # p => Handler(q)'
  BY <1>0, <1>c, <1>2, <1>3, <1>4, <1>5, NewPageCalm
<1>7. Handler(p)'
  BY <1>5 DEF Handler
<1> QED  BY <1>0, <1>6, <1>7 DEF Calm, Handlers

\* The table is always copied: a table that is read-only was shared, and its count
\* stays when it is copied.
LEMMA CowTableCopies ==
    ASSUME MemInv, Calm, NEW p \in Proc, CowTable(p)
    PROVE  /\ pc[p] = "cow" /\ ~ Table(p, addr[p]).rw
           /\ Table(p, addr[p]).at # 0 /\ Leaf(p, addr[p]).at # 0
           /\ pc' = [pc EXCEPT ![p] = "copy_table"] /\ unread' = {} /\ ~ panic'
           /\ UNCHANGED <<cat, pte, marked, addr, share, data, next, child, todo>>
<1> DEFINE t == Table(p, addr[p])
           ok == t.at # 0 /\ t.at \in marked /\ share[t.at] >= 1
<1>0. /\ pc[p] = "cow" /\ ~ t.rw /\ panic' = (panic \/ ~ok) /\ unread' = unread \ {p}
      /\ UNCHANGED <<addr, share, data, next, child, todo>>
  BY DEF CowTable, At, kassert, Read
<1>1. /\ addr[p][1] \in Region /\ t = cat[p][addr[p][1]]
      /\ t.at # 0 /\ t.at \in Phys /\ Leaf(p, addr[p]).at # 0
  BY <1>0, TableAndLeaf DEF Calm, Handlers, Handler
<1>2. t.at \in marked /\ share[t.at] >= 2 /\ share[t.at] \in Nat
  BY <1>0, <1>1 DEF Calm, TablesMarked, MemInv, TypeOK
<1>3. ok /\ share[t.at] > 1
  BY <1>1, <1>2
<1>4. pc' = [pc EXCEPT ![p] = "copy_table"] /\ UNCHANGED <<cat, pte, marked>>
  <2>1. IF ok => share[t.at] > 1
        THEN pc' = [pc EXCEPT ![p] = "copy_table"] /\ UNCHANGED <<cat, pte, marked>>
        ELSE TRUE
    BY DEF CowTable, Goto
  <2> QED  BY <1>3, <2>1
<1>5. unread' = {} /\ ~ panic'
  BY <1>0, <1>3 DEF Calm
<1> QED  BY <1>0, <1>1, <1>4, <1>5

LEMMA CowTableCalm ==
    ASSUME MemInv, Calm, NEW p \in Proc, CowTable(p)
    PROVE  Calm'
<1>1. /\ ~ Table(p, addr[p]).rw
      /\ Table(p, addr[p]).at # 0 /\ Leaf(p, addr[p]).at # 0
      /\ pc' = [pc EXCEPT ![p] = "copy_table"] /\ unread' = {} /\ ~ panic'
      /\ UNCHANGED <<cat, pte, marked, addr, share, data, next, child, todo>>
  BY CowTableCopies
<1>2. pc'[p] = "copy_table" /\ \A q \in Proc : q # p => pc'[q] = pc[q]
  BY <1>1 DEF MemInv, TypeOK
<1>3. Handler(p)'
  <2>1. Table(p, addr[p])' = Table(p, addr[p]) /\ Leaf(p, addr[p])' = Leaf(p, addr[p])
    BY <1>1 DEF Table, Leaf
  <2> QED  BY <1>1, <1>2, <2>1 DEF Handler
<1>4. ASSUME NEW q \in Proc, q # p PROVE Handler(q)'
  BY <1>1, <1>2, <1>4, SameHandler
<1> QED  BY <1>1, <1>3, <1>4, QuietCalm DEF Calm, Handlers

LEMMA ForkCalm ==
    ASSUME MemInv, Calm, NEW p \in Proc, NEW c \in Proc, Fork(p, c)
    PROVE  Calm'
<1>0. /\ pc' = [pc EXCEPT ![p] = "fork", ![c] = "birth"]
      /\ UNCHANGED <<cat, pte, share, marked, data, next, addr, unread, panic>>
  BY DEF Fork, At, desc, cr2
<1>1. \A q \in Proc : pc'[q] \in {"fork", "birth"} \/ pc'[q] = pc[q]
  BY <1>0 DEF MemInv, TypeOK
<1>2. ASSUME NEW q \in Proc PROVE Handler(q)'
  <2>1. CASE pc'[q] \in {"fork", "birth"}
    BY <2>1 DEF Handler
  <2>2. CASE pc'[q] = pc[q]
    BY <1>0, <2>2, SameHandler
  <2> QED  BY <1>1, <2>1, <2>2
<1> QED  BY <1>0, <1>2, QuietCalm DEF Calm, Handlers

LEMMA ForkDoneCalm ==
    ASSUME MemInv, Calm, NEW p \in Proc, ForkDone(p)
    PROVE  Calm'
<1>0. /\ pc' = [pc EXCEPT ![p] = "user", ![child[p]] = "user"]
      /\ UNCHANGED <<cat, pte, share, marked, data, next, addr, unread, child, todo, panic>>
  BY DEF ForkDone, At, desc, cr2
<1>1. \A q \in Proc : pc'[q] = "user" \/ pc'[q] = pc[q]
  BY <1>0 DEF MemInv, TypeOK
<1>2. ASSUME NEW q \in Proc PROVE Handler(q)'
  <2>1. CASE pc'[q] = "user"
    BY <2>1 DEF Handler
  <2>2. CASE pc'[q] = pc[q]
    BY <1>0, <2>2, SameHandler
  <2> QED  BY <1>1, <2>1, <2>2
<1> QED  BY <1>0, <1>2, QuietCalm DEF Calm, Handlers

LEMMA ForkRegionCalm ==
    ASSUME MemInv, Calm, NEW p \in Proc, ForkRegion(p)
    PROVE  Calm'
<1> DEFINE c == child[p]
           r == todo[p]
           e == [cat[p][r] EXCEPT !.rw = FALSE]
<1>0. /\ ~panic /\ pc[p] = "fork" /\ r \in Region
      /\ UNCHANGED <<pte, data, next, pc, addr, unread, child, panic>>
      /\ marked' = IF e.at # 0 THEN marked \union {e.at} ELSE marked
      /\ share' = IF e.at # 0 THEN [share EXCEPT ![e.at] = @ + 1] ELSE share
  BY DEF ForkRegion, At, cr2
<1>n. cat' = [cat EXCEPT ![p][r] = e, ![c][r] = e]
  BY DEF ForkRegion
<1>1. c \in Proc /\ pc[c] = "birth" /\ p # c
  BY <1>0 DEF MemInv, TypeOK, Forking
<1>2. cat \in [Proc -> [Region -> Entry]] /\ cat[p][r] \in Entry /\ next \in Nat /\ next <= MaxPages
  BY <1>0, MemAssumption DEF MemInv, TypeOK
<1>3. e \in Entry /\ e.at = cat[p][r].at /\ ~e.rw
  BY <1>2, EntryFields
<1>4. e.at \in Nat /\ (e.at # 0 => e.at \in Phys /\ e.at \in 1..next /\ share[e.at] >= 1 /\ share[e.at] \in Nat)
  <2>1. e.at \in Nat /\ e.at <= next
    BY <1>0, <1>2, <1>3, EntryFields DEF MemInv, InUse
  <2>2. ASSUME e.at # 0 PROVE share[e.at] >= 1 /\ share[e.at] \in Nat
    <3>1. p \in Refs(e.at) /\ IsFiniteSet(Refs(e.at)) /\ Cardinality(Refs(e.at)) \in Nat
      BY <1>0, <1>3, FewUsers DEF Refs
    <3>2. Cardinality(Refs(e.at)) # 0
      BY <3>1, FS_EmptySet
    <3>3. e.at \in 1..next /\ e.at \in Phys
      BY <1>2, <2>1, <2>2, MemAssumption DEF Phys
    <3>4. Cardinality(Refs(e.at)) <= share[e.at] /\ share[e.at] \in Nat
      BY <3>3 DEF MemInv, Counted, TypeOK
    <3> QED  BY <3>1, <3>2, <3>4
  <2> QED  BY <1>2, <2>1, <2>2, MemAssumption DEF Phys
<1> HIDE DEF c, r, e
<1>5. \A q \in Proc : \A x \in Region :
          cat'[q][x] = IF q \in {p, c} /\ x = r THEN e ELSE cat[q][x]
  <2> DEFINE d == [cat EXCEPT ![p][r] = e]
  <2>1. /\ d \in [Proc -> [Region -> Entry]]
        /\ \A q \in Proc : \A x \in Region :
               d[q][x] = IF q = p /\ x = r THEN e ELSE cat[q][x]
    BY <1>0, <1>2, <1>3, CatSet
  <2>2. cat' = [d EXCEPT ![c][r] = e]
    BY <1>n
  <2> HIDE DEF d
  <2>3. \A q \in Proc : \A x \in Region :
               cat'[q][x] = IF q = c /\ x = r THEN e ELSE d[q][x]
    BY <1>0, <1>1, <1>3, <2>1, <2>2, CatSet
  <2> QED  BY <2>1, <2>3
<1>6. /\ \A f \in Phys : share[f] \in Nat /\ share'[f] \in Nat /\ share[f] <= share'[f]
      /\ e.at # 0 => share'[e.at] >= 2
  <2>1. share \in [Phys -> Nat]
    BY DEF MemInv, TypeOK
  <2> QED  BY <1>0, <1>4, <2>1
<1>7. TablesMarked'
  <2>1. \A q \in Proc : \A x \in Region : cat[q][x].at # 0 => cat[q][x].at \in Phys
    BY <1>2, EntryFields
  <2>2. ASSUME NEW q \in Proc, NEW x \in Region, cat'[q][x].at # 0, ~ cat'[q][x].rw
        PROVE  cat'[q][x].at \in marked' /\ share'[cat'[q][x].at] >= 2
    <3>1. CASE q \in {p, c} /\ x = r
      BY <1>0, <1>5, <1>6, <2>2, <3>1
    <3>2. CASE ~ (q \in {p, c} /\ x = r)
      <4>1. cat'[q][x] = cat[q][x]
        BY <1>5, <3>2
      <4>2. cat[q][x].at \in marked /\ share[cat[q][x].at] >= 2
        BY <2>2, <4>1 DEF Calm, TablesMarked
      <4>3. cat[q][x].at \in Phys
        BY <2>1, <2>2, <4>1
      <4> QED  BY <1>0, <1>6, <4>1, <4>2, <4>3
    <3> QED  BY <3>1, <3>2
  <2> QED  BY <2>2 DEF TablesMarked
<1>8. PagesMarked' /\ OneIndex'
  BY <1>0 DEF Calm, PagesMarked, OneIndex
<1>9. Separate'
  <2>1. \A q \in Proc : \A x \in Region : \E o \in Proc : cat'[q][x].at = cat[o][x].at
    BY <1>0, <1>3, <1>5
  <2>2. ASSUME NEW q \in Proc, NEW x \in Region, NEW t \in Phys, NEW i \in Page, cat'[q][x].at # 0
        PROVE  cat'[q][x].at # pte'[t][i].at
    <3>1. PICK o \in Proc : cat'[q][x].at = cat[o][x].at
      BY <2>1
    <3> QED  BY <1>0, <2>2, <3>1 DEF Calm, Separate
  <2> QED  BY <2>2 DEF Separate
<1>10. ReadOnlyCounted'
  <2>1. Grows
    <3>1. \A f \in 1..next : f \in Phys
      BY <1>2, MemAssumption DEF Phys
    <3>2. share' \in [Phys -> Nat]
      BY <1>0, <1>4, <1>6 DEF MemInv, TypeOK
    <3> QED  BY <1>0, <1>2, <1>6, <3>1, <3>2 DEF Grows
  <2>2. \A f \in 1..next' : f <= next /\ ReadOnlyIn(f)' \subseteq ReadOnlyIn(f)
    BY <1>0, <1>2 DEF ReadOnlyIn
  <2> QED  BY <2>1, <2>2, StillReadOnlyCounted
<1>11. ASSUME NEW q \in Proc PROVE Handler(q)'
  <2>1. CASE q \in {p, c}
    <3>1. pc'[q] \in {"fork", "birth"}
      BY <1>0, <1>1, <2>1
    <3> QED  BY <3>1 DEF Handler
  <2>2. CASE q \notin {p, c}
    BY <1>0, <1>5, <2>2, SameHandler
  <2> QED  BY <2>1, <2>2
<1> QED  BY <1>0, <1>7, <1>8, <1>9, <1>10, <1>11 DEF Calm, Handlers

\* The page is read-only in this table, so marked and counted; with a count of 1, it
\* is read-only in no other table.
LEMMA CowPageCalm ==
    ASSUME MemInv, Calm, NEW p \in Proc, CowPage(p)
    PROVE  Calm'
<1> DEFINE t == Table(p, addr[p]).at
           i == addr[p][2]
           f == Leaf(p, addr[p])
           ok == ~f.rw /\ f.at # 0 /\ f.at \in marked /\ share[f.at] >= 1
<1>0. /\ pc[p] = "cow" /\ Table(p, addr[p]).rw /\ panic' = (panic \/ ~ ok) /\ unread' = unread \ {p}
      /\ UNCHANGED <<cat, addr, share, data, next, child, todo>>
  BY DEF CowPage, At, kassert, Read
<1>1. t # 0 /\ ~ f.rw /\ f.at # 0
  BY <1>0 DEF Calm, Handlers, Handler
<1>2. /\ i \in Page /\ t \in Phys /\ t \in 1..next /\ f = pte[t][i] /\ f \in Entry /\ f.at \in Phys
      /\ f.at \in Nat
  BY <1>1, TableAndLeaf, EntryFields DEF Leaf
<1>3. f.at \in marked
  BY <1>1, <1>2 DEF Calm, PagesMarked
<1>4. f.at \in 1..next
  BY <1>1, <1>2 DEF MemInv, InUse, TypeOK
<1>5. t \in ReadOnlyIn(f.at)
  BY <1>1, <1>2 DEF ReadOnlyIn
<1>6. /\ IsFiniteSet(ReadOnlyIn(f.at)) /\ Cardinality(ReadOnlyIn(f.at)) \in Nat
      /\ Cardinality(ReadOnlyIn(f.at)) <= share[f.at] /\ share[f.at] \in Nat
  BY <1>2, <1>4, FewReaders DEF Calm, ReadOnlyCounted, MemInv, TypeOK
<1>7. share[f.at] >= 1
  <2>1. Cardinality(ReadOnlyIn(f.at)) # 0
    BY <1>5, <1>6, FS_EmptySet
  <2> QED  BY <1>6, <2>1
<1>8. unread' = {} /\ ~ panic'
  BY <1>0, <1>1, <1>3, <1>7 DEF Calm
<1>9. CASE pc' = [pc EXCEPT ![p] = "copy_page"] /\ UNCHANGED <<pte, marked>>
  <2>1. pc'[p] = "copy_page" /\ \A q \in Proc : q # p => pc'[q] = pc[q]
    BY <1>9 DEF MemInv, TypeOK
  <2>2. Handler(p)'
    BY <2>1 DEF Handler
  <2>3. ASSUME NEW q \in Proc, q # p PROVE Handler(q)'
    BY <1>0, <1>9, <2>1, <2>3, SameHandler
  <2> QED  BY <1>0, <1>8, <1>9, <2>2, <2>3, QuietCalm DEF Calm, Handlers
<1>10. CASE /\ share[f.at] = 1 /\ pc' = [pc EXCEPT ![p] = "user"]
            /\ pte' = [pte EXCEPT ![t][i].rw = TRUE]
            /\ marked' = marked \ {f.at}
  <2> DEFINE e == [f EXCEPT !.rw = TRUE]
  <2>1. e \in Entry /\ e.at = f.at /\ e.rw
    BY <1>2, EntryFields
  <2>2. \A u \in Phys : \A j \in Page : pte'[u][j] = IF u = t /\ j = i THEN e ELSE pte[u][j]
    <3>1. pte \in [Phys -> [Page -> Entry]]
      BY DEF MemInv, TypeOK
    <3>2. pte' = [pte EXCEPT ![t][i] = e]
      BY <1>2, <1>10
    <3> HIDE DEF e, t, i, f
    <3> QED  BY <1>2, <2>1, <3>1, <3>2, PteSet
  <2>3. ReadOnlyIn(f.at) = {t}
    <3>1. Cardinality(ReadOnlyIn(f.at)) = 1
      <4>1. Cardinality(ReadOnlyIn(f.at)) # 0
        BY <1>5, <1>6, FS_EmptySet
      <4> QED  BY <1>6, <1>10, <4>1
    <3>2. PICK x : ReadOnlyIn(f.at) = {x}
      BY <1>6, <3>1, FS_Singleton
    <3> QED  BY <1>5, <3>2
  <2>4. \A q \in Proc : q # p /\ Table(q, addr[q]).at = t => ~ Table(q, addr[q]).rw
    BY <1>1, OthersTable
  <2>5. pc'[p] = "user" /\ \A q \in Proc : q # p => pc'[q] = pc[q]
    BY <1>10 DEF MemInv, TypeOK
  <2>6. next \in Nat /\ \A u \in Phys : \A j \in Page : pte[u][j].at # 0 => u \in 1..next
    BY MemAssumption DEF MemInv, InUse, TypeOK, Phys
  <2>7. \A q \in Proc : \A x \in Region : cat[q][x].at # 0 => cat[q][x].at # f.at
    BY <1>2 DEF Calm, Separate
  <2>8. \A u \in Phys : \A j \in Page : f.at = pte[u][j].at => i = j
    BY <1>1, <1>2 DEF Calm, OneIndex
  <2> HIDE DEF e, t, i, f
  <2>9. TablesMarked'
    BY <1>0, <1>10, <2>7 DEF Calm, TablesMarked
  <2>10. ASSUME NEW u \in Phys, NEW j \in Page, pte'[u][j].at # 0, ~ pte'[u][j].rw
         PROVE  pte'[u][j].at \in marked'
    <3>1. ~ (u = t /\ j = i) /\ pte'[u][j] = pte[u][j]
      BY <2>1, <2>2, <2>10
    <3>2. pte[u][j].at \in marked
      BY <2>10, <3>1 DEF Calm, PagesMarked
    <3>3. ASSUME pte[u][j].at = f.at PROVE FALSE
      <4>1. u \in ReadOnlyIn(f.at)
        BY <2>6, <2>10, <3>1, <3>3 DEF ReadOnlyIn
      <4> QED  BY <2>3, <2>8, <3>1, <3>3, <4>1
    <3> QED  BY <1>10, <3>1, <3>2, <3>3
  <2>11. \A u \in Phys : \A j \in Page : pte'[u][j].at = pte[u][j].at
    BY <1>2, <2>1, <2>2
  <2>12. Separate' /\ OneIndex'
    BY <1>0, <2>11 DEF Calm, Separate, OneIndex
  <2>13. ReadOnlyCounted'
    <3>1. Grows
      BY <1>0, MemAssumption DEF MemInv, TypeOK, Grows, Phys
    <3>2. ASSUME NEW g, NEW u \in ReadOnlyIn(g)' PROVE u \in ReadOnlyIn(g)
      <4>1. u \in 1..next /\ u \in Phys
        BY <1>0, <2>6, <3>1, Grown DEF ReadOnlyIn, MemInv
      <4>2. PICK j \in Page : pte'[u][j].at = g /\ ~ pte'[u][j].rw
        BY DEF ReadOnlyIn
      <4> QED  BY <2>1, <2>2, <4>1, <4>2 DEF ReadOnlyIn
    <3>3. \A g \in 1..next' : g <= next /\ ReadOnlyIn(g)' \subseteq ReadOnlyIn(g)
      BY <1>0, <2>6, <3>2
    <3> QED  BY <3>1, <3>3, StillReadOnlyCounted
  <2>14. Handler(p)'
    BY <2>5 DEF Handler
  <2>15. ASSUME NEW q \in Proc, q # p PROVE Handler(q)'
    <3>1. \A u \in Phys : \A j \in Page :
              u = Table(q, addr[q]).at => \/ pte'[u][j] = pte[u][j]
                                          \/ ~ Table(q, addr[q]).rw /\ pte'[u][j].at # 0
      BY <1>1, <2>1, <2>2, <2>4, <2>15
    <3> QED  BY <1>0, <2>5, <2>15, <3>1, SameHandler
  <2> QED  BY <1>8, <2>9, <2>10, <2>12, <2>13, <2>14, <2>15 DEF Calm, Handlers, PagesMarked
<1> QED
  <2>1. ok
    BY <1>1, <1>3, <1>7
  <2>2. IF ok => share[f.at] > 1
        THEN pc' = [pc EXCEPT ![p] = "copy_page"] /\ UNCHANGED <<pte, marked>>
        ELSE /\ pc' = [pc EXCEPT ![p] = "user"] /\ pte' = [pte EXCEPT ![t][i].rw = TRUE]
             /\ marked' = marked \ {f.at}
    BY DEF CowPage, Goto
  <2>3. share[f.at] > 1 \/ share[f.at] = 1
    BY <1>6, <1>7
  <2> HIDE DEF ok, t, i, f
  <2> QED  BY <1>6, <1>9, <1>10, <2>1, <2>2, <2>3

LEMMA CopyTableCalm ==
    ASSUME MemInv, Calm, NEW p \in Proc, CopyTable(p)
    PROVE  Calm'
<1> DEFINE r   == addr[p][1]
           t   == Table(p, addr[p]).at
           old == pte[t]
           n   == next + 1
           e   == [at |-> n, rw |-> TRUE]
<1>0. /\ ~panic /\ pc[p] = "copy_table" /\ next < MaxPages /\ next' = n
      /\ share' = [f \in Phys |-> IF f = n THEN 1
                                  ELSE IF f \in Mapped(old) THEN share[f] + 1 ELSE share[f]]
      /\ marked' = marked \union Mapped(old)
      /\ pc' = [pc EXCEPT ![p] = "cow"]
      /\ UNCHANGED <<data, addr, unread, child, todo, panic>>
  BY DEF CopyTable, At, Goto, cr2
<1>n. pte' = [pte EXCEPT ![n] = ReadOnly(old)]
  BY DEF CopyTable
<1>c. cat' = [cat EXCEPT ![p][r] = e]
  BY DEF CopyTable
<1>1. /\ r \in Region /\ addr[p][2] \in Page /\ t # 0 /\ t \in Phys /\ old \in [Page -> Entry]
      /\ t = cat[p][r].at /\ Leaf(p, addr[p]) = old[addr[p][2]] /\ Leaf(p, addr[p]).at # 0
  BY <1>0, TableAndLeaf DEF Calm, Handlers, Handler, Leaf
<1>2. /\ next \in Nat /\ n \in Phys /\ n \in Nat /\ n <= MaxPages /\ n > next /\ n # 0
      /\ \A f \in 1..next : f \in Phys /\ f # n /\ f # 0
      /\ e.at = n /\ e.rw /\ e \in Entry
  <2>1. next \in Nat /\ next < MaxPages
    BY <1>0 DEF MemInv, TypeOK
  <2>2. n \in Nat /\ n <= MaxPages /\ n > next /\ n # 0 /\ \A f \in 1..next : f # n /\ f # 0
    BY <2>1, MemAssumption
  <2>3. n \in Phys /\ \A f \in 1..next : f \in Phys
    BY <2>1, MemAssumption DEF Phys
  <2> HIDE DEF n
  <2>4. e.at = n /\ e.rw
    OBVIOUS
  <2>5. e \in Entry
    BY <2>2, NewEntry
  <2> QED  BY <2>1, <2>2, <2>3, <2>4, <2>5
<1>3. /\ \A q \in Proc : \A x \in Region : cat[q][x].at \in Nat /\ cat[q][x].at <= next
      /\ \A u \in Phys : \A i \in Page : pte[u][i].at \in Nat /\ pte[u][i].at <= next
  BY EntryFields DEF MemInv, TypeOK, InUse
<1>4. \A i \in Page : ReadOnly(old)[i].at = old[i].at /\ ~ ReadOnly(old)[i].rw
  <2> HIDE DEF old, t
  <2> QED  BY <1>1, ReadOnlyTable
<1>5. \A u \in Phys : pte'[u] = IF u = n THEN ReadOnly(old) ELSE pte[u]
  BY <1>n, <1>2 DEF MemInv, TypeOK
<1>6. \A q \in Proc : \A x \in Region : cat'[q][x] = IF q = p /\ x = r THEN e ELSE cat[q][x]
  <2>1. cat \in [Proc -> [Region -> Entry]]
    BY DEF MemInv, TypeOK
  <2> HIDE DEF e, r
  <2> QED  BY <1>c, <1>1, <1>2, <2>1, CatSet
<1>m. \A f : f \in Mapped(old) <=> f # 0 /\ \E i \in Page : old[i].at = f
  BY <1>1, MappedPages
<1>7. /\ \A f \in Phys : share[f] \in Nat /\ share'[f] \in Nat
      /\ share'[n] = 1
      /\ \A f \in Phys : f # n => share'[f] = IF f \in Mapped(old) THEN share[f] + 1 ELSE share[f]
  BY <1>0, <1>2 DEF MemInv, TypeOK
<1>8. \A i \in Page : old[i] = pte[t][i]
  OBVIOUS
<1> HIDE DEF r, t, old, n, e
<1>9. Grows
  <2>1. next' \in Nat /\ next <= next' /\ next' <= MaxPages
    BY <1>0, <1>2
  <2>2. \A f \in 1..next : share[f] <= share'[f]
    BY <1>2, <1>7
  <2>3. share' \in [Phys -> Nat]
    BY <1>0, <1>7
  <2> QED  BY <2>1, <2>2, <2>3 DEF Grows
<1>10. TablesMarked'
  <2>1. ASSUME NEW q \in Proc, NEW x \in Region, cat'[q][x].at # 0, ~ cat'[q][x].rw
        PROVE  cat'[q][x].at \in marked' /\ share'[cat'[q][x].at] >= 2
    <3>1. cat'[q][x] = cat[q][x] /\ cat[q][x].at \in 1..next
      BY <1>2, <1>3, <1>6, <2>1
    <3>2. cat[q][x].at \in marked /\ share[cat[q][x].at] >= 2
      BY <2>1, <3>1 DEF Calm, TablesMarked
    <3>3. /\ cat[q][x].at \in Phys /\ share[cat[q][x].at] \in Nat
          /\ share'[cat[q][x].at] \in Nat /\ share[cat[q][x].at] <= share'[cat[q][x].at]
      BY <1>2, <1>7, <1>9, <3>1 DEF Grows
    <3> QED  BY <1>0, <3>1, <3>2, <3>3
  <2> QED  BY <2>1 DEF TablesMarked
<1>11. PagesMarked'
  <2>1. ASSUME NEW u \in Phys, NEW j \in Page, pte'[u][j].at # 0, ~ pte'[u][j].rw
        PROVE  pte'[u][j].at \in marked'
    <3>1. CASE u = n
      <4>1. pte'[u][j].at = old[j].at
        BY <1>4, <1>5, <3>1
      <4> QED  BY <1>0, <1>m, <2>1, <4>1
    <3>2. CASE u # n
      BY <1>0, <1>5, <2>1, <3>2 DEF Calm, PagesMarked
    <3> QED  BY <3>1, <3>2
  <2> QED  BY <2>1 DEF PagesMarked
<1>12. \A u \in Phys : \A j \in Page : \E v \in Phys : pte'[u][j].at = pte[v][j].at
  BY <1>1, <1>4, <1>5, <1>8
<1>13. Separate'
  <2>1. ASSUME NEW q \in Proc, NEW x \in Region, NEW u \in Phys, NEW j \in Page, cat'[q][x].at # 0
        PROVE  cat'[q][x].at # pte'[u][j].at
    <3>1. PICK v \in Phys : pte'[u][j].at = pte[v][j].at
      BY <1>12
    <3>2. pte[v][j].at \in Nat /\ pte[v][j].at <= next
      BY <1>3
    <3>3. CASE cat'[q][x] = cat[q][x]
      BY <2>1, <3>1, <3>3 DEF Calm, Separate
    <3>4. CASE cat'[q][x] = e
      BY <1>2, <3>1, <3>2, <3>4
    <3> QED  BY <1>6, <3>3, <3>4
  <2> QED  BY <2>1 DEF Separate
<1>14. OneIndex'
  <2>1. ASSUME NEW u1 \in Phys, NEW u2 \in Phys, NEW j1 \in Page, NEW j2 \in Page,
               pte'[u1][j1].at # 0, pte'[u1][j1].at = pte'[u2][j2].at
        PROVE  j1 = j2
    <3>1. PICK v1 \in Phys : pte'[u1][j1].at = pte[v1][j1].at
      BY <1>12
    <3>2. PICK v2 \in Phys : pte'[u2][j2].at = pte[v2][j2].at
      BY <1>12
    <3>3. pte[v1][j1].at # 0 /\ pte[v1][j1].at = pte[v2][j2].at
      BY <2>1, <3>1, <3>2
    <3> QED  BY <3>3 DEF Calm, OneIndex
  <2> QED  BY <2>1 DEF OneIndex
<1>15. ASSUME NEW f \in 1..next', NEW u \in ReadOnlyIn(f)'
       PROVE  /\ f \in 1..next
              /\ u \in ReadOnlyIn(f) \/ (u = n /\ f \in Mapped(old))
  <2>1. u \in 1..n /\ u \in Phys
    BY <1>0, <1>2, <1>9, Grown DEF ReadOnlyIn, MemInv
  <2>2. PICK j \in Page : pte'[u][j].at = f /\ ~ pte'[u][j].rw
    BY DEF ReadOnlyIn
  <2>3. PICK v \in Phys : pte'[u][j].at = pte[v][j].at
    BY <1>12, <2>1
  <2>4. f \in 1..next
    BY <1>0, <1>2, <1>3, <2>2, <2>3
  <2>5. CASE u = n
    <3>1. old[j].at = f
      BY <1>2, <1>4, <1>5, <2>2, <2>5
    <3> QED  BY <1>2, <1>m, <2>4, <2>5, <3>1
  <2>6. CASE u # n
    <3>1. u \in 1..next /\ pte'[u] = pte[u]
      BY <1>2, <1>5, <2>1, <2>6 DEF n
    <3> QED  BY <2>2, <2>4, <3>1 DEF ReadOnlyIn
  <2> QED  BY <2>5, <2>6
<1>16. ReadOnlyCounted'
  <2> SUFFICES ASSUME NEW f \in 1..next' PROVE Cardinality(ReadOnlyIn(f)') <= share'[f]
    BY DEF ReadOnlyCounted
  <2>1. share'[f] \in Nat
    BY <1>9, Grown DEF MemInv
  <2>2. CASE f \in 1..next
    <3>1. /\ IsFiniteSet(ReadOnlyIn(f)) /\ Cardinality(ReadOnlyIn(f)) \in Nat
          /\ Cardinality(ReadOnlyIn(f)) <= share[f] /\ share[f] \in Nat /\ f # n
      BY <1>2, <1>7, <2>2, FewReaders DEF Calm, ReadOnlyCounted
    <3>2. CASE f \in Mapped(old)
      <4>1. ReadOnlyIn(f)' \subseteq ReadOnlyIn(f) \union {n}
        BY <1>15
      <4>2. /\ IsFiniteSet(ReadOnlyIn(f) \union {n})
            /\ Cardinality(ReadOnlyIn(f) \union {n}) <= Cardinality(ReadOnlyIn(f)) + 1
        <5> DEFINE R == ReadOnlyIn(f)
        <5>1. IsFiniteSet(R) /\ Cardinality(R) \in Nat
          BY <3>1
        <5> HIDE DEF R
        <5>2. /\ IsFiniteSet(R \union {n})
              /\ Cardinality(R \union {n}) = Cardinality(R) \/ Cardinality(R \union {n}) = Cardinality(R) + 1
          BY <5>1, FS_AddElement
        <5>3. Cardinality(R \union {n}) <= Cardinality(R) + 1
          BY <5>1, <5>2
        <5> QED  BY <5>2, <5>3 DEF R
      <4>3. /\ Cardinality(ReadOnlyIn(f)') \in Nat /\ Cardinality(ReadOnlyIn(f) \union {n}) \in Nat
            /\ Cardinality(ReadOnlyIn(f)') <= Cardinality(ReadOnlyIn(f) \union {n})
        BY <4>1, <4>2, Fewer
      <4>4. share'[f] = share[f] + 1
        BY <1>2, <1>7, <2>2, <3>1, <3>2
      <4> QED  BY <3>1, <4>2, <4>3, <4>4
    <3>3. CASE f \notin Mapped(old)
      <4>1. ReadOnlyIn(f)' \subseteq ReadOnlyIn(f)
        BY <1>15, <3>3
      <4>2. /\ Cardinality(ReadOnlyIn(f)') \in Nat
            /\ Cardinality(ReadOnlyIn(f)') <= Cardinality(ReadOnlyIn(f))
        BY <3>1, <4>1, Fewer
      <4>3. share'[f] = share[f]
        BY <1>2, <1>7, <2>2, <3>1, <3>3
      <4> QED  BY <3>1, <4>2, <4>3
    <3> QED  BY <3>2, <3>3
  <2>3. CASE f \notin 1..next
    <3>1. ReadOnlyIn(f)' = {}
      BY <1>15, <2>3
    <3>2. Cardinality(ReadOnlyIn(f)') = 0
      BY <3>1, FS_EmptySet
    <3> QED  BY <2>1, <3>2
  <2> QED  BY <2>2, <2>3
<1>17. pc'[p] = "cow" /\ \A q \in Proc : q # p => pc'[q] = pc[q]
  BY <1>0 DEF MemInv, TypeOK
<1>18. Handler(p)'
  <2>1. Table(p, addr[p])' = e
    BY <1>0, <1>1, <1>6 DEF Table, r
  <2>2. Leaf(p, addr[p])' = ReadOnly(old)[addr[p][2]]
    BY <1>0, <1>2, <1>5, <2>1 DEF Leaf
  <2> QED  BY <1>1, <1>2, <1>4, <1>17, <2>1, <2>2 DEF Handler
<1>19. ASSUME NEW q \in Proc, q # p PROVE Handler(q)'
  <2>1. Table(q, addr[q]).at # n
    BY <1>2, <1>3, TableAndLeaf
  <2>2. \A x \in Region : cat'[q][x] = cat[q][x]
    BY <1>6, <1>19
  <2>3. \A u \in Phys : \A i \in Page : u = Table(q, addr[q]).at => pte'[u][i] = pte[u][i]
    BY <1>5, <2>1
  <2> QED  BY <1>0, <1>17, <1>19, <2>2, <2>3, SameHandler
<1> QED  BY <1>0, <1>10, <1>11, <1>13, <1>14, <1>16, <1>18, <1>19 DEF Calm, Handlers

LEMMA CalmNext ==
    ASSUME Gentle, MemInv, Calm, [Next]_vars
    PROVE  Calm'
<1>1. CASE Next
  <2>1. PICK p \in Proc :
          \/ \E a \in Region \X Page : Fault(p, a) \/ \E v \in Value : UserWrite(p, a, v)
          \/ LackTable(p) \/ LackPage(p)
          \/ CowTable(p) \/ CopyTable(p) \/ CowPage(p) \/ CopyPage(p)
          \/ (\E c \in Proc : Fork(p, c)) \/ ForkRegion(p) \/ ForkDone(p)
    BY <1>1 DEF Next
  <2> QED  BY <2>1, UserWriteCalm, FaultCalm, LackTableCalm, LackPageCalm, CowTableCalm,
               CopyTableCalm, CowPageCalm, CopyPageCalm, ForkCalm, ForkRegionCalm, ForkDoneCalm
<1>2. CASE UNCHANGED vars
  <2>1. UNCHANGED <<cat, pte, share, marked, data, next, pc, addr, unread, child, todo, panic>>
    BY <1>2 DEF vars
  <2>2. \A q \in Proc : Handler(q)'
    BY <2>1, SameHandler
  <2> QED  BY <2>1, <2>2, QuietCalm DEF Calm, Handlers
<1> QED  BY <1>1, <1>2

\* No assertion of process_cow fails and process_lack_page finds the bits it expects,
\* where handlers read the register in time and no process touches a region that was
\* empty when it forked: whoever faults, copies and forks meanwhile, and also where
\* processes that have copied a page fork.
THEOREM NeverPanic == Gentle => (Spec => []NoPanic)
<1> SUFFICES ASSUME Gentle PROVE Spec => []NoPanic
  OBVIOUS
<1>1. Init => Calm
  BY CalmInit
<1>2. MemInv /\ Calm /\ [Next]_vars => Calm'
  BY CalmNext
<1>3. Calm => NoPanic
  BY DEF Calm, NoPanic
<1> QED  BY <1>1, <1>2, <1>3, MemInvAlways, PTL DEF Spec

-----------------------------------------------------------------------------
(* Copy on write gives every process a memory of its own.                  *)

Address == Region \X Page

\* A page that a process may write is one entry of one table.
Sole ==
    \A p \in Proc : \A a \in Address : Writable(p, a) =>
        \A u \in Phys : \A j \in Page :
            pte[u][j].at = Leaf(p, a).at => u = Table(p, a).at /\ j = a[2]

\* What is shared, or about to be, is counted: the pages of a table that was shared
\* or whose process forks; and a page that is read-only counts two at least.
ForkCounted ==
    \A p \in Proc : \A a \in Address :
        Present(p, a) /\ (~ Table(p, a).rw \/ pc[p] = "fork") => share[Leaf(p, a).at] >= 1
ReadOnlyShared ==
    \A t \in Phys : \A i \in Page :
        pte[t][i].at # 0 /\ ~ pte[t][i].rw => share[pte[t][i].at] >= 2

\* A handler that copies a table shares it, one that copies a page owns the table, and
\* where a page is missing the process reads what the program has there.
AtWork(p) ==
    /\ pc[p] = "copy_table" => ~ Table(p, addr[p]).rw
    /\ pc[p] = "copy_page" => Table(p, addr[p]).rw
    /\ pc[p] = "lack" => View(p, addr[p]) = image

\* The child has the regions that mem_fork has done.
Forked(p) ==
    pc[p] = "fork" =>
        \A r \in Region : r < todo[p] => cat[child[p]][r].at = cat[p][r].at

OwnInv == Sole /\ ForkCounted /\ ReadOnlyShared /\ \A p \in Proc : AtWork(p) /\ Forked(p)

LEMMA Sees ==
    ASSUME MemInv, NEW q \in Proc, NEW a \in Address
    PROVE  /\ a[1] \in Region /\ a[2] \in Page /\ a = <<a[1], a[2]>>
           /\ Table(q, a) = cat[q][a[1]] /\ Table(q, a) \in Entry
           /\ Present(q, a) <=> Table(q, a).at # 0 /\ pte[Table(q, a).at][a[2]].at # 0
           /\ Table(q, a).at # 0 =>
                  /\ Table(q, a).at \in Phys /\ Table(q, a).at \in 1..next
                  /\ Leaf(q, a) = pte[Table(q, a).at][a[2]]
           /\ Present(q, a) => Leaf(q, a).at \in Phys /\ Leaf(q, a).at \in 1..next
<1> USE DEF MemInv
<1>1. a[1] \in Region /\ a[2] \in Page /\ a = <<a[1], a[2]>>
  BY DEF Address
<1>2. Table(q, a) = cat[q][a[1]] /\ Table(q, a) \in Entry /\ Table(q, a).at <= next
  BY <1>1 DEF TypeOK, InUse, Table
<1>3. /\ Table(q, a).at \in Nat /\ next \in Nat
      /\ Table(q, a).at # 0 => Table(q, a).at \in Phys
  BY <1>2, EntryFields DEF TypeOK
<1>4. Table(q, a).at # 0 => Leaf(q, a) = pte[Table(q, a).at][a[2]]
  BY DEF Leaf
<1>5. Present(q, a) <=> Table(q, a).at # 0 /\ pte[Table(q, a).at][a[2]].at # 0
  BY <1>4 DEF Present
<1>6. ASSUME Present(q, a) PROVE Leaf(q, a).at \in Phys /\ Leaf(q, a).at \in 1..next
  <2>1. Leaf(q, a) \in Entry /\ Leaf(q, a).at <= next /\ Leaf(q, a).at # 0
    BY <1>1, <1>3, <1>4, <1>5, <1>6 DEF TypeOK, InUse
  <2> QED  BY <1>3, <2>1, EntryFields
<1> QED  BY <1>1, <1>2, <1>3, <1>4, <1>5, <1>6

\* Where the tables lead a process to the same page, and the page stays as it is.
LEMMA SameView ==
    ASSUME MemInv, NEW q \in Proc, NEW a \in Address,
           cat'[q][a[1]].at = cat[q][a[1]].at,
           \A t \in Phys : t = Table(q, a).at => pte'[t][a[2]].at = pte[t][a[2]].at
    PROVE  /\ Table(q, a)'.at = Table(q, a).at
           /\ Present(q, a)' <=> Present(q, a)
           /\ Leaf(q, a)'.at = Leaf(q, a).at
           /\ (\A f \in 1..next : data'[f] = data[f]) => View(q, a)' = View(q, a)
<1>1. Table(q, a)'.at = Table(q, a).at
  BY DEF Table
<1>2. Leaf(q, a)'.at = Leaf(q, a).at
  <2>1. CASE Table(q, a).at = 0
    BY <1>1, <2>1 DEF Leaf
  <2>2. CASE Table(q, a).at # 0
    <3>1. Table(q, a).at \in Phys /\ Leaf(q, a) = pte[Table(q, a).at][a[2]]
      BY <2>2, Sees
    <3>2. Leaf(q, a)' = pte'[Table(q, a).at][a[2]]
      BY <1>1, <2>2 DEF Leaf
    <3> QED  BY <3>1, <3>2
  <2> QED  BY <2>1, <2>2
<1>3. Present(q, a)' <=> Present(q, a)
  BY <1>1, <1>2 DEF Present
<1>4. ASSUME \A f \in 1..next : data'[f] = data[f]
      PROVE  View(q, a)' = View(q, a)
  <2>1. CASE ~ Present(q, a)
    BY <1>3, <2>1 DEF View
  <2>2. CASE Present(q, a)
    <3>1. Leaf(q, a).at \in 1..next
      BY <2>2, Sees
    <3> QED  BY <1>2, <1>3, <1>4, <2>2, <3>1 DEF View
  <2> QED  BY <2>1, <2>2
<1> QED  BY <1>1, <1>2, <1>3, <1>4

\* The memories that the abstract specification speaks of.
Memory == [p \in Proc |-> [a \in Region \X Page |-> IF p \in Alive THEN View(p, a) ELSE image]]

\* What a step that nobody sees leaves: who is alive, and what they read.
Unseen == Alive' = Alive /\ \A q \in Alive : \A a \in Address : View(q, a)' = View(q, a)

LEMMA StutterStep ==
    ASSUME Unseen
    PROVE  UNCHANGED P!pvars
<1>1. Memory' = Memory
  BY DEF Unseen, Memory, Address
<1> QED  BY <1>1 DEF Unseen, Memory, P!pvars

LEMMA WriteStep ==
    ASSUME NEW p \in Alive, NEW b \in Address, NEW v \in Value, Alive' = Alive,
           View(p, b)' = v,
           \A q \in Alive : \A a \in Address : ~ (q = p /\ a = b) => View(q, a)' = View(q, a)
    PROVE  P!Write(p, b, v)
<1>1. p \in Proc
  BY DEF Alive
<1>2. Memory' = [Memory EXCEPT ![p][b] = v]
  BY <1>1 DEF Memory, Address
<1> QED  BY <1>2 DEF Memory, P!Write

LEMMA BirthStep ==
    ASSUME NEW p \in Alive, NEW c \in Proc \ Alive, Alive' = Alive \union {c},
           \A q \in Alive : \A a \in Address : View(q, a)' = View(q, a),
           \A a \in Address : View(c, a)' = View(p, a)
    PROVE  P!Fork(p, c)
<1>1. p \in Proc
  BY DEF Alive
<1>2. Memory' = [Memory EXCEPT ![c] = Memory[p]]
  BY <1>1 DEF Memory, Address
<1> QED  BY <1>2 DEF Memory, P!Fork

-----------------------------------------------------------------------------
(* The parts of OwnInv that a step leaves alone. *)

LEMMA StillAtWork ==
    ASSUME MemInv, OwnInv, NEW q \in Proc, pc'[q] = pc[q], addr'[q] = addr[q],
           pc[q] = "lack" => \A a \in Address : View(q, a)' = View(q, a),
           pc[q] \in {"copy_table", "copy_page"} =>
               \A x \in Region : cat'[q][x].rw = cat[q][x].rw
    PROVE  AtWork(q)'
<1> DEFINE a == addr[q]
<1>1. a \in Address /\ a[1] \in Region /\ AtWork(q)
  BY Sees DEF MemInv, OwnInv, TypeOK, Address
<1>2. View(q, addr[q])' = View(q, a)' /\ Table(q, addr[q])' = Table(q, a)'
  BY DEF View, Present, Leaf, Table
<1>3. Table(q, a)' = cat'[q][a[1]] /\ Table(q, a) = cat[q][a[1]]
  BY DEF Table
<1> HIDE DEF a
<1> QED  BY <1>1, <1>2, <1>3 DEF AtWork, a

LEMMA StillForked ==
    ASSUME NEW q \in Proc, Forked(q), pc'[q] = "fork" => pc[q] = "fork",
           pc[q] = "fork" =>
               /\ todo'[q] = todo[q] /\ child'[q] = child[q]
               /\ \A x \in Region : /\ cat'[q][x] = cat[q][x]
                                    /\ cat'[child[q]][x] = cat[child[q]][x]
    PROVE  Forked(q)'
  BY DEF Forked

\* A read-only page counts two as long as no page becomes read-only.
LEMMA StillShared ==
    ASSUME MemInv, OwnInv, Grows,
           \A t \in Phys : \A i \in Page :
               pte'[t][i] = pte[t][i] \/ pte'[t][i].rw
    PROVE  ReadOnlyShared'
<1>1. ASSUME NEW t \in Phys, NEW i \in Page, pte'[t][i].at # 0, ~ pte'[t][i].rw
      PROVE  share'[pte'[t][i].at] >= 2
  <2>1. pte'[t][i] = pte[t][i]
    BY <1>1
  <2>2. share[pte[t][i].at] >= 2
    BY <1>1, <2>1 DEF OwnInv, ReadOnlyShared
  <2>3. pte[t][i].at \in 1..next
    BY <1>1, <2>1, EntryFields DEF MemInv, TypeOK, InUse
  <2>4. share[pte[t][i].at] \in Nat /\ share'[pte[t][i].at] \in Nat
        /\ share[pte[t][i].at] <= share'[pte[t][i].at]
    BY <2>3, Grown DEF MemInv
  <2> QED  BY <2>1, <2>2, <2>4
<1> QED  BY <1>1 DEF ReadOnlyShared

\* No table and no count changes, and no fork starts.
LEMMA QuietOwn ==
    ASSUME MemInv, OwnInv, UNCHANGED <<cat, pte, share>>
    PROVE  /\ Sole' /\ ReadOnlyShared'
           /\ (\A q \in Proc : pc'[q] = "fork" => pc[q] = "fork") => ForkCounted'
           /\ next' = next /\ data' = data =>
                  \A q \in Proc : \A a \in Address : View(q, a)' = View(q, a)
           /\ \A q \in Proc : \A a \in Address : Table(q, a)' = Table(q, a)
<1>1. \A q \in Proc : \A a \in Address :
          /\ Table(q, a)' = Table(q, a) /\ Leaf(q, a)' = Leaf(q, a)
          /\ Present(q, a)' <=> Present(q, a)
          /\ Writable(q, a)' <=> Writable(q, a)
  BY DEF Table, Leaf, Present, Writable
<1>2. Sole'
  BY <1>1 DEF OwnInv, Sole
<1>3. ReadOnlyShared'
  BY DEF OwnInv, ReadOnlyShared
<1>4. (\A q \in Proc : pc'[q] = "fork" => pc[q] = "fork") => ForkCounted'
  BY <1>1 DEF OwnInv, ForkCounted
<1>5. next' = next /\ data' = data =>
          \A q \in Proc : \A a \in Address : View(q, a)' = View(q, a)
  BY <1>1 DEF View
<1> QED  BY <1>1, <1>2, <1>3, <1>4, <1>5

\* Who is alive stays, but for a birth at the end of a fork.
LEMMA SameAlive ==
    ASSUME \A q \in Proc : pc[q] \in {"unborn", "birth"} <=> pc'[q] \in {"unborn", "birth"}
    PROVE  Alive' = Alive
  BY DEF Alive

-----------------------------------------------------------------------------
(* The program. *)

\* What p writes it reads, and nobody else: the page is one entry of one table, the
\* table serves one region of one process.
LEMMA UserWriteOwn ==
    ASSUME MemInv, OwnInv, NEW p \in Proc, NEW b \in Address, NEW v \in Value, UserWrite(p, b, v)
    PROVE  OwnInv' /\ P!Write(p, b, v)
<1> DEFINE f == Leaf(p, b).at
<1>0. /\ pc[p] = "user" /\ Writable(p, b) /\ data' = [data EXCEPT ![f] = v]
      /\ UNCHANGED <<cat, pte, share, marked, next, pc, addr, unread, child, todo, panic>>
  BY DEF UserWrite, At, cr2
<1>1. Present(p, b) /\ Table(p, b).rw /\ f \in Phys /\ Table(p, b).at # 0
  BY <1>0, Sees DEF Writable, Present
<1>2. data'[f] = v /\ \A g \in Phys : g # f => data'[g] = data[g]
  BY <1>0, <1>1 DEF MemInv, TypeOK
<1>3. \A q \in Proc : \A a \in Address :
          /\ Table(q, a)' = Table(q, a) /\ Leaf(q, a)' = Leaf(q, a)
          /\ Present(q, a)' <=> Present(q, a)
  BY <1>0 DEF Table, Leaf, Present
<1> HIDE DEF f
<1>4. View(p, b)' = v
  BY <1>1, <1>2, <1>3 DEF View, f
<1>5. ASSUME NEW q \in Proc, NEW a \in Address, ~ (q = p /\ a = b)
      PROVE  View(q, a)' = View(q, a)
  <2>1. CASE ~ Present(q, a)
    BY <1>3, <2>1 DEF View
  <2>2. CASE Present(q, a)
    <3>1. Leaf(q, a).at # f
      <4> SUFFICES ASSUME Leaf(q, a).at = f PROVE FALSE
        OBVIOUS
      <4>1. Table(q, a).at \in Phys /\ a[2] \in Page /\ pte[Table(q, a).at][a[2]].at = f
        BY <2>2, Sees
      <4>2. Table(q, a).at = Table(p, b).at /\ a[2] = b[2]
        BY <1>0, <4>1 DEF OwnInv, Sole, f
      <4>3. /\ a[1] \in Region /\ b[1] \in Region
            /\ Table(q, a) = cat[q][a[1]] /\ Table(p, b) = cat[p][b[1]]
        BY Sees
      <4>4. q = p /\ a[1] = b[1]
        BY <1>1, <4>2, <4>3 DEF MemInv, Private, Apart
      <4>5. a = b
        BY <4>2, <4>4, Sees
      <4> QED  BY <1>5, <4>4, <4>5
    <3>2. Leaf(q, a).at \in Phys
      BY <2>2, Sees
    <3> QED  BY <1>2, <1>3, <2>2, <3>1, <3>2 DEF View
  <2> QED  BY <2>1, <2>2
<1>6. p \in Alive /\ Alive \subseteq Proc /\ Alive' = Alive
  BY <1>0 DEF Alive
<1>7. P!Write(p, b, v)
  BY <1>4, <1>5, <1>6, WriteStep
<1>8. Sole' /\ ReadOnlyShared' /\ ForkCounted'
  BY <1>0, QuietOwn
<1>9. ASSUME NEW q \in Proc PROVE AtWork(q)' /\ Forked(q)'
  <2>1. pc[q] = "lack" => q # p
    BY <1>0
  <2>2. AtWork(q)'
    BY <1>0, <1>5, <2>1, StillAtWork
  <2>3. Forked(q)'
    BY <1>0, StillForked DEF OwnInv
  <2> QED  BY <2>2, <2>3
<1> QED  BY <1>7, <1>8, <1>9 DEF OwnInv

\* A step that changes neither tables, counts nor pages, of a process that is and stays
\* alive, and neither starts nor ends a fork.
LEMMA QuietStep ==
    ASSUME MemInv, OwnInv, UNCHANGED <<cat, pte, share, data, next, child, todo>>, NEW p \in Proc,
           pc[p] \notin {"unborn", "birth", "fork"}, pc'[p] \notin {"unborn", "birth", "fork"},
           \A q \in Proc : q # p => pc'[q] = pc[q] /\ addr'[q] = addr[q],
           AtWork(p)'
    PROVE  OwnInv' /\ Unseen
<1>1. /\ Sole' /\ ReadOnlyShared' /\ ForkCounted'
      /\ \A q \in Proc : \A a \in Address :
             View(q, a)' = View(q, a) /\ Table(q, a)' = Table(q, a)
  BY QuietOwn
<1>2. ASSUME NEW q \in Proc PROVE AtWork(q)' /\ Forked(q)'
  <2>1. q # p => AtWork(q)'
    BY <1>1, StillAtWork
  <2>2. Forked(q)'
    BY StillForked DEF OwnInv
  <2> QED  BY <2>1, <2>2
<1>3. Alive' = Alive /\ Alive \subseteq Proc
  BY DEF Alive
<1> QED  BY <1>1, <1>2, <1>3 DEF OwnInv, Unseen

LEMMA FaultOwn ==
    ASSUME Gentle, MemInv, Calm, OwnInv, NEW p \in Proc, NEW a \in Region \X Page, Fault(p, a)
    PROVE  OwnInv' /\ Unseen
<1>1. /\ pc[p] = "user" /\ UNCHANGED <<cat, pte, share, data, next, child, todo>>
      /\ addr' = [q \in Proc |-> IF q = p \/ q \in unread THEN a ELSE addr[q]] /\ unread = {}
      /\ pc' = [pc EXCEPT ![p] = IF Present(p, a) THEN "cow" ELSE "lack"]
  BY DEF Fault, At, Goto, Calm, desc
<1>2. /\ addr'[p] = a /\ pc'[p] = IF Present(p, a) THEN "cow" ELSE "lack"
      /\ \A q \in Proc : q # p => pc'[q] = pc[q] /\ addr'[q] = addr[q]
  BY <1>1 DEF MemInv, TypeOK
<1>3. AtWork(p)'
  <2>1. Present(p, addr[p])' <=> Present(p, a)
    BY <1>1, <1>2 DEF Present, Table, Leaf
  <2> QED  BY <1>2, <2>1 DEF AtWork, View
<1> QED  BY <1>1, <1>2, <1>3, QuietStep

\* A new table maps nothing, so its process reads what it read in the empty region.
LEMMA LackTableOwn ==
    ASSUME MemInv, Calm, OwnInv, NEW p \in Proc, LackTable(p)
    PROVE  OwnInv' /\ Unseen
<1> DEFINE r == addr[p][1]
           n == next + 1
<1>0. /\ pc[p] = "lack" /\ TakePage(1, image) /\ Table(p, addr[p]).at = 0
      /\ cat' = [cat EXCEPT ![p][r] = [at |-> n, rw |-> TRUE]]
      /\ UNCHANGED <<addr, pte, marked, pc, child, todo>>
  BY DEF LackTable, At, Read
<1>1. addr[p] \in Address /\ r \in Region /\ image \in Value /\ cat[p][r].at = 0
  BY <1>0, MemAssumption DEF MemInv, TypeOK, Address, Table
<1>2. Grows /\ next' = n /\ share'[n] >= 1
  BY <1>0, <1>1, Taken
<1>3. \A q \in Proc : \A x \in Region :
          cat'[q][x] = IF q = p /\ x = r THEN [at |-> n, rw |-> TRUE] ELSE cat[q][x]
  BY <1>0, <1>1, <1>2, NewTable
<1>4. next \in Nat /\ n \in Phys /\ n # 0 /\ \A i \in Page : pte[n][i].at = 0
  <2>1. next \in Nat /\ n \in Phys
    BY <1>2, MemAssumption DEF MemInv, TypeOK, Grows, Phys
  <2> QED  BY <2>1 DEF MemInv, InUse
<1>5. \A f \in 1..next : data'[f] = data[f]
  <2>1. data' = [data EXCEPT ![n] = image] /\ \A f \in 1..next : f # n /\ f \in Phys
    BY <1>0, <1>2, <1>4, Grown DEF TakePage, MemInv
  <2> QED  BY <2>1 DEF MemInv, TypeOK
<1>t. [at |-> n, rw |-> TRUE].at = n
  OBVIOUS
<1> HIDE DEF r, n
\* Its new region.
<1>6. ASSUME NEW a \in Address, a[1] = r
      PROVE  ~ Present(p, a)' /\ View(p, a)' = View(p, a)
  <2>1. a[2] \in Page /\ ~ Present(p, a)
    BY <1>1, <1>6, Sees
  <2>2. Table(p, a)'.at = n
    BY <1>1, <1>3, <1>6, <1>t DEF Table
  <2>3. Leaf(p, a)'.at = 0
    BY <1>0, <1>4, <2>1, <2>2 DEF Leaf
  <2> QED  BY <2>1, <2>3 DEF Present, View
\* Everything else.
<1>7. ASSUME NEW q \in Proc, NEW a \in Address, ~ (q = p /\ a[1] = r)
      PROVE  /\ Table(q, a)' = Table(q, a) /\ Leaf(q, a)' = Leaf(q, a)
             /\ Present(q, a)' <=> Present(q, a)
             /\ View(q, a)' = View(q, a)
  <2>1. a[1] \in Region
    BY Sees
  <2>2. cat'[q][a[1]] = cat[q][a[1]]
    BY <1>3, <1>7, <2>1
  <2>3. Table(q, a)' = Table(q, a)
    BY <2>2 DEF Table
  <2>4. Leaf(q, a)' = Leaf(q, a) /\ (Present(q, a)' <=> Present(q, a))
    BY <1>0, <2>3 DEF Leaf, Present
  <2> QED  BY <1>0, <1>5, <2>2, <2>3, <2>4, SameView
<1>8. Sole'
  <2>1. ASSUME NEW q \in Proc, NEW a \in Address, Writable(q, a)'
        PROVE  ~ (q = p /\ a[1] = r) /\ Writable(q, a)
    BY <1>6, <1>7, <2>1 DEF Writable
  <2>2. ASSUME NEW q \in Proc, NEW a \in Address, Writable(q, a)',
               NEW u \in Phys, NEW j \in Page, pte'[u][j].at = Leaf(q, a)'.at
        PROVE  u = Table(q, a)'.at /\ j = a[2]
    <3>1. Writable(q, a) /\ Table(q, a)' = Table(q, a) /\ Leaf(q, a)' = Leaf(q, a)
      BY <1>7, <2>1, <2>2
    <3> QED  BY <1>0, <2>2, <3>1 DEF OwnInv, Sole
  <2> QED  BY <2>2 DEF Sole
<1>9. ForkCounted'
  <2>1. ASSUME NEW q \in Proc, NEW a \in Address, Present(q, a)',
               ~ Table(q, a)'.rw \/ pc'[q] = "fork"
        PROVE  share'[Leaf(q, a)'.at] >= 1
    <3>1. ~ (q = p /\ a[1] = r)
      BY <1>6, <2>1
    <3>2. Present(q, a) /\ Leaf(q, a)' = Leaf(q, a) /\ share[Leaf(q, a).at] >= 1
      BY <1>0, <1>7, <2>1, <3>1 DEF OwnInv, ForkCounted
    <3>3. Leaf(q, a).at \in 1..next
      BY <3>2, Sees
    <3>4. /\ share[Leaf(q, a).at] \in Nat /\ share'[Leaf(q, a).at] \in Nat
          /\ share[Leaf(q, a).at] <= share'[Leaf(q, a).at]
      BY <1>2, <3>3, Grown DEF MemInv
    <3> QED  BY <3>2, <3>4
  <2> QED  BY <2>1 DEF ForkCounted
<1>10. ReadOnlyShared'
  BY <1>0, <1>2, StillShared
<1>11. \A q \in Proc : \A a \in Address : View(q, a)' = View(q, a)
  BY <1>6, <1>7
<1>12. ASSUME NEW q \in Proc PROVE AtWork(q)' /\ Forked(q)'
  <2>1. AtWork(q)'
    <3>1. pc[q] \in {"copy_table", "copy_page"} => q # p
      BY <1>0
    <3> QED  BY <1>0, <1>3, <1>11, <3>1, StillAtWork
  <2>2. Forked(q)'
    <3>1. ASSUME pc[q] = "fork"
          PROVE  q # p /\ child[q] \in Proc /\ child[q] # p
      BY <1>0, <3>1 DEF MemInv, Forking, TypeOK
    <3> QED  BY <1>0, <1>3, <3>1, StillForked DEF OwnInv
  <2> QED  BY <2>1, <2>2
<1> QED  BY <1>0, <1>8, <1>9, <1>10, <1>11, <1>12, SameAlive DEF OwnInv, Unseen, Alive

\* An entry of p's table is set to a new page, which holds what p read there: so did
\* all who share the table.  The page counts one, unless it goes into a table of p's own.
LEMMA NewPageOwn ==
    ASSUME MemInv, OwnInv, Grows, next' = next + 1, UNCHANGED cat, NEW p \in Proc,
           Table(p, addr[p]).at # 0,
           \A u \in Phys : \A j \in Page :
               pte'[u][j] = IF u = Table(p, addr[p]).at /\ j = addr[p][2]
                            THEN [at |-> next + 1, rw |-> TRUE] ELSE pte[u][j],
           \A f \in 1..next : data'[f] = data[f], data'[next + 1] = View(p, addr[p]),
           share'[next + 1] >= 1 \/ Table(p, addr[p]).rw,
           pc[p] # "fork", \A q \in Proc : pc'[q] = "fork" => pc[q] = "fork"
    PROVE  /\ Sole' /\ ForkCounted' /\ ReadOnlyShared'
           /\ \A q \in Proc : \A a \in Address : View(q, a)' = View(q, a)
<1> DEFINE b == addr[p]
           t == Table(p, b).at
           n == next + 1
           e == [at |-> n, rw |-> TRUE]
<1>1. /\ b \in Address /\ b[1] \in Region /\ b[2] \in Page /\ t \in Phys
      /\ Table(p, b) = cat[p][b[1]] /\ Leaf(p, b) = pte[t][b[2]]
  BY Sees DEF MemInv, TypeOK, Address
<1>2. /\ e.at = n /\ e.rw
      /\ \A u \in Phys : \A j \in Page : pte'[u][j] = IF u = t /\ j = b[2] THEN e ELSE pte[u][j]
  OBVIOUS
<1>3. next \in Nat /\ n \in Nat /\ n # 0 /\ n \notin 1..next
  BY DEF MemInv, TypeOK
<1>4. \A u \in Phys : \A j \in Page : pte[u][j].at \in Nat /\ pte[u][j].at # n
  BY <1>3, EntryFields DEF MemInv, InUse, TypeOK
<1>5. data'[n] = View(p, b) /\ (share'[n] >= 1 \/ Table(p, b).rw) /\ t # 0
  OBVIOUS
<1> HIDE DEF b, t, n, e
<1>6. \A q \in Proc : \A a \in Address : Table(q, a)' = Table(q, a)
  BY DEF Table
\* Those who use the entry.
<1>7. ASSUME NEW q \in Proc, NEW a \in Address, Table(q, a).at = t, a[2] = b[2]
      PROVE  Leaf(q, a)' = e /\ View(q, a)' = View(q, a)
  <2>1. Leaf(q, a)' = e
    BY <1>1, <1>2, <1>5, <1>6, <1>7 DEF Leaf
  <2>2. View(q, a)' = data'[n]
    BY <1>2, <1>3, <1>5, <1>6, <1>7, <2>1 DEF View, Present
  <2>3. Leaf(q, a) = Leaf(p, b) /\ Table(q, a).at = Table(p, b).at
    BY <1>7 DEF Leaf, t
  <2>4. View(q, a) = View(p, b)
    BY <2>3 DEF View, Present
  <2> QED  BY <1>5, <2>1, <2>2, <2>4
\* All others.
<1>8. ASSUME NEW q \in Proc, NEW a \in Address, ~ (Table(q, a).at = t /\ a[2] = b[2])
      PROVE  /\ Leaf(q, a)' = Leaf(q, a) /\ View(q, a)' = View(q, a)
             /\ Present(q, a)' <=> Present(q, a)
  <2>1. a[2] \in Page /\ (Table(q, a).at # 0 => Table(q, a).at \in Phys)
    BY Sees
  <2>2. \A u \in Phys : u = Table(q, a).at => pte'[u][a[2]] = pte[u][a[2]]
    BY <1>2, <1>8, <2>1
  <2>3. Leaf(q, a)' = Leaf(q, a)
    BY <1>6, <2>1, <2>2 DEF Leaf
  <2> QED  BY <1>6, <2>2, <2>3, SameView DEF Present
<1>9. Sole'
  <2>1. ASSUME NEW q \in Proc, NEW a \in Address, Writable(q, a)',
               NEW u \in Phys, NEW j \in Page, pte'[u][j].at = Leaf(q, a)'.at
        PROVE  u = Table(q, a)'.at /\ j = a[2]
    <3>1. CASE Table(q, a).at = t /\ a[2] = b[2]
      <4>1. pte'[u][j].at = n
        BY <1>2, <1>7, <2>1, <3>1
      <4>2. u = t /\ j = b[2]
        BY <1>2, <1>4, <4>1
      <4> QED  BY <1>6, <3>1, <4>2
    <3>2. CASE ~ (Table(q, a).at = t /\ a[2] = b[2])
      <4>1. Writable(q, a) /\ Leaf(q, a)' = Leaf(q, a)
        BY <1>6, <1>8, <2>1, <3>2 DEF Writable
      <4>2. Leaf(q, a).at # n
        BY <1>3, <4>1, Sees DEF Writable
      <4>3. pte[u][j].at = Leaf(q, a).at
        BY <1>2, <2>1, <4>1, <4>2
      <4> QED  BY <1>6, <4>1, <4>3 DEF OwnInv, Sole
    <3> QED  BY <3>1, <3>2
  <2> QED  BY <2>1 DEF Sole
<1>10. ForkCounted'
  <2>1. ASSUME NEW q \in Proc, NEW a \in Address, Present(q, a)',
               ~ Table(q, a)'.rw \/ pc'[q] = "fork"
        PROVE  share'[Leaf(q, a)'.at] >= 1
    <3>0. ~ Table(q, a).rw \/ pc[q] = "fork"
      BY <1>6, <2>1
    <3>1. CASE Table(q, a).at = t /\ a[2] = b[2]
      <4>1. share'[n] >= 1
        <5> SUFFICES ASSUME Table(p, b).rw PROVE FALSE
          BY <1>5
        <5>1. a[1] \in Region /\ Table(q, a) = cat[q][a[1]]
          BY Sees
        <5>2. q = p
          BY <1>1, <1>5, <3>1, <5>1 DEF MemInv, Private, t
        <5>3. a[1] = b[1]
          BY <1>1, <1>5, <3>1, <5>1, <5>2 DEF MemInv, Apart, t
        <5> QED  BY <1>1, <3>0, <5>1, <5>2, <5>3
      <4> QED  BY <1>2, <1>7, <3>1, <4>1
    <3>2. CASE ~ (Table(q, a).at = t /\ a[2] = b[2])
      <4>1. Present(q, a) /\ Leaf(q, a)' = Leaf(q, a)
        BY <1>8, <2>1, <3>2
      <4>2. share[Leaf(q, a).at] >= 1 /\ Leaf(q, a).at \in 1..next
        BY <3>0, <4>1, Sees DEF OwnInv, ForkCounted
      <4>3. /\ share[Leaf(q, a).at] \in Nat /\ share'[Leaf(q, a).at] \in Nat
            /\ share[Leaf(q, a).at] <= share'[Leaf(q, a).at]
        BY <4>2, Grown DEF MemInv
      <4> QED  BY <4>1, <4>2, <4>3
    <3> QED  BY <3>1, <3>2
  <2> QED  BY <2>1 DEF ForkCounted
<1>11. ReadOnlyShared'
  <2>1. \A u \in Phys : \A j \in Page : pte'[u][j] = pte[u][j] \/ pte'[u][j].rw
    BY <1>2
  <2> QED  BY <2>1, StillShared
<1>12. \A q \in Proc : \A a \in Address : View(q, a)' = View(q, a)
  BY <1>7, <1>8
<1> QED  BY <1>9, <1>10, <1>11, <1>12

\* The data of a page that is taken.
LEMMA TakenData ==
    ASSUME MemInv, NEW n \in Nat, NEW v \in Value, TakePage(n, v)
    PROVE  data'[next + 1] = v /\ \A f \in 1..next : data'[f] = data[f]
<1>1. next \in Nat /\ next + 1 \in Phys /\ \A f \in 1..next : f # next + 1 /\ f \in Phys
  BY MemAssumption DEF MemInv, TypeOK, TakePage, Phys
<1>2. data' = [data EXCEPT ![next + 1] = v]
  BY DEF TakePage
<1> QED  BY <1>1, <1>2 DEF MemInv, TypeOK

\* A handler that put a new page into p's table returns to the program.
LEMMA PageStep ==
    ASSUME MemInv, OwnInv, NEW p \in Proc, pc[p] \in {"lack", "copy_page"}, pc'[p] = "user",
           \A q \in Proc : q # p => pc'[q] = pc[q], UNCHANGED <<cat, addr, child, todo>>,
           Sole', ForkCounted', ReadOnlyShared',
           \A q \in Proc : \A a \in Address : View(q, a)' = View(q, a)
    PROVE  OwnInv' /\ Unseen
<1>1. ASSUME NEW q \in Proc PROVE AtWork(q)' /\ Forked(q)'
  <2>1. CASE q = p
    BY <2>1 DEF AtWork, Forked
  <2>2. CASE q # p
    BY <2>2, StillAtWork, StillForked DEF OwnInv
  <2> QED  BY <2>1, <2>2
<1>2. Alive' = Alive /\ Alive \subseteq Proc
  BY DEF Alive
<1> QED  BY <1>1, <1>2 DEF OwnInv, Unseen

LEMMA LackPageOwn ==
    ASSUME MemInv, OwnInv, NEW p \in Proc, LackPage(p)
    PROVE  OwnInv' /\ Unseen
<1> DEFINE t == Table(p, addr[p]).at
           i == addr[p][2]
<1>0. /\ pc[p] = "lack" /\ t # 0 /\ TakePage(1, image)
      /\ pc' = [pc EXCEPT ![p] = "user"]
      /\ UNCHANGED <<cat, marked, addr, child, todo>>
  BY DEF LackPage, At, Goto, Read
<1>n. pte' = [pte EXCEPT ![t][i] = [at |-> next + 1, rw |-> TRUE]]
  BY DEF LackPage
<1>1. t \in Phys /\ t <= next /\ i \in Page
  BY <1>0, TableAndLeaf
<1>2. Grows /\ next' = next + 1 /\ share'[next + 1] >= 1
  BY <1>0, MemAssumption, Taken
<1>3. \A u \in Phys : \A j \in Page :
          pte'[u][j] = IF u = t /\ j = i THEN [at |-> next + 1, rw |-> TRUE] ELSE pte[u][j]
  BY <1>n, <1>1, <1>2, NewPage
<1>4. data'[next + 1] = View(p, addr[p]) /\ \A f \in 1..next : data'[f] = data[f]
  BY <1>0, MemAssumption, TakenData DEF OwnInv, AtWork
<1>5. pc'[p] = "user" /\ \A q \in Proc : q # p => pc'[q] = pc[q]
  BY <1>0 DEF MemInv, TypeOK
<1>6. \A q \in Proc : pc'[q] = "fork" => pc[q] = "fork"
  BY <1>5
<1>7. /\ Sole' /\ ForkCounted' /\ ReadOnlyShared'
      /\ \A q \in Proc : \A a \in Address : View(q, a)' = View(q, a)
  BY <1>0, <1>2, <1>3, <1>4, <1>6, NewPageOwn
<1> QED  BY <1>0, <1>5, <1>7, PageStep

LEMMA CopyPageOwn ==
    ASSUME MemInv, Calm, OwnInv, NEW p \in Proc, CopyPage(p)
    PROVE  OwnInv' /\ Unseen
<1> DEFINE t == Table(p, addr[p]).at
           i == addr[p][2]
           v == data[Leaf(p, addr[p]).at]
<1>0. /\ ~ panic /\ pc[p] = "copy_page" /\ TakePage(0, v)
      /\ pc' = [pc EXCEPT ![p] = "user"]
      /\ UNCHANGED <<cat, marked, addr, child, todo>>
  BY DEF CopyPage, At, Goto, cr2
<1>n. pte' = [pte EXCEPT ![t][i] = [at |-> next + 1, rw |-> TRUE]]
  BY DEF CopyPage
<1>1. t # 0 /\ Leaf(p, addr[p]).at # 0 /\ Table(p, addr[p]).rw
  BY <1>0 DEF MemInv, Copying, OwnInv, AtWork
<1>2. t \in Phys /\ t <= next /\ i \in Page /\ v \in Value
  BY <1>1, TableAndLeaf DEF MemInv, TypeOK
<1>3. Grows /\ next' = next + 1
  BY <1>0, <1>2, Taken
<1>4. \A u \in Phys : \A j \in Page :
          pte'[u][j] = IF u = t /\ j = i THEN [at |-> next + 1, rw |-> TRUE] ELSE pte[u][j]
  BY <1>n, <1>2, <1>3, NewPage
<1>5. data'[next + 1] = v /\ \A f \in 1..next : data'[f] = data[f]
  BY <1>0, <1>2, TakenData
<1>6. v = View(p, addr[p])
  BY <1>1 DEF View, Present
<1>7. pc'[p] = "user" /\ \A q \in Proc : q # p => pc'[q] = pc[q]
  BY <1>0 DEF MemInv, TypeOK
<1>8. \A q \in Proc : pc'[q] = "fork" => pc[q] = "fork"
  BY <1>7
<1>9. /\ Sole' /\ ForkCounted' /\ ReadOnlyShared'
      /\ \A q \in Proc : \A a \in Address : View(q, a)' = View(q, a)
  BY <1>0, <1>1, <1>3, <1>4, <1>5, <1>6, <1>8, NewPageOwn
<1> QED  BY <1>0, <1>7, <1>9, PageStep

\* What a process may not write counts two, so a page is always copied as well.
LEMMA CowPageCopies ==
    ASSUME MemInv, Calm, OwnInv, NEW p \in Proc, CowPage(p)
    PROVE  /\ pc[p] = "cow" /\ Table(p, addr[p]).rw /\ pc' = [pc EXCEPT ![p] = "copy_page"]
           /\ UNCHANGED <<cat, pte, marked, addr, share, data, next, child, todo>>
<1> DEFINE f == Leaf(p, addr[p])
           ok == ~f.rw /\ f.at # 0 /\ f.at \in marked /\ share[f.at] >= 1
<1>0. /\ pc[p] = "cow" /\ Table(p, addr[p]).rw
      /\ UNCHANGED <<cat, addr, share, data, next, child, todo>>
  BY DEF CowPage, At, Read
<1>1. Table(p, addr[p]).at # 0 /\ ~ f.rw /\ f.at # 0
  BY <1>0 DEF Calm, Handlers, Handler
<1>2. /\ Table(p, addr[p]).at \in Phys /\ addr[p][2] \in Page /\ f \in Entry
      /\ f = pte[Table(p, addr[p]).at][addr[p][2]]
  BY <1>1, TableAndLeaf DEF Leaf
<1>3. f.at \in marked /\ share[f.at] >= 2 /\ f.at \in Phys /\ share[f.at] \in Nat
  BY <1>1, <1>2, EntryFields DEF Calm, PagesMarked, OwnInv, ReadOnlyShared, MemInv, TypeOK
<1>4. ok /\ share[f.at] > 1
  BY <1>1, <1>3
<1>5. IF ok => share[f.at] > 1
      THEN pc' = [pc EXCEPT ![p] = "copy_page"] /\ UNCHANGED <<pte, marked>>
      ELSE TRUE
  BY DEF CowPage, Goto
<1> QED  BY <1>0, <1>4, <1>5

LEMMA CowPageOwn ==
    ASSUME MemInv, Calm, OwnInv, NEW p \in Proc, CowPage(p)
    PROVE  OwnInv' /\ Unseen
<1>1. /\ pc[p] = "cow" /\ Table(p, addr[p]).rw /\ pc' = [pc EXCEPT ![p] = "copy_page"]
      /\ UNCHANGED <<cat, pte, marked, addr, share, data, next, child, todo>>
  BY CowPageCopies
<1>2. pc'[p] = "copy_page" /\ \A q \in Proc : q # p => pc'[q] = pc[q]
  BY <1>1 DEF MemInv, TypeOK
<1>3. AtWork(p)'
  BY <1>1, <1>2 DEF AtWork, Table
<1> QED  BY <1>1, <1>2, <1>3, QuietStep

LEMMA CowTableOwn ==
    ASSUME MemInv, Calm, OwnInv, NEW p \in Proc, CowTable(p)
    PROVE  OwnInv' /\ Unseen
<1>1. /\ pc[p] = "cow" /\ ~ Table(p, addr[p]).rw /\ pc' = [pc EXCEPT ![p] = "copy_table"]
      /\ UNCHANGED <<cat, pte, marked, addr, share, data, next, child, todo>>
  BY CowTableCopies
<1>2. pc'[p] = "copy_table" /\ \A q \in Proc : q # p => pc'[q] = pc[q]
  BY <1>1 DEF MemInv, TypeOK
<1>3. AtWork(p)'
  BY <1>1, <1>2 DEF AtWork, Table
<1> QED  BY <1>1, <1>2, <1>3, QuietStep

\* The copy maps what the table maps, read-only and counted; no page of the old table
\* is one that another may write.
LEMMA CopyTableOwn ==
    ASSUME MemInv, Calm, OwnInv, NEW p \in Proc, CopyTable(p)
    PROVE  OwnInv' /\ Unseen
<1> DEFINE b   == addr[p]
           r   == b[1]
           t   == Table(p, b).at
           old == pte[t]
           n   == next + 1
           e   == [at |-> n, rw |-> TRUE]
<1>0. /\ pc[p] = "copy_table" /\ next < MaxPages /\ next' = n
      /\ share' = [f \in Phys |-> IF f = n THEN 1
                                  ELSE IF f \in Mapped(old) THEN share[f] + 1 ELSE share[f]]
      /\ pc' = [pc EXCEPT ![p] = "cow"]
      /\ UNCHANGED <<data, addr, child, todo>>
  BY DEF CopyTable, At, Goto, cr2
<1>n. pte' = [pte EXCEPT ![n] = ReadOnly(old)]
  BY DEF CopyTable
<1>c. cat' = [cat EXCEPT ![p][r] = e]
  BY DEF CopyTable
<1>1. /\ b \in Address /\ r \in Region /\ t # 0 /\ t \in Phys /\ t \in 1..next
      /\ Table(p, b) = cat[p][r] /\ ~ cat[p][r].rw
      /\ old \in [Page -> Entry]
  <2>1. t # 0 /\ ~ Table(p, b).rw
    BY <1>0 DEF Calm, Handlers, Handler, OwnInv, AtWork
  <2>2. b \in Address
    BY DEF MemInv, TypeOK, Address
  <2> QED  BY <2>1, <2>2, TableAndLeaf
<1>2. next \in Nat /\ n \in Nat /\ n # 0 /\ n \notin 1..next /\ n \in Phys /\ n <= MaxPages
  BY <1>0, MemAssumption DEF MemInv, TypeOK, Phys
<1>3. /\ \A q \in Proc : \A x \in Region : cat[q][x].at \in Nat /\ cat[q][x].at # n
      /\ \A u \in Phys : \A i \in Page : pte[u][i].at \in Nat /\ pte[u][i].at # n
  BY <1>2, EntryFields DEF MemInv, TypeOK, InUse
<1> HIDE DEF b, r, t, old, n
<1>4. e \in Entry /\ e.at = n /\ e.rw
  BY <1>2, NewEntry
<1> HIDE DEF e
<1>5. \A i \in Page : ReadOnly(old)[i].at = old[i].at /\ ~ ReadOnly(old)[i].rw /\ old[i] = pte[t][i]
  BY <1>1, ReadOnlyTable DEF old
<1>6. \A u \in Phys : \A j \in Page : pte'[u][j] = IF u = n THEN ReadOnly(old)[j] ELSE pte[u][j]
  BY <1>n, <1>2 DEF MemInv, TypeOK
<1>7. \A q \in Proc : \A x \in Region : cat'[q][x] = IF q = p /\ x = r THEN e ELSE cat[q][x]
  <2>1. cat \in [Proc -> [Region -> Entry]]
    BY DEF MemInv, TypeOK
  <2> QED  BY <1>c, <1>1, <1>4, <2>1, CatSet
<1>8. \A j \in Page : old[j].at # 0 => old[j].at \in Mapped(old)
  BY <1>1, MappedPages
<1>9. /\ \A f \in Phys : share[f] \in Nat /\ share'[f] \in Nat
      /\ \A f \in 1..next : /\ f \in Phys /\ share[f] <= share'[f]
                            /\ f \in Mapped(old) => share'[f] = share[f] + 1
  <2>1. \A f \in Phys : share[f] \in Nat
    BY DEF MemInv, TypeOK
  <2>2. \A f \in 1..next : f \in Phys /\ f # n
    BY <1>2, MemAssumption DEF Phys
  <2> QED  BY <1>0, <2>1, <2>2
\* The region that gets the copy.
<1>10. ASSUME NEW a \in Address, a[1] = r
       PROVE  /\ Table(p, a).at = t /\ Table(p, a)' = e
              /\ Leaf(p, a) = pte[t][a[2]] /\ Leaf(p, a)' = ReadOnly(old)[a[2]]
              /\ Leaf(p, a)'.at = Leaf(p, a).at /\ ~ Leaf(p, a)'.rw
              /\ View(p, a)' = View(p, a)
  <2>1. a[2] \in Page /\ Table(p, a).at = t
    BY <1>1, <1>10, Sees DEF t
  <2>2. Table(p, a)' = e
    BY <1>1, <1>7, <1>10 DEF Table
  <2>3. Leaf(p, a) = pte[t][a[2]]
    BY <1>1, <2>1 DEF Leaf
  <2>4. Leaf(p, a)' = ReadOnly(old)[a[2]]
    BY <1>2, <1>4, <1>6, <2>1, <2>2 DEF Leaf
  <2>5. Leaf(p, a)'.at = Leaf(p, a).at /\ ~ Leaf(p, a)'.rw
    BY <1>5, <2>1, <2>3, <2>4
  <2>6. View(p, a)' = View(p, a)
    BY <1>0, <1>1, <1>2, <1>4, <2>1, <2>2, <2>5 DEF View, Present
  <2> QED  BY <2>1, <2>2, <2>3, <2>4, <2>5, <2>6
\* All others.
<1>11. ASSUME NEW q \in Proc, NEW a \in Address, ~ (q = p /\ a[1] = r)
       PROVE  /\ Table(q, a)' = Table(q, a) /\ Leaf(q, a)' = Leaf(q, a)
              /\ Present(q, a)' <=> Present(q, a)
              /\ View(q, a)' = View(q, a)
  <2>1. a[1] \in Region /\ a[2] \in Page /\ Table(q, a) = cat[q][a[1]]
    BY Sees
  <2>2. Table(q, a)' = Table(q, a)
    BY <1>7, <1>11, <2>1 DEF Table
  <2>3. Table(q, a).at # n /\ (Table(q, a).at # 0 => Table(q, a).at \in Phys)
    BY <1>3, <2>1, Sees
  <2>4. Leaf(q, a)' = Leaf(q, a)
    BY <1>6, <2>1, <2>2, <2>3 DEF Leaf
  <2>5. Present(q, a)' <=> Present(q, a)
    BY <2>2, <2>4 DEF Present
  <2> QED  BY <1>0, <2>2, <2>4, <2>5 DEF View
<1>12. Sole'
  <2>1. ASSUME NEW q \in Proc, NEW a \in Address, Writable(q, a)',
               NEW u \in Phys, NEW j \in Page, pte'[u][j].at = Leaf(q, a)'.at
        PROVE  u = Table(q, a)'.at /\ j = a[2]
    <3>1. ~ (q = p /\ a[1] = r)
      BY <1>10, <2>1 DEF Writable
    <3>2. /\ Writable(q, a) /\ Leaf(q, a)' = Leaf(q, a) /\ Table(q, a)' = Table(q, a)
          /\ Table(q, a).rw /\ Table(q, a).at # 0
      BY <1>11, <2>1, <3>1 DEF Writable, Present
    <3>3. CASE u # n
      BY <1>6, <2>1, <3>2, <3>3 DEF OwnInv, Sole
    <3>4. CASE u = n
      <4>1. pte[t][j].at = Leaf(q, a).at
        BY <1>2, <1>5, <1>6, <2>1, <3>2, <3>4
      <4>2. Table(q, a).at = t
        BY <1>1, <3>2, <4>1 DEF OwnInv, Sole
      <4>3. a[1] \in Region /\ Table(q, a) = cat[q][a[1]] /\ cat[p][r].at = t
        BY <1>1, Sees DEF t
      <4>4. q = p /\ a[1] = r
        BY <1>1, <3>2, <4>2, <4>3 DEF MemInv, Private, Apart
      <4> QED  BY <3>1, <4>4
    <3> QED  BY <3>3, <3>4
  <2> QED  BY <2>1 DEF Sole
<1>13. pc'[p] = "cow" /\ \A q \in Proc : q # p => pc'[q] = pc[q]
  BY <1>0 DEF MemInv, TypeOK
<1>14. ForkCounted'
  <2>1. ASSUME NEW q \in Proc, NEW a \in Address, Present(q, a)',
               ~ Table(q, a)'.rw \/ pc'[q] = "fork"
        PROVE  share'[Leaf(q, a)'.at] >= 1
    <3>1. ~ (q = p /\ a[1] = r)
      BY <1>4, <1>10, <1>13, <2>1
    <3>2. /\ Present(q, a) /\ Leaf(q, a)' = Leaf(q, a)
          /\ ~ Table(q, a).rw \/ pc[q] = "fork"
      BY <1>11, <1>13, <2>1, <3>1
    <3>3. share[Leaf(q, a).at] >= 1 /\ Leaf(q, a).at \in 1..next
      BY <3>2, Sees DEF OwnInv, ForkCounted
    <3>4. /\ share[Leaf(q, a).at] \in Nat /\ share'[Leaf(q, a).at] \in Nat
          /\ share[Leaf(q, a).at] <= share'[Leaf(q, a).at]
      BY <1>9, <3>3
    <3> QED  BY <3>2, <3>3, <3>4
  <2> QED  BY <2>1 DEF ForkCounted
<1>15. ReadOnlyShared'
  <2>1. ASSUME NEW u \in Phys, NEW j \in Page, pte'[u][j].at # 0, ~ pte'[u][j].rw
        PROVE  share'[pte'[u][j].at] >= 2
    <3>1. CASE u = n
      <4>1. pte'[u][j].at = old[j].at /\ old[j].at = pte[t][j].at
        BY <1>5, <1>6, <3>1
      <4>2. \E a \in Address : a[1] = r /\ a[2] = j
        <5>1. <<r, j>> \in Address
          BY <1>1 DEF Address
        <5> QED  BY <5>1
      <4>3. PICK a \in Address : a[1] = r /\ a[2] = j
        BY <4>2
      <4>4. Table(p, a).at = t /\ Leaf(p, a).at = old[j].at /\ Table(p, a) = cat[p][r]
        BY <1>10, <4>1, <4>3, Sees
      <4>5. Present(p, a) /\ ~ Table(p, a).rw
        BY <1>1, <2>1, <4>1, <4>4 DEF Present
      <4>6. share[old[j].at] >= 1 /\ old[j].at \in 1..next
        BY <4>4, <4>5, Sees DEF OwnInv, ForkCounted
      <4>7. share'[old[j].at] = share[old[j].at] + 1 /\ share[old[j].at] \in Nat
        BY <1>8, <1>9, <2>1, <4>1, <4>6
      <4> QED  BY <4>1, <4>6, <4>7
    <3>2. CASE u # n
      <4>1. pte'[u][j] = pte[u][j]
        BY <1>6, <3>2
      <4>2. share[pte[u][j].at] >= 2 /\ pte[u][j].at \in 1..next
        BY <2>1, <4>1, EntryFields DEF OwnInv, ReadOnlyShared, MemInv, TypeOK, InUse
      <4>3. /\ share[pte[u][j].at] \in Nat /\ share'[pte[u][j].at] \in Nat
            /\ share[pte[u][j].at] <= share'[pte[u][j].at]
        BY <1>9, <4>2
      <4> QED  BY <4>1, <4>2, <4>3
    <3> QED  BY <3>1, <3>2
  <2> QED  BY <2>1 DEF ReadOnlyShared
<1>16. \A q \in Proc : \A a \in Address : View(q, a)' = View(q, a)
  BY <1>10, <1>11
<1>17. ASSUME NEW q \in Proc PROVE AtWork(q)' /\ Forked(q)'
  <2>1. CASE q = p
    BY <1>13, <2>1 DEF AtWork, Forked
  <2>2. CASE q # p
    <3>1. AtWork(q)'
      BY <1>0, <1>7, <1>13, <1>16, <2>2, StillAtWork
    <3>2. ASSUME pc[q] = "fork" PROVE child[q] \in Proc /\ child[q] # p
      BY <1>0, <3>2 DEF MemInv, Forking, TypeOK
    <3>3. Forked(q)'
      BY <1>0, <1>7, <1>13, <2>2, <3>2, StillForked DEF OwnInv
    <3> QED  BY <3>1, <3>3
  <2> QED  BY <2>1, <2>2
<1>18. Alive' = Alive /\ Alive \subseteq Proc
  BY <1>0, <1>13 DEF Alive
<1> QED  BY <1>12, <1>14, <1>15, <1>16, <1>17, <1>18 DEF OwnInv, Unseen

\* Nothing that p maps is a page that a copy made: those count nothing.
LEMMA ForkOwn ==
    ASSUME CopiesFork = FALSE, MemInv, OwnInv, NEW p \in Proc, NEW c \in Proc, Fork(p, c)
    PROVE  OwnInv' /\ Unseen
<1>0. /\ pc[p] = "user" /\ pc[c] = "unborn"
      /\ \A a \in Address : Present(p, a) => share[Leaf(p, a).at] > 0
      /\ pc' = [pc EXCEPT ![p] = "fork", ![c] = "birth"]
      /\ child' = [child EXCEPT ![p] = c] /\ todo' = [todo EXCEPT ![p] = 1]
      /\ UNCHANGED <<cat, pte, share, marked, data, next, addr>>
  BY DEF Fork, At, desc, cr2, Address
<1>1. /\ p # c /\ pc'[p] = "fork" /\ pc'[c] = "birth" /\ todo'[p] = 1
      /\ \A q \in Proc : q # p => child'[q] = child[q] /\ todo'[q] = todo[q]
      /\ \A q \in Proc : q # p /\ q # c => pc'[q] = pc[q]
  BY <1>0 DEF MemInv, TypeOK
<1>2. /\ Sole' /\ ReadOnlyShared'
      /\ \A q \in Proc : \A a \in Address : View(q, a)' = View(q, a) /\ Table(q, a)' = Table(q, a)
  BY <1>0, QuietOwn
<1>3. ForkCounted'
  <2>1. ASSUME NEW q \in Proc, NEW a \in Address, Present(q, a)',
               ~ Table(q, a)'.rw \/ pc'[q] = "fork"
        PROVE  share'[Leaf(q, a)'.at] >= 1
    <3>1. Present(q, a) /\ Leaf(q, a)' = Leaf(q, a) /\ Table(q, a)' = Table(q, a)
      BY <1>0, <2>1 DEF Present, Leaf, Table
    <3>2. CASE q = p
      <4>1. share[Leaf(q, a).at] > 0 /\ share[Leaf(q, a).at] \in Nat
        BY <1>0, <3>1, <3>2, Sees DEF MemInv, TypeOK
      <4> QED  BY <1>0, <3>1, <4>1
    <3>3. CASE q # p
      <4>1. ~ Table(q, a).rw \/ pc[q] = "fork"
        BY <1>1, <2>1, <3>1, <3>3
      <4> QED  BY <1>0, <3>1, <4>1 DEF OwnInv, ForkCounted
    <3> QED  BY <3>2, <3>3
  <2> QED  BY <2>1 DEF ForkCounted
<1>4. ASSUME NEW q \in Proc PROVE AtWork(q)' /\ Forked(q)'
  <2>1. CASE q = p
    <3>1. \A r \in Region : ~ (r < 1)
      BY DEF Region
    <3> QED  BY <1>1, <2>1, <3>1 DEF AtWork, Forked
  <2>2. CASE q = c
    BY <1>1, <2>2 DEF AtWork, Forked
  <2>3. CASE q # p /\ q # c
    BY <1>0, <1>1, <1>2, <2>3, StillAtWork, StillForked DEF OwnInv
  <2> QED  BY <2>1, <2>2, <2>3
<1>5. Alive' = Alive /\ Alive \subseteq Proc
  BY <1>0, <1>1 DEF Alive
<1> QED  BY <1>2, <1>3, <1>4, <1>5 DEF OwnInv, Unseen

LEMMA ForkRegionOwn ==
    ASSUME MemInv, OwnInv, NEW p \in Proc, ForkRegion(p)
    PROVE  OwnInv' /\ Unseen
<1> DEFINE c == child[p]
           r == todo[p]
           e == [cat[p][r] EXCEPT !.rw = FALSE]
<1>0. /\ pc[p] = "fork" /\ r \in Region
      /\ UNCHANGED <<pte, data, next, pc, addr, child>>
      /\ todo' = [todo EXCEPT ![p] = r + 1]
      /\ share' = IF e.at # 0 THEN [share EXCEPT ![e.at] = @ + 1] ELSE share
  BY DEF ForkRegion, At, cr2
<1>n. cat' = [cat EXCEPT ![p][r] = e, ![c][r] = e]
  BY DEF ForkRegion
<1>1. /\ c \in Proc /\ pc[c] = "birth" /\ p # c
      /\ \A q \in Proc : q # p /\ pc[q] = "fork" => child[q] \in Proc /\ child[q] \notin {p, c} /\ q # c
  BY <1>0 DEF MemInv, TypeOK, Forking
<1>2. cat \in [Proc -> [Region -> Entry]] /\ cat[p][r] \in Entry /\ r \in Nat /\ r < r + 1
  <2>1. cat \in [Proc -> [Region -> Entry]]
    BY DEF MemInv, TypeOK
  <2>2. r \in Nat /\ r < r + 1
    BY <1>0, MemAssumption DEF Region
  <2> QED  BY <1>0, <2>1, <2>2
<1>3. e \in Entry /\ e.at = cat[p][r].at /\ ~e.rw /\ (e.at # 0 => e.at \in Phys)
  BY <1>2, EntryFields
<1>4. todo'[p] = r + 1 /\ \A q \in Proc : q # p => todo'[q] = todo[q]
  BY <1>0 DEF MemInv, TypeOK
<1>r. todo[p] = r
  OBVIOUS
<1>5. child[p] = c
  OBVIOUS
<1> HIDE DEF c, r, e
<1>6. \A q \in Proc : \A x \in Region :
          cat'[q][x] = IF q \in {p, c} /\ x = r THEN e ELSE cat[q][x]
  <2> DEFINE d == [cat EXCEPT ![p][r] = e]
  <2>1. /\ d \in [Proc -> [Region -> Entry]]
        /\ \A q \in Proc : \A x \in Region :
               d[q][x] = IF q = p /\ x = r THEN e ELSE cat[q][x]
    BY <1>0, <1>2, <1>3, CatSet
  <2>2. cat' = [d EXCEPT ![c][r] = e]
    BY <1>n
  <2> HIDE DEF d
  <2>3. \A q \in Proc : \A x \in Region :
               cat'[q][x] = IF q = c /\ x = r THEN e ELSE d[q][x]
    BY <1>0, <1>1, <1>3, <2>1, <2>2, CatSet
  <2> QED  BY <2>1, <2>3
<1>7. \A f \in Phys : share[f] \in Nat /\ share'[f] \in Nat /\ share[f] <= share'[f]
  <2>1. share \in [Phys -> Nat]
    BY DEF MemInv, TypeOK
  <2> QED  BY <1>0, <1>3, <2>1
<1>8. Grows
  <2>1. next \in Nat /\ next <= MaxPages /\ \A f \in 1..next : f \in Phys
    BY MemAssumption DEF MemInv, TypeOK, Phys
  <2>2. share' \in [Phys -> Nat]
    BY <1>0, <1>3, <1>7 DEF MemInv, TypeOK
  <2> QED  BY <1>0, <1>7, <2>1, <2>2 DEF Grows
\* What the parent and the others see, and the region that the child gets.
<1>9. ASSUME NEW q \in Proc, NEW a \in Address
      PROVE  \E o \in Proc :
                 /\ Table(q, a)'.at = Table(o, a).at /\ Leaf(q, a)' = Leaf(o, a)
                 /\ Present(q, a)' <=> Present(o, a)
                 /\ View(q, a)' = View(o, a)
                 /\ \/ o = q /\ Table(q, a)' = Table(q, a)
                    \/ o = p /\ ~ Table(q, a)'.rw
                 /\ q # c => o = q
  <2>1. a[1] \in Region
    BY Sees
  <2> DEFINE o == IF q = c /\ a[1] = r THEN p ELSE q
  <2>2. Table(q, a)'.at = Table(o, a).at
    BY <1>3, <1>6, <2>1 DEF Table
  <2>3. Leaf(q, a)' = Leaf(o, a)
    <3> HIDE DEF o
    <3> QED  BY <1>0, <2>2 DEF Leaf
  <2>4. (Present(q, a)' <=> Present(o, a)) /\ View(q, a)' = View(o, a)
    <3> HIDE DEF o
    <3> QED  BY <1>0, <2>2, <2>3 DEF Present, View
  <2>5. \/ o = q /\ Table(q, a)' = Table(q, a)
        \/ o = p /\ ~ Table(q, a)'.rw
    BY <1>3, <1>6, <2>1 DEF Table
  <2>6. o \in Proc /\ (q # c => o = q)
    OBVIOUS
  <2> HIDE DEF o
  <2> QED  BY <2>2, <2>3, <2>4, <2>5, <2>6
<1>10. Sole'
  <2>1. ASSUME NEW q \in Proc, NEW a \in Address, Writable(q, a)',
               NEW u \in Phys, NEW j \in Page, pte'[u][j].at = Leaf(q, a)'.at
        PROVE  u = Table(q, a)'.at /\ j = a[2]
    <3>1. Table(q, a)' = Table(q, a) /\ Leaf(q, a)' = Leaf(q, a) /\ Writable(q, a)
      BY <1>9, <2>1 DEF Writable
    <3> QED  BY <1>0, <2>1, <3>1 DEF OwnInv, Sole
  <2> QED  BY <2>1 DEF Sole
<1>11. ForkCounted'
  <2>1. ASSUME NEW q \in Proc, NEW a \in Address, Present(q, a)',
               ~ Table(q, a)'.rw \/ pc'[q] = "fork"
        PROVE  share'[Leaf(q, a)'.at] >= 1
    <3>1. PICK o \in Proc :
              /\ Leaf(q, a)' = Leaf(o, a) /\ Present(o, a)
              /\ (o = q /\ Table(q, a)' = Table(q, a)) \/ o = p
      BY <1>9, <2>1
    <3>2. ~ Table(o, a).rw \/ pc[o] = "fork"
      BY <1>0, <2>1, <3>1
    <3>3. share[Leaf(o, a).at] >= 1 /\ Leaf(o, a).at \in Phys
      BY <3>1, <3>2, Sees DEF OwnInv, ForkCounted
    <3>4. /\ share[Leaf(o, a).at] \in Nat /\ share'[Leaf(o, a).at] \in Nat
          /\ share[Leaf(o, a).at] <= share'[Leaf(o, a).at]
      BY <1>7, <3>3
    <3> QED  BY <3>1, <3>3, <3>4
  <2> QED  BY <2>1 DEF ForkCounted
<1>12. ReadOnlyShared'
  BY <1>0, <1>8, StillShared
<1>13. \A q \in Proc : q # c => \A a \in Address : View(q, a)' = View(q, a)
  BY <1>9
<1>14. ASSUME NEW q \in Proc PROVE AtWork(q)'
  <2>1. CASE q \in {p, c}
    BY <1>0, <1>1, <2>1 DEF AtWork
  <2>2. CASE q \notin {p, c}
    BY <1>0, <1>6, <1>13, <2>2, StillAtWork
  <2> QED  BY <2>1, <2>2
<1>15. ASSUME NEW q \in Proc PROVE Forked(q)'
  <2>1. CASE q = p
    <3>1. ASSUME NEW x \in Region, x < r + 1 PROVE cat'[c][x].at = cat'[p][x].at
      <4>1. CASE x = r
        BY <1>1, <1>6, <4>1
      <4>2. CASE x # r
        <5>1. x < r
          BY <1>2, <3>1, <4>2 DEF Region
        <5>2. cat[c][x].at = cat[p][x].at
          BY <1>0, <1>r, <1>5, <5>1 DEF OwnInv, Forked
        <5> QED  BY <1>1, <1>6, <4>2, <5>2
      <4> QED  BY <4>1, <4>2
    <3> QED  BY <1>0, <1>4, <1>5, <2>1, <3>1 DEF Forked
  <2>2. CASE q # p
    <3>1. ASSUME pc[q] = "fork"
          PROVE  /\ todo'[q] = todo[q] /\ child'[q] = child[q]
                 /\ \A x \in Region : cat'[q][x] = cat[q][x] /\ cat'[child[q]][x] = cat[child[q]][x]
      BY <1>0, <1>1, <1>4, <1>6, <2>2, <3>1
    <3> QED  BY <1>0, <3>1, StillForked DEF OwnInv
  <2> QED  BY <2>1, <2>2
<1>16. Alive' = Alive /\ Alive \subseteq Proc /\ c \notin Alive
  BY <1>0, <1>1 DEF Alive
<1> QED  BY <1>10, <1>11, <1>12, <1>13, <1>14, <1>15, <1>16 DEF OwnInv, Unseen

\* The child has all regions of its parent, and reads in them what it reads.
LEMMA ForkDoneOwn ==
    ASSUME MemInv, OwnInv, NEW p \in Proc, ForkDone(p)
    PROVE  OwnInv' /\ \E c \in Proc : P!Fork(p, c)
<1>c. PICK c \in Proc : c = child[p]
  BY DEF MemInv, TypeOK
<1>0. /\ pc[p] = "fork" /\ todo[p] > Regions
      /\ pc' = [pc EXCEPT ![p] = "user", ![c] = "user"]
      /\ UNCHANGED <<cat, pte, share, marked, data, next, addr, child, todo>>
  BY <1>c DEF ForkDone, At, desc, cr2
<1>1. /\ c \in Proc /\ pc[c] = "birth" /\ p # c /\ pc'[p] = "user" /\ pc'[c] = "user"
      /\ \A q \in Proc : q # p /\ q # c => pc'[q] = pc[q]
  BY <1>0, <1>c DEF MemInv, TypeOK, Forking
<1>2. \A q \in Proc : pc'[q] = "fork" => pc[q] = "fork"
  BY <1>1
<1>3. /\ Sole' /\ ReadOnlyShared' /\ ForkCounted'
      /\ \A q \in Proc : \A a \in Address : View(q, a)' = View(q, a)
  BY <1>0, <1>2, QuietOwn
<1>4. ASSUME NEW q \in Proc PROVE AtWork(q)' /\ Forked(q)'
  <2>1. CASE q \in {p, c}
    BY <1>1, <2>1 DEF AtWork, Forked
  <2>2. CASE q \notin {p, c}
    BY <1>0, <1>1, <1>3, <2>2, StillAtWork, StillForked DEF OwnInv
  <2> QED  BY <2>1, <2>2
<1>5. ASSUME NEW a \in Address PROVE View(c, a)' = View(p, a)
  <2>1. a[1] \in Region /\ a[1] < todo[p]
    BY <1>0, Sees, MemAssumption DEF Region, MemInv, TypeOK
  <2>2. Table(c, a).at = Table(p, a).at
    BY <1>0, <1>c, <2>1 DEF OwnInv, Forked, Table
  <2>3. Leaf(c, a).at = Leaf(p, a).at
    BY <2>2 DEF Leaf
  <2>4. View(c, a) = View(p, a)
    BY <2>2, <2>3 DEF View, Present
  <2> QED  BY <1>1, <1>3, <2>4
<1>6. p \in Alive /\ c \in Proc \ Alive /\ Alive' = Alive \union {c} /\ Alive \subseteq Proc
  BY <1>0, <1>1 DEF Alive
<1>7. P!Fork(p, c)
  BY <1>3, <1>5, <1>6, BirthStep
<1> QED  BY <1>3, <1>4, <1>7 DEF OwnInv

LEMMA OwnInit ==
    ASSUME Init
    PROVE  OwnInv /\ P!PInit
<1>1. \A p \in Proc : \A a \in Address : ~ Present(p, a) /\ View(p, a) = image
  BY DEF Init, Address, Present, Table, View
<1>2. Sole /\ ForkCounted
  BY <1>1 DEF Sole, ForkCounted, Writable
<1>3. ReadOnlyShared
  BY DEF Init, ReadOnlyShared
<1>4. \A p \in Proc : AtWork(p) /\ Forked(p)
  BY DEF Init, AtWork, Forked
<1>5. P!PInit
  <2>1. Alive = {process1}
    BY MemAssumption DEF Init, Alive
  <2>2. Memory = [p \in Proc |-> [a \in Region \X Page |-> image]]
    BY <1>1 DEF Memory, Address
  <2> QED  BY <2>1, <2>2, MemAssumption DEF Memory, P!PInit
<1> QED  BY <1>2, <1>3, <1>4, <1>5 DEF OwnInv

\* Every step is a write, a fork, or nothing that a process sees.
LEMMA OwnNext ==
    ASSUME Gentle, CopiesFork = FALSE, MemInv, Calm, OwnInv, [Next]_vars
    PROVE  OwnInv' /\ [P!PNext]_(P!pvars)
<1>1. CASE Next
  <2>1. PICK p \in Proc :
          \/ \E a \in Region \X Page : Fault(p, a) \/ \E v \in Value : UserWrite(p, a, v)
          \/ LackTable(p) \/ LackPage(p)
          \/ CowTable(p) \/ CopyTable(p) \/ CowPage(p) \/ CopyPage(p)
          \/ (\E c \in Proc : Fork(p, c)) \/ ForkRegion(p) \/ ForkDone(p)
    BY <1>1 DEF Next
  <2>2. CASE \E a \in Region \X Page : \E v \in Value : UserWrite(p, a, v)
    <3>1. PICK a \in Address, v \in Value : UserWrite(p, a, v)
      BY <2>2 DEF Address
    <3> QED  BY <3>1, UserWriteOwn DEF P!PNext, Address
  <2>3. CASE ForkDone(p)
    BY <2>3, ForkDoneOwn DEF P!PNext
  <2>4. CASE \/ \E a \in Region \X Page : Fault(p, a)
             \/ LackTable(p) \/ LackPage(p) \/ CowTable(p) \/ CopyTable(p) \/ CowPage(p) \/ CopyPage(p)
             \/ (\E c \in Proc : Fork(p, c)) \/ ForkRegion(p)
    <3>1. OwnInv' /\ Unseen
      BY <2>4, FaultOwn, LackTableOwn, LackPageOwn, CowTableOwn, CopyTableOwn,
         CowPageOwn, CopyPageOwn, ForkOwn, ForkRegionOwn
    <3> QED  BY <3>1, StutterStep
  <2> QED  BY <2>1, <2>2, <2>3, <2>4
<1>2. CASE UNCHANGED vars
  <2>1. UNCHANGED <<cat, pte, share, marked, data, next, pc, addr, unread, child, todo, panic>>
    BY <1>2 DEF vars
  <2>2. /\ Sole' /\ ReadOnlyShared' /\ ForkCounted'
        /\ \A q \in Proc : \A a \in Address : View(q, a)' = View(q, a)
    BY <2>1, QuietOwn
  <2>3. \A q \in Proc : AtWork(q)' /\ Forked(q)'
    BY <2>1, <2>2, StillAtWork, StillForked DEF OwnInv
  <2>4. Alive' = Alive /\ Alive \subseteq Proc
    BY <2>1 DEF Alive
  <2> QED  BY <2>2, <2>3, <2>4, StutterStep DEF OwnInv, Unseen
<1> QED  BY <1>1, <1>2

\* While no process forks that has copied a page, and with handlers and regions as in
\* NeverPanic, each process has a memory of its own: nobody reads what another wrote
\* after the fork between them, however many fork and fault, and in any order.
THEOREM MemoryAlwaysPrivate == Gentle /\ CopiesFork = FALSE => (Spec => MemoryIsPrivate)
<1> SUFFICES ASSUME Gentle, CopiesFork = FALSE PROVE Spec => MemoryIsPrivate
  OBVIOUS
<1>1. Init => MemInv /\ Calm /\ OwnInv /\ P!PInit
  BY MemInit, CalmInit, OwnInit
<1>2. MemInv /\ Calm /\ OwnInv /\ [Next]_vars => MemInv' /\ Calm' /\ OwnInv' /\ [P!PNext]_(P!pvars)
  BY MemNext, CalmNext, OwnNext
<1> QED  BY <1>1, <1>2, PTL DEF Spec, MemoryIsPrivate, P!PSpec

\* The same for the behaviours of MCMem whose subject is the contents of pages.
THEOREM ContentsAlwaysPrivate == Gentle /\ CopiesFork = FALSE => (AllSpec => ContentsPrivate)
<1> SUFFICES ASSUME Gentle, CopiesFork = FALSE PROVE AllSpec => ContentsPrivate
  OBVIOUS
<1> DEFINE Inv == subject = "contents" => MemInv /\ Calm /\ OwnInv
<1>1. AllInit => Inv /\ P!PInit
  BY MemInit, CalmInit, OwnInit DEF AllInit
<1>2. Inv /\ [AllNext]_memvars =>
          Inv' /\ [subject = "contents" => UNCHANGED P!pvars \/ P!PNext]_memvars
  <2> SUFFICES ASSUME Inv, [AllNext]_memvars
               PROVE  Inv' /\ (subject = "contents" => UNCHANGED P!pvars \/ P!PNext)
    OBVIOUS
  <2>1. subject' = subject /\ (subject = "contents" => [Next]_vars)
    BY DEF AllNext, Only, memvars
  <2>2. CASE subject = "contents"
    BY <2>1, <2>2, MemNext, CalmNext, OwnNext
  <2>3. CASE subject # "contents"
    BY <2>1, <2>3
  <2> QED  BY <2>2, <2>3
<1> QED  BY <1>1, <1>2, PTL DEF AllSpec, ContentsPrivate
=============================================================================
