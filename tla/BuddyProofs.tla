---------------------------- MODULE BuddyProofs -----------------------------
(***************************************************************************)
(* Why buddy.c keeps its lists and maps exact, and implements AddressSpace,*)
(* for every number of orders and of blocks.                               *)
(***************************************************************************)
EXTENDS Buddy, WellFoundedInduction, TLAPS

-----------------------------------------------------------------------------
(***************************************************************************)
(* Sizes, blocks and pages.                                                *)
(***************************************************************************)
\* A set of numbers that is not empty has a least one.
LEMMA Least ==
    ASSUME NEW T, T \subseteq Nat, T # {}
    PROVE  \E m \in T : \A k \in T : m <= k
<1> DEFINE R == OpToRel(<, Nat)
<1>1. IsWellFoundedOn(R, Nat)
  BY NatLessThanWellFounded
<1>2. \A k, m \in Nat : k < m => <<k, m>> \in R
  BY DEF OpToRel
<1>3. PICK m \in T : \A k \in T : ~ (<<k, m>> \in R)
  <2> HIDE DEF R
  <2> QED BY <1>1, WFMin
<1> HIDE DEF R
<1>4. ASSUME NEW k \in T PROVE m <= k
  <2>1. k \in Nat /\ m \in Nat /\ ~ (k < m)
    BY <1>2, <1>3
  <2> QED BY <2>1
<1> QED BY <1>4

LEMMA OrdersAre ==
    /\ TOP \in Nat /\ TOP \in Orders /\ 0 \in Orders /\ Orders \subseteq Nat
    /\ \A n \in Orders : n <= TOP /\ TOP - n \in Orders
    /\ \A n \in Orders : n # TOP => n + 1 \in Orders
    /\ \A n \in Orders : n # 0 => n - 1 \in Orders
    /\ \A n \in Nat : n <= TOP => n \in Orders
    /\ LB_SIZE \in Nat /\ LB_SIZE >= 4
BY BuddyAssumption DEF Orders, TOP

\* The sizes of the orders up to m.
Powers(m, f) == f = [n \in 0..m |-> IF n = 0 THEN 1 ELSE 2 * f[n - 1]]

LEMMA PowersExist ==
    ASSUME NEW m \in Nat
    PROVE  \E f : Powers(m, f)
<1> DEFINE Bad == {k \in Nat : ~ \E f : Powers(k, f)}
<1>1. ASSUME Bad # {} PROVE FALSE
  <2>1. PICK k \in Bad : \A i \in Bad : k <= i
    <3>1. Bad \subseteq Nat
      OBVIOUS
    <3> HIDE DEF Bad
    <3> QED BY <1>1, <3>1, Least
  <2>2. CASE k = 0
    <3> DEFINE f == [i \in 0..0 |-> 1]
    <3>1. Powers(0, f)
      BY DEF Powers
    <3> HIDE DEF f
    <3> QED BY <2>1, <2>2, <3>1
  <2>3. CASE k # 0
    <3>1. k \in Nat /\ k - 1 \in Nat /\ k - 1 \notin Bad
      BY <2>1, <2>3
    <3>2. PICK f : Powers(k - 1, f)
      BY <3>1
    <3> DEFINE g == [i \in 0..k |-> IF i = k THEN 2 * f[k - 1] ELSE f[i]]
    <3>3. g[k] = 2 * f[k - 1] /\ \A i \in 0..(k - 1) : g[i] = f[i]
      BY <3>1
    <3>4. g = [i \in 0..k |-> g[i]]
      OBVIOUS
    <3> HIDE DEF g
    <3>5. ASSUME NEW i \in 0..(k - 1)
          PROVE  g[i] = IF i = 0 THEN 1 ELSE 2 * g[i - 1]
      <4>1. f[i] = IF i = 0 THEN 1 ELSE 2 * f[i - 1]
        BY <3>2 DEF Powers
      <4>2. i # 0 => g[i - 1] = f[i - 1]
        BY <3>1, <3>3
      <4> QED BY <3>3, <4>1, <4>2
    <3>6. g[k] = 2 * g[k - 1]
      BY <3>1, <3>3
    <3>7. \A i \in 0..k : i = k \/ i \in 0..(k - 1)
      BY <3>1
    <3>8. Powers(k, g)
      <4>1. \A i \in 0..k : g[i] = IF i = 0 THEN 1 ELSE 2 * g[i - 1]
        BY <2>3, <3>5, <3>6, <3>7
      <4> QED BY <3>4, <4>1 DEF Powers
    <3> QED BY <2>1, <3>8
  <2> QED BY <2>2, <2>3
<1> QED BY <1>1

LEMMA SizeIs == Size = [n \in Orders |-> IF n = 0 THEN 1 ELSE 2 * Size[n - 1]]
<1>1. PICK f : Powers(TOP, f)
  BY OrdersAre, PowersExist
<1>2. f = [n \in Orders |-> IF n = 0 THEN 1 ELSE 2 * f[n - 1]]
  BY <1>1 DEF Powers, Orders, TOP
<1> QED BY <1>2 DEF Size

LEMMA Sizes ==
    /\ Size[0] = 1
    /\ \A n \in Orders : n # TOP => Size[n + 1] = 2 * Size[n]
    /\ \A n \in Orders : Size[n] \in Nat /\ Size[n] > 0
<1>1. \A n \in Orders : Size[n] = IF n = 0 THEN 1 ELSE 2 * Size[n - 1]
  BY SizeIs
<1>2. Size[0] = 1
  BY <1>1, OrdersAre
<1>3. ASSUME NEW n \in Orders, n # TOP PROVE Size[n + 1] = 2 * Size[n]
  <2> DEFINE m == n + 1
  <2>1. m \in Orders /\ m # 0 /\ m - 1 = n
    BY <1>3, OrdersAre
  <2>2. Size[m] = IF m = 0 THEN 1 ELSE 2 * Size[m - 1]
    BY <2>1, <1>1
  <2> HIDE DEF m
  <2>3. Size[m] = 2 * Size[n]
    BY <2>1, <2>2
  <2> QED BY <2>3 DEF m
<1> DEFINE Bad == {n \in Orders : ~ (Size[n] \in Nat /\ Size[n] > 0)}
<1>4. ASSUME Bad # {} PROVE FALSE
  <2>1. PICK n \in Bad : \A i \in Bad : n <= i
    <3>1. Bad \subseteq Nat
      BY OrdersAre
    <3> HIDE DEF Bad
    <3> QED BY <1>4, <3>1, Least
  <2>2. n # 0
    BY <2>1, <1>2
  <2>3. n - 1 \in Orders /\ n - 1 \notin Bad /\ n \in Orders
    BY <2>1, <2>2, OrdersAre
  <2>4. Size[n] = 2 * Size[n - 1]
    BY <1>1, <2>2, <2>3
  <2>5. Size[n - 1] \in Nat /\ Size[n - 1] > 0
    BY <2>3
  <2> QED BY <2>1, <2>4, <2>5
<1> QED BY <1>2, <1>3, <1>4

\* The number of blocks of an order.
Number(n) == LB_SIZE * Size[TOP - n]

LEMMA Numbers ==
    /\ Number(TOP) = LB_SIZE
    /\ \A n \in Orders : Number(n) \in Nat /\ Number(n) > 0 /\ Number(n) % 2 = 0
    /\ \A n \in Orders : n # TOP => Number(n) = 2 * Number(n + 1)
    /\ \A n \in Orders : Blocks(n) = 0..(Number(n) - 1) /\ Pairs(n) = 0..(Number(n) \div 2 - 1)
<1>1. Number(TOP) = LB_SIZE
  <2>1. TOP - TOP = 0
    BY OrdersAre
  <2> QED BY <2>1, Sizes, OrdersAre DEF Number
<1>2. ASSUME NEW n \in Orders PROVE Number(n) \in Nat /\ Number(n) > 0
  <2>1. Size[TOP - n] \in Nat /\ Size[TOP - n] > 0
    BY Sizes, OrdersAre
  <2> QED BY <2>1, OrdersAre DEF Number
<1>3. ASSUME NEW n \in Orders, n # TOP PROVE Number(n) = 2 * Number(n + 1)
  <2>1. TOP - (n + 1) \in Orders /\ TOP - (n + 1) # TOP /\ TOP - (n + 1) + 1 = TOP - n
    BY <1>3, OrdersAre
  <2>2. Size[TOP - n] = 2 * Size[TOP - (n + 1)] /\ Size[TOP - (n + 1)] \in Nat
    BY <2>1, Sizes
  <2> QED BY <2>2, OrdersAre DEF Number
<1>4. ASSUME NEW n \in Orders PROVE Number(n) % 2 = 0
  <2>1. CASE n = TOP
    BY <1>1, <2>1, BuddyAssumption
  <2>2. CASE n # TOP
    <3>1. n + 1 \in Orders /\ Number(n + 1) \in Nat /\ Number(n) = 2 * Number(n + 1)
      BY <1>2, <1>3, <2>2, OrdersAre
    <3> HIDE DEF Number
    <3> QED BY <3>1
  <2> QED BY <2>1, <2>2
<1>5. \A n \in Orders : Blocks(n) = 0..(Number(n) - 1) /\ Pairs(n) = 0..(Number(n) \div 2 - 1)
  BY DEF Blocks, Pairs, Number
<1> QED BY <1>1, <1>2, <1>3, <1>4, <1>5

\* A block and its pair.
LEMMA PairOf ==
    ASSUME NEW n \in Orders
    PROVE  /\ Blocks(n) \subseteq Nat /\ Pairs(n) \subseteq Nat
           /\ \A pos \in Blocks(n) :
                 /\ pos \div 2 \in Pairs(n) /\ BuddyOf(pos) \in Blocks(n)
                 /\ BuddyOf(pos) # pos /\ BuddyOf(pos) \div 2 = pos \div 2
                 /\ \/ pos = 2 * (pos \div 2) /\ BuddyOf(pos) = 2 * (pos \div 2) + 1
                    \/ pos = 2 * (pos \div 2) + 1 /\ BuddyOf(pos) = 2 * (pos \div 2)
           /\ \A i \in Pairs(n) : /\ 2 * i \in Blocks(n) /\ 2 * i + 1 \in Blocks(n)
                                  /\ (2 * i) \div 2 = i /\ (2 * i + 1) \div 2 = i
           /\ n # TOP => Pairs(n) = Blocks(n + 1)
<1> DEFINE c == Number(n)
<1>1. c \in Nat /\ c > 0 /\ c % 2 = 0 /\ Blocks(n) = 0..(c - 1) /\ Pairs(n) = 0..(c \div 2 - 1)
  BY Numbers
<1> HIDE DEF c
<1>2. c = 2 * (c \div 2) /\ c \div 2 \in Nat
  BY <1>1
<1>3. ASSUME NEW pos \in Blocks(n)
      PROVE  /\ pos \div 2 \in Pairs(n) /\ BuddyOf(pos) \in Blocks(n)
             /\ BuddyOf(pos) # pos /\ BuddyOf(pos) \div 2 = pos \div 2
             /\ \/ pos = 2 * (pos \div 2) /\ BuddyOf(pos) = 2 * (pos \div 2) + 1
                \/ pos = 2 * (pos \div 2) + 1 /\ BuddyOf(pos) = 2 * (pos \div 2)
  <2> DEFINE h == pos \div 2
             d == c \div 2
  <2>1. h \in Int /\ (pos = 2 * h \/ pos = 2 * h + 1) /\ pos \in 0..(c - 1) /\ (pos % 2 = 0 <=> pos = 2 * h)
    BY <1>1
  <2>2. (2 * h) \div 2 = h /\ (2 * h + 1) \div 2 = h
    BY <2>1
  <2>3. d \in Nat /\ c = 2 * d /\ Pairs(n) = 0..(d - 1)
    BY <1>1, <1>2
  <2>4. \/ pos = 2 * h /\ BuddyOf(pos) = 2 * h + 1
        \/ pos = 2 * h + 1 /\ BuddyOf(pos) = 2 * h
    BY <2>1 DEF BuddyOf
  <2> HIDE DEF h, d
  <2>5. h \in 0..(d - 1)
    BY <2>1, <2>3
  <2> QED BY <1>1, <2>1, <2>2, <2>3, <2>4, <2>5 DEF h
<1>4. ASSUME NEW i \in Pairs(n)
      PROVE  /\ 2 * i \in Blocks(n) /\ 2 * i + 1 \in Blocks(n)
             /\ (2 * i) \div 2 = i /\ (2 * i + 1) \div 2 = i
  <2> DEFINE d == c \div 2
  <2>1. i \in 0..(d - 1) /\ d \in Nat /\ c = 2 * d
    BY <1>1, <1>2
  <2> HIDE DEF d
  <2> QED BY <1>1, <2>1
<1>5. n # TOP => Pairs(n) = Blocks(n + 1)
  <2> SUFFICES ASSUME n # TOP PROVE Pairs(n) = Blocks(n + 1)
    OBVIOUS
  <2> DEFINE e == Number(n + 1)
  <2>1. c = 2 * e /\ e \in Nat /\ Blocks(n + 1) = 0..(e - 1)
    BY Numbers, OrdersAre DEF c
  <2> HIDE DEF e
  <2>2. c \div 2 = e
    BY <2>1
  <2> QED BY <1>1, <2>1, <2>2
<1> QED BY <1>1, <1>3, <1>4, <1>5

-----------------------------------------------------------------------------
(* The block of an order that a page is in. *)
Block(p, n) == p \div Size[n]

LEMMA BlockFacts ==
    ASSUME NEW p \in Pages
    PROVE  /\ Block(p, 0) = p
           /\ \A n \in Orders : n # TOP => Block(p, n + 1) = Block(p, n) \div 2
           /\ \A n \in Orders : Block(p, n) \in Blocks(n)
<1>1. p \in Nat /\ p \in Blocks(0)
  BY Numbers, OrdersAre DEF Pages
<1>2. Block(p, 0) = p
  BY <1>1, Sizes DEF Block
<1>3. ASSUME NEW n \in Orders, n # TOP PROVE Block(p, n + 1) = Block(p, n) \div 2
  <2> DEFINE z == Size[n]
  <2>1. z \in Nat /\ z > 0 /\ Size[n + 1] = 2 * z
    BY <1>3, Sizes
  <2> HIDE DEF z
  <2>2. (p \div z) \div 2 = p \div (2 * z)
    BY <1>1, <2>1
  <2> QED BY <2>1, <2>2 DEF Block, z
<1> DEFINE Bad == {n \in Orders : Block(p, n) \notin Blocks(n)}
<1>4. ASSUME Bad # {} PROVE FALSE
  <2>1. PICK n \in Bad : \A i \in Bad : n <= i
    <3>1. Bad \subseteq Nat
      BY OrdersAre
    <3> HIDE DEF Bad
    <3> QED BY <1>4, <3>1, Least
  <2>2. n # 0
    BY <1>1, <1>2, <2>1
  <2> DEFINE m == n - 1
  <2>3. m \in Orders /\ m # TOP /\ m + 1 = n /\ m \notin Bad
    BY <2>1, <2>2, OrdersAre
  <2>4. Block(p, m) \in Blocks(m)
    BY <2>3
  <2>5. Block(p, m) \div 2 \in Blocks(n)
    BY <2>3, <2>4, PairOf
  <2>6. Block(p, n) = Block(p, m) \div 2
    BY <1>3, <2>3
  <2> QED BY <2>1, <2>5, <2>6
<1> QED BY <1>2, <1>3, <1>4

\* A page whose block is a block is a page, and each block has a first page.
LEMMA FirstPage ==
    ASSUME NEW n \in Orders
    PROVE  /\ \A p \in Nat : Block(p, n) \in Blocks(n) => p \in Pages
           /\ \A pos \in Blocks(n) : /\ pos * Size[n] \in Pages
                                     /\ Block(pos * Size[n], n) = pos
                                     /\ (pos * Size[n]) % Size[n] = 0
<1>1. ASSUME NEW p \in Nat, Block(p, n) \in Blocks(n) PROVE p \in Pages
  <2> DEFINE z == Size[n]
             c == Number(n)
             Bad == {k \in Nat : n - k \in Orders /\ Block(p, n - k) \notin Blocks(n - k)}
  <2>1. ASSUME Bad # {} PROVE FALSE
    <3>1. PICK k \in Bad : \A i \in Bad : k <= i
      <4>1. Bad \subseteq Nat
        OBVIOUS
      <4> HIDE DEF Bad
      <4> QED BY <2>1, <4>1, Least
    <3>2. k # 0
      BY <1>1, <3>1, OrdersAre
    <3> DEFINE m == n - k
    <3>3. m \in Orders /\ m # TOP /\ m + 1 = n - (k - 1) /\ k - 1 \in Nat /\ m + 1 \in Orders
      BY <3>1, <3>2, OrdersAre
    <3>4. Block(p, m + 1) \in Blocks(m + 1)
      <4>1. k - 1 \notin Bad
        BY <3>1, <3>3
      <4> QED BY <3>3, <4>1
    <3>5. Block(p, m + 1) = Block(p, m) \div 2 /\ Block(p, m) \in Nat
      <4> DEFINE y == Size[m]
      <4>1. y \in Nat /\ y > 0 /\ Size[m + 1] = 2 * y
        BY <3>3, Sizes
      <4> HIDE DEF y
      <4>2. (p \div y) \div 2 = p \div (2 * y) /\ p \div y \in Nat
        BY <4>1
      <4> QED BY <4>1, <4>2 DEF Block, y
    <3> DEFINE q == Block(p, m)
               e == Number(m + 1)
    <3>6. e \in Nat /\ Blocks(m + 1) = 0..(e - 1) /\ Blocks(m) = 0..(2 * e - 1)
      BY <3>3, Numbers
    <3> HIDE DEF q, e
    <3>7. q \div 2 \in 0..(e - 1) /\ q \in Nat
      BY <3>4, <3>5, <3>6 DEF q
    <3>8. q \in 0..(2 * e - 1)
      BY <3>6, <3>7
    <3> QED BY <3>1, <3>6, <3>8 DEF q
  <2>2. n \in Nat /\ n - n = 0 /\ 0 \in Orders
    BY OrdersAre
  <2>3. Block(p, 0) \in Blocks(0)
    BY <2>1, <2>2
  <2>4. Block(p, 0) = p
    BY Sizes DEF Block
  <2> QED BY <2>3, <2>4 DEF Pages
<1>2. ASSUME NEW pos \in Blocks(n)
      PROVE  /\ pos * Size[n] \in Pages
             /\ Block(pos * Size[n], n) = pos
             /\ (pos * Size[n]) % Size[n] = 0
  <2> DEFINE z == Size[n]
  <2>1. z \in Nat /\ z > 0 /\ pos \in Nat
    BY Sizes, PairOf
  <2> HIDE DEF z
  <2>2. pos * z \in Nat
    BY <2>1
  <2>3. (pos * z) \div z = pos
    BY <2>1
  <2>4. (pos * z) % z = 0
    BY <2>1
  <2>5. Block(pos * z, n) = pos
    BY <2>3 DEF Block, z
  <2>6. pos * z \in Pages
    BY <1>1, <2>2, <2>5
  <2> QED BY <2>4, <2>5, <2>6 DEF z
<1> QED BY <1>1, <1>2

\* The pages of a block are a run.
LEMMA RunIs ==
    ASSUME NEW n \in Orders, NEW pos \in Blocks(n)
    PROVE  Run(pos * Size[n], n) = {p \in Pages : Block(p, n) = pos}
<1> DEFINE z == Size[n]
<1>1. z \in Nat /\ z > 0 /\ pos \in Nat
  BY Sizes, PairOf
<1>2. ASSUME NEW p \in Run(pos * z, n) PROVE p \in Pages /\ Block(p, n) = pos
  <2>1. p \in (pos * z)..(pos * z + z - 1)
    BY DEF Run
  <2> HIDE DEF z
  <2>2. p \in Nat /\ p >= pos * z /\ p < pos * z + z
    BY <1>1, <2>1
  <2>3. p \div z = pos
    BY <1>1, <2>2
  <2> QED BY <2>2, <2>3, FirstPage DEF Block, z
<1>3. ASSUME NEW p \in Pages, Block(p, n) = pos PROVE p \in Run(pos * z, n)
  <2>1. p \in Nat /\ p \div z = pos
    BY <1>3, PairOf, OrdersAre DEF Block, Pages
  <2> HIDE DEF z
  <2>2. p >= pos * z /\ p < pos * z + z
    BY <1>1, <2>1
  <2>3. p \in (pos * z)..(pos * z + z - 1)
    BY <1>1, <2>1, <2>2
  <2> QED BY <2>3 DEF Run, z
<1> QED BY <1>2, <1>3

-----------------------------------------------------------------------------
(***************************************************************************)
(* The lists of free blocks.                                               *)
(***************************************************************************)
LEMMA InsertIn ==
    ASSUME NEW S, NEW s \in Seq(S), Injective(s), NEW x \in S, ~InSeq(x, s)
    PROVE  /\ Insert(s, x) \in Seq(S)
           /\ Injective(Insert(s, x))
           /\ \A y : InSeq(y, Insert(s, x)) <=> InSeq(y, s) \/ y = x
<1> DEFINE t == Insert(s, x)
<1>1. t \in Seq(S) /\ Len(t) = Len(s) + 1 /\ Len(s) \in Nat
  BY DEF Insert
<1>2. t[1] = x /\ \A i \in 1..Len(s) : t[i + 1] = s[i]
  BY DEF Insert
<1>3. DOMAIN s = 1..Len(s) /\ DOMAIN t = 1..(Len(s) + 1)
  BY <1>1
<1> HIDE DEF t
<1>4. \A i \in DOMAIN t : i # 1 => i - 1 \in DOMAIN s /\ t[i] = s[i - 1]
  <2> SUFFICES ASSUME NEW i \in DOMAIN t, i # 1 PROVE i - 1 \in DOMAIN s /\ t[i] = s[i - 1]
    OBVIOUS
  <2> DEFINE j == i - 1
  <2>1. j \in 1..Len(s) /\ i = j + 1
    BY <1>1, <1>3
  <2> HIDE DEF j
  <2>2. t[i] = s[j]
    BY <1>2, <2>1
  <2> QED BY <1>3, <2>1, <2>2 DEF j
<1>5. \A i \in DOMAIN s : i + 1 \in DOMAIN t /\ t[i + 1] = s[i]
  BY <1>1, <1>2, <1>3
<1>6. Injective(t)
  <2> SUFFICES ASSUME NEW i \in DOMAIN t, NEW j \in DOMAIN t, t[i] = t[j] PROVE i = j
    BY DEF Injective
  <2>1. i \in Int /\ j \in Int
    BY <1>3
  <2>2. i = 1 <=> t[i] = x
    BY <1>2, <1>4 DEF InSeq
  <2>3. j = 1 <=> t[j] = x
    BY <1>2, <1>4 DEF InSeq
  <2>4. CASE i # 1
    <3>1. i - 1 \in DOMAIN s /\ j - 1 \in DOMAIN s /\ s[i - 1] = s[j - 1]
      BY <1>4, <2>2, <2>3, <2>4
    <3>2. i - 1 = j - 1
      BY <3>1 DEF Injective
    <3> QED BY <2>1, <3>2
  <2> QED BY <2>2, <2>3, <2>4
<1>7. ASSUME NEW y PROVE InSeq(y, t) <=> InSeq(y, s) \/ y = x
  <2>1. 1 \in DOMAIN t
    BY <1>1, <1>3
  <2> QED BY <1>2, <1>4, <1>5, <2>1 DEF InSeq
<1> QED BY <1>1, <1>6, <1>7 DEF t

LEMMA TailIn ==
    ASSUME NEW S, NEW s \in Seq(S), Injective(s), s # <<>>
    PROVE  /\ Tail(s) \in Seq(S) /\ Injective(Tail(s))
           /\ Head(s) \in S /\ InSeq(Head(s), s)
           /\ \A y : InSeq(y, Tail(s)) <=> InSeq(y, s) /\ y # Head(s)
<1> DEFINE t == Tail(s)
<1>1. t \in Seq(S) /\ Len(t) = Len(s) - 1 /\ Len(s) \in Nat /\ Len(s) >= 1
  OBVIOUS
<1>2. Head(s) = s[1] /\ \A i \in 1..(Len(s) - 1) : t[i] = s[i + 1]
  OBVIOUS
<1>3. DOMAIN s = 1..Len(s) /\ DOMAIN t = 1..(Len(s) - 1)
  BY <1>1
<1> HIDE DEF t
<1>4. 1 \in DOMAIN s /\ Head(s) \in S
  BY <1>1, <1>2, <1>3
<1>5. \A i \in DOMAIN t : i + 1 \in DOMAIN s /\ t[i] = s[i + 1] /\ i + 1 # 1
  BY <1>1, <1>2, <1>3
<1>6. \A i \in DOMAIN s : i # 1 => i - 1 \in DOMAIN t /\ t[i - 1] = s[i]
  <2> SUFFICES ASSUME NEW i \in DOMAIN s, i # 1 PROVE i - 1 \in DOMAIN t /\ t[i - 1] = s[i]
    OBVIOUS
  <2> DEFINE j == i - 1
  <2>1. j \in 1..(Len(s) - 1) /\ i = j + 1
    BY <1>1, <1>3
  <2> HIDE DEF j
  <2>2. t[j] = s[i]
    BY <1>2, <2>1
  <2> QED BY <1>3, <2>1, <2>2 DEF j
<1>7. Injective(t)
  <2> SUFFICES ASSUME NEW i \in DOMAIN t, NEW j \in DOMAIN t, t[i] = t[j] PROVE i = j
    BY DEF Injective
  <2>1. i \in Int /\ j \in Int
    BY <1>3
  <2>2. i + 1 = j + 1
    BY <1>5 DEF Injective
  <2> QED BY <2>1, <2>2
<1>8. ASSUME NEW y PROVE InSeq(y, t) <=> InSeq(y, s) /\ y # Head(s)
  <2>1. ASSUME InSeq(y, t) PROVE InSeq(y, s) /\ y # Head(s)
    <3>1. PICK i \in DOMAIN t : t[i] = y
      BY <2>1 DEF InSeq
    <3>2. i + 1 \in DOMAIN s /\ s[i + 1] = y /\ i + 1 # 1
      BY <1>5, <3>1
    <3>3. s[1] # y
      BY <1>4, <3>2 DEF Injective
    <3> QED BY <1>2, <3>2, <3>3 DEF InSeq
  <2>2. ASSUME InSeq(y, s), y # Head(s) PROVE InSeq(y, t)
    BY <2>2, <1>2, <1>6 DEF InSeq
  <2> QED BY <2>1, <2>2
<1> QED BY <1>1, <1>2, <1>4, <1>7, <1>8 DEF t, InSeq

LEMMA UnlinkIn ==
    ASSUME NEW S, NEW s \in Seq(S), Injective(s), NEW x, InSeq(x, s)
    PROVE  /\ Unlink(s, x) \in Seq(S)
           /\ Injective(Unlink(s, x))
           /\ \A y : InSeq(y, Unlink(s, x)) <=> InSeq(y, s) /\ y # x
<1> DEFINE n == Position(s, x)
           u == Unlink(s, x)
<1>1. n \in DOMAIN s /\ s[n] = x
  BY DEF Position, InSeq
<1>2. DOMAIN s = 1..Len(s) /\ Len(s) \in Nat
  OBVIOUS
<1>3. u = [i \in 1..(Len(s) - 1) |-> IF i < n THEN s[i] ELSE s[i + 1]]
  BY DEF Unlink
<1>4. \A i \in 1..(Len(s) - 1) : i \in DOMAIN s /\ i + 1 \in DOMAIN s
  BY <1>2
<1>5. Len(s) - 1 \in Nat
  BY <1>1, <1>2
<1> HIDE DEF n, u
<1>6. /\ DOMAIN u = 1..(Len(s) - 1)
      /\ \A i \in DOMAIN u : u[i] = IF i < n THEN s[i] ELSE s[i + 1]
  BY <1>3
<1>7. u \in Seq(S)
  BY <1>3, <1>5, <1>4
<1> DEFINE After(i) == IF i < n THEN i ELSE i + 1
<1>8. \A i \in DOMAIN u : After(i) \in DOMAIN s /\ s[After(i)] = u[i] /\ After(i) # n
  BY <1>1, <1>2, <1>4, <1>6
<1>9. Injective(u)
  <2> SUFFICES ASSUME NEW i \in DOMAIN u, NEW j \in DOMAIN u, u[i] = u[j]
               PROVE  i = j
    BY DEF Injective
  <2>1. i \in Int /\ j \in Int /\ n \in Int
    BY <1>6, <1>1, <1>2
  <2>2. After(i) = After(j)
    <3> HIDE DEF After
    <3> QED BY <1>8 DEF Injective
  <2> QED BY <2>1, <2>2
<1>10. ASSUME NEW y PROVE InSeq(y, u) <=> InSeq(y, s) /\ y # x
  <2>1. ASSUME InSeq(y, u) PROVE InSeq(y, s) /\ y # x
    <3>1. PICK i \in DOMAIN u : u[i] = y
      BY <2>1 DEF InSeq
    <3> HIDE DEF After
    <3>2. After(i) \in DOMAIN s /\ s[After(i)] = y /\ After(i) # n
      BY <1>8, <3>1
    <3>3. y # x
      BY <1>1, <3>2 DEF Injective
    <3> QED BY <3>2, <3>3 DEF InSeq
  <2>2. ASSUME InSeq(y, s), y # x PROVE InSeq(y, u)
    <3>1. PICK i \in DOMAIN s : s[i] = y
      BY <2>2 DEF InSeq
    <3>2. i # n
      BY <1>1, <2>2, <3>1
    <3>3. CASE i < n
      <4>1. i \in DOMAIN u
        BY <1>1, <1>2, <1>6, <3>3
      <4> QED BY <1>6, <3>1, <3>3, <4>1 DEF InSeq
    <3>4. CASE i > n
      <4> DEFINE j == i - 1
      <4>1. j \in DOMAIN u /\ j + 1 = i /\ ~ (j < n)
        BY <1>1, <1>2, <1>6, <3>4
      <4> HIDE DEF j
      <4> QED BY <1>6, <3>1, <4>1 DEF InSeq
    <3> QED BY <1>1, <1>2, <3>2, <3>3, <3>4
  <2> QED BY <2>1, <2>2
<1> QED BY <1>7, <1>9, <1>10 DEF u

-----------------------------------------------------------------------------
(***************************************************************************)
(* The routines on lists and maps.                                         *)
(***************************************************************************)
Typed(a) ==
    /\ a = [list |-> a.list, map |-> a.map]
    /\ a.list = [n \in Orders |-> a.list[n]]
    /\ a.map = [n \in Orders |-> a.map[n]]
    /\ \A n \in Orders : a.list[n] \in Seq(Blocks(n)) /\ a.map[n] \in [Pairs(n) -> BOOLEAN]

Ready(a) == Typed(a) /\ \A n \in Orders : Injective(a.list[n])

InList(a, n, pos) == InSeq(pos, a.list[n])

\* One bit is flipped.
Flipped(a, c, n, i) ==
    \A m \in Orders : \A j \in Pairs(m) :
        c.map[m][j] <=> IF m = n /\ j = i THEN ~ a.map[m][j] ELSE a.map[m][j]

LEMMA FlipIs ==
    ASSUME NEW a, Typed(a), NEW n \in Orders, NEW pos \in Blocks(n)
    PROVE  /\ Typed(Flip(a, n, pos))
           /\ Flip(a, n, pos).list = a.list
           /\ Flipped(a, Flip(a, n, pos), n, pos \div 2)
<1> DEFINE i == pos \div 2
           g == [a.map[n] EXCEPT ![i] = ~ @]
           h == [a.map EXCEPT ![n] = g]
           f == Flip(a, n, pos)
<1>1. i \in Pairs(n)
  BY PairOf
<1> HIDE DEF i
<1>2. f = [list |-> a.list, map |-> h]
  <2>1. a = [list |-> a.list, map |-> a.map]
    BY DEF Typed
  <2>2. f = [a EXCEPT !.map = h]
    BY DEF Flip, i
  <2> HIDE DEF f, h
  <2> QED BY <2>1, <2>2
<1>3. g \in [Pairs(n) -> BOOLEAN] /\ \A j \in Pairs(n) : g[j] = IF j = i THEN ~ a.map[n][j] ELSE a.map[n][j]
  BY <1>1 DEF Typed
<1> HIDE DEF g
<1>4. h = [m \in Orders |-> IF m = n THEN g ELSE a.map[m]]
  BY DEF Typed
<1> HIDE DEF h, f
<1>5. f.list = a.list /\ f.map = h
  BY <1>2
<1>6. \A m \in Orders : h[m] = IF m = n THEN g ELSE a.map[m]
  BY <1>4
<1>7. h = [m \in Orders |-> h[m]]
  BY <1>4
<1>8. Typed(f)
  BY <1>2, <1>3, <1>5, <1>6, <1>7 DEF Typed
<1>9. Flipped(a, f, n, i)
  <2> SUFFICES ASSUME NEW m \in Orders, NEW j \in Pairs(m)
               PROVE  h[m][j] <=> IF m = n /\ j = i THEN ~ a.map[m][j] ELSE a.map[m][j]
    BY <1>5 DEF Flipped
  <2> QED BY <1>3, <1>6
<1> QED BY <1>5, <1>8, <1>9 DEF f, i

\* The list of an order is another.
LEMMA RelistIs ==
    ASSUME NEW a, Typed(a), NEW n \in Orders, NEW l \in Seq(Blocks(n))
    PROVE  /\ Typed([a EXCEPT !.list[n] = l])
           /\ [a EXCEPT !.list[n] = l].map = a.map
           /\ \A m \in Orders : [a EXCEPT !.list[n] = l].list[m] = IF m = n THEN l ELSE a.list[m]
<1> DEFINE h == [a.list EXCEPT ![n] = l]
           f == [a EXCEPT !.list[n] = l]
<1>1. f = [list |-> h, map |-> a.map]
  <2>1. a = [list |-> a.list, map |-> a.map]
    BY DEF Typed
  <2>2. f = [a EXCEPT !.list = h]
    OBVIOUS
  <2> HIDE DEF f, h
  <2> QED BY <2>1, <2>2
<1>2. h = [m \in Orders |-> IF m = n THEN l ELSE a.list[m]]
  BY DEF Typed
<1> HIDE DEF h, f
<1>3. f.list = h /\ f.map = a.map
  BY <1>1
<1>4. /\ \A m \in Orders : h[m] = IF m = n THEN l ELSE a.list[m]
      /\ h = [m \in Orders |-> h[m]]
  BY <1>2
<1>5. Typed(f)
  BY <1>1, <1>3, <1>4 DEF Typed
<1> QED BY <1>3, <1>4, <1>5 DEF f

LEMMA PopIs ==
    ASSUME NEW a, Ready(a), NEW n \in Orders, a.list[n] # <<>>
    PROVE  /\ Ready(Pop(a, n))
           /\ Head(a.list[n]) \in Blocks(n) /\ InList(a, n, Head(a.list[n]))
           /\ \A m \in Orders : \A q : InList(Pop(a, n), m, q)
                 <=> InList(a, m, q) /\ ~ (m = n /\ q = Head(a.list[n]))
           /\ Flipped(a, Pop(a, n), n, Head(a.list[n]) \div 2)
<1> DEFINE l == a.list[n]
           t == [a EXCEPT !.list[n] = Tail(l)]
           f == Flip(t, n, Head(l))
<1>1. l \in Seq(Blocks(n)) /\ Injective(l) /\ l # <<>>
  BY DEF Ready, Typed
<1>2. /\ Tail(l) \in Seq(Blocks(n)) /\ Injective(Tail(l))
      /\ Head(l) \in Blocks(n) /\ InSeq(Head(l), l)
      /\ \A q : InSeq(q, Tail(l)) <=> InSeq(q, l) /\ q # Head(l)
  <2> HIDE DEF l
  <2> QED BY <1>1, TailIn
<1>3. Pop(a, n) = f
  BY DEF Pop
<1>4. /\ Typed(t) /\ t.map = a.map
      /\ \A m \in Orders : t.list[m] = IF m = n THEN Tail(l) ELSE a.list[m]
  <2>1. Typed(a)
    BY DEF Ready
  <2> HIDE DEF l
  <2> QED BY <1>2, <2>1, RelistIs
<1> HIDE DEF t
<1>5. Typed(f) /\ f.list = t.list /\ Flipped(t, f, n, Head(l) \div 2)
  <2> HIDE DEF l
  <2> QED BY <1>2, <1>4, FlipIs
<1> HIDE DEF f
<1>6. Ready(f)
  <2> HIDE DEF l
  <2> QED BY <1>2, <1>4, <1>5 DEF Ready
<1>7. Flipped(a, f, n, Head(l) \div 2)
  BY <1>4, <1>5 DEF Flipped
<1>8. \A m \in Orders : \A q : InList(f, m, q) <=> InList(a, m, q) /\ ~ (m = n /\ q = Head(l))
  <2> SUFFICES ASSUME NEW m \in Orders, NEW q
               PROVE  InList(f, m, q) <=> InList(a, m, q) /\ ~ (m = n /\ q = Head(l))
    OBVIOUS
  <2>1. CASE m = n
    <3>1. f.list[m] = Tail(l) /\ a.list[m] = l
      BY <1>4, <1>5, <2>1
    <3> HIDE DEF l
    <3> QED BY <1>2, <2>1, <3>1 DEF InList
  <2>2. CASE m # n
    BY <1>4, <1>5, <2>2 DEF InList
  <2> QED BY <2>1, <2>2
<1> QED BY <1>2, <1>3, <1>6, <1>7, <1>8 DEF InList, l

\* The list of an order has a block more, the bit of a pair is flipped.
Put(a, n, pos, x) == [Flip(a, n, pos) EXCEPT !.list[n] = Insert(@, x)]

LEMMA PutIs ==
    ASSUME NEW a, Ready(a), NEW n \in Orders, NEW pos \in Blocks(n),
           NEW x \in Blocks(n), ~ InList(a, n, x)
    PROVE  /\ Ready(Put(a, n, pos, x))
           /\ \A m \in Orders : \A q : InList(Put(a, n, pos, x), m, q)
                 <=> InList(a, m, q) \/ (m = n /\ q = x)
           /\ Flipped(a, Put(a, n, pos, x), n, pos \div 2)
<1> DEFINE f == Flip(a, n, pos)
           l == f.list[n]
           k == Insert(l, x)
           c == [f EXCEPT !.list[n] = k]
<1>1. Typed(f) /\ f.list = a.list /\ Flipped(a, f, n, pos \div 2)
  BY FlipIs DEF Ready
<1>2. l \in Seq(Blocks(n)) /\ Injective(l) /\ ~ InSeq(x, l)
  BY <1>1 DEF Ready, Typed, InList
<1>3. /\ k \in Seq(Blocks(n)) /\ Injective(k)
      /\ \A q : InSeq(q, k) <=> InSeq(q, l) \/ q = x
  <2> HIDE DEF l
  <2> QED BY <1>2, InsertIn
<1> HIDE DEF f
<1>4. /\ Typed(c) /\ c.map = f.map
      /\ \A m \in Orders : c.list[m] = IF m = n THEN k ELSE f.list[m]
  <2> HIDE DEF k
  <2> QED BY <1>1, <1>3, RelistIs
<1>5. Put(a, n, pos, x) = c
  BY DEF f, Put
<1> HIDE DEF c
<1>6. Ready(c)
  <2> HIDE DEF k
  <2>1. \A m \in Orders : Injective(a.list[m])
    BY DEF Ready
  <2> QED BY <1>1, <1>3, <1>4, <2>1 DEF Ready
<1>7. Flipped(a, c, n, pos \div 2)
  BY <1>1, <1>4 DEF Flipped
<1>8. ASSUME NEW m \in Orders, NEW q
      PROVE  InList(c, m, q) <=> InList(a, m, q) \/ (m = n /\ q = x)
  <2>1. CASE m = n
    <3>1. c.list[m] = k /\ a.list[m] = l
      BY <1>1, <1>4, <2>1
    <3> HIDE DEF k, l
    <3> QED BY <1>3, <2>1, <3>1 DEF InList
  <2>2. CASE m # n
    BY <1>1, <1>4, <2>2 DEF InList
  <2> QED BY <2>1, <2>2
<1> QED BY <1>5, <1>6, <1>7, <1>8

\* A block is taken out of the list of an order, the bit of a pair is flipped.
Take(a, n, pos, x) == [Flip(a, n, pos) EXCEPT !.list[n] = Unlink(@, x)]

LEMMA TakeIs ==
    ASSUME NEW a, Ready(a), NEW n \in Orders, NEW pos \in Blocks(n),
           NEW x, InList(a, n, x)
    PROVE  /\ Ready(Take(a, n, pos, x))
           /\ \A m \in Orders : \A q : InList(Take(a, n, pos, x), m, q)
                 <=> InList(a, m, q) /\ ~ (m = n /\ q = x)
           /\ Flipped(a, Take(a, n, pos, x), n, pos \div 2)
<1> DEFINE f == Flip(a, n, pos)
           l == f.list[n]
           k == Unlink(l, x)
           c == [f EXCEPT !.list[n] = k]
<1>1. Typed(f) /\ f.list = a.list /\ Flipped(a, f, n, pos \div 2)
  BY FlipIs DEF Ready
<1>2. l \in Seq(Blocks(n)) /\ Injective(l) /\ InSeq(x, l)
  BY <1>1 DEF Ready, Typed, InList
<1>3. /\ k \in Seq(Blocks(n)) /\ Injective(k)
      /\ \A q : InSeq(q, k) <=> InSeq(q, l) /\ q # x
  <2> HIDE DEF l
  <2> QED BY <1>2, UnlinkIn
<1> HIDE DEF f
<1>4. /\ Typed(c) /\ c.map = f.map
      /\ \A m \in Orders : c.list[m] = IF m = n THEN k ELSE f.list[m]
  <2> HIDE DEF k
  <2> QED BY <1>1, <1>3, RelistIs
<1>5. Take(a, n, pos, x) = c
  BY DEF f, Take
<1> HIDE DEF c
<1>6. Ready(c)
  <2> HIDE DEF k
  <2>1. \A m \in Orders : Injective(a.list[m])
    BY DEF Ready
  <2> QED BY <1>1, <1>3, <1>4, <2>1 DEF Ready
<1>7. Flipped(a, c, n, pos \div 2)
  BY <1>1, <1>4 DEF Flipped
<1>8. ASSUME NEW m \in Orders, NEW q
      PROVE  InList(c, m, q) <=> InList(a, m, q) /\ ~ (m = n /\ q = x)
  <2>1. CASE m = n
    <3>1. c.list[m] = k /\ a.list[m] = l
      BY <1>1, <1>4, <2>1
    <3> HIDE DEF k, l
    <3> QED BY <1>3, <2>1, <3>1 DEF InList
  <2>2. CASE m # n
    BY <1>1, <1>4, <2>2 DEF InList
  <2> QED BY <2>1, <2>2
<1> QED BY <1>5, <1>6, <1>7, <1>8

-----------------------------------------------------------------------------
(***************************************************************************)
(* The invariant, of an allocator a and the set U of areas given out.      *)
(***************************************************************************)
Area(n, pos) == <<pos * Size[n], n>>

Held(a, U, n, pos) == InList(a, n, pos) \/ Area(n, pos) \in U

\* Every page, but those of the kernel's two blocks, is in exactly one block that is
\* free or given out.
OneHolder(a, U) ==
    \A p \in Pages :
        /\ \A m, n \in Orders :
              Held(a, U, m, Block(p, m)) /\ Held(a, U, n, Block(p, n)) => m = n
        /\ Block(p, TOP) \in 1..(LB_SIZE - 2)
              <=> \E n \in Orders : Held(a, U, n, Block(p, n))

\* A bit says that one of two buddies is free; both are not, or they were one block.
PairsExact(a) ==
    \A n \in Orders : n # TOP => \A i \in Pairs(n) :
        /\ a.map[n][i] <=> InList(a, n, 2 * i) \/ InList(a, n, 2 * i + 1)
        /\ ~ (InList(a, n, 2 * i) /\ InList(a, n, 2 * i + 1))

Sound(a, U) ==
    /\ Ready(a)
    /\ \A x \in U : \E n \in Orders : \E pos \in Blocks(n) : x = Area(n, pos)
    /\ \A n \in Orders : \A pos \in Blocks(n) : ~ (InList(a, n, pos) /\ Area(n, pos) \in U)
    /\ OneHolder(a, U)
    /\ PairsExact(a)

LEMMA AreaIs ==
    ASSUME NEW n \in Orders, NEW pos \in Blocks(n), NEW m \in Orders, NEW q \in Blocks(m)
    PROVE  Area(n, pos) = Area(m, q) <=> n = m /\ pos = q
<1>1. Area(n, pos)[1] = pos * Size[n] /\ Area(m, q)[1] = q * Size[m]
      /\ Area(n, pos)[2] = n /\ Area(m, q)[2] = m
  BY DEF Area
<1>2. Block(pos * Size[n], n) = pos /\ Block(q * Size[m], m) = q
  BY FirstPage
<1>3. ASSUME Area(n, pos) = Area(m, q) PROVE n = m /\ pos = q
  <2>1. n = m /\ pos * Size[n] = q * Size[m]
    BY <1>1, <1>3
  <2> QED BY <1>2, <2>1
<1>4. ASSUME n = m, pos = q PROVE Area(n, pos) = Area(m, q)
  BY <1>4
<1> QED BY <1>3, <1>4

LEMMA HeldNotTwice ==
    ASSUME NEW a, NEW U, Sound(a, U), NEW n \in Orders, NEW pos \in Blocks(n),
           Held(a, U, n, pos), NEW p \in Pages, Block(p, n) = pos,
           NEW m \in Orders, m # n
    PROVE  ~ Held(a, U, m, Block(p, m))
BY DEF Sound, OneHolder

\* The pages of X, that a block of order n held, are now held by one of order m, and
\* nothing else changes.
Moved(a, U, c, V, n, m, X) ==
    /\ \A p \in X : Held(a, U, n, Block(p, n)) /\ Held(c, V, m, Block(p, m))
    /\ \A p \in X : \A k \in Orders :
          k # m => (Held(c, V, k, Block(p, k)) => Held(a, U, k, Block(p, k)) /\ k # n)
    /\ \A p \in Pages : p \notin X =>
          \A k \in Orders : Held(c, V, k, Block(p, k)) <=> Held(a, U, k, Block(p, k))

LEMMA HolderMoves ==
    ASSUME NEW a, NEW U, OneHolder(a, U), NEW c, NEW V, NEW X,
           NEW n \in Orders, NEW m \in Orders, Moved(a, U, c, V, n, m, X)
    PROVE  OneHolder(c, V)
<1> SUFFICES ASSUME NEW p \in Pages
             PROVE  /\ \A k, l \in Orders : Held(c, V, k, Block(p, k)) /\ Held(c, V, l, Block(p, l)) => k = l
                    /\ Block(p, TOP) \in 1..(LB_SIZE - 2)
                          <=> \E k \in Orders : Held(c, V, k, Block(p, k))
  BY DEF OneHolder
<1>1. /\ \A k, l \in Orders : Held(a, U, k, Block(p, k)) /\ Held(a, U, l, Block(p, l)) => k = l
      /\ Block(p, TOP) \in 1..(LB_SIZE - 2)
            <=> \E k \in Orders : Held(a, U, k, Block(p, k))
  BY DEF OneHolder
<1>2. CASE p \in X
  <2>1. Held(a, U, n, Block(p, n)) /\ Held(c, V, m, Block(p, m))
    BY <1>2 DEF Moved
  <2>2. ASSUME NEW k \in Orders, Held(c, V, k, Block(p, k)) PROVE k = m
    <3>1. k # m => Held(a, U, k, Block(p, k)) /\ k # n
      BY <1>2, <2>2 DEF Moved
    <3> QED BY <1>1, <2>1, <3>1
  <2> QED BY <1>1, <2>1, <2>2
<1>3. CASE p \notin X
  BY <1>1, <1>3 DEF Moved
<1> QED BY <1>2, <1>3

\* The blocks of one pair are listed or taken out, nothing else.
OnlyPair(a, c, n, i) ==
    \A m \in Orders : \A q :
        m # n \/ (q # 2 * i /\ q # 2 * i + 1) => (InList(c, m, q) <=> InList(a, m, q))

LEMMA PairsKept ==
    ASSUME NEW a, NEW c, NEW n \in Orders, NEW i \in Pairs(n),
           PairsExact(a), Flipped(a, c, n, i), OnlyPair(a, c, n, i),
           n # TOP => /\ ~ (InList(c, n, 2 * i) /\ InList(c, n, 2 * i + 1))
                      /\ InList(c, n, 2 * i) \/ InList(c, n, 2 * i + 1)
                            <=> ~ InList(a, n, 2 * i) /\ ~ InList(a, n, 2 * i + 1)
    PROVE  PairsExact(c)
<1> SUFFICES ASSUME NEW m \in Orders, m # TOP, NEW j \in Pairs(m)
             PROVE  /\ c.map[m][j] <=> InList(c, m, 2 * j) \/ InList(c, m, 2 * j + 1)
                    /\ ~ (InList(c, m, 2 * j) /\ InList(c, m, 2 * j + 1))
  BY DEF PairsExact
<1>1. /\ a.map[m][j] <=> InList(a, m, 2 * j) \/ InList(a, m, 2 * j + 1)
      /\ ~ (InList(a, m, 2 * j) /\ InList(a, m, 2 * j + 1))
  BY DEF PairsExact
<1>2. c.map[m][j] <=> IF m = n /\ j = i THEN ~ a.map[m][j] ELSE a.map[m][j]
  BY DEF Flipped
<1>3. CASE m = n /\ j = i
  <2>1. /\ ~ (InList(c, m, 2 * j) /\ InList(c, m, 2 * j + 1))
        /\ InList(c, m, 2 * j) \/ InList(c, m, 2 * j + 1)
              <=> ~ InList(a, m, 2 * j) /\ ~ InList(a, m, 2 * j + 1)
    BY <1>3
  <2> QED BY <1>1, <1>2, <1>3, <2>1
<1>4. CASE ~ (m = n /\ j = i)
  <2>1. i \in Nat /\ j \in Nat
    BY PairOf
  <2>2. m # n \/ (2 * j # 2 * i /\ 2 * j # 2 * i + 1 /\ 2 * j + 1 # 2 * i /\ 2 * j + 1 # 2 * i + 1)
    BY <1>4, <2>1
  <2>3. InList(c, m, 2 * j) <=> InList(a, m, 2 * j)
    BY <2>2 DEF OnlyPair
  <2>4. InList(c, m, 2 * j + 1) <=> InList(a, m, 2 * j + 1)
    BY <2>2 DEF OnlyPair
  <2> QED BY <1>1, <1>2, <1>4, <2>3, <2>4
<1> QED BY <1>3, <1>4

LEMMA AreaIn ==
    ASSUME NEW U, NEW n \in Orders, NEW pos \in Blocks(n), NEW m \in Orders, NEW q \in Blocks(m)
    PROVE  Area(m, q) \in U \union {Area(n, pos)} <=> Area(m, q) \in U \/ (m = n /\ q = pos)
BY AreaIs

\* Taking the first free block of an order.
LEMMA PopSound ==
    ASSUME NEW a, NEW U, Sound(a, U), NEW n \in Orders, a.list[n] # <<>>
    PROVE  /\ Head(a.list[n]) \in Blocks(n)
           /\ Area(n, Head(a.list[n])) \notin U
           /\ Sound(Pop(a, n), U \union {Area(n, Head(a.list[n]))})
<1> DEFINE pos == Head(a.list[n])
           c == Pop(a, n)
           V == U \union {Area(n, pos)}
           i == pos \div 2
<1>1. /\ Ready(c) /\ pos \in Blocks(n) /\ InList(a, n, pos)
      /\ \A m \in Orders : \A q : InList(c, m, q) <=> InList(a, m, q) /\ ~ (m = n /\ q = pos)
      /\ Flipped(a, c, n, i)
  BY PopIs DEF Sound
<1>2. /\ OneHolder(a, U) /\ PairsExact(a)
      /\ \A x \in U : \E m \in Orders : \E q \in Blocks(m) : x = Area(m, q)
      /\ \A m \in Orders : \A q \in Blocks(m) : ~ (InList(a, m, q) /\ Area(m, q) \in U)
  BY DEF Sound
<1> HIDE DEF pos, c
<1>3. Area(n, pos) \notin U
  BY <1>1, <1>2
<1>4. \A m \in Orders : \A q \in Blocks(m) : Area(m, q) \in V <=> Area(m, q) \in U \/ (m = n /\ q = pos)
  BY <1>1, AreaIn
<1>5. \A x \in V : \E m \in Orders : \E q \in Blocks(m) : x = Area(m, q)
  BY <1>1, <1>2
<1> HIDE DEF V
<1>6. \A m \in Orders : \A q \in Blocks(m) : ~ (InList(c, m, q) /\ Area(m, q) \in V)
  BY <1>1, <1>2, <1>4
<1>7. OneHolder(c, V)
  <2>1. \A m \in Orders : \A q \in Blocks(m) : Held(c, V, m, q) <=> Held(a, U, m, q)
    BY <1>1, <1>4 DEF Held
  <2>2. Moved(a, U, c, V, n, n, {})
    BY <2>1, BlockFacts DEF Moved
  <2> QED BY <1>2, <2>2, HolderMoves
<1>8. PairsExact(c)
  <2>1. i \in Pairs(n) /\ (pos = 2 * i \/ pos = 2 * i + 1) /\ 2 * i # 2 * i + 1
    BY <1>1, PairOf
  <2> HIDE DEF i
  <2>2. OnlyPair(a, c, n, i)
    BY <1>1, <2>1 DEF OnlyPair
  <2>3. n # TOP => ~ (InList(a, n, 2 * i) /\ InList(a, n, 2 * i + 1))
    BY <1>2, <2>1 DEF PairsExact
  <2>4. n # TOP => /\ ~ (InList(c, n, 2 * i) /\ InList(c, n, 2 * i + 1))
                   /\ InList(c, n, 2 * i) \/ InList(c, n, 2 * i + 1)
                            <=> ~ InList(a, n, 2 * i) /\ ~ InList(a, n, 2 * i + 1)
    BY <1>1, <2>1, <2>3
  <2> QED BY <1>1, <1>2, <2>1, <2>2, <2>4, PairsKept
<1> QED BY <1>1, <1>3, <1>5, <1>6, <1>7, <1>8 DEF Sound, pos, c, V

\* The pages of a block of order k + 1 are those of its two halves.
LEMMA Halves ==
    ASSUME NEW k \in Orders, k # TOP, NEW pos \in Blocks(k + 1)
    PROVE  /\ pos \in Pairs(k) /\ 2 * pos \in Blocks(k) /\ 2 * pos + 1 \in Blocks(k)
           /\ (2 * pos) \div 2 = pos /\ 2 * pos # 2 * pos + 1
           /\ \A p \in Pages : Block(p, k + 1) = pos <=> Block(p, k) = 2 * pos \/ Block(p, k) = 2 * pos + 1
           /\ \E p \in Pages : Block(p, k) = 2 * pos /\ Block(p, k + 1) = pos
           /\ \E p \in Pages : Block(p, k) = 2 * pos + 1 /\ Block(p, k + 1) = pos
<1>1. /\ pos \in Pairs(k) /\ 2 * pos \in Blocks(k) /\ 2 * pos + 1 \in Blocks(k)
      /\ (2 * pos) \div 2 = pos /\ (2 * pos + 1) \div 2 = pos /\ pos \in Nat
  BY PairOf
<1>2. \A p \in Pages : Block(p, k + 1) = pos <=> Block(p, k) = 2 * pos \/ Block(p, k) = 2 * pos + 1
  <2> SUFFICES ASSUME NEW p \in Pages
               PROVE  Block(p, k + 1) = pos <=> Block(p, k) = 2 * pos \/ Block(p, k) = 2 * pos + 1
    OBVIOUS
  <2>1. Block(p, k + 1) = Block(p, k) \div 2 /\ Block(p, k) \in Blocks(k)
    BY BlockFacts
  <2>2. Block(p, k) = 2 * (Block(p, k) \div 2) \/ Block(p, k) = 2 * (Block(p, k) \div 2) + 1
    BY <2>1, PairOf
  <2> QED BY <1>1, <2>1, <2>2
<1>3. /\ \E p \in Pages : Block(p, k) = 2 * pos
      /\ \E p \in Pages : Block(p, k) = 2 * pos + 1
  BY <1>1, FirstPage
<1> QED BY <1>1, <1>2, <1>3

\* Splitting a block that is in use leaves its lower half in use and lists the upper.
LEMMA SplitSound ==
    ASSUME NEW a, NEW U, NEW k \in Orders, k # TOP, k + 1 \in Orders, NEW pos \in Blocks(k + 1),
           Area(k + 1, pos) \notin U, Sound(a, U \union {Area(k + 1, pos)})
    PROVE  /\ 2 * pos \in Blocks(k)
           /\ Area(k, 2 * pos) \notin U
           /\ Sound(Split(a, k, 2 * pos), U \union {Area(k, 2 * pos)})
<1> DEFINE V == U \union {Area(k + 1, pos)}
           W == U \union {Area(k, 2 * pos)}
           c == Split(a, k, 2 * pos)
           X == {p \in Pages : Block(p, k + 1) = pos}
<1>1. /\ pos \in Pairs(k) /\ 2 * pos \in Blocks(k) /\ 2 * pos + 1 \in Blocks(k)
      /\ (2 * pos) \div 2 = pos /\ 2 * pos # 2 * pos + 1
      /\ \A p \in Pages : Block(p, k + 1) = pos <=> Block(p, k) = 2 * pos \/ Block(p, k) = 2 * pos + 1
  BY Halves
<1>2. /\ Ready(a) /\ OneHolder(a, V) /\ PairsExact(a) /\ Sound(a, V)
      /\ \A x \in V : \E m \in Orders : \E q \in Blocks(m) : x = Area(m, q)
      /\ \A m \in Orders : \A q \in Blocks(m) : ~ (InList(a, m, q) /\ Area(m, q) \in V)
  BY DEF Sound
<1>3. /\ \A m \in Orders : \A q \in Blocks(m) : Area(m, q) \in V <=> Area(m, q) \in U \/ (m = k + 1 /\ q = pos)
      /\ \A m \in Orders : \A q \in Blocks(m) : Area(m, q) \in W <=> Area(m, q) \in U \/ (m = k /\ q = 2 * pos)
  BY <1>1, AreaIn
<1>4. \A x \in W : \E m \in Orders : \E q \in Blocks(m) : x = Area(m, q)
  BY <1>1, <1>2
<1>5. k + 1 # k
  BY OrdersAre
<1> HIDE DEF V, W
<1>6. ~ Held(a, V, k, 2 * pos) /\ ~ Held(a, V, k, 2 * pos + 1)
  <2>1. Held(a, V, k + 1, pos)
    BY <1>3 DEF Held
  <2>2. PICK p \in Pages : Block(p, k) = 2 * pos /\ Block(p, k + 1) = pos
    BY Halves
  <2>3. PICK q \in Pages : Block(q, k) = 2 * pos + 1 /\ Block(q, k + 1) = pos
    BY Halves
  <2> QED BY <1>2, <1>5, <2>1, <2>2, <2>3, HeldNotTwice
<1>7. Area(k, 2 * pos) \notin U
  BY <1>1, <1>3, <1>6 DEF Held
<1>8. /\ Ready(c) /\ Flipped(a, c, k, pos)
      /\ \A m \in Orders : \A q : InList(c, m, q) <=> InList(a, m, q) \/ (m = k /\ q = 2 * pos + 1)
  <2>1. ~ InList(a, k, 2 * pos + 1)
    BY <1>6 DEF Held
  <2> QED BY <1>1, <1>2, <2>1, PutIs DEF Split, Put
<1> HIDE DEF c
<1>9. \A m \in Orders : \A q \in Blocks(m) : ~ (InList(c, m, q) /\ Area(m, q) \in W)
  BY <1>1, <1>2, <1>3, <1>6, <1>8 DEF Held
<1>10. OneHolder(c, W)
  <2>1. Moved(a, V, c, W, k + 1, k, X)
    <3>1. ASSUME NEW p \in X
          PROVE  Held(a, V, k + 1, Block(p, k + 1)) /\ Held(c, W, k, Block(p, k))
      BY <1>1, <1>3, <1>8 DEF Held
    <3>2. ASSUME NEW p \in X, NEW m \in Orders, m # k, Held(c, W, m, Block(p, m))
          PROVE  Held(a, V, m, Block(p, m)) /\ m # k + 1
      <4>1. Block(p, m) \in Blocks(m) /\ Block(p, k + 1) = pos
        BY BlockFacts
      <4>2. InList(a, m, Block(p, m)) \/ Area(m, Block(p, m)) \in U
        BY <1>3, <1>8, <3>2, <4>1 DEF Held
      <4>3. m # k + 1
        BY <1>2, <1>3, <4>1, <4>2
      <4> QED BY <1>3, <4>1, <4>2, <4>3 DEF Held
    <3>3. ASSUME NEW p \in Pages, p \notin X, NEW m \in Orders
          PROVE  Held(c, W, m, Block(p, m)) <=> Held(a, V, m, Block(p, m))
      <4>1. Block(p, m) \in Blocks(m) /\ Block(p, k + 1) # pos
        BY <3>3, BlockFacts
      <4>2. Block(p, k) # 2 * pos /\ Block(p, k) # 2 * pos + 1
        BY <1>1, <4>1
      <4> QED BY <1>3, <1>8, <4>1, <4>2 DEF Held
    <3> HIDE DEF X
    <3> QED BY <3>1, <3>2, <3>3 DEF Moved
  <2> HIDE DEF X
  <2> QED BY <1>2, <2>1, HolderMoves
<1>11. PairsExact(c)
  <2>1. OnlyPair(a, c, k, pos)
    BY <1>8 DEF OnlyPair
  <2>2. ~ InList(a, k, 2 * pos) /\ ~ InList(a, k, 2 * pos + 1)
    BY <1>6 DEF Held
  <2>3. ~ InList(c, k, 2 * pos) /\ InList(c, k, 2 * pos + 1)
    BY <1>1, <1>8, <2>2
  <2> QED BY <1>1, <1>2, <1>8, <2>1, <2>2, <2>3, PairsKept
<1> QED BY <1>1, <1>4, <1>7, <1>8, <1>9, <1>10, <1>11 DEF Sound, W, c

\* Listing a block that was in use.
LEMMA ListedSound ==
    ASSUME NEW a, NEW U, NEW n \in Orders, NEW pos \in Blocks(n),
           Area(n, pos) \notin U, Sound(a, U \union {Area(n, pos)}),
           n = TOP \/ ~ InList(a, n, BuddyOf(pos))
    PROVE  Sound(Put(a, n, pos, pos), U)
<1> DEFINE V == U \union {Area(n, pos)}
           c == Put(a, n, pos, pos)
           i == pos \div 2
           d == BuddyOf(pos)
<1>1. /\ i \in Pairs(n) /\ d \in Blocks(n) /\ d # pos /\ 2 * i # 2 * i + 1
      /\ (pos = 2 * i /\ d = 2 * i + 1) \/ (pos = 2 * i + 1 /\ d = 2 * i)
  BY PairOf
<1>2. /\ Ready(a) /\ OneHolder(a, V) /\ PairsExact(a)
      /\ \A x \in V : \E m \in Orders : \E q \in Blocks(m) : x = Area(m, q)
      /\ \A m \in Orders : \A q \in Blocks(m) : ~ (InList(a, m, q) /\ Area(m, q) \in V)
  BY DEF Sound
<1>3. \A m \in Orders : \A q \in Blocks(m) : Area(m, q) \in V <=> Area(m, q) \in U \/ (m = n /\ q = pos)
  BY AreaIn
<1>4. \A x \in U : \E m \in Orders : \E q \in Blocks(m) : x = Area(m, q)
  BY <1>2
<1> HIDE DEF V
<1>5. ~ InList(a, n, pos)
  BY <1>2, <1>3
<1>6. /\ Ready(c) /\ Flipped(a, c, n, i)
      /\ \A m \in Orders : \A q : InList(c, m, q) <=> InList(a, m, q) \/ (m = n /\ q = pos)
  <2>1. Ready(a) /\ ~ InList(a, n, pos)
    BY <1>2, <1>5
  <2> QED BY <2>1, PutIs
<1> HIDE DEF c, i, d
<1>7. \A m \in Orders : \A q \in Blocks(m) : ~ (InList(c, m, q) /\ Area(m, q) \in U)
  BY <1>2, <1>3, <1>6
<1>8. OneHolder(c, U)
  <2>1. \A m \in Orders : \A q \in Blocks(m) : Held(c, U, m, q) <=> Held(a, V, m, q)
    BY <1>3, <1>6 DEF Held
  <2>2. Moved(a, V, c, U, n, n, {})
    BY <2>1, BlockFacts DEF Moved
  <2> QED BY <1>2, <2>2, HolderMoves
<1>9. PairsExact(c)
  <2>1. OnlyPair(a, c, n, i)
    BY <1>1, <1>6 DEF OnlyPair
  <2>2. n # TOP => ~ InList(a, n, d)
    BY DEF d
  <2>3. n # TOP => InList(c, n, pos) /\ ~ InList(c, n, d) /\ ~ InList(a, n, pos) /\ ~ InList(a, n, d)
    BY <1>1, <1>5, <1>6, <2>2
  <2>4. n # TOP => /\ ~ (InList(c, n, 2 * i) /\ InList(c, n, 2 * i + 1))
                   /\ InList(c, n, 2 * i) \/ InList(c, n, 2 * i + 1)
                            <=> ~ InList(a, n, 2 * i) /\ ~ InList(a, n, 2 * i + 1)
    BY <1>1, <2>3
  <2> QED BY <1>1, <1>2, <1>6, <2>1, <2>4, PairsKept
<1> QED BY <1>4, <1>6, <1>7, <1>8, <1>9 DEF Sound, c

\* Merging a block that was in use with its free buddy.
LEMMA MergedSound ==
    ASSUME NEW a, NEW U, NEW n \in Orders, n # TOP, NEW pos \in Blocks(n),
           Area(n, pos) \notin U, Sound(a, U \union {Area(n, pos)}), InList(a, n, BuddyOf(pos))
    PROVE  /\ pos \div 2 \in Blocks(n + 1)
           /\ Area(n + 1, pos \div 2) \notin U
           /\ Sound(Take(a, n, pos, BuddyOf(pos)), U \union {Area(n + 1, pos \div 2)})
<1> DEFINE i == pos \div 2
           d == BuddyOf(pos)
           V == U \union {Area(n, pos)}
           W == U \union {Area(n + 1, i)}
           c == Take(a, n, pos, d)
           X == {p \in Pages : Block(p, n + 1) = i}
<1>1. /\ i \in Pairs(n) /\ d \in Blocks(n) /\ d # pos /\ 2 * i # 2 * i + 1
      /\ (pos = 2 * i /\ d = 2 * i + 1) \/ (pos = 2 * i + 1 /\ d = 2 * i)
      /\ n + 1 \in Orders /\ n + 1 # n /\ i \in Blocks(n + 1)
  BY PairOf, OrdersAre
<1>2. /\ Ready(a) /\ OneHolder(a, V) /\ PairsExact(a) /\ Sound(a, V)
      /\ \A x \in V : \E m \in Orders : \E q \in Blocks(m) : x = Area(m, q)
      /\ \A m \in Orders : \A q \in Blocks(m) : ~ (InList(a, m, q) /\ Area(m, q) \in V)
  BY DEF Sound
<1>3. /\ Ready(c) /\ Flipped(a, c, n, i)
      /\ \A m \in Orders : \A q : InList(c, m, q) <=> InList(a, m, q) /\ ~ (m = n /\ q = d)
  BY <1>2, TakeIs
<1>4. InList(a, n, d)
  BY DEF d
<1> HIDE DEF c, i, d
<1>5. /\ \A m \in Orders : \A q \in Blocks(m) : Area(m, q) \in V <=> Area(m, q) \in U \/ (m = n /\ q = pos)
      /\ \A m \in Orders : \A q \in Blocks(m) : Area(m, q) \in W <=> Area(m, q) \in U \/ (m = n + 1 /\ q = i)
  BY <1>1, AreaIn
<1>6. \A x \in W : \E m \in Orders : \E q \in Blocks(m) : x = Area(m, q)
  BY <1>1, <1>2
<1> HIDE DEF V, W
<1>7. \A p \in Pages : Block(p, n + 1) = i <=> Block(p, n) = pos \/ Block(p, n) = d
  BY <1>1, Halves
<1>8. ~ Held(a, V, n + 1, i)
  <2>1. PICK p \in Pages : Block(p, n) = pos
    BY FirstPage
  <2>2. Held(a, V, n, pos) /\ Block(p, n + 1) = i
    BY <1>5, <1>7, <2>1 DEF Held
  <2> QED BY <1>1, <1>2, <2>1, <2>2, HeldNotTwice
<1>9. Area(n + 1, i) \notin U
  BY <1>1, <1>5, <1>8 DEF Held
<1>10. \A m \in Orders : \A q \in Blocks(m) : ~ (InList(c, m, q) /\ Area(m, q) \in W)
  BY <1>1, <1>2, <1>3, <1>5, <1>8 DEF Held
<1>11. OneHolder(c, W)
  <2>1. Moved(a, V, c, W, n, n + 1, X)
    <3>1. ASSUME NEW p \in X
          PROVE  Held(a, V, n, Block(p, n)) /\ Held(c, W, n + 1, Block(p, n + 1))
      BY <1>1, <1>4, <1>5, <1>7 DEF Held
    <3>2. ASSUME NEW p \in X, NEW m \in Orders, m # n + 1, Held(c, W, m, Block(p, m))
          PROVE  Held(a, V, m, Block(p, m)) /\ m # n
      <4>1. Block(p, m) \in Blocks(m) /\ (Block(p, n) = pos \/ Block(p, n) = d)
        BY <1>7, BlockFacts
      <4>2. \/ InList(a, m, Block(p, m)) /\ ~ (m = n /\ Block(p, m) = d)
            \/ Area(m, Block(p, m)) \in U
        BY <1>3, <1>5, <3>2, <4>1 DEF Held
      <4>3. ~ InList(a, n, pos) /\ Area(n, pos) \notin U /\ Area(n, d) \notin U
        BY <1>1, <1>2, <1>4, <1>5
      <4>4. m # n
        BY <4>1, <4>2, <4>3
      <4> QED BY <1>5, <4>1, <4>2, <4>4 DEF Held
    <3>3. ASSUME NEW p \in Pages, p \notin X, NEW m \in Orders
          PROVE  Held(c, W, m, Block(p, m)) <=> Held(a, V, m, Block(p, m))
      <4>1. Block(p, m) \in Blocks(m) /\ Block(p, n + 1) # i
        BY <3>3, BlockFacts
      <4>2. Block(p, n) # pos /\ Block(p, n) # d
        BY <1>7, <4>1
      <4> QED BY <1>3, <1>5, <4>1, <4>2 DEF Held
    <3> HIDE DEF X
    <3> QED BY <3>1, <3>2, <3>3 DEF Moved
  <2> HIDE DEF X
  <2> QED BY <1>1, <1>2, <2>1, HolderMoves
<1>12. PairsExact(c)
  <2>1. OnlyPair(a, c, n, i)
    BY <1>1, <1>3 DEF OnlyPair
  <2>2. ~ InList(a, n, pos)
    BY <1>2, <1>5
  <2>3. ~ InList(c, n, pos) /\ ~ InList(c, n, d)
    BY <1>3, <2>2
  <2>4. /\ ~ InList(c, n, 2 * i) /\ ~ InList(c, n, 2 * i + 1)
        /\ InList(a, n, 2 * i) \/ InList(a, n, 2 * i + 1)
    BY <1>1, <1>4, <2>3
  <2> QED BY <1>1, <1>2, <1>3, <2>1, <2>4, PairsKept
<1> QED BY <1>1, <1>3, <1>6, <1>9, <1>10, <1>11, <1>12 DEF Sound, W, c, i, d

\* One call of free_address_area gives a block back, or goes on with the block of
\* the next order that it and its buddy are.
LEMMA GiveBackSound ==
    ASSUME NEW a, NEW U, NEW n \in Orders, NEW pos \in Blocks(n),
           Area(n, pos) \notin U, Sound(a, U \union {Area(n, pos)})
    PROVE  /\ GiveBack(a, n, pos).done \in BOOLEAN
           /\ GiveBack(a, n, pos).done => Sound(GiveBack(a, n, pos).a, U)
           /\ ~ GiveBack(a, n, pos).done =>
                 /\ n # TOP /\ pos \div 2 \in Blocks(n + 1)
                 /\ Area(n + 1, pos \div 2) \notin U
                 /\ Sound(GiveBack(a, n, pos).a, U \union {Area(n + 1, pos \div 2)})
<1> DEFINE V == U \union {Area(n, pos)}
           f == Flip(a, n, pos)
           i == pos \div 2
           d == BuddyOf(pos)
           here == Put(a, n, pos, pos)
           up == Take(a, n, pos, d)
<1>1. GiveBack(a, n, pos) = IF f.map[n][i] \/ n = TOP THEN [done |-> TRUE, a |-> here]
                            ELSE [done |-> FALSE, a |-> up]
  BY DEF GiveBack, Put, Take
<1>2. n # TOP => (f.map[n][i] <=> ~ InList(a, n, d))
  <2>1. /\ i \in Pairs(n) /\ d \in Blocks(n)
        /\ (pos = 2 * i /\ d = 2 * i + 1) \/ (pos = 2 * i + 1 /\ d = 2 * i)
    BY PairOf
  <2>2. Typed(a) /\ PairsExact(a) /\ ~ InList(a, n, pos)
    <3>1. Area(n, pos) \in V
      OBVIOUS
    <3> QED BY <3>1 DEF Sound, Ready
  <2>3. f.map[n][i] <=> ~ a.map[n][i]
    BY <2>1, <2>2, FlipIs DEF Flipped
  <2> HIDE DEF i, d, f
  <2> QED BY <2>1, <2>2, <2>3 DEF PairsExact
<1>3. CASE f.map[n][i] \/ n = TOP
  <2>1. GiveBack(a, n, pos).done = TRUE /\ GiveBack(a, n, pos).a = here
    BY <1>1, <1>3
  <2>2. n = TOP \/ ~ InList(a, n, d)
    BY <1>2, <1>3
  <2>3. Sound(here, U)
    BY <2>2, ListedSound
  <2> QED BY <2>1, <2>3
<1>4. CASE ~ (f.map[n][i] \/ n = TOP)
  <2>1. GiveBack(a, n, pos).done = FALSE /\ GiveBack(a, n, pos).a = up
    BY <1>1, <1>4
  <2>2. n # TOP /\ InList(a, n, d)
    BY <1>2, <1>4
  <2>3. /\ i \in Blocks(n + 1) /\ Area(n + 1, i) \notin U
        /\ Sound(up, U \union {Area(n + 1, i)})
    BY <2>2, MergedSound
  <2> QED BY <2>1, <2>2, <2>3
<1> QED BY <1>3, <1>4

-----------------------------------------------------------------------------
(***************************************************************************)
(* get_address_area, whose calls for higher orders return first.           *)
(***************************************************************************)
\* What the call for order k returns, up what the one it makes returns.
Level(k, up) ==
    IF k = BUDDY_DEP THEN [found |-> FALSE, pos |-> 0, a |-> b]
    ELSE IF b.list[k] # <<>>
    THEN [found |-> TRUE, pos |-> Head(b.list[k]), a |-> Pop(b, k)]
    ELSE IF ~up.found THEN up
         ELSE [found |-> TRUE, pos |-> 2 * up.pos, a |-> Split(up.a, k, 2 * up.pos)]

Calls(n, get) == get = [k \in n..BUDDY_DEP |-> Level(k, get[k + 1])]

LEMMA CallsExist ==
    ASSUME NEW n \in Orders
    PROVE  \E get : Calls(n, get)
<1> DEFINE Bad == {d \in Nat : ~ \E f : Calls(BUDDY_DEP - d, f)}
<1>1. BUDDY_DEP \in Nat /\ n \in Nat /\ n <= BUDDY_DEP
  BY BuddyAssumption DEF Orders
<1>2. ASSUME Bad # {} PROVE FALSE
  <2>1. PICK d \in Bad : \A i \in Bad : d <= i
    <3>1. Bad \subseteq Nat
      OBVIOUS
    <3> HIDE DEF Bad
    <3> QED BY <1>2, <3>1, Least
  <2>2. CASE d = 0
    <3> DEFINE f == [k \in BUDDY_DEP..BUDDY_DEP |-> Level(BUDDY_DEP, 0)]
    <3>1. f = [k \in BUDDY_DEP..BUDDY_DEP |-> Level(k, f[k + 1])]
      <4>1. \A k \in BUDDY_DEP..BUDDY_DEP : k = BUDDY_DEP
        BY <1>1
      <4>2. \A up, x : Level(BUDDY_DEP, up) = Level(BUDDY_DEP, x)
        BY DEF Level
      <4>3. \A k \in BUDDY_DEP..BUDDY_DEP : Level(BUDDY_DEP, 0) = Level(k, f[k + 1])
        BY <4>1, <4>2
      <4> QED BY <4>3
    <3>2. BUDDY_DEP - d = BUDDY_DEP
      BY <1>1, <2>2
    <3> HIDE DEF f
    <3> QED BY <2>1, <3>1, <3>2 DEF Calls
  <2>3. CASE d # 0
    <3> DEFINE m == BUDDY_DEP - d
    <3>1. d \in Nat /\ d - 1 \in Nat /\ d - 1 \notin Bad /\ BUDDY_DEP - (d - 1) = m + 1 /\ m \in Int
          /\ m < BUDDY_DEP
      BY <1>1, <2>1, <2>3
    <3>2. PICK f : Calls(m + 1, f)
      BY <3>1
    <3> HIDE DEF m
    <3> DEFINE first == Level(m, f[m + 1])
               g == [k \in m..BUDDY_DEP |-> IF k = m THEN first ELSE f[k]]
    <3>3. g[m] = first /\ \A k \in (m + 1)..BUDDY_DEP : g[k] = f[k]
      <4> HIDE DEF first
      <4> QED BY <1>1, <3>1
    <3>4. g = [k \in m..BUDDY_DEP |-> g[k]]
      OBVIOUS
    <3> HIDE DEF g
    <3>5. g[m] = Level(m, g[m + 1])
      <4>1. g[m + 1] = f[m + 1]
        BY <1>1, <3>1, <3>3
      <4> QED BY <3>3, <4>1
    <3>6. ASSUME NEW k \in (m + 1)..BUDDY_DEP PROVE g[k] = Level(k, g[k + 1])
      <4>1. f[k] = Level(k, f[k + 1])
        BY <3>2 DEF Calls
      <4>2. CASE k = BUDDY_DEP
        BY <3>3, <4>1, <4>2 DEF Level
      <4>3. CASE k # BUDDY_DEP
        <5>1. k + 1 \in (m + 1)..BUDDY_DEP
          BY <1>1, <3>1, <4>3
        <5> QED BY <3>3, <4>1, <5>1
      <4> QED BY <4>2, <4>3
    <3>7. \A k \in m..BUDDY_DEP : k = m \/ k \in (m + 1)..BUDDY_DEP
      BY <1>1, <3>1
    <3>8. Calls(m, g)
      <4>1. \A k \in m..BUDDY_DEP : g[k] = Level(k, g[k + 1])
        BY <3>5, <3>6, <3>7
      <4> QED BY <3>4, <4>1 DEF Calls
    <3> QED BY <2>1, <3>8 DEF m
  <2> QED BY <2>2, <2>3
<1> DEFINE d == BUDDY_DEP - n
<1>3. d \in Nat /\ BUDDY_DEP - d = n
  BY <1>1
<1> HIDE DEF d
<1>4. d \notin Bad
  BY <1>2
<1> QED BY <1>3, <1>4

\* What the call for order k promises.
Granted(k, r) ==
    /\ r.found \in BOOLEAN
    /\ r.found => /\ k \in Orders /\ r.pos \in Blocks(k)
                  /\ Area(k, r.pos) \notin areas
                  /\ Sound(r.a, areas \union {Area(k, r.pos)})
    /\ ~ r.found => r.a = b /\ \A m \in Orders : m >= k => b.list[m] = <<>>

LEMMA LevelGrants ==
    ASSUME Sound(b, areas), NEW k \in Orders, NEW up, Granted(k + 1, up)
    PROVE  Granted(k, Level(k, up))
<1>1. k # BUDDY_DEP /\ k \in Nat
  BY OrdersAre, BuddyAssumption DEF TOP, Orders
<1>2. CASE b.list[k] # <<>>
  <2>1. Level(k, up) = [found |-> TRUE, pos |-> Head(b.list[k]), a |-> Pop(b, k)]
    BY <1>1, <1>2 DEF Level
  <2> DEFINE r == Level(k, up)
  <2>2. r.found = TRUE /\ r.pos = Head(b.list[k]) /\ r.a = Pop(b, k)
    BY <2>1
  <2>3. /\ Head(b.list[k]) \in Blocks(k) /\ Area(k, Head(b.list[k])) \notin areas
        /\ Sound(Pop(b, k), areas \union {Area(k, Head(b.list[k]))})
    BY <1>2, PopSound
  <2> HIDE DEF r
  <2> QED BY <2>2, <2>3 DEF Granted, r
<1>3. CASE b.list[k] = <<>> /\ ~ up.found
  <2>1. Level(k, up) = up
    BY <1>1, <1>3 DEF Level
  <2>2. \A m \in Orders : m >= k => b.list[m] = <<>>
    <3>1. \A m \in Orders : m >= k => m = k \/ m >= k + 1
      BY <1>1, OrdersAre
    <3> QED BY <1>3, <3>1 DEF Granted
  <2> QED BY <1>3, <2>1, <2>2 DEF Granted
<1>4. CASE b.list[k] = <<>> /\ up.found
  <2>1. Level(k, up) = [found |-> TRUE, pos |-> 2 * up.pos, a |-> Split(up.a, k, 2 * up.pos)]
    BY <1>1, <1>4 DEF Level
  <2> DEFINE r == Level(k, up)
  <2>2. r.found = TRUE /\ r.pos = 2 * up.pos /\ r.a = Split(up.a, k, 2 * up.pos)
    BY <2>1
  <2>3. /\ k + 1 \in Orders /\ up.pos \in Blocks(k + 1) /\ Area(k + 1, up.pos) \notin areas
        /\ Sound(up.a, areas \union {Area(k + 1, up.pos)})
    BY <1>4 DEF Granted
  <2>4. k # TOP
    BY <1>1, <2>3 DEF TOP, Orders
  <2> HIDE DEF r
  <2>5. /\ 2 * up.pos \in Blocks(k) /\ Area(k, 2 * up.pos) \notin areas
        /\ Sound(Split(up.a, k, 2 * up.pos), areas \union {Area(k, 2 * up.pos)})
    BY <2>3, <2>4, SplitSound
  <2> QED BY <2>2, <2>5 DEF Granted, r
<1>5. up.found \in BOOLEAN
  BY DEF Granted
<1> QED BY <1>2, <1>3, <1>4, <1>5

\* A request is granted with an area that was free, or nothing of its order or a
\* higher one is free.
LEMMA AllocGrants ==
    ASSUME Sound(b, areas), NEW n \in Orders
    PROVE  Granted(n, get_address_area(n))
<1> DEFINE get == CHOOSE f : Calls(n, f)
<1>1. Calls(n, get)
  BY CallsExist
<1>2. get_address_area(n) = get[n]
  BY DEF get_address_area, Calls, Level
<1> HIDE DEF get
<1>3. BUDDY_DEP \in Nat /\ n \in Nat /\ n <= BUDDY_DEP
  BY BuddyAssumption DEF Orders
<1>4. \A k \in n..BUDDY_DEP : get[k] = Level(k, get[k + 1])
  BY <1>1 DEF Calls
<1> DEFINE Bad == {d \in Nat : BUDDY_DEP - d >= n /\ ~ Granted(BUDDY_DEP - d, get[BUDDY_DEP - d])}
<1>5. ASSUME Bad # {} PROVE FALSE
  <2>1. PICK d \in Bad : \A i \in Bad : d <= i
    <3>1. Bad \subseteq Nat
      OBVIOUS
    <3> HIDE DEF Bad
    <3> QED BY <1>5, <3>1, Least
  <2> DEFINE k == BUDDY_DEP - d
  <2>2. k \in n..BUDDY_DEP /\ ~ Granted(k, get[k]) /\ d \in Nat
    BY <1>3, <2>1
  <2>3. CASE d = 0
    <3>1. k = BUDDY_DEP
      BY <1>3, <2>3
    <3>2. get[k] = [found |-> FALSE, pos |-> 0, a |-> b]
      BY <1>4, <2>2, <3>1 DEF Level
    <3>3. \A m \in Orders : ~ (m >= k)
      BY <1>3, <3>1 DEF Orders
    <3> HIDE DEF k
    <3> QED BY <2>2, <3>2, <3>3 DEF Granted
  <2>4. CASE d # 0
    <3>1. d - 1 \in Nat /\ d - 1 \notin Bad /\ BUDDY_DEP - (d - 1) = k + 1 /\ k + 1 >= n /\ k \in Orders
      BY <1>3, <2>1, <2>2, <2>4 DEF Orders
    <3>2. Granted(k + 1, get[k + 1])
      BY <3>1
    <3>3. get[k] = Level(k, get[k + 1])
      BY <1>4, <2>2
    <3> HIDE DEF k
    <3> QED BY <2>2, <3>1, <3>2, <3>3, LevelGrants
  <2> QED BY <2>3, <2>4
<1> DEFINE d == BUDDY_DEP - n
<1>6. d \in Nat /\ BUDDY_DEP - d = n
  BY <1>3
<1> HIDE DEF d
<1>7. d \notin Bad
  BY <1>5
<1> QED BY <1>2, <1>3, <1>6, <1>7

-----------------------------------------------------------------------------
(***************************************************************************)
(* free_address_area, from the order of the area up.                       *)
(***************************************************************************)
\* What is left of the call after order k, low what was after the one below.
Merge(first, n, k, low) ==
    IF k = n THEN GiveBack(b, n, first \div Size[n])
    ELSE IF low.done THEN low
    ELSE GiveBack(low.a, k, first \div Size[k])

Merges(first, n, m, put) == put = [k \in n..m |-> Merge(first, n, k, put[k - 1])]

LEMMA MergesExist ==
    ASSUME NEW first, NEW n \in Orders
    PROVE  \E put : Merges(first, n, TOP, put)
<1> DEFINE Bad == {d \in Nat : ~ \E f : Merges(first, n, n + d, f)}
<1>1. TOP \in Nat /\ n \in Nat /\ n <= TOP
  BY OrdersAre
<1>2. ASSUME Bad # {} PROVE FALSE
  <2>1. PICK d \in Bad : \A i \in Bad : d <= i
    <3>1. Bad \subseteq Nat
      OBVIOUS
    <3> HIDE DEF Bad
    <3> QED BY <1>2, <3>1, Least
  <2>2. CASE d = 0
    <3> DEFINE f == [k \in n..n |-> Merge(first, n, n, 0)]
    <3>1. f = [k \in n..n |-> Merge(first, n, k, f[k - 1])]
      <4>1. \A k \in n..n : k = n
        BY <1>1
      <4>2. \A low, x : Merge(first, n, n, low) = Merge(first, n, n, x)
        BY DEF Merge
      <4>3. \A k \in n..n : Merge(first, n, n, 0) = Merge(first, n, k, f[k - 1])
        BY <4>1, <4>2
      <4> QED BY <4>3
    <3>2. n + d = n
      BY <1>1, <2>2
    <3> HIDE DEF f
    <3> QED BY <2>1, <3>1, <3>2 DEF Merges
  <2>3. CASE d # 0
    <3> DEFINE m == n + d
    <3>1. d \in Nat /\ d - 1 \in Nat /\ d - 1 \notin Bad /\ n + (d - 1) = m - 1 /\ m \in Int /\ n < m
      BY <1>1, <2>1, <2>3
    <3>2. PICK f : Merges(first, n, m - 1, f)
      BY <3>1
    <3> HIDE DEF m
    <3> DEFINE last == Merge(first, n, m, f[m - 1])
               g == [k \in n..m |-> IF k = m THEN last ELSE f[k]]
    <3>3. g[m] = last /\ \A k \in n..(m - 1) : g[k] = f[k]
      <4> HIDE DEF last
      <4> QED BY <1>1, <3>1
    <3>4. g = [k \in n..m |-> g[k]]
      OBVIOUS
    <3> HIDE DEF g
    <3>5. g[m] = Merge(first, n, m, g[m - 1])
      <4>1. g[m - 1] = f[m - 1]
        BY <1>1, <3>1, <3>3
      <4> QED BY <3>3, <4>1
    <3>6. ASSUME NEW k \in n..(m - 1) PROVE g[k] = Merge(first, n, k, g[k - 1])
      <4>1. f[k] = Merge(first, n, k, f[k - 1])
        BY <3>2 DEF Merges
      <4>2. CASE k = n
        BY <3>3, <4>1, <4>2 DEF Merge
      <4>3. CASE k # n
        <5>1. k - 1 \in n..(m - 1)
          BY <1>1, <3>1, <4>3
        <5> QED BY <3>3, <4>1, <5>1
      <4> QED BY <4>2, <4>3
    <3>7. \A k \in n..m : k = m \/ k \in n..(m - 1)
      BY <1>1, <3>1
    <3>8. Merges(first, n, m, g)
      <4>1. \A k \in n..m : g[k] = Merge(first, n, k, g[k - 1])
        BY <3>5, <3>6, <3>7
      <4> QED BY <3>4, <4>1 DEF Merges
    <3> QED BY <2>1, <3>8 DEF m
  <2> QED BY <2>2, <2>3
<1> DEFINE d == TOP - n
<1>3. d \in Nat /\ n + d = TOP
  BY <1>1
<1> HIDE DEF d
<1>4. d \notin Bad
  BY <1>2
<1> QED BY <1>3, <1>4

\* The area that starts with page first is given back, or a block of order k + 1 is
\* still to be.
Merged(first, k, U, r) ==
    /\ r.done \in BOOLEAN
    /\ r.done => Sound(r.a, U)
    /\ ~ r.done => /\ k # TOP
                   /\ Area(k + 1, Block(first, k + 1)) \notin U
                   /\ Sound(r.a, U \union {Area(k + 1, Block(first, k + 1))})

LEMMA MergeSound ==
    ASSUME NEW first \in Pages, NEW n \in Orders, NEW k \in Orders, NEW U, NEW low,
           k = n => /\ Area(n, Block(first, n)) \notin U
                    /\ Sound(b, U \union {Area(n, Block(first, n))}),
           k # n => k - 1 \in Orders /\ Merged(first, k - 1, U, low)
    PROVE  Merged(first, k, U, Merge(first, n, k, low))
<1>1. /\ Block(first, k) \in Blocks(k)
      /\ k # TOP => Block(first, k + 1) = Block(first, k) \div 2
  BY BlockFacts
<1>2. ASSUME NEW a, Area(k, Block(first, k)) \notin U, Sound(a, U \union {Area(k, Block(first, k))})
      PROVE  Merged(first, k, U, GiveBack(a, k, Block(first, k)))
  <2> DEFINE pos == Block(first, k)
             r == GiveBack(a, k, pos)
  <2>1. /\ r.done \in BOOLEAN
        /\ r.done => Sound(r.a, U)
        /\ ~ r.done => /\ k # TOP
                       /\ Area(k + 1, pos \div 2) \notin U
                       /\ Sound(r.a, U \union {Area(k + 1, pos \div 2)})
    BY <1>1, <1>2, GiveBackSound
  <2> HIDE DEF r
  <2>2. Merged(first, k, U, r)
    BY <1>1, <2>1 DEF Merged
  <2> QED BY <2>2 DEF r
<1>3. CASE k = n
  BY <1>2, <1>3 DEF Merge, Block
<1>4. CASE k # n /\ low.done
  <2>1. Merge(first, n, k, low) = low
    BY <1>4 DEF Merge
  <2> QED BY <1>4, <2>1 DEF Merged
<1>5. CASE k # n /\ ~ low.done
  <2>1. Merge(first, n, k, low) = GiveBack(low.a, k, Block(first, k))
    BY <1>5 DEF Merge, Block
  <2>2. k - 1 + 1 = k
    BY OrdersAre
  <2>3. Area(k, Block(first, k)) \notin U /\ Sound(low.a, U \union {Area(k, Block(first, k))})
    BY <1>5, <2>2 DEF Merged
  <2> QED BY <1>2, <2>1, <2>3
<1> QED BY <1>3, <1>4, <1>5

\* An area that is given back is merged as far as it can be.
LEMMA FreeSound ==
    ASSUME Sound(b, areas), NEW n \in Orders, NEW pos \in Blocks(n), Area(n, pos) \in areas
    PROVE  Sound(free_address_area(Area(n, pos)[1], n), areas \ {Area(n, pos)})
<1> DEFINE first == pos * Size[n]
           U == areas \ {Area(n, pos)}
           put == CHOOSE f : Merges(first, n, TOP, f)
<1>1. Merges(first, n, TOP, put)
  BY MergesExist
<1>2. free_address_area(first, n) = put[TOP].a
  BY DEF free_address_area, Merges, Merge
<1>3. first \in Pages /\ Block(first, n) = pos /\ Area(n, pos)[1] = first
  BY FirstPage DEF Area
<1>4. U \union {Area(n, pos)} = areas /\ Area(n, pos) \notin U
  OBVIOUS
<1> HIDE DEF put, first, U
<1>5. TOP \in Nat /\ n \in Nat /\ n <= TOP
  BY OrdersAre
<1>6. \A k \in n..TOP : put[k] = Merge(first, n, k, put[k - 1])
  BY <1>1 DEF Merges
<1> DEFINE Bad == {k \in Nat : k \in n..TOP /\ ~ Merged(first, k, U, put[k])}
<1>7. ASSUME Bad # {} PROVE FALSE
  <2>1. PICK k \in Bad : \A i \in Bad : k <= i
    <3>1. Bad \subseteq Nat
      OBVIOUS
    <3> HIDE DEF Bad
    <3> QED BY <1>7, <3>1, Least
  <2>2. k \in n..TOP /\ k \in Orders /\ ~ Merged(first, k, U, put[k])
    BY <1>5, <2>1, OrdersAre
  <2>3. k # n => k - 1 \in Orders /\ Merged(first, k - 1, U, put[k - 1])
    <3> SUFFICES ASSUME k # n PROVE k - 1 \in Orders /\ Merged(first, k - 1, U, put[k - 1])
      OBVIOUS
    <3> DEFINE j == k - 1
    <3>1. j \in Nat /\ j \in n..TOP /\ j \in Orders /\ j < k
      BY <1>5, <2>2, OrdersAre
    <3> HIDE DEF j
    <3>2. j \notin Bad
      BY <2>1, <3>1
    <3> QED BY <3>1, <3>2 DEF j
  <2>4. put[k] = Merge(first, n, k, put[k - 1])
    BY <1>6, <2>2
  <2>5. /\ Area(n, Block(first, n)) \notin U
        /\ Sound(b, U \union {Area(n, Block(first, n))})
    BY <1>3, <1>4
  <2> QED BY <1>3, <2>2, <2>3, <2>4, <2>5, MergeSound
<1>8. TOP \notin Bad /\ TOP \in n..TOP
  BY <1>5, <1>7
<1>9. Merged(first, TOP, U, put[TOP])
  BY <1>5, <1>8
<1> QED BY <1>2, <1>3, <1>9 DEF Merged, U

-----------------------------------------------------------------------------
(***************************************************************************)
(* The invariant of the allocator.                                         *)
(***************************************************************************)
Inv == Sound(b, areas) /\ refused \in BOOLEAN

LEMMA InitSound ==
    ASSUME Init
    PROVE  Inv
<1>1. /\ b.list = [n \in Orders |-> IF n = TOP THEN [i \in 1..(LB_SIZE - 2) |-> i] ELSE <<>>]
      /\ b.map = [n \in Orders |-> [i \in Pairs(n) |-> n = TOP /\ i \in {0, LB_SIZE \div 2 - 1}]]
      /\ b = [list |-> b.list, map |-> b.map]
      /\ areas = {} /\ refused = FALSE
  BY DEF Init
<1> DEFINE free == [i \in 1..(LB_SIZE - 2) |-> i]
<1>2. /\ free \in Seq(Blocks(TOP)) /\ Injective(free)
      /\ \A q : InSeq(q, free) <=> q \in 1..(LB_SIZE - 2)
  <2>1. LB_SIZE - 2 \in Nat /\ DOMAIN free = 1..(LB_SIZE - 2)
    BY OrdersAre
  <2>2. Blocks(TOP) = 0..(LB_SIZE - 1)
    BY Numbers, OrdersAre
  <2>3. \A i \in 1..(LB_SIZE - 2) : i \in Blocks(TOP)
    BY <2>1, <2>2, OrdersAre
  <2>4. free \in Seq(Blocks(TOP))
    BY <2>1, <2>3
  <2> QED BY <2>1, <2>4 DEF Injective, InSeq
<1> HIDE DEF free
<1>3. \A n \in Orders : b.list[n] = IF n = TOP THEN free ELSE <<>>
  BY <1>1 DEF free
<1>4. \A n \in Orders : \A q : InList(b, n, q) <=> n = TOP /\ q \in 1..(LB_SIZE - 2)
  <2>1. \A q : ~ InSeq(q, <<>>)
    BY DEF InSeq
  <2> QED BY <1>2, <1>3, <2>1 DEF InList
<1>5. Ready(b)
  <2>1. \A n \in Orders : b.list[n] \in Seq(Blocks(n)) /\ Injective(b.list[n])
    <3>1. Injective(<<>>) /\ \A n \in Orders : <<>> \in Seq(Blocks(n))
      BY DEF Injective
    <3> QED BY <1>2, <1>3, <3>1
  <2>2. \A n \in Orders : b.map[n] \in [Pairs(n) -> BOOLEAN]
    BY <1>1
  <2>3. b.list = [n \in Orders |-> b.list[n]] /\ b.map = [n \in Orders |-> b.map[n]]
    BY <1>1
  <2> QED BY <1>1, <2>1, <2>2, <2>3 DEF Ready, Typed
<1>6. OneHolder(b, areas)
  <2>1. \A n \in Orders : \A q : Held(b, areas, n, q) <=> n = TOP /\ q \in 1..(LB_SIZE - 2)
    BY <1>1, <1>4 DEF Held
  <2> QED BY <2>1, OrdersAre DEF OneHolder
<1>7. PairsExact(b)
  <2> SUFFICES ASSUME NEW n \in Orders, n # TOP, NEW i \in Pairs(n)
               PROVE  /\ b.map[n][i] <=> InList(b, n, 2 * i) \/ InList(b, n, 2 * i + 1)
                      /\ ~ (InList(b, n, 2 * i) /\ InList(b, n, 2 * i + 1))
    BY DEF PairsExact
  <2>1. b.map[n][i] <=> n = TOP /\ i \in {0, LB_SIZE \div 2 - 1}
    <3> HIDE DEF free
    <3> QED BY <1>1
  <2> QED BY <1>4, <2>1
<1> QED BY <1>1, <1>5, <1>6, <1>7 DEF Inv, Sound

LEMMA AllocSound ==
    ASSUME Inv, NEW n \in Orders, Alloc(n)
    PROVE  Inv'
<1> DEFINE got == get_address_area(n)
<1>1. Granted(n, got)
  BY AllocGrants DEF Inv
<1>2. /\ b' = got.a /\ refused' = ~ got.found
      /\ areas' = IF got.found THEN areas \union {Area(n, got.pos)} ELSE areas
  BY DEF Alloc, Area
<1> HIDE DEF got
<1>3. refused' \in BOOLEAN
  BY <1>2
<1>4. Sound(b', areas')
  BY <1>1, <1>2 DEF Granted, Inv
<1> QED BY <1>3, <1>4 DEF Inv

\* An area given out is a block.
LEMMA AreaOf ==
    ASSUME Inv, NEW area \in areas
    PROVE  \E n \in Orders : \E pos \in Blocks(n) : area = Area(n, pos)
BY DEF Inv, Sound

LEMMA FreeKeeps ==
    ASSUME Inv, NEW area \in areas, Free(area)
    PROVE  Inv'
<1>1. PICK n \in Orders : \E pos \in Blocks(n) : area = Area(n, pos)
  BY AreaOf
<1>2. PICK pos \in Blocks(n) : area = Area(n, pos)
  BY <1>1
<1>3. area[2] = n /\ area[1] = Area(n, pos)[1]
  BY <1>2 DEF Area
<1>4. Sound(free_address_area(area[1], area[2]), areas \ {area})
  BY <1>2, <1>3, FreeSound DEF Inv
<1> QED BY <1>4 DEF Free, Inv

LEMMA NextSound ==
    ASSUME Inv, [Next]_vars
    PROVE  Inv'
<1>1. ASSUME NEW n \in Orders, Alloc(n) PROVE Inv'
  BY <1>1, AllocSound
<1>2. ASSUME NEW area \in areas, Free(area) PROVE Inv'
  BY <1>2, FreeKeeps
<1>3. CASE UNCHANGED vars
  BY <1>3 DEF vars, Inv
<1> QED BY <1>1, <1>2, <1>3 DEF Next

\* After any history of requests of any orders, every page but the kernel's is in
\* exactly one block that is free or given out.
THEOREM EveryPageHeldOnce == Spec => []Inv
<1>1. Init => Inv
  BY InitSound
<1>2. Inv /\ [Next]_vars => Inv'
  BY NextSound
<1> QED BY <1>1, <1>2, PTL DEF Spec

LEMMA TypeKept ==
    ASSUME Inv
    PROVE  TypeOK
<1>1. \A n \in Orders : b.list[n] \in Seq(Blocks(n)) /\ b.map[n] \in [Pairs(n) -> BOOLEAN]
  BY DEF Inv, Sound, Ready, Typed
<1>2. ASSUME NEW area \in areas PROVE area \in Pages \X Orders
  <2>1. PICK n \in Orders : \E pos \in Blocks(n) : area = Area(n, pos)
    BY AreaOf
  <2>2. PICK pos \in Blocks(n) : area = Area(n, pos)
    BY <2>1
  <2> QED BY <2>2, FirstPage DEF Area
<1> QED BY <1>1, <1>2 DEF Inv, TypeOK

LEMMA BitsKept ==
    ASSUME Inv
    PROVE  MapExact
<1> SUFFICES ASSUME NEW n \in Orders, n # TOP, NEW i \in Pairs(n)
             PROVE  b.map[n][i] <=> (IsFree(n, 2 * i) # IsFree(n, 2 * i + 1))
  BY DEF MapExact
<1>1. /\ b.map[n][i] <=> IsFree(n, 2 * i) \/ IsFree(n, 2 * i + 1)
      /\ ~ (IsFree(n, 2 * i) /\ IsFree(n, 2 * i + 1))
  BY DEF Inv, Sound, PairsExact, InList, IsFree
<1>2. IsFree(n, 2 * i) \in BOOLEAN /\ IsFree(n, 2 * i + 1) \in BOOLEAN
  BY DEF IsFree, InSeq
<1> QED BY <1>1, <1>2

\* Every free run is the pages of a free block.
LEMMA FreeRunIs ==
    ASSUME Inv, NEW r
    PROVE  r \in FreeRuns <=> \E n \in Orders : \E pos \in Blocks(n) :
               InList(b, n, pos) /\ r = {p \in Pages : Block(p, n) = pos}
<1>1. r \in FreeRuns <=> \E n \in Orders : \E pos \in Blocks(n) :
          IsFree(n, pos) /\ r = Run(pos * Size[n], n)
  BY DEF FreeRuns
<1> QED BY <1>1, RunIs DEF IsFree, InList

LEMMA RunsKept ==
    ASSUME Inv
    PROVE  ListsDisjoint
<1>1. \A n \in Orders : Injective(b.list[n])
  BY DEF Inv, Sound, Ready
<1>2. ASSUME NEW r \in FreeRuns, NEW t \in FreeRuns PROVE r = t \/ r \cap t = {}
  <2>1. PICK n \in Orders : \E pos \in Blocks(n) :
               InList(b, n, pos) /\ r = {p \in Pages : Block(p, n) = pos}
    BY FreeRunIs
  <2>2. PICK pos \in Blocks(n) : InList(b, n, pos) /\ r = {p \in Pages : Block(p, n) = pos}
    BY <2>1
  <2>3. PICK m \in Orders : \E q \in Blocks(m) :
               InList(b, m, q) /\ t = {p \in Pages : Block(p, m) = q}
    BY FreeRunIs
  <2>4. PICK q \in Blocks(m) : InList(b, m, q) /\ t = {p \in Pages : Block(p, m) = q}
    BY <2>3
  <2>5. ASSUME NEW p \in Pages, Block(p, n) = pos, Block(p, m) = q PROVE n = m /\ pos = q
    <3>1. Held(b, areas, n, Block(p, n)) /\ Held(b, areas, m, Block(p, m))
      BY <2>2, <2>4, <2>5 DEF Held
    <3>2. OneHolder(b, areas)
      BY DEF Inv, Sound
    <3>3. n = m
      BY <3>1, <3>2 DEF OneHolder
    <3> QED BY <2>5, <3>3
  <2>6. CASE n = m /\ pos = q
    BY <2>2, <2>4, <2>6
  <2>7. CASE ~ (n = m /\ pos = q)
    BY <2>2, <2>4, <2>5, <2>7
  <2> QED BY <2>6, <2>7
<1> QED BY <1>1, <1>2 DEF ListsDisjoint

\* After any history of requests the bits say which blocks have a free buddy, and the
\* free blocks are listed once and do not overlap: no merge ever unlinks a block
\* that is in no list.
THEOREM BlocksAlwaysExact == Spec => []BlocksExact
<1>1. Inv => BlocksExact
  BY TypeKept, BitsKept, RunsKept DEF BlocksExact
<1> QED BY <1>1, EveryPageHeldOnce, PTL

-----------------------------------------------------------------------------
(***************************************************************************)
(* The allocator implements AddressSpace.                                  *)
(***************************************************************************)
\* Pages of one block of an order are in one block of each higher order.
LEMMA SameAbove ==
    ASSUME NEW p \in Pages, NEW q \in Pages, NEW k \in Orders, Block(p, k) = Block(q, k),
           NEW m \in Orders, m >= k
    PROVE  Block(p, m) = Block(q, m)
<1> DEFINE Bad == {i \in Orders : i >= k /\ Block(p, i) # Block(q, i)}
<1>1. ASSUME Bad # {} PROVE FALSE
  <2>1. PICK i \in Bad : \A j \in Bad : i <= j
    <3>1. Bad \subseteq Nat
      BY OrdersAre
    <3> HIDE DEF Bad
    <3> QED BY <1>1, <3>1, Least
  <2> DEFINE j == i - 1
  <2>2. i # k /\ i \in Nat /\ k \in Nat /\ i \in Orders
    BY <2>1, OrdersAre
  <2>3. j \in Orders /\ j # TOP /\ j + 1 = i /\ j >= k /\ j < i
    BY <2>1, <2>2, OrdersAre
  <2> HIDE DEF j
  <2>4. Block(p, j) = Block(q, j)
    <3>1. j \notin Bad
      BY <2>1, <2>2, <2>3, OrdersAre
    <3> QED BY <2>3, <3>1
  <2>5. Block(p, i) = Block(p, j) \div 2 /\ Block(q, i) = Block(q, j) \div 2
    BY <2>3, BlockFacts
  <2> QED BY <2>1, <2>4, <2>5
<1> QED BY <1>1

\* The pages that no area of U holds, but those of the kernel.
OutOf(U) ==
    {p \in Pages : /\ Block(p, TOP) \in 1..(LB_SIZE - 2)
                   /\ \A n \in Orders : Area(n, Block(p, n)) \notin U}

\* A free page is in a free block.
LEMMA InFree ==
    ASSUME Inv, NEW p
    PROVE  p \in FreePages <=> p \in Pages /\ \E n \in Orders : InList(b, n, Block(p, n))
<1>1. p \in FreePages <=> \E r \in FreeRuns : p \in r
  BY DEF FreePages
<1>2. ASSUME p \in FreePages PROVE p \in Pages /\ \E n \in Orders : InList(b, n, Block(p, n))
  <2>1. PICK r \in FreeRuns : p \in r
    BY <1>1, <1>2
  <2>2. PICK n \in Orders : \E pos \in Blocks(n) :
             InList(b, n, pos) /\ r = {x \in Pages : Block(x, n) = pos}
    BY FreeRunIs
  <2>3. PICK pos \in Blocks(n) : InList(b, n, pos) /\ r = {x \in Pages : Block(x, n) = pos}
    BY <2>2
  <2> QED BY <2>1, <2>3
<1>3. ASSUME p \in Pages, NEW n \in Orders, InList(b, n, Block(p, n)) PROVE p \in FreePages
  <2> DEFINE r == {x \in Pages : Block(x, n) = Block(p, n)}
  <2>1. Block(p, n) \in Blocks(n)
    BY <1>3, BlockFacts
  <2>2. r \in FreeRuns
    BY <1>3, <2>1, FreeRunIs
  <2>3. p \in r
    BY <1>3
  <2> QED BY <1>1, <2>2, <2>3
<1> QED BY <1>2, <1>3

LEMMA FreeIs == Inv => FreePages = OutOf(areas)
<1> SUFFICES ASSUME Inv, NEW p PROVE p \in FreePages <=> p \in OutOf(areas)
  OBVIOUS
<1>1. ASSUME p \in Pages
      PROVE  (\E n \in Orders : InList(b, n, Block(p, n)))
                <=> /\ Block(p, TOP) \in 1..(LB_SIZE - 2)
                    /\ \A n \in Orders : Area(n, Block(p, n)) \notin areas
  <2>1. /\ \A m, n \in Orders :
              Held(b, areas, m, Block(p, m)) /\ Held(b, areas, n, Block(p, n)) => m = n
        /\ Block(p, TOP) \in 1..(LB_SIZE - 2)
              <=> \E n \in Orders : Held(b, areas, n, Block(p, n))
    BY <1>1 DEF Inv, Sound, OneHolder
  <2>2. \A n \in Orders : ~ (InList(b, n, Block(p, n)) /\ Area(n, Block(p, n)) \in areas)
    BY <1>1, BlockFacts DEF Inv, Sound
  <2>3. \A n \in Orders : Held(b, areas, n, Block(p, n))
             <=> InList(b, n, Block(p, n)) \/ Area(n, Block(p, n)) \in areas
    BY DEF Held
  <2> QED BY <2>1, <2>2, <2>3
<1> QED BY <1>1, InFree DEF OutOf

LEMMA FreeIsNext == Inv' => FreePages' = OutOf(areas')
<1>1. (Inv => FreePages = OutOf(areas))'
  BY FreeIs, PTL
<1> QED BY <1>1

\* Merging is complete: a run of pages that is aligned and free is in a free block
\* of its order or a higher one.
LEMMA NoFragments ==
    ASSUME Inv, NEW n \in Orders, NEW pos \in Blocks(n),
           {p \in Pages : Block(p, n) = pos} \subseteq FreePages
    PROVE  \E m \in Orders : m >= n /\ b.list[m] # <<>>
<1> DEFINE X == {p \in Pages : Block(p, n) = pos}
           T == {m \in Orders : \E p \in X : InList(b, m, Block(p, m))}
<1>1. PICK x \in X : TRUE
  BY FirstPage
<1>2. T # {} /\ T \subseteq Nat /\ T \subseteq Orders
  BY <1>1, InFree, OrdersAre
<1>3. PICK m \in T : \A k \in T : m <= k
  <2> HIDE DEF T
  <2> QED BY <1>2, Least
<1>4. m \in Orders /\ m \in Nat /\ n \in Nat
  BY <1>2, OrdersAre
<1>5. PICK p \in X : InList(b, m, Block(p, m))
  BY <1>3
<1>6. b.list[m] # <<>>
  BY <1>5 DEF InList, InSeq
<1>7. CASE m >= n
  BY <1>4, <1>6, <1>7
<1>8. CASE m < n
  <2> DEFINE c == Block(p, m)
             i == c \div 2
             d == BuddyOf(c)
  <2>1. m # TOP /\ m + 1 \in Orders /\ m + 1 <= n
    BY <1>4, <1>8, OrdersAre
  <2>2. c \in Blocks(m) /\ p \in Pages
    BY <1>4, BlockFacts
  <2>3. /\ i \in Pairs(m) /\ d \in Blocks(m) /\ d \div 2 = i
        /\ (c = 2 * i /\ d = 2 * i + 1) \/ (c = 2 * i + 1 /\ d = 2 * i)
    BY <1>4, <2>2, PairOf
  <2>4. PICK q \in Pages : Block(q, m) = d
    BY <1>4, <2>3, FirstPage
  <2>5. Block(q, m + 1) = Block(p, m + 1)
    BY <1>4, <2>1, <2>2, <2>3, <2>4, BlockFacts
  <2>6. q \in X
    <3>1. Block(q, n) = Block(p, n)
      BY <2>1, <2>2, <2>5, SameAbove
    <3> QED BY <3>1
  <2>7. PICK k \in Orders : InList(b, k, Block(q, k))
    BY <2>6, InFree
  <2>8. k \in T
    BY <2>6, <2>7
  <2>9. k >= m /\ k \in Nat
    BY <1>3, <1>4, <2>8, OrdersAre
  <2>10. CASE k = m
    <3>1. InList(b, m, c) /\ InList(b, m, d)
      BY <1>5, <2>4, <2>7, <2>10
    <3>2. PairsExact(b)
      BY DEF Inv, Sound
    <3> HIDE DEF c, d, i
    <3> QED BY <1>4, <2>1, <2>3, <3>1, <3>2 DEF PairsExact
  <2>11. CASE k # m
    <3>1. k >= m + 1
      BY <1>4, <2>9, <2>11
    <3>2. Block(q, k) = Block(p, k)
      BY <2>1, <2>2, <2>5, <3>1, SameAbove
    <3>3. Held(b, areas, k, Block(p, k)) /\ Held(b, areas, m, Block(p, m))
      BY <1>5, <2>7, <3>2 DEF Held
    <3>4. OneHolder(b, areas)
      BY DEF Inv, Sound
    <3> QED BY <1>4, <2>2, <2>11, <3>3, <3>4 DEF OneHolder
  <2> QED BY <2>10, <2>11
<1> QED BY <1>4, <1>7, <1>8

\* An area more is given out: its pages were free and are the ones that are not now.
LEMMA GiveMoves ==
    ASSUME Inv, Inv', NEW n \in Orders, NEW pos \in Blocks(n), Area(n, pos) \notin areas,
           areas' = areas \union {Area(n, pos)}
    PROVE  /\ Run(pos * Size[n], n) \subseteq FreePages
           /\ FreePages' = FreePages \ Run(pos * Size[n], n)
<1> DEFINE X == {p \in Pages : Block(p, n) = pos}
<1>1. Run(pos * Size[n], n) = X
  BY RunIs
<1>2. FreePages = OutOf(areas) /\ FreePages' = OutOf(areas')
  BY FreeIs, FreeIsNext
<1>3. ASSUME NEW p \in X
      PROVE  Block(p, TOP) \in 1..(LB_SIZE - 2) /\ \A m \in Orders : Area(m, Block(p, m)) \notin areas
  <2>1. Area(n, Block(p, n)) \in areas'
    BY <1>3
  <2>2. /\ \A m, k \in Orders :
              Held(b, areas, m, Block(p, m))' /\ Held(b, areas, k, Block(p, k))' => m = k
        /\ Block(p, TOP) \in 1..(LB_SIZE - 2)
              <=> \E m \in Orders : Held(b, areas, m, Block(p, m))'
    BY DEF Inv, Sound, OneHolder
  <2>3. \A m \in Orders : Area(m, Block(p, m)) \in areas' => Held(b, areas, m, Block(p, m))'
    BY DEF Held
  <2>4. \A m \in Orders : Area(m, Block(p, m)) \in areas => Area(m, Block(p, m)) \in areas'
    OBVIOUS
  <2>5. Block(p, n) = pos
    BY <1>3
  <2> HIDE DEF X
  <2> QED BY <2>1, <2>2, <2>3, <2>4, <2>5
<1>4. \A p \in X : p \in OutOf(areas)
  BY <1>3 DEF OutOf
<1>5. ASSUME NEW p \in Pages PROVE p \in OutOf(areas') <=> p \in OutOf(areas) /\ p \notin X
  <2>1. \A m \in Orders : Block(p, m) \in Blocks(m)
    BY BlockFacts
  <2>2. \A m \in Orders : Area(m, Block(p, m)) \in areas'
            <=> Area(m, Block(p, m)) \in areas \/ (m = n /\ Block(p, m) = pos)
    BY <2>1, AreaIn
  <2> QED BY <2>2 DEF OutOf
<1>6. OutOf(areas) \subseteq Pages /\ OutOf(areas') \subseteq Pages
  BY DEF OutOf
<1> HIDE DEF X
<1> QED BY <1>1, <1>2, <1>4, <1>5, <1>6

LEMMA AllocRefines ==
    ASSUME Inv, NEW n \in Orders, Alloc(n)
    PROVE  A!ANext
<1> DEFINE got == get_address_area(n)
<1>1. Granted(n, got) /\ Inv'
  BY AllocGrants, AllocSound DEF Inv
<1>2. /\ b' = got.a /\ refused' = ~ got.found
      /\ areas' = IF got.found THEN areas \union {Area(n, got.pos)} ELSE areas
  BY DEF Alloc, Area
<1> HIDE DEF got
<1>3. CASE got.found
  <2> DEFINE pos == got.pos
             first == pos * Size[n]
  <2>1. pos \in Blocks(n) /\ Area(n, pos) \notin areas
    BY <1>1, <1>3 DEF Granted
  <2>2. first \in Pages /\ first % Size[n] = 0
    BY <2>1, FirstPage
  <2>3. /\ Run(first, n) \subseteq FreePages
        /\ FreePages' = FreePages \ Run(first, n)
    <3>1. areas' = areas \union {Area(n, pos)}
      BY <1>2, <1>3
    <3> HIDE DEF pos
    <3> QED BY <1>1, <2>1, <3>1, GiveMoves
  <2>4. areas' = areas \union {<<first, n>>} /\ refused' = FALSE
    BY <1>2, <1>3 DEF Area
  <2> HIDE DEF first, pos
  <2>5. A!Give(first, n)
    BY <2>2, <2>3, <2>4 DEF A!Give, A!Fits, A!Run, Run
  <2> QED BY <2>2, <2>5 DEF A!ANext
<1>4. CASE ~ got.found
  <2>1. /\ got.a = b /\ \A m \in Orders : m >= n => b.list[m] = <<>>
    BY <1>1, <1>4 DEF Granted
  <2>2. UNCHANGED <<b, areas>> /\ refused' = TRUE
    BY <1>2, <1>4, <2>1
  <2>3. FreePages' = FreePages
    BY <1>1, <2>2, FreeIs, FreeIsNext
  <2>4. ASSUME NEW first \in Pages, A!Fits(first, n) PROVE FALSE
    <3> DEFINE pos == Block(first, n)
    <3>1. pos \in Blocks(n)
      BY BlockFacts
    <3>2. first = pos * Size[n]
      <4> DEFINE z == Size[n]
      <4>1. z \in Nat /\ z > 0 /\ first \in Nat
        BY Sizes, PairOf, OrdersAre DEF Pages
      <4>2. first % z = 0
        BY <2>4 DEF A!Fits
      <4> HIDE DEF z
      <4>3. first = (first \div z) * z
        BY <4>1, <4>2
      <4> QED BY <4>3 DEF Block, z
    <3> HIDE DEF pos
    <3>3. Run(first, n) \subseteq FreePages
      BY <2>4 DEF A!Fits, A!Run, Run
    <3>4. {p \in Pages : Block(p, n) = pos} \subseteq FreePages
      BY <3>1, <3>2, <3>3, RunIs
    <3>5. PICK m \in Orders : m >= n /\ b.list[m] # <<>>
      BY <3>1, <3>4, NoFragments
    <3> QED BY <2>1, <3>5
  <2>5. A!Refuse(n)
    BY <2>2, <2>3, <2>4 DEF A!Refuse
  <2> QED BY <2>5 DEF A!ANext
<1>5. got.found \in BOOLEAN
  BY <1>1 DEF Granted
<1> QED BY <1>3, <1>4, <1>5

LEMMA FreeRefines ==
    ASSUME Inv, NEW area \in areas, Free(area)
    PROVE  A!ANext
<1>1. PICK n \in Orders : \E pos \in Blocks(n) : area = Area(n, pos)
  BY AreaOf
<1>2. PICK pos \in Blocks(n) : area = Area(n, pos)
  BY <1>1
<1> DEFINE first == pos * Size[n]
           X == {p \in Pages : Block(p, n) = pos}
<1>3. Inv' /\ areas' = areas \ {area} /\ refused' = FALSE
  BY FreeKeeps DEF Free
<1>4. first \in Pages /\ area = <<first, n>>
  BY <1>2, FirstPage DEF Area
<1>5. Run(first, n) = X
  BY RunIs
<1>6. FreePages = OutOf(areas) /\ FreePages' = OutOf(areas')
  BY <1>3, FreeIs, FreeIsNext
<1>7. ASSUME NEW p \in X
      PROVE  Block(p, TOP) \in 1..(LB_SIZE - 2) /\ \A m \in Orders : Area(m, Block(p, m)) \notin areas'
  <2>1. Block(p, n) = pos /\ \A m \in Orders : Block(p, m) \in Blocks(m)
    BY BlockFacts
  <2>2. /\ \A m, k \in Orders :
              Held(b, areas, m, Block(p, m)) /\ Held(b, areas, k, Block(p, k)) => m = k
        /\ Block(p, TOP) \in 1..(LB_SIZE - 2)
              <=> \E m \in Orders : Held(b, areas, m, Block(p, m))
    BY DEF Inv, Sound, OneHolder
  <2>3. \A m \in Orders : Area(m, Block(p, m)) \in areas => Held(b, areas, m, Block(p, m))
    BY DEF Held
  <2>4. Area(n, Block(p, n)) \in areas
    BY <1>2, <2>1
  <2>5. ASSUME NEW m \in Orders, Area(m, Block(p, m)) \in areas' PROVE FALSE
    <3>1. Area(m, Block(p, m)) \in areas /\ Area(m, Block(p, m)) # Area(n, pos)
      BY <1>2, <1>3, <2>5
    <3>2. m = n
      BY <2>2, <2>3, <2>4, <3>1
    <3> QED BY <2>1, <3>1, <3>2
  <2> HIDE DEF X
  <2> QED BY <2>2, <2>3, <2>4, <2>5
<1>8. \A p \in X : p \in OutOf(areas')
  BY <1>7 DEF OutOf
<1>9. ASSUME NEW p \in Pages PROVE p \in OutOf(areas') <=> p \in OutOf(areas) \/ p \in X
  <2>1. \A m \in Orders : Block(p, m) \in Blocks(m)
    BY BlockFacts
  <2>2. \A m \in Orders : Area(m, Block(p, m)) = Area(n, pos) <=> m = n /\ Block(p, m) = pos
    BY <2>1, AreaIs
  <2>3. \A m \in Orders : Area(m, Block(p, m)) \in areas'
            <=> Area(m, Block(p, m)) \in areas /\ ~ (m = n /\ Block(p, m) = pos)
    BY <1>2, <1>3, <2>2
  <2>4. ASSUME p \in OutOf(areas'), p \notin X PROVE p \in OutOf(areas)
    BY <2>3, <2>4 DEF OutOf
  <2>5. ASSUME p \in OutOf(areas) PROVE p \in OutOf(areas')
    BY <2>3, <2>5 DEF OutOf
  <2> QED BY <1>8, <2>4, <2>5
<1>10. OutOf(areas) \subseteq Pages /\ OutOf(areas') \subseteq Pages
  BY DEF OutOf
<1> HIDE DEF X, first
<1>11. FreePages' = FreePages \union Run(first, n)
  <2>1. X \subseteq Pages
    BY DEF X
  <2> QED BY <1>5, <1>6, <1>9, <1>10, <2>1
<1>12. A!Return(first, n)
  BY <1>3, <1>4, <1>11 DEF A!Return, A!Run, Run
<1> QED BY <1>4, <1>12 DEF A!ANext

\* Any history of splits and merges implements AddressSpace: an area is an aligned
\* run of free pages, all of it is free again when it is given back, and a request is
\* refused only when no aligned run of its size is free.
THEOREM NeverNeedlesslyRefused == Spec => NoNeedlessRefusal
<1>1. Init => Inv /\ A!AInit
  <2> SUFFICES ASSUME Init PROVE A!AInit
    BY InitSound
  <2>1. FreePages \subseteq Pages
    BY InitSound, InFree
  <2> QED BY <2>1 DEF A!AInit, Init
<1>2. Inv /\ [Next]_vars => Inv' /\ [A!ANext]_(A!avars)
  <2> SUFFICES ASSUME Inv, [Next]_vars PROVE [A!ANext]_(A!avars)
    BY NextSound
  <2>1. CASE UNCHANGED vars
    <3>1. Inv' /\ areas' = areas /\ refused' = refused
      BY <2>1, NextSound DEF vars
    <3>2. FreePages' = FreePages
      BY <3>1, FreeIs, FreeIsNext
    <3> QED BY <3>1, <3>2 DEF A!avars
  <2>2. ASSUME NEW n \in Orders, Alloc(n) PROVE A!ANext
    BY <2>2, AllocRefines
  <2>3. ASSUME NEW area \in areas, Free(area) PROVE A!ANext
    BY <2>3, FreeRefines
  <2> QED BY <2>1, <2>2, <2>3 DEF Next
<1> QED BY <1>1, <1>2, PTL DEF Spec, NoNeedlessRefusal, A!ASpec
=============================================================================
