----------------------------- MODULE LevelBitmap ----------------------------
(***************************************************************************)
(* level_bitmap.c: a set of numbers as a tree of words in preorder; bit n  *)
(* of an inner word says that its n-th subtree is not empty.  The steps    *)
(* are those of the test src/test/levelbitmap, which keeps the same set    *)
(* in an array.                                                            *)
(***************************************************************************)
EXTENDS Integers, FiniteSetsExt

CONSTANTS
    Shift,          \* 5 in the code: words of 2^Shift bits
    LevelSet,       \* the values of max_level, the test uses 3..5
    Count,          \* the numbers are 0..(Count - 1), 10000 in the test
    EmptyCopies     \* a map may be copied when it is empty

B == 2^Shift
Bits == 0..(Count - 1)

\* The words of a tree with i levels.
level_jump_sizes(i) == (B^i - 1) \div (B - 1)

Words == 0..(level_jump_sizes(Max(LevelSet) + 1) + Count)

VARIABLES
    lb,         \* the map: max_level and its words, each the set of its one bits
    rs          \* the numbers in it

vars == <<lb, rs>>

npos(bit, i) == (bit \div B^i) % B

\* The sum of bit >> Shift, bit >> 2 * Shift, ...: the words before the leaf, but for
\* those on the path to it.
Sum == LET f[b \in 0..Count] == IF b = 0 THEN 0 ELSE b \div B + f[b \div B] IN f

LeafWord(map, bit) == Sum[bit] + map.max_level

level_bitmap_bit_test(map, bit) == npos(bit, 0) \in map.words[LeafWord(map, bit)]

\* The words from the root to a leaf, by level.
Path(map, bit) ==
    LET p[i \in 0..map.max_level] ==
            IF i = map.max_level THEN 0
            ELSE p[i + 1] + npos(bit, i + 1) * level_jump_sizes(i + 1) + 1
    IN  p

level_bitmap_bit_set(map, bit) ==
    LET p == Path(map, bit)
    IN  [was |-> npos(bit, 0) \in map.words[p[0]],
         map |-> [map EXCEPT !.words = [w \in Words |->
                    @[w] \union {npos(bit, i) : i \in {l \in 0..map.max_level : p[l] = w}}]]]

\* Not the code: only the leaf is cleared.
level_bitmap_bit_clear_LeafOnly(map, bit) ==
    LET leaf == LeafWord(map, bit)
    IN  [was |-> npos(bit, 0) \in map.words[leaf],
         map |-> [map EXCEPT !.words[leaf] = @ \ {npos(bit, 0)}]]

\* From the leaf upwards as long as the word is empty.
level_bitmap_bit_clear(map, bit) ==
    LET leaf == LeafWord(map, bit)
        up[i \in 0..map.max_level] ==
            IF i = 0 THEN [p |-> leaf, words |-> [map.words EXCEPT ![leaf] = @ \ {npos(bit, 0)}]]
            ELSE IF up[i - 1].words[up[i - 1].p] # {} THEN up[i - 1]
            ELSE LET q == up[i - 1].p - (npos(bit, i) * level_jump_sizes(i) + 1)
                 IN  [p |-> q, words |-> [up[i - 1].words EXCEPT ![q] = @ \ {npos(bit, i)}]]
    IN  [was |-> npos(bit, 0) \in map.words[leaf],
         map |-> [map EXCEPT !.words = up[map.max_level].words]]

\* What bsf and bsr leave for an empty word is undefined, here 0; whatever it is,
\* get_min and get_max go on and do not return -1.
bsf(word) == IF word = {} THEN 0 ELSE Min(word)
bsr(word) == IF word = {} THEN 0 ELSE Max(word)

\* From the root downwards, by the lowest bits or by the highest.
Descend(map, least) ==
    LET d[i \in 0..map.max_level] ==
            LET up == IF i = map.max_level THEN [p |-> 0, rs |-> 0] ELSE d[i + 1]
                n  == IF least THEN bsf(map.words[up.p]) ELSE bsr(map.words[up.p])
            IN  [p |-> up.p + n * level_jump_sizes(i) + 1, rs |-> up.rs * B + n]
    IN  IF map.words[0] = {} THEN -1 ELSE d[0].rs

level_bitmap_get_min(map) == Descend(map, TRUE)
level_bitmap_get_max(map) == Descend(map, FALSE)

\* The first words, enough for the leaf of count, move by the difference of levels;
\* the words above them get a one.
level_bitmap_cpy(level, src, count) ==
    LET n == Sum[count] + src.max_level + 1
        up == level - src.max_level
    IN  [max_level |-> level,
         words |-> [w \in Words |->
             IF w < up THEN {0}
             ELSE IF w - up < n /\ w - up \in Words THEN src.words[w - up] ELSE {}]]

-----------------------------------------------------------------------------
Empty(level) == [max_level |-> level, words |-> [w \in Words |-> {}]]

Init == lb \in {Empty(l) : l \in LevelSet} /\ rs = {}

BitSet(bit) ==
    /\ lb' = level_bitmap_bit_set(lb, bit).map
    /\ rs' = rs \union {bit}

BitClear(bit) ==
    /\ lb' = level_bitmap_bit_clear(lb, bit).map
    /\ rs' = rs \ {bit}

Cpy(level) ==
    /\ EmptyCopies \/ rs # {}
    /\ lb' = level_bitmap_cpy(level, lb, Count)
    /\ UNCHANGED rs

Next ==
    \/ \E bit \in Bits : BitSet(bit) \/ BitClear(bit)
    \/ \E level \in LevelSet : Cpy(level)

Spec == Init /\ [][Next]_vars

-----------------------------------------------------------------------------
\* Every variable has its type.
TypeOK ==
    /\ lb \in [max_level : LevelSet, words : [Words -> SUBSET (0..(B - 1))]]
    /\ rs \subseteq Bits

\* After any sets, clears and copies between levels, test tells exactly the numbers
\* in the set, and set and clear return whether the number was there.
TestExact ==
    \A bit \in Bits :
        /\ level_bitmap_bit_test(lb, bit) <=> bit \in rs
        /\ level_bitmap_bit_set(lb, bit).was <=> bit \in rs
        /\ level_bitmap_bit_clear(lb, bit).was <=> bit \in rs

\* The inner words lead to the least and to the greatest number, and say when there
\* is none.
BoundsExact ==
    /\ level_bitmap_get_min(lb) = IF rs = {} THEN -1 ELSE Min(rs)
    /\ level_bitmap_get_max(lb) = IF rs = {} THEN -1 ELSE Max(rs)
=============================================================================
