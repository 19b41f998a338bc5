------------------------------- MODULE Lists --------------------------------
(***************************************************************************)
(* A circular list as the sequence of its members, read from head.next.    *)
(***************************************************************************)
EXTENDS Integers, Sequences

InSeq(x, s) == \E i \in DOMAIN s : s[i] = x

\* A sequence without repetition: no node is linked twice.
Injective(s) == \A i, j \in DOMAIN s : s[i] = s[j] => i = j

\* circular_list_insert at the head; at head.pre it is Append.
Insert(s, x) == <<x>> \o s

Position(s, x) == CHOOSE i \in DOMAIN s : s[i] = x

\* circular_list_remove of a node that is in the list.
Unlink(s, x) ==
    IF InSeq(x, s)
    THEN [i \in 1..(Len(s) - 1) |-> IF i < Position(s, x) THEN s[i] ELSE s[i + 1]]
    ELSE s

=============================================================================
