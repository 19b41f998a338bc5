------------------------------ MODULE MCPages -------------------------------
(* The free pages on small instances.                                      *)
EXTENDS PagePool, TLC

\* Nothing tells the processes that allocate from each other.
Symmetry == Permutations(Users)
=============================================================================
