---------------------------- MODULE MCSchedRing -----------------------------
(* The rings on small instances.                                           *)
EXTENDS SchedRing, TLC

\* The processes other than process1 are interchangeable.
Symmetry == Permutations(Proc \ {P1})
=============================================================================
