------------------------------ MODULE MCSched -------------------------------
(* The scheduler on small instances.                                       *)
EXTENDS Sched, TLC

\* The processes other than process1 are interchangeable.
Symmetry == Permutations(Proc \ {P1})
=============================================================================
