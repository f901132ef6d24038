---------------------------- MODULE MCBackoffice ----------------------------
(* Model checking instance of Backoffice. *)
EXTENDS Backoffice, TLC

CONSTANTS g1, g2, n1, n2, m1, m2, c1, c2, w1, w2, none

MCBefore == {<<>>, <<<<n1, m1>>>>, <<<<n1, m1>>, <<n2, m2>>>>}

MCSymmetry == Permutations(Guests) \cup Permutations(Callers) \cup Permutations(Auditors)
=============================================================================
