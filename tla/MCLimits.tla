------------------------------ MODULE MCLimits ------------------------------
(* Model checking instance of Limits: two keys that share a prefix, in a day *)
(* of two minutes, east of UTC.                                            *)
EXTENDS Limits, TLC

CONSTANTS g1, g2, i1, k1, k2, none, p1

MCPrefix == [k \in Keys |-> p1]
MCRate == [k \in Keys |-> 1]
MCQuota == k1 :> 1 @@ k2 :> 2

MCSymmetry == Permutations(Gates)
=============================================================================
