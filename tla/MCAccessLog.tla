----------------------------- MODULE MCAccessLog -----------------------------
(***************************************************************************)
(* AccessLog on small instances for TLC. Entries are interchangeable, and  *)
(* so are workers, where only a safety property is checked.                *)
(***************************************************************************)
EXTENDS AccessLog, TLC

Interchangeable == Permutations(Entries) \cup Permutations(Workers)
=============================================================================
