----------------------------- MODULE MCLinkStore -----------------------------
(***************************************************************************)
(* LinkStore on small instances for TLC. Processes, users, codes and urls  *)
(* are interchangeable.                                                    *)
(***************************************************************************)
EXTENDS LinkStore, TLC

Interchangeable ==
    Permutations(Procs) \cup Permutations(Users)
        \cup Permutations(Codes) \cup Permutations(Urls)
=============================================================================
