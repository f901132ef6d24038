----------------------------- MODULE LogDelivery -----------------------------
(***************************************************************************)
(* What the access-log pipeline promises of each entry: it is refused at   *)
(* once or taken; an entry taken stays pending until it is kept (as a row  *)
(* or in the fallback output), and is kept for good. The process ends      *)
(* cleanly only when nothing is pending.                                   *)
(***************************************************************************)
CONSTANT Entries

VARIABLES
    fate,       \* entry |-> "none", "refused", "pending" or "kept"
    ending      \* "up" while the process lives, then "clean" or "lossy"

dvars == <<fate, ending>>

Init ==
    /\ fate = [e \in Entries |-> "none"]
    /\ ending = "up"

Offer(e) ==
    /\ ending = "up" /\ fate[e] = "none"
    /\ \E f \in {"pending", "refused"} : fate' = [fate EXCEPT ![e] = f]
    /\ UNCHANGED ending

Keep ==
    /\ ending = "up"
    /\ \E S \in SUBSET {e \in Entries : fate[e] = "pending"} :
        fate' = [e \in Entries |-> IF e \in S THEN "kept" ELSE fate[e]]
    /\ UNCHANGED ending

End ==
    /\ ending = "up"
    /\ \/ ending' = "lossy"
       \/ ending' = "clean" /\ \A e \in Entries : fate[e] # "pending"
    /\ UNCHANGED fate

Next == Keep \/ End \/ \E e \in Entries : Offer(e)

Spec == Init /\ [][Next]_dvars
=============================================================================
