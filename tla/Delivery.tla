------------------------------- MODULE Delivery -------------------------------
(***************************************************************************)
(* What a receiver promises of one offer: the file is published once, stays *)
(* published, and only then is the offer recorded as consumed, for good --  *)
(* whatever crashes happen on the way.  Receiver implements this.           *)
(***************************************************************************)
VARIABLES
    published,   \* the file is under the destination name, durably
    consumed     \* the tombstone of the offer is durable

vars == <<published, consumed>>

Init == published = FALSE /\ consumed = FALSE

Publish == ~published /\ published' = TRUE /\ UNCHANGED consumed
Consume == published /\ ~consumed /\ consumed' = TRUE /\ UNCHANGED published

Next == Publish \/ Consume

Spec == Init /\ [][Next]_vars
FairSpec == Spec /\ WF_vars(Next)
=============================================================================
