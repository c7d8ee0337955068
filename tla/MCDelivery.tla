----------------------------- MODULE MCDelivery -----------------------------
(***************************************************************************)
(* Instances of Delivery.  A worker serves each user for itself, so one    *)
(* user with a row, a push and an account to delete is enough; two copies  *)
(* for two workers interleave in every way.                                *)
(***************************************************************************)
EXTENDS Delivery

CONSTANTS e1, e2, w1, w2

\* Everybody is near e1 and walks into its impact area.
MCNearby == [e \in Events |-> IF e = e1 THEN Users ELSE {}]
MCSeverity == [e \in Events |-> IF e = e1 THEN 3 ELSE 2]

\* Everybody is near e1 and walks into the area of e2, which is as severe.
MCOther == [e \in Events |-> IF e = e2 THEN Users ELSE {}]
MCEqual == [e \in Events |-> 3]
=============================================================================
