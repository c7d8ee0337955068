---------------------------- MODULE EventHandoff ----------------------------
(***************************************************************************)
(* What the outbox promises, whatever pollers, claims and failures do: an  *)
(* event is recorded with the change it tells of, it is handed to the      *)
(* broker only after that, it stays pending until then, and it does not    *)
(* stay pending for ever.  Events that are not durable may be settled      *)
(* without anyone having received them.                                    *)
(***************************************************************************)
CONSTANTS Events, DurableEvents

VARIABLES
    recorded,  \* events of committed transactions
    pending,   \* events the outbox still has to settle
    handed     \* events that reached a queue of the broker

vars == <<recorded, pending, handed>>

Init == recorded = {} /\ pending = {} /\ handed = {}

Record(e) ==
    /\ e \notin recorded
    /\ recorded' = recorded \cup {e}
    /\ pending' = pending \cup {e}
    /\ UNCHANGED handed

\* A late or repeated hand-off of a settled event is possible.
HandOff(e) ==
    /\ e \in recorded
    /\ handed' = handed \cup {e}
    /\ UNCHANGED <<recorded, pending>>

Settle(e) ==
    /\ e \in pending
    /\ e \in DurableEvents => e \in handed
    /\ pending' = pending \ {e}
    /\ UNCHANGED <<recorded, handed>>

Next == \E e \in Events : Record(e) \/ HandOff(e) \/ Settle(e)

Fairness ==
    /\ \A e \in DurableEvents : WF_vars(HandOff(e))
    /\ \A e \in Events : WF_vars(Settle(e))

Spec == Init /\ [][Next]_vars /\ Fairness
=============================================================================
