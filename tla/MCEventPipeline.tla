--------------------------- MODULE MCEventPipeline ---------------------------
(* One incident on its way through two pollers and a worker.  The one      *)
(* fault is a lost confirm, a crash or an overrun claim, so that a second  *)
(* copy may arrive at any time of the first.  Nobody walks into its impact *)
(* area: MCDelivery has that.                                              *)
EXTENDS EventPipeline

CONSTANTS p1, p2

MCEvents == {1}
MCPollers == {p1, p2}
MCTokens == 1..3
MCNearby == [e \in DurableEvents |-> Users]
MCZone == [e \in DurableEvents |-> {}]
MCSeverity == [e \in DurableEvents |-> 3]
=============================================================================
