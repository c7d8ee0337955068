------------------------------ MODULE MCOutbox ------------------------------
(* A durable and an advisory event, claimed together by two pollers, with  *)
(* up to three failures.  With two pollers a row never sees more than two  *)
(* tokens at once, so three are enough for a fresh one.                    *)
EXTENDS Outbox

CONSTANTS p1, p2

MCEvents == 1..2
MCDurableEvents == {1}
MCPollers == {p1, p2}
MCTokens == 1..3
=============================================================================
