---------------------------- MODULE MCModeration ----------------------------
(***************************************************************************)
(* An instance of Moderation: two incidents reported by a moderator, both  *)
(* confirmed by the two citizens before, one of whom is a step away from   *)
(* full trust.                                                             *)
(***************************************************************************)
EXTENDS Moderation

CONSTANTS i1, i2, u1, u2, m1, q1, q2

MCReporter == [i \in Incidents |-> m1]
MCVoted == [i \in Incidents |-> [u \in Users |-> IF u = m1 THEN NoVote ELSE "confirmar"]]
MCTrust == [u \in Users |-> IF u = u1 THEN 99 ELSE 50]
=============================================================================
