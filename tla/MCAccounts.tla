------------------------------ MODULE MCAccounts -----------------------------
(***************************************************************************)
(* An instance of Accounts: two accounts that may share a device and, one  *)
(* after the other, an e-mail; two sessions; two requests at a time.       *)
(***************************************************************************)
EXTENDS Accounts, TLC

CONSTANTS a1, a2, t1, t2, q1, q2, m1, d1

Interchangeable == Permutations({a1, a2}) \union Permutations({t1, t2}) \union Permutations({q1, q2})
=============================================================================
