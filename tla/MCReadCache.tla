----------------------------- MODULE MCReadCache -----------------------------
(***************************************************************************)
(* An instance of ReadCache: two changes, one API instance and one request *)
(* that is asked again and again.  A second instance or request meets the  *)
(* same versions and entries in Redis; ReadCacheProofs covers any number.  *)
(***************************************************************************)
EXTENDS ReadCache
CONSTANTS c1, c2, i1, r1
=============================================================================
