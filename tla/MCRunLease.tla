----------------------------- MODULE MCRunLease -----------------------------
(***************************************************************************)
(* The lease protocol on small instances: two or three schedulers, one     *)
(* run, a TTL of three ticks and a margin of one, so that a lease can be   *)
(* renewed in time, late by one tick, and not at all.                      *)
(***************************************************************************)
EXTENDS RunLease, TLC

Symmetry == Permutations(Owner)
=============================================================================
