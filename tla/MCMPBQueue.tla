----------------------------- MODULE MCMPBQueue -----------------------------
(***************************************************************************)
(* MPBQueue for TLC: two sets of two buckets, two producers that enqueue   *)
(* into any of them, and first values of last_bucket_set with and without  *)
(* a remainder.                                                            *)
(***************************************************************************)
EXTENDS MPBQueue

CONSTANTS p1, p2

MCProducers == {p1, p2}
MCInCounts == {1, 3}
MCFirstSets == {0, 3}
=============================================================================
