----------------------------- MODULE MCSWPQueue -----------------------------
(***************************************************************************)
(* SWPQueue for TLC: two producers and three nodes, so that both producers *)
(* can be between their exchange and their link while the consumer frees   *)
(* nodes whose addresses come back.  No symmetry, as liveness is checked.  *)
(***************************************************************************)
EXTENDS SWPQueue

CONSTANTS p1, p2, n1, n2, n3, d1, d2

MCProducers == {p1, p2}
MCNodes == {n1, n2, n3}
MCData == {d1, d2}
=============================================================================
