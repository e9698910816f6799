------------------------------- MODULE MCHMPR -------------------------------
(***************************************************************************)
(* HMPR for TLC: a thread of high priority that raises the others, and     *)
(* three of low priority, so that a wake passes two nodes, turns a link    *)
(* around and follows it back while the line grows behind.  The znode of a *)
(* static lock, like that of test/regres/lock/hmpr_thruput.c, is zero,     *)
(* which is ZM_WAIT.                                                       *)
(***************************************************************************)
EXTENDS HMPR, TLC

CONSTANTS t1, t2, t3, t4

MCThreads == {t1, t2, t3, t4}
MCLow == {t2, t3, t4}
MCNodes == MCThreads \cup {znode}
MCZnodeStatus == "WAIT"

(* Threads of one priority are interchangeable. *)
Symmetric == Permutations(MCLow)
=============================================================================
