------------------------------- MODULE MCMCS -------------------------------
(***************************************************************************)
(* MMCS, and so MCS, for TLC: three threads, so that the queue holds an    *)
(* owner, a linked waiter and one that exchanged the tail and has not      *)
(* linked itself yet.                                                      *)
(***************************************************************************)
EXTENDS MMCS

CONSTANTS t1, t2, t3

MCThreads == {t1, t2, t3}
=============================================================================
