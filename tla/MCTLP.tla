------------------------------- MODULE MCTLP -------------------------------
(***************************************************************************)
(* TLP for TLC: the three threads of MCPrioLock, which may also try to     *)
(* acquire either priority without blocking.                               *)
(***************************************************************************)
EXTENDS TLP

CONSTANTS t1, t2, t3

MCThreads == {t1, t2, t3}
MCM == 3
=============================================================================
