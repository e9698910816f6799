----------------------------- MODULE MCPrioLock -----------------------------
(***************************************************************************)
(* PrioLock for TLC: three threads, each free to call either priority each *)
(* time, so that a relay of two high-priority owners meets a low-priority  *)
(* one, and two low-priority threads meet a high-priority one.             *)
(***************************************************************************)
EXTENDS PrioLock

CONSTANTS t1, t2, t3

MCThreads == {t1, t2, t3}
MCM == 3
=============================================================================
