----------------------------- MODULE MCMSQueue -----------------------------
(***************************************************************************)
(* MSQueue for TLC: two threads that each enqueue and dequeue, of which    *)
(* one may stop anywhere in its operation, while the other moves head and  *)
(* tail past it, retires what it was looking at, and scans.  Nodes bounds  *)
(* the enqueues, as no node comes back; a ScanFactor of 1 makes the few    *)
(* nodes enough for several scans.                                         *)
(***************************************************************************)
EXTENDS MSQueue

CONSTANTS t1, t2, n1, n2, n3, n4

MCThreads == {t1, t2}
MCNodes == {n1, n2, n3, n4}
MCScanFactor == 1
MCStalled == {t2}
=============================================================================
