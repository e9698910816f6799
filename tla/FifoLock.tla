------------------------------ MODULE FifoLock ------------------------------
(***************************************************************************)
(* What a FIFO lock of the library promises its callers, whatever its      *)
(* implementation: one atomic instruction of the acquisition (a fetch_add  *)
(* on a ticket counter, an exchange on a tail pointer) fixes the caller's  *)
(* place in line, and the lock is granted in that order, to one thread at  *)
(* a time.  Ticket and MCS implement this specification; MCSP and TLP are  *)
(* built from it.                                                          *)
(***************************************************************************)
EXTENDS Naturals, Sequences

CONSTANT Threads

VARIABLES
  queue,    \* the threads in line, the owner (or next owner) first
  holders   \* the threads inside the critical section

vars == <<queue, holders>>

Waiting(t) == \E i \in 1..Len(queue) : queue[i] = t

Init ==
  /\ queue = << >>
  /\ holders = {}

(* A thread takes its place behind everybody else. *)
Enter(t) ==
  /\ ~ Waiting(t)
  /\ queue' = Append(queue, t)
  /\ UNCHANGED holders

(* Uncontended acquisition, blocking or not: nobody is in line. *)
EnterFree(t) ==
  /\ queue = << >>
  /\ queue' = << t >>
  /\ holders' = {t}

(* The first thread in line finds out that it owns the lock. *)
Grant(t) ==
  /\ queue # << >>
  /\ Head(queue) = t
  /\ holders = {}
  /\ holders' = {t}
  /\ UNCHANGED queue

Leave(t) ==
  /\ holders = {t}
  /\ queue # << >>
  /\ holders' = {}
  /\ queue' = Tail(queue)

Next == \E t \in Threads : Enter(t) \/ EnterFree(t) \/ Grant(t) \/ Leave(t)

Spec == Init /\ [][Next]_vars
=============================================================================
