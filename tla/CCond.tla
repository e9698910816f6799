------------------------------- MODULE CCond -------------------------------
(***************************************************************************)
(* The condition variable of cond/zm_ccond.c, a flag, and the counted      *)
(* condition of cond/zm_scount.c on top of it, used with the ticket lock.  *)
(* As in the tests of test/regres/cond, every thread waits on a condition  *)
(* of its own, so conditions have the names of their threads; the flag     *)
(* would not serve two waiters, since the second one's wait sets again     *)
(* what was cleared for the first.  The counts are plain integers that     *)
(* only the owner of the lock touches.                                     *)
(***************************************************************************)
EXTENDS Ticket

VARIABLES
  flag,   \* zm_ccond: does the thread have to wait?
  count,  \* zm_scount
  cpc     \* where each thread is in zm_ccond_wait

condVars == <<flag, count, cpc>>

CondInit ==
  /\ flag \in [Threads -> {"CLEAR", "WAIT"}]
  /\ count \in [Threads -> {0}]
  /\ cpc = [t \in Threads |-> "out"]

CondGoto(t, from, to) == cpc[t] = from /\ cpc' = [cpc EXCEPT ![t] = to]

(* zm_ccond_wait, called by the owner: the flag... *)
WaitStore(t) ==
  /\ CondGoto(t, "out", "release")
  /\ pc[t] = "cs"
  /\ flag' = [flag EXCEPT ![t] = "WAIT"]
  /\ UNCHANGED vars

(* The flag set after the release. *)
WaitReleaseFirst(t) ==
  /\ \/ CondGoto(t, "release", "late") /\ Release(t) /\ UNCHANGED flag
     \/ /\ CondGoto(t, "late", "spin")
        /\ flag' = [flag EXCEPT ![t] = "WAIT"]
        /\ UNCHANGED vars
  /\ UNCHANGED count

(* ...zm_lock_release... *)
WaitRelease(t) ==
  /\ CondGoto(t, "release", "spin")
  /\ Release(t)
  /\ UNCHANGED <<flag, count>>

(* ...the end of the spin... *)
WaitSpin(t) ==
  /\ CondGoto(t, "spin", "acquire")
  /\ flag[t] # "WAIT"
  /\ UNCHANGED <<vars, flag, count>>

(* ...and zm_lock_acquire. *)
WaitAcquire(t) ==
  /\ CondGoto(t, "acquire", "spin_lock")
  /\ AcquireFetchAdd(t)
  /\ UNCHANGED <<flag, count>>

WaitReturn(t) ==
  /\ CondGoto(t, "spin_lock", "out")
  /\ AcquireSpin(t)
  /\ UNCHANGED <<flag, count>>

(* zm_ccond_signal, which zm_ccond_bcast calls. *)
Signal(c) == flag' = [flag EXCEPT ![c] = "CLEAR"]
-----------------------------------------------------------------------------
(* zm_scount_init, by the thread itself while nobody else uses it. *)
SCountInit(t, n) ==
  /\ count' = [count EXCEPT ![t] = n]
  /\ Signal(t)
  /\ UNCHANGED cpc

(* zm_scount_wait *)
SCountWait(t) ==
  /\ \/ count[t] > 0 /\ WaitStore(t)
     \/ count[t] = 0 /\ pc[t] = "cs" /\ UNCHANGED <<vars, flag, cpc>>
  /\ UNCHANGED count

(* A signal for each decrement. *)
SCountSignalEach(c) ==
  /\ IF count[c] > 0
     THEN count' = [count EXCEPT ![c] = @ - 1] /\ Signal(c)
     ELSE UNCHANGED <<count, flag>>
  /\ UNCHANGED cpc

(* zm_scount_signal, called by the owner of the lock. *)
SCountSignal(c) ==
  /\ \/ /\ count[c] > 0
        /\ count' = [count EXCEPT ![c] = @ - 1]
        /\ IF count[c] = 1 THEN Signal(c) ELSE UNCHANGED flag
     \/ count[c] = 0 /\ UNCHANGED <<count, flag>>
  /\ UNCHANGED cpc
=============================================================================
