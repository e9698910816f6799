-------------------------------- MODULE HMPR --------------------------------
(***************************************************************************)
(* The priority lock of lock/zm_hmpr.c: an HMCS lock, before which the     *)
(* threads of low priority (p > 0) go through a wait-skip list one by one. *)
(* The owner of high priority puts znode into that list, to hold them      *)
(* back, until it releases the HMCS lock with nobody waiting.  Anyone may  *)
(* raise a thread's priority; one that reaches 0 skips the list.           *)
(*                                                                         *)
(* The HMCS lock is what module HMCS shows of it: one owner at a time, no  *)
(* starvation, and a zm_hmcs_nowaiters that may overlook a waiter but not  *)
(* invent one.  go_straight and low_p_acq are accessed by its owner only.  *)
(* Threads behave as those of test/regres/lock/hmpr_thruput.c: they        *)
(* acquire, raise another thread's priority, and release.                  *)
(*                                                                         *)
(* behind is a history variable: the threads that began to wait in the     *)
(* list while go_straight was set, as long as it is and nobody raised them.*)
(***************************************************************************)
EXTENDS WSkip

CONSTANTS
  znode,        \* zm_hmpr's own queue node
  znodeStatus,  \* its status after zm_hmpr_init, which does not set it
  LowThreads    \* the threads whose p is 1 at first; that of the others is 0

ASSUME HMPRAssumption ==
  Nodes = Threads \cup {znode} /\ znode \notin Threads /\ znodeStatus \in Status

VARIABLES
  owner,     \* of the HMCS lock
  p, known,  \* zm_hmpr_pnode: p, and whether qnode is set
  target,    \* whom each thread raises
  behind     \* history

prios == <<p, known, target>>
lockVars == <<owner, go_straight, low_p_acq, p, known, pc, target, behind>>
hmprVars == <<wskipVars, lockVars>>

(* zm_hmpr_init *)
HMPRInit ==
  /\ WSkipInit(znodeStatus)
  /\ owner = NULL
  /\ go_straight = 0 /\ low_p_acq = 0
  /\ p = [t \in Threads |-> IF t \in LowThreads THEN 1 ELSE 0]
  /\ known = [t \in Threads |-> FALSE]
  /\ pc = [t \in Threads |-> "idle"]
  /\ target = [t \in Threads |-> NULL]
  /\ behind = {}
-----------------------------------------------------------------------------
(* zm_hmpr_acquire with p = 0... *)
HighBegin(t) ==
  /\ At(t, "idle", "h_lock")
  /\ p[t] = 0
  /\ UNCHANGED <<wskipVars, owner, flags, prios, behind>>

HighLock(t) ==
  /\ pc[t] = "h_lock"
  /\ owner = NULL /\ owner' = t
  /\ \/ go_straight = 1 /\ Goto(t, "cs") /\ UNCHANGED wskipVars
     \/ go_straight = 0 /\ Goto(t, "h_enq") /\ CallEnq(t, znode)
  /\ UNCHANGED <<flags, prios, behind>>

HighStraight(t) ==
  /\ At(t, "h_enq", "cs")
  /\ Out(t)
  /\ go_straight' = 1
  /\ UNCHANGED <<wskipVars, owner, low_p_acq, prios, behind>>

(* ...and with p > 0, through the list. *)
LowBegin(t) ==
  /\ At(t, "idle", "l_wait")
  /\ p[t] > 0
  /\ CallWait(t)
  /\ known' = [known EXCEPT ![t] = TRUE]
  /\ behind' = IF go_straight = 1 THEN behind \cup {t} ELSE behind
  /\ UNCHANGED <<owner, flags, p, target>>

LowLock(t) ==
  /\ At(t, "l_wait", "cs")
  /\ Out(t)
  /\ owner = NULL /\ owner' = t
  /\ low_p_acq' = 1
  /\ behind' = behind \ {t}
  /\ UNCHANGED <<wskipVars, go_straight, prios>>
-----------------------------------------------------------------------------
(* zm_hmpr_raise_prio *)
Raise(t, u) ==
  /\ At(t, "cs", "raise")
  /\ p[u] > 0
  /\ p' = [p EXCEPT ![u] = @ - 1]
  /\ target' = [target EXCEPT ![t] = u]
  /\ behind' = behind \ {u}
  /\ UNCHANGED <<wskipVars, owner, flags, known>>

RaiseSkip(t) ==
  /\ At(t, "raise", "cs")
  /\ \/ p[target[t]] = 0 /\ known[target[t]] /\ Skip(target[t])
     \/ ~ (p[target[t]] = 0 /\ known[target[t]]) /\ UNCHANGED wskipVars
  /\ target' = [target EXCEPT ![t] = NULL]
  /\ UNCHANGED <<owner, flags, p, known, behind>>
-----------------------------------------------------------------------------
(* zm_hmcs_nowaiters, of the HMCS lock *)
Waiting == {t \in Threads : pc[t] = "h_lock" \/ (pc[t] = "l_wait" /\ Out(t))}

(* zm_hmpr_release of an owner of high priority: it keeps the others out... *)
ReleaseStraight(t) ==
  /\ At(t, "cs", "idle")
  /\ low_p_acq = 0
  /\ Waiting # {}
  /\ owner' = NULL
  /\ UNCHANGED <<wskipVars, flags, prios, behind>>

(* ...or lets them in... *)
ReleaseHigh(t) ==
  /\ At(t, "cs", "r_high")
  /\ low_p_acq = 0
  /\ go_straight' = 0
  /\ behind' = {}
  /\ CallWake(t, znode)
  /\ UNCHANGED <<owner, low_p_acq, prios>>

HighUnlock(t) ==
  /\ At(t, "r_high", "idle")
  /\ Out(t)
  /\ owner' = NULL
  /\ UNCHANGED <<wskipVars, flags, prios, behind>>

(* ...and of one of low priority, or that was when it came. *)
ReleaseLow(t) ==
  /\ At(t, "cs", "r_low")
  /\ low_p_acq = 1 /\ low_p_acq' = 0
  /\ owner' = NULL
  /\ CallWake(t, t)
  /\ UNCHANGED <<go_straight, prios, behind>>

LowDone(t) ==
  /\ At(t, "r_low", "idle")
  /\ Out(t)
  /\ UNCHANGED <<wskipVars, owner, flags, prios, behind>>
-----------------------------------------------------------------------------
HMPRAcquire(t) ==
  \/ HighLock(t) \/ LowLock(t)
  \/ HighStraight(t)

HMPRRelease(t) == ReleaseStraight(t) \/ ReleaseHigh(t) \/ ReleaseLow(t)

ListStep(t) == WSkipStep(t) /\ UNCHANGED lockVars

HMPRNext ==
  \E t \in Threads :
    \/ HighBegin(t) \/ LowBegin(t) \/ HMPRAcquire(t)
    \/ \E u \in Threads \ {t} : Raise(t, u)
    \/ RaiseSkip(t)
    \/ HMPRRelease(t) \/ HighUnlock(t) \/ LowDone(t)
    \/ ListStep(t)

HMPRSpec == HMPRInit /\ [][HMPRNext]_hmprVars
-----------------------------------------------------------------------------
HMPRTypeOK ==
  /\ WSkipTypeOK
  /\ owner \in Threads \cup {NULL}
  /\ go_straight \in {0, 1} /\ low_p_acq \in {0, 1}
  /\ p \in [Threads -> {0, 1}] /\ known \in [Threads -> BOOLEAN]
  /\ pc \in [Threads -> {"idle", "h_lock", "h_enq", "l_wait", "cs", "raise",
                         "r_high", "r_low"}]
  /\ target \in [Threads -> Threads \cup {NULL}]
  /\ behind \subseteq Threads

(* At most one node has WAKE: of the threads that were neither skipped nor *)
(* raised, one at a time is out of the list and competes for the HMCS lock.*)
(* A node is not used again before the wake that takes it out of the line  *)
(* is done with it.                                                        *)
OneWakes ==
  /\ HMPRTypeOK
  /\ NeverChecked
  /\ \A m, n \in Nodes : status[m] = "WAKE" /\ status[n] = "WAKE" => m = n

(* The line never ends in a node that is out of it, but for the duration   *)
(* of the wake that takes it out: the next to come would wait for a wake   *)
(* that nobody calls.                                                      *)
TailInLine ==
  lock # NULL /\ status[lock] = "RECYCLE" =>
    \E t \in Threads : wpc[t] \notin {"out", "w_spin"} /\ lock \in {node[t], cur[t], succ[t]}

(* A line in which somebody waits moves on: some thread is first in line   *)
(* or about to be, and has not called wake yet, or is inside wake.  Nobody *)
(* is forgotten, skipped or not, behind a node that left.                  *)
SomeoneWakes ==
  (\E t \in Threads : wpc[t] = "w_spin" /\ status[t] \in {"WAIT", "SKIP", "CHECK"}) =>
    \E u \in Threads :
      \/ status[u] = "WAKE" /\ pc[u] # "idle"
      \/ wpc[u] = "e_wake"
      \/ wpc[u] \notin {"out", "e_status", "e_next", "e_swap", "e_link", "w_spin", "k_try"}

(* No thread waits for a wake that nobody will call, neither one in line   *)
(* nor the next one to come.                                               *)
NobodyForgotten == TailInLine /\ SomeoneWakes

(* What zm_wskip_enq is for, in the words of its comment to insert oneself *)
(* into the queue and block whoever comes after: a thread of low priority  *)
(* that comes while go_straight is set does not get out of the list before *)
(* it is cleared.                                                          *)
HighBlocksLow ==
  \A t \in behind : pc[t] = "l_wait" => ~ Out(t)
=============================================================================
