-------------------------------- MODULE TLP --------------------------------
(***************************************************************************)
(* zm_tlp_tryacq and zm_tlp_tryacq_low of lock/zm_tlp.c, beside the        *)
(* blocking calls of PrioLock.  The non-blocking acquisitions of the two   *)
(* FIFO locks and of the filter are one step each: they take the lock when *)
(* it is free and fail when it is held.                                    *)
(*                                                                         *)
(* success[t] is the caller's int, which it sets to 0 before the call and  *)
(* tests after it; the code never stores to it.                            *)
(***************************************************************************)
EXTENDS PrioLock

VARIABLE success

tryVars == <<vars, success>>

TryInit == Init /\ success = [t \in Threads |-> 0]

(* zm_tlp_tryacq: acquired is 1 exactly on the way to "th_test". *)
TryHigh(t) ==
  /\ \/ At(t, "idle", "th_test") /\ High!EnterFree(t)
     \/ At(t, "idle", "t_return") /\ hq # << >> /\ UNCHANGED <<hq, hown>>
  /\ success' = [success EXCEPT ![t] = 0]
  /\ UNCHANGED <<lq, lown, filter, flags>>

(* zm_tlp_tryacq_low *)
TryLow(t) ==
  /\ \/ At(t, "idle", "th_test") /\ Low!EnterFree(t)
     \/ At(t, "idle", "t_return") /\ lq # << >> /\ UNCHANGED <<lq, lown>>
  /\ success' = [success EXCEPT ![t] = 0]
  /\ UNCHANGED <<hq, hown, filter, flags>>

(* The rest is the same for both priorities. *)
TryTest(t) ==
  /\ pc[t] = "th_test"
  /\ Goto(t, IF go_straight = 1 THEN "t_return" ELSE "th_filter")
  /\ UNCHANGED <<locks, filter, flags, success>>

TryFilter(t) ==
  /\ \/ At(t, "th_filter", "th_set") /\ fnext = fnow /\ Draw(t)
     \/ At(t, "th_filter", "t_return") /\ fnext # fnow
        /\ UNCHANGED <<locks, filter, flags>>
  /\ UNCHANGED success

TrySet(t) ==
  /\ At(t, "th_set", "t_return")
  /\ go_straight' = 1
  /\ UNCHANGED <<locks, filter, low_p_acq, success>>

(* The caller enters its critical section if it was told that it may. *)
TryReturn(t) ==
  /\ pc[t] = "t_return"
  /\ Goto(t, IF success[t] = 1 THEN "h_cs" ELSE "idle")
  /\ UNCHANGED <<locks, filter, flags, success>>

TryNext ==
  \/ Next /\ UNCHANGED success
  \/ \E t \in Threads :
       TryHigh(t) \/ TryLow(t) \/ TryTest(t) \/ TryFilter(t) \/ TrySet(t) \/ TryReturn(t)

TrySpec == TryInit /\ [][TryNext]_tryVars
-----------------------------------------------------------------------------
(* A caller of zm_tlp_tryacq releases the lock if it was told of success   *)
(* and tries again if not, so a thread outside the calls and outside its   *)
(* critical section holds neither high_p nor low_p.                        *)
FailureHoldsNothing ==
  \A t \in Threads : pc[t] = "idle" => t \notin hown \cup lown
=============================================================================
