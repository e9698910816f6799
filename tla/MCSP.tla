-------------------------------- MODULE MCSP --------------------------------
(***************************************************************************)
(* zm_mcsp_tryacq and zm_mcsp_tryacq_low of lock/zm_mcsp.c, beside the     *)
(* blocking calls, which are those of PrioLock (zm_mcsp.c and zm_tlp.c     *)
(* have the same text there).  The non-blocking acquisitions of the MCS    *)
(* locks and of the filter are one step each.                              *)
(*                                                                         *)
(* success[t] is the caller's int.  The code tests the pointer success     *)
(* where it means *success, so both of its tests always hold.              *)
(***************************************************************************)
EXTENDS PrioLock

VARIABLE success

tryVars == <<vars, success>>

TryInit == Init /\ success = [t \in Threads |-> 0]

Report(t, value) == success' = [success EXCEPT ![t] = value]

(* zm_mcsp_tryacq: whatever became of high_p, go_straight is tested. *)
TryHigh(t) ==
  /\ At(t, "idle", "th_test")
  /\ \/ High!EnterFree(t) /\ Report(t, 1)
     \/ hq # << >> /\ UNCHANGED <<hq, hown>> /\ Report(t, 0)
  /\ UNCHANGED <<lq, lown, filter, flags>>

TryTest(t) ==
  /\ pc[t] = "th_test"
  /\ Goto(t, IF go_straight = 1 THEN "t_return" ELSE "th_filter")
  /\ UNCHANGED <<locks, filter, flags, success>>

(* zm_mcsp_tryacq_low: whatever became of low_p, the filter is tried. *)
TryLow(t) ==
  /\ At(t, "idle", "tl_filter")
  /\ \/ Low!EnterFree(t) /\ Report(t, 1)
     \/ lq # << >> /\ UNCHANGED <<lq, lown>> /\ Report(t, 0)
  /\ UNCHANGED <<hq, hown, filter, flags>>

(* zm_ticket_tryacq stores its outcome through success; whatever it is, the *)
(* flag is set.                                                             *)
TryFilter(t) ==
  /\ At(t, "th_filter", "th_set") \/ At(t, "tl_filter", "tl_set")
  /\ \/ fnext = fnow /\ Draw(t) /\ Report(t, 1)
     \/ fnext # fnow /\ UNCHANGED <<locks, filter, flags>> /\ Report(t, 0)

TrySet(t) ==
  /\ \/ At(t, "th_set", "t_return") /\ go_straight' = 1 /\ UNCHANGED low_p_acq
     \/ At(t, "tl_set", "t_return") /\ low_p_acq' = 1 /\ UNCHANGED go_straight
  /\ UNCHANGED <<locks, filter, success>>

(* The caller enters its critical section if it was told that it may. *)
TryReturn(t) ==
  /\ pc[t] = "t_return"
  /\ Goto(t, IF success[t] = 1 THEN "h_cs" ELSE "idle")
  /\ UNCHANGED <<locks, filter, flags, success>>

TryNext ==
  \/ Next /\ UNCHANGED success
  \/ \E t \in Threads :
       TryHigh(t) \/ TryLow(t) \/ TryTest(t) \/ TryFilter(t) \/ TrySet(t) \/ TryReturn(t)

TrySpec == TryInit /\ [][TryNext]_tryVars
-----------------------------------------------------------------------------
(* A caller of zm_mcsp_tryacq that finds success set updates the data the  *)
(* lock protects; so does the caller of a blocking call.  No two are there *)
(* at once.                                                                *)
TryExclusion == MutualExclusion
=============================================================================
