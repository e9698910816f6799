------------------------------ MODULE Priority ------------------------------
(***************************************************************************)
(* What the priority locks have in common: the threads that call them,     *)
(* where each of them is (its next step; "idle" between two uses of the    *)
(* lock), and the two plain flags of zm_tlp_t, zm_mcsp_t and zm_hmpr_t.    *)
(***************************************************************************)
CONSTANT Threads

VARIABLES
  go_straight,  \* the owner of high priority left the lock to the next one
  low_p_acq,    \* the owner is of low priority
  pc

flags == <<go_straight, low_p_acq>>

Goto(t, label) == pc' = [pc EXCEPT ![t] = label]
At(t, from, to) == pc[t] = from /\ Goto(t, to)
=============================================================================
