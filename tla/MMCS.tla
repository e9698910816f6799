-------------------------------- MODULE MMCS --------------------------------
(***************************************************************************)
(* The memorizing MCS lock of lock/zm_mmcs.c: the MCS lock, with a plain   *)
(* field that keeps the node of the owner, so that the release and         *)
(* nowaiters need not be told.  The release hands the node back to its     *)
(* caller, who brings it to its next acquisition: one node per thread, as  *)
(* in MCS.  A lock of this module is of either kind, for good.             *)
(*                                                                         *)
(* Nobody acquires with a null node: zm_mmcs_acquire would then put the    *)
(* node of another thread, the owner, or none at all in line.              *)
(***************************************************************************)
EXTENDS MCS

VARIABLES
  memo,     \* is the lock a zm_mmcs_t?
  cur_ctx,  \* its field
  place,    \* of an owner: has it stored cur_ctx yet, or taken it back?
  ctx       \* the local I of zm_mmcs_release and _nowaiters, *ctxt

ctxVars == <<memo, cur_ctx, place, ctx>>
mmcsVars == <<vars, ctxVars>>

(* zm_mmcs_init, or zm_mcs_init *)
MMCSInit ==
  /\ Init
  /\ memo \in BOOLEAN
  /\ cur_ctx = NULL
  /\ place = [t \in Threads |-> "out"]
  /\ ctx = [t \in Threads |-> NULL]

Move(t, from, to) ==
  /\ memo /\ pc[t] = "cs"
  /\ place[t] = from /\ place' = [place EXCEPT ![t] = to]
  /\ UNCHANGED <<vars, memo>>

(* The node saved before the lock is owned. *)
AcqSaveEarly(t) ==
  /\ memo /\ pc[t] \in {"spin", "cs"}
  /\ place[t] = "out" /\ place' = [place EXCEPT ![t] = "saved"]
  /\ cur_ctx' = t
  /\ UNCHANGED <<vars, memo, ctx>>

(* zm_mmcs_acquire: the last store; what comes before is acquire_c of MCS. *)
AcqSave(t) ==
  /\ Move(t, "out", "saved")
  /\ cur_ctx' = t
  /\ UNCHANGED ctx

(* zm_mmcs_release: the first three lines, plain accesses of the owner;    *)
(* what comes after is release_c of MCS for the node in ctx.               *)
RelTake(t) ==
  /\ Move(t, "saved", "taken")
  /\ ctx' = [ctx EXCEPT ![t] = cur_ctx]
  /\ cur_ctx' = NULL

Acquiring(t) ==
  /\ AcqInit(t) \/ AcqSwap(t) \/ AcqLocked(t) \/ AcqLink(t) \/ AcqSpin(t)
  /\ UNCHANGED ctxVars

(* There is no zm_mmcs_tryacq. *)
Trying(t) ==
  /\ ~ memo
  /\ TryInit(t) \/ TryCAS(t)
  /\ UNCHANGED ctxVars

RelStart(t) ==
  /\ memo => place[t] = "taken"
  /\ RelLoad(t)
  /\ place' = [place EXCEPT ![t] = "out"]
  /\ UNCHANGED <<memo, cur_ctx, ctx>>

RelRest(t) ==
  /\ RelCAS(t) \/ RelWait(t) \/ RelUnlock(t)
  /\ UNCHANGED ctxVars

(* zm_mmcs_nowaiters of the owner, who has its node in cur_ctx. *)
Asking(t) ==
  /\ memo => place[t] = "saved"
  /\ Nowaiters(t)
  /\ UNCHANGED ctxVars

Step(t) ==
  \/ AcqSave(t) \/ RelTake(t) \/ Acquiring(t) \/ Trying(t)
  \/ RelStart(t) \/ RelRest(t) \/ Asking(t)

MMCSNext == \E t \in Threads : Step(t)

MMCSSpec == MMCSInit /\ [][MMCSNext]_mmcsVars

(* A thread inside an operation keeps running and an owner releases, as in *)
(* MCS.                                                                    *)
MMCSFairSpec ==
  /\ MMCSSpec
  /\ \A t \in Threads :
       WF_mmcsVars(Step(t) /\ (AcqSave(t) \/ RelTake(t) \/ Progress(t)))
-----------------------------------------------------------------------------
(* The field of the lock is the owner's own node from the store at the end *)
(* of its acquisition to the release, which hands that node back to its    *)
(* caller: an owner never releases on the node of a later one, nor with    *)
(* none, though the field is one plain word for all of them.               *)
OwnersContext ==
  \A t \in Threads :
    /\ place[t] = "saved" => cur_ctx = t
    /\ place[t] = "taken" => ctx[t] = t

(* An owner alone has a node in the lock. *)
PlacesOK ==
  /\ place \in [Threads -> {"out", "saved", "taken"}]
  /\ ctx \in [Threads -> Threads \cup {NULL}]
  /\ \A t \in Threads : place[t] # "out" => pc[t] = "cs"
=============================================================================
