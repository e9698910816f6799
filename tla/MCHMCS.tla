------------------------------- MODULE MCHMCS -------------------------------
(***************************************************************************)
(* HMCS for TLC: a tree of three levels, with two threads on one leaf and  *)
(* one on its sibling.  Cohorts of a leaf and of the inner hnode pass the  *)
(* lock along and meet their threshold; at the root the leader of the      *)
(* inner cohort meets those who took the fast path, so that a thread that  *)
(* waits at any level could be passed by for ever.                         *)
(***************************************************************************)
EXTENDS HMCS, TLC

CONSTANTS t1, t2, t3, root, inner, leafA, leafB

MCThreads == {t1, t2, t3}
MCHNodes == {root, inner, leafA, leafB}
MCLevels == 3
MCPath == t1 :> <<root, inner, leafA>> @@ t2 :> <<root, inner, leafA>>
          @@ t3 :> <<root, inner, leafB>>
MCThreshold == 2
=============================================================================
