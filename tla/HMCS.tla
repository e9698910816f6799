-------------------------------- MODULE HMCS --------------------------------
(***************************************************************************)
(* The hierarchical MCS lock of lock/zm_hmcs.c.  The hnodes are a tree; a  *)
(* thread queues at its leaf with its own queue node, the first in line    *)
(* there queues at the parent with the queue node of the leaf, and so on   *)
(* to the root.  Who releases hands the lock to its successor at its leaf, *)
(* with a count in the successor's status, until the count is Threshold or *)
(* there is no successor; then it releases the parent first, and tells its *)
(* successor, if one comes, to acquire the parent again.  A thread that    *)
(* finds leaf and root free goes to the root with its own queue node (the  *)
(* fast path).                                                             *)
(*                                                                         *)
(* Every load, store and read-modify-write of shared memory is one step;   *)
(* loads of a field that nobody can change meanwhile (one's own status     *)
(* once it is granted, one's own next once it is set) are not.  Levels are *)
(* numbered as in acquire_helper: 1 is the root, Levels the leaves.        *)
(*                                                                         *)
(* run is a history variable: the critical sections since the root queue   *)
(* last changed hands.                                                     *)
(***************************************************************************)
EXTENDS Integers, Sequences

CONSTANTS
  Threads, HNodes, NULL,
  Levels,
  Path,      \* the hnodes of each thread, from the root to its leaf
  Threshold  \* ZM_HMCS_THRESHOLD

(* A threshold of 0 is never met, and the counts of one beyond 0xcffffffc   *)
(* collide with ACQUIRE_PARENT; both are left out.                          *)
ASSUME HMCSAssumption ==
  /\ Levels \in Nat \ {0}
  /\ Path \in [Threads -> [1..Levels -> HNodes]]
  /\ \A s, t \in Threads : Path[s][1] = Path[t][1]
  /\ \A s, t \in Threads : \A k, l \in 1..Levels : Path[s][k] = Path[t][l] =>
       k = l /\ \A j \in 1..l : Path[s][j] = Path[t][j]
  /\ Threshold \in Nat \ {0}
  /\ Threads \cap HNodes = {}
  /\ NULL \notin Threads \cup HNodes

VARIABLES
  lock,          \* the tail pointer of each hnode
  next, status,  \* the queue nodes of threads and hnodes
  fast,          \* took_fast_path of each thread's leaf
  pc, level,     \* where each thread is
  pred,          \* local of acquire_root and acquire_helper
  answer,        \* the owner's last zm_hmcs_nowaiters
  run            \* history

vars == <<lock, next, status, fast, pc, level, pred, answer, run>>

QNodes == Threads \cup HNodes
WAIT == -1
ACQUIRE_PARENT == -2
COHORT_START == 1

(* The hnode a thread is at, and the queue node it brings there. *)
L(t) == Path[t][level[t]]
I(t) == IF fast[t] \/ level[t] = Levels THEN t ELSE Path[t][level[t] + 1]

(* new_lock, which leaves the queue nodes uninitialised.  What a node holds *)
(* before its first use and between two uses is dead, reuse_qnode stores to *)
(* it first; it is represented by one value that would mislead a reader: a  *)
(* successor and the order to acquire the parent.                           *)
Init ==
  /\ lock = [h \in HNodes |-> NULL]
  /\ next = [n \in QNodes |-> n]
  /\ status = [n \in QNodes |-> ACQUIRE_PARENT]
  /\ fast = [t \in Threads |-> FALSE]
  /\ pc = [t \in Threads |-> "idle"]
  /\ level = [t \in Threads |-> Levels]
  /\ pred = [t \in Threads |-> NULL]
  /\ answer = [t \in Threads |-> "none"]
  /\ run = 0

Forget(n) ==
  /\ status' = [status EXCEPT ![n] = ACQUIRE_PARENT]
  /\ next' = [next EXCEPT ![n] = n]

Goto(t, label) == pc' = [pc EXCEPT ![t] = label]
At(t, from, to) == pc[t] = from /\ Goto(t, to)
SetLevel(t, l) == level' = [level EXCEPT ![t] = l]
-----------------------------------------------------------------------------
(* acquire_from_leaf and tryacq_from_leaf read the lock of the leaf... *)
LookAtLeaf(t) ==
  /\ pc[t] = "idle"
  /\ \/ Goto(t, IF lock[Path[t][Levels]] = NULL THEN "a_look" ELSE "a_reuse")
     \/ Goto(t, IF lock[Path[t][Levels]] = NULL THEN "t_look" ELSE "idle")
  /\ UNCHANGED <<lock, next, status, fast, level, pred, answer, run>>

(* ...and that of the root. *)
LookAtRoot(t) ==
  /\ pc[t] = "a_look"
  /\ \/ /\ lock[Path[t][1]] = NULL
        /\ fast' = [fast EXCEPT ![t] = TRUE]
        /\ SetLevel(t, 1)
     \/ /\ lock[Path[t][1]] # NULL
        /\ UNCHANGED <<fast, level>>
  /\ Goto(t, "a_reuse")
  /\ UNCHANGED <<lock, next, status, pred, answer, run>>

TryLookAtRoot(t) ==
  /\ pc[t] = "t_look"
  /\ Goto(t, IF lock[Path[t][1]] = NULL THEN "t_reuse" ELSE "idle")
  /\ UNCHANGED <<lock, next, status, fast, level, pred, answer, run>>

(* reuse_qnode, on a node that nobody else can reach yet. *)
Reuse(n) ==
  /\ status' = [status EXCEPT ![n] = WAIT]
  /\ next' = [next EXCEPT ![n] = NULL]

TryReuse(t) ==
  /\ At(t, "t_reuse", "t_cas")
  /\ Reuse(t)
  /\ UNCHANGED <<lock, fast, level, pred, answer, run>>

(* tryacq_root *)
TryCAS(t) ==
  /\ pc[t] = "t_cas"
  /\ \/ /\ lock[Path[t][1]] = NULL
        /\ lock' = [lock EXCEPT ![Path[t][1]] = t]
        /\ fast' = [fast EXCEPT ![t] = TRUE]
        /\ SetLevel(t, 1)
        /\ run' = 1
        /\ Goto(t, "cs")
        /\ UNCHANGED <<next, status>>
     \/ /\ lock[Path[t][1]] # NULL
        /\ Forget(t)
        /\ Goto(t, "idle")
        /\ UNCHANGED <<lock, fast, level, run>>
  /\ UNCHANGED <<pred, answer>>
-----------------------------------------------------------------------------
(* acquire_root and acquire_helper *)
AcqReuse(t) ==
  /\ At(t, "a_reuse", "a_swap")
  /\ Reuse(I(t))
  /\ UNCHANGED <<lock, fast, level, pred, answer, run>>

(* The first at the root owns the lock, the first elsewhere starts a cohort. *)
AcqSwap(t) ==
  /\ pc[t] = "a_swap"
  /\ pred' = [pred EXCEPT ![t] = lock[L(t)]]
  /\ lock' = [lock EXCEPT ![L(t)] = I(t)]
  /\ Goto(t, IF pred'[t] # NULL THEN "a_link"
             ELSE IF level[t] = 1 THEN "cs" ELSE "a_start")
  /\ run' = IF pred'[t] = NULL /\ level[t] = 1 THEN 1 ELSE run
  /\ UNCHANGED <<next, status, fast, level, answer>>

AcqLink(t) ==
  /\ At(t, "a_link", "a_spin")
  /\ next' = [next EXCEPT ![pred[t]] = I(t)]
  /\ pred' = [pred EXCEPT ![t] = NULL]
  /\ UNCHANGED <<lock, status, fast, level, answer, run>>

(* The end of the spin: the lock, from the predecessor at this level, or   *)
(* the place of the first at this level.                                   *)
AcqSpin(t) ==
  /\ pc[t] = "a_spin"
  /\ status[I(t)] # WAIT
  /\ \/ /\ level[t] = 1
        /\ run' = 1
        /\ Goto(t, "cs")
     \/ /\ level[t] > 1 /\ status[I(t)] # ACQUIRE_PARENT
        /\ run' = run + 1
        /\ Goto(t, "cs")
     \/ /\ level[t] > 1 /\ status[I(t)] = ACQUIRE_PARENT
        /\ Goto(t, "a_start")
        /\ UNCHANGED run
  /\ UNCHANGED <<lock, next, status, fast, level, pred, answer>>

AcqStart(t) ==
  /\ At(t, "a_start", "a_reuse")
  /\ status' = [status EXCEPT ![I(t)] = COHORT_START]
  /\ SetLevel(t, level[t] - 1)
  /\ UNCHANGED <<lock, next, fast, pred, answer, run>>
-----------------------------------------------------------------------------
(* release_from_leaf *)
RelBegin(t) ==
  /\ pc[t] = "cs"
  /\ Goto(t, IF fast[t] THEN "m_next" ELSE "r_test")
  /\ SetLevel(t, IF fast[t] THEN 1 ELSE Levels)
  /\ answer' = [answer EXCEPT ![t] = "none"]
  /\ UNCHANGED <<lock, next, status, fast, pred, run>>

(* The successor told to acquire the parent before the parent is released. *)
RelTestTapFirst(t) ==
  /\ pc[t] = "r_test"
  /\ \/ level[t] = 1 /\ Goto(t, "m_next") /\ UNCHANGED <<status, level>>
     \/ /\ level[t] > 1 /\ status[I(t)] = Threshold
        /\ SetLevel(t, level[t] - 1)
        /\ status' = [n \in QNodes |->
             IF n = next[I(t)] THEN ACQUIRE_PARENT ELSE status[n]]
        /\ UNCHANGED pc
     \/ /\ level[t] > 1 /\ status[I(t)] # Threshold
        /\ Goto(t, "r_next")
        /\ UNCHANGED <<status, level>>
  /\ UNCHANGED <<lock, next, fast, pred, answer, run>>

(* release_helper: at the root, at the threshold, or neither. *)
RelTest(t) ==
  /\ pc[t] = "r_test"
  /\ \/ level[t] = 1 /\ Goto(t, "m_next") /\ UNCHANGED level
     \/ /\ level[t] > 1 /\ status[I(t)] = Threshold
        /\ SetLevel(t, level[t] - 1)
        /\ UNCHANGED pc
     \/ /\ level[t] > 1 /\ status[I(t)] # Threshold
        /\ Goto(t, "r_next")
        /\ UNCHANGED level
  /\ UNCHANGED <<lock, next, status, fast, pred, answer, run>>

RelNext(t) ==
  /\ pc[t] = "r_next"
  /\ \/ next[I(t)] # NULL /\ Goto(t, "r_pass") /\ UNCHANGED level
     \/ next[I(t)] = NULL /\ Goto(t, "r_test") /\ SetLevel(t, level[t] - 1)
  /\ UNCHANGED <<lock, next, status, fast, pred, answer, run>>

(* The end of release_helper at one level: the release goes on at the      *)
(* level below, with normal_mcs_release_with_value.                        *)
Unwind(t) ==
  \/ /\ fast[t] \/ level[t] = Levels
     /\ Goto(t, "idle")
     /\ fast' = [fast EXCEPT ![t] = FALSE]
     /\ SetLevel(t, Levels)
  \/ /\ ~ fast[t] /\ level[t] < Levels
     /\ Goto(t, "m_next")
     /\ SetLevel(t, level[t] + 1)
     /\ UNCHANGED fast

(* The store to the status of the successor. *)
Grant(t, value) ==
  /\ status' = [status EXCEPT ![next[I(t)]] = value, ![I(t)] = ACQUIRE_PARENT]
  /\ next' = [next EXCEPT ![I(t)] = I(t)]
  /\ Unwind(t)
  /\ UNCHANGED <<lock, pred, answer, run>>

(* The count handed on as it is. *)
RelPassSame(t) == pc[t] = "r_pass" /\ Grant(t, status[I(t)])

RelPass(t) == pc[t] = "r_pass" /\ Grant(t, status[I(t)] + 1)

(* normal_mcs_release_with_value *)
MNext(t) ==
  /\ pc[t] = "m_next"
  /\ Goto(t, IF next[I(t)] # NULL THEN "m_store" ELSE "m_cas")
  /\ UNCHANGED <<lock, next, status, fast, level, pred, answer, run>>

(* A failed compare-and-swap taken for a successful one. *)
MCASNoWait(t) ==
  /\ pc[t] = "m_cas"
  /\ lock' = [lock EXCEPT ![L(t)] = IF @ = I(t) THEN NULL ELSE @]
  /\ Forget(I(t))
  /\ Unwind(t)
  /\ UNCHANGED <<pred, answer, run>>

MCAS(t) ==
  /\ pc[t] = "m_cas"
  /\ \/ /\ lock[L(t)] = I(t)
        /\ lock' = [lock EXCEPT ![L(t)] = NULL]
        /\ Forget(I(t))
        /\ Unwind(t)
     \/ /\ lock[L(t)] # I(t)
        /\ Goto(t, "m_wait")
        /\ UNCHANGED <<lock, next, status, fast, level>>
  /\ UNCHANGED <<pred, answer, run>>

MWait(t) ==
  /\ At(t, "m_wait", "m_store")
  /\ next[I(t)] # NULL
  /\ UNCHANGED <<lock, next, status, fast, level, pred, answer, run>>

(* A leaf released as the root is. *)
MStoreStart(t) == pc[t] = "m_store" /\ Grant(t, COHORT_START)

MStore(t) ==
  /\ pc[t] = "m_store"
  /\ Grant(t, IF level[t] = 1 THEN COHORT_START ELSE ACQUIRE_PARENT)
-----------------------------------------------------------------------------
(* nowaiters_from_leaf, called by the owner (zm_tlp.c, zm_hmpr.c): one load *)
(* at each level, from the leaf on, until a successor is found.             *)
NowaitersBegin(t) ==
  /\ At(t, "cs", "n_next")
  /\ SetLevel(t, IF fast[t] THEN 1 ELSE Levels)
  /\ UNCHANGED <<lock, next, status, fast, pred, answer, run>>

(* A fast path that looks at the queue node of the leaf. *)
SuccessorLeaf(t) == next[IF fast[t] THEN Path[t][Levels] ELSE I(t)]
Successor(t) == next[I(t)]

NowaitersNext(t) ==
  /\ pc[t] = "n_next"
  /\ \/ /\ Successor(t) # NULL
        /\ answer' = [answer EXCEPT ![t] = "waiters"]
        /\ Goto(t, "cs")
        /\ UNCHANGED level
     \/ /\ Successor(t) = NULL /\ level[t] = 1
        /\ answer' = [answer EXCEPT ![t] = "alone"]
        /\ Goto(t, "cs")
        /\ UNCHANGED level
     \/ /\ Successor(t) = NULL /\ level[t] > 1
        /\ SetLevel(t, level[t] - 1)
        /\ UNCHANGED <<pc, answer>>
  /\ UNCHANGED <<lock, next, status, fast, pred, run>>
-----------------------------------------------------------------------------
(* What a thread does once it called zm_hmcs_acquire, _tryacq, _release or *)
(* _nowaiters.                                                             *)
Inside(t) ==
  \/ LookAtRoot(t) \/ TryLookAtRoot(t) \/ TryReuse(t) \/ TryCAS(t)
  \/ AcqReuse(t) \/ AcqSwap(t) \/ AcqLink(t) \/ AcqSpin(t) \/ AcqStart(t)
  \/ RelTest(t) \/ RelNext(t) \/ RelPass(t)
  \/ MNext(t) \/ MCAS(t) \/ MWait(t) \/ MStore(t)
  \/ NowaitersNext(t)

Next ==
  \E t \in Threads :
    LookAtLeaf(t) \/ Inside(t) \/ RelBegin(t) \/ NowaitersBegin(t)

Spec == Init /\ [][Next]_vars

(* A thread inside an operation keeps running, and an owner releases the   *)
(* lock, however often it calls zm_hmcs_nowaiters before.                  *)
FairSpec ==
  Spec /\ \A t \in Threads : WF_vars(Inside(t)) /\ SF_vars(RelBegin(t))
-----------------------------------------------------------------------------
Owner(t) == pc[t] \in {"cs", "n_next"}

(* t is at one of the levels, on its way up or down. *)
Queueing(t) ==
  pc[t] \in {"a_reuse", "a_swap", "a_link", "a_spin", "a_start", "r_test",
            "r_next", "r_pass", "m_next", "m_cas", "m_wait", "m_store"}

TypeOK ==
  /\ lock \in [HNodes -> QNodes \cup {NULL}]
  /\ next \in [QNodes -> QNodes \cup {NULL}]
  /\ status \in [QNodes -> {WAIT, ACQUIRE_PARENT} \cup 1..Threshold]
  /\ fast \in [Threads -> BOOLEAN]
  /\ pc \in [Threads -> {"idle", "a_look", "t_look", "t_reuse", "t_cas",
               "a_reuse", "a_swap", "a_link", "a_spin", "a_start", "cs",
               "n_next", "r_test", "r_next", "r_pass", "m_next", "m_cas",
               "m_wait", "m_store"}]
  /\ level \in [Threads -> 1..Levels]
  /\ pred \in [Threads -> QNodes \cup {NULL}]
  /\ answer \in [Threads -> {"none", "alone", "waiters"}]
  /\ run \in Nat

(* Two threads never own the lock at once, whichever of their leaves, the  *)
(* fast path and the root they came through.                               *)
MutualExclusion ==
  \A s, t \in Threads : Owner(s) /\ Owner(t) => s = t

(* The queue node of an hnode serves one thread at a time: the next leader *)
(* of a cohort uses it again only after the last one has done with it.  No *)
(* variable leaves its type, which bounds the counts.                      *)
NodeExclusive ==
  /\ TypeOK
  /\ \A s, t \in Threads :
       s # t /\ Queueing(s) /\ Queueing(t) => I(s) # I(t)

(* Threshold to the power of k. *)
Passes[k \in 0..Levels - 1] == IF k = 0 THEN 1 ELSE Threshold * Passes[k - 1]

(* A cohort hands the lock on among its own a bounded number of times: at  *)
(* most Threshold at every level below the root before the root queue gets *)
(* its turn.                                                               *)
BoundedPassing == run <= Passes[Levels - 1]

(* The queue node that a thread t has in the queue of its hnode of level l.*)
Node(t, l) == IF fast[t] \/ l = Levels THEN t ELSE Path[t][l + 1]

Spins(t, h, n) == pc[t] = "a_spin" /\ L(t) = h /\ I(t) = n /\ status[n] = WAIT

(* A zm_hmcs_nowaiters that answers 0 is right until the release: at some  *)
(* level at which the owner is in a queue, another thread spins in the     *)
(* same queue, on the node that is linked behind the owner's.              *)
WaitersStay ==
  \A t \in Threads : answer[t] = "waiters" =>
    \E s \in Threads \ {t}, l \in 1..Levels :
      /\ l = 1 \/ ~ fast[t]
      /\ Spins(s, Path[t][l], next[Node(t, l)])

(* A thread that called zm_hmcs_acquire eventually owns the lock.          *)
StarvationFree ==
  \A t \in Threads : pc[t] = "a_reuse" ~> pc[t] = "cs"
-----------------------------------------------------------------------------
(* The inductive invariant.  A thread holds the hnodes below the level at  *)
(* which it queues on its way up, all of them while it owns the lock or    *)
(* looks for the level at which to pass it on, and those it has still to   *)
(* release on its way down.                                                *)
Releasing == {"m_next", "m_cas", "m_wait", "m_store"}

Holds(t, l) ==
  /\ l = 1 \/ ~ fast[t]
  /\ \/ pc[t] \in {"cs", "n_next", "r_test", "r_next", "r_pass"}
     \/ pc[t] \in {"a_reuse", "a_swap", "a_link", "a_spin"} /\ l > level[t]
     \/ pc[t] \in {"a_start"} \cup Releasing /\ l >= level[t]
     \/ /\ pc[t] = "a_spin" /\ status[I(t)] # WAIT
        /\ status[I(t)] = ACQUIRE_PARENT => l >= level[t]

Waits(t, l) ==
  /\ l = level[t]
  /\ \/ pc[t] = "a_link"
     \/ pc[t] = "a_spin" /\ status[I(t)] = WAIT

Prepares(t, l) ==
  pc[t] \in {"t_reuse", "t_cas", "a_reuse", "a_swap"} /\ l = level[t]

InLine(t, l) == Holds(t, l) \/ Waits(t, l)
Uses(t, l) == InLine(t, l) \/ Prepares(t, l)

(* The queue node n is in the queue of the hnode h. *)
InUse(h, n) ==
  \E t \in Threads, l \in 1..Levels :
    InLine(t, l) /\ Path[t][l] = h /\ Node(t, l) = n

Linking(t, h, n) == pc[t] = "a_link" /\ L(t) = h /\ pred[t] = n

PlaceOK(t) ==
  /\ pc[t] \in {"idle", "a_look", "t_look", "t_reuse", "t_cas"} =>
       level[t] = Levels /\ ~ fast[t]
  /\ pc[t] \in {"a_reuse", "a_swap", "a_link", "a_spin", "n_next"} \cup Releasing =>
       (fast[t] => level[t] = 1)
  /\ pc[t] \in {"a_start", "r_next", "r_pass"} => level[t] > 1 /\ ~ fast[t]
  /\ pc[t] = "r_test" => ~ fast[t]
  /\ pc[t] \in {"r_next", "r_pass"} => status[I(t)] # Threshold
  /\ pc[t] \in {"a_swap", "t_cas"} => status[I(t)] = WAIT /\ next[I(t)] = NULL
  /\ pc[t] = "a_link" => status[I(t)] = WAIT
  /\ pc[t] \in {"r_pass", "m_store"} => next[I(t)] # NULL
  /\ answer[t] = "waiters" =>
       /\ pc[t] \in {"cs", "n_next"}
       /\ \E l \in 1..Levels : (l = 1 \/ ~ fast[t]) /\ next[Node(t, l)] # NULL

(* The leader of a cohort counts in the node of its hnode.                 *)
CountOK(t) ==
  \A l \in 2..Levels :
    Holds(t, l) =>
      \/ pc[t] \in Releasing
      \/ /\ l = level[t]
         /\ \/ pc[t] = "a_start"
            \/ pc[t] = "a_spin" /\ status[I(t)] = ACQUIRE_PARENT
      \/ status[Node(t, l)] \in 1..Threshold

HoldersOK ==
  \A s, t \in Threads : \A l \in 1..Levels :
    Holds(s, l) /\ Holds(t, l) /\ Path[s][l] = Path[t][l] => s = t

(* A node is linked to by one other at most, and then its thread waits.    *)
LinksOK ==
  /\ \A h \in HNodes, m, n \in QNodes :
       InUse(h, m) /\ next[m] = n => \E t \in Threads : Spins(t, h, n)
  /\ \A h, k \in HNodes, l, m, n \in QNodes :
       InUse(h, l) /\ InUse(k, m) /\ next[l] = n /\ next[m] = n => l = m
  /\ \A t \in Threads, h \in HNodes : \A n \in QNodes \cup {NULL} :
       Linking(t, h, n) =>
         n \in QNodes /\ InUse(h, n) /\ next[n] = NULL /\ lock[h] # n
  /\ \A s, t \in Threads, h, k \in HNodes, n \in QNodes :
       Linking(s, h, n) /\ Linking(t, k, n) => s = t

TailOK ==
  /\ \A h \in HNodes, n \in QNodes :
       lock[h] = n => InUse(h, n) /\ next[n] = NULL
  /\ \A h \in HNodes : lock[h] = NULL =>
       \A t \in Threads, l \in 1..Levels : Holds(t, l) => Path[t][l] # h

IInv ==
  /\ TypeOK /\ HoldersOK /\ LinksOK /\ TailOK
  /\ \A t \in Threads : PlaceOK(t) /\ CountOK(t)

(* The run is counted like a number with the digits status[Node(t, l)] of  *)
(* its owner, or of the one that is about to own the lock: at level l,     *)
(* past[l] turns of the hnode there are over since the root changed hands. *)
Counting(t) ==
  /\ ~ fast[t]
  /\ \/ pc[t] \in {"cs", "n_next", "r_test", "r_next", "r_pass"}
     \/ pc[t] = "a_spin" /\ level[t] > 1 /\ status[I(t)] \notin {WAIT, ACQUIRE_PARENT}

Counted(t, past) ==
  /\ past[1] = 0
  /\ \A l \in 2..Levels : past[l] + 1 <= Threshold * past[l - 1] + status[Node(t, l)]
  /\ (IF pc[t] = "a_spin" THEN run + 1 ELSE run) <= past[Levels] + 1

RunOK ==
  \A t \in Threads : Counting(t) => \E past \in [1..Levels -> Nat] : Counted(t, past)

RunInv == IInv /\ BoundedPassing /\ RunOK
=============================================================================
