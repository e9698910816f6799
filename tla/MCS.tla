-------------------------------- MODULE MCS --------------------------------
(***************************************************************************)
(* The MCS queue lock of lock/zm_mcs.c.  Every atomic instruction is one   *)
(* step; a spin loop is the action that leaves it.  A thread brings one    *)
(* queue node to the lock, its own (local_nodes[tid] in the context-less   *)
(* calls, the argument I in the _c calls), so nodes are named after their  *)
(* threads.                                                                *)
(*                                                                         *)
(* queue is a history variable: the threads in the order of their exchange *)
(* on the tail pointer, up to the instruction of the release that gives    *)
(* the lock away.                                                          *)
(***************************************************************************)
EXTENDS Naturals, Sequences

CONSTANTS Threads, NULL

ASSUME MCSAssumption == NULL \notin Threads

VARIABLES
  lock,          \* struct zm_mcs: the last node of the queue
  next, status,  \* the fields of every thread's zm_mcs_qnode_t
  pc, pred,      \* where each thread is, and its local of acquire_c
  answer,        \* the holder's last zm_mcs_nowaiters
  queue          \* history

vars == <<lock, next, status, pc, pred, answer, queue>>

Status == {"LOCKED", "UNLOCKED"}
Releasing == {"rel_cas", "rel_wait", "rel_unlock"}
Inside == {"cs"} \cup Releasing
Linking == {"locked", "link"}
Queued == Linking \cup {"spin"} \cup Inside
Outside == {"idle", "swap", "try_cas"}

Goto(t, label) == pc' = [pc EXCEPT ![t] = label]

(* The nodes come from posix_memalign or from the caller's stack: their    *)
(* fields hold anything.                                                   *)
Init ==
  /\ lock = NULL
  /\ next \in [Threads -> Threads \cup {NULL}]
  /\ status \in [Threads -> Status]
  /\ pc = [t \in Threads |-> "idle"]
  /\ pred = [t \in Threads |-> NULL]
  /\ answer = [t \in Threads |-> "none"]
  /\ queue = << >>

(* acquire_c: I->next = NULL *)
AcqInit(t) ==
  /\ pc[t] = "idle"
  /\ next' = [next EXCEPT ![t] = NULL]
  /\ Goto(t, "swap")
  /\ UNCHANGED <<lock, status, pred, answer, queue>>

(* The exchange on the tail pointer; without a predecessor the lock is ours. *)
AcqSwap(t) ==
  /\ pc[t] = "swap"
  /\ pred' = [pred EXCEPT ![t] = lock]
  /\ lock' = t
  /\ queue' = Append(queue, t)
  /\ Goto(t, IF lock = NULL THEN "cs" ELSE "locked")
  /\ UNCHANGED <<next, status, answer>>

(* A waiter that trusts the status its node was left with. *)
AcqLockedForgotten(t) ==
  /\ pc[t] = "locked"
  /\ Goto(t, "link")
  /\ UNCHANGED <<lock, next, status, pred, answer, queue>>

AcqLocked(t) ==
  /\ pc[t] = "locked"
  /\ status' = [status EXCEPT ![t] = "LOCKED"]
  /\ Goto(t, "link")
  /\ UNCHANGED <<lock, next, pred, answer, queue>>

(* pred->next = I *)
AcqLink(t) ==
  /\ pc[t] = "link"
  /\ next' = [next EXCEPT ![pred[t]] = t]
  /\ Goto(t, "spin")
  /\ UNCHANGED <<lock, status, pred, answer, queue>>

AcqSpin(t) ==
  /\ pc[t] = "spin"
  /\ status[t] = "UNLOCKED"
  /\ Goto(t, "cs")
  /\ UNCHANGED <<lock, next, status, pred, answer, queue>>

(* tryacq_c: I->next = NULL, then the compare-and-swap. *)
TryInit(t) ==
  /\ pc[t] = "idle"
  /\ next' = [next EXCEPT ![t] = NULL]
  /\ Goto(t, "try_cas")
  /\ UNCHANGED <<lock, status, pred, answer, queue>>

TryCAS(t) ==
  /\ pc[t] = "try_cas"
  /\ \/ /\ lock = NULL
        /\ lock' = t
        /\ queue' = Append(queue, t)
        /\ Goto(t, "cs")
     \/ /\ lock # NULL
        /\ Goto(t, "idle")
        /\ UNCHANGED <<lock, queue>>
  /\ UNCHANGED <<next, status, pred, answer>>

(* release_c: the first load of I->next *)
RelLoad(t) ==
  /\ pc[t] = "cs"
  /\ answer' = [answer EXCEPT ![t] = "none"]
  /\ Goto(t, IF next[t] = NULL THEN "rel_cas" ELSE "rel_unlock")
  /\ UNCHANGED <<lock, next, status, pred, queue>>

(* A store in the place of the compare-and-swap: the tail is dropped with  *)
(* a waiter behind it.                                                     *)
RelCASByStore(t) ==
  /\ pc[t] = "rel_cas"
  /\ lock' = NULL
  /\ queue' = Tail(queue)
  /\ Goto(t, "idle")
  /\ UNCHANGED <<next, status, pred, answer>>

(* A failed compare-and-swap taken to mean that the successor is linked. *)
RelCASNoWait(t) ==
  /\ pc[t] = "rel_cas"
  /\ \/ /\ lock = t
        /\ lock' = NULL
        /\ queue' = Tail(queue)
        /\ Goto(t, "idle")
     \/ /\ lock # t
        /\ Goto(t, "rel_unlock")
        /\ UNCHANGED <<lock, queue>>
  /\ UNCHANGED <<next, status, pred, answer>>

(* The compare-and-swap of the tail back to NULL; it fails when a          *)
(* successor has exchanged the tail and not linked itself yet.             *)
RelCAS(t) ==
  /\ pc[t] = "rel_cas"
  /\ \/ /\ lock = t
        /\ lock' = NULL
        /\ queue' = Tail(queue)
        /\ Goto(t, "idle")
     \/ /\ lock # t
        /\ Goto(t, "rel_wait")
        /\ UNCHANGED <<lock, queue>>
  /\ UNCHANGED <<next, status, pred, answer>>

RelWait(t) ==
  /\ pc[t] = "rel_wait"
  /\ next[t] # NULL
  /\ Goto(t, "rel_unlock")
  /\ UNCHANGED <<lock, next, status, pred, answer, queue>>

(* The releaser hands the lock to the thread it saw last in the queue. *)
RelUnlockLast(t) ==
  /\ pc[t] = "rel_unlock"
  /\ status' = [status EXCEPT ![lock] = "UNLOCKED"]
  /\ queue' = Tail(queue)
  /\ Goto(t, "idle")
  /\ UNCHANGED <<lock, next, pred, answer>>

(* I->next->status = UNLOCKED.  The load of I->next is not a step of its   *)
(* own: nobody stores to it once it is set and until the node is reused.   *)
RelUnlock(t) ==
  /\ pc[t] = "rel_unlock"
  /\ status' = [status EXCEPT ![next[t]] = "UNLOCKED"]
  /\ queue' = Tail(queue)
  /\ Goto(t, "idle")
  /\ UNCHANGED <<lock, next, pred, answer>>

(* The test of nowaiters_c. *)
Alone(t) == next[t] = NULL

(* zm_mcs_nowaiters, called by the owner (zm_mcsp.c, zm_tlp.c). *)
Nowaiters(t) ==
  /\ pc[t] = "cs"
  /\ answer' = [answer EXCEPT ![t] = IF Alone(t) THEN "alone" ELSE "waiters"]
  /\ UNCHANGED <<lock, next, status, pc, pred, queue>>

Next ==
  \E t \in Threads :
    \/ AcqInit(t) \/ AcqSwap(t) \/ AcqLocked(t) \/ AcqLink(t) \/ AcqSpin(t)
    \/ TryInit(t) \/ TryCAS(t)
    \/ RelLoad(t) \/ RelCAS(t) \/ RelWait(t) \/ RelUnlock(t)
    \/ Nowaiters(t)

Spec == Init /\ [][Next]_vars

(* A thread inside an operation keeps running, and the owner eventually    *)
(* releases; nobody is obliged to start an operation.                      *)
Progress(t) ==
  \/ AcqSwap(t) \/ AcqLocked(t) \/ AcqLink(t) \/ AcqSpin(t) \/ TryCAS(t)
  \/ RelLoad(t) \/ RelCAS(t) \/ RelWait(t) \/ RelUnlock(t)

FairSpec == Spec /\ \A t \in Threads : WF_vars(Progress(t))
-----------------------------------------------------------------------------
TypeOK ==
  /\ lock \in Threads \cup {NULL}
  /\ next \in [Threads -> Threads \cup {NULL}]
  /\ status \in [Threads -> Status]
  /\ pc \in [Threads -> Outside \cup Queued]
  /\ pred \in [Threads -> Threads \cup {NULL}]
  /\ answer \in [Threads -> {"none", "alone", "waiters"}]
  /\ queue \in Seq(Threads)

(* Two threads are never both between the end of an acquisition and the    *)
(* instruction of zm_mcs_release that gives the lock away.                 *)
MutualExclusion ==
  \A s, t \in Threads : pc[s] \in Inside /\ pc[t] \in Inside => s = t

(* A thread stores into another thread's node only while that thread is    *)
(* inside the operation that keeps the node alive: the predecessor it      *)
(* links to has not returned from its release, and the successor it        *)
(* unlocks exists and is spinning.  A node of the context-full calls may   *)
(* be on the stack of its caller.                                          *)
NodesAlive ==
  \A t \in Threads :
    /\ pc[t] = "link" => pred[t] # NULL /\ pc[pred[t]] \in Queued
    /\ pc[t] = "rel_unlock" => next[t] # NULL /\ pc[next[t]] = "spin"

(* A zm_mcs_nowaiters that answers 0 is right until the release: a linked  *)
(* successor never leaves the queue.                                       *)
WaitersStay ==
  \A t \in Threads : answer[t] = "waiters" => Len(queue) >= 2

(* The queue that the exchanges built: its threads are those between their *)
(* exchange and the end of their release, the tail pointer is its last     *)
(* node, and all but the first are waiting.                                *)
QueueOK ==
  /\ \A i, j \in 1..Len(queue) : queue[i] = queue[j] => i = j
  /\ \A t \in Threads :
       pc[t] \in Queued <=> \E i \in 1..Len(queue) : queue[i] = t
  /\ lock = IF queue = << >> THEN NULL ELSE queue[Len(queue)]
  /\ \A i \in 2..Len(queue) : pc[queue[i]] \in Linking \cup {"spin"}

(* The links follow the queue, each from the moment its successor stored   *)
(* it; a waiter that is linked is locked until it is the first.            *)
LinksOK ==
  /\ \A i \in 1..Len(queue) : i > 1 =>
       /\ pc[queue[i]] \in Linking => pred[queue[i]] = queue[i-1]
       /\ next[queue[i-1]] = IF pc[queue[i]] \in Linking THEN NULL ELSE queue[i]
       /\ pc[queue[i]] \in {"link", "spin"} => status[queue[i]] = "LOCKED"
  /\ queue # << >> =>
       /\ next[queue[Len(queue)]] = NULL
       /\ pc[queue[1]] \in Inside \cup {"spin"}
       /\ pc[queue[1]] = "spin" => status[queue[1]] = "UNLOCKED"
  /\ \A t \in Threads :
       /\ pc[t] \in {"swap", "try_cas"} => next[t] = NULL
       /\ pc[t] = "rel_unlock" => next[t] # NULL
       /\ pc[t] = "rel_wait" => Len(queue) > 1

AnswerOK ==
  \A t \in Threads :
    /\ answer[t] # "none" => pc[t] = "cs"
    /\ answer[t] = "waiters" => Len(queue) > 1

(* The inductive invariant of the MCS lock: mutual exclusion rests on the  *)
(* shape of the queue, which is never in memory as a whole.                *)
IInv == TypeOK /\ QueueOK /\ LinksOK /\ AnswerOK

(* The MCS lock is a FIFO lock: threads own it in the order of their       *)
(* exchange, one at a time.                                                *)
FIFO == INSTANCE FifoLock WITH
          holders <- {t \in Threads : pc[t] \in Inside}

FifoOrder == FIFO!Spec

(* A thread that exchanged the tail pointer eventually owns the lock. *)
StarvationFree ==
  \A t \in Threads : pc[t] \in Linking \cup {"spin"} ~> pc[t] = "cs"
=============================================================================
