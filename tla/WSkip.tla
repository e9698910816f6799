------------------------------- MODULE WSkip -------------------------------
(***************************************************************************)
(* The wait-skip list of cond/zm_wskip.c: a line of queue nodes.  The      *)
(* first goes through with WAKE in its status, the others wait until a     *)
(* wake gives it to them.  zm_wskip_skip marks a waiting node; the next    *)
(* wake does not stop at it, but takes it out of the line with the first   *)
(* one: it turns the links of the nodes it passes around, and on the way   *)
(* back sets each to RECYCLE, which lets its thread go and its node be     *)
(* used again.                                                             *)
(*                                                                         *)
(* The operations of a thread, one action per atomic instruction; when a   *)
(* thread calls which, at pc, is up to the module that extends this one.   *)
(***************************************************************************)
EXTENDS Priority, Naturals, FiniteSets

CONSTANTS NULL,
  Nodes    \* queue nodes: one per thread, named after it, and others

ASSUME WSkipAssumption == Threads \subseteq Nodes /\ NULL \notin Nodes

VARIABLES
  lock,          \* the tail of the line
  next, status,  \* zm_mcs_qnode
  wpc,           \* the place of each thread in an operation
  node,          \* the argument I
  waits,         \* whether it is zm_wskip_wait that called enq
  pred, cur, succ  \* locals of enq and wake: pred and rev, cur_node, next

wskipVars == <<lock, next, status, wpc, node, waits, pred, cur, succ>>

Status == {"WAIT", "WAKE", "SKIP", "RECYCLE", "CHECK"}

(* new_wskip, which leaves the links uninitialised: any use before a store *)
(* would find a node linked to itself.  A node that is not one of the      *)
(* list's own is what its owner left it.                                   *)
WSkipInit(foreign) ==
  /\ lock = NULL
  /\ next = [n \in Nodes |-> n]
  /\ status = [n \in Nodes |-> IF n \in Threads THEN "RECYCLE" ELSE foreign]
  /\ wpc = [t \in Threads |-> "out"]
  /\ node = [t \in Threads |-> NULL]
  /\ waits = [t \in Threads |-> FALSE]
  /\ pred = [t \in Threads |-> NULL]
  /\ cur = [t \in Threads |-> NULL]
  /\ succ = [t \in Threads |-> NULL]

Out(t) == wpc[t] = "out"
WGoto(t, label) == wpc' = [wpc EXCEPT ![t] = label]
WAt(t, from, to) == wpc[t] = from /\ WGoto(t, to)
SetStatus(n, s) == status' = [status EXCEPT ![n] = s]
SetNext(n, m) == next' = [next EXCEPT ![n] = m]

(* The call of an operation on node n. *)
Call(t, n, label, waiting) ==
  /\ wpc[t] = "out"
  /\ WGoto(t, label)
  /\ node' = [node EXCEPT ![t] = n]
  /\ waits' = [waits EXCEPT ![t] = waiting]
  /\ UNCHANGED <<lock, next, status, pred, cur, succ>>

CallWait(t) == Call(t, t, "e_status", TRUE)
CallEnq(t, n) == Call(t, n, "e_status", FALSE)
CallWake(t, n) == Call(t, n, "k_try", FALSE)

(* The return from an operation, whose locals are gone. *)
Return(t) ==
  /\ WGoto(t, "out")
  /\ node' = [node EXCEPT ![t] = NULL]
  /\ waits' = [waits EXCEPT ![t] = FALSE]
  /\ pred' = [pred EXCEPT ![t] = NULL]
  /\ cur' = [cur EXCEPT ![t] = NULL]
  /\ succ' = [succ EXCEPT ![t] = NULL]

(* The end of enq with *wait set: zm_wskip_wait waits in line. *)
Enqueued(t) ==
  \/ waits[t] /\ WGoto(t, "w_spin")
     /\ UNCHANGED <<node, waits, pred, cur, succ>>
  \/ ~ waits[t] /\ Return(t)
-----------------------------------------------------------------------------
(* enq: only a node that was taken out of the line is inserted.  Lines     *)
(* 78-82 of the code, for a node whose status is CHECK, are left out: its  *)
(* thread still waits (NeverChecked).                                      *)
EnqStatus(t) ==
  /\ wpc[t] = "e_status"
  /\ SetStatus(node[t], "WAIT")
  /\ \/ /\ status[node[t]] = "RECYCLE"
        /\ WGoto(t, "e_next")
        /\ UNCHANGED <<node, waits, pred, cur, succ>>
     \/ /\ status[node[t]] # "RECYCLE"
        /\ Enqueued(t)
  /\ UNCHANGED <<lock, next>>

EnqNext(t) ==
  /\ WAt(t, "e_next", "e_swap")
  /\ SetNext(node[t], NULL)
  /\ UNCHANGED <<lock, status, node, waits, pred, cur, succ>>

EnqSwap(t) ==
  /\ wpc[t] = "e_swap"
  /\ pred' = [pred EXCEPT ![t] = lock]
  /\ lock' = node[t]
  /\ WGoto(t, IF lock = NULL THEN "e_wake" ELSE "e_link")
  /\ UNCHANGED <<next, status, node, waits, cur, succ>>

(* The first in line does not wait. *)
EnqWake(t) ==
  /\ wpc[t] = "e_wake"
  /\ SetStatus(node[t], "WAKE")
  /\ Return(t)
  /\ UNCHANGED <<lock, next>>

EnqLink(t) ==
  /\ wpc[t] = "e_link"
  /\ SetNext(pred[t], node[t])
  /\ Enqueued(t)
  /\ UNCHANGED <<lock, status>>

(* The end of the spin in wait: it is the first, or it was passed. *)
WaitSpin(t) ==
  /\ wpc[t] = "w_spin"
  /\ status[node[t]] \in {"WAKE", "RECYCLE"}
  /\ Return(t)
  /\ UNCHANGED <<lock, next, status>>
-----------------------------------------------------------------------------
(* wake: only the first in line wakes others... *)
WakeTry(t) ==
  /\ wpc[t] = "k_try"
  /\ \/ /\ status[node[t]] = "WAKE"
        /\ SetStatus(node[t], "RECYCLE")
        /\ cur' = [cur EXCEPT ![t] = node[t]]
        /\ WGoto(t, "k_next")
        /\ UNCHANGED <<node, waits, pred, succ>>
     \/ /\ status[node[t]] # "WAKE"
        /\ Return(t)
        /\ UNCHANGED status
  /\ UNCHANGED <<lock, next>>

(* ...the traversal: the next node... *)
WakeNext(t) ==
  /\ wpc[t] = "k_next"
  /\ succ' = [succ EXCEPT ![t] = next[cur[t]]]
  /\ WGoto(t, IF succ'[t] = NULL THEN "k_recycle" ELSE "k_cas")
  /\ UNCHANGED <<lock, next, status, node, waits, pred, cur>>

(* ...is woken if it waits... *)
WakeCAS(t) ==
  /\ wpc[t] = "k_cas"
  /\ \/ status[succ[t]] = "WAIT" /\ SetStatus(succ[t], "WAKE") /\ WGoto(t, "k_recycle")
     \/ status[succ[t]] # "WAIT" /\ UNCHANGED status /\ WGoto(t, "k_check")
  /\ UNCHANGED <<lock, next, node, waits, pred, cur, succ>>

(* ...or passed, with the link behind it turned around... *)
WakeCheck(t) ==
  /\ WAt(t, "k_check", "k_turn")
  /\ SetStatus(succ[t], "CHECK")
  /\ UNCHANGED <<lock, next, node, waits, pred, cur, succ>>

WakeTurn(t) ==
  /\ WAt(t, "k_turn", "k_next")
  /\ SetNext(cur[t], pred[t])
  /\ pred' = [pred EXCEPT ![t] = cur[t]]
  /\ cur' = [cur EXCEPT ![t] = succ[t]]
  /\ UNCHANGED <<lock, status, node, waits, succ>>

(* The last node examined although another was woken. *)
RecycledAlways(t) == "k_tail"

(* What follows the traversals. *)
Recycled(t) == IF succ[t] = NULL THEN "k_tail" ELSE "k_clear"

(* ...the reverse traversal, from the last node passed... *)
WakeRecycle(t) ==
  /\ wpc[t] = "k_recycle"
  /\ SetStatus(cur[t], "RECYCLE")
  /\ WGoto(t, IF pred[t] = NULL THEN Recycled(t) ELSE "k_rev")
  /\ UNCHANGED <<lock, next, node, waits, pred, cur, succ>>

WakeRev(t) ==
  /\ WAt(t, "k_rev", "k_revnext")
  /\ SetStatus(pred[t], "RECYCLE")
  /\ UNCHANGED <<lock, next, node, waits, pred, cur, succ>>

WakeRevNext(t) ==
  /\ wpc[t] = "k_revnext"
  /\ pred' = [pred EXCEPT ![t] = next[pred[t]]]
  /\ WGoto(t, IF pred'[t] = NULL THEN Recycled(t) ELSE "k_rev")
  /\ UNCHANGED <<lock, next, status, node, waits, cur, succ>>

(* A node that is not the last any more, left to itself. *)
WakeTailNoWait(t) ==
  /\ wpc[t] = "k_tail"
  /\ lock' = IF lock = cur[t] THEN NULL ELSE lock
  /\ Return(t)
  /\ UNCHANGED <<next, status>>

(* ...and if that was the end of the line, the line is empty...  *)
WakeTail(t) ==
  /\ wpc[t] = "k_tail"
  /\ \/ lock = cur[t] /\ lock' = NULL /\ Return(t)
     \/ lock # cur[t] /\ WGoto(t, "k_wait")
        /\ UNCHANGED <<lock, node, waits, pred, cur, succ>>
  /\ UNCHANGED <<next, status>>

(* ...or someone is about to link itself to it, and is the first. *)
WakeWait(t) ==
  /\ WAt(t, "k_wait", "k_grant")
  /\ next[cur[t]] # NULL
  /\ succ' = [succ EXCEPT ![t] = next[cur[t]]]
  /\ UNCHANGED <<lock, next, status, node, waits, pred, cur>>

WakeGrant(t) ==
  /\ WAt(t, "k_grant", "k_clear")
  /\ SetStatus(succ[t], "WAKE")
  /\ UNCHANGED <<lock, next, node, waits, pred, cur, succ>>

WakeClear(t) ==
  /\ wpc[t] = "k_clear"
  /\ SetNext(node[t], NULL)
  /\ Return(t)
  /\ UNCHANGED <<lock, status>>
-----------------------------------------------------------------------------
(* skip, a single compare-and-swap. *)
Skip(n) ==
  /\ status' = IF status[n] = "WAIT" THEN [status EXCEPT ![n] = "SKIP"] ELSE status
  /\ UNCHANGED <<lock, next, wpc, node, waits, pred, cur, succ>>

WSkipStep(t) ==
  \/ EnqStatus(t) \/ EnqNext(t) \/ EnqSwap(t) \/ EnqWake(t) \/ EnqLink(t)
  \/ WaitSpin(t)
  \/ WakeTry(t) \/ WakeNext(t) \/ WakeCAS(t) \/ WakeCheck(t) \/ WakeTurn(t)
  \/ WakeRecycle(t) \/ WakeRev(t) \/ WakeRevNext(t)
  \/ WakeTail(t) \/ WakeWait(t) \/ WakeGrant(t) \/ WakeClear(t)

WSkipTypeOK ==
  /\ lock \in Nodes \cup {NULL}
  /\ next \in [Nodes -> Nodes \cup {NULL}]
  /\ status \in [Nodes -> Status]
  /\ wpc \in [Threads -> {"out", "e_status", "e_next", "e_swap", "e_wake",
                "e_link", "w_spin", "k_try", "k_next",
                "k_cas", "k_check", "k_turn", "k_recycle", "k_rev",
                "k_revnext", "k_tail", "k_wait", "k_grant", "k_clear"}]
  /\ node \in [Threads -> Nodes \cup {NULL}]
  /\ waits \in [Threads -> BOOLEAN]
  /\ pred \in [Threads -> Nodes \cup {NULL}]
  /\ cur \in [Threads -> Nodes \cup {NULL}]
  /\ succ \in [Threads -> Nodes \cup {NULL}]

(* No enq finds CHECK, which wake stores in a node it passes: the thread of *)
(* the node stays in its wait until wake stores RECYCLE.                    *)
NeverChecked == \A t \in Threads : wpc[t] = "e_status" => status[node[t]] # "CHECK"
=============================================================================
