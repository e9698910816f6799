------------------------------ MODULE MSQueue ------------------------------
(***************************************************************************)
(* The lock-free queue of queue/zm_msqueue.c (Michael and Scott), with the *)
(* hazard pointers that are to protect its nodes.  Any thread enqueues and *)
(* dequeues.  Every load, store and compare-and-swap of shared memory is   *)
(* one step, a test of locals is part of the step before it.               *)
(*                                                                         *)
(* The node of an element stands for the element: what zm_msqueue_enqueue  *)
(* is given is only ever read from its node.  line and sawEmpty are        *)
(* history variables: the nodes from head to the last one linked, and      *)
(* whether there was only one when a dequeue looked for the second.        *)
(***************************************************************************)
EXTENDS HzdPtr

CONSTANT Stalled  \* threads that may stop anywhere, for liveness

ASSUME MSQueueAssumption == Nodes # {}

VARIABLES
  head, tail,   \* zm_msqueue_t
  next,         \* the links of the nodes
  alive,        \* the nodes that malloc has handed out
  pc,
  node, lhead, ltail, lnext,  \* the locals node, head, tail, next
  out,          \* *data
  line, sawEmpty  \* history

memory == <<head, tail, next, alive>>
locals == <<node, lhead, ltail, lnext, out>>
history == <<line, sawEmpty>>
msVars == <<memory, locals, pc, history>>
vars == <<hpVars, msVars>>

(* zm_msqueue_init *)
Init ==
  /\ HPInit
  /\ head = CHOOSE dummy \in Nodes : TRUE
  /\ tail = head
  /\ alive = {head}
  /\ line = << head >>
  /\ next = [n \in Nodes |-> NULL]
  /\ pc = [t \in Threads |-> "idle"]
  /\ node = [t \in Threads |-> NULL]
  /\ lhead = [t \in Threads |-> NULL]
  /\ ltail = [t \in Threads |-> NULL]
  /\ lnext = [t \in Threads |-> NULL]
  /\ out = [t \in Threads |-> NULL]
  /\ sawEmpty = [t \in Threads |-> FALSE]

Goto(t, label) == pc' = [pc EXCEPT ![t] = label]
At(t, from, to) == pc[t] = from /\ Goto(t, to)
Free(t) == pc[t] = "idle" /\ hpc[t] = "ready"

(* The locals of a call that returns are gone. *)
Return(t) ==
  /\ Goto(t, "idle")
  /\ node' = [node EXCEPT ![t] = NULL]
  /\ lhead' = [lhead EXCEPT ![t] = NULL]
  /\ ltail' = [ltail EXCEPT ![t] = NULL]
  /\ lnext' = [lnext EXCEPT ![t] = NULL]

(* zm_hzdptr_get, the first thing an operation does. *)
GetSlots(t) == Allocate(t) /\ UNCHANGED msVars
-----------------------------------------------------------------------------
(* zm_msqueue_enqueue: the new node.  Nothing is freed, so no address      *)
(* comes back, and it does not matter which of the others malloc returns.  *)
EnqAlloc(t) ==
  /\ Free(t)
  /\ Nodes # alive
  /\ LET n == CHOOSE m \in Nodes : m \notin alive
     IN  /\ alive' = alive \cup {n}
         /\ node' = [node EXCEPT ![t] = n]
         /\ next' = [next EXCEPT ![n] = NULL]
  /\ Goto(t, "e_tail")
  /\ UNCHANGED <<hpVars, head, tail, lhead, ltail, lnext, out, history>>

(* ...a tail that is still the tail once it is protected... *)
EnqTail(t) ==
  /\ At(t, "e_tail", "e_publish")
  /\ ltail' = [ltail EXCEPT ![t] = tail]
  /\ lnext' = [lnext EXCEPT ![t] = NULL]
  /\ UNCHANGED <<hpVars, memory, node, lhead, out, history>>

EnqPublish(t) ==
  /\ At(t, "e_publish", "e_check")
  /\ Publish(t, 0, ltail[t])
  /\ UNCHANGED <<memory, locals, history>>

EnqCheck(t) ==
  /\ pc[t] = "e_check"
  /\ Goto(t, IF ltail[t] = tail THEN "e_next" ELSE "e_tail")
  /\ UNCHANGED <<hpVars, memory, locals, history>>

EnqNext(t) ==
  /\ pc[t] = "e_next"
  /\ lnext' = [lnext EXCEPT ![t] = next[ltail[t]]]
  /\ Goto(t, IF lnext'[t] = NULL THEN "e_link" ELSE "e_help")
  /\ UNCHANGED <<hpVars, memory, node, lhead, ltail, out, history>>

(* The store of the node in the place of the compare-and-swap. *)
EnqLinkByStore(t) ==
  /\ At(t, "e_link", "e_swing")
  /\ next' = [next EXCEPT ![ltail[t]] = node[t]]
  /\ line' = Append(line, node[t])
  /\ UNCHANGED <<hpVars, head, tail, alive, locals, sawEmpty>>

(* ...the link behind the last node... *)
EnqLink(t) ==
  /\ pc[t] = "e_link"
  /\ \/ /\ next[ltail[t]] = NULL
        /\ next' = [next EXCEPT ![ltail[t]] = node[t]]
        /\ line' = Append(line, node[t])
        /\ Goto(t, "e_swing")
     \/ /\ next[ltail[t]] # NULL
        /\ Goto(t, "e_tail")
        /\ UNCHANGED <<next, history>>
  /\ UNCHANGED <<hpVars, head, tail, alive, locals, sawEmpty>>

(* A compare-and-swap of the tail that does not compare. *)
MoveTailByStore(t) == tail' = lnext[t]

(* The weak compare-and-swap of the tail from ltail to lnext, which may    *)
(* fail for no reason.                                                     *)
MoveTail(t) ==
  \/ tail = ltail[t] /\ tail' = lnext[t]
  \/ UNCHANGED tail

(* The help left out: whoever finds the tail behind tries again. *)
EnqHelpNot(t) ==
  /\ At(t, "e_help", "e_tail")
  /\ UNCHANGED <<hpVars, memory, locals, history>>

(* ...or the help for an enqueue that has not moved the tail yet... *)
EnqHelp(t) ==
  /\ At(t, "e_help", "e_tail")
  /\ MoveTail(t)
  /\ UNCHANGED <<hpVars, head, next, alive, locals, history>>

(* ...and the move of the tail, if nobody helped. *)
EnqSwing(t) ==
  /\ pc[t] = "e_swing"
  /\ \/ tail = ltail[t] /\ tail' = node[t]
     \/ UNCHANGED tail
  /\ Return(t)
  /\ UNCHANGED <<hpVars, head, next, alive, out, history>>
-----------------------------------------------------------------------------
(* zm_msqueue_dequeue: *data is cleared... *)
DeqBegin(t) ==
  /\ Free(t)
  /\ out' = [out EXCEPT ![t] = NULL]
  /\ Goto(t, "d_head")
  /\ UNCHANGED <<hpVars, memory, node, lhead, ltail, lnext, history>>

(* ...a head that is still the head once it is protected... *)
DeqHead(t) ==
  /\ At(t, "d_head", "d_publish")
  /\ lhead' = [lhead EXCEPT ![t] = head]
  /\ ltail' = [ltail EXCEPT ![t] = NULL] /\ lnext' = [lnext EXCEPT ![t] = NULL]
  /\ UNCHANGED <<hpVars, memory, node, out, history>>

DeqPublish(t) ==
  /\ At(t, "d_publish", "d_check")
  /\ Publish(t, 0, lhead[t])
  /\ UNCHANGED <<memory, locals, history>>

(* The check forgotten. *)
DeqCheckNot(t) ==
  /\ At(t, "d_check", "d_tail")
  /\ UNCHANGED <<hpVars, memory, locals, history>>

DeqCheck(t) ==
  /\ pc[t] = "d_check"
  /\ Goto(t, IF lhead[t] = head THEN "d_tail" ELSE "d_head")
  /\ UNCHANGED <<hpVars, memory, locals, history>>

DeqTail(t) ==
  /\ At(t, "d_tail", "d_next")
  /\ ltail' = [ltail EXCEPT ![t] = tail]
  /\ UNCHANGED <<hpVars, memory, node, lhead, lnext, out, history>>

DeqNext(t) ==
  /\ At(t, "d_next", "d_protect")
  /\ lnext' = [lnext EXCEPT ![t] = next[lhead[t]]]
  /\ sawEmpty' = [sawEmpty EXCEPT ![t] = Len(line) = 1]
  /\ UNCHANGED <<hpVars, memory, node, lhead, ltail, out, line>>

(* A dequeue that takes an equal head and tail for an empty queue. *)
DeqProtectNoHelp(t) ==
  /\ pc[t] = "d_protect"
  /\ Publish(t, 1, lnext[t])
  /\ \/ lhead[t] = ltail[t] /\ Return(t)
     \/ lhead[t] # ltail[t] /\ Goto(t, "d_move") /\ UNCHANGED <<node, lhead, ltail, lnext>>
  /\ sawEmpty' = [sawEmpty EXCEPT ![t] = FALSE]
  /\ UNCHANGED <<memory, out, line>>

(* ...the protection of its successor, and what the locals say: the queue  *)
(* is empty, the tail is behind, or there is an element to take...         *)
DeqProtect(t) ==
  /\ pc[t] = "d_protect"
  /\ Publish(t, 1, lnext[t])
  /\ \/ lhead[t] = ltail[t] /\ lnext[t] = NULL /\ Return(t)
     \/ lhead[t] = ltail[t] /\ lnext[t] # NULL /\ Goto(t, "d_help")
        /\ UNCHANGED <<node, lhead, ltail, lnext>>
     \/ lhead[t] # ltail[t] /\ Goto(t, "d_move") /\ UNCHANGED <<node, lhead, ltail, lnext>>
  /\ sawEmpty' = [sawEmpty EXCEPT ![t] = FALSE]
  /\ UNCHANGED <<memory, out, line>>

DeqHelp(t) ==
  /\ At(t, "d_help", "d_head")
  /\ MoveTail(t)
  /\ UNCHANGED <<hpVars, head, next, alive, locals, history>>

(* ...which the move of the head takes... *)
DeqMove(t) ==
  /\ pc[t] = "d_move"
  /\ \/ /\ head = lhead[t]
        /\ head' = lnext[t]
        /\ line' = Tail(line)
        /\ Goto(t, "d_take")
     \/ /\ head # lhead[t]
        /\ Goto(t, "d_head")
        /\ UNCHANGED <<head, history>>
  /\ UNCHANGED <<hpVars, tail, next, alive, locals, sawEmpty>>

DeqTake(t) ==
  /\ At(t, "d_take", "d_retire")
  /\ out' = [out EXCEPT ![t] = lnext[t]]
  /\ UNCHANGED <<hpVars, memory, node, lhead, ltail, lnext, history>>

(* ...and the old dummy is retired. *)
DeqRetire(t) ==
  /\ pc[t] = "d_retire"
  /\ Retire(t, lhead[t])
  /\ Return(t)
  /\ UNCHANGED <<memory, out, history>>

ScanStep(t) == Scan(t) /\ UNCHANGED msVars
-----------------------------------------------------------------------------
Enqueue(t) ==
  \/ EnqTail(t) \/ EnqPublish(t) \/ EnqCheck(t) \/ EnqNext(t) \/ EnqLink(t)
  \/ EnqHelp(t) \/ EnqSwing(t)

Dequeue(t) ==
  \/ DeqHead(t) \/ DeqPublish(t) \/ DeqCheck(t) \/ DeqTail(t) \/ DeqNext(t)
  \/ DeqProtect(t) \/ DeqHelp(t) \/ DeqMove(t) \/ DeqTake(t) \/ DeqRetire(t)

Begin(t) == GetSlots(t) \/ EnqAlloc(t) \/ DeqBegin(t)

Next == \E t \in Threads : Begin(t) \/ Enqueue(t) \/ Dequeue(t) \/ ScanStep(t)

Spec == Init /\ [][Next]_vars

(* A thread that is not stalled keeps running inside its operations, and   *)
(* its weak compare-and-swap does not fail for no reason for ever.         *)
FairSpec ==
  /\ Spec
  /\ \A t \in Threads \ Stalled :
       /\ WF_vars(Enqueue(t) \/ Dequeue(t) \/ ScanStep(t))
       /\ SF_vars(EnqHelp(t) /\ tail' # tail)
       /\ SF_vars(DeqHelp(t) /\ tail' # tail)
-----------------------------------------------------------------------------
InLine(n) == \E i \in 1..Len(line) : line[i] = n

TypeOK ==
  /\ HPTypeOK
  /\ head \in Nodes /\ tail \in Nodes
  /\ next \in [Nodes -> Nodes \cup {NULL}]
  /\ alive \subseteq Nodes
  /\ pc \in [Threads -> {"idle", "e_tail", "e_publish", "e_check", "e_next",
               "e_link", "e_help", "e_swing", "d_head", "d_publish", "d_check",
               "d_tail", "d_next", "d_protect", "d_help", "d_move", "d_take",
               "d_retire"}]
  /\ node \in [Threads -> Nodes \cup {NULL}]
  /\ lhead \in [Threads -> Nodes \cup {NULL}]
  /\ ltail \in [Threads -> Nodes \cup {NULL}]
  /\ lnext \in [Threads -> Nodes \cup {NULL}]
  /\ out \in [Threads -> Nodes \cup {NULL}]
  /\ line \in Seq(Nodes)
  /\ sawEmpty \in [Threads -> BOOLEAN]

(* The linked list: line follows the links from head to a NULL, and the    *)
(* tail is one of its last two nodes, whoever stalls where; no variable    *)
(* leaves its type.                                                        *)
ListOK ==
  /\ TypeOK
  /\ Len(line) > 0 /\ head = line[1]
  /\ \A i \in 1..Len(line) :
       next[line[i]] = IF i < Len(line) THEN line[i + 1] ELSE NULL
  /\ tail = line[Len(line)] \/ (Len(line) > 1 /\ tail = line[Len(line) - 1])

(* An object is retired once, by one thread, and only after it left the    *)
(* queue for good.                                                         *)
RetiredOnce ==
  \A t \in Threads :
    /\ \A n \in rlist[t] : ~ InLine(n)
    /\ \A u \in Threads \ {t} : rlist[t] \cap rlist[u] = {}
    /\ pc[t] = "d_retire" =>
         /\ ~ InLine(lhead[t])
         /\ \A u \in Threads : lhead[t] \notin rlist[u] \cup reclaimed

(* No thread follows a pointer to a node that a scan has let go of: a node *)
(* that passed the check after its publication was found in the slot by    *)
(* every scan of a thread that retired it later.                           *)
NoUseAfterReclaim ==
  \A t \in Threads :
    /\ pc[t] \in {"e_next", "e_link"} => ltail[t] \notin reclaimed
    /\ pc[t] = "d_next" => lhead[t] \notin reclaimed
    /\ pc[t] = "d_take" => lnext[t] \notin reclaimed

(* The hazard pointers do what they are for.                               *)
ReclamationSafe == RetiredOnce /\ NoUseAfterReclaim

(* A dequeue returns without an element only if the queue was empty when   *)
(* it looked for the successor of head, although it read head and tail     *)
(* before.                                                                 *)
EmptyMeansEmpty ==
  [][\A t \in Threads :
       pc[t] = "d_protect" /\ pc'[t] = "idle" => sawEmpty[t]]_vars

(* The queue is a FIFO queue: an enqueue takes effect when it links its    *)
(* node, a dequeue when it moves the head.                                 *)
Fifo == INSTANCE FifoQueue WITH
  Consumers <- Threads, Data <- Nodes,
  items <- Tail(line),
  out <- [t \in Threads |->
            IF pc[t] = "d_take" THEN lnext[t] ELSE out[t]]

FifoOrder == Fifo!Spec

(* Lock-freedom: wherever the stalled threads stop, even between the link  *)
(* of a node and the move of the tail, the others finish.  (The runs bound *)
(* the number of enqueues, so none of the others is overtaken for ever.)   *)
LockFree ==
  \A t \in Threads \ Stalled : pc[t] # "idle" ~> pc[t] = "idle"
-----------------------------------------------------------------------------
(* The inductive invariant.  A node is pending from its allocation to its  *)
(* link; Linked are the nodes that are or were in the list.                *)
Pending(t) ==
  pc[t] \in {"e_tail", "e_publish", "e_check", "e_next", "e_link", "e_help"}

Linked == {n \in alive : \A t \in Threads : Pending(t) => node[t] # n}

(* Of the nodes that were ever linked, only the last has no successor...   *)
LineOK ==
  /\ \A i, j \in 1..Len(line) : line[i] = line[j] => i = j
  /\ \A i \in 1..Len(line) : line[i] \in Linked
  /\ \A n \in Linked : next[n] = NULL => n = line[Len(line)]

(* ...what an enqueue took for the tail was the tail, so that the tail is  *)
(* not behind it...                                                        *)
EnqOK(t) ==
  /\ Pending(t) =>
       /\ node[t] \in alive /\ next[node[t]] = NULL
       /\ \A u \in Threads \ {t} : Pending(u) => node[u] # node[t]
  /\ pc[t] \in {"e_publish", "e_check", "e_next", "e_link", "e_help", "e_swing"} =>
       ltail[t] \in Linked /\ (ltail[t] = line[Len(line)] => tail = ltail[t])
  /\ pc[t] = "e_help" => lnext[t] # NULL /\ next[ltail[t]] = lnext[t]
  /\ pc[t] = "e_swing" => node[t] # NULL /\ next[ltail[t]] = node[t]

(* ...what a dequeue took for the head was the head, and has a successor   *)
(* once the tail was seen elsewhere...                                     *)
DeqOK(t) ==
  /\ pc[t] \in {"d_publish", "d_check", "d_tail", "d_next", "d_protect",
                "d_help", "d_move"} =>
       lhead[t] \in Linked /\ (InLine(lhead[t]) => lhead[t] = head)
  /\ pc[t] \in {"d_next", "d_protect", "d_move"} /\ ltail[t] # lhead[t] =>
       next[lhead[t]] # NULL /\ (lhead[t] = head => tail # head)
  /\ pc[t] \in {"d_protect", "d_help", "d_move"} /\ lnext[t] # NULL =>
       next[lhead[t]] = lnext[t]
  /\ pc[t] = "d_protect" /\ lnext[t] = NULL =>
       sawEmpty[t] /\ ltail[t] = lhead[t]
  /\ pc[t] = "d_help" => lnext[t] # NULL /\ lhead[t] = ltail[t]
  /\ pc[t] = "d_move" => lnext[t] # NULL /\ ltail[t] # lhead[t]

(* ...a node that left the line is on its way to one retired list...       *)
Leaving(t) == pc[t] \in {"d_take", "d_retire"}

GoneOK ==
  \A n \in reclaimed \cup UNION {rlist[t] : t \in Threads} :
    n \in Linked /\ ~ InLine(n)

RetireOK(t) ==
  /\ rlist[t] \cap reclaimed = {}
  /\ \A u \in Threads \ {t} : rlist[t] \cap rlist[u] = {}
  /\ Leaving(t) =>
       /\ lhead[t] \in Linked /\ ~ InLine(lhead[t]) /\ lnext[t] # NULL
       /\ \A u \in Threads : lhead[t] \notin rlist[u] \cup reclaimed
       /\ \A u \in Threads \ {t} : Leaving(u) => lhead[u] # lhead[t]

(* ...and every scan that could let go of a node in a slot that its thread *)
(* relies on has found it there or has still to look.                      *)
ReliesOn(t, i) ==
  \/ i = 0 /\ pc[t] \in {"e_next", "e_link", "d_tail", "d_next"}
  \/ i = 1 /\ pc[t] = "d_take"

Noticed(u, t, i) ==
  hpc[u] = "scan" /\ hp[t][i] \in rlist[u] =>
    \/ hp[t][i] \in plist[u]
    \/ \E j \in 1..Len(todo[u]) : todo[u][j] = <<t, i>>

SlotsOK(t) ==
  /\ pc[t] # "idle" => hpc[t] = "ready"
  /\ hpc[t] \in {"init", "ready", "scan"} =>
       \E k \in 1..Len(hplist) : hplist[k] = t
  /\ pc[t] \in {"e_check", "e_next", "e_link"} => hp[t][0] = ltail[t]
  /\ pc[t] \in {"d_check", "d_tail", "d_next"} => hp[t][0] = lhead[t]
  /\ pc[t] \in {"d_move", "d_take"} => hp[t][1] = lnext[t]
  /\ \A i \in Slots : ReliesOn(t, i) =>
       hp[t][i] \notin reclaimed /\ \A u \in Threads : Noticed(u, t, i)

ThreadOK(t) == EnqOK(t) /\ DeqOK(t) /\ RetireOK(t) /\ SlotsOK(t)

IInv == ListOK /\ LineOK /\ GoneOK /\ \A t \in Threads : ThreadOK(t)
=============================================================================
