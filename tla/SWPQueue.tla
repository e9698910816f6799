------------------------------ MODULE SWPQueue ------------------------------
(***************************************************************************)
(* The swap queue of queue/zm_swpqueue.c: any number of producers, one     *)
(* consumer (zm_mpbqueue.c calls it that way).  An enqueue exchanges the   *)
(* tail pointer and then links its predecessor to its node; between the    *)
(* two the list is broken, and what later producers append is out of the   *)
(* consumer's reach.  A dequeue frees the node it leaves behind, whose     *)
(* address malloc may hand out again at once.                              *)
(*                                                                         *)
(* line is a history variable: the nodes from the consumer's head to the   *)
(* tail in the order of the exchanges, whether they are linked or not;     *)
(* seen is what zm_swpqueue_isempty_strong could have known.               *)
(***************************************************************************)
EXTENDS Naturals, Sequences, FiniteSets

CONSTANTS Producers, Nodes, Data, NULL

ASSUME SWPQueueAssumption == NULL \notin Nodes /\ NULL \notin Data

VARIABLES
  head, tail,       \* zm_swpqueue_t
  next, data,       \* the fields of the nodes
  alive,            \* the nodes malloc has handed out and nobody freed
  pc, node, pred,   \* producers: where they are, their locals
  cpc, chead, ctail, out, answer,  \* consumer: place, locals, *data, isempty
  line, seen        \* history

queueVars == <<head, tail, next, data, alive>>
producerVars == <<pc, node, pred>>
consumerVars == <<cpc, chead, ctail, out, answer, seen>>
vars == <<queueVars, producerVars, consumerVars, line>>

(* zm_swpqueue_init: one dummy node. *)
Init ==
  \E dummy \in Nodes :
    /\ head = dummy /\ tail = dummy
    /\ next = [n \in Nodes |-> NULL]
    /\ data = [n \in Nodes |-> NULL]
    /\ alive = {dummy}
    /\ pc = [p \in Producers |-> "idle"]
    /\ node = [p \in Producers |-> NULL]
    /\ pred = [p \in Producers |-> NULL]
    /\ cpc = "idle" /\ chead = NULL /\ ctail = NULL /\ out = NULL
    /\ answer = "none" /\ seen = 0
    /\ line = << dummy >>

(* zm_swpqueue_enqueue: the new node, private until the exchange.  The     *)
(* runs bound the memory by Nodes; the code does not expect malloc to fail. *)
EnqAlloc(p) ==
  /\ pc[p] = "idle"
  /\ \E n \in Nodes \ alive, v \in Data :
       /\ alive' = alive \cup {n}
       /\ data' = [data EXCEPT ![n] = v]
       /\ next' = [next EXCEPT ![n] = NULL]
       /\ node' = [node EXCEPT ![p] = n]
  /\ pc' = [pc EXCEPT ![p] = "swap"]
  /\ UNCHANGED <<head, tail, pred, consumerVars, line>>

EnqSwap(p) ==
  /\ pc[p] = "swap"
  /\ pred' = [pred EXCEPT ![p] = tail]
  /\ tail' = node[p]
  /\ line' = Append(line, node[p])
  /\ pc' = [pc EXCEPT ![p] = "link"]
  /\ UNCHANGED <<head, next, data, alive, node, consumerVars>>

(* A producer that links only behind a node the consumer is not at. *)
EnqLinkSkipsHead(p) ==
  /\ pc[p] = "link"
  /\ next' = IF pred[p] = head THEN next ELSE [next EXCEPT ![pred[p]] = node[p]]
  /\ pc' = [pc EXCEPT ![p] = "idle"]
  /\ node' = [node EXCEPT ![p] = NULL] /\ pred' = [pred EXCEPT ![p] = NULL]
  /\ UNCHANGED <<head, tail, data, alive, consumerVars, line>>

(* pred->next = node *)
EnqLink(p) ==
  /\ pc[p] = "link"
  /\ next' = [next EXCEPT ![pred[p]] = node[p]]
  /\ pc' = [pc EXCEPT ![p] = "idle"]
  /\ node' = [node EXCEPT ![p] = NULL] /\ pred' = [pred EXCEPT ![p] = NULL]
  /\ UNCHANGED <<head, tail, data, alive, consumerVars, line>>
-----------------------------------------------------------------------------
(* zm_swpqueue_dequeue: *data is cleared and head loaded; only the         *)
(* consumer stores to head.                                                *)
DeqBegin ==
  /\ cpc = "idle"
  /\ chead' = head
  /\ out' = NULL
  /\ answer' = "none" /\ seen' = 0
  /\ cpc' = "test"
  /\ UNCHANGED <<queueVars, producerVars, ctail, line>>

(* head->next != ZM_NULL *)
DeqTest ==
  /\ cpc = "test"
  /\ IF next[chead] = NULL
     THEN cpc' = "idle" /\ chead' = NULL
     ELSE cpc' = "advance" /\ UNCHANGED chead
  /\ UNCHANGED <<queueVars, producerVars, ctail, out, answer, seen, line>>

(* next = head->next; q->head = next *)
DeqAdvance ==
  /\ cpc = "advance"
  /\ head' = next[chead]
  /\ line' = Tail(line)
  /\ cpc' = "take"
  /\ UNCHANGED <<tail, next, data, alive, producerVars, chead, ctail, out,
                 answer, seen>>

(* The data of the node left behind in the place of the next one's. *)
DeqTakeOld ==
  /\ cpc = "take"
  /\ out' = data[chead]
  /\ alive' = alive \ {chead}
  /\ cpc' = "idle" /\ chead' = NULL
  /\ UNCHANGED <<head, tail, next, data, producerVars, ctail, answer,
                 seen, line>>

(* The old dummy node never freed. *)
DeqTakeLeak ==
  /\ cpc = "take"
  /\ out' = data[head]
  /\ cpc' = "idle" /\ chead' = NULL
  /\ UNCHANGED <<queueVars, producerVars, ctail, answer, seen, line>>

(* *data = next->data; free(head) *)
DeqTake ==
  /\ cpc = "take"
  /\ out' = data[head]
  /\ alive' = alive \ {chead}
  /\ cpc' = "idle" /\ chead' = NULL
  /\ UNCHANGED <<head, tail, next, data, producerVars, ctail, answer,
                 seen, line>>
-----------------------------------------------------------------------------
(* zm_swpqueue_isempty_weak, called by the consumer. *)
IsEmptyWeak ==
  /\ cpc = "idle"
  /\ answer' = IF next[head] = NULL THEN "weak_empty" ELSE "nonempty"
  /\ seen' = 0
  /\ UNCHANGED <<queueVars, producerVars, cpc, chead, ctail, out, line>>

(* zm_swpqueue_isempty_strong: the loads of head and tail, then the test.  *)
StrongLoad ==
  /\ cpc = "idle"
  /\ chead' = head
  /\ ctail' = tail
  /\ seen' = Len(line)
  /\ answer' = "none"
  /\ cpc' = "strong"
  /\ UNCHANGED <<queueVars, producerVars, out, line>>

(* The comparison of the pointers forgotten. *)
StrongTestNextOnly ==
  /\ cpc = "strong"
  /\ answer' = IF next[chead] = NULL THEN "strong_empty" ELSE "nonempty"
  /\ cpc' = "idle" /\ chead' = NULL /\ ctail' = NULL
  /\ UNCHANGED <<queueVars, producerVars, out, seen, line>>

StrongTest ==
  /\ cpc = "strong"
  /\ answer' = IF next[chead] = NULL /\ chead = ctail
               THEN "strong_empty" ELSE "nonempty"
  /\ cpc' = "idle" /\ chead' = NULL /\ ctail' = NULL
  /\ UNCHANGED <<queueVars, producerVars, out, seen, line>>

Consumer ==
  \/ DeqBegin \/ DeqTest \/ DeqAdvance \/ DeqTake \/ IsEmptyWeak
  \/ StrongLoad \/ StrongTest

Producer(p) == EnqAlloc(p) \/ EnqSwap(p) \/ EnqLink(p)

Next == Consumer \/ \E p \in Producers : Producer(p)

Spec == Init /\ [][Next]_vars

(* A producer inside zm_swpqueue_enqueue keeps running; the consumer keeps *)
(* polling, as the clients of the tests do, and finishes what it began.    *)
FairSpec ==
  /\ Spec
  /\ \A p \in Producers : WF_vars(EnqSwap(p) \/ EnqLink(p))
  /\ SF_vars(DeqBegin)
  /\ WF_vars(DeqTest \/ DeqAdvance \/ DeqTake \/ StrongTest)
-----------------------------------------------------------------------------
Linking(p) == pc[p] = "link"

TypeOK ==
  /\ head \in Nodes /\ tail \in Nodes
  /\ next \in [Nodes -> Nodes \cup {NULL}]
  /\ data \in [Nodes -> Data \cup {NULL}]
  /\ alive \subseteq Nodes
  /\ pc \in [Producers -> {"idle", "swap", "link"}]
  /\ node \in [Producers -> Nodes \cup {NULL}]
  /\ pred \in [Producers -> Nodes \cup {NULL}]
  /\ cpc \in {"idle", "test", "advance", "take", "strong"}
  /\ chead \in Nodes \cup {NULL} /\ ctail \in Nodes \cup {NULL}
  /\ out \in Data \cup {NULL}
  /\ answer \in {"none", "weak_empty", "strong_empty", "nonempty"}
  /\ line \in Seq(Nodes) /\ seen \in Nat

(* The memory is exactly what is in use: the line, the nodes of producers  *)
(* before their exchange and the one the consumer is about to free.  No    *)
(* node is lost, and none is freed twice or while it is in use; and no     *)
(* variable leaves its type.                                               *)
MemoryAccounted ==
  /\ TypeOK
  /\ alive = {line[i] : i \in 1..Len(line)}
              \cup {node[p] : p \in {q \in Producers : pc[q] = "swap"}}
              \cup (IF cpc = "take" THEN {chead} ELSE {})

(* No thread ever stores to or loads from a node that was freed: the       *)
(* predecessor a stalled producer will link cannot have been consumed.     *)
NoUseAfterFree ==
  /\ head \in alive /\ tail \in alive
  /\ \A p \in Producers : Linking(p) => pred[p] \in alive /\ node[p] \in alive
  /\ cpc # "idle" => chead \in alive

(* Neither leaks nor stray accesses, in whatever order nodes are linked,   *)
(* left behind, freed and handed out again.                                *)
MemorySafe == MemoryAccounted /\ NoUseAfterFree

(* A queue that zm_swpqueue_isempty_strong calls empty was empty, without  *)
(* an enqueue in flight behind its tail, when the call loaded the tail.    *)
StrongEmptyIsEmpty == answer = "strong_empty" => seen = 1

(* A dequeue hands out nothing only when the queue is empty or the         *)
(* producer of its first element has not linked it yet: the element of a   *)
(* completed enqueue hides only behind a stalled enqueue.                  *)
MissJustified ==
  [][cpc = "test" /\ cpc' = "idle" =>
       \/ Len(line) = 1
       \/ \E p \in Producers : Linking(p) /\ node[p] = line[2]]_vars

(* The elements in the order of the exchanges, each once, none lost, none  *)
(* invented, also when addresses are reused.                               *)
Fifo == INSTANCE FifoQueue WITH
  items <- [i \in 1..Len(line) - 1 |-> data[line[i + 1]]],
  Consumers <- {"consumer"},
  out <- [c \in {"consumer"} |-> IF cpc = "take" THEN data[head] ELSE out]

FifoOrder == Fifo!Spec

(* What a producer has exchanged into the queue reaches the head of a      *)
(* polling consumer.                                                       *)
Delivered ==
  \A n \in Nodes :
    (\E i \in 2..Len(line) : line[i] = n) ~> head = n
-----------------------------------------------------------------------------
(* The inductive invariant.  The line is what the pointers spell, except   *)
(* for the links that producers still owe...                               *)
Owed(n) == \E p \in Producers : Linking(p) /\ node[p] = n

LineOK ==
  /\ line # << >> /\ head = line[1] /\ tail = line[Len(line)]
  /\ \A i, j \in 1..Len(line) : line[i] = line[j] => i = j
  /\ \A i \in 1..Len(line) : i > 1 => data[line[i]] \in Data
  /\ \A i \in 1..Len(line) :
       \/ next[line[i]] = NULL /\ (i < Len(line) => Owed(line[i + 1]))
       \/ i < Len(line) /\ next[line[i]] = line[i + 1]

(* ...each producer holds its own node, outside the line until the         *)
(* exchange, and then the predecessor it has to link...                    *)
ProducersOK ==
  \A p \in Producers :
    /\ pc[p] = "swap" =>
         /\ node[p] \in alive /\ next[node[p]] = NULL /\ data[node[p]] \in Data
         /\ \A i \in 1..Len(line) : line[i] # node[p]
    /\ Linking(p) =>
         \E i \in 1..Len(line) :
           /\ i < Len(line) /\ pred[p] = line[i] /\ node[p] = line[i + 1]
           /\ next[pred[p]] = NULL
    /\ \A q \in Producers \ {p} :
         pc[p] # "idle" /\ pc[q] # "idle" => node[p] # node[q]

(* ...and the consumer the head, or the node it left and has to free.      *)
ConsumerOK ==
  /\ cpc \in {"test", "advance", "strong"} => chead = head
  /\ cpc = "advance" => next[head] # NULL
  /\ cpc = "take" =>
       /\ chead \in alive /\ data[head] \in Data
       /\ \A i \in 1..Len(line) : line[i] # chead
       /\ \A p \in Producers : pc[p] # "idle" => node[p] # chead

(* Head and tail are the same node in the line of one only.                *)
StrongOK == cpc = "strong" /\ chead = ctail => seen = 1

IInv ==
  /\ MemoryAccounted /\ LineOK /\ ProducersOK /\ ConsumerOK
  /\ StrongOK /\ StrongEmptyIsEmpty
=============================================================================
