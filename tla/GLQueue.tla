------------------------------ MODULE GLQueue ------------------------------
(***************************************************************************)
(* The global-lock queue of queue/zm_glqueue.c: a linked list with a dummy *)
(* node at its head, any number of producers and consumers, and one mutex  *)
(* around every access but the initialisation of a new node.  A dequeue    *)
(* frees the node it leaves behind, while it still holds the mutex.        *)
(*                                                                         *)
(* line is a history variable: the nodes from the head to the last one     *)
(* that was linked.                                                        *)
(* This queue is proved about only (SWPQueueProofs).                       *)
(***************************************************************************)
EXTENDS Naturals, Sequences

CONSTANTS Threads, Nodes, Data, NULL

NullIsNobody == NULL \notin Threads \cup Nodes

VARIABLES
  head, tail, owner,  \* zm_glqueue_t, and who holds its mutex
  next, data,         \* the fields of the nodes
  alive,              \* the nodes malloc has handed out and nobody freed
  pc, node, out,      \* places, the local node or head, *data
  line                \* history

vars == <<head, tail, owner, next, data, alive, pc, node, out, line>>

(* zm_glqueue_init *)
Init ==
  \E dummy \in Nodes :
    /\ head = dummy /\ tail = dummy
    /\ owner = NULL
    /\ next = [n \in Nodes |-> NULL]
    /\ data = [n \in Nodes |-> NULL]
    /\ alive = {dummy}
    /\ pc = [t \in Threads |-> "idle"]
    /\ node = [t \in Threads |-> NULL]
    /\ out = [t \in Threads |-> NULL]
    /\ line = << dummy >>

At(t, from, to) == pc[t] = from /\ pc' = [pc EXCEPT ![t] = to]

(* zm_glqueue_enqueue: the new node, private until it is linked... *)
EnqAlloc(t) ==
  /\ At(t, "idle", "e_lock")
  /\ \E n \in Nodes \ alive, v \in Data :
       /\ alive' = alive \cup {n}
       /\ data' = [data EXCEPT ![n] = v]
       /\ next' = [next EXCEPT ![n] = NULL]
       /\ node' = [node EXCEPT ![t] = n]
  /\ UNCHANGED <<head, tail, owner, out, line>>

(* ...pthread_mutex_lock, in either operation... *)
Lock(t) ==
  /\ At(t, "e_lock", "e_link") \/ At(t, "idle", "d_begin")
  /\ owner = NULL
  /\ owner' = t
  /\ UNCHANGED <<head, tail, next, data, alive, node, out, line>>

(* ...tail->next = node... *)
EnqLink(t) ==
  /\ At(t, "e_link", "e_tail")
  /\ next' = [next EXCEPT ![tail] = node[t]]
  /\ line' = Append(line, node[t])
  /\ UNCHANGED <<head, tail, owner, data, alive, node, out>>

(* ...tail = node... *)
EnqTail(t) ==
  /\ At(t, "e_tail", "unlock")
  /\ tail' = node[t]
  /\ UNCHANGED <<head, owner, next, data, alive, node, out, line>>

(* ...and pthread_mutex_unlock. *)
Unlock(t) ==
  /\ At(t, "unlock", "idle")
  /\ owner' = NULL
  /\ node' = [node EXCEPT ![t] = NULL]
  /\ UNCHANGED <<head, tail, next, data, alive, out, line>>

(* zm_glqueue_dequeue: head and *data, once the mutex is taken... *)
DeqBegin(t) ==
  /\ At(t, "d_begin", "d_test")
  /\ node' = [node EXCEPT ![t] = head]
  /\ out' = [out EXCEPT ![t] = NULL]
  /\ UNCHANGED <<head, tail, owner, next, data, alive, line>>

(* ...the test and the move of the head... *)
DeqTest(t) ==
  /\ \/ /\ At(t, "d_test", "unlock")
        /\ next[node[t]] = NULL
        /\ UNCHANGED <<head, line>>
     \/ /\ At(t, "d_test", "d_take")
        /\ next[node[t]] # NULL
        /\ head' = next[node[t]]
        /\ line' = Tail(line)
  /\ UNCHANGED <<tail, owner, next, data, alive, node, out>>

(* ...and the data of the new dummy node, then the free of the old one. *)
DeqTake(t) ==
  /\ At(t, "d_take", "unlock")
  /\ out' = [out EXCEPT ![t] = data[head]]
  /\ alive' = alive \ {node[t]}
  /\ UNCHANGED <<head, tail, owner, next, data, node, line>>

Step(t) ==
  \/ EnqAlloc(t) \/ Lock(t) \/ EnqLink(t) \/ EnqTail(t) \/ Unlock(t)
  \/ DeqBegin(t) \/ DeqTest(t) \/ DeqTake(t)

Next == \E t \in Threads : Step(t)

Spec == Init /\ [][Next]_vars
-----------------------------------------------------------------------------
(* Where a thread alone has a node that is not in the list.                *)
Private == {"e_lock", "e_link", "d_take"}

TypeOK ==
  /\ head \in Nodes /\ tail \in Nodes
  /\ owner \in Threads \cup {NULL}
  /\ next \in [Nodes -> Nodes \cup {NULL}]
  /\ data \in [Nodes -> Data \cup {NULL}]
  /\ pc \in [Threads -> {"idle", "e_lock", "e_link", "e_tail", "unlock",
                         "d_begin", "d_test", "d_take"}]
  /\ node \in [Threads -> Nodes \cup {NULL}]
  /\ out \in [Threads -> Data \cup {NULL}]
  /\ alive \subseteq Nodes
  /\ line \in Seq(Nodes)

(* The memory is exactly the line, the nodes of enqueues that wait for the *)
(* mutex and the one that a dequeue is about to free, all of them          *)
(* different.  No variable leaves its type.                                *)
MemoryOK ==
  /\ TypeOK
  /\ alive = {line[i] : i \in 1..Len(line)}
               \cup {node[t] : t \in {u \in Threads : pc[u] \in Private}}
  /\ \A t \in Threads : pc[t] \in Private =>
       /\ \A i \in 1..Len(line) : line[i] # node[t]
       /\ \A u \in Threads \ {t} : pc[u] \in Private => node[t] # node[u]

(* Whatever the next step of a thread loads from, stores to or frees is    *)
(* allocated: the tail an enqueue links its node to, the node whose next a *)
(* dequeue tests, the new dummy node it takes the data from, and the old   *)
(* one it frees.                                                           *)
NoUseAfterFree ==
  /\ head \in alive
  /\ \A t \in Threads :
       /\ pc[t] = "e_link" => tail \in alive
       /\ pc[t] \in Private \cup {"e_tail", "d_test"} => node[t] \in alive

(* Neither leaks nor stray accesses, in whatever order the nodes are       *)
(* linked, left behind, freed and handed out again.                        *)
MemorySafe == MemoryOK /\ NoUseAfterFree

(* A dequeue comes back with nothing only from an empty queue: no enqueue  *)
(* that completed is overlooked, nor one that has linked its node.         *)
MissesNothing ==
  [][\A t \in Threads :
       pc[t] = "d_test" /\ pc'[t] = "unlock" => Len(line) = 1]_vars

(* The elements come out in the order they were linked, each once, also    *)
(* when the addresses of freed nodes come back.                            *)
Fifo == INSTANCE FifoQueue WITH
  items <- [i \in 1..Len(line) - 1 |-> data[line[i + 1]]],
  Consumers <- Threads,
  out <- [t \in Threads |-> IF pc[t] = "d_take" THEN data[head] ELSE out[t]]

FifoOrder == Fifo!Spec
-----------------------------------------------------------------------------
(* The inductive invariant: the owner of the mutex is alone inside...      *)
Locked == {"e_link", "e_tail", "unlock", "d_begin", "d_test", "d_take"}

MutexOK ==
  \A t \in Threads : pc[t] \in Locked <=> owner = t

(* ...the list is what the line says, but for the tail of an enqueue that  *)
(* has linked its node and not moved it yet...                             *)
LineOK ==
  /\ line # << >> /\ head = line[1]
  /\ \A i, j \in 1..Len(line) : line[i] = line[j] => i = j
  /\ \A i \in 1..Len(line) : i > 1 => data[line[i]] \in Data
  /\ \A i \in 1..Len(line) :
       next[line[i]] = IF i < Len(line) THEN line[i + 1] ELSE NULL
  /\ (\A t \in Threads : pc[t] # "e_tail") => tail = line[Len(line)]

(* ...and each thread has the node of its operation.                       *)
NodesOK ==
  \A t \in Threads :
    /\ pc[t] \in {"e_lock", "e_link"} =>
         /\ node[t] \in Nodes /\ next[node[t]] = NULL /\ data[node[t]] \in Data
    /\ pc[t] = "e_tail" => node[t] = line[Len(line)]
    /\ pc[t] = "d_test" => node[t] = head
    /\ pc[t] = "d_take" => data[head] \in Data

IInv == MemoryOK /\ MutexOK /\ LineOK /\ NodesOK
=============================================================================
