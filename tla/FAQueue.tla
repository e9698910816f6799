------------------------------ MODULE FAQueue ------------------------------
(***************************************************************************)
(* The fetch-and-add queue of queue/zm_faqueue.c: any number of producers, *)
(* one consumer.  A counter gives every enqueue its cell in an endless     *)
(* array; the array is a list of segments of SegSize cells, which the      *)
(* producers extend (a segment that loses the race for its place is        *)
(* retired at once) and the consumer retires behind it.  Producers take    *)
(* the first segment from q->seg_head without a hazard pointer and may be  *)
(* far behind the consumer by then; nothing that is retired is freed.      *)
(*                                                                         *)
(* zm_hzdptr_retire dereferences zm_my_hplnode, which zm_hzdptr_get sets   *)
(* and zm_faqueue_dequeue never calls.  Registered are the threads that    *)
(* called it before, for another queue; a consumer that did not crashes    *)
(* at DeqRetire, where it is stuck in this model.                          *)
(*                                                                         *)
(* chain and line are history variables: the segments in the order of the  *)
(* list from the very first on, and the data of the enqueues that drew     *)
(* their cell and were not dequeued yet.                                   *)
(***************************************************************************)
EXTENDS HzdPtr

CONSTANTS
  Consumer, Data,
  Offer,     \* the elements each thread may enqueue
  Registered, \* the threads of zm_hzdptr_list, in its order
  SegSize,   \* ZM_MAX_FASEG_SIZE
  MaxTail    \* bounds the enqueues

ASSUME FAQueueAssumption ==
  /\ Consumer \in Threads
  /\ NULL \notin Data
  /\ Offer \in [Threads -> SUBSET Data]
  /\ Registered \in Seq(Threads)
  /\ Nodes # {}
  /\ SegSize \in Nat \ {0}

VARIABLES
  head, tail, seg_head,  \* zm_faqueue_t
  id, cells, next,       \* the fields of the segments; an empty cell is NULL
  alive,                 \* the segments that malloc has handed out
  pc, cell_id, value, seg, lnext,  \* places, locals of enqueue and advance
  out,                   \* *data of the consumer
  chain, line            \* history

queueVars == <<head, tail, seg_head>>
segVars == <<id, cells, next, alive>>
locals == <<cell_id, value, seg, lnext>>
history == <<chain, line>>
faVars == <<queueVars, segVars, pc, locals, out, history>>
vars == <<hpVars, faVars>>

Producers == Threads \ {Consumer}
EmptyCells == [k \in 0 .. SegSize - 1 |-> NULL]

Init ==
  /\ HPInitWith(Registered)
  /\ head = 0 /\ tail = 0
  /\ seg_head = CHOOSE s \in Nodes : TRUE
  /\ alive = {seg_head}
  /\ id = [s \in Nodes |-> 0]
  /\ cells = [s \in Nodes |-> EmptyCells]
  /\ next = [s \in Nodes |-> NULL]
  /\ pc = [t \in Threads |-> "idle"]
  /\ cell_id = [t \in Threads |-> 0]
  /\ value = [t \in Threads |-> NULL]
  /\ seg = [t \in Threads |-> NULL]
  /\ lnext = [t \in Threads |-> NULL]
  /\ out = NULL
  /\ chain = << seg_head >>
  /\ line = << >>

Goto(t, label) == pc' = [pc EXCEPT ![t] = label]
At(t, from, to) == pc[t] = from /\ Goto(t, to)
Set(f, t, v) == [f EXCEPT ![t] = v]

(* trg_seg of zm_facell_find *)
Target(t) == cell_id[t] \div SegSize

(* The loop of zm_facell_find: on to the next segment, or the cell found. *)
Walk(t, s) ==
  /\ seg' = Set(seg, t, s)
  /\ lnext' = Set(lnext, t, NULL)
  /\ Goto(t, IF id[s] < Target(t) THEN "e_next" ELSE "e_store")
-----------------------------------------------------------------------------
(* zm_faqueue_enqueue: the cell... *)
EnqFetchAdd(t) ==
  /\ At(t, "idle", "e_head") /\ t # Consumer
  /\ tail < MaxTail
  /\ tail' = tail + 1
  /\ cell_id' = Set(cell_id, t, tail)
  /\ \E v \in Offer[t] : value' = Set(value, t, v) /\ line' = Append(line, v)
  /\ UNCHANGED <<hpVars, head, seg_head, segVars, seg, lnext, out, chain>>

(* ...the first segment, wherever the consumer is by now... *)
EnqHead(t) ==
  /\ pc[t] = "e_head"
  /\ Walk(t, seg_head)
  /\ UNCHANGED <<hpVars, queueVars, segVars, cell_id, value, out, history>>

(* ...zm_faseg_advance: the first one of a thread allocates its hazard     *)
(* pointers...                                                             *)
EnqGet(t) == pc[t] = "e_next" /\ Allocate(t) /\ UNCHANGED faVars

EnqNext(t) ==
  /\ At(t, "e_next", "e_publish") /\ hpc[t] = "ready"
  /\ lnext' = Set(lnext, t, next[seg[t]])
  /\ UNCHANGED <<hpVars, queueVars, segVars, cell_id, value, seg, out, history>>

(* ...the next segment, protected in hindsight, if there is one... *)
EnqPublish(t) ==
  /\ pc[t] = "e_publish"
  /\ Publish(t, 0, lnext[t])
  /\ IF lnext[t] = NULL THEN Goto(t, "e_alloc") /\ UNCHANGED <<seg, lnext>>
                        ELSE Walk(t, lnext[t])
  /\ UNCHANGED <<queueVars, segVars, cell_id, value, out, history>>

(* ...or a new one, of which lnext holds the address... *)
EnqAlloc(t) ==
  /\ At(t, "e_alloc", "e_cas")
  /\ Nodes # alive
  /\ LET s == CHOOSE n \in Nodes : n \notin alive
     IN  /\ alive' = alive \cup {s}
         /\ id' = Set(id, s, id[seg[t]] + 1)
         /\ cells' = Set(cells, s, EmptyCells)
         /\ next' = Set(next, s, NULL)
         /\ lnext' = Set(lnext, t, s)
  /\ UNCHANGED <<hpVars, queueVars, cell_id, value, seg, out, history>>

(* A store in the place of the compare-and-swap. *)
EnqCASByStore(t) ==
  /\ At(t, "e_cas", "e_reload")
  /\ next' = Set(next, seg[t], lnext[t])
  /\ chain' = Append(chain, lnext[t])
  /\ lnext' = Set(lnext, t, NULL)
  /\ UNCHANGED <<hpVars, queueVars, id, cells, alive, cell_id, value, seg, out,
                 line>>

(* ...which becomes the next one, unless another thread was faster... *)
EnqCAS(t) ==
  /\ pc[t] = "e_cas"
  /\ \/ /\ next[seg[t]] = NULL
        /\ next' = Set(next, seg[t], lnext[t])
        /\ chain' = Append(chain, lnext[t])
        /\ lnext' = Set(lnext, t, NULL)
        /\ Goto(t, "e_reload")
     \/ /\ next[seg[t]] # NULL
        /\ Goto(t, "e_lost")
        /\ UNCHANGED <<next, chain, lnext>>
  /\ UNCHANGED <<hpVars, queueVars, id, cells, alive, cell_id, value, seg, out,
                 line>>

(* The loser goes on with its own segment. *)
EnqLostKept(t) ==
  /\ pc[t] = "e_lost"
  /\ Walk(t, lnext[t])
  /\ UNCHANGED <<hpVars, queueVars, segVars, cell_id, value, out, history>>

EnqLost(t) ==
  /\ At(t, "e_lost", "e_reload")
  /\ Retire(t, lnext[t])
  /\ lnext' = Set(lnext, t, NULL)
  /\ UNCHANGED <<queueVars, segVars, cell_id, value, seg, out, history>>

EnqReload(t) ==
  /\ pc[t] = "e_reload" /\ hpc[t] = "ready"
  /\ Walk(t, next[seg[t]])
  /\ UNCHANGED <<hpVars, queueVars, segVars, cell_id, value, out, history>>

(* ...and the store to the cell. *)
EnqStore(t) ==
  /\ At(t, "e_store", "idle")
  /\ cells' = [cells EXCEPT ![seg[t]][cell_id[t] % SegSize] = value[t]]
  /\ seg' = Set(seg, t, NULL)
  /\ value' = Set(value, t, NULL)
  /\ cell_id' = Set(cell_id, t, 0)
  /\ UNCHANGED <<hpVars, queueVars, id, next, alive, lnext, out, history>>
-----------------------------------------------------------------------------
(* zm_faqueue_dequeue.  Only the consumer stores to head and seg_head. *)
DeqBegin ==
  /\ At(Consumer, "idle", "d_next")
  /\ out' = NULL
  /\ UNCHANGED <<hpVars, queueVars, segVars, locals, history>>

BehindHead == id[seg_head] < head \div SegSize

(* A consumer that takes the end of the list for the end of the queue. *)
DeqNextEnd ==
  /\ pc[Consumer] = "d_next"
  /\ lnext' = Set(lnext, Consumer, next[seg_head])
  /\ Goto(Consumer, IF lnext'[Consumer] = NULL THEN "idle"
                    ELSE IF BehindHead THEN "d_advance" ELSE "d_read")
  /\ UNCHANGED <<hpVars, queueVars, segVars, cell_id, value, seg, out, history>>

DeqNext ==
  /\ pc[Consumer] = "d_next"
  /\ \/ /\ BehindHead /\ next[seg_head] = NULL
        /\ Goto(Consumer, "idle")
        /\ UNCHANGED lnext
     \/ /\ BehindHead /\ next[seg_head] # NULL
        /\ lnext' = Set(lnext, Consumer, next[seg_head])
        /\ Goto(Consumer, "d_advance")
     \/ /\ ~ BehindHead
        /\ Goto(Consumer, "d_read")
        /\ UNCHANGED lnext
  /\ UNCHANGED <<hpVars, queueVars, segVars, cell_id, value, seg, out, history>>

DeqAdvance ==
  /\ At(Consumer, "d_advance", "d_retire")
  /\ seg' = Set(seg, Consumer, seg_head)
  /\ seg_head' = lnext[Consumer]
  /\ lnext' = Set(lnext, Consumer, NULL)
  /\ UNCHANGED <<hpVars, head, tail, segVars, cell_id, value, out, history>>

(* The new first segment retired in the place of the old one. *)
DeqRetireNew ==
  /\ At(Consumer, "d_retire", "d_read")
  /\ Retire(Consumer, seg_head)
  /\ seg' = Set(seg, Consumer, NULL)
  /\ UNCHANGED <<queueVars, segVars, cell_id, value, lnext, out, history>>

DeqRetire ==
  /\ At(Consumer, "d_retire", "d_read")
  /\ Retire(Consumer, seg[Consumer])
  /\ seg' = Set(seg, Consumer, NULL)
  /\ UNCHANGED <<queueVars, segVars, cell_id, value, lnext, out, history>>

HeadCell == cells[seg_head][head % SegSize]

(* The empty cell of a slow enqueue passed over. *)
DeqReadSkips ==
  /\ At(Consumer, "d_read", "idle")
  /\ out' = HeadCell
  /\ head' = IF tail > head THEN head + 1 ELSE head
  /\ line' = IF tail > head THEN Tail(line) ELSE line
  /\ UNCHANGED <<hpVars, tail, seg_head, segVars, locals, chain>>

DeqRead ==
  /\ At(Consumer, "d_read", "idle") /\ hpc[Consumer] = "ready"
  /\ \/ HeadCell = NULL /\ UNCHANGED <<head, out, line>>
     \/ /\ HeadCell # NULL
        /\ out' = HeadCell
        /\ head' = head + 1
        /\ line' = Tail(line)
  /\ UNCHANGED <<hpVars, tail, seg_head, segVars, locals, chain>>

ScanStep(t) == Scan(t) /\ UNCHANGED faVars
-----------------------------------------------------------------------------
Enqueue(t) ==
  \/ EnqHead(t) \/ EnqGet(t) \/ EnqNext(t) \/ EnqPublish(t) \/ EnqAlloc(t)
  \/ EnqCAS(t) \/ EnqLost(t) \/ EnqReload(t) \/ EnqStore(t)

Dequeue == DeqNext \/ DeqAdvance \/ DeqRetire \/ DeqRead

Next ==
  \/ \E t \in Threads : EnqFetchAdd(t) \/ Enqueue(t) \/ ScanStep(t)
  \/ DeqBegin \/ Dequeue

Spec == Init /\ [][Next]_vars

(* A thread inside an operation keeps running, and the consumer keeps      *)
(* polling, as in test/regres/queue/dequeue_count.c.                       *)
FairSpec ==
  /\ Spec
  /\ \A t \in Threads : WF_vars(Enqueue(t) \/ ScanStep(t))
  /\ WF_vars(DeqBegin \/ Dequeue)
-----------------------------------------------------------------------------
TypeOK ==
  /\ HPTypeOK
  /\ head \in Nat /\ tail \in Nat /\ seg_head \in Nodes
  /\ id \in [Nodes -> Nat]
  /\ cells \in [Nodes -> [0 .. SegSize - 1 -> Data \cup {NULL}]]
  /\ next \in [Nodes -> Nodes \cup {NULL}]
  /\ alive \subseteq Nodes
  /\ pc \in [Threads -> {"idle", "e_head", "e_next", "e_publish", "e_alloc",
               "e_cas", "e_lost", "e_reload", "e_store", "d_next", "d_advance",
               "d_retire", "d_read"}]
  /\ cell_id \in [Threads -> Nat]
  /\ value \in [Threads -> Data \cup {NULL}]
  /\ seg \in [Threads -> Nodes \cup {NULL}]
  /\ lnext \in [Threads -> Nodes \cup {NULL}]
  /\ out \in Data \cup {NULL}
  /\ chain \in Seq(Nodes) /\ line \in Seq(Data)

(* A producer never falls behind the consumer for good: the segment it is  *)
(* about to store to is the one of its cell (the assertions of             *)
(* zm_facell_find and zm_faseg_advance) and linked in the list, and its    *)
(* cell is one that the consumer has still to come to and that nobody has  *)
(* stored to.  No variable leaves its type.                                *)
StoresAhead ==
  /\ TypeOK
  /\ \A t \in Producers : pc[t] = "e_store" =>
       /\ Target(t) < Len(chain) /\ seg[t] = chain[Target(t) + 1]
       /\ id[seg_head] <= id[seg[t]] /\ id[seg[t]] = Target(t)
       /\ head <= cell_id[t] /\ cells[seg[t]][cell_id[t] % SegSize] = NULL

(* What is retired is out of the list for good, and retired once, by one   *)
(* thread: a segment the consumer left or one that was never linked.       *)
RetiredBehind ==
  \A t \in Threads :
    /\ \A s \in rlist[t] \cup reclaimed :
         \A k \in 1 .. Len(chain) : chain[k] = s => k <= id[seg_head]
    /\ \A u \in Threads \ {t} : rlist[t] \cap rlist[u] = {}
    /\ pc[t] = "d_retire" => \A u \in Threads : seg[t] \notin rlist[u] \cup reclaimed
    /\ pc[t] = "e_lost" => \A u \in Threads : lnext[t] \notin rlist[u] \cup reclaimed

(* Producers and consumer agree on the segments: no element is stored      *)
(* behind the consumer, over another one, nor in a segment that is not in  *)
(* the list, and none of the segments that are still to be read is retired.*)
SegmentsOK == StoresAhead /\ RetiredBehind

(* A dequeue comes back without an element only if there is none, or if    *)
(* the enqueue that drew the consumer's cell has not stored to it yet: a   *)
(* stalled enqueue hides those behind it, in its segment and in others.    *)
MissJustified ==
  [][pc[Consumer] # "idle" /\ pc'[Consumer] = "idle" /\ out' = NULL =>
       \/ line = << >>
       \/ \E t \in Producers : pc[t] # "idle" /\ cell_id[t] = head]_vars

(* The elements come out in the order of the fetch-and-adds, each once. *)
Fifo == INSTANCE FifoQueue WITH
  items <- line, Consumers <- {Consumer}, out <- [c \in {Consumer} |-> out]

FifoOrder == Fifo!Spec

(* Every element reaches the consumer: no segment of the list is lost, and *)
(* the consumer never waits for a segment that nobody will link.  (The     *)
(* enqueues are bounded, so that in the end nothing is left.)              *)
Delivered == <>[](line = << >>)
-----------------------------------------------------------------------------
(* The inductive invariant.  The list is what chain says: the segments in  *)
(* the order of their numbers, which the consumer goes through...          *)
ListOK ==
  /\ chain # << >>
  /\ \A k \in 1 .. Len(chain) :
       /\ chain[k] \in alive
       /\ id[chain[k]] = k - 1
       /\ next[chain[k]] = IF k < Len(chain) THEN chain[k + 1] ELSE NULL
  /\ id[seg_head] < Len(chain) /\ chain[id[seg_head] + 1] = seg_head

ConsumerOK ==
  /\ pc[Consumer] \in {"idle", "d_next", "d_advance", "d_retire", "d_read"}
  /\ head \div SegSize \in {id[seg_head], id[seg_head] + 1}
  /\ pc[Consumer] \in {"d_retire", "d_read"} => head \div SegSize = id[seg_head]
  /\ pc[Consumer] = "d_advance" =>
       /\ head \div SegSize = id[seg_head] + 1
       /\ next[seg_head] # NULL /\ lnext[Consumer] = next[seg_head]
  /\ pc[Consumer] = "d_retire" =>
       id[seg_head] > 0 /\ seg[Consumer] = chain[id[seg_head]]

(* ...a producer walks from a segment before its own to the next...        *)
Walking == {"e_next", "e_publish", "e_alloc", "e_cas", "e_lost", "e_reload"}

(* ...and has a segment of its own where it may link one...                *)
Owns(t) == t \in Producers /\ pc[t] \in {"e_cas", "e_lost"}

WalkOK(t) ==
  /\ pc[t] \notin {"d_next", "d_advance", "d_retire", "d_read"}
  /\ pc[t] \in Walking =>
       /\ seg[t] \in Nodes /\ id[seg[t]] < Len(chain)
       /\ chain[id[seg[t]] + 1] = seg[t]
       /\ id[seg[t]] < Target(t)
  /\ pc[t] = "e_publish" => lnext[t] \in {NULL, next[seg[t]]}
  /\ pc[t] \in {"e_lost", "e_reload"} => next[seg[t]] # NULL
  /\ pc[t] = "e_store" =>
       Target(t) < Len(chain) /\ seg[t] = chain[Target(t) + 1]

OwnOK(t) ==
  Owns(t) =>
    /\ lnext[t] \in alive
    /\ \A k \in 1 .. Len(chain) : chain[k] # lnext[t]
    /\ \A u \in Producers \ {t} : Owns(u) => lnext[u] # lnext[t]
    /\ pc[t] = "e_cas" =>
         /\ id[lnext[t]] = id[seg[t]] + 1
         /\ next[lnext[t]] = NULL /\ cells[lnext[t]] = EmptyCells

(* ...the cells hold what was stored to them: an element of the line where *)
(* its enqueue is over, and nothing where one is under way or to come...   *)
Claims(t, c) == t \in Producers /\ pc[t] # "idle" /\ cell_id[t] = c

CellAt(c) == cells[chain[c \div SegSize + 1]][c % SegSize]

CellsOK ==
  /\ head <= tail /\ Len(line) = tail - head
  /\ \A t \in Producers : pc[t] # "idle" =>
       /\ head <= cell_id[t] /\ cell_id[t] < tail
       /\ value[t] = line[cell_id[t] - head + 1]
       /\ \A u \in Producers \ {t} : pc[u] # "idle" => cell_id[u] # cell_id[t]
  /\ \A c \in head .. tail - 1 :
       \/ \E t \in Producers : Claims(t, c)
       \/ c \div SegSize < Len(chain) /\ CellAt(c) = line[c - head + 1]
  /\ \A c \in Nat :
       /\ c \div SegSize < Len(chain)
       /\ c >= tail \/ \E t \in Producers : Claims(t, c)
       => CellAt(c) = NULL

(* ...and what is retired is out of everybody's hands.                     *)
Retired == reclaimed \cup UNION {rlist[t] : t \in Threads}

RetiredOK ==
  /\ Retired \subseteq alive
  /\ \A t, u \in Threads : t # u => rlist[t] \cap rlist[u] = {}
  /\ \A k \in 1 .. Len(chain) : chain[k] \in Retired =>
       /\ k <= id[seg_head]
       /\ pc[Consumer] = "d_retire" => k < id[seg_head]
  /\ \A t \in Producers : Owns(t) => lnext[t] \notin Retired

IInv ==
  /\ TypeOK /\ ListOK /\ ConsumerOK
  /\ \A t \in Producers : WalkOK(t) /\ OwnOK(t)
  /\ CellsOK /\ RetiredOK
=============================================================================
