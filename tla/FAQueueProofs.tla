--------------------------- MODULE FAQueueProofs ---------------------------
(***************************************************************************)
(* The proofs about the fetch-and-add queue, for every number of threads,  *)
(* segments and elements and every segment size: the segments are a list   *)
(* in the order of their numbers, producers and consumer agree on it, and  *)
(* the queue is a FIFO queue whose misses are justified.                   *)
(***************************************************************************)
EXTENDS FAQueue, SequenceTheorems, TLAPS

(* The cell numbers: segment and place in the segment determine a cell,    *)
(* and the segments come in the order of the cells.                        *)
LEMMA Division ==
  ASSUME NEW c \in Nat
  PROVE  /\ c \div SegSize \in Nat /\ c % SegSize \in 0 .. SegSize - 1
         /\ \E q \in Nat, r \in 0 .. SegSize - 1, p \in Nat :
              c \div SegSize = q /\ c % SegSize = r /\ p = SegSize * q /\ c = p + r
<1>1. SegSize \in Nat \ {0}
  BY FAQueueAssumption
<1>2. c \div SegSize \in Nat /\ c % SegSize \in 0 .. SegSize - 1
  BY <1>1
<1>3. \A q \in Nat : SegSize * q \in Nat
  BY <1>1
<1> DEFINE q == c \div SegSize
           r == c % SegSize
           p == SegSize * q
<1>4. q \in Nat /\ r \in 0 .. SegSize - 1 /\ p \in Nat
  BY <1>2, <1>3, Zenon
<1>5. q = c \div SegSize /\ r = c % SegSize /\ p = SegSize * q
  OBVIOUS
<1> HIDE DEF q, r, p
<1>6. c = p + r
  BY <1>1, <1>5
<1>7. \E qq \in Nat, rr \in 0 .. SegSize - 1, pp \in Nat :
        c \div SegSize = qq /\ c % SegSize = rr /\ pp = SegSize * qq /\ c = pp + rr
  BY <1>4, <1>5, <1>6, Zenon
<1> QED
  BY <1>2, <1>7, Zenon

LEMMA Times ==
  ASSUME NEW p \in Nat, NEW q \in Nat, p < q, NEW x, x = SegSize * p, NEW y, y = SegSize * q
  PROVE  x + SegSize <= y
<1>1. SegSize \in Nat \ {0}
  BY FAQueueAssumption
<1>2. PICK d \in Nat : q = p + 1 + d
  <2>1. q - p - 1 \in Nat /\ q = p + 1 + (q - p - 1)
    OBVIOUS
  <2> QED
    BY <2>1
<1>3. PICK z \in Nat : z = SegSize * d
  BY <1>1
<1>4. y = x + SegSize + z
  BY <1>1, <1>2, <1>3
<1>5. x \in Nat
  BY <1>1
<1> QED
  BY <1>1, <1>3, <1>4, <1>5

LEMMA DivisionInjective ==
  ASSUME NEW c \in Nat, NEW d \in Nat,
         c \div SegSize = d \div SegSize, c % SegSize = d % SegSize
  PROVE  c = d
<1>1. PICK q \in Nat, r \in 0 .. SegSize - 1, x \in Nat :
        c \div SegSize = q /\ c % SegSize = r /\ x = SegSize * q /\ c = x + r
  BY Division
<1>2. PICK p \in Nat, s \in 0 .. SegSize - 1, y \in Nat :
        d \div SegSize = p /\ d % SegSize = s /\ y = SegSize * p /\ d = y + s
  BY Division
<1>3. q = p /\ r = s
  BY <1>1, <1>2, Zenon
<1> QED
  BY <1>1, <1>2, <1>3, Zenon

LEMMA DivisionMonotone ==
  ASSUME NEW c \in Nat, NEW d \in Nat, c <= d
  PROVE  c \div SegSize <= d \div SegSize
<1>1. PICK q \in Nat, r \in 0 .. SegSize - 1, x \in Nat :
        c \div SegSize = q /\ c % SegSize = r /\ x = SegSize * q /\ c = x + r
  BY Division
<1>2. PICK p \in Nat, s \in 0 .. SegSize - 1, y \in Nat :
        d \div SegSize = p /\ d % SegSize = s /\ y = SegSize * p /\ d = y + s
  BY Division
<1>3. p < q => y + SegSize <= x
  BY <1>1, <1>2, Times
<1>4. SegSize \in Nat
  BY FAQueueAssumption
<1>5. c = x + r /\ d = y + s
  BY <1>1, <1>2
<1>6. q <= p
  BY <1>3, <1>4, <1>5
<1> QED
  BY <1>1, <1>2, <1>6

LEMMA DivisionNext ==
  ASSUME NEW c \in Nat
  PROVE  (c + 1) \div SegSize \in {c \div SegSize, c \div SegSize + 1}
<1>1. PICK q \in Nat, r \in 0 .. SegSize - 1, x \in Nat :
        c \div SegSize = q /\ c % SegSize = r /\ x = SegSize * q /\ c = x + r
  BY Division
<1>2. PICK p \in Nat, s \in 0 .. SegSize - 1, y \in Nat :
        /\ (c + 1) \div SegSize = p /\ (c + 1) % SegSize = s
        /\ y = SegSize * p /\ c + 1 = y + s
  <2>1. c + 1 \in Nat
    OBVIOUS
  <2> QED
    BY <2>1, Division
<1>3. q <= p
  BY <1>1, <1>2, DivisionMonotone
<1>4. SegSize \in Nat \ {0}
  BY FAQueueAssumption
<1>5. PICK z \in Nat : z = SegSize * (q + 1) /\ z = x + SegSize
  BY <1>1, <1>4
<1>6. q + 1 < p => z + SegSize <= y
  BY <1>2, <1>5, Times
<1>7. c = x + r /\ c + 1 = y + s
  BY <1>1, <1>2
<1>8. p <= q + 1
  BY <1>4, <1>5, <1>6, <1>7
<1>9. p = q \/ p = q + 1
  BY <1>3, <1>8
<1> QED
  BY <1>1, <1>2, <1>9

(* Of the list: its segments are not NULL and all different, the number of *)
(* a segment is its place, and the first one is where the consumer is.     *)
LEMMA ListFacts ==
  ASSUME IInv
  PROVE  /\ NULL \notin Nodes /\ NULL \notin Data
         /\ Len(chain) \in Nat /\ Len(chain) > 0
         /\ \A k \in 1 .. Len(chain) :
              chain[k] \in Nodes /\ chain[k] # NULL /\ id[chain[k]] \in Nat
         /\ \A j, k \in 1 .. Len(chain) : chain[j] = chain[k] => j = k
         /\ id[seg_head] \in Nat /\ id[seg_head] + 1 \in 1 .. Len(chain)
         /\ next[seg_head] = IF id[seg_head] + 1 < Len(chain)
                             THEN chain[id[seg_head] + 2] ELSE NULL
<1>1. NULL \notin Nodes /\ NULL \notin Data
  BY HzdPtrAssumption, FAQueueAssumption
<1>2. /\ TypeOK /\ ListOK /\ chain \in Seq(Nodes) /\ id \in [Nodes -> Nat]
      /\ seg_head \in Nodes
  BY DEF IInv, TypeOK
<1>3. Len(chain) \in Nat /\ Len(chain) > 0
  BY <1>2 DEF ListOK
<1>4. ASSUME NEW k \in 1 .. Len(chain)
      PROVE  chain[k] \in Nodes /\ chain[k] # NULL /\ id[chain[k]] \in Nat
  BY <1>1, <1>2
<1>5. ASSUME NEW j \in 1 .. Len(chain), NEW k \in 1 .. Len(chain), chain[j] = chain[k]
      PROVE  j = k
  BY <1>2, <1>5 DEF ListOK
<1>6. id[seg_head] \in Nat /\ id[seg_head] + 1 \in 1 .. Len(chain)
  BY <1>2, <1>3 DEF ListOK
<1>7. next[seg_head] = IF id[seg_head] + 1 < Len(chain)
                       THEN chain[id[seg_head] + 2] ELSE NULL
  BY <1>2, <1>6 DEF ListOK
<1> QED
  BY <1>1, <1>3, <1>4, <1>5, <1>6, <1>7
-----------------------------------------------------------------------------
(* The types of the hazard pointers.                                       *)
LEMMA SlotOrderOK ==
  ASSUME hplist \in Seq(Threads)
  PROVE  SlotOrder \in Seq(Threads \X Slots)
<1> DEFINE n == Len(hplist)
<1>1. n \in Nat /\ 2 * n \in Nat
  OBVIOUS
<1>2. \A j \in 1 .. (2 * n) : (j + 1) \div 2 \in 1 .. n /\ (j + 1) % 2 \in {0, 1}
  BY <1>1
<1>3. SlotOrder \in [1 .. (2 * n) -> Threads \X Slots]
  BY <1>2 DEF SlotOrder, Slots
<1> QED
  BY <1>1, <1>3

LEMMA HPTypes ==
  ASSUME HPTypeOK, NEW t \in Threads, NEW n \in Nodes \cup {NULL}, NEW i \in Slots,
         \/ Allocate(t) \/ Scan(t) \/ Publish(t, i, n)
         \/ (n # NULL /\ Retire(t, n)) \/ UNCHANGED hpVars
  PROVE  HPTypeOK'
<1>1. CASE AllocLength(t)
  BY <1>1 DEF AllocLength, HPGoto, HPTypeOK
<1>2. CASE AllocPush(t)
  <2>1. hplist' \in Seq(Threads)
    BY <1>2 DEF AllocPush, HPTypeOK
  <2> QED
    BY <1>2, <2>1 DEF AllocPush, HPGoto, HPTypeOK
<1>3. CASE AllocInit(t)
  BY <1>3 DEF AllocInit, HPGoto, HPTypeOK
<1>4. CASE ScanRead(t)
  <2>1. todo[t] \in Seq(Threads \X Slots) /\ todo[t] # << >>
    BY <1>4 DEF ScanRead, HPTypeOK
  <2>2. Head(todo[t]) \in Threads \X Slots /\ Tail(todo[t]) \in Seq(Threads \X Slots)
    BY <2>1
  <2>3. hp[Head(todo[t])[1]][Head(todo[t])[2]] \in Nodes \cup {NULL}
    BY <2>2 DEF HPTypeOK
  <2> QED
    BY <1>4, <2>2, <2>3 DEF ScanRead, HPTypeOK
<1>5. CASE ScanRemove(t)
  BY <1>5 DEF ScanRemove, HPGoto, HPTypeOK
<1>6. CASE Publish(t, i, n)
  BY <1>6 DEF Publish, HPTypeOK
<1>7. CASE n # NULL /\ Retire(t, n)
  BY <1>7, SlotOrderOK DEF Retire, HPGoto, HPTypeOK
<1>8. CASE UNCHANGED hpVars
  BY <1>8 DEF hpVars, HPTypeOK
<1> QED
  BY <1>1, <1>2, <1>3, <1>4, <1>5, <1>6, <1>7, <1>8 DEF Allocate, Scan

LEMMA InitInv == Init => IInv
<1> SUFFICES ASSUME Init PROVE IInv
  OBVIOUS
<1>1. NULL \notin Nodes /\ NULL \notin Data /\ SegSize \in Nat \ {0} /\ Consumer \in Threads
  BY HzdPtrAssumption, FAQueueAssumption
<1>2. seg_head \in Nodes
  BY FAQueueAssumption DEF Init
<1>3. HPTypeOK /\ Retired = {}
  <2>1. Registered \in Seq(Threads) /\ Len(Registered) \in Nat
    BY FAQueueAssumption
  <2>2. HPTypeOK
    BY <2>1 DEF Init, HPInitWith, HPTypeOK
  <2>3. Retired = {}
    BY DEF Init, HPInitWith, Retired
  <2> QED
    BY <2>2, <2>3
<1>4. EmptyCells \in [0 .. SegSize - 1 -> Data \cup {NULL}]
  BY <1>1 DEF EmptyCells
<1>5. TypeOK
  <2>1. chain \in Seq(Nodes) /\ line \in Seq(Data)
    BY <1>2 DEF Init
  <2> QED
    BY <1>2, <1>3, <1>4, <2>1 DEF Init, TypeOK
<1>6. Len(chain) = 1 /\ chain[1] = seg_head /\ chain # << >>
  BY DEF Init
<1>7. ListOK
  BY <1>2, <1>6 DEF Init, ListOK
<1>8. 0 \div SegSize = 0
  BY <1>1
<1>9. ConsumerOK
  BY <1>1, <1>2, <1>8 DEF Init, ConsumerOK
<1>10. \A t \in Producers : WalkOK(t) /\ OwnOK(t)
  BY DEF Init, WalkOK, OwnOK, Owns, Walking, Producers
<1>11. CellsOK
  <2>1. head = 0 /\ tail = 0 /\ Len(line) = 0 /\ \A t \in Producers : pc[t] = "idle"
    BY DEF Init, Producers
  <2>2. ASSUME NEW c \in Nat, c \div SegSize < Len(chain) PROVE CellAt(c) = NULL
    <3>1. c \div SegSize = 0 /\ c % SegSize \in 0 .. SegSize - 1
      <4>1. c \div SegSize \in Nat /\ c % SegSize \in 0 .. SegSize - 1
        BY Division
      <4> QED
        BY <1>6, <2>2, <4>1
    <3>2. chain[c \div SegSize + 1] = seg_head
      BY <1>6, <3>1
    <3>3. cells[seg_head] = EmptyCells
      BY <1>2 DEF Init
    <3>4. CellAt(c) = EmptyCells[c % SegSize]
      BY <3>2, <3>3, Zenon DEF CellAt
    <3>5. \A k \in 0 .. SegSize - 1 : EmptyCells[k] = NULL
      BY DEF EmptyCells
    <3> QED
      BY <3>1, <3>4, <3>5, Zenon
  <2> QED
    BY <2>1, <2>2 DEF CellsOK
<1>12. RetiredOK
  BY <1>3, <1>6 DEF Init, HPInitWith, RetiredOK, OwnOK, Owns, Producers
<1> QED
  BY <1>5, <1>7, <1>9, <1>10, <1>11, <1>12 DEF IInv
-----------------------------------------------------------------------------
(* What a step does not touch keeps its part of the invariant.             *)
LEMMA WalkFrame ==
  ASSUME IInv, NEW u \in Producers, UNCHANGED <<id, next, chain, cell_id>>,
         pc'[u] = pc[u], seg'[u] = seg[u], lnext'[u] = lnext[u]
  PROVE  WalkOK(u)'
<1>1. WalkOK(u) /\ Target(u)' = Target(u)
  BY DEF IInv, Target
<1> QED
  BY <1>1 DEF WalkOK

LEMMA OwnFrame ==
  ASSUME IInv, NEW u \in Producers, UNCHANGED <<id, next, chain, cells, alive>>,
         pc'[u] = pc[u], seg'[u] = seg[u],
         \A w \in Producers : Owns(w)' => Owns(w) /\ lnext'[w] = lnext[w]
  PROVE  OwnOK(u)'
<1>1. OwnOK(u) /\ (Owns(u)' => Owns(u) /\ lnext'[u] = lnext[u])
  BY DEF IInv
<1> QED
  BY <1>1 DEF OwnOK

LEMMA ListFrame ==
  ASSUME IInv, UNCHANGED <<id, next, chain, seg_head>>, alive \subseteq alive'
  PROVE  ListOK'
BY DEF IInv, ListOK

LEMMA CellsFrame ==
  ASSUME IInv, UNCHANGED <<head, tail, line, chain, cells, cell_id, value>>,
         \A u \in Producers : pc'[u] = "idle" <=> pc[u] = "idle"
  PROVE  CellsOK'
<1>1. \A u, c : Claims(u, c)' <=> Claims(u, c)
  BY DEF Claims
<1>2. \A c : CellAt(c)' = CellAt(c)
  BY DEF CellAt
<1>3. CellsOK
  BY DEF IInv
<1> QED
  BY <1>1, <1>2, <1>3 DEF CellsOK

LEMMA ConsumerFrame ==
  ASSUME IInv, UNCHANGED <<head, id, next, chain, seg_head>>,
         pc'[Consumer] = pc[Consumer], seg'[Consumer] = seg[Consumer],
         lnext'[Consumer] = lnext[Consumer]
  PROVE  ConsumerOK'
BY DEF IInv, ConsumerOK

LEMMA RetiredFrame ==
  ASSUME IInv, UNCHANGED <<id, chain, seg_head>>, alive \subseteq alive',
         Retired' \subseteq Retired,
         \A u, w \in Threads : u # w => rlist'[u] \cap rlist'[w] = {},
         pc'[Consumer] = "d_retire" => pc[Consumer] = "d_retire",
         \A w \in Producers : Owns(w)' => Owns(w) /\ lnext'[w] = lnext[w]
  PROVE  RetiredOK'
<1>1. RetiredOK
  BY DEF IInv
<1> QED
  BY <1>1 DEF RetiredOK

(* A step of one thread on its way through the segments.                   *)
LEMMA OwnStep ==
  ASSUME IInv, NEW t \in Producers, TypeOK',
         UNCHANGED <<queueVars, segVars, cell_id, value, history>>,
         \A u \in Threads \ {t} :
           pc'[u] = pc[u] /\ seg'[u] = seg[u] /\ lnext'[u] = lnext[u],
         pc[t] # "idle", pc'[t] # "idle",
         Owns(t)' => Owns(t) /\ lnext'[t] = lnext[t] /\ seg'[t] = seg[t],
         pc'[t] = "e_cas" => pc[t] = "e_cas",
         WalkOK(t)', RetiredOK'
  PROVE  IInv'
<1>1. /\ UNCHANGED <<head, tail, seg_head, id, cells, next, alive, cell_id, value, chain, line>>
      /\ Consumer \in Threads \ {t} /\ \A u \in Producers : u \in Threads
  BY FAQueueAssumption DEF queueVars, segVars, history, Producers
<1>2. \A w \in Producers : Owns(w)' => Owns(w) /\ lnext'[w] = lnext[w]
  BY <1>1 DEF Owns
<1>3. ListOK' /\ ConsumerOK'
  BY <1>1, ListFrame, ConsumerFrame
<1>4. ASSUME NEW u \in Producers PROVE WalkOK(u)' /\ OwnOK(u)'
  <2>1. CASE u # t
    BY <1>1, <1>2, <1>4, <2>1, WalkFrame, OwnFrame
  <2>2. CASE u = t
    <3>1. OwnOK(t)
      BY DEF IInv
    <3>2. OwnOK(t)'
      BY <1>1, <1>2, <3>1 DEF OwnOK
    <3> QED
      BY <2>2, <3>2
  <2> QED
    BY <2>1, <2>2
<1>5. CellsOK'
  <2>1. \A u \in Producers : pc'[u] = "idle" <=> pc[u] = "idle"
    BY <1>1
  <2> QED
    BY <1>1, <2>1, CellsFrame
<1> QED
  BY <1>3, <1>4, <1>5 DEF IInv

-----------------------------------------------------------------------------
(* What every enqueue has to do with the list and the line.                *)
LEMMA EnqFacts ==
  ASSUME IInv, NEW t \in Producers
  PROVE  /\ t \in Threads /\ t # Consumer
         /\ cell_id[t] \in Nat /\ Target(t) \in Nat
         /\ head \in Nat /\ head \div SegSize \in Nat
         /\ pc[t] # "idle" => id[seg_head] <= Target(t)
<1>1. t \in Threads /\ t # Consumer
  BY DEF Producers
<1>2. cell_id[t] \in Nat /\ head \in Nat
  BY <1>1 DEF IInv, TypeOK
<1>3. Target(t) \in Nat /\ head \div SegSize \in Nat
  BY <1>2, Division DEF Target
<1>4. ASSUME pc[t] # "idle" PROVE id[seg_head] <= Target(t)
  <2>1. head <= cell_id[t]
    BY <1>4 DEF IInv, CellsOK
  <2>2. head \div SegSize <= Target(t)
    BY <1>2, <2>1, DivisionMonotone DEF Target
  <2>3. id[seg_head] <= head \div SegSize
    BY <1>3, ListFacts DEF IInv, ConsumerOK
  <2> QED
    BY <1>3, <2>2, <2>3, ListFacts
<1> QED
  BY <1>1, <1>2, <1>3, <1>4

LEMMA WalkerFacts ==
  ASSUME IInv, NEW t \in Producers, pc[t] \in Walking
  PROVE  /\ WalkOK(t) /\ seg[t] \in Nodes /\ id[seg[t]] \in Nat
         /\ id[seg[t]] + 1 \in 1 .. Len(chain) /\ chain[id[seg[t]] + 1] = seg[t]
<1>1. /\ WalkOK(t) /\ seg[t] \in Nodes
      /\ id[seg[t]] < Len(chain) /\ chain[id[seg[t]] + 1] = seg[t]
  BY DEF IInv, WalkOK
<1>2. id[seg[t]] \in Nat /\ Len(chain) \in Nat
  BY <1>1, ListFacts DEF IInv, TypeOK
<1> QED
  BY <1>1, <1>2

LEMMA CellFacts ==
  ASSUME IInv, NEW c \in Nat, c \div SegSize < Len(chain)
  PROVE  /\ c \div SegSize \in Nat /\ c \div SegSize + 1 \in 1 .. Len(chain)
         /\ c % SegSize \in 0 .. SegSize - 1
         /\ chain[c \div SegSize + 1] \in Nodes
<1>1. c \div SegSize \in Nat /\ c % SegSize \in 0 .. SegSize - 1
  BY Division
<1>2. Len(chain) \in Nat
  BY ListFacts
<1>3. c \div SegSize + 1 \in 1 .. Len(chain)
  BY <1>1, <1>2
<1> QED
  BY <1>1, <1>3, ListFacts

LEMMA FetchAddInv ==
  ASSUME IInv, NEW t \in Threads, EnqFetchAdd(t)
  PROVE  IInv'
<1> TypeOK
  BY DEF IInv
<1>1. /\ t \in Producers /\ t # Consumer /\ pc[t] = "idle" /\ pc' = [pc EXCEPT ![t] = "e_head"]
      /\ tail' = tail + 1 /\ cell_id' = [cell_id EXCEPT ![t] = tail]
      /\ UNCHANGED <<hpVars, head, seg_head, id, cells, next, alive, seg, lnext, out, chain>>
  BY DEF EnqFetchAdd, At, Goto, Set, Producers, segVars
<1>2. PICK v \in Data : value' = [value EXCEPT ![t] = v] /\ line' = Append(line, v)
  BY FAQueueAssumption DEF EnqFetchAdd, Set
<1>3. HPTypeOK' /\ Retired' = Retired /\ rlist' = rlist
  BY <1>1, HPTypes DEF hpVars, TypeOK, HPTypeOK, Retired
<1>4. line' \in Seq(Data)
  BY <1>2 DEF TypeOK
<1>5. TypeOK'
  BY <1>1, <1>2, <1>3, <1>4 DEF TypeOK
<1>6. \A w \in Producers : Owns(w)' => Owns(w) /\ lnext'[w] = lnext[w]
  BY <1>1 DEF Owns, TypeOK
<1>7. ListOK' /\ ConsumerOK' /\ pc'[Consumer] = pc[Consumer]
  BY <1>1, ListFrame, ConsumerFrame, FAQueueAssumption DEF TypeOK
<1>8. RetiredOK'
  BY <1>1, <1>3, <1>6, <1>7, RetiredFrame DEF IInv, RetiredOK
<1>9. ASSUME NEW u \in Producers PROVE WalkOK(u)' /\ OwnOK(u)'
  <2>1. CASE u # t
    <3>1. /\ pc'[u] = pc[u] /\ seg'[u] = seg[u] /\ lnext'[u] = lnext[u]
          /\ cell_id'[u] = cell_id[u]
      BY <1>1, <2>1 DEF TypeOK, Producers
    <3>2. OwnOK(u)'
      BY <1>1, <1>6, <3>1, OwnFrame
    <3>3. WalkOK(u) /\ Target(u)' = Target(u)
      BY <3>1 DEF IInv, Target
    <3> QED
      BY <1>1, <3>1, <3>2, <3>3 DEF WalkOK
  <2>2. CASE u = t
    BY <1>1, <2>2 DEF WalkOK, OwnOK, Owns, Walking, TypeOK, Producers
  <2> QED
    BY <2>1, <2>2
<1>10. CellsOK'
  <2>1. /\ head \in Nat /\ tail \in Nat /\ head <= tail /\ Len(line) = tail - head
        /\ line \in Seq(Data)
    BY DEF IInv, CellsOK, TypeOK
  <2>2. /\ Len(line') = tail' - head /\ line'[tail - head + 1] = value'[t]
        /\ \A k \in 1 .. Len(line) : line'[k] = line[k]
    BY <1>1, <1>2, <2>1 DEF TypeOK
  <2>3. \A u \in Producers \ {t} :
          pc'[u] = pc[u] /\ cell_id'[u] = cell_id[u] /\ value'[u] = value[u]
    BY <1>1, <1>2 DEF TypeOK, Producers
  <2>4. pc'[t] # "idle" /\ cell_id'[t] = tail
    BY <1>1 DEF TypeOK
  <2>5. \A c : CellAt(c)' = CellAt(c)
    BY <1>1 DEF CellAt
  <2>6. ASSUME NEW u \in Producers, pc'[u] # "idle"
        PROVE  /\ head' <= cell_id'[u] /\ cell_id'[u] < tail'
               /\ value'[u] = line'[cell_id'[u] - head' + 1]
               /\ \A w \in Producers \ {u} : pc'[w] # "idle" => cell_id'[w] # cell_id'[u]
    <3>1. \A w \in Producers \ {t} : pc[w] # "idle" =>
            /\ head <= cell_id[w] /\ cell_id[w] < tail /\ cell_id[w] \in Nat
            /\ value[w] = line[cell_id[w] - head + 1]
      BY EnqFacts DEF IInv, CellsOK
    <3>2. CASE u = t
      BY <1>1, <2>1, <2>2, <2>3, <2>4, <3>1, <3>2
    <3>3. CASE u # t
      <4>1. /\ head <= cell_id[u] /\ cell_id[u] < tail /\ cell_id[u] \in Nat
            /\ value[u] = line[cell_id[u] - head + 1] /\ pc[u] # "idle"
        BY <2>3, <2>6, <3>1, <3>3
      <4>2. \A w \in Producers \ {u, t} : pc[w] # "idle" => cell_id[w] # cell_id[u]
        BY <4>1 DEF IInv, CellsOK
      <4>3. cell_id[u] - head + 1 \in 1 .. Len(line)
        BY <2>1, <4>1
      <4>4. value'[u] = line'[cell_id'[u] - head' + 1]
        BY <1>1, <2>2, <2>3, <3>3, <4>1, <4>3
      <4>5. \A w \in Producers \ {u} : pc'[w] # "idle" => cell_id'[w] # cell_id'[u]
        BY <2>3, <2>4, <3>3, <4>1, <4>2, <2>1
      <4> QED
        BY <1>1, <2>1, <2>3, <3>3, <4>1, <4>4, <4>5
    <3> QED
      BY <3>2, <3>3
  <2>7. \A u, c : Claims(u, c) => Claims(u, c)'
    BY <1>1, <2>3 DEF Claims
  <2>8. \A c : c = tail => Claims(t, c)'
    BY <1>1, <2>4 DEF Claims
  <2>9. ASSUME NEW c \in head' .. tail' - 1
        PROVE  \/ \E u \in Producers : Claims(u, c)'
               \/ c \div SegSize < Len(chain)' /\ CellAt(c)' = line'[c - head' + 1]
    <3>1. CASE c = tail
      BY <1>1, <2>8, <3>1
    <3>2. CASE c # tail
      <4>1. c \in head .. tail - 1
        BY <1>1, <2>1, <3>2
      <4>2. \/ \E u \in Producers : Claims(u, c)
            \/ c \div SegSize < Len(chain) /\ CellAt(c) = line[c - head + 1]
        BY <4>1 DEF IInv, CellsOK
      <4>3. c - head + 1 \in 1 .. Len(line)
        BY <2>1, <4>1
      <4> QED
        BY <1>1, <2>2, <2>5, <2>7, <4>2, <4>3
    <3> QED
      BY <3>1, <3>2
  <2>10. ASSUME NEW c \in Nat, (c \div SegSize < Len(chain))',
                c >= tail' \/ \E u \in Producers : Claims(u, c)'
         PROVE  CellAt(c)' = NULL
    <3>1. c >= tail \/ \E u \in Producers : Claims(u, c)
      <4>1. c >= tail' => c >= tail
        BY <1>1, <2>1
      <4>2. c = tail => c >= tail
        BY <2>1
      <4>3. ASSUME NEW u \in Producers, Claims(u, c)'
            PROVE  c = tail \/ Claims(u, c)
        BY <2>3, <2>4, <4>3 DEF Claims
      <4> QED
        BY <2>10, <4>1, <4>2, <4>3
    <3> QED
      BY <1>1, <2>5, <2>10, <3>1 DEF IInv, CellsOK
  <2> QED
    BY <1>1, <2>1, <2>2, <2>6, <2>9, <2>10 DEF CellsOK
<1> QED
  BY <1>5, <1>7, <1>8, <1>9, <1>10 DEF IInv

(* The loop of zm_facell_find at a segment of the list.                    *)
LEMMA WalkTo ==
  ASSUME IInv, NEW t \in Producers, NEW s \in Nodes, Walk(t, s),
         id[s] < Len(chain), chain[id[s] + 1] = s, id[s] <= Target(t),
         UNCHANGED <<id, next, chain, cell_id>>
  PROVE  /\ WalkOK(t)'
         /\ pc' = [pc EXCEPT ![t] = pc'[t]] /\ pc'[t] \in {"e_next", "e_store"}
         /\ seg' = [seg EXCEPT ![t] = s] /\ lnext' = [lnext EXCEPT ![t] = NULL]
<1>1. t \in Threads /\ Target(t) \in Nat /\ id[s] \in Nat /\ TypeOK
  BY EnqFacts DEF IInv, TypeOK
<1>2. /\ pc' = [pc EXCEPT ![t] = IF id[s] < Target(t) THEN "e_next" ELSE "e_store"]
      /\ seg' = [seg EXCEPT ![t] = s] /\ lnext' = [lnext EXCEPT ![t] = NULL]
  BY DEF Walk, Set, Goto
<1>3. /\ pc'[t] = (IF id[s] < Target(t) THEN "e_next" ELSE "e_store")
      /\ seg'[t] = s /\ Target(t)' = Target(t)
  BY <1>1, <1>2 DEF TypeOK, Target
<1>4. id[s] < Target(t) \/ id[s] = Target(t)
  BY <1>1
<1>5. WalkOK(t)'
  BY <1>3, <1>4 DEF WalkOK, Walking
<1> QED
  BY <1>2, <1>3, <1>5

LEMMA NextSegment ==
  ASSUME IInv, NEW t \in Producers, pc[t] \in Walking, next[seg[t]] # NULL
  PROVE  /\ next[seg[t]] \in Nodes
         /\ id[next[seg[t]]] < Len(chain)
         /\ chain[id[next[seg[t]]] + 1] = next[seg[t]]
         /\ id[next[seg[t]]] <= Target(t)
<1>1. /\ seg[t] \in Nodes /\ id[seg[t]] < Len(chain) /\ chain[id[seg[t]] + 1] = seg[t]
      /\ id[seg[t]] < Target(t) /\ id[seg[t]] \in Nat /\ Target(t) \in Nat
  BY EnqFacts DEF IInv, WalkOK, TypeOK
<1> DEFINE k == id[seg[t]] + 1
<1>2. k \in 1 .. Len(chain) /\ Len(chain) \in Nat
  BY <1>1, ListFacts
<1>3. next[seg[t]] = IF k < Len(chain) THEN chain[k + 1] ELSE NULL
  BY <1>1, <1>2 DEF IInv, ListOK
<1>4. k + 1 \in 1 .. Len(chain) /\ next[seg[t]] = chain[k + 1]
  BY <1>2, <1>3
<1>5. id[next[seg[t]]] = k /\ next[seg[t]] \in Nodes
  <2>1. id[chain[k + 1]] = (k + 1) - 1 /\ chain[k + 1] \in Nodes
    BY <1>4, ListFacts DEF IInv, ListOK
  <2>2. (k + 1) - 1 = k
    BY <1>2
  <2> QED
    BY <1>4, <2>1, <2>2
<1> QED
  BY <1>1, <1>2, <1>4, <1>5

LEMMA EnqHeadInv ==
  ASSUME IInv, NEW t \in Producers, EnqHead(t)
  PROVE  IInv'
<1> TypeOK
  BY DEF IInv
<1>1. /\ pc[t] = "e_head" /\ Walk(t, seg_head)
      /\ UNCHANGED <<hpVars, queueVars, segVars, cell_id, value, out, history>>
      /\ UNCHANGED <<id, next, chain, cell_id>> /\ t \in Threads
  BY EnqFacts DEF EnqHead, segVars, history
<1>2. seg_head \in Nodes /\ id[seg_head] < Len(chain) /\ chain[id[seg_head] + 1] = seg_head
  BY DEF IInv, ListOK, TypeOK
<1>3. /\ WalkOK(t)'
      /\ pc' = [pc EXCEPT ![t] = pc'[t]] /\ pc'[t] \in {"e_next", "e_store"}
      /\ seg' = [seg EXCEPT ![t] = seg_head] /\ lnext' = [lnext EXCEPT ![t] = NULL]
  BY <1>1, <1>2, WalkTo, EnqFacts
<1>4. HPTypeOK' /\ Retired' = Retired /\ rlist' = rlist
  BY <1>1, HPTypes DEF hpVars, TypeOK, HPTypeOK, Retired
<1>5. TypeOK'
  BY <1>1, <1>2, <1>3, <1>4 DEF TypeOK, queueVars, segVars, history
<1>6. \A w \in Producers : Owns(w)' => Owns(w) /\ lnext'[w] = lnext[w] /\ w # t
  BY <1>3 DEF Owns, TypeOK, Producers
<1>7. pc'[Consumer] = pc[Consumer]
  BY <1>3, EnqFacts, FAQueueAssumption DEF TypeOK
<1>8. RetiredOK'
  BY <1>1, <1>4, <1>6, <1>7, RetiredFrame DEF IInv, RetiredOK, queueVars, segVars
<1> QED
  BY <1>1, <1>3, <1>5, <1>6, <1>8, OwnStep DEF TypeOK

LEMMA EnqNextInv ==
  ASSUME IInv, NEW t \in Producers, EnqNext(t)
  PROVE  IInv'
<1> TypeOK
  BY DEF IInv
<1>1. /\ pc[t] = "e_next" /\ pc' = [pc EXCEPT ![t] = "e_publish"]
      /\ lnext' = [lnext EXCEPT ![t] = next[seg[t]]]
      /\ UNCHANGED <<hpVars, queueVars, segVars, cell_id, value, seg, out, history>>
      /\ UNCHANGED <<id, next, chain, cell_id>> /\ t \in Threads
  BY EnqFacts DEF EnqNext, At, Goto, Set, segVars, history
<1>2. WalkOK(t) /\ seg[t] \in Nodes
  BY <1>1 DEF IInv, WalkOK, Walking
<1>3. Target(t)' = Target(t)
  BY <1>1 DEF Target
<1>4. WalkOK(t)'
  BY <1>1, <1>2, <1>3 DEF WalkOK, Walking, TypeOK
<1>5. HPTypeOK' /\ Retired' = Retired /\ rlist' = rlist
  BY <1>1, HPTypes DEF hpVars, TypeOK, HPTypeOK, Retired
<1>6. TypeOK'
  BY <1>1, <1>2, <1>5 DEF TypeOK, queueVars, segVars, history
<1>7. \A w \in Producers : Owns(w)' => Owns(w) /\ lnext'[w] = lnext[w] /\ w # t
  BY <1>1 DEF Owns, TypeOK, Producers
<1>8. pc'[Consumer] = pc[Consumer]
  BY <1>1, EnqFacts, FAQueueAssumption DEF TypeOK
<1>9. RetiredOK'
  BY <1>1, <1>5, <1>7, <1>8, RetiredFrame DEF IInv, RetiredOK, queueVars, segVars
<1> QED
  BY <1>1, <1>4, <1>6, <1>7, <1>9, OwnStep DEF TypeOK

LEMMA EnqPublishInv ==
  ASSUME IInv, NEW t \in Producers, EnqPublish(t)
  PROVE  IInv'
<1> TypeOK
  BY DEF IInv
<1>1. /\ pc[t] = "e_publish" /\ Publish(t, 0, lnext[t])
      /\ UNCHANGED <<queueVars, segVars, cell_id, value, out, history>>
      /\ UNCHANGED <<id, next, chain, cell_id, alive>> /\ t \in Threads
  BY EnqFacts DEF EnqPublish, segVars, history
<1>2. WalkOK(t) /\ lnext[t] \in {NULL, next[seg[t]]} /\ pc[t] \in Walking
  BY <1>1 DEF IInv, WalkOK, Walking
<1>3. Target(t)' = Target(t)
  BY <1>1 DEF Target
<1>4. HPTypeOK' /\ Retired' = Retired /\ rlist' = rlist
  <2>1. lnext[t] \in Nodes \cup {NULL} /\ 0 \in Slots
    BY <1>1 DEF TypeOK, Slots
  <2>2. HPTypeOK'
    BY <1>1, <2>1, HPTypes DEF TypeOK
  <2> QED
    BY <1>1, <2>2 DEF Publish, Retired
<1>5. CASE lnext[t] = NULL
  <2>1. pc' = [pc EXCEPT ![t] = "e_alloc"] /\ UNCHANGED <<seg, lnext>>
    BY <1>5 DEF EnqPublish, Goto
  <2>2. WalkOK(t)'
    BY <1>1, <1>2, <1>3, <2>1 DEF WalkOK, Walking, TypeOK
  <2>3. TypeOK'
    BY <1>1, <1>4, <2>1 DEF TypeOK, queueVars, segVars, history
  <2>4. \A w \in Producers : Owns(w)' => Owns(w) /\ lnext'[w] = lnext[w] /\ w # t
    BY <1>1, <2>1 DEF Owns, TypeOK, Producers
  <2>5. pc'[Consumer] = pc[Consumer]
    BY <2>1, EnqFacts, FAQueueAssumption DEF TypeOK
  <2>6. RetiredOK'
    BY <1>1, <1>4, <2>4, <2>5, RetiredFrame DEF IInv, RetiredOK, queueVars
  <2> QED
    BY <1>1, <2>1, <2>2, <2>3, <2>4, <2>6, OwnStep DEF TypeOK
<1>6. CASE lnext[t] # NULL
  <2> DEFINE s == next[seg[t]]
  <2>1. Walk(t, s) /\ s # NULL
    BY <1>2, <1>6 DEF EnqPublish
  <2>2. s \in Nodes /\ id[s] < Len(chain) /\ chain[id[s] + 1] = s /\ id[s] <= Target(t)
    BY <1>2, <2>1, NextSegment
  <2> HIDE DEF s
  <2>3. /\ WalkOK(t)'
        /\ pc' = [pc EXCEPT ![t] = pc'[t]] /\ pc'[t] \in {"e_next", "e_store"}
        /\ seg' = [seg EXCEPT ![t] = s] /\ lnext' = [lnext EXCEPT ![t] = NULL]
    BY <1>1, <2>1, <2>2, WalkTo
  <2>4. TypeOK'
    BY <1>1, <1>4, <2>2, <2>3 DEF TypeOK, queueVars, segVars, history
  <2>5. \A w \in Producers : Owns(w)' => Owns(w) /\ lnext'[w] = lnext[w] /\ w # t
    BY <2>3 DEF Owns, TypeOK, Producers
  <2>6. pc'[Consumer] = pc[Consumer]
    BY <2>3, EnqFacts, FAQueueAssumption DEF TypeOK
  <2>7. RetiredOK'
    BY <1>1, <1>4, <2>5, <2>6, RetiredFrame DEF IInv, RetiredOK, queueVars
  <2> QED
    BY <1>1, <2>3, <2>4, <2>5, <2>7, OwnStep DEF TypeOK
<1> QED
  BY <1>5, <1>6

LEMMA EnqReloadInv ==
  ASSUME IInv, NEW t \in Producers, EnqReload(t)
  PROVE  IInv'
<1> TypeOK
  BY DEF IInv
<1> DEFINE s == next[seg[t]]
<1>1. /\ pc[t] = "e_reload" /\ Walk(t, s)
      /\ UNCHANGED <<hpVars, queueVars, segVars, cell_id, value, out, history>>
      /\ UNCHANGED <<id, next, chain, cell_id, alive>> /\ t \in Threads
  BY EnqFacts DEF EnqReload, segVars, history
<1>2. s \in Nodes /\ id[s] < Len(chain) /\ chain[id[s] + 1] = s /\ id[s] <= Target(t)
  <2>1. s # NULL /\ pc[t] \in Walking
    BY <1>1 DEF IInv, WalkOK, Walking
  <2> QED
    BY <2>1, NextSegment
<1> HIDE DEF s
<1>3. /\ WalkOK(t)'
      /\ pc' = [pc EXCEPT ![t] = pc'[t]] /\ pc'[t] \in {"e_next", "e_store"}
      /\ seg' = [seg EXCEPT ![t] = s] /\ lnext' = [lnext EXCEPT ![t] = NULL]
  BY <1>1, <1>2, WalkTo
<1>4. HPTypeOK' /\ Retired' = Retired /\ rlist' = rlist
  BY <1>1, HPTypes DEF hpVars, TypeOK, HPTypeOK, Retired
<1>5. TypeOK'
  BY <1>1, <1>2, <1>3, <1>4 DEF TypeOK, queueVars, segVars, history
<1>6. \A w \in Producers : Owns(w)' => Owns(w) /\ lnext'[w] = lnext[w] /\ w # t
  BY <1>3 DEF Owns, TypeOK, Producers
<1>7. pc'[Consumer] = pc[Consumer]
  BY <1>3, EnqFacts, FAQueueAssumption DEF TypeOK
<1>8. RetiredOK'
  BY <1>1, <1>4, <1>6, <1>7, RetiredFrame DEF IInv, RetiredOK, queueVars
<1> QED
  BY <1>1, <1>3, <1>5, <1>6, <1>8, OwnStep DEF TypeOK

(* A segment of the thread's own, of an address that nobody has.           *)
LEMMA EnqAllocInv ==
  ASSUME IInv, NEW t \in Producers, EnqAlloc(t)
  PROVE  IInv'
<1> TypeOK /\ SegSize \in Nat \ {0}
  BY FAQueueAssumption DEF IInv
<1> DEFINE s == CHOOSE n \in Nodes : n \notin alive
<1>1. /\ pc[t] = "e_alloc" /\ pc' = [pc EXCEPT ![t] = "e_cas"] /\ Nodes # alive
      /\ alive' = alive \cup {s}
      /\ id' = [id EXCEPT ![s] = id[seg[t]] + 1]
      /\ cells' = [cells EXCEPT ![s] = EmptyCells]
      /\ next' = [next EXCEPT ![s] = NULL]
      /\ lnext' = [lnext EXCEPT ![t] = s]
      /\ UNCHANGED <<hpVars, queueVars, cell_id, value, seg, out, history>>
      /\ UNCHANGED <<head, tail, seg_head, chain, line>> /\ t \in Threads /\ t # Consumer
  BY EnqFacts DEF EnqAlloc, At, Goto, Set, queueVars, history
<1>2. s \in Nodes /\ s \notin alive
  BY <1>1 DEF TypeOK
<1> HIDE DEF s
<1>3. WalkOK(t) /\ seg[t] \in Nodes /\ id[seg[t]] \in Nat /\ seg[t] = chain[id[seg[t]] + 1]
  BY <1>1 DEF IInv, WalkOK, Walking, TypeOK
<1>4. \A k \in 1 .. Len(chain) : chain[k] # s
  BY <1>2 DEF IInv, ListOK
<1>5. HPTypeOK' /\ Retired' = Retired /\ rlist' = rlist
  BY <1>1, HPTypes DEF hpVars, TypeOK, HPTypeOK, Retired
<1>6. TypeOK'
  <2>1. EmptyCells \in [0 .. SegSize - 1 -> Data \cup {NULL}]
    BY DEF EmptyCells
  <2> QED
    BY <1>1, <1>2, <1>3, <1>5, <2>1 DEF TypeOK
<1>7. /\ \A n \in Nodes : n # s => id'[n] = id[n] /\ next'[n] = next[n] /\ cells'[n] = cells[n]
      /\ id'[s] = id[seg[t]] + 1 /\ next'[s] = NULL /\ cells'[s] = EmptyCells
      /\ \A u \in Threads \ {t} : pc'[u] = pc[u] /\ lnext'[u] = lnext[u]
      /\ pc'[t] = "e_cas" /\ lnext'[t] = s
  BY <1>1, <1>2 DEF TypeOK
<1>8. /\ \A k \in 1 .. Len(chain) :
           id'[chain[k]] = id[chain[k]] /\ next'[chain[k]] = next[chain[k]]
      /\ seg_head # s /\ id'[seg_head] = id[seg_head] /\ next'[seg_head] = next[seg_head]
      /\ seg_head \in Nodes
  <2>1. seg_head # s /\ seg_head \in Nodes
    BY <1>4, ListFacts DEF IInv, ListOK, TypeOK
  <2> QED
    BY <1>4, <1>7, <2>1, ListFacts
<1>9. ListOK'
  BY <1>1, <1>8 DEF IInv, ListOK
<1>10. pc'[Consumer] = pc[Consumer] /\ lnext'[Consumer] = lnext[Consumer]
  BY <1>1, <1>7, FAQueueAssumption
<1>11. ConsumerOK'
  BY <1>1, <1>8, <1>10 DEF IInv, ConsumerOK
<1>12. s \notin Retired /\ \A u \in Producers : Owns(u) => lnext[u] # s
  BY <1>2 DEF IInv, RetiredOK, OwnOK
<1>13. \A u \in Producers : Owns(u)' => u = t \/ Owns(u)
  BY <1>7 DEF Owns, Producers
<1>14. ASSUME NEW u \in Producers PROVE WalkOK(u)' /\ OwnOK(u)'
  <2>1. CASE u # t
    <3>1. /\ WalkOK(u) /\ OwnOK(u) /\ Target(u)' = Target(u) /\ u \in Threads
          /\ pc'[u] = pc[u] /\ lnext'[u] = lnext[u] /\ seg'[u] = seg[u]
      BY <1>1, <1>7, <2>1 DEF IInv, Target, Producers
    <3>2. pc[u] \in Walking =>
            /\ seg[u] \in Nodes /\ seg[u] # s
            /\ id'[seg[u]] = id[seg[u]] /\ next'[seg[u]] = next[seg[u]]
      <4>1. ASSUME pc[u] \in Walking
            PROVE  seg[u] \in Nodes /\ seg[u] # s
        <5>1. /\ seg[u] \in Nodes /\ id[seg[u]] + 1 \in 1 .. Len(chain)
              /\ chain[id[seg[u]] + 1] = seg[u]
          BY <4>1, WalkerFacts
        <5> QED
          BY <1>4, <5>1
      <4> QED
        BY <1>7, <4>1
    <3>3. WalkOK(u)'
      BY <1>1, <3>1, <3>2 DEF WalkOK, Walking
    <3>4. Owns(u)' => Owns(u) /\ pc[u] \in Walking
      BY <3>1 DEF Owns, Walking
    <3>5. OwnOK(u)'
      <4>1. ASSUME Owns(u)
            PROVE  /\ lnext[u] \in alive /\ lnext[u] \in Nodes /\ lnext[u] # s
                   /\ \A k \in 1 .. Len(chain) : chain[k] # lnext[u]
                   /\ \A w \in Producers \ {u} : Owns(w)' => lnext'[w] # lnext[u]
        BY <1>7, <1>12, <1>13, <3>1, <4>1 DEF OwnOK, TypeOK, Producers
      <4>2. ASSUME Owns(u), pc[u] = "e_cas"
            PROVE  id'[lnext[u]] = id'[seg[u]] + 1 /\ next'[lnext[u]] = NULL
                   /\ cells'[lnext[u]] = EmptyCells
        BY <1>7, <3>1, <3>2, <4>1, <4>2 DEF OwnOK, Walking
      <4> QED
        BY <1>1, <3>1, <3>4, <4>1, <4>2 DEF OwnOK
    <3> QED
      BY <3>3, <3>5
  <2>2. CASE u = t
    <3>1. seg[t] # s /\ id'[seg[t]] = id[seg[t]] /\ seg'[t] = seg[t] /\ Target(t)' = Target(t)
      <4>1. id[seg[t]] + 1 \in 1 .. Len(chain)
        BY <1>1, <1>3, ListFacts DEF WalkOK, Walking
      <4> QED
        BY <1>1, <1>3, <1>4, <1>7, <4>1 DEF Target
    <3>2. WalkOK(t)'
      BY <1>1, <1>3, <1>7, <3>1 DEF WalkOK, Walking
    <3>3. OwnOK(t)'
      BY <1>1, <1>4, <1>7, <1>12, <1>13, <3>1 DEF OwnOK, Producers
    <3> QED
      BY <2>2, <3>2, <3>3
  <2> QED
    BY <2>1, <2>2
<1>15. CellsOK'
  <2>1. \A u, c : Claims(u, c)' <=> Claims(u, c)
    BY <1>1, <1>7 DEF Claims, Producers
  <2>2. ASSUME NEW c \in Nat, c \div SegSize < Len(chain) PROVE CellAt(c)' = CellAt(c)
    <3>1. c \div SegSize + 1 \in 1 .. Len(chain) /\ chain[c \div SegSize + 1] \in Nodes
      BY <2>2, CellFacts
    <3>2. chain[c \div SegSize + 1] # s
      BY <1>4, <3>1
    <3> QED
      BY <1>1, <1>7, <3>2 DEF CellAt
  <2>3. CellsOK /\ head \in Nat /\ tail \in Nat
    BY DEF IInv, TypeOK
  <2>4. \A u \in Producers : pc'[u] = "idle" <=> pc[u] = "idle"
    BY <1>1, <1>7 DEF Producers
  <2>5. \A c \in head .. tail - 1 : c \in Nat
    BY <2>3
  <2> QED
    BY <1>1, <2>1, <2>2, <2>3, <2>4, <2>5 DEF CellsOK
<1>16. RetiredOK'
  <2>1. \A w \in Producers : Owns(w)' => lnext'[w] \notin Retired
    BY <1>7, <1>12, <1>13 DEF IInv, RetiredOK, Producers
  <2> QED
    BY <1>1, <1>5, <1>8, <1>10, <2>1 DEF IInv, RetiredOK
<1> QED
  BY <1>6, <1>9, <1>11, <1>14, <1>15, <1>16 DEF IInv

(* The end of the list grows by the segment of the winner...               *)
LEMMA EnqLinkInv ==
  ASSUME IInv, NEW t \in Producers, EnqCAS(t), next[seg[t]] = NULL
  PROVE  IInv'
<1> TypeOK
  BY DEF IInv
<1> DEFINE s == seg[t]
           n == lnext[t]
           k == Len(chain)
<1>1. /\ pc[t] = "e_cas" /\ pc' = [pc EXCEPT ![t] = "e_reload"]
      /\ next' = [next EXCEPT ![s] = n] /\ chain' = Append(chain, n)
      /\ lnext' = [lnext EXCEPT ![t] = NULL]
      /\ UNCHANGED <<hpVars, queueVars, id, cells, alive, cell_id, value, seg, out, line>>
      /\ UNCHANGED <<head, tail, seg_head>> /\ t \in Threads /\ t # Consumer
  BY EnqFacts DEF EnqCAS, Goto, Set, queueVars
<1>2. /\ WalkOK(t) /\ s \in Nodes /\ id[s] \in Nat /\ id[s] + 1 \in 1 .. k
      /\ chain[id[s] + 1] = s /\ k \in Nat
  BY <1>1, WalkerFacts, ListFacts DEF Walking
<1>3. id[s] + 1 = k
  <2>1. next[s] = IF id[s] + 1 < k THEN chain[id[s] + 1 + 1] ELSE NULL
    BY <1>2 DEF IInv, ListOK
  <2>2. id[s] + 1 < k => chain[id[s] + 1 + 1] # NULL
    BY <1>2, ListFacts
  <2> QED
    BY <1>2, <2>1, <2>2
<1>4. /\ n \in alive /\ n \in Nodes /\ n # NULL /\ n # s
      /\ \A j \in 1 .. k : chain[j] # n
      /\ id[n] = k /\ next[n] = NULL /\ cells[n] = EmptyCells /\ n \notin Retired
      /\ \A u \in Producers \ {t} : Owns(u) => lnext[u] # n
  BY <1>1, <1>2, <1>3, ListFacts DEF IInv, OwnOK, Owns, RetiredOK, TypeOK
<1> HIDE DEF s, n, k
<1>5. /\ Len(chain') = k + 1 /\ chain'[k + 1] = n /\ chain' \in Seq(Nodes)
      /\ \A j \in 1 .. k : chain'[j] = chain[j]
  BY <1>1, <1>4 DEF TypeOK, k
<1>6. HPTypeOK' /\ Retired' = Retired /\ rlist' = rlist
  BY <1>1, HPTypes DEF hpVars, TypeOK, HPTypeOK, Retired
<1>7. TypeOK'
  BY <1>1, <1>2, <1>4, <1>5, <1>6 DEF TypeOK
<1>8. /\ next'[s] = n /\ \A m \in Nodes : m # s => next'[m] = next[m]
      /\ \A u \in Threads \ {t} : pc'[u] = pc[u] /\ lnext'[u] = lnext[u]
      /\ pc'[t] = "e_reload" /\ lnext'[t] = NULL
  BY <1>1, <1>2 DEF TypeOK
<1>9. ListOK'
  <2>1. ASSUME NEW j \in 1 .. k + 1
        PROVE  /\ chain'[j] \in alive'
               /\ id'[chain'[j]] = j - 1
               /\ next'[chain'[j]] = IF j < k + 1 THEN chain'[j + 1] ELSE NULL
    <3>1. CASE j = k + 1
      BY <1>1, <1>2, <1>4, <1>5, <1>8, <3>1
    <3>2. CASE j = k
      <4>1. chain'[j] = s /\ j \in 1 .. k
        BY <1>2, <1>3, <1>5, <3>2
      <4> QED
        BY <1>1, <1>2, <1>3, <1>5, <1>8, <3>2, <4>1 DEF IInv, ListOK
    <3>3. CASE j < k
      <4>1. /\ j \in 1 .. k /\ chain'[j] = chain[j] /\ j + 1 \in 1 .. k /\ chain[j] # s
            /\ chain'[j + 1] = chain[j + 1] /\ chain[j] \in Nodes
        <5>1. j \in 1 .. k /\ j + 1 \in 1 .. k /\ j # k /\ k \in 1 .. k
          BY <1>2, <1>3, <3>3
        <5>2. chain[j] # s /\ chain[j] \in Nodes
          BY <1>2, <1>3, <5>1, ListFacts DEF k
        <5> QED
          BY <1>5, <5>1, <5>2
      <4>2. id[chain[j]] = j - 1 /\ chain[j] \in alive /\ next[chain[j]] = chain[j + 1]
        BY <3>3, <4>1 DEF IInv, ListOK, k
      <4> QED
        BY <1>1, <1>2, <1>8, <3>3, <4>1, <4>2
    <3> QED
      BY <1>2, <3>1, <3>2, <3>3
  <2>2. id[seg_head] < k + 1 /\ chain'[id[seg_head] + 1] = seg_head
    BY <1>2, <1>5, ListFacts DEF IInv, ListOK, k
  <2>3. chain' # << >>
    BY <1>2, <1>5
  <2> QED
    BY <1>1, <1>5, <2>1, <2>2, <2>3 DEF ListOK
<1>10. pc'[Consumer] = pc[Consumer] /\ lnext'[Consumer] = lnext[Consumer]
  BY <1>1, <1>8, FAQueueAssumption
<1>11. ConsumerOK'
  <2>1. pc[Consumer] = "d_advance" => next'[seg_head] = next[seg_head]
    BY <1>8, ListFacts DEF IInv, ConsumerOK, TypeOK, s
  <2>2. id[seg_head] > 0 => id[seg_head] \in 1 .. k
    BY ListFacts DEF k
  <2>3. id[seg_head] > 0 => chain'[id[seg_head]] = chain[id[seg_head]]
    BY <1>5, <2>2
  <2> QED
    BY <1>1, <1>10, <2>1, <2>3 DEF IInv, ConsumerOK
<1>12. ASSUME NEW u \in Producers PROVE WalkOK(u)' /\ OwnOK(u)'
  <2>1. u \in Threads /\ Target(u)' = Target(u) /\ Target(u) \in Nat /\ WalkOK(u)
    BY <1>1, EnqFacts DEF Target, IInv
  <2>2. CASE u # t
    <3>1. pc'[u] = pc[u] /\ lnext'[u] = lnext[u] /\ seg'[u] = seg[u]
      BY <1>1, <1>8, <2>1, <2>2
    <3>2. ASSUME pc[u] \in Walking
          PROVE  /\ seg[u] \in Nodes /\ id[seg[u]] < k + 1 /\ chain'[id[seg[u]] + 1] = seg[u]
                 /\ id[seg[u]] < Target(u)
                 /\ \/ next'[seg[u]] = next[seg[u]]
                    \/ next[seg[u]] = NULL /\ next'[seg[u]] = n
      <4>1. /\ seg[u] \in Nodes /\ id[seg[u]] \in Nat /\ id[seg[u]] + 1 \in 1 .. k
            /\ chain[id[seg[u]] + 1] = seg[u]
        BY <3>2, WalkerFacts DEF k
      <4>2. \/ next'[seg[u]] = next[seg[u]]
            \/ next[seg[u]] = NULL /\ next'[seg[u]] = n
        <5>1. next[s] = NULL
          BY DEF s
        <5> QED
          BY <1>8, <4>1, <5>1
      <4>3. id[seg[u]] < Target(u)
        BY <2>1, <3>2 DEF WalkOK
      <4>4. chain'[id[seg[u]] + 1] = seg[u]
        BY <1>5, <4>1
      <4> QED
        BY <1>2, <4>1, <4>2, <4>3, <4>4
    <3>3. pc[u] = "e_store" => Target(u) < k + 1 /\ seg[u] = chain'[Target(u) + 1]
      <4>1. ASSUME pc[u] = "e_store" PROVE Target(u) + 1 \in 1 .. k /\ seg[u] = chain[Target(u) + 1]
        BY <1>2, <2>1, <4>1 DEF WalkOK, k
      <4> QED
        BY <1>2, <1>5, <2>1, <4>1
    <3>4. WalkOK(u)'
      BY <1>1, <1>4, <1>5, <2>1, <3>1, <3>2, <3>3 DEF WalkOK, Walking
    <3>5. OwnOK(u)'
      <4>1. ASSUME Owns(u)
            PROVE  /\ lnext[u] \in alive /\ lnext[u] \in Nodes /\ lnext[u] # s
                   /\ \A j \in 1 .. k + 1 : chain'[j] # lnext[u]
                   /\ \A w \in Producers \ {u} : Owns(w)' => lnext'[w] # lnext[u]
        <5>1. /\ lnext[u] \in alive /\ lnext[u] \in Nodes
              /\ \A j \in 1 .. k : chain[j] # lnext[u]
              /\ \A w \in Producers \ {u} : Owns(w) => lnext[w] # lnext[u]
          BY <4>1 DEF IInv, OwnOK, TypeOK, k
        <5>2. lnext[u] # s
          BY <1>2, <5>1
        <5>3. \A j \in 1 .. k + 1 : j \in 1 .. k \/ j = k + 1
          BY <1>2
        <5>4. \A j \in 1 .. k + 1 : chain'[j] # lnext[u]
          BY <1>4, <1>5, <2>2, <4>1, <5>1, <5>3
        <5>5. \A w \in Producers \ {u} : Owns(w)' => Owns(w) /\ lnext'[w] = lnext[w]
          BY <1>8 DEF Owns, Producers
        <5> QED
          BY <5>1, <5>2, <5>4, <5>5
      <4>2. ASSUME Owns(u), pc[u] = "e_cas"
            PROVE  id'[lnext[u]] = id'[seg[u]] + 1 /\ next'[lnext[u]] = NULL
                   /\ cells'[lnext[u]] = EmptyCells
        BY <1>1, <1>8, <4>1, <4>2 DEF IInv, OwnOK
      <4> QED
        BY <1>1, <1>5, <3>1, <4>1, <4>2 DEF OwnOK, Owns
    <3> QED
      BY <3>4, <3>5
  <2>3. CASE u = t
    <3>1. seg'[t] = s /\ id[s] < k + 1 /\ chain'[id[s] + 1] = s /\ id[s] < Target(t)
      BY <1>1, <1>2, <1>5 DEF WalkOK, Walking, s
    <3>2. WalkOK(t)'
      BY <1>1, <1>2, <1>4, <1>5, <1>8, <2>1, <2>3, <3>1 DEF WalkOK, Walking
    <3>3. OwnOK(t)'
      BY <1>8 DEF OwnOK, Owns
    <3> QED
      BY <2>3, <3>2, <3>3
  <2> QED
    BY <2>2, <2>3
<1>13. CellsOK'
  <2>1. \A u, c : Claims(u, c)' <=> Claims(u, c)
    BY <1>1, <1>8 DEF Claims, Producers
  <2>2. ASSUME NEW c \in Nat, c \div SegSize < k PROVE CellAt(c)' = CellAt(c)
    <3>1. c \div SegSize + 1 \in 1 .. k
      BY <2>2, CellFacts DEF k
    <3>2. chain'[c \div SegSize + 1] = chain[c \div SegSize + 1]
      BY <1>5, <3>1
    <3> QED
      BY <1>1, <3>2 DEF CellAt
  <2>3. ASSUME NEW c \in Nat, c \div SegSize = k PROVE CellAt(c)' = NULL
    <3>1. c % SegSize \in 0 .. SegSize - 1
      BY Division
    <3>2. chain'[c \div SegSize + 1] = n
      BY <1>5, <2>3
    <3>3. CellAt(c)' = EmptyCells[c % SegSize]
      BY <1>1, <1>4, <3>2 DEF CellAt
    <3> QED
      BY <3>1, <3>3 DEF EmptyCells
  <2>4. CellsOK /\ head \in Nat /\ tail \in Nat
    BY DEF IInv, TypeOK
  <2>5. \A u \in Producers : pc'[u] = "idle" <=> pc[u] = "idle"
    BY <1>1, <1>8 DEF Producers
  <2>6. \A c \in head .. tail - 1 : c \in Nat
    BY <2>4
  <2>7. \A c \in Nat : c \div SegSize \in Nat
    BY Division
  <2>8. \A c \in Nat : c \div SegSize < k + 1 <=> c \div SegSize < k \/ c \div SegSize = k
    BY <1>2, <2>7
  <2>9. ASSUME NEW c \in head .. tail - 1
        PROVE  \/ \E u \in Producers : Claims(u, c)'
               \/ c \div SegSize < k + 1 /\ CellAt(c)' = line[c - head + 1]
    <3>1. \/ \E u \in Producers : Claims(u, c)
          \/ c \div SegSize < k /\ CellAt(c) = line[c - head + 1]
      BY <2>4 DEF CellsOK, k
    <3> QED
      BY <2>1, <2>2, <2>6, <2>8, <3>1
  <2>10. ASSUME NEW c \in Nat, c \div SegSize < k + 1,
                c >= tail \/ \E u \in Producers : Claims(u, c)
         PROVE  CellAt(c)' = NULL
    <3>1. c \div SegSize < k => CellAt(c) = NULL
      BY <2>4, <2>10 DEF CellsOK, k
    <3> QED
      BY <2>2, <2>3, <2>8, <2>10, <3>1
  <2> QED
    BY <1>1, <1>5, <2>1, <2>4, <2>5, <2>9, <2>10 DEF CellsOK
<1>14. RetiredOK'
  <2>1. \A w \in Producers : Owns(w)' => Owns(w) /\ lnext'[w] = lnext[w]
    BY <1>8 DEF Owns, Producers
  <2>2. \A j \in 1 .. k + 1 : chain'[j] \in Retired => j \in 1 .. k /\ chain[j] \in Retired
    BY <1>2, <1>4, <1>5
  <2> QED
    BY <1>1, <1>5, <1>6, <1>10, <2>1, <2>2 DEF IInv, RetiredOK, k
<1> QED
  BY <1>7, <1>9, <1>11, <1>12, <1>13, <1>14 DEF IInv

(* ...and the loser goes on to it...                                       *)
LEMMA EnqBeatenInv ==
  ASSUME IInv, NEW t \in Producers, EnqCAS(t), next[seg[t]] # NULL
  PROVE  IInv'
<1> TypeOK
  BY DEF IInv
<1>1. /\ pc[t] = "e_cas" /\ pc' = [pc EXCEPT ![t] = "e_lost"]
      /\ UNCHANGED <<hpVars, queueVars, segVars, cell_id, value, seg, lnext, out, history>>
      /\ UNCHANGED <<id, next, chain, cell_id, alive>> /\ t \in Threads
  BY EnqFacts DEF EnqCAS, Goto, Set, segVars, history
<1>2. WalkOK(t) /\ Target(t)' = Target(t)
  BY <1>1 DEF IInv, Target
<1>3. WalkOK(t)'
  BY <1>1, <1>2 DEF WalkOK, Walking, TypeOK
<1>4. HPTypeOK' /\ Retired' = Retired /\ rlist' = rlist
  BY <1>1, HPTypes DEF hpVars, TypeOK, HPTypeOK, Retired
<1>5. TypeOK'
  BY <1>1, <1>4 DEF TypeOK, queueVars, segVars, history
<1>6. \A w \in Producers : Owns(w)' => Owns(w) /\ lnext'[w] = lnext[w]
  BY <1>1 DEF Owns, TypeOK, Producers
<1>7. pc'[Consumer] = pc[Consumer]
  BY <1>1, EnqFacts, FAQueueAssumption DEF TypeOK
<1>8. RetiredOK'
  BY <1>1, <1>4, <1>6, <1>7, RetiredFrame DEF IInv, RetiredOK, queueVars
<1> QED
  BY <1>1, <1>3, <1>5, <1>6, <1>8, OwnStep DEF TypeOK

(* ...and retires its own, which nobody else has ever seen.                *)
LEMMA EnqLostInv ==
  ASSUME IInv, NEW t \in Producers, EnqLost(t)
  PROVE  IInv'
<1> TypeOK
  BY DEF IInv
<1> DEFINE n == lnext[t]
<1>1. /\ pc[t] = "e_lost" /\ pc' = [pc EXCEPT ![t] = "e_reload"] /\ Retire(t, n)
      /\ lnext' = [lnext EXCEPT ![t] = NULL]
      /\ UNCHANGED <<queueVars, segVars, cell_id, value, seg, out, history>>
      /\ UNCHANGED <<id, next, chain, cell_id, alive, seg_head>> /\ t \in Threads
  BY EnqFacts DEF EnqLost, At, Goto, Set, queueVars, segVars, history
<1>2. /\ Owns(t) /\ n \in alive /\ n \in Nodes /\ n # NULL /\ n \notin Retired
      /\ \A k \in 1 .. Len(chain) : chain[k] # n
      /\ \A u \in Producers \ {t} : Owns(u) => lnext[u] # n
  BY <1>1, ListFacts DEF IInv, OwnOK, Owns, RetiredOK, TypeOK
<1>3. WalkOK(t) /\ Target(t)' = Target(t)
  BY <1>1 DEF IInv, Target
<1>4. WalkOK(t)'
  BY <1>1, <1>3 DEF WalkOK, Walking, TypeOK
<1>5. HPTypeOK'
  BY <1>1, <1>2, HPTypes DEF TypeOK, Slots
<1>6. rlist' = [rlist EXCEPT ![t] = @ \cup {n}] /\ reclaimed' = reclaimed
  BY <1>1 DEF Retire
<1>7. /\ rlist'[t] = rlist[t] \cup {n} /\ \A u \in Threads \ {t} : rlist'[u] = rlist[u]
      /\ Retired' = Retired \cup {n}
  BY <1>1, <1>6 DEF TypeOK, HPTypeOK, Retired
<1>8. TypeOK'
  BY <1>1, <1>5 DEF TypeOK, queueVars, segVars, history
<1>9. \A w \in Producers : Owns(w)' => Owns(w) /\ lnext'[w] = lnext[w] /\ w # t
  BY <1>1 DEF Owns, TypeOK, Producers
<1>10. pc'[Consumer] = pc[Consumer]
  BY <1>1, EnqFacts, FAQueueAssumption DEF TypeOK
<1>11. RetiredOK'
  <2>1. RetiredOK
    BY DEF IInv
  <2>2. \A u, w \in Threads : u # w => rlist'[u] \cap rlist'[w] = {}
    <3>1. \A w \in Threads : n \notin rlist[w]
      BY <1>2 DEF Retired
    <3> QED
      BY <1>7, <2>1, <3>1 DEF RetiredOK
  <2>3. Retired' \subseteq alive
    BY <1>2, <1>7, <2>1 DEF RetiredOK
  <2>4. \A k \in 1 .. Len(chain) : chain[k] \in Retired' => chain[k] \in Retired
    BY <1>2, <1>7
  <2>5. \A w \in Producers : Owns(w)' => lnext'[w] \notin Retired'
    BY <1>2, <1>7, <1>9, <2>1 DEF RetiredOK
  <2> QED
    BY <1>1, <1>10, <2>1, <2>2, <2>3, <2>4, <2>5 DEF RetiredOK
<1> QED
  BY <1>1, <1>4, <1>8, <1>9, <1>11, OwnStep DEF TypeOK

(* The cell of an enqueue belongs to it until the element is there.        *)
LEMMA EnqStoreInv ==
  ASSUME IInv, NEW t \in Producers, EnqStore(t)
  PROVE  IInv'
<1> TypeOK
  BY DEF IInv
<1> DEFINE s == seg[t]
           m == cell_id[t]
           v == value[t]
<1>1. /\ pc[t] = "e_store" /\ pc' = [pc EXCEPT ![t] = "idle"]
      /\ cells' = [cells EXCEPT ![s][m % SegSize] = v]
      /\ seg' = [seg EXCEPT ![t] = NULL] /\ value' = [value EXCEPT ![t] = NULL]
      /\ cell_id' = [cell_id EXCEPT ![t] = 0]
      /\ UNCHANGED <<hpVars, queueVars, id, next, alive, lnext, out, history>>
      /\ UNCHANGED <<head, tail, seg_head, chain, line>> /\ t \in Threads /\ t # Consumer
  BY EnqFacts DEF EnqStore, At, Goto, Set, queueVars, history
<1>2. /\ m \in Nat /\ m \div SegSize < Len(chain) /\ s = chain[m \div SegSize + 1]
      /\ head <= m /\ m < tail /\ v = line[m - head + 1] /\ v \in Data \cup {NULL}
      /\ \A u \in Producers \ {t} : pc[u] # "idle" => cell_id[u] # m
  BY <1>1, EnqFacts DEF IInv, WalkOK, Target, CellsOK, TypeOK
<1>3. m \div SegSize + 1 \in 1 .. Len(chain) /\ m % SegSize \in 0 .. SegSize - 1 /\ s \in Nodes
  BY <1>2, CellFacts
<1> HIDE DEF s, m, v
<1>4. /\ cells'[s][m % SegSize] = v
      /\ \A k \in 0 .. SegSize - 1 : k # m % SegSize => cells'[s][k] = cells[s][k]
      /\ \A n \in Nodes : n # s => cells'[n] = cells[n]
      /\ cells' \in [Nodes -> [0 .. SegSize - 1 -> Data \cup {NULL}]]
  BY <1>1, <1>2, <1>3 DEF TypeOK
<1>5. HPTypeOK' /\ Retired' = Retired /\ rlist' = rlist
  BY <1>1, HPTypes DEF hpVars, TypeOK, HPTypeOK, Retired
<1>6. TypeOK'
  BY <1>1, <1>4, <1>5 DEF TypeOK
<1>7. /\ \A u \in Threads \ {t} :
           /\ pc'[u] = pc[u] /\ seg'[u] = seg[u] /\ cell_id'[u] = cell_id[u]
           /\ value'[u] = value[u]
      /\ pc'[t] = "idle"
  BY <1>1 DEF TypeOK
<1>8. \A w \in Producers : Owns(w)' => Owns(w) /\ lnext'[w] = lnext[w] /\ w # t
  BY <1>1, <1>7 DEF Owns, Producers
<1>9. ListOK' /\ ConsumerOK' /\ pc'[Consumer] = pc[Consumer]
  BY <1>1, <1>7, ListFrame, ConsumerFrame, FAQueueAssumption
<1>10. RetiredOK'
  BY <1>1, <1>5, <1>8, <1>9, RetiredFrame DEF IInv, RetiredOK
<1>11. ASSUME NEW u \in Producers PROVE WalkOK(u)' /\ OwnOK(u)'
  <2>1. CASE u # t
    <3>1. pc'[u] = pc[u] /\ seg'[u] = seg[u] /\ cell_id'[u] = cell_id[u] /\ lnext'[u] = lnext[u]
      BY <1>1, <1>7, <2>1 DEF Producers
    <3>2. WalkOK(u) /\ Target(u)' = Target(u) /\ OwnOK(u)
      BY <3>1 DEF IInv, Target
    <3>3. WalkOK(u)'
      BY <1>1, <3>1, <3>2 DEF WalkOK
    <3>4. Owns(u) => lnext[u] \in Nodes /\ lnext[u] # s
      BY <1>2, <1>3, <3>2 DEF OwnOK, TypeOK
    <3>5. OwnOK(u)'
      BY <1>1, <1>4, <1>8, <3>1, <3>2, <3>4 DEF OwnOK
    <3> QED
      BY <3>3, <3>5
  <2>2. CASE u = t
    BY <1>7, <2>2 DEF WalkOK, OwnOK, Owns, Walking
  <2> QED
    BY <2>1, <2>2
<1>12. CellsOK'
  <2>1. CellsOK /\ head \in Nat /\ tail \in Nat
    BY DEF IInv, TypeOK
  <2>2. ASSUME NEW c \in Nat, c \div SegSize < Len(chain), c # m PROVE CellAt(c)' = CellAt(c)
    <3>1. /\ c \div SegSize + 1 \in 1 .. Len(chain) /\ c % SegSize \in 0 .. SegSize - 1
          /\ chain[c \div SegSize + 1] \in Nodes /\ c \div SegSize \in Nat
      BY <2>2, CellFacts
    <3>2. m \div SegSize \in Nat
      BY <1>2, CellFacts
    <3>3. chain[c \div SegSize + 1] = s => c \div SegSize = m \div SegSize
      BY <1>2, <1>3, <3>1, <3>2, ListFacts
    <3>4. chain[c \div SegSize + 1] = s => c % SegSize # m % SegSize
      BY <1>2, <2>2, <3>3, DivisionInjective
    <3>5. cells'[chain[c \div SegSize + 1]][c % SegSize]
            = cells[chain[c \div SegSize + 1]][c % SegSize]
      BY <1>4, <3>1, <3>4
    <3> QED
      BY <1>1, <3>5 DEF CellAt
  <2>3. ASSUME NEW c \in Nat, c = m PROVE CellAt(c)' = v
    BY <1>1, <1>2, <1>4, <2>3 DEF CellAt
  <2>4. \A u, c : Claims(u, c)' <=> Claims(u, c) /\ u # t
    BY <1>7 DEF Claims, Producers
  <2>5. \A c : Claims(t, c) => c = m
    BY DEF Claims, m
  <2>6. ASSUME NEW u \in Producers, pc'[u] # "idle"
        PROVE  /\ head' <= cell_id'[u] /\ cell_id'[u] < tail'
               /\ value'[u] = line'[cell_id'[u] - head' + 1]
               /\ \A w \in Producers \ {u} : pc'[w] # "idle" => cell_id'[w] # cell_id'[u]
    <3>1. u # t /\ pc[u] # "idle" /\ u \in Threads
      BY <1>7, <2>6 DEF Producers
    <3>2. \A w \in Producers : pc'[w] # "idle" =>
            w # t /\ pc[w] # "idle" /\ cell_id'[w] = cell_id[w]
      BY <1>7 DEF Producers
    <3> QED
      BY <1>1, <1>7, <2>1, <3>1, <3>2 DEF CellsOK
  <2>7. ASSUME NEW c \in head .. tail - 1
        PROVE  \/ \E u \in Producers : Claims(u, c)'
               \/ c \div SegSize < Len(chain) /\ CellAt(c)' = line[c - head + 1]
    <3>1. c \in Nat
      BY <2>1
    <3>2. CASE c = m
      BY <1>2, <2>3, <3>1, <3>2
    <3>3. CASE c # m
      <4>1. CASE \E u \in Producers : Claims(u, c)
        BY <2>4, <2>5, <3>3, <4>1
      <4>2. CASE c \div SegSize < Len(chain) /\ CellAt(c) = line[c - head + 1]
        BY <2>2, <3>1, <3>3, <4>2
      <4> QED
        BY <2>1, <4>1, <4>2 DEF CellsOK
    <3> QED
      BY <3>2, <3>3
  <2>8. ASSUME NEW c \in Nat, c \div SegSize < Len(chain),
               c >= tail \/ \E u \in Producers : Claims(u, c)'
        PROVE  CellAt(c)' = NULL
    <3>1. c # m
      <4>1. c >= tail => c # m
        BY <1>2, <2>1
      <4>2. ASSUME NEW u \in Producers, Claims(u, c)' PROVE c # m
        BY <1>2, <2>4, <4>2 DEF Claims
      <4> QED
        BY <2>8, <4>1, <4>2
    <3>2. CellAt(c) = NULL
      BY <2>1, <2>4, <2>8 DEF CellsOK
    <3> QED
      BY <2>2, <2>8, <3>1, <3>2
  <2> QED
    BY <1>1, <2>1, <2>6, <2>7, <2>8 DEF CellsOK
<1> QED
  BY <1>6, <1>9, <1>10, <1>11, <1>12 DEF IInv

(* What the hazard pointers do between the steps of the queue.             *)
LEMMA HazardInv ==
  ASSUME IInv, NEW t \in Threads, EnqGet(t) \/ ScanStep(t)
  PROVE  IInv'
<1> TypeOK
  BY DEF IInv
<1>1. UNCHANGED faVars /\ (Allocate(t) \/ Scan(t))
  BY DEF EnqGet, ScanStep
<1>2. /\ UNCHANGED <<head, tail, seg_head, id, cells, next, alive, pc, cell_id, value, seg,
                     lnext, out, chain, line>>
  BY <1>1 DEF faVars, queueVars, segVars, locals, history
<1>3. HPTypeOK'
  <2>1. HPTypeOK /\ 0 \in Slots /\ NULL \in Nodes \cup {NULL}
    BY DEF TypeOK, Slots
  <2> QED
    BY <1>1, <2>1, HPTypes, Zenon
<1>4. TypeOK'
  BY <1>2, <1>3 DEF TypeOK
<1>5. /\ \A u \in Threads : rlist'[u] \subseteq rlist[u]
      /\ Retired' \subseteq Retired
  <2>1. CASE rlist' = rlist /\ reclaimed' = reclaimed
    BY <2>1 DEF Retired
  <2>2. CASE rlist' = [rlist EXCEPT ![t] = {}] /\ reclaimed' = reclaimed
    <3>1. \A u \in Threads : rlist'[u] \subseteq rlist[u]
      BY <2>2 DEF TypeOK, HPTypeOK
    <3> QED
      BY <2>2, <3>1 DEF Retired
  <2>3. CASE ScanRemove(t)
    <3>1. /\ rlist' = [rlist EXCEPT ![t] = @ \cap plist[t]]
          /\ reclaimed' = reclaimed \cup (rlist[t] \ plist[t])
      BY <2>3 DEF ScanRemove
    <3>2. \A u \in Threads : rlist'[u] \subseteq rlist[u]
      BY <3>1 DEF TypeOK, HPTypeOK
    <3> QED
      BY <3>1, <3>2 DEF Retired
  <2> QED
    BY <1>1, <2>1, <2>2, <2>3
    DEF Allocate, AllocLength, AllocPush, AllocInit, Scan, ScanRead
<1>6. ListOK' /\ ConsumerOK' /\ CellsOK'
  BY <1>2, ListFrame, ConsumerFrame, CellsFrame
<1>7. \A w \in Producers : Owns(w)' => Owns(w) /\ lnext'[w] = lnext[w]
  BY <1>2 DEF Owns
<1>8. \A u \in Producers : WalkOK(u)' /\ OwnOK(u)'
  BY <1>2, <1>7, WalkFrame, OwnFrame
<1>9. \A u, w \in Threads : u # w => rlist'[u] \cap rlist'[w] = {}
  BY <1>5 DEF IInv, RetiredOK
<1>10. RetiredOK'
  BY <1>2, <1>5, <1>7, <1>9, RetiredFrame
<1> QED
  BY <1>4, <1>6, <1>8, <1>10 DEF IInv
-----------------------------------------------------------------------------
(* What a step of the consumer does to the producers and their segments as *)
(* long as it leaves the line alone: nothing.                              *)
LEMMA ConsumerStep ==
  ASSUME IInv, TypeOK',
         UNCHANGED <<head, tail, id, cells, next, alive, cell_id, value, chain, line>>,
         \A u \in Producers : pc'[u] = pc[u] /\ seg'[u] = seg[u] /\ lnext'[u] = lnext[u],
         id[seg_head'] < Len(chain), chain[id[seg_head'] + 1] = seg_head',
         ConsumerOK', RetiredOK'
  PROVE  IInv'
<1>1. \A w \in Producers : Owns(w)' => Owns(w) /\ lnext'[w] = lnext[w]
  BY DEF Owns
<1>2. \A u \in Producers : WalkOK(u)' /\ OwnOK(u)'
  BY <1>1, WalkFrame, OwnFrame
<1>3. ListOK'
  BY DEF IInv, ListOK
<1>4. CellsOK'
  BY CellsFrame
<1> QED
  BY <1>2, <1>3, <1>4 DEF IInv

LEMMA DeqBeginInv == IInv /\ DeqBegin => IInv'
<1> SUFFICES ASSUME IInv, DeqBegin PROVE IInv'
  OBVIOUS
<1> TypeOK /\ Consumer \in Threads
  BY FAQueueAssumption DEF IInv
<1>1. /\ pc' = [pc EXCEPT ![Consumer] = "d_next"] /\ out' = NULL
      /\ UNCHANGED <<hpVars, queueVars, segVars, locals, history>>
      /\ UNCHANGED <<head, tail, seg_head, id, cells, next, alive, cell_id, value, seg, lnext,
                     chain, line>>
  BY DEF DeqBegin, At, Goto, queueVars, segVars, locals, history
<1>2. HPTypeOK' /\ Retired' = Retired /\ rlist' = rlist
  BY <1>1, HPTypes DEF hpVars, TypeOK, HPTypeOK, Retired
<1>3. TypeOK'
  BY <1>1, <1>2 DEF TypeOK
<1>4. pc'[Consumer] = "d_next" /\ \A u \in Producers : pc'[u] = pc[u]
  BY <1>1 DEF TypeOK, Producers
<1>5. ConsumerOK'
  BY <1>1, <1>4 DEF IInv, ConsumerOK
<1>6. RetiredOK'
  BY <1>1, <1>2, <1>4, RetiredFrame DEF IInv, RetiredOK, Owns
<1> QED
  BY <1>1, <1>3, <1>4, <1>5, <1>6, ConsumerStep DEF IInv, ListOK

LEMMA DeqNextInv == IInv /\ DeqNext => IInv'
<1> SUFFICES ASSUME IInv, DeqNext PROVE IInv'
  OBVIOUS
<1> TypeOK /\ Consumer \in Threads
  BY FAQueueAssumption DEF IInv
<1>1. /\ pc[Consumer] = "d_next"
      /\ UNCHANGED <<hpVars, queueVars, segVars, cell_id, value, seg, out, history>>
      /\ UNCHANGED <<head, tail, seg_head, id, cells, next, alive, cell_id, value, seg,
                     chain, line>>
  BY DEF DeqNext, queueVars, segVars, history
<1>2. head \div SegSize \in {id[seg_head], id[seg_head] + 1} /\ id[seg_head] \in Nat
  BY ListFacts DEF IInv, ConsumerOK
<1>3. \/ /\ pc' = [pc EXCEPT ![Consumer] = "idle"] /\ lnext' = lnext
      \/ /\ pc' = [pc EXCEPT ![Consumer] = "d_advance"] /\ next[seg_head] # NULL
         /\ lnext' = [lnext EXCEPT ![Consumer] = next[seg_head]]
         /\ head \div SegSize = id[seg_head] + 1
      \/ /\ pc' = [pc EXCEPT ![Consumer] = "d_read"] /\ lnext' = lnext
         /\ head \div SegSize = id[seg_head]
  BY <1>2 DEF DeqNext, BehindHead, Goto, Set
<1>4. HPTypeOK' /\ Retired' = Retired /\ rlist' = rlist
  BY <1>1, HPTypes DEF hpVars, TypeOK, HPTypeOK, Retired
<1>5. TypeOK'
  BY <1>1, <1>3, <1>4 DEF TypeOK
<1>6. \A u \in Producers : pc'[u] = pc[u] /\ lnext'[u] = lnext[u] /\ seg'[u] = seg[u]
  BY <1>1, <1>3 DEF TypeOK, Producers
<1>7. ConsumerOK'
  BY <1>1, <1>2, <1>3 DEF ConsumerOK, TypeOK
<1>8. pc'[Consumer] # "d_retire"
  BY <1>3 DEF TypeOK
<1>9. RetiredOK'
  BY <1>1, <1>4, <1>6, <1>8, RetiredFrame DEF IInv, RetiredOK, Owns
<1> QED
  BY <1>1, <1>5, <1>6, <1>7, <1>9, ConsumerStep DEF IInv, ListOK

LEMMA DeqAdvanceInv == IInv /\ DeqAdvance => IInv'
<1> SUFFICES ASSUME IInv, DeqAdvance PROVE IInv'
  OBVIOUS
<1> TypeOK /\ Consumer \in Threads
  BY FAQueueAssumption DEF IInv
<1>1. /\ pc[Consumer] = "d_advance" /\ pc' = [pc EXCEPT ![Consumer] = "d_retire"]
      /\ seg' = [seg EXCEPT ![Consumer] = seg_head] /\ seg_head' = lnext[Consumer]
      /\ lnext' = [lnext EXCEPT ![Consumer] = NULL]
      /\ UNCHANGED <<hpVars, head, tail, segVars, cell_id, value, out, history>>
      /\ UNCHANGED <<id, cells, next, alive, chain, line>>
  BY DEF DeqAdvance, At, Goto, Set, segVars, history
<1>2. /\ id[seg_head] \in Nat /\ head \div SegSize = id[seg_head] + 1
      /\ next[seg_head] # NULL /\ seg_head' = next[seg_head]
      /\ chain[id[seg_head] + 1] = seg_head
  BY <1>1, ListFacts DEF IInv, ConsumerOK, ListOK
<1> DEFINE k == id[seg_head] + 1
<1>3. k + 1 \in 1 .. Len(chain) /\ next[seg_head] = chain[k + 1] /\ k > 0
  BY <1>2, ListFacts
<1>4. id[chain[k + 1]] = (k + 1) - 1 /\ chain[k + 1] \in Nodes
  BY <1>3, ListFacts DEF IInv, ListOK
<1>5. id[seg_head'] = k /\ seg_head' \in Nodes /\ k \in Nat /\ Len(chain) \in Nat
  BY <1>2, <1>3, <1>4, ListFacts
<1>6. HPTypeOK' /\ Retired' = Retired /\ rlist' = rlist
  BY <1>1, HPTypes DEF hpVars, TypeOK, HPTypeOK, Retired
<1>7. TypeOK'
  BY <1>1, <1>5, <1>6 DEF TypeOK
<1>8. /\ pc'[Consumer] = "d_retire" /\ seg'[Consumer] = seg_head
      /\ \A u \in Producers : pc'[u] = pc[u] /\ lnext'[u] = lnext[u] /\ seg'[u] = seg[u]
  BY <1>1 DEF TypeOK, Producers
<1>9. id[seg_head'] < Len(chain) /\ chain[id[seg_head'] + 1] = seg_head'
  BY <1>2, <1>3, <1>5
<1>10. ConsumerOK'
  BY <1>1, <1>2, <1>3, <1>5, <1>8 DEF ConsumerOK
<1>11. RetiredOK'
  <2>1. RetiredOK
    BY DEF IInv
  <2>2. \A j \in 1 .. Len(chain) : chain[j] \in Retired => j <= id[seg_head'] /\ j < id[seg_head']
    BY <1>2, <1>5, <2>1 DEF RetiredOK
  <2> QED
    BY <1>1, <1>6, <1>8, <2>1, <2>2 DEF RetiredOK, Owns
<1> QED
  BY <1>1, <1>7, <1>8, <1>9, <1>10, <1>11, ConsumerStep

(* The segment behind the consumer is in the list, but behind it.          *)
LEMMA DeqRetireInv == IInv /\ DeqRetire => IInv'
<1> SUFFICES ASSUME IInv, DeqRetire PROVE IInv'
  OBVIOUS
<1> TypeOK /\ Consumer \in Threads
  BY FAQueueAssumption DEF IInv
<1> DEFINE n == seg[Consumer]
<1>1. /\ pc[Consumer] = "d_retire" /\ pc' = [pc EXCEPT ![Consumer] = "d_read"]
      /\ Retire(Consumer, n) /\ seg' = [seg EXCEPT ![Consumer] = NULL]
      /\ UNCHANGED <<queueVars, segVars, cell_id, value, lnext, out, history>>
      /\ UNCHANGED <<head, tail, seg_head, id, cells, next, alive, chain, line>>
  BY DEF DeqRetire, At, Goto, Set, queueVars, segVars, history
<1>2. /\ id[seg_head] \in 1 .. Len(chain) /\ chain[id[seg_head]] = n
      /\ head \div SegSize = id[seg_head]
  BY <1>1, ListFacts DEF IInv, ConsumerOK
<1>3. n \in Nodes /\ n # NULL /\ n \in alive /\ n \notin Retired
  BY <1>1, <1>2, ListFacts DEF IInv, ListOK, RetiredOK
<1>4. HPTypeOK'
  BY <1>1, <1>3, HPTypes DEF TypeOK, Slots
<1>5. rlist' = [rlist EXCEPT ![Consumer] = @ \cup {n}] /\ reclaimed' = reclaimed
  BY <1>1 DEF Retire
<1>6. /\ rlist'[Consumer] = rlist[Consumer] \cup {n}
      /\ \A u \in Threads \ {Consumer} : rlist'[u] = rlist[u]
      /\ Retired' = Retired \cup {n}
  BY <1>5 DEF TypeOK, HPTypeOK, Retired
<1>7. TypeOK'
  BY <1>1, <1>4 DEF TypeOK, queueVars, segVars, history
<1>8. /\ pc'[Consumer] = "d_read"
      /\ \A u \in Producers : pc'[u] = pc[u] /\ lnext'[u] = lnext[u] /\ seg'[u] = seg[u]
  BY <1>1 DEF TypeOK, Producers
<1>9. ConsumerOK'
  BY <1>1, <1>2, <1>8 DEF IInv, ConsumerOK
<1>10. RetiredOK'
  <2>1. RetiredOK
    BY DEF IInv
  <2>2. \A u, w \in Threads : u # w => rlist'[u] \cap rlist'[w] = {}
    <3>1. \A w \in Threads : n \notin rlist[w]
      BY <1>3 DEF Retired
    <3> QED
      BY <1>6, <2>1, <3>1 DEF RetiredOK
  <2>3. Retired' \subseteq alive
    BY <1>3, <1>6, <2>1 DEF RetiredOK
  <2>4. \A k \in 1 .. Len(chain) : chain[k] \in Retired' => k <= id[seg_head]
    <3>1. \A k \in 1 .. Len(chain) : chain[k] = n => k = id[seg_head]
      BY <1>2, ListFacts
    <3> QED
      BY <1>2, <1>6, <2>1, <3>1 DEF RetiredOK
  <2>5. \A w \in Producers : Owns(w)' => lnext'[w] \notin Retired'
    <3>1. \A w \in Producers : Owns(w)' => Owns(w) /\ lnext'[w] = lnext[w]
      BY <1>8 DEF Owns
    <3>2. \A w \in Producers : Owns(w) => lnext[w] # n
      BY <1>2 DEF IInv, OwnOK
    <3> QED
      BY <1>6, <2>1, <3>1, <3>2 DEF RetiredOK
  <2> QED
    BY <1>1, <1>8, <2>1, <2>2, <2>3, <2>4, <2>5 DEF RetiredOK
<1> QED
  BY <1>1, <1>7, <1>8, <1>9, <1>10, ConsumerStep DEF IInv, ListOK

(* An element in the cell of the consumer is the oldest one of the line,   *)
(* and its enqueue is over.                                                *)
LEMMA HeadIsOldest ==
  ASSUME IInv, pc[Consumer] = "d_read", HeadCell # NULL
  PROVE  /\ head < tail /\ line # << >> /\ HeadCell = Head(line)
         /\ \A t \in Producers : pc[t] # "idle" => head + 1 <= cell_id[t]
<1>1. head \in Nat /\ tail \in Nat /\ line \in Seq(Data) /\ CellsOK
  BY DEF IInv, TypeOK
<1>2. /\ head \div SegSize = id[seg_head] /\ id[seg_head] < Len(chain)
      /\ chain[id[seg_head] + 1] = seg_head
  BY DEF IInv, ConsumerOK, ListOK
<1>3. CellAt(head) = HeadCell
  BY <1>2 DEF CellAt, HeadCell
<1>4. ~ (head >= tail) /\ ~ \E t \in Producers : Claims(t, head)
  BY <1>1, <1>2, <1>3 DEF CellsOK
<1>5. head < tail /\ head \in head .. tail - 1
  BY <1>1, <1>4
<1>6. CellAt(head) = line[head - head + 1]
  BY <1>1, <1>4, <1>5 DEF CellsOK
<1>7. Len(line) > 0 /\ head - head + 1 = 1
  BY <1>1, <1>5 DEF CellsOK
<1>8. line # << >> /\ HeadCell = Head(line)
  BY <1>1, <1>3, <1>6, <1>7
<1>9. ASSUME NEW t \in Producers, pc[t] # "idle" PROVE head + 1 <= cell_id[t]
  <2>1. cell_id[t] # head /\ head <= cell_id[t] /\ cell_id[t] \in Nat
    BY <1>1, <1>4, <1>9, EnqFacts DEF CellsOK, Claims
  <2> QED
    BY <1>1, <2>1
<1> QED
  BY <1>5, <1>8, <1>9

LEMMA DeqReadInv == IInv /\ DeqRead => IInv'
<1> SUFFICES ASSUME IInv, DeqRead PROVE IInv'
  OBVIOUS
<1> TypeOK /\ Consumer \in Threads
  BY FAQueueAssumption DEF IInv
<1>1. /\ pc[Consumer] = "d_read" /\ pc' = [pc EXCEPT ![Consumer] = "idle"]
      /\ UNCHANGED <<hpVars, tail, seg_head, segVars, locals, chain>>
      /\ UNCHANGED <<id, cells, next, alive, cell_id, value, seg, lnext>>
  BY DEF DeqRead, At, Goto, segVars, locals
<1>2. HPTypeOK' /\ Retired' = Retired /\ rlist' = rlist
  BY <1>1, HPTypes DEF hpVars, TypeOK, HPTypeOK, Retired
<1>3. pc'[Consumer] = "idle" /\ \A u \in Producers : pc'[u] = pc[u]
  BY <1>1 DEF TypeOK, Producers
<1>4. head \div SegSize = id[seg_head] /\ head \in Nat /\ id[seg_head] < Len(chain)
  BY <1>1 DEF IInv, ConsumerOK, ListOK, TypeOK
<1>5. RetiredOK'
  BY <1>1, <1>2, <1>3, RetiredFrame DEF IInv, RetiredOK, Owns
<1>6. CASE HeadCell = NULL
  <2>1. UNCHANGED <<head, out, line>>
    BY <1>6 DEF DeqRead
  <2>2. TypeOK'
    BY <1>1, <1>2, <2>1 DEF TypeOK
  <2>3. ConsumerOK'
    BY <1>1, <1>3, <1>4, <2>1 DEF ConsumerOK
  <2> QED
    BY <1>1, <1>3, <1>5, <2>1, <2>2, <2>3, ConsumerStep DEF IInv, ListOK
<1>7. CASE HeadCell # NULL
  <2>1. head' = head + 1 /\ out' = HeadCell /\ line' = Tail(line)
    BY <1>7 DEF DeqRead
  <2>2. /\ head < tail /\ line # << >> /\ HeadCell = Head(line)
        /\ \A t \in Producers : pc[t] # "idle" => head + 1 <= cell_id[t]
    BY <1>1, <1>7, HeadIsOldest
  <2>3. /\ line \in Seq(Data) /\ tail \in Nat /\ Len(line) = tail - head
        /\ line' \in Seq(Data) /\ Head(line) \in Data
        /\ Len(line') = tail - (head + 1)
        /\ \A k \in 1 .. Len(line) : k # 1 => line[k] = line'[k - 1]
    BY <2>1, <2>2 DEF TypeOK, IInv, CellsOK
  <2>4. TypeOK'
    BY <1>1, <1>2, <1>4, <2>1, <2>2, <2>3 DEF TypeOK
  <2>5. ListOK'
    BY <1>1, ListFrame
  <2>6. (head + 1) \div SegSize \in {id[seg_head], id[seg_head] + 1}
    BY <1>4, DivisionNext
  <2>7. ConsumerOK'
    BY <1>1, <1>3, <2>1, <2>6 DEF ConsumerOK
  <2>8. \A w \in Producers : Owns(w)' => Owns(w) /\ lnext'[w] = lnext[w]
    BY <1>1, <1>3 DEF Owns
  <2>9. \A u \in Producers : WalkOK(u)' /\ OwnOK(u)'
    BY <1>1, <1>3, <2>8, WalkFrame, OwnFrame
  <2>10. CellsOK'
    <3>1. CellsOK
      BY DEF IInv
    <3>2. /\ \A u, c : Claims(u, c)' <=> Claims(u, c)
          /\ \A c : CellAt(c)' = CellAt(c)
      BY <1>1, <1>3 DEF Claims, CellAt
    <3>3. \A c \in head + 1 .. tail - 1 :
            /\ c \in head .. tail - 1
            /\ line[c - head + 1] = line'[c - (head + 1) + 1]
      BY <1>4, <2>3
    <3>4. ASSUME NEW u \in Producers, pc[u] # "idle"
          PROVE  head + 1 <= cell_id[u] /\ value[u] = line'[cell_id[u] - (head + 1) + 1]
      <4>1. cell_id[u] \in head + 1 .. tail - 1
        BY <1>4, <2>2, <2>3, <3>1, <3>4, EnqFacts DEF CellsOK
      <4>2. value[u] = line[cell_id[u] - head + 1]
        BY <3>1, <3>4 DEF CellsOK
      <4>3. line[cell_id[u] - head + 1] = line'[cell_id[u] - (head + 1) + 1]
        BY <3>3, <4>1
      <4>4. head + 1 <= cell_id[u]
        BY <2>2, <3>4
      <4> QED
        BY <4>2, <4>3, <4>4
    <3>5. head + 1 <= tail
      BY <1>4, <2>2, <2>3
    <3>6. ASSUME NEW u \in Producers, pc'[u] # "idle"
          PROVE  /\ head' <= cell_id'[u] /\ cell_id'[u] < tail'
                 /\ value'[u] = line'[cell_id'[u] - head' + 1]
                 /\ \A w \in Producers \ {u} : pc'[w] # "idle" => cell_id'[w] # cell_id'[u]
      BY <1>1, <1>3, <2>1, <3>1, <3>4, <3>6 DEF CellsOK
    <3>7. ASSUME NEW c \in head + 1 .. tail - 1
          PROVE  \/ \E u \in Producers : Claims(u, c)'
                 \/ c \div SegSize < Len(chain) /\ CellAt(c)' = line'[c - (head + 1) + 1]
      BY <3>1, <3>2, <3>3 DEF CellsOK
    <3>8. ASSUME NEW c \in Nat, c \div SegSize < Len(chain),
                 c >= tail \/ \E u \in Producers : Claims(u, c)'
          PROVE  CellAt(c)' = NULL
      BY <3>1, <3>2, <3>8 DEF CellsOK
    <3> QED
      BY <1>1, <2>1, <2>3, <3>5, <3>6, <3>7, <3>8 DEF CellsOK
  <2> QED
    BY <1>5, <2>4, <2>5, <2>7, <2>9, <2>10 DEF IInv
<1> QED
  BY <1>6, <1>7

-----------------------------------------------------------------------------
LEMMA OnlyProducers ==
  ASSUME IInv, NEW t \in Threads, Enqueue(t)
  PROVE  t \in Producers
<1>1. pc[t] \in {"e_head", "e_next", "e_publish", "e_alloc", "e_cas", "e_lost", "e_reload",
                 "e_store"}
  BY DEF Enqueue, EnqHead, EnqGet, EnqNext, EnqPublish, EnqAlloc, EnqCAS, EnqLost, EnqReload,
     EnqStore, At
<1>2. pc[Consumer] \in {"idle", "d_next", "d_advance", "d_retire", "d_read"}
  BY DEF IInv, ConsumerOK
<1> QED
  BY <1>1, <1>2 DEF Producers

LEMMA StepInv == IInv /\ [Next]_vars => IInv'
<1> SUFFICES ASSUME IInv, [Next]_vars PROVE IInv'
  OBVIOUS
<1>1. CASE UNCHANGED vars
  <2>1. UNCHANGED hpVars /\ UNCHANGED faVars
    BY <1>1 DEF vars
  <2>2. UNCHANGED <<head, tail, seg_head, id, cells, next, alive, pc, cell_id, value, seg,
                    lnext, out, chain, line>>
    BY <2>1 DEF faVars, queueVars, segVars, locals, history
  <2>3. TypeOK'
    BY <2>1, <2>2 DEF IInv, TypeOK, HPTypeOK, hpVars
  <2>4. Retired' = Retired /\ rlist' = rlist
    BY <2>1 DEF hpVars, Retired
  <2>5. \A w \in Producers : Owns(w)' => Owns(w) /\ lnext'[w] = lnext[w]
    BY <2>2 DEF Owns
  <2>6. \A u \in Producers : WalkOK(u)' /\ OwnOK(u)'
    BY <2>2, <2>5, WalkFrame, OwnFrame
  <2>7. ListOK' /\ ConsumerOK' /\ CellsOK'
    BY <2>2, ListFrame, ConsumerFrame, CellsFrame
  <2>8. RetiredOK'
    BY <2>2, <2>4, <2>5, RetiredFrame DEF IInv, RetiredOK
  <2> QED
    BY <2>3, <2>6, <2>7, <2>8 DEF IInv
<1>2. ASSUME NEW t \in Threads, Enqueue(t) PROVE IInv'
  <2>1. t \in Producers
    BY <1>2, OnlyProducers
  <2>2. CASE EnqCAS(t)
    BY <2>1, <2>2, EnqLinkInv, EnqBeatenInv
  <2> QED
    BY <1>2, <2>1, <2>2, EnqHeadInv, HazardInv, EnqNextInv, EnqPublishInv, EnqAllocInv,
       EnqLostInv, EnqReloadInv, EnqStoreInv DEF Enqueue
<1>3. ASSUME NEW t \in Threads, EnqFetchAdd(t) \/ ScanStep(t) PROVE IInv'
  BY <1>3, FetchAddInv, HazardInv
<1>4. CASE DeqBegin \/ Dequeue
  BY <1>4, DeqBeginInv, DeqNextInv, DeqAdvanceInv, DeqRetireInv, DeqReadInv DEF Dequeue
<1> QED
  BY <1>1, <1>2, <1>3, <1>4 DEF Next

(* The inductive invariant: the list of the segments, the place of every   *)
(* thread in it, what the cells hold, and what is retired.                 *)
THEOREM Invariance == Spec => []IInv
<1> QED
  BY InitInv, StepInv, PTL DEF Spec

(* The consumer never overtakes a producer: a producer that starts from a  *)
(* first segment that is retired by now still comes to the segment of its  *)
(* cell, which is in the list and not retired, so that its store (line 81  *)
(* of zm_faqueue.c) is not lost; the assertions of zm_facell_find and of   *)
(* zm_faseg_advance hold, and no segment is retired twice or while it is   *)
(* still to be read (lines 44 and 98).                                     *)
THEOREM ProducersStayAhead == Spec => []SegmentsOK
<1>1. ASSUME IInv, NEW t \in Producers, pc[t] = "e_store"
      PROVE  /\ Target(t) < Len(chain) /\ seg[t] = chain[Target(t) + 1]
             /\ id[seg_head] <= id[seg[t]] /\ id[seg[t]] = Target(t)
             /\ head <= cell_id[t] /\ cells[seg[t]][cell_id[t] % SegSize] = NULL
  <2>1. /\ Target(t) < Len(chain) /\ seg[t] = chain[Target(t) + 1]
        /\ id[seg_head] <= Target(t) /\ Target(t) \in Nat
    BY <1>1, EnqFacts DEF IInv, WalkOK
  <2>2. Target(t) + 1 \in 1 .. Len(chain)
    BY <1>1, <2>1, ListFacts
  <2>3. id[chain[Target(t) + 1]] = (Target(t) + 1) - 1
    BY <1>1, <2>2 DEF IInv, ListOK
  <2>4. head <= cell_id[t] /\ cell_id[t] \in Nat /\ CellAt(cell_id[t]) = NULL
    BY <1>1, <2>1, EnqFacts DEF IInv, CellsOK, Claims, Target
  <2>5. cells[seg[t]][cell_id[t] % SegSize] = NULL
    BY <2>1, <2>4 DEF CellAt, Target
  <2> QED
    BY <2>1, <2>3, <2>4, <2>5
<1>2. IInv => StoresAhead
  BY <1>1 DEF IInv, StoresAhead
<1>3. ASSUME IInv, NEW t \in Threads
      PROVE  /\ \A s \in rlist[t] \cup reclaimed :
                  \A k \in 1 .. Len(chain) : chain[k] = s => k <= id[seg_head]
             /\ \A u \in Threads \ {t} : rlist[t] \cap rlist[u] = {}
             /\ pc[t] = "d_retire" => \A u \in Threads : seg[t] \notin rlist[u] \cup reclaimed
             /\ pc[t] = "e_lost" => \A u \in Threads : lnext[t] \notin rlist[u] \cup reclaimed
  <2>1. \A u \in Threads : rlist[u] \cup reclaimed \subseteq Retired
    BY DEF Retired
  <2>2. \A k \in 1 .. Len(chain) : chain[k] \in Retired => k <= id[seg_head]
    BY <1>3 DEF IInv, RetiredOK
  <2>3. \A u \in Threads \ {t} : rlist[t] \cap rlist[u] = {}
    BY <1>3 DEF IInv, RetiredOK
  <2>4. pc[t] = "d_retire" => seg[t] \notin Retired
    <3>1. pc[t] = "d_retire" => t = Consumer
      BY <1>3 DEF IInv, WalkOK, Producers
    <3>2. ASSUME pc[Consumer] = "d_retire" PROVE seg[Consumer] \notin Retired
      <4>1. id[seg_head] \in 1 .. Len(chain) /\ seg[Consumer] = chain[id[seg_head]]
        BY <1>3, <3>2, ListFacts DEF IInv, ConsumerOK
      <4>2. \A k \in 1 .. Len(chain) : chain[k] \in Retired => k < id[seg_head]
        BY <1>3, <3>2 DEF IInv, RetiredOK
      <4> QED
        BY <4>1, <4>2
    <3> QED
      BY <3>1, <3>2
  <2>5. pc[t] = "e_lost" => lnext[t] \notin Retired
    BY <1>3 DEF IInv, RetiredOK, Owns, ConsumerOK, Producers
  <2> QED
    BY <2>1, <2>2, <2>3, <2>4, <2>5
<1>4. IInv => RetiredBehind
  BY <1>3 DEF RetiredBehind
<1>5. IInv => SegmentsOK
  BY <1>2, <1>4 DEF SegmentsOK
<1> QED
  BY <1>5, Invariance, PTL

(* zm_faqueue_dequeue comes back with nothing (lines 90 and 105) only if   *)
(* there is nothing, or if the enqueue that drew the cell of the consumer  *)
(* is still under way.                                                     *)
THEOREM MissesJustified == Spec => MissJustified
<1>1. ASSUME IInv, [Next]_vars, pc[Consumer] # "idle", pc'[Consumer] = "idle", out' = NULL
      PROVE  line = << >> \/ \E t \in Producers : pc[t] # "idle" /\ cell_id[t] = head
  <2> TypeOK /\ Consumer \in Threads
    BY <1>1, FAQueueAssumption DEF IInv
  <2>1. pc' # pc
    BY <1>1
  <2>2. \A t \in Producers : Enqueue(t) => pc'[Consumer] = pc[Consumer]
    <3>1. ASSUME NEW t \in Producers, Enqueue(t) PROVE pc'[Consumer] = pc[Consumer]
      <4>1. t # Consumer
        BY DEF Producers
      <4>2. pc' = pc \/ \E l : pc' = [pc EXCEPT ![t] = l]
        BY <3>1 DEF Enqueue, EnqHead, EnqGet, EnqNext, EnqPublish, EnqAlloc, EnqCAS, EnqLost,
           EnqReload, EnqStore, At, Goto, Walk, faVars
      <4> QED
        BY <4>1, <4>2 DEF TypeOK
    <3> QED
      BY <3>1
  <2>3. \A t \in Threads : EnqFetchAdd(t) \/ ScanStep(t) => pc'[Consumer] = pc[Consumer]
    BY DEF EnqFetchAdd, ScanStep, faVars, At, Goto, TypeOK
  <2>4. DeqNext \/ DeqRead
    <3>1. ~ DeqBegin /\ ~ DeqAdvance /\ ~ DeqRetire
      BY <1>1 DEF DeqBegin, DeqAdvance, DeqRetire, At, Goto, TypeOK
    <3>2. ~ \E t \in Threads : EnqFetchAdd(t) \/ Enqueue(t) \/ ScanStep(t)
      BY <1>1, <2>2, <2>3, OnlyProducers
    <3>3. ~ UNCHANGED vars
      BY <2>1 DEF vars, faVars
    <3> QED
      BY <1>1, <3>1, <3>2, <3>3 DEF Next, Dequeue
  <2>5. head \in Nat /\ tail \in Nat /\ line \in Seq(Data) /\ CellsOK
    BY <1>1 DEF IInv, TypeOK
  <2>6. SUFFICES ASSUME line # << >>, ~ \E t \in Producers : Claims(t, head)
                 PROVE  FALSE
    BY DEF Claims
  <2>7. head \in head .. tail - 1
    <3>1. Len(line) > 0
      BY <2>5, <2>6
    <3> QED
      BY <2>5, <3>1 DEF CellsOK
  <2>8. head \div SegSize < Len(chain) /\ CellAt(head) = line[head - head + 1]
    BY <2>5, <2>6, <2>7 DEF CellsOK
  <2>9. CellAt(head) # NULL
    <3>1. head - head + 1 = 1 /\ line[1] \in Data
      BY <2>5, <2>6
    <3> QED
      BY <2>8, <3>1, FAQueueAssumption
  <2>10. CASE DeqNext
    <3>1. BehindHead /\ next[seg_head] = NULL
      BY <1>1, <2>10 DEF DeqNext, Goto, TypeOK
    <3>2. id[seg_head] < head \div SegSize /\ head \div SegSize \in Nat /\ id[seg_head] \in Nat
      BY <1>1, <2>5, <3>1, Division, ListFacts DEF BehindHead
    <3>3. id[seg_head] + 1 < Len(chain)
      BY <1>1, <2>8, <3>2, ListFacts
    <3>4. next[seg_head] = chain[id[seg_head] + 2] /\ id[seg_head] + 2 \in 1 .. Len(chain)
      BY <1>1, <3>2, <3>3, ListFacts
    <3> QED
      BY <1>1, <3>1, <3>4, ListFacts
  <2>11. CASE DeqRead
    <3>1. pc[Consumer] = "d_read" /\ HeadCell = NULL
      BY <1>1, <2>11 DEF DeqRead, At
    <3>2. head \div SegSize = id[seg_head] /\ chain[id[seg_head] + 1] = seg_head
      BY <1>1, <3>1 DEF IInv, ConsumerOK, ListOK
    <3> QED
      BY <2>9, <3>1, <3>2 DEF CellAt, HeadCell
  <2> QED
    BY <2>4, <2>10, <2>11
<1>2. IInv /\ [Next]_vars =>
        [pc[Consumer] # "idle" /\ pc'[Consumer] = "idle" /\ out' = NULL =>
           \/ line = << >>
           \/ \E t \in Producers : pc[t] # "idle" /\ cell_id[t] = head]_vars
  BY <1>1
<1> QED
  BY <1>2, Invariance, PTL DEF Spec, MissJustified

(* The queue implements FifoQueue: the fetch-and-add of zm_faqueue_enqueue *)
(* puts the element behind all others, whoever stores first, and the end   *)
(* of zm_faqueue_dequeue takes the oldest one.                             *)
THEOREM ImplementsFifoQueue == Spec => FifoOrder
<1> DEFINE O == [c \in {Consumer} |-> out]
<1>1. Init => Fifo!Init
  BY DEF Init, Fifo!Init
<1>2. ASSUME IInv, [Next]_vars PROVE [Fifo!Next]_(Fifo!vars)
  <2>1. SUFFICES Fifo!Next \/ UNCHANGED <<line, O>>
    BY DEF Fifo!vars
  <2>2. line' = line /\ out' = out => UNCHANGED <<line, O>>
    OBVIOUS
  <2>3. out' = NULL /\ line' = line => Fifo!Next
    <3>1. ASSUME out' = NULL PROVE O' = [O EXCEPT ![Consumer] = NULL]
      BY <3>1
    <3> QED
      BY <3>1 DEF Fifo!Next, Fifo!Miss
  <2>4. ASSUME NEW t \in Threads, EnqFetchAdd(t) PROVE Fifo!Next
    <3>1. PICK v \in Data : line' = Append(line, v) /\ out' = out
      BY <2>4, FAQueueAssumption DEF EnqFetchAdd
    <3> QED
      BY <3>1 DEF Fifo!Next, Fifo!Enqueue
  <2>5. ASSUME NEW t \in Threads, Enqueue(t) \/ ScanStep(t) PROVE line' = line /\ out' = out
    BY <2>5 DEF Enqueue, ScanStep, EnqHead, EnqGet, EnqNext, EnqPublish, EnqAlloc, EnqCAS,
       EnqLost, EnqReload, EnqStore, faVars, history
  <2>6. CASE DeqBegin
    BY <2>3, <2>6 DEF DeqBegin, history
  <2>7. CASE DeqNext \/ DeqAdvance \/ DeqRetire
    BY <2>2, <2>7 DEF DeqNext, DeqAdvance, DeqRetire, history
  <2>8. CASE DeqRead
    <3>1. CASE HeadCell = NULL
      BY <2>2, <2>8, <3>1 DEF DeqRead
    <3>2. CASE HeadCell # NULL
      <4>1. line # << >> /\ out' = Head(line) /\ line' = Tail(line)
        BY <1>2, <2>8, <3>2, HeadIsOldest DEF DeqRead, At
      <4>2. O' = [O EXCEPT ![Consumer] = Head(line)]
        BY <4>1
      <4> QED
        BY <4>1, <4>2 DEF Fifo!Next, Fifo!Dequeue
    <3> QED
      BY <3>1, <3>2
  <2>9. CASE UNCHANGED vars
    BY <2>2, <2>9 DEF vars, faVars, history
  <2> QED
    BY <1>2, <2>2, <2>4, <2>5, <2>6, <2>7, <2>8, <2>9 DEF Next, Dequeue
<1> QED
  BY <1>1, <1>2, Invariance, PTL DEF Spec, FifoOrder, Fifo!Spec
=============================================================================
