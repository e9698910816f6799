-------------------------- MODULE SWPQueueProofs --------------------------
(***************************************************************************)
(* What the swap queue does for every number of producers, nodes and       *)
(* payloads: its memory is safe, its emptiness test honest, and it is a    *)
(* FIFO queue.                                                             *)
(***************************************************************************)
EXTENDS SWPQueue, SequenceTheorems, TLAPS

(* Whatever a thread holds or the line contains is allocated.              *)
LEMMA Held ==
  ASSUME IInv
  PROVE  /\ \A i \in 1..Len(line) : line[i] \in alive /\ line[i] \in Nodes
         /\ \A p \in Producers : pc[p] # "idle" => node[p] \in alive
         /\ \A p \in Producers : Linking(p) => pred[p] \in alive
         /\ Len(line) \in Nat /\ Len(line) > 0
         /\ head \in alive /\ tail \in alive
<1>1. \A i \in 1..Len(line) : line[i] \in alive /\ line[i] \in Nodes
  BY DEF IInv, MemoryAccounted, TypeOK
<1>2. Len(line) \in Nat /\ Len(line) > 0
  BY DEF IInv, MemoryAccounted, TypeOK, LineOK
<1>3. ASSUME NEW p \in Producers, Linking(p)
      PROVE  node[p] \in alive /\ pred[p] \in alive
  <2>1. PICK i \in 1..Len(line) : i < Len(line) /\ pred[p] = line[i] /\ node[p] = line[i + 1]
    BY <1>3 DEF IInv, ProducersOK
  <2>2. i + 1 \in 1..Len(line)
    BY <1>2, <2>1
  <2> QED
    BY <1>1, <2>1, <2>2
<1>4. ASSUME NEW p \in Producers, pc[p] # "idle" PROVE node[p] \in alive
  <2>1. pc[p] = "swap" \/ Linking(p)
    BY <1>4 DEF IInv, MemoryAccounted, TypeOK, Linking
  <2> QED
    BY <1>3, <2>1 DEF IInv, ProducersOK
<1>5. head \in alive /\ tail \in alive
  BY <1>1, <1>2 DEF IInv, LineOK
<1> QED
  BY <1>1, <1>2, <1>3, <1>4, <1>5

(* A node that is owed is the node of one producer, behind its pred.       *)
LEMMA OneLink ==
  ASSUME IInv, NEW p \in Producers, Linking(p),
         NEW i \in 1..Len(line), i < Len(line), node[p] = line[i + 1]
  PROVE  /\ pred[p] = line[i] /\ next[line[i]] = NULL
         /\ \A q \in Producers : Linking(q) /\ pred[q] = line[i] => q = p
<1>1. Len(line) \in Nat
  BY Held
<1>2. \A q \in Producers : \A j \in 1..Len(line) :
        Linking(q) /\ j < Len(line) /\ pred[q] = line[i] /\ pred[q] = line[j]
          => j = i
  BY DEF IInv, LineOK
<1>3. \A j \in 1..Len(line) : j < Len(line) /\ line[j + 1] = line[i + 1] => j = i
  BY <1>1 DEF IInv, LineOK
<1>4. pred[p] = line[i] /\ next[line[i]] = NULL
  BY <1>3 DEF IInv, ProducersOK
<1>5. ASSUME NEW q \in Producers, Linking(q), pred[q] = line[i] PROVE q = p
  <2>1. node[q] = line[i + 1]
    BY <1>2, <1>5 DEF IInv, ProducersOK
  <2> QED
    BY <1>5, <2>1 DEF IInv, ProducersOK, Linking
<1> QED
  BY <1>4, <1>5

LEMMA InitInv == Init => IInv
<1> SUFFICES ASSUME Init PROVE IInv
  OBVIOUS
<1>1. PICK dummy \in Nodes :
        /\ head = dummy /\ tail = dummy /\ line = << dummy >>
        /\ next = [n \in Nodes |-> NULL] /\ data = [n \in Nodes |-> NULL]
        /\ alive = {dummy}
  BY DEF Init
<1>2. Len(line) = 1 /\ line[1] = dummy /\ 1..Len(line) = {1}
  BY <1>1
<1>3. TypeOK
  BY <1>1 DEF Init, TypeOK
<1>4. MemoryAccounted
  BY <1>1, <1>2, <1>3 DEF Init, MemoryAccounted
<1>5. LineOK
  BY <1>1, <1>2 DEF LineOK
<1>6. ProducersOK /\ ConsumerOK /\ StrongOK /\ StrongEmptyIsEmpty
  BY DEF Init, ProducersOK, ConsumerOK, StrongOK, StrongEmptyIsEmpty, Linking
<1> QED
  BY <1>4, <1>5, <1>6 DEF IInv

LEMMA AllocInv ==
  ASSUME IInv, NEW p \in Producers, EnqAlloc(p)
  PROVE  IInv'
<1>1. PICK n \in Nodes \ alive, v \in Data :
        /\ alive' = alive \cup {n}
        /\ data' = [data EXCEPT ![n] = v]
        /\ next' = [next EXCEPT ![n] = NULL]
        /\ node' = [node EXCEPT ![p] = n]
  BY DEF EnqAlloc
<1>2. /\ pc[p] = "idle" /\ pc' = [pc EXCEPT ![p] = "swap"]
      /\ UNCHANGED <<head, tail, pred, cpc, chead, ctail, out, answer, seen, line>>
  BY DEF EnqAlloc, consumerVars
<1>3. TypeOK'
  BY <1>1, <1>2 DEF IInv, MemoryAccounted, TypeOK
<1>4. /\ \A q \in Producers : Linking(q)' <=> Linking(q)
      /\ \A q \in Producers : q # p => node'[q] = node[q] /\ pc'[q] = pc[q]
      /\ node'[p] = n /\ pc'[p] = "swap"
      /\ \A m \in Nodes : m # n => next'[m] = next[m] /\ data'[m] = data[m]
      /\ next'[n] = NULL /\ data'[n] = v
  BY <1>1, <1>2 DEF IInv, MemoryAccounted, TypeOK, Linking
<1>5. \A q \in Producers : Linking(q) => node'[q] = node[q]
  BY <1>2, <1>4 DEF Linking
<1>6. MemoryAccounted'
  <2>1. {q \in Producers : pc'[q] = "swap"} = {q \in Producers : pc[q] = "swap"} \cup {p}
    BY <1>2, <1>4
  <2>2. {node'[q] : q \in {r \in Producers : pc'[r] = "swap"}}
          = {node[q] : q \in {r \in Producers : pc[r] = "swap"}} \cup {n}
    BY <1>2, <1>4, <2>1
  <2> QED
    BY <1>1, <1>2, <1>3, <2>2 DEF IInv, MemoryAccounted
<1>7. LineOK'
  BY <1>1, <1>2, <1>4, <1>5, Held DEF IInv, LineOK, Owed
<1>8. ProducersOK'
  BY <1>1, <1>2, <1>4, <1>5, Held DEF IInv, ProducersOK, Linking
<1>9. ConsumerOK'
  BY <1>1, <1>2, <1>4, Held DEF IInv, MemoryAccounted, TypeOK, ConsumerOK
<1>10. StrongOK' /\ StrongEmptyIsEmpty'
  BY <1>2 DEF IInv, StrongOK, StrongEmptyIsEmpty
<1> QED
  BY <1>6, <1>7, <1>8, <1>9, <1>10 DEF IInv

LEMMA SwapInv ==
  ASSUME IInv, NEW p \in Producers, EnqSwap(p)
  PROVE  IInv'
<1> DEFINE n == Len(line)
<1>1. /\ pc[p] = "swap" /\ pc' = [pc EXCEPT ![p] = "link"]
      /\ pred' = [pred EXCEPT ![p] = tail] /\ tail' = node[p]
      /\ UNCHANGED <<head, next, data, alive, node, cpc, chead, ctail, out, answer, seen>>
  BY DEF EnqSwap, consumerVars
<1>2. node[p] \in Nodes /\ line \in Seq(Nodes) /\ n \in Nat /\ n > 0
  BY <1>1, Held DEF IInv, MemoryAccounted, TypeOK, ProducersOK
<1>3. /\ line' \in Seq(Nodes) /\ Len(line') = n + 1
      /\ \A i \in 1..n : line'[i] = line[i]
      /\ line'[n + 1] = node[p]
  BY <1>2 DEF EnqSwap
<1>4. TypeOK'
  BY <1>1, <1>2, <1>3 DEF IInv, MemoryAccounted, TypeOK
<1>5. /\ \A q \in Producers : q # p => pc'[q] = pc[q] /\ pred'[q] = pred[q]
      /\ pc'[p] = "link" /\ pred'[p] = tail
      /\ \A q \in Producers : Linking(q)' <=> Linking(q) \/ q = p
  BY <1>1 DEF IInv, MemoryAccounted, TypeOK, Linking
<1>6. MemoryAccounted'
  <2>1. {line'[i] : i \in 1..Len(line')} = {line[i] : i \in 1..Len(line)} \cup {node[p]}
    BY <1>2, <1>3
  <2>2. {q \in Producers : pc[q] = "swap"} = {q \in Producers : pc'[q] = "swap"} \cup {p}
    BY <1>1, <1>5
  <2>3. {node[q] : q \in {r \in Producers : pc[r] = "swap"}}
          = {node[q] : q \in {r \in Producers : pc'[r] = "swap"}} \cup {node[p]}
    BY <2>2
  <2> QED
    BY <1>1, <1>4, <2>1, <2>3 DEF IInv, MemoryAccounted
<1>7. LineOK'
  <2>1. line' # << >> /\ head' = line'[1] /\ tail' = line'[Len(line')]
    BY <1>1, <1>2, <1>3 DEF IInv, LineOK
  <2>2. \A i \in 1..n : line[i] # node[p]
    BY <1>1 DEF IInv, ProducersOK
  <2>3. \A i, j \in 1..Len(line') : line'[i] = line'[j] => i = j
    BY <1>2, <1>3, <2>2 DEF IInv, LineOK
  <2>4. \A i \in 1..Len(line') : i > 1 => data'[line'[i]] \in Data
    BY <1>1, <1>2, <1>3 DEF IInv, LineOK, ProducersOK
  <2>5. ASSUME NEW i \in 1..Len(line')
        PROVE  \/ next'[line'[i]] = NULL /\ (i < Len(line') => Owed(line[i + 1])')
               \/ i < Len(line') /\ next'[line'[i]] = line'[i + 1]
    <3>1. CASE i = n + 1
      BY <1>1, <1>2, <1>3, <3>1 DEF IInv, ProducersOK
    <3>2. CASE i = n
      <4>1. line'[i + 1] = node'[p] /\ Linking(p)'
        BY <1>1, <1>3, <1>5, <3>2 DEF Linking
      <4>2. next[line[n]] = NULL
        BY <1>2 DEF IInv, LineOK
      <4>3. Owed(line[i + 1])'
        BY <4>1 DEF Owed
      <4> QED
        BY <1>1, <1>2, <1>3, <3>2, <4>2, <4>3
    <3>3. CASE i < n
      <4>1. i \in 1..n /\ i + 1 \in 1..n /\ i < Len(line')
        BY <1>2, <1>3, <3>3
      <4>2. line'[i] = line[i] /\ line'[i + 1] = line[i + 1]
        BY <1>3, <4>1
      <4>3. Owed(line[i + 1]) => Owed(line[i + 1])'
        BY <1>1, <1>5, <4>2 DEF Owed
      <4> QED
        BY <1>1, <3>3, <4>1, <4>2, <4>3 DEF IInv, LineOK
    <3> QED
      BY <1>2, <1>3, <3>1, <3>2, <3>3
  <2> QED
    BY <2>1, <2>3, <2>4, <2>5 DEF LineOK
<1>8. ProducersOK'
  <2>1. ASSUME NEW q \in Producers, pc'[q] = "swap"
        PROVE  /\ node'[q] \in alive' /\ next'[node'[q]] = NULL
               /\ data'[node'[q]] \in Data
               /\ \A i \in 1..Len(line') : line'[i] # node'[q]
    <3>1. q # p /\ pc[q] = "swap"
      BY <1>5, <2>1
    <3>2. node[q] # node[p]
      BY <1>1, <3>1 DEF IInv, ProducersOK
    <3> QED
      BY <1>1, <1>2, <1>3, <3>1, <3>2 DEF IInv, ProducersOK
  <2>2. ASSUME NEW q \in Producers, Linking(q)'
        PROVE  \E i \in 1..Len(line') :
                 /\ i < Len(line') /\ pred'[q] = line'[i] /\ node'[q] = line'[i + 1]
                 /\ next'[pred'[q]] = NULL
    <3>1. CASE q = p
      <4>1. tail = line[n] /\ next[tail] = NULL
        BY <1>2 DEF IInv, LineOK
      <4>2. n \in 1..Len(line') /\ n < Len(line') /\ n \in 1..n
        BY <1>2, <1>3
      <4> QED
        BY <1>1, <1>3, <1>5, <3>1, <4>1, <4>2
    <3>2. CASE q # p
      <4>1. PICK i \in 1..n :
              /\ i < n /\ pred[q] = line[i] /\ node[q] = line[i + 1]
              /\ next[pred[q]] = NULL
        BY <1>5, <2>2, <3>2 DEF IInv, ProducersOK
      <4>2. i \in 1..Len(line') /\ i < Len(line') /\ i + 1 \in 1..n
        BY <1>2, <1>3, <4>1
      <4> QED
        BY <1>1, <1>3, <1>5, <3>2, <4>1, <4>2
    <3> QED
      BY <3>1, <3>2
  <2>3. ASSUME NEW q \in Producers, NEW r \in Producers \ {q},
               pc'[q] # "idle", pc'[r] # "idle"
        PROVE  node'[q] # node'[r]
    BY <1>1, <1>5, <2>3 DEF IInv, ProducersOK
  <2> QED
    BY <2>1, <2>2, <2>3 DEF ProducersOK
<1>9. ConsumerOK'
  <2>1. cpc = "take" => node[p] # chead
    BY <1>1 DEF IInv, ConsumerOK
  <2>2. \A q \in Producers : pc'[q] # "idle" => pc[q] # "idle"
    BY <1>1, <1>5
  <2>3. cpc = "take" => \A i \in 1..Len(line') : line'[i] # chead
    BY <1>2, <1>3, <2>1 DEF IInv, ConsumerOK
  <2> QED
    BY <1>1, <2>2, <2>3 DEF IInv, ConsumerOK
<1>10. StrongOK' /\ StrongEmptyIsEmpty'
  BY <1>1 DEF IInv, StrongOK, StrongEmptyIsEmpty
<1> QED
  BY <1>6, <1>7, <1>8, <1>9, <1>10 DEF IInv

LEMMA LinkInv ==
  ASSUME IInv, NEW p \in Producers, EnqLink(p)
  PROVE  IInv'
<1> DEFINE n == Len(line)
<1>1. /\ Linking(p) /\ next' = [next EXCEPT ![pred[p]] = node[p]]
      /\ pc' = [pc EXCEPT ![p] = "idle"]
      /\ node' = [node EXCEPT ![p] = NULL] /\ pred' = [pred EXCEPT ![p] = NULL]
      /\ UNCHANGED <<head, tail, data, alive, cpc, chead, ctail, out, answer, seen, line>>
  BY DEF EnqLink, Linking, consumerVars
<1>2. PICK k \in 1..n : k < n /\ pred[p] = line[k] /\ node[p] = line[k + 1]
  BY <1>1 DEF IInv, ProducersOK
<1>3. /\ n \in Nat /\ k + 1 \in 1..n
      /\ \A i \in 1..n : line[i] \in Nodes /\ line[i] # NULL
  BY <1>2, Held, SWPQueueAssumption
<1>4. /\ \A m \in Nodes : m # line[k] => next'[m] = next[m]
      /\ next'[line[k]] = line[k + 1]
  BY <1>1, <1>2, <1>3 DEF IInv, MemoryAccounted, TypeOK
<1>5. /\ \A q \in Producers : q # p => /\ pc'[q] = pc[q] /\ node'[q] = node[q]
                                      /\ pred'[q] = pred[q]
      /\ pc'[p] = "idle"
      /\ \A q \in Producers : Linking(q)' <=> Linking(q) /\ q # p
  BY <1>1 DEF IInv, MemoryAccounted, TypeOK, Linking
<1>6. TypeOK'
  BY <1>1, <1>2, <1>3 DEF IInv, MemoryAccounted, TypeOK
<1>7. MemoryAccounted'
  <2>1. {q \in Producers : pc[q] = "swap"} = {q \in Producers : pc'[q] = "swap"}
    BY <1>1, <1>5 DEF Linking
  <2>2. {node[q] : q \in {r \in Producers : pc[r] = "swap"}}
          = {node'[q] : q \in {r \in Producers : pc'[r] = "swap"}}
    BY <1>5, <2>1
  <2> QED
    BY <1>1, <1>6, <2>2 DEF IInv, MemoryAccounted
<1>8. LineOK'
  <2>1. next'[tail'] = NULL
    <3>1. tail = line[n] /\ n \in 1..n
      BY <1>3, Held DEF IInv, LineOK
    <3>2. tail # line[k] /\ next[tail] = NULL
      BY <1>2, <3>1 DEF IInv, LineOK
    <3> QED
      BY <1>1, <1>3, <1>4, <3>1, <3>2
  <2>2. ASSUME NEW i \in 1..Len(line')
        PROVE  \/ next'[line'[i]] = NULL /\ (i < Len(line') => Owed(line[i + 1])')
               \/ i < Len(line') /\ next'[line'[i]] = line'[i + 1]
    <3>1. CASE i = k
      BY <1>1, <1>2, <1>4, <3>1
    <3>2. CASE i # k
      <4>1. line[i] # line[k] /\ i \in 1..n
        BY <1>1, <3>2 DEF IInv, LineOK
      <4>2. next'[line[i]] = next[line[i]]
        BY <1>3, <1>4, <4>1
      <4>3. ASSUME i < n, Owed(line[i + 1]) PROVE Owed(line[i + 1])'
        <5>1. PICK q \in Producers : Linking(q) /\ node[q] = line[i + 1]
          BY <4>3 DEF Owed
        <5>2. i + 1 \in 1..n /\ line[i + 1] # line[k + 1]
          BY <1>3, <3>2, <4>1, <4>3 DEF IInv, LineOK
        <5>3. q # p
          BY <1>2, <5>1, <5>2
        <5> QED
          BY <1>1, <1>5, <5>1, <5>3 DEF Owed
      <4> QED
        BY <1>1, <4>1, <4>2, <4>3 DEF IInv, LineOK
    <3> QED
      BY <3>1, <3>2
  <2> QED
    BY <1>1, <2>2 DEF IInv, LineOK
<1>9. ProducersOK'
  <2>1. ASSUME NEW q \in Producers, pc'[q] = "swap" PROVE next'[node'[q]] = NULL
    <3>1. q # p /\ pc[q] = "swap"
      BY <1>5, <2>1
    <3>2. node[q] # line[k] /\ node[q] \in Nodes /\ next[node[q]] = NULL
      BY <3>1 DEF IInv, MemoryAccounted, TypeOK, ProducersOK
    <3> QED
      BY <1>4, <1>5, <3>1, <3>2
  <2>2. ASSUME NEW q \in Producers, Linking(q)' PROVE next'[pred'[q]] = NULL
    <3>1. q # p /\ Linking(q)
      BY <1>5, <2>2
    <3>2. pred[q] # line[k]
      BY <1>1, <1>2, <3>1, OneLink
    <3>3. pred[q] \in Nodes /\ next[pred[q]] = NULL
      BY <1>3, <3>1 DEF IInv, ProducersOK
    <3> QED
      BY <1>4, <1>5, <3>1, <3>2, <3>3
  <2> QED
    BY <1>1, <1>5, <2>1, <2>2 DEF IInv, ProducersOK
<1>10. ConsumerOK'
  <2>1. cpc = "advance" => next'[head] # NULL
    <3>1. head \in Nodes
      BY DEF IInv, MemoryAccounted, TypeOK
    <3> QED
      BY <1>3, <1>4, <3>1 DEF IInv, ConsumerOK
  <2> QED
    BY <1>1, <1>5, <2>1 DEF IInv, ConsumerOK
<1>11. StrongOK' /\ StrongEmptyIsEmpty'
  BY <1>1 DEF IInv, StrongOK, StrongEmptyIsEmpty
<1> QED
  BY <1>7, <1>8, <1>9, <1>10, <1>11 DEF IInv

(* What the line and the producers need is not touched by the consumer's   *)
(* loads and tests.                                                        *)
LEMMA LoadInv ==
  ASSUME IInv, DeqBegin \/ DeqTest \/ IsEmptyWeak \/ StrongLoad \/ StrongTest
  PROVE  IInv'
<1>1. UNCHANGED <<head, tail, next, data, alive, pc, node, pred, line>>
  BY DEF DeqBegin, DeqTest, IsEmptyWeak, StrongLoad, StrongTest, queueVars,
         producerVars
<1>2. cpc # "take" /\ cpc' # "take"
  BY DEF DeqBegin, DeqTest, IsEmptyWeak, StrongLoad, StrongTest
<1>3. TypeOK'
  BY <1>1 DEF IInv, MemoryAccounted, TypeOK, DeqBegin, DeqTest, IsEmptyWeak,
              StrongLoad, StrongTest
<1>4. MemoryAccounted'
  BY <1>1, <1>2, <1>3 DEF IInv, MemoryAccounted
<1>5. LineOK' /\ ProducersOK'
  BY <1>1 DEF IInv, LineOK, Owed, Linking, ProducersOK
<1>6. ConsumerOK'
  BY <1>1, <1>2 DEF IInv, ConsumerOK, DeqBegin, DeqTest, IsEmptyWeak, StrongLoad,
                    StrongTest
<1>7. StrongOK'
  <2>1. head = tail => Len(line) = 1
    <3>1. Len(line) \in 1..Len(line) /\ 1 \in 1..Len(line)
      BY Held
    <3> QED
      BY <3>1 DEF IInv, LineOK
  <2> QED
    BY <2>1 DEF IInv, StrongOK, DeqBegin, DeqTest, IsEmptyWeak, StrongLoad, StrongTest
<1>8. StrongEmptyIsEmpty'
  BY DEF IInv, StrongOK, StrongEmptyIsEmpty, DeqBegin, DeqTest, IsEmptyWeak,
         StrongLoad, StrongTest
<1> QED
  BY <1>4, <1>5, <1>6, <1>7, <1>8 DEF IInv

LEMMA AdvanceInv ==
  ASSUME IInv, DeqAdvance
  PROVE  IInv'
<1> DEFINE n == Len(line)
<1>1. /\ cpc = "advance" /\ cpc' = "take" /\ head' = next[chead]
      /\ UNCHANGED <<tail, next, data, alive, pc, node, pred, chead, ctail, out, answer, seen>>
  BY DEF DeqAdvance, producerVars
<1>2. n \in Nat /\ n > 0 /\ line \in Seq(Nodes) /\ 1 \in 1..n
  BY Held DEF IInv, MemoryAccounted, TypeOK
<1>3. chead = head /\ head = line[1] /\ next[head] # NULL
  BY <1>1 DEF IInv, ConsumerOK, LineOK
<1>4. n > 1 /\ next[head] = line[2]
  BY <1>2, <1>3 DEF IInv, LineOK
<1>5. /\ line' \in Seq(Nodes) /\ Len(line') = n - 1
      /\ \A i \in 1..(n - 1) : line'[i] = line[i + 1]
  BY <1>2, <1>4 DEF DeqAdvance
<1>6. TypeOK'
  <2>1. head' \in Nodes
    BY <1>1, <1>2, <1>3, <1>4
  <2> QED
    BY <1>1, <1>5, <2>1 DEF IInv, MemoryAccounted, TypeOK
<1>7. \A i \in 1..n : i = 1 \/ (i - 1 \in 1..(n - 1) /\ line'[i - 1] = line[i])
  <2> TAKE i \in 1..n
  <2>1. i = 1 \/ (i - 1 \in 1..(n - 1) /\ (i - 1) + 1 = i)
    BY <1>2
  <2> QED
    BY <1>5, <2>1
<1>8. \A i \in 1..(n - 1) : i + 1 \in 1..n /\ line[i + 1] # head
  BY <1>2, <1>3 DEF IInv, LineOK
<1>9. MemoryAccounted'
  <2> DEFINE A == {line[i] : i \in 1..n}
             B == {line'[i] : i \in 1..(n - 1)}
             C == {node[p] : p \in {q \in Producers : pc[q] = "swap"}}
  <2>1. A \subseteq B \cup {head}
    BY <1>3, <1>7
  <2>2. B \cup {head} \subseteq A
    BY <1>2, <1>3, <1>5, <1>8
  <2>3. alive = A \cup C
    BY <1>1 DEF IInv, MemoryAccounted
  <2>4. alive' = B \cup C \cup {chead'}
    BY <1>1, <1>3, <2>1, <2>2, <2>3
  <2> QED
    BY <1>1, <1>5, <1>6, <2>4 DEF MemoryAccounted
<1>10. LineOK'
  <2>1. line' # << >> /\ head' = line'[1] /\ tail' = line'[Len(line')]
    <3>1. 1 \in 1..(n - 1) /\ n - 1 \in 1..(n - 1)
      BY <1>2, <1>4
    <3>2. line'[1] = line[2] /\ line'[n - 1] = line[n]
      BY <1>2, <1>5, <3>1
    <3> QED
      BY <1>1, <1>2, <1>3, <1>4, <1>5, <3>2 DEF IInv, LineOK
  <2>2. \A i, j \in 1..Len(line') : line'[i] = line'[j] => i = j
    BY <1>2, <1>5, <1>8 DEF IInv, LineOK
  <2>3. \A i \in 1..Len(line') : data'[line'[i]] \in Data
    BY <1>1, <1>2, <1>5, <1>8 DEF IInv, LineOK
  <2>4. ASSUME NEW i \in 1..Len(line')
        PROVE  \/ next'[line'[i]] = NULL /\ (i < Len(line') => Owed(line[i + 1])')
               \/ i < Len(line') /\ next'[line'[i]] = line'[i + 1]
    <3>1. i \in 1..(n - 1) /\ i + 1 \in 1..n /\ (i < Len(line') <=> i + 1 < n)
      BY <1>2, <1>5
    <3>2. line'[i] = line[i + 1] /\ (i + 1 < n => line'[i + 1] = line[(i + 1) + 1])
      BY <1>2, <1>5, <3>1
    <3>3. i + 1 < n /\ Owed(line[(i + 1) + 1]) => Owed(line[i + 1])'
      BY <1>1, <3>2 DEF Owed, Linking
    <3>4. \/ /\ next[line[i + 1]] = NULL
             /\ i + 1 < n => Owed(line[(i + 1) + 1])
          \/ i + 1 < n /\ next[line[i + 1]] = line[(i + 1) + 1]
      BY <3>1 DEF IInv, LineOK
    <3> QED
      BY <1>1, <3>1, <3>2, <3>3, <3>4
  <2> QED
    BY <2>1, <2>2, <2>3, <2>4 DEF LineOK
<1>11. ProducersOK'
  <2>1. ASSUME NEW p \in Producers, pc'[p] = "swap", NEW i \in 1..Len(line')
        PROVE  line'[i] # node'[p]
    BY <1>1, <1>5, <1>8, <2>1 DEF IInv, ProducersOK
  <2>2. ASSUME NEW p \in Producers, Linking(p)'
        PROVE  \E i \in 1..Len(line') :
                 /\ i < Len(line') /\ pred'[p] = line'[i] /\ node'[p] = line'[i + 1]
                 /\ next'[pred'[p]] = NULL
    <3>1. Linking(p)
      BY <1>1, <2>2 DEF Linking
    <3>2. PICK k \in 1..n : /\ k < n /\ pred[p] = line[k] /\ node[p] = line[k + 1]
                           /\ next[pred[p]] = NULL
      BY <3>1 DEF IInv, ProducersOK
    <3>3. k # 1
      BY <1>3, <3>2
    <3>4. k - 1 \in 1..Len(line') /\ k - 1 < Len(line') /\ (k - 1) + 1 = k /\ k \in 1..(n - 1)
      BY <1>2, <1>5, <3>2, <3>3
    <3>5. line'[k - 1] = line[k] /\ line'[(k - 1) + 1] = line[k + 1]
      BY <1>5, <3>4
    <3> QED
      BY <1>1, <3>2, <3>4, <3>5
  <2> QED
    BY <1>1, <2>1, <2>2 DEF IInv, ProducersOK
<1>12. ConsumerOK'
  <2>1. chead \in alive
    BY <1>3, Held
  <2>2. data[line[2]] \in Data
    BY <1>2, <1>4 DEF IInv, LineOK
  <2>3. ASSUME NEW p \in Producers, pc[p] # "idle" PROVE node[p] # chead
    <3>1. pc[p] = "swap" \/ Linking(p)
      BY <2>3 DEF IInv, MemoryAccounted, TypeOK, Linking
    <3>2. Linking(p) => \E i \in 1..(n - 1) : node[p] = line[i + 1]
      BY <1>2 DEF IInv, ProducersOK
    <3> QED
      BY <1>2, <1>3, <1>8, <3>1, <3>2 DEF IInv, ProducersOK
  <2> QED
    BY <1>1, <1>3, <1>4, <1>5, <1>8, <2>1, <2>2, <2>3 DEF ConsumerOK
<1>13. StrongOK' /\ StrongEmptyIsEmpty'
  BY <1>1 DEF IInv, StrongOK, StrongEmptyIsEmpty
<1> QED
  BY <1>9, <1>10, <1>11, <1>12, <1>13 DEF IInv

LEMMA TakeInv ==
  ASSUME IInv, DeqTake
  PROVE  IInv'
<1>1. /\ cpc = "take" /\ cpc' = "idle" /\ out' = data[head] /\ chead' = NULL
      /\ alive' = alive \ {chead}
      /\ UNCHANGED <<head, tail, next, data, pc, node, pred, ctail, answer, seen, line>>
  BY DEF DeqTake, producerVars
<1>2. TypeOK'
  BY <1>1 DEF IInv, MemoryAccounted, TypeOK
<1>3. /\ \A i \in 1..Len(line) : line[i] # chead
      /\ \A p \in Producers : pc[p] = "swap" => node[p] # chead
  BY <1>1 DEF IInv, ConsumerOK
<1>4. MemoryAccounted'
  BY <1>1, <1>2, <1>3 DEF IInv, MemoryAccounted
<1>5. LineOK' /\ ProducersOK'
  BY <1>1, <1>3 DEF IInv, LineOK, Owed, Linking, ProducersOK
<1>6. ConsumerOK' /\ StrongOK' /\ StrongEmptyIsEmpty'
  BY <1>1 DEF IInv, ConsumerOK, StrongOK, StrongEmptyIsEmpty
<1> QED
  BY <1>4, <1>5, <1>6 DEF IInv

LEMMA StepInv == IInv /\ [Next]_vars => IInv'
<1> SUFFICES ASSUME IInv, [Next]_vars PROVE IInv'
  OBVIOUS
<1>1. ASSUME NEW p \in Producers, Producer(p) PROVE IInv'
  BY <1>1, AllocInv, SwapInv, LinkInv DEF Producer
<1>2. CASE Consumer
  BY <1>2, LoadInv, AdvanceInv, TakeInv DEF Consumer
<1>3. CASE UNCHANGED vars
  BY <1>3 DEF IInv, MemoryAccounted, TypeOK, LineOK, Owed, Linking, ProducersOK,
     ConsumerOK, StrongOK, StrongEmptyIsEmpty, vars, queueVars, producerVars,
     consumerVars
<1> QED
  BY <1>1, <1>2, <1>3 DEF Next
-----------------------------------------------------------------------------
(* The inductive invariant holds of every behaviour of the queue.          *)
THEOREM Invariance == Spec => []IInv
BY InitInv, StepInv, PTL DEF Spec

(* No node is lost, freed twice, freed while in use or touched after its   *)
(* free, however many producers stall between exchange and link.           *)
THEOREM Safety == Spec => []MemorySafe
<1>1. IInv => MemorySafe
  <2> SUFFICES ASSUME IInv PROVE MemorySafe
    OBVIOUS
  <2>1. ASSUME cpc # "idle" PROVE chead \in alive
    BY <2>1, Held DEF IInv, MemoryAccounted, TypeOK, ConsumerOK
  <2> QED
    BY <2>1, Held DEF IInv, MemorySafe, NoUseAfterFree, Linking
<1> QED
  BY <1>1, Invariance, PTL

(* zm_swpqueue_isempty_strong calls no queue empty that was not.           *)
THEOREM StrongTestHonest == Spec => []StrongEmptyIsEmpty
<1>1. IInv => StrongEmptyIsEmpty
  BY DEF IInv
<1> QED
  BY <1>1, Invariance, PTL

(* A dequeue misses an element only behind an enqueue that still has to    *)
(* link the first one.                                                     *)
THEOREM MissesJustified == Spec => MissJustified
<1>1. ASSUME IInv, [Next]_vars, cpc = "test", cpc' = "idle"
      PROVE  \/ Len(line) = 1
             \/ \E p \in Producers : Linking(p) /\ node[p] = line[2]
  <2>1. DeqTest /\ next[head] = NULL
    BY <1>1 DEF IInv, ConsumerOK, Next, Consumer, Producer, vars, consumerVars,
       EnqAlloc, EnqSwap, EnqLink, DeqBegin, DeqTest, DeqAdvance, DeqTake,
       IsEmptyWeak, StrongLoad, StrongTest
  <2>2. Len(line) \in Nat /\ Len(line) > 0 /\ 1 \in 1..Len(line)
    BY <1>1, Held
  <2>3. Len(line) > 1 => line[2] # NULL
    BY <1>1, <2>2, Held, SWPQueueAssumption
  <2>4. 1 < Len(line) => Owed(line[1 + 1])
    BY <1>1, <2>1, <2>2, <2>3 DEF IInv, LineOK
  <2>5. 1 < Len(line) => \E p \in Producers : Linking(p) /\ node[p] = line[2]
    <3>1. 1 + 1 = 2
      OBVIOUS
    <3> QED
      BY <2>4, <3>1, Zenon DEF Owed
  <2>6. Len(line) = 1 \/ 1 < Len(line)
    <3> DEFINE n == Len(line)
    <3>1. n \in Nat /\ n > 0
      BY <2>2
    <3> HIDE DEF n
    <3>2. n = 1 \/ 1 < n
      BY <3>1
    <3> QED
      BY <3>2 DEF n
  <2> QED
    BY <2>5, <2>6
<1>2. IInv /\ [Next]_vars =>
        [cpc = "test" /\ cpc' = "idle" =>
           \/ Len(line) = 1
           \/ \E p \in Producers : Linking(p) /\ node[p] = line[2]]_vars
  BY <1>1
<1> QED
  BY <1>2, Invariance, PTL DEF Spec, MissJustified

(* The swap queue implements the FIFO queue: an element is in it from the  *)
(* exchange on, and out of it when the consumer has moved the head; also   *)
(* when the addresses of freed nodes come back.                            *)
THEOREM ImplementsFifoQueue == Spec => FifoOrder
<1> DEFINE I == [i \in 1..Len(line) - 1 |-> data[line[i + 1]]]
           O == [c \in {"consumer"} |-> IF cpc = "take" THEN data[head] ELSE out]
<1>1. ASSUME Init PROVE Fifo!Init
  <2>1. Len(line) = 1 /\ out = NULL /\ cpc = "idle"
    BY <1>1 DEF Init
  <2> QED
    BY <2>1 DEF Fifo!Init
<1>2. ASSUME IInv, [Next]_vars PROVE [Fifo!Next]_(Fifo!vars)
  <2> DEFINE n == Len(line)
  <2>1. n \in Nat /\ n > 0 /\ line \in Seq(Nodes)
    BY <1>2, Held DEF IInv, MemoryAccounted, TypeOK
  <2>2. I \in Seq(Data) /\ Len(I) = n - 1
    BY <1>2, <2>1 DEF IInv, LineOK
  <2>3. ASSUME UNCHANGED line, UNCHANGED head,
               \A i \in 1..n : data'[line[i]] = data[line[i]]
        PROVE  UNCHANGED I
    BY <2>1, <2>3
  <2>4. ASSUME NEW p \in Producers, EnqAlloc(p) PROVE UNCHANGED <<I, O>>
    <3>1. UNCHANGED <<line, head, cpc, out>>
      BY <2>4 DEF EnqAlloc, consumerVars
    <3>2. \A m \in alive : data'[m] = data[m]
      BY <1>2, <2>4 DEF IInv, MemoryAccounted, TypeOK, EnqAlloc
    <3> QED
      BY <1>2, <2>3, <3>1, <3>2, Held
  <2>5. ASSUME NEW p \in Producers, EnqSwap(p) PROVE \E v \in Data : Fifo!Enqueue(v)
    <3>1. /\ line' = Append(line, node[p]) /\ data[node[p]] \in Data
          /\ UNCHANGED <<data, head, cpc, out>>
      BY <1>2, <2>5 DEF IInv, ProducersOK, EnqSwap, consumerVars
    <3>2. /\ Len(line') = n + 1 /\ line'[n + 1] = node[p]
          /\ \A i \in 1..n : line'[i] = line[i]
      BY <2>1, <3>1
    <3>3. I' = Append(I, data[node[p]])
      <4>1. \A i \in 1..n : I'[i] = data[line'[i + 1]]
        BY <2>1, <3>1, <3>2
      <4> QED
        BY <2>1, <2>2, <3>1, <3>2, <4>1
    <3>4. UNCHANGED O
      BY <3>1
    <3> QED
      BY <3>1, <3>3, <3>4 DEF Fifo!Enqueue
  <2>6. ASSUME NEW p \in Producers, EnqLink(p) PROVE UNCHANGED <<I, O>>
    BY <2>6 DEF EnqLink, consumerVars
  <2>7. CASE DeqBegin
    BY <2>7 DEF DeqBegin, queueVars, Fifo!Next, Fifo!Miss
  <2>8. CASE DeqTest \/ IsEmptyWeak \/ StrongLoad \/ StrongTest \/ DeqTake
    <3>1. UNCHANGED <<line, data, head>>
      BY <2>8 DEF DeqTest, IsEmptyWeak, StrongLoad, StrongTest, DeqTake, queueVars
    <3>2. UNCHANGED O
      BY <2>8, <3>1 DEF DeqTest, IsEmptyWeak, StrongLoad, StrongTest, DeqTake
    <3> QED
      BY <3>1, <3>2 DEF Fifo!vars
  <2>9. CASE DeqAdvance
    <3>1. /\ cpc = "advance" /\ cpc' = "take" /\ head' = next[chead]
          /\ line' = Tail(line) /\ UNCHANGED data
      BY <2>9 DEF DeqAdvance
    <3>2. n > 1 /\ head' = line[2]
      BY <1>2, <2>1, <3>1 DEF IInv, LineOK, ConsumerOK
    <3>3. /\ Len(line') = n - 1
          /\ \A i \in 1..(n - 1) : line'[i] = line[i + 1]
      BY <2>1, <3>1, <3>2
    <3>4. I # << >>
      <4> HIDE DEF I
      <4> QED
        BY <2>1, <2>2, <3>2
    <3>5. I' = Tail(I)
      <4>1. /\ Tail(I) \in Seq(Data) /\ Len(Tail(I)) = n - 2
            /\ \A i \in 1..(n - 2) : Tail(I)[i] = I[i + 1]
        <5> HIDE DEF I
        <5>1. Tail(I) \in Seq(Data) /\ Len(Tail(I)) = n - 2
          BY <2>1, <2>2, <3>4, HeadTailProperties
        <5>2. \A i \in 1..Len(Tail(I)) : Tail(I)[i] = I[i + 1]
          BY <2>2, <3>4, HeadTailProperties
        <5> QED
          BY <5>1, <5>2
      <4>2. I' \in Seq(Data) /\ Len(I') = n - 2
        BY <1>2, <2>1, <3>1, <3>2, <3>3, StepInv DEF IInv, LineOK
      <4>3. \A i \in 1..(n - 2) : I'[i] = I[i + 1]
        BY <2>1, <3>1, <3>2, <3>3
      <4> HIDE DEF I
      <4> QED
        <5>1. \A i \in 1..Len(I') : I'[i] = Tail(I)[i]
          BY <4>1, <4>2, <4>3
        <5> QED
          BY <4>1, <4>2, <5>1, SeqEqual
    <3>6. Head(I) = data[line[2]]
      <4>1. I[1] = data[line[2]]
        BY <2>1, <3>2
      <4> HIDE DEF I
      <4> QED
        BY <2>2, <3>4, <4>1
    <3>7. O' = [c \in {"consumer"} |-> data[line[2]]]
      BY <3>1, <3>2
    <3> QED
      BY <3>4, <3>5, <3>6, <3>7 DEF Fifo!Next, Fifo!Dequeue
  <2>10. CASE UNCHANGED vars
    BY <2>10 DEF vars, queueVars, consumerVars, Fifo!vars
  <2> QED
    BY <1>2, <2>4, <2>5, <2>6, <2>7, <2>8, <2>9, <2>10
    DEF Next, Consumer, Producer, Fifo!Next, Fifo!vars
<1> QED
  BY <1>1, <1>2, Invariance, PTL DEF Spec, FifoOrder, Fifo!Spec
-----------------------------------------------------------------------------
(* The queue under one mutex, for which see GLQueue: its proof has the     *)
(* shape of the one above, and its lemmas have the names they have there,  *)
(* with a prefix.  The two specifications share variables, but no theorem  *)
(* is about both.                                                          *)
CONSTANT Threads
VARIABLE owner

GL == INSTANCE GLQueue

(* A node of the line is allocated, and no owner means nobody inside.      *)
LEMMA GLLineHeld ==
  ASSUME GL!IInv
  PROVE  /\ line \in Seq(Nodes) /\ Len(line) \in Nat /\ Len(line) > 0
         /\ \A i \in 1..Len(line) : line[i] \in alive /\ line[i] \in Nodes
         /\ \A t \in Threads : pc[t] \in GL!Private => node[t] \in alive
         /\ \A t, u \in Threads : pc[t] \in GL!Locked /\ pc[u] \in GL!Locked => t = u
BY DEF GL!IInv, GL!MemoryOK, GL!TypeOK, GL!LineOK, GL!MutexOK

LEMMA GLInitInv == GL!NullIsNobody /\ GL!Init => GL!IInv
<1> SUFFICES ASSUME GL!NullIsNobody, GL!Init PROVE GL!IInv
  OBVIOUS
<1>1. PICK dummy \in Nodes :
        /\ head = dummy /\ tail = dummy /\ line = << dummy >>
        /\ next = [n \in Nodes |-> NULL] /\ data = [n \in Nodes |-> NULL]
        /\ alive = {dummy}
  BY DEF GL!Init
<1>2. Len(line) = 1 /\ line[1] = dummy /\ 1..Len(line) = {1}
  BY <1>1
<1>3. GL!TypeOK
  BY <1>1 DEF GL!Init, GL!TypeOK
<1>4. GL!MemoryOK
  BY <1>1, <1>2, <1>3 DEF GL!Init, GL!MemoryOK, GL!Private
<1>5. GL!LineOK
  BY <1>1, <1>2 DEF GL!LineOK
<1>6. GL!MutexOK /\ GL!NodesOK
  BY DEF GL!Init, GL!NullIsNobody, GL!MutexOK, GL!Locked, GL!NodesOK
<1> QED
  BY <1>4, <1>5, <1>6 DEF GL!IInv

LEMMA GLAllocInv ==
  ASSUME GL!NullIsNobody, GL!IInv, NEW t \in Threads, GL!EnqAlloc(t)
  PROVE  GL!IInv'
<1>1. PICK n \in Nodes \ alive, v \in Data :
        /\ alive' = alive \cup {n}
        /\ data' = [data EXCEPT ![n] = v]
        /\ next' = [next EXCEPT ![n] = NULL]
        /\ node' = [node EXCEPT ![t] = n]
  BY DEF GL!EnqAlloc
<1>2. /\ pc[t] = "idle" /\ pc' = [pc EXCEPT ![t] = "e_lock"]
      /\ UNCHANGED <<head, tail, owner, out, line>>
  BY DEF GL!EnqAlloc, GL!At
<1>3. GL!TypeOK'
  BY <1>1, <1>2 DEF GL!IInv, GL!MemoryOK, GL!TypeOK
<1>4. /\ \A u \in Threads : u # t => node'[u] = node[u] /\ pc'[u] = pc[u]
      /\ node'[t] = n /\ pc'[t] = "e_lock"
      /\ \A m \in Nodes : m # n => next'[m] = next[m] /\ data'[m] = data[m]
      /\ next'[n] = NULL /\ data'[n] = v
  BY <1>1, <1>2 DEF GL!IInv, GL!MemoryOK, GL!TypeOK
<1>5. /\ \A i \in 1..Len(line) : line[i] # n
      /\ \A u \in Threads : pc[u] \in GL!Private => node[u] # n
  BY GLLineHeld
<1>6. GL!MemoryOK'
  <2>1. {node'[u] : u \in {w \in Threads : pc'[w] \in GL!Private}}
          = {node[u] : u \in {w \in Threads : pc[w] \in GL!Private}} \cup {n}
    BY <1>2, <1>4 DEF GL!Private
  <2>2. alive' = {line'[i] : i \in 1..Len(line')}
               \cup {node'[u] : u \in {w \in Threads : pc'[w] \in GL!Private}}
    BY <1>1, <1>2, <2>1 DEF GL!IInv, GL!MemoryOK
  <2>3. ASSUME NEW u \in Threads, pc'[u] \in GL!Private
        PROVE  /\ \A i \in 1..Len(line') : line'[i] # node'[u]
               /\ \A w \in Threads \ {u} : pc'[w] \in GL!Private => node'[u] # node'[w]
    BY <1>2, <1>4, <1>5, <2>3 DEF GL!IInv, GL!MemoryOK
  <2> QED
    BY <1>3, <2>2, <2>3 DEF GL!MemoryOK
<1>7. GL!MutexOK'
  BY <1>2, <1>4 DEF GL!IInv, GL!MutexOK, GL!Locked
<1>8. GL!LineOK'
  BY <1>2, <1>4, <1>5, GLLineHeld DEF GL!IInv, GL!LineOK
<1>9. GL!NodesOK'
  <2>1. \A u \in Threads : u # t /\ pc[u] \in {"e_lock", "e_link"} =>
          node[u] # n
    BY <1>5 DEF GL!Private
  <2>2. head # n /\ head \in Nodes
    BY <1>5, GLLineHeld DEF GL!IInv, GL!LineOK
  <2> QED
    BY <1>2, <1>4, <2>1, <2>2 DEF GL!IInv, GL!NodesOK
<1> QED
  BY <1>6, <1>7, <1>8, <1>9 DEF GL!IInv

(* Taking and giving back the mutex.                                       *)
LEMMA GLMutexInv ==
  ASSUME GL!NullIsNobody, GL!IInv, NEW t \in Threads, GL!Lock(t) \/ GL!Unlock(t)
  PROVE  GL!IInv'
<1>1. UNCHANGED <<head, tail, next, data, alive, out, line>>
  BY DEF GL!Lock, GL!Unlock
<1>2. /\ \A u \in Threads : u # t => pc'[u] = pc[u] /\ node'[u] = node[u]
      /\ pc'[t] \in {"e_link", "d_begin", "idle"}
      /\ pc'[t] \in GL!Private <=> pc[t] \in GL!Private
      /\ pc'[t] \in GL!Private => node'[t] = node[t]
      /\ pc'[t] = "e_link" => pc[t] = "e_lock"
      /\ pc[t] # "e_tail"
  BY DEF GL!Lock, GL!Unlock, GL!At, GL!IInv, GL!MemoryOK, GL!TypeOK, GL!Private
<1>3. GL!TypeOK'
  BY DEF GL!Lock, GL!Unlock, GL!At, GL!IInv, GL!MemoryOK, GL!TypeOK
<1>4. GL!MemoryOK'
  <2>1. {node'[u] : u \in {w \in Threads : pc'[w] \in GL!Private}}
          = {node[u] : u \in {w \in Threads : pc[w] \in GL!Private}}
    BY <1>2
  <2> QED
    BY <1>1, <1>2, <1>3, <2>1 DEF GL!IInv, GL!MemoryOK
<1>5. GL!MutexOK'
  <2>1. CASE GL!Lock(t)
    BY <2>1 DEF GL!Lock, GL!At, GL!NullIsNobody, GL!IInv, GL!MemoryOK, GL!TypeOK, GL!MutexOK, GL!Locked
  <2>2. CASE GL!Unlock(t)
    BY <2>2 DEF GL!Unlock, GL!At, GL!NullIsNobody, GL!IInv, GL!MemoryOK, GL!TypeOK, GL!MutexOK, GL!Locked
  <2> QED
    BY <2>1, <2>2
<1>6. GL!LineOK'
  BY <1>1, <1>2 DEF GL!IInv, GL!LineOK
<1>7. GL!NodesOK'
  BY <1>1, <1>2 DEF GL!IInv, GL!NodesOK, GL!Private
<1> QED
  BY <1>4, <1>5, <1>6, <1>7 DEF GL!IInv

LEMMA GLLinkInv ==
  ASSUME GL!NullIsNobody, GL!IInv, NEW t \in Threads, GL!EnqLink(t)
  PROVE  GL!IInv'
<1> DEFINE n == Len(line)
<1>1. /\ pc[t] = "e_link" /\ pc' = [pc EXCEPT ![t] = "e_tail"]
      /\ next' = [next EXCEPT ![tail] = node[t]]
      /\ UNCHANGED <<head, tail, owner, data, alive, node, out>>
  BY DEF GL!EnqLink, GL!At
<1>2. line \in Seq(Nodes) /\ n \in Nat /\ n > 0
  BY GLLineHeld
<1>3. /\ node[t] \in Nodes /\ next[node[t]] = NULL /\ data[node[t]] \in Data
      /\ \A i \in 1..n : line[i] # node[t]
  BY <1>1 DEF GL!IInv, GL!MemoryOK, GL!NodesOK, GL!Private
<1>4. /\ line' \in Seq(Nodes) /\ Len(line') = n + 1
      /\ \A i \in 1..n : line'[i] = line[i]
      /\ line'[n + 1] = node[t]
  BY <1>2, <1>3 DEF GL!EnqLink
<1>5. tail = line[n] /\ n \in 1..n
  BY <1>1, <1>2 DEF GL!IInv, GL!LineOK, GL!MutexOK, GL!Locked
<1>6. /\ \A u \in Threads : u # t => pc'[u] = pc[u]
      /\ pc'[t] = "e_tail"
      /\ \A u \in Threads : u # t => pc[u] \notin GL!Locked
  BY <1>1, GLLineHeld DEF GL!IInv, GL!MemoryOK, GL!TypeOK, GL!Locked
<1>7. /\ next'[tail] = node[t]
      /\ \A m \in Nodes : m # tail => next'[m] = next[m]
  BY <1>1 DEF GL!IInv, GL!MemoryOK, GL!TypeOK
<1>8. GL!TypeOK'
  BY <1>1, <1>3, <1>4 DEF GL!IInv, GL!MemoryOK, GL!TypeOK
<1>9. GL!MemoryOK'
  <2>1. {line'[i] : i \in 1..Len(line')} = {line[i] : i \in 1..n} \cup {node[t]}
    BY <1>2, <1>4
  <2>2. {u \in Threads : pc[u] \in GL!Private}
          = {u \in Threads : pc'[u] \in GL!Private} \cup {t}
    BY <1>1, <1>6 DEF GL!Private
  <2>3. {node[u] : u \in {w \in Threads : pc[w] \in GL!Private}}
          = {node[u] : u \in {w \in Threads : pc'[w] \in GL!Private}} \cup {node[t]}
    BY <2>2
  <2>4. alive' = {line'[i] : i \in 1..Len(line')}
               \cup {node'[u] : u \in {w \in Threads : pc'[w] \in GL!Private}}
    BY <1>1, <2>1, <2>3 DEF GL!IInv, GL!MemoryOK
  <2>5. ASSUME NEW u \in Threads, pc'[u] \in GL!Private
        PROVE  /\ \A i \in 1..Len(line') : line'[i] # node'[u]
               /\ \A w \in Threads \ {u} : pc'[w] \in GL!Private => node'[u] # node'[w]
    <3>1. u # t /\ pc[u] \in GL!Private
      BY <1>6, <2>5 DEF GL!Private
    <3>2. node[u] # node[t]
      BY <1>1, <3>1 DEF GL!IInv, GL!MemoryOK, GL!Private
    <3>3. \A i \in 1..n : line[i] # node[u]
      BY <3>1 DEF GL!IInv, GL!MemoryOK
    <3>4. \A w \in Threads \ {u} : pc'[w] \in GL!Private => pc[w] \in GL!Private
      BY <1>6 DEF GL!Private
    <3> QED
      BY <1>1, <1>2, <1>4, <3>1, <3>2, <3>3, <3>4 DEF GL!IInv, GL!MemoryOK
  <2> QED
    BY <1>8, <2>4, <2>5 DEF GL!MemoryOK
<1>10. GL!MutexOK'
  BY <1>1, <1>6 DEF GL!IInv, GL!MutexOK, GL!Locked
<1>11. GL!LineOK'
  <2>1. line' # << >> /\ head' = line'[1]
    BY <1>1, <1>2, <1>4 DEF GL!IInv, GL!LineOK
  <2>2. \A i, j \in 1..Len(line') : line'[i] = line'[j] => i = j
    BY <1>2, <1>3, <1>4 DEF GL!IInv, GL!LineOK
  <2>3. \A i \in 1..Len(line') : i > 1 => data'[line'[i]] \in Data
    BY <1>1, <1>2, <1>3, <1>4 DEF GL!IInv, GL!LineOK
  <2>4. ASSUME NEW i \in 1..Len(line')
        PROVE  next'[line'[i]] = IF i < Len(line') THEN line'[i + 1] ELSE NULL
    <3>1. CASE i = n + 1
      BY <1>2, <1>3, <1>4, <1>5, <1>7, <3>1
    <3>2. CASE i = n
      BY <1>2, <1>4, <1>5, <1>7, <3>2
    <3>3. CASE i < n
      <4>1. i \in 1..n /\ i + 1 \in 1..n /\ i < Len(line')
        BY <1>2, <1>4, <3>3
      <4>2. line'[i] = line[i] /\ line'[i + 1] = line[i + 1]
        BY <1>4, <4>1
      <4>3. line[i] \in Nodes /\ line[i] # tail
        BY <1>2, <1>5, <3>3, <4>1 DEF GL!IInv, GL!LineOK
      <4> QED
        BY <1>7, <3>3, <4>1, <4>2, <4>3 DEF GL!IInv, GL!LineOK
    <3> QED
      BY <1>2, <1>4, <3>1, <3>2, <3>3
  <2> QED
    BY <1>6, <2>1, <2>2, <2>3, <2>4 DEF GL!LineOK
<1>12. GL!NodesOK'
  <2>1. ASSUME NEW u \in Threads, pc'[u] \in {"e_lock", "e_link"}
        PROVE  /\ node'[u] \in Nodes /\ next'[node'[u]] = NULL
               /\ data'[node'[u]] \in Data
    <3>1. u # t /\ pc[u] \in {"e_lock", "e_link"}
      BY <1>6, <2>1
    <3>2. node[u] # tail
      BY <1>5, <3>1 DEF GL!IInv, GL!MemoryOK, GL!Private
    <3> QED
      BY <1>1, <1>7, <3>1, <3>2 DEF GL!IInv, GL!NodesOK
  <2>2. \A u \in Threads : pc'[u] = "e_tail" => node'[u] = line'[Len(line')]
    BY <1>1, <1>4, <1>6 DEF GL!Locked
  <2>3. \A u \in Threads : pc'[u] \notin {"d_test", "d_take"}
    BY <1>6 DEF GL!Locked
  <2> QED
    BY <2>1, <2>2, <2>3 DEF GL!NodesOK
<1> QED
  BY <1>9, <1>10, <1>11, <1>12 DEF GL!IInv

(* The owner's other steps that leave the line alone.                      *)
LEMMA GLOwnerInv ==
  ASSUME GL!NullIsNobody, GL!IInv, NEW t \in Threads,
         GL!EnqTail(t) \/ GL!DeqBegin(t) \/ GL!DeqTake(t)
  PROVE  GL!IInv'
<1>1. /\ UNCHANGED <<head, owner, next, data, line>>
      /\ \A u \in Threads : u # t => pc'[u] = pc[u] /\ node'[u] = node[u]
      /\ pc[t] \in GL!Locked /\ pc'[t] \in GL!Locked /\ pc'[t] \notin GL!Private
  BY DEF GL!EnqTail, GL!DeqBegin, GL!DeqTake, GL!At, GL!IInv, GL!MemoryOK, GL!TypeOK, GL!Locked, GL!Private
<1>2. \A u \in Threads : u # t => pc[u] \notin GL!Locked
  BY <1>1, GLLineHeld
<1>3. GL!TypeOK'
  <2>1. CASE GL!EnqTail(t)
    BY <1>1, <2>1, GLLineHeld DEF GL!EnqTail, GL!At, GL!IInv, GL!MemoryOK, GL!TypeOK, GL!NodesOK
  <2>2. CASE GL!DeqBegin(t) \/ GL!DeqTake(t)
    BY <2>2 DEF GL!DeqBegin, GL!DeqTake, GL!At, GL!IInv, GL!MemoryOK, GL!TypeOK
  <2> QED
    BY <2>1, <2>2
<1>4. GL!MemoryOK'
  <2>1. ASSUME NEW u \in Threads, pc'[u] \in GL!Private
        PROVE  u # t /\ pc[u] \in GL!Private /\ node'[u] = node[u]
    BY <1>1, <2>1
  <2>2. alive' = {line'[i] : i \in 1..Len(line')}
               \cup {node'[u] : u \in {w \in Threads : pc'[w] \in GL!Private}}
    <3>1. CASE GL!EnqTail(t) \/ GL!DeqBegin(t)
      <4>1. pc[t] \notin GL!Private /\ alive' = alive
        BY <3>1 DEF GL!EnqTail, GL!DeqBegin, GL!At, GL!Private
      <4>2. {node'[u] : u \in {w \in Threads : pc'[w] \in GL!Private}}
              = {node[u] : u \in {w \in Threads : pc[w] \in GL!Private}}
        BY <1>1, <4>1
      <4> QED
        BY <1>1, <4>1, <4>2 DEF GL!IInv, GL!MemoryOK
    <3>2. CASE GL!DeqTake(t)
      <4>1. pc[t] \in GL!Private /\ alive' = alive \ {node[t]}
        BY <3>2 DEF GL!DeqTake, GL!At, GL!Private
      <4>2. {node[u] : u \in {w \in Threads : pc[w] \in GL!Private}}
              = {node'[u] : u \in {w \in Threads : pc'[w] \in GL!Private}} \cup {node[t]}
        BY <1>1, <4>1
      <4>3. node[t] \notin {line[i] : i \in 1..Len(line)}
        BY <4>1 DEF GL!IInv, GL!MemoryOK
      <4>4. node[t] \notin {node'[u] : u \in {w \in Threads : pc'[w] \in GL!Private}}
        BY <2>1, <4>1 DEF GL!IInv, GL!MemoryOK
      <4> QED
        BY <1>1, <4>1, <4>2, <4>3, <4>4 DEF GL!IInv, GL!MemoryOK
    <3> QED
      BY <3>1, <3>2
  <2> QED
    BY <1>1, <1>3, <2>1, <2>2 DEF GL!IInv, GL!MemoryOK
<1>5. GL!MutexOK'
  BY <1>1 DEF GL!IInv, GL!MutexOK
<1>6. GL!LineOK'
  <2>1. tail' = line[Len(line)]
    <3>1. CASE GL!EnqTail(t)
      BY <3>1 DEF GL!EnqTail, GL!At, GL!IInv, GL!NodesOK
    <3>2. CASE GL!DeqBegin(t) \/ GL!DeqTake(t)
      <4>1. tail' = tail /\ pc[t] # "e_tail"
        BY <3>2 DEF GL!DeqBegin, GL!DeqTake, GL!At
      <4> QED
        BY <1>2, <4>1 DEF GL!IInv, GL!LineOK, GL!Locked
    <3> QED
      BY <3>1, <3>2
  <2> QED
    BY <1>1, <2>1 DEF GL!IInv, GL!LineOK
<1>7. GL!NodesOK'
  <2>1. pc'[t] = "d_test" => node'[t] = head
    BY DEF GL!EnqTail, GL!DeqBegin, GL!DeqTake, GL!At, GL!IInv, GL!MemoryOK, GL!TypeOK
  <2>2. pc'[t] \notin {"e_lock", "e_link", "e_tail", "d_take"}
    BY DEF GL!EnqTail, GL!DeqBegin, GL!DeqTake, GL!At, GL!IInv, GL!MemoryOK, GL!TypeOK
  <2> QED
    BY <1>1, <1>2, <2>1, <2>2 DEF GL!IInv, GL!NodesOK, GL!Locked
<1> QED
  BY <1>4, <1>5, <1>6, <1>7 DEF GL!IInv

(* The test of an empty queue, and the move of the head of another.        *)
LEMMA GLTestInv ==
  ASSUME GL!NullIsNobody, GL!IInv, NEW t \in Threads, GL!DeqTest(t)
  PROVE  GL!IInv'
<1> DEFINE n == Len(line)
<1>1. /\ pc[t] = "d_test" /\ node[t] = head /\ head = line[1]
      /\ UNCHANGED <<tail, owner, next, data, alive, node, out>>
      /\ \A u \in Threads : u # t => pc'[u] = pc[u]
  BY DEF GL!DeqTest, GL!At, GL!IInv, GL!MemoryOK, GL!TypeOK, GL!NodesOK, GL!LineOK
<1>2. n \in Nat /\ n > 0 /\ line \in Seq(Nodes) /\ 1 \in 1..n
  BY GLLineHeld
<1>3. \A u \in Threads : u # t => pc[u] \notin GL!Locked
  BY <1>1, GLLineHeld DEF GL!Locked
<1>4. CASE next[node[t]] = NULL
  <2>1. pc' = [pc EXCEPT ![t] = "unlock"] /\ UNCHANGED <<head, line>>
    BY <1>4 DEF GL!DeqTest, GL!At
  <2>2. pc'[t] = "unlock"
    BY <2>1 DEF GL!IInv, GL!MemoryOK, GL!TypeOK
  <2>3. GL!TypeOK'
    BY <1>1, <2>1 DEF GL!IInv, GL!MemoryOK, GL!TypeOK
  <2>4. \A u \in Threads : pc'[u] \in GL!Private <=> pc[u] \in GL!Private
    BY <1>1, <2>2 DEF GL!Private
  <2>5. GL!MemoryOK'
    BY <1>1, <2>1, <2>3, <2>4 DEF GL!IInv, GL!MemoryOK
  <2>6. GL!MutexOK' /\ GL!LineOK' /\ GL!NodesOK'
    BY <1>1, <1>3, <2>1, <2>2 DEF GL!IInv, GL!MutexOK, GL!LineOK, GL!NodesOK, GL!Locked
  <2> QED
    BY <2>5, <2>6 DEF GL!IInv
<1>5. CASE next[node[t]] # NULL
  <2>1. /\ pc' = [pc EXCEPT ![t] = "d_take"] /\ head' = next[head]
        /\ line' = Tail(line)
    BY <1>1, <1>5 DEF GL!DeqTest, GL!At
  <2>2. pc'[t] = "d_take"
    BY <2>1 DEF GL!IInv, GL!MemoryOK, GL!TypeOK
  <2>3. n > 1 /\ next[head] = line[2]
    BY <1>1, <1>2, <1>5 DEF GL!IInv, GL!LineOK
  <2>4. /\ line' \in Seq(Nodes) /\ Len(line') = n - 1
        /\ \A i \in 1..(n - 1) : line'[i] = line[i + 1]
    BY <1>2, <2>1, <2>3
  <2>5. GL!TypeOK'
    <3>1. head' \in Nodes
      BY <1>2, <2>1, <2>3
    <3> QED
      BY <1>1, <2>1, <2>4, <3>1 DEF GL!IInv, GL!MemoryOK, GL!TypeOK
  <2>6. \A i \in 1..n : i = 1 \/ (i - 1 \in 1..(n - 1) /\ line'[i - 1] = line[i])
    <3> TAKE i \in 1..n
    <3>1. i = 1 \/ (i - 1 \in 1..(n - 1) /\ (i - 1) + 1 = i)
      BY <1>2
    <3> QED
      BY <2>4, <3>1
  <2>7. \A i \in 1..(n - 1) : i + 1 \in 1..n /\ line[i + 1] # head
    BY <1>1, <1>2 DEF GL!IInv, GL!LineOK
  <2>8. GL!MemoryOK'
    <3> DEFINE A == {line[i] : i \in 1..n}
               B == {line'[i] : i \in 1..(n - 1)}
               C == {node[u] : u \in {w \in Threads : pc[w] \in GL!Private}}
               E == {node'[u] : u \in {w \in Threads : pc'[w] \in GL!Private}}
    <3>1. A \subseteq B \cup {head}
      BY <1>1, <2>6
    <3>2. B \cup {head} \subseteq A
      BY <1>1, <1>2, <2>4, <2>7
    <3>3. alive = A \cup C
      BY DEF GL!IInv, GL!MemoryOK
    <3>4. E = C \cup {head}
      <4>1. \A u \in Threads : pc'[u] \in GL!Private <=> pc[u] \in GL!Private \/ u = t
        BY <1>1, <2>2 DEF GL!Private
      <4> QED
        BY <1>1, <4>1
    <3>5. alive' = B \cup E
      BY <1>1, <3>1, <3>2, <3>3, <3>4
    <3>6. \A i \in 1..(n - 1) : line'[i] # head
      BY <2>4, <2>7
    <3>7. \A u \in Threads : u # t /\ pc[u] \in GL!Private =>
            /\ node[u] # head
            /\ \A i \in 1..(n - 1) : line'[i] # node[u]
      BY <1>1, <1>2, <2>4, <2>7 DEF GL!IInv, GL!MemoryOK
    <3>8. ASSUME NEW u \in Threads, pc'[u] \in GL!Private
          PROVE  /\ \A i \in 1..Len(line') : line'[i] # node'[u]
                 /\ \A w \in Threads \ {u} :
                      pc'[w] \in GL!Private => node'[u] # node'[w]
      BY <1>1, <2>4, <3>6, <3>7, <3>8 DEF GL!IInv, GL!MemoryOK
    <3> QED
      BY <2>4, <2>5, <3>5, <3>8 DEF GL!MemoryOK
  <2>9. GL!MutexOK'
    BY <1>1, <2>2 DEF GL!IInv, GL!MutexOK, GL!Locked
  <2>10. GL!LineOK'
    <3>1. 1 \in 1..(n - 1) /\ n - 1 \in 1..(n - 1)
      BY <1>2, <2>3
    <3>2. line' # << >> /\ head' = line'[1]
      <4>1. line'[1] = line[1 + 1] /\ 1 + 1 = 2
        BY <2>4, <3>1
      <4>2. head' = line'[1]
        BY <2>1, <2>3, <4>1
      <4>3. Len(line') # 0
        BY <1>2, <2>3, <2>4
      <4>4. Len(<< >>) = 0
        OBVIOUS
      <4> QED
        BY <4>2, <4>3, <4>4, Zenon
    <3>3. \A i, j \in 1..Len(line') : line'[i] = line'[j] => i = j
      BY <1>2, <2>4, <2>7 DEF GL!IInv, GL!LineOK
    <3>4. \A i \in 1..Len(line') : data'[line'[i]] \in Data
      BY <1>1, <1>2, <2>4, <2>7 DEF GL!IInv, GL!LineOK
    <3>5. tail' = line'[Len(line')]
      <4>1. tail = line[n]
        BY <1>1, <1>3 DEF GL!IInv, GL!LineOK, GL!Locked
      <4>2. line'[n - 1] = line[n]
        BY <1>2, <2>4, <3>1
      <4> QED
        BY <1>1, <2>4, <4>1, <4>2
    <3>6. ASSUME NEW i \in 1..Len(line')
          PROVE  next'[line'[i]] = IF i < Len(line') THEN line'[i + 1] ELSE NULL
      <4>1. i \in 1..(n - 1) /\ i + 1 \in 1..n /\ (i < Len(line') <=> i + 1 < n)
        BY <1>2, <2>4
      <4>2. line'[i] = line[i + 1] /\ (i + 1 < n => line'[i + 1] = line[(i + 1) + 1])
        BY <1>2, <2>4, <4>1
      <4>3. next[line[i + 1]] = IF i + 1 < n THEN line[(i + 1) + 1] ELSE NULL
        BY <4>1 DEF GL!IInv, GL!LineOK
      <4> QED
        BY <1>1, <4>1, <4>2, <4>3
    <3> QED
      BY <3>2, <3>3, <3>4, <3>5, <3>6 DEF GL!LineOK
  <2>11. GL!NodesOK'
    <3>1. data[line[2]] \in Data
      BY <1>2, <2>3 DEF GL!IInv, GL!LineOK
    <3> QED
      BY <1>1, <1>3, <2>1, <2>2, <2>3, <3>1 DEF GL!IInv, GL!NodesOK, GL!Locked
  <2> QED
    BY <2>8, <2>9, <2>10, <2>11 DEF GL!IInv
<1> QED
  BY <1>4, <1>5

LEMMA GLStepInv == GL!NullIsNobody /\ GL!IInv /\ [GL!Next]_GL!vars => GL!IInv'
<1> SUFFICES ASSUME GL!NullIsNobody, GL!IInv, [GL!Next]_GL!vars PROVE GL!IInv'
  OBVIOUS
<1>1. ASSUME NEW t \in Threads, GL!Step(t) PROVE GL!IInv'
  BY <1>1, GLAllocInv, GLMutexInv, GLLinkInv, GLOwnerInv, GLTestInv DEF GL!Step
<1>2. CASE UNCHANGED GL!vars
  BY <1>2 DEF GL!IInv, GL!MemoryOK, GL!TypeOK, GL!MutexOK, GL!LineOK, GL!NodesOK, GL!vars
<1> QED
  BY <1>1, <1>2 DEF GL!Next
-----------------------------------------------------------------------------
(* The inductive invariant holds of every behaviour of the queue.          *)
THEOREM GLInvariance ==
  ASSUME GL!NullIsNobody
  PROVE  GL!Spec => []GL!IInv
<1>1. GL!Init => GL!IInv
  BY GLInitInv
<1>2. GL!IInv /\ [GL!Next]_GL!vars => GL!IInv'
  BY GLStepInv
<1> QED
  BY <1>1, <1>2, PTL DEF GL!Spec

(* No node is lost, and none is accessed or freed again after its free     *)
(* (zm_glqueue.c:46), though the new nodes are allocated and written       *)
(* outside of the mutex, at addresses that were just freed.                *)
THEOREM GLSafety ==
  ASSUME GL!NullIsNobody
  PROVE  GL!Spec => []GL!MemorySafe
<1>1. ASSUME GL!IInv
      PROVE  /\ head \in alive
             /\ (\A t \in Threads : pc[t] # "e_tail") => tail \in alive
  <2>1. 1 \in 1..Len(line) /\ Len(line) \in 1..Len(line)
    BY <1>1, GLLineHeld
  <2> QED
    BY <1>1, <2>1, GLLineHeld DEF GL!IInv, GL!LineOK
<1>2. ASSUME GL!IInv, NEW t \in Threads
      PROVE  /\ pc[t] = "e_link" => tail \in alive
             /\ pc[t] \in GL!Private \cup {"e_tail", "d_test"} => node[t] \in alive
  <2>1. ASSUME pc[t] = "e_link" PROVE tail \in alive
    <3>1. \A u \in Threads : pc[u] # "e_tail"
      BY <1>2, <2>1, GLLineHeld DEF GL!Locked
    <3> QED
      BY <1>1, <1>2, <3>1
  <2>2. pc[t] \in GL!Private => node[t] \in alive
    BY <1>2, GLLineHeld
  <2>3. pc[t] = "e_tail" => node[t] \in alive
    <3>1. Len(line) \in 1..Len(line)
      BY <1>2, GLLineHeld
    <3> QED
      BY <1>2, <3>1, GLLineHeld DEF GL!IInv, GL!NodesOK
  <2>4. pc[t] = "d_test" => node[t] \in alive
    BY <1>1, <1>2 DEF GL!IInv, GL!NodesOK
  <2> QED
    BY <2>1, <2>2, <2>3, <2>4
<1>3. GL!IInv => GL!MemorySafe
  BY <1>1, <1>2 DEF GL!IInv, GL!MemorySafe, GL!NoUseAfterFree
<1> QED
  BY <1>3, GLInvariance, PTL

(* zm_glqueue_dequeue comes back with nothing from an empty queue only.    *)
THEOREM GLNothingMissed ==
  ASSUME GL!NullIsNobody
  PROVE  GL!Spec => GL!MissesNothing
<1>1. ASSUME GL!IInv, [GL!Next]_GL!vars, NEW t \in Threads,
             pc[t] = "d_test", pc'[t] = "unlock"
      PROVE  Len(line) = 1
  <2>1. GL!DeqTest(t) /\ next[head] = NULL
    BY <1>1 DEF GL!IInv, GL!MemoryOK, GL!TypeOK, GL!NodesOK, GL!Next, GL!Step, GL!vars, GL!At, GL!EnqAlloc,
       GL!Lock, GL!EnqLink, GL!EnqTail, GL!Unlock, GL!DeqBegin, GL!DeqTest, GL!DeqTake
  <2> DEFINE n == Len(line)
  <2>2. n \in Nat /\ n > 0 /\ 1 \in 1..n
    BY <1>1, GLLineHeld
  <2>3. 1 < n => next[line[1]] = line[1 + 1] /\ 1 + 1 \in 1..n
    BY <1>1, <2>2 DEF GL!IInv, GL!LineOK
  <2>4. ~ (1 < n)
    BY <1>1, <2>1, <2>3, GLLineHeld DEF GL!IInv, GL!LineOK, GL!NullIsNobody
  <2> HIDE DEF n
  <2>5. n = 1
    BY <2>2, <2>4
  <2> QED
    BY <2>5 DEF n
<1>2. GL!IInv /\ [GL!Next]_GL!vars =>
        [\A t \in Threads :
           pc[t] = "d_test" /\ pc'[t] = "unlock" => Len(line) = 1]_GL!vars
  BY <1>1
<1> QED
  BY <1>2, GLInvariance, PTL DEF GL!Spec, GL!MissesNothing

(* The global-lock queue implements the FIFO queue.                        *)
THEOREM GLImplementsFifoQueue ==
  ASSUME GL!NullIsNobody
  PROVE  GL!Spec => GL!FifoOrder
<1> DEFINE I == [i \in 1..Len(line) - 1 |-> data[line[i + 1]]]
           O == [t \in Threads |-> IF pc[t] = "d_take" THEN data[head] ELSE out[t]]
<1>1. ASSUME GL!Init PROVE GL!Fifo!Init
  <2>1. Len(line) = 1 /\ \A t \in Threads : out[t] = NULL /\ pc[t] = "idle"
    BY <1>1 DEF GL!Init
  <2> QED
    BY <2>1 DEF GL!Fifo!Init
<1>2. ASSUME GL!IInv, [GL!Next]_GL!vars PROVE [GL!Fifo!Next]_(GL!Fifo!vars)
  <2> DEFINE n == Len(line)
  <2>1. n \in Nat /\ n > 0 /\ line \in Seq(Nodes)
    BY <1>2, GLLineHeld
  <2>2. I \in Seq(Data) /\ Len(I) = n - 1
    BY <1>2, <2>1 DEF GL!IInv, GL!LineOK
  <2>3. ASSUME NEW t \in Threads, GL!EnqAlloc(t) PROVE UNCHANGED <<I, O>>
    <3>1. /\ UNCHANGED <<line, head, out>>
          /\ \A u \in Threads : pc'[u] = "d_take" <=> pc[u] = "d_take"
      BY <1>2, <2>3 DEF GL!EnqAlloc, GL!At, GL!IInv, GL!MemoryOK, GL!TypeOK
    <3>2. \A m \in alive : data'[m] = data[m]
      BY <1>2, <2>3 DEF GL!IInv, GL!MemoryOK, GL!TypeOK, GL!EnqAlloc
    <3>3. head \in alive
      BY <1>2, <2>1, GLLineHeld DEF GL!IInv, GL!LineOK
    <3>4. \A i \in 1..n : data'[line[i]] = data[line[i]]
      BY <1>2, <3>2, GLLineHeld
    <3>5. UNCHANGED I
      BY <2>1, <3>1, <3>4
    <3>6. UNCHANGED O
      BY <3>1, <3>2, <3>3
    <3> QED
      BY <3>5, <3>6
  <2>4. ASSUME NEW t \in Threads, GL!Lock(t) \/ GL!EnqTail(t) \/ GL!Unlock(t)
        PROVE  UNCHANGED <<I, O>>
    BY <1>2, <2>4 DEF GL!Lock, GL!EnqTail, GL!Unlock, GL!At, GL!IInv, GL!MemoryOK, GL!TypeOK
  <2>5. ASSUME NEW t \in Threads, GL!EnqLink(t) PROVE \E v \in Data : GL!Fifo!Enqueue(v)
    <3>1. /\ line' = Append(line, node[t]) /\ data[node[t]] \in Data
          /\ node[t] \in Nodes /\ UNCHANGED <<data, head, out>>
          /\ \A u \in Threads : pc'[u] = "d_take" <=> pc[u] = "d_take"
      BY <1>2, <2>5 DEF GL!EnqLink, GL!At, GL!IInv, GL!MemoryOK, GL!TypeOK, GL!NodesOK
    <3>2. /\ Len(line') = n + 1 /\ line'[n + 1] = node[t]
          /\ \A i \in 1..n : line'[i] = line[i]
      BY <2>1, <3>1
    <3>3. I' = Append(I, data[node[t]])
      <4>1. \A i \in 1..n : I'[i] = data[line'[i + 1]]
        BY <2>1, <3>1, <3>2
      <4> QED
        BY <2>1, <2>2, <3>1, <3>2, <4>1
    <3>4. UNCHANGED O
      BY <3>1
    <3> QED
      BY <3>1, <3>3, <3>4 DEF GL!Fifo!Enqueue
  <2>6. ASSUME NEW t \in Threads, GL!DeqBegin(t) PROVE GL!Fifo!Miss(t)
    <3>1. /\ UNCHANGED <<line, data, head>> /\ out' = [out EXCEPT ![t] = NULL]
          /\ pc[t] = "d_begin" /\ pc'[t] = "d_test"
          /\ \A u \in Threads : u # t => pc'[u] = pc[u]
      BY <1>2, <2>6 DEF GL!DeqBegin, GL!At, GL!IInv, GL!MemoryOK, GL!TypeOK
    <3>2. O' = [O EXCEPT ![t] = NULL]
      BY <1>2, <3>1 DEF GL!IInv, GL!MemoryOK, GL!TypeOK
    <3> QED
      BY <3>1, <3>2 DEF GL!Fifo!Miss
  <2>7. ASSUME NEW t \in Threads, GL!DeqTake(t) PROVE UNCHANGED <<I, O>>
    <3>1. /\ UNCHANGED <<line, data, head>> /\ out' = [out EXCEPT ![t] = data[head]]
          /\ pc[t] = "d_take" /\ pc'[t] = "unlock"
          /\ \A u \in Threads : u # t => pc'[u] = pc[u]
      BY <1>2, <2>7 DEF GL!DeqTake, GL!At, GL!IInv, GL!MemoryOK, GL!TypeOK
    <3>2. UNCHANGED O
      BY <1>2, <3>1 DEF GL!IInv, GL!MemoryOK, GL!TypeOK
    <3> QED
      BY <3>1, <3>2
  <2>8. ASSUME NEW t \in Threads, GL!DeqTest(t) PROVE GL!Fifo!Dequeue(t) \/ UNCHANGED <<I, O>>
    <3>1. /\ UNCHANGED <<data, out>> /\ pc[t] = "d_test" /\ node[t] = head
          /\ head = line[1]
          /\ \A u \in Threads : u # t => pc'[u] = pc[u] /\ pc[u] # "d_take"
      BY <1>2, <2>8, GLLineHeld DEF GL!DeqTest, GL!At, GL!IInv, GL!MemoryOK, GL!TypeOK, GL!NodesOK,
         GL!LineOK, GL!Locked
    <3>2. CASE next[head] = NULL
      <4>1. UNCHANGED <<line, head>> /\ pc'[t] = "unlock"
        BY <1>2, <2>8, <3>1, <3>2 DEF GL!DeqTest, GL!At, GL!IInv, GL!MemoryOK, GL!TypeOK
      <4> QED
        BY <3>1, <4>1
    <3>3. CASE next[head] # NULL
      <4>1. head' = next[head] /\ line' = Tail(line) /\ pc'[t] = "d_take"
        BY <1>2, <2>8, <3>1, <3>3 DEF GL!DeqTest, GL!At, GL!IInv, GL!MemoryOK, GL!TypeOK
      <4>2. n > 1 /\ head' = line[2]
        BY <1>2, <2>1, <3>1, <3>3, <4>1 DEF GL!IInv, GL!LineOK
      <4>3. /\ Len(line') = n - 1
            /\ \A i \in 1..(n - 1) : line'[i] = line[i + 1]
        BY <2>1, <4>1, <4>2
      <4>4. I # << >>
        <5> HIDE DEF I
        <5> QED
          BY <2>1, <2>2, <4>2
      <4>5. I' = Tail(I)
        <5>1. /\ Tail(I) \in Seq(Data) /\ Len(Tail(I)) = n - 2
              /\ \A i \in 1..(n - 2) : Tail(I)[i] = I[i + 1]
          <6> HIDE DEF I
          <6>1. Tail(I) \in Seq(Data) /\ Len(Tail(I)) = n - 2
            BY <2>1, <2>2, <4>4, HeadTailProperties
          <6>2. \A i \in 1..Len(Tail(I)) : Tail(I)[i] = I[i + 1]
            BY <2>2, <4>4, HeadTailProperties
          <6> QED
            BY <6>1, <6>2
        <5>2. I' \in Seq(Data) /\ Len(I') = n - 2
          BY <1>2, <2>1, <3>1, <4>2, <4>3, GLStepInv DEF GL!IInv, GL!LineOK
        <5>3. \A i \in 1..(n - 2) : I'[i] = I[i + 1]
          BY <2>1, <3>1, <4>2, <4>3
        <5> HIDE DEF I
        <5> QED
          <6>1. \A i \in 1..Len(I') : I'[i] = Tail(I)[i]
            BY <5>1, <5>2, <5>3
          <6> QED
            BY <5>1, <5>2, <6>1, SeqEqual
      <4>6. Head(I) = data[line[2]]
        <5>1. I[1] = data[line[2]]
          BY <2>1, <4>2
        <5> HIDE DEF I
        <5> QED
          BY <2>2, <4>4, <5>1
      <4>7. O' = [O EXCEPT ![t] = data[line[2]]]
        BY <3>1, <4>1, <4>2
      <4> QED
        BY <4>4, <4>5, <4>6, <4>7 DEF GL!Fifo!Dequeue
    <3> QED
      BY <3>2, <3>3
  <2>9. UNCHANGED GL!vars => UNCHANGED <<I, O>>
    <3>1. UNCHANGED GL!vars => UNCHANGED <<line, data, head, pc, out>>
      BY DEF GL!vars
    <3> QED
      BY <3>1
  <2>10. UNCHANGED <<I, O>> => UNCHANGED GL!Fifo!vars
    BY DEF GL!Fifo!vars
  <2>11. ASSUME NEW t \in Threads, GL!Step(t) PROVE GL!Fifo!Next \/ UNCHANGED <<I, O>>
    BY <2>3, <2>4, <2>5, <2>6, <2>7, <2>8, <2>11 DEF GL!Step, GL!Fifo!Next
  <2> QED
    BY <1>2, <2>9, <2>10, <2>11 DEF GL!Next
<1> QED
  BY <1>1, <1>2, GLInvariance, PTL DEF GL!Spec, GL!FifoOrder, GL!Fifo!Spec
=============================================================================
