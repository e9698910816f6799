----------------------------- MODULE HMCSProofs -----------------------------
(***************************************************************************)
(* What the hierarchical lock does for every tree, every number of threads *)
(* and every threshold: one thread owns it at a time, the queue node of an *)
(* hnode serves one thread at a time, and who is seen waiting by the owner *)
(* waits until the release.                                                *)
(***************************************************************************)
EXTENDS HMCS, WellFoundedInduction, TLAPS

LEMMA Places ==
  ASSUME TypeOK, NEW t \in Threads, NEW l \in 1..Levels
  PROVE  /\ Path[t][l] \in HNodes /\ Node(t, l) \in QNodes
         /\ level[t] \in 1..Levels /\ L(t) \in HNodes /\ I(t) \in QNodes
         /\ I(t) = Node(t, level[t]) /\ L(t) = Path[t][level[t]]
<1>1. /\ level[t] \in 1..Levels /\ Levels \in Nat
      /\ Path \in [Threads -> [1..Levels -> HNodes]]
  BY HMCSAssumption DEF TypeOK
<1>2. ASSUME NEW k \in 1..Levels PROVE Path[t][k] \in HNodes /\ Node(t, k) \in QNodes
  <2>1. Path[t] \in [1..Levels -> HNodes]
    BY <1>1
  <2>2. k # Levels => k + 1 \in 1..Levels
    BY <1>1
  <2> QED
    BY <2>1, <2>2 DEF Node, QNodes
<1>3. I(t) = Node(t, level[t]) /\ L(t) = Path[t][level[t]]
  BY DEF I, L, Node
<1> QED
  BY <1>1, <1>2, <1>3

LEMMA Here ==
  ASSUME TypeOK, NEW t \in Threads
  PROVE  /\ level[t] \in 1..Levels /\ L(t) \in HNodes /\ I(t) \in QNodes
         /\ I(t) = Node(t, level[t]) /\ L(t) = Path[t][level[t]]
         /\ Levels \in Nat \ {0} /\ 1 \in 1..Levels /\ Levels \in 1..Levels
<1>1. level[t] \in 1..Levels /\ Levels \in Nat \ {0}
  BY HMCSAssumption DEF TypeOK
<1> QED
  BY <1>1, Places

LEMMA AtRoot ==
  ASSUME NEW t \in Threads, NEW l \in 1..Levels, PlaceOK(t), Uses(t, l), fast[t]
  PROVE  l = 1
<1>1. CASE Holds(t, l)
  BY <1>1 DEF Holds
<1>2. CASE Waits(t, l)
  BY <1>2 DEF Waits, PlaceOK
<1>3. CASE Prepares(t, l)
  BY <1>3 DEF Prepares, PlaceOK
<1> QED
  BY <1>1, <1>2, <1>3 DEF Uses, InLine

(* Who is in line with the queue node of an hnode holds that hnode.        *)
LEMMA Below ==
  ASSUME TypeOK, NEW t \in Threads, NEW l \in 1..Levels, PlaceOK(t),
         Uses(t, l), ~ fast[t], l # Levels
  PROVE  l + 1 \in 1..Levels /\ Holds(t, l + 1)
<1>1. level[t] \in 1..Levels /\ Levels \in Nat /\ l + 1 \in 1..Levels
  BY Places, HMCSAssumption
<1>2. CASE Holds(t, l)
  BY <1>1, <1>2 DEF Holds
<1>3. CASE Waits(t, l)
  BY <1>1, <1>3 DEF Waits, Holds
<1>4. CASE Prepares(t, l)
  BY <1>1, <1>4 DEF Prepares, Holds, PlaceOK
<1> QED
  BY <1>1, <1>2, <1>3, <1>4 DEF Uses, InLine

LEMMA Tree ==
  ASSUME NEW s \in Threads, NEW t \in Threads,
         NEW k \in 1..Levels, NEW l \in 1..Levels, Path[s][k] = Path[t][l]
  PROVE  k = l /\ \A j \in 1..Levels : j <= l => Path[s][j] = Path[t][j]
<1>1. k = l /\ \A j \in 1..l : Path[s][j] = Path[t][j]
  BY HMCSAssumption
<1> QED
  BY <1>1

(* A queue node serves one thread, at one level.                           *)
LEMMA Unique ==
  ASSUME TypeOK, HoldersOK, \A u \in Threads : PlaceOK(u),
         NEW s \in Threads, NEW t \in Threads,
         NEW k \in 1..Levels, NEW l \in 1..Levels,
         Uses(s, k), Uses(t, l), Node(s, k) = Node(t, l)
  PROVE  s = t /\ k = l
<1> DEFINE Own(u, j) == fast[u] \/ j = Levels
<1>1. \A u \in Threads, j \in 1..Levels :
        (Own(u, j) => Node(u, j) = u) /\ (~ Own(u, j) => Node(u, j) = Path[u][j + 1])
  BY DEF Node
<1>2. \A u \in Threads, j \in 1..Levels : Uses(u, j) /\ ~ Own(u, j) =>
        j + 1 \in 1..Levels /\ Holds(u, j + 1) /\ Path[u][j + 1] \in HNodes
  BY Below, Places
<1>3. Own(s, k) <=> Own(t, l)
  <2>1. Threads \cap HNodes = {}
    BY HMCSAssumption
  <2> QED
    BY <1>1, <1>2, <2>1
<1>4. CASE Own(s, k)
  <2>1. s = t
    BY <1>1, <1>3, <1>4
  <2>2. fast[s] => k = 1 /\ l = 1
    BY <2>1, AtRoot
  <2> QED
    BY <1>3, <1>4, <2>1, <2>2
<1>5. CASE ~ Own(s, k)
  <2>1. /\ k + 1 \in 1..Levels /\ Holds(s, k + 1)
        /\ l + 1 \in 1..Levels /\ Holds(t, l + 1)
        /\ Path[s][k + 1] = Path[t][l + 1]
    BY <1>1, <1>2, <1>3, <1>5
  <2>2. k + 1 = l + 1
    BY <2>1, Tree
  <2>3. s = t
    BY <2>1, <2>2 DEF HoldersOK
  <2> QED
    BY <2>2, <2>3
<1> QED
  BY <1>4, <1>5

(* A queue node is in one queue.                                           *)
LEMMA OneQueue ==
  ASSUME TypeOK, HoldersOK, \A u \in Threads : PlaceOK(u),
         NEW h, NEW k, NEW n, InUse(h, n), InUse(k, n)
  PROVE  h = k
<1>1. PICK s \in Threads, i \in 1..Levels :
        InLine(s, i) /\ Path[s][i] = h /\ Node(s, i) = n
  BY DEF InUse
<1>2. PICK t \in Threads, j \in 1..Levels :
        InLine(t, j) /\ Path[t][j] = k /\ Node(t, j) = n
  BY DEF InUse
<1>3. s = t /\ i = j
  BY <1>1, <1>2, Unique DEF Uses
<1> QED
  BY <1>1, <1>2, <1>3

(* A thread at a level of the tree uses its queue node there.              *)
LEMMA AtLevel ==
  ASSUME TypeOK, NEW t \in Threads, PlaceOK(t), Queueing(t)
  PROVE  Uses(t, level[t])
<1>1. level[t] \in 1..Levels /\ Levels \in Nat
  BY Places, HMCSAssumption
<1>2. CASE pc[t] \in {"a_reuse", "a_swap"}
  BY <1>2 DEF Uses, Prepares
<1>3. CASE pc[t] = "a_link"
  BY <1>3 DEF Uses, InLine, Waits
<1>4. CASE pc[t] = "a_spin"
  BY <1>1, <1>4 DEF Uses, InLine, Waits, Holds, PlaceOK
<1>5. CASE pc[t] \in {"a_start", "r_test", "r_next", "r_pass"} \cup Releasing
  BY <1>1, <1>5 DEF Uses, InLine, Holds, PlaceOK, Releasing
<1> QED
  BY <1>2, <1>3, <1>4, <1>5 DEF Queueing, Releasing

(* Where a thread is in line, and whom it waits for, as another step left  *)
(* it.                                                                     *)
SamePlaces(u) ==
  \A l \in 1..Levels :
    /\ Holds(u, l)' <=> Holds(u, l)
    /\ Waits(u, l)' <=> Waits(u, l)
    /\ InLine(u, l) => Node(u, l)' = Node(u, l)

SameLinks(u) ==
  \A h \in HNodes : \A n \in QNodes \cup {NULL} :
    /\ Linking(u, h, n)' <=> Linking(u, h, n)
    /\ Spins(u, h, n)' <=> Spins(u, h, n)

(* A thread that does not move keeps its part of the invariant as long as  *)
(* nobody stores to its queue nodes, but to link to them.                  *)
LEMMA Frame ==
  ASSUME TypeOK, NEW u \in Threads, PlaceOK(u), CountOK(u),
         pc'[u] = pc[u], level'[u] = level[u], fast'[u] = fast[u],
         answer'[u] = answer[u], pred'[u] = pred[u],
         \A l \in 1..Levels : Uses(u, l) =>
           /\ status'[Node(u, l)] = status[Node(u, l)]
           /\ \/ next'[Node(u, l)] = next[Node(u, l)]
              \/ InLine(u, l) /\ next'[Node(u, l)] # NULL
  PROVE  PlaceOK(u)' /\ CountOK(u)' /\ SamePlaces(u) /\ SameLinks(u)
<1> DEFINE at == Node(u, level[u])
<1>1. /\ level[u] \in 1..Levels /\ Levels \in Nat
      /\ I(u) = at /\ L(u) = Path[u][level[u]]
  BY Places, HMCSAssumption
<1>2. \A l \in 1..Levels : Node(u, l)' = Node(u, l)
  BY DEF Node
<1>3. I(u)' = at /\ L(u)' = L(u)
  BY <1>1 DEF I, L, Node
<1>4. pc[u] = "t_cas" \/ Queueing(u) => Uses(u, level[u])
  BY <1>1, AtLevel DEF Uses, Prepares
<1>5. pc[u] = "t_cas" \/ Queueing(u) =>
        /\ status'[at] = status[at]
        /\ next'[at] = next[at] \/ next'[at] # NULL
  BY <1>1, <1>4
<1>6. pc[u] \in {"t_cas", "a_swap"} => next'[at] = next[at]
  <2>1. pc[u] \in {"t_cas", "a_swap"} =>
          ~ InLine(u, level[u]) /\ Uses(u, level[u])
    BY <1>1 DEF InLine, Holds, Waits, Uses, Prepares, Releasing
  <2> QED
    BY <1>1, <2>1
<1>7. SamePlaces(u)
  <2>1. ASSUME NEW l \in 1..Levels
        PROVE  (Holds(u, l)' <=> Holds(u, l)) /\ (Waits(u, l)' <=> Waits(u, l))
    <3>1. CASE pc[u] = "a_spin"
      <4>1. status'[at] = status[at]
        BY <1>5, <3>1 DEF Queueing
      <4> QED
        BY <1>1, <1>3, <3>1, <4>1 DEF Holds, Waits, WAIT, ACQUIRE_PARENT, Releasing
    <3>2. CASE pc[u] # "a_spin"
      BY <3>2 DEF Holds, Waits, Releasing
    <3> QED
      BY <3>1, <3>2
  <2> QED
    BY <1>2, <2>1 DEF SamePlaces
<1>8. SameLinks(u)
  <2>1. CASE pc[u] = "a_spin"
    <3>1. status'[at] = status[at]
      BY <1>5, <2>1 DEF Queueing
    <3> QED
      BY <1>1, <1>3, <2>1, <3>1 DEF SameLinks, Linking, Spins, WAIT
  <2>2. CASE pc[u] # "a_spin"
    BY <1>3, <2>2 DEF SameLinks, Linking, Spins
  <2> QED
    BY <2>1, <2>2
<1>9. CountOK(u)'
  <2>1. ASSUME NEW l \in 2..Levels, Holds(u, l)' PROVE
        \/ pc[u] \in Releasing
        \/ /\ l = level[u]
           /\ \/ pc[u] = "a_start"
              \/ pc[u] = "a_spin" /\ status'[at] = ACQUIRE_PARENT
        \/ status'[Node(u, l)] \in 1..Threshold
    <3>1. l \in 1..Levels /\ Holds(u, l)
      BY <1>1, <1>7, <2>1 DEF SamePlaces
    <3>2. status'[Node(u, l)] = status[Node(u, l)]
      BY <3>1 DEF Uses, InLine
    <3>3. pc[u] = "a_spin" => status'[at] = status[at]
      BY <1>5 DEF Queueing
    <3> QED
      BY <1>1, <2>1, <3>1, <3>2, <3>3 DEF CountOK
  <2>2. ACQUIRE_PARENT' = ACQUIRE_PARENT /\ Releasing' = Releasing
    BY DEF ACQUIRE_PARENT, Releasing
  <2> QED
    BY <1>1, <1>2, <1>3, <2>1, <2>2 DEF CountOK
<1>10. PlaceOK(u)'
  <2>1. answer[u] = "waiters" =>
          \E l \in 1..Levels : (l = 1 \/ ~ fast[u]) /\ next'[Node(u, l)] # NULL
    <3> SUFFICES ASSUME answer[u] = "waiters"
                 PROVE  \E l \in 1..Levels :
                          (l = 1 \/ ~ fast[u]) /\ next'[Node(u, l)] # NULL
      OBVIOUS
    <3>1. PICK l \in 1..Levels : (l = 1 \/ ~ fast[u]) /\ next[Node(u, l)] # NULL
      BY DEF PlaceOK
    <3>2. Uses(u, l)
      BY <3>1 DEF PlaceOK, Holds, Uses, InLine
    <3> QED
      BY <3>1, <3>2
  <2>2. pc[u] \in {"a_swap", "t_cas"} => status'[at] = WAIT /\ next'[at] = NULL
    BY <1>1, <1>5, <1>6 DEF PlaceOK, Queueing
  <2>3. /\ pc[u] = "a_link" => status'[at] = WAIT
        /\ pc[u] \in {"r_pass", "m_store"} => next'[at] # NULL
        /\ pc[u] \in {"r_next", "r_pass"} => status'[at] # Threshold
    BY <1>1, <1>5 DEF PlaceOK, Queueing
  <2>4. WAIT' = WAIT /\ Releasing' = Releasing
    BY DEF WAIT, Releasing
  <2> HIDE DEF at
  <2> QED
    BY <1>2, <1>3, <2>1, <2>2, <2>3, <2>4 DEF PlaceOK
<1> QED
  BY <1>7, <1>8, <1>9, <1>10

(* A step that moves nobody into or out of a queue, nor links anybody.     *)
LEMMA Still ==
  ASSUME IInv, \A u \in Threads : SamePlaces(u) /\ SameLinks(u),
         lock' = lock,
         \A h \in HNodes, n \in QNodes : InUse(h, n) => next'[n] = next[n]
  PROVE  HoldersOK' /\ LinksOK' /\ TailOK'
<1>1. \A u \in Threads, l \in 1..Levels :
        /\ Holds(u, l)' <=> Holds(u, l)
        /\ InLine(u, l)' <=> InLine(u, l)
        /\ InLine(u, l) => Node(u, l)' = Node(u, l)
  BY DEF SamePlaces, InLine
<1>2. \A h \in HNodes, n \in QNodes : InUse(h, n)' <=> InUse(h, n)
  BY <1>1 DEF InUse
<1>3. HoldersOK'
  BY <1>1 DEF IInv, HoldersOK
<1>4. LinksOK'
  <2>1. \A t \in Threads, h \in HNodes : \A n \in QNodes \cup {NULL} :
          /\ Linking(t, h, n)' <=> Linking(t, h, n)
          /\ Spins(t, h, n)' <=> Spins(t, h, n)
    BY DEF SameLinks
  <2> QED
    BY <1>2, <2>1 DEF IInv, LinksOK
<1>5. TailOK'
  BY <1>1, <1>2 DEF IInv, TailOK
<1> QED
  BY <1>3, <1>4, <1>5

(* What a step of t leaves to the others when it stores to no queue node   *)
(* but the one it uses at its level.                                       *)
Alone(t) ==
  /\ \A u \in Threads : u # t =>
       /\ pc'[u] = pc[u] /\ level'[u] = level[u] /\ fast'[u] = fast[u]
       /\ answer'[u] = answer[u] /\ pred'[u] = pred[u]
  /\ \A n \in QNodes :
       \/ n = I(t) /\ Uses(t, level[t])
       \/ status'[n] = status[n] /\ next'[n] = next[n]

LEMMA Others ==
  ASSUME IInv, NEW t \in Threads, Alone(t), NEW u \in Threads, u # t
  PROVE  PlaceOK(u)' /\ CountOK(u)' /\ SamePlaces(u) /\ SameLinks(u)
<1>1. ASSUME NEW l \in 1..Levels, Uses(u, l)
      PROVE  status'[Node(u, l)] = status[Node(u, l)]
             /\ next'[Node(u, l)] = next[Node(u, l)]
  <2>1. Node(u, l) \in QNodes /\ level[t] \in 1..Levels /\ I(t) = Node(t, level[t])
    BY Places, Here DEF IInv
  <2>2. Uses(t, level[t]) => Node(u, l) # I(t)
    BY <1>1, <2>1, Unique DEF IInv
  <2> QED
    BY <2>1, <2>2 DEF Alone
<1>2. TypeOK /\ PlaceOK(u) /\ CountOK(u)
  BY DEF IInv
<1>3. /\ pc'[u] = pc[u] /\ level'[u] = level[u] /\ fast'[u] = fast[u]
      /\ answer'[u] = answer[u] /\ pred'[u] = pred[u]
  BY DEF Alone
<1> QED
  BY <1>1, <1>2, <1>3, Frame

LEMMA StillInv ==
  ASSUME IInv, TypeOK', NEW t \in Threads, Alone(t), lock' = lock,
         InLine(t, level[t]) => next'[I(t)] = next[I(t)],
         SamePlaces(t), PlaceOK(t)', CountOK(t)',
         pc[t] # "a_link", pc[t] = "a_spin" => status[I(t)] # WAIT,
         pc'[t] # "a_link", pc'[t] # "a_spin"
  PROVE  IInv'
<1>1. SameLinks(t)
  BY DEF SameLinks, Linking, Spins
<1>2. \A u \in Threads : PlaceOK(u)' /\ CountOK(u)' /\ SamePlaces(u) /\ SameLinks(u)
  BY <1>1, Others
<1>3. ASSUME NEW h \in HNodes, NEW n \in QNodes, InUse(h, n) PROVE next'[n] = next[n]
  <2>1. CASE n = I(t) /\ Uses(t, level[t])
    <3>1. PICK u \in Threads, l \in 1..Levels : InLine(u, l) /\ Node(u, l) = n
      BY <1>3 DEF InUse
    <3>2. level[t] \in 1..Levels /\ I(t) = Node(t, level[t])
      BY Places, Here DEF IInv
    <3>3. u = t /\ l = level[t]
      BY <2>1, <3>1, <3>2, Unique DEF IInv, Uses
    <3> QED
      BY <2>1, <3>1, <3>3
  <2> QED
    BY <2>1 DEF Alone
<1>4. HoldersOK' /\ LinksOK' /\ TailOK'
  BY <1>2, <1>3, Still
<1> QED
  BY <1>2, <1>4 DEF IInv
-----------------------------------------------------------------------------
(* The steps between the queues.                                           *)
Moves(t) ==
  \/ LookAtLeaf(t) \/ TryLookAtRoot(t) \/ AcqSpin(t)
  \/ RelBegin(t) \/ RelTest(t) \/ RelNext(t) \/ MNext(t) \/ MWait(t)
  \/ NowaitersBegin(t) \/ NowaitersNext(t)

LEMMA MovesOwn ==
  ASSUME IInv, NEW t \in Threads, Moves(t)
  PROVE  /\ SamePlaces(t) /\ PlaceOK(t)' /\ CountOK(t)' /\ TypeOK'
         /\ lock' = lock /\ status' = status /\ next' = next /\ fast' = fast
         /\ pred' = pred
         /\ pc[t] # "a_link" /\ (pc[t] = "a_spin" => status[I(t)] # WAIT)
         /\ pc'[t] # "a_link" /\ pc'[t] # "a_spin"
         /\ \A u \in Threads : u # t =>
              pc'[u] = pc[u] /\ level'[u] = level[u] /\ answer'[u] = answer[u]
<1> USE DEF Goto, At, SetLevel
<1>1. TypeOK /\ PlaceOK(t) /\ CountOK(t) /\ Levels \in Nat \ {0}
      /\ level[t] \in 1..Levels /\ t \in DOMAIN pc /\ t \in DOMAIN level
      /\ t \in DOMAIN answer
  BY HMCSAssumption, Places DEF IInv, TypeOK
<1>2. /\ lock' = lock /\ status' = status /\ next' = next /\ fast' = fast
      /\ pred' = pred
  BY DEF Moves, LookAtLeaf, TryLookAtRoot, AcqSpin, RelBegin, RelTest, RelNext,
       MNext, MWait, NowaitersBegin, NowaitersNext
<1>3. \A l \in 1..Levels : Node(t, l)' = Node(t, l)
  BY <1>2 DEF Node
<1> DEFINE Rest ==
      \A u \in Threads : u # t =>
        pc'[u] = pc[u] /\ level'[u] = level[u] /\ answer'[u] = answer[u]
<1>4. CASE LookAtLeaf(t)
  <2>1. /\ pc[t] = "idle" /\ pc'[t] \in {"idle", "a_look", "a_reuse", "t_look"}
        /\ level'[t] \in 1..Levels
        /\ level'[t] = level[t]
        /\ answer'[t] = answer[t]
    BY <1>1, <1>4 DEF LookAtLeaf, TypeOK, PlaceOK
  <2>2. Rest /\ TypeOK'
    BY <1>1, <1>2, <1>4 DEF LookAtLeaf, TypeOK
  <2>3. pc'[t] \in {"r_next", "r_pass", "m_store"} => I(t)' = I(t)
    BY <1>2, <2>1 DEF I
  <2>4. SamePlaces(t)
    BY <1>1, <1>2, <1>3, <2>1 DEF SamePlaces, Holds, Waits, PlaceOK, Releasing
  <2>5. PlaceOK(t)'
    BY <1>1, <1>2, <1>3, <2>1, <2>3 DEF PlaceOK, Releasing, Node
  <2>6. CountOK(t)'
    BY <1>1, <1>2, <1>3, <2>1, <2>4 DEF CountOK, SamePlaces, Releasing
  <2> QED
    BY <1>2, <2>1, <2>2, <2>4, <2>5, <2>6
<1>5. CASE TryLookAtRoot(t)
  <2>1. /\ pc[t] = "t_look" /\ pc'[t] \in {"idle", "t_reuse"}
        /\ level'[t] \in 1..Levels
        /\ level'[t] = level[t]
        /\ answer'[t] = answer[t]
    BY <1>1, <1>5 DEF TryLookAtRoot, TypeOK, PlaceOK
  <2>2. Rest /\ TypeOK'
    BY <1>1, <1>2, <1>5 DEF TryLookAtRoot, TypeOK
  <2>3. pc'[t] \in {"r_next", "r_pass", "m_store"} => I(t)' = I(t)
    BY <1>2, <2>1 DEF I
  <2>4. SamePlaces(t)
    BY <1>1, <1>2, <1>3, <2>1 DEF SamePlaces, Holds, Waits, PlaceOK, Releasing
  <2>5. PlaceOK(t)'
    BY <1>1, <1>2, <1>3, <2>1, <2>3 DEF PlaceOK, Releasing, Node
  <2>6. CountOK(t)'
    BY <1>1, <1>2, <1>3, <2>1, <2>4 DEF CountOK, SamePlaces, Releasing
  <2> QED
    BY <1>2, <2>1, <2>2, <2>4, <2>5, <2>6
<1>6. CASE AcqSpin(t)
  <2>1. /\ pc[t] = "a_spin" /\ status[I(t)] # WAIT
        /\ \/ pc'[t] = "cs" /\ (level[t] = 1 \/ status[I(t)] # ACQUIRE_PARENT)
           \/ pc'[t] = "a_start" /\ level[t] > 1 /\ status[I(t)] = ACQUIRE_PARENT
        /\ level'[t] \in 1..Levels
        /\ level'[t] = level[t]
        /\ answer'[t] = answer[t]
    BY <1>1, <1>6 DEF AcqSpin, TypeOK, PlaceOK
  <2>2. Rest /\ TypeOK'
    BY <1>1, <1>2, <1>6 DEF AcqSpin, TypeOK
  <2>3. pc'[t] \in {"r_next", "r_pass", "m_store"} => I(t)' = I(t)
    BY <1>2, <2>1 DEF I
  <2>4. SamePlaces(t)
    BY <1>1, <1>2, <1>3, <2>1 DEF SamePlaces, Holds, Waits, PlaceOK, Releasing
  <2>5. PlaceOK(t)'
    BY <1>1, <1>2, <1>3, <2>1, <2>3 DEF PlaceOK, Releasing, Node
  <2>6. CountOK(t)'
    BY <1>1, <1>2, <1>3, <2>1, <2>4 DEF CountOK, SamePlaces, Releasing
  <2> QED
    BY <1>2, <2>1, <2>2, <2>4, <2>5, <2>6
<1>7. CASE RelBegin(t)
  <2>1. /\ pc[t] = "cs" /\ answer'[t] = "none"
        /\ \/ fast[t] /\ pc'[t] = "m_next" /\ level'[t] = 1
           \/ ~ fast[t] /\ pc'[t] = "r_test" /\ level'[t] = Levels
        /\ level'[t] \in 1..Levels
    BY <1>1, <1>7 DEF RelBegin, TypeOK, PlaceOK
  <2>2. Rest /\ TypeOK'
    BY <1>1, <1>2, <1>7 DEF RelBegin, TypeOK
  <2>3. pc'[t] \in {"r_next", "r_pass", "m_store"} => I(t)' = I(t)
    BY <1>2, <2>1 DEF I
  <2>4. SamePlaces(t)
    BY <1>1, <1>2, <1>3, <2>1 DEF SamePlaces, Holds, Waits, PlaceOK, Releasing
  <2>5. PlaceOK(t)'
    BY <1>1, <1>2, <1>3, <2>1, <2>3 DEF PlaceOK, Releasing, Node
  <2>6. CountOK(t)'
    BY <1>1, <1>2, <1>3, <2>1, <2>4 DEF CountOK, SamePlaces, Releasing
  <2> QED
    BY <1>2, <2>1, <2>2, <2>4, <2>5, <2>6
<1>8. CASE RelTest(t)
  <2>1. /\ pc[t] = "r_test"
        /\ \/ level[t] = 1 /\ level'[t] = 1 /\ pc'[t] = "m_next"
           \/ pc'[t] = "r_test"
           \/ /\ level[t] > 1 /\ pc'[t] = "r_next" /\ level'[t] = level[t]
              /\ status[I(t)] # Threshold
        /\ level'[t] \in 1..Levels
        /\ answer'[t] = answer[t]
    BY <1>1, <1>8 DEF RelTest, TypeOK, PlaceOK
  <2>2. Rest /\ TypeOK'
    BY <1>1, <1>2, <1>8 DEF RelTest, TypeOK
  <2>3. pc'[t] \in {"r_next", "r_pass", "m_store"} => I(t)' = I(t)
    BY <1>2, <2>1 DEF I
  <2>4. SamePlaces(t)
    BY <1>1, <1>2, <1>3, <2>1 DEF SamePlaces, Holds, Waits, PlaceOK, Releasing
  <2>5. PlaceOK(t)'
    BY <1>1, <1>2, <1>3, <2>1, <2>3 DEF PlaceOK, Releasing, Node
  <2>6. CountOK(t)'
    BY <1>1, <1>2, <1>3, <2>1, <2>4 DEF CountOK, SamePlaces, Releasing
  <2> QED
    BY <1>2, <2>1, <2>2, <2>4, <2>5, <2>6
<1>9. CASE RelNext(t)
  <2>1. /\ pc[t] = "r_next"
        /\ \/ next[I(t)] # NULL /\ pc'[t] = "r_pass" /\ level'[t] = level[t]
           \/ pc'[t] = "r_test"
        /\ level'[t] \in 1..Levels
        /\ answer'[t] = answer[t]
    <3>1. pc[t] = "r_next" /\ level[t] > 1
      BY <1>9 DEF RelNext, IInv, PlaceOK
    <3>2. level[t] - 1 \in 1..Levels /\ answer' = answer
      BY <1>1, <1>9, <3>1 DEF RelNext
    <3>3. \/ next[I(t)] # NULL /\ pc'[t] = "r_pass" /\ level' = level
          \/ pc'[t] = "r_test" /\ level'[t] = level[t] - 1
      BY <1>1, <1>9 DEF RelNext
    <3> QED
      BY <1>1, <3>1, <3>2, <3>3
  <2>2. Rest /\ TypeOK'
    <3>1. \E k \in 1..Levels : level' = [level EXCEPT ![t] = k]
      BY <1>1, <1>9, <2>1 DEF RelNext, TypeOK
    <3>2. \/ pc' = [pc EXCEPT ![t] = "r_pass"]
          \/ pc' = [pc EXCEPT ![t] = "r_test"]
      BY <1>9 DEF RelNext
    <3> QED
      BY <1>1, <1>2, <1>9, <3>1, <3>2 DEF RelNext, TypeOK
  <2>3. pc'[t] \in {"r_next", "r_pass", "m_store"} => I(t)' = I(t)
    BY <1>2, <2>1 DEF I
  <2>4. SamePlaces(t)
    BY <1>1, <1>2, <1>3, <2>1 DEF SamePlaces, Holds, Waits, PlaceOK, Releasing
  <2>5. PlaceOK(t)'
    BY <1>1, <1>2, <1>3, <2>1, <2>3 DEF PlaceOK, Releasing, Node
  <2>6. CountOK(t)'
    BY <1>1, <1>2, <1>3, <2>1, <2>4 DEF CountOK, SamePlaces, Releasing
  <2> QED
    BY <1>2, <2>1, <2>2, <2>4, <2>5, <2>6
<1>10. CASE MNext(t)
  <2>1. /\ pc[t] = "m_next"
        /\ \/ next[I(t)] # NULL /\ pc'[t] = "m_store"
           \/ pc'[t] = "m_cas"
        /\ level'[t] \in 1..Levels
        /\ level'[t] = level[t]
        /\ answer'[t] = answer[t]
    BY <1>1, <1>10 DEF MNext, TypeOK, PlaceOK
  <2>2. Rest /\ TypeOK'
    BY <1>1, <1>2, <1>10 DEF MNext, TypeOK
  <2>3. pc'[t] \in {"r_next", "r_pass", "m_store"} => I(t)' = I(t)
    BY <1>2, <2>1 DEF I
  <2>4. SamePlaces(t)
    BY <1>1, <1>2, <1>3, <2>1 DEF SamePlaces, Holds, Waits, PlaceOK, Releasing
  <2>5. PlaceOK(t)'
    BY <1>1, <1>2, <1>3, <2>1, <2>3 DEF PlaceOK, Releasing, Node
  <2>6. CountOK(t)'
    BY <1>1, <1>2, <1>3, <2>1, <2>4 DEF CountOK, SamePlaces, Releasing
  <2> QED
    BY <1>2, <2>1, <2>2, <2>4, <2>5, <2>6
<1>11. CASE MWait(t)
  <2>1. /\ pc[t] = "m_wait" /\ next[I(t)] # NULL /\ pc'[t] = "m_store"
        /\ level'[t] \in 1..Levels
        /\ level'[t] = level[t]
        /\ answer'[t] = answer[t]
    BY <1>1, <1>11 DEF MWait, TypeOK, PlaceOK
  <2>2. Rest /\ TypeOK'
    BY <1>1, <1>2, <1>11 DEF MWait, TypeOK
  <2>3. pc'[t] \in {"r_next", "r_pass", "m_store"} => I(t)' = I(t)
    BY <1>2, <2>1 DEF I
  <2>4. SamePlaces(t)
    BY <1>1, <1>2, <1>3, <2>1 DEF SamePlaces, Holds, Waits, PlaceOK, Releasing
  <2>5. PlaceOK(t)'
    BY <1>1, <1>2, <1>3, <2>1, <2>3 DEF PlaceOK, Releasing, Node
  <2>6. CountOK(t)'
    BY <1>1, <1>2, <1>3, <2>1, <2>4 DEF CountOK, SamePlaces, Releasing
  <2> QED
    BY <1>2, <2>1, <2>2, <2>4, <2>5, <2>6
<1>12. CASE NowaitersBegin(t)
  <2>1. /\ pc[t] = "cs" /\ pc'[t] = "n_next"
        /\ (fast[t] => level'[t] = 1)
        /\ level'[t] \in 1..Levels
        /\ answer'[t] = answer[t]
    BY <1>1, <1>12 DEF NowaitersBegin, TypeOK, PlaceOK
  <2>2. Rest /\ TypeOK'
    BY <1>1, <1>2, <1>12 DEF NowaitersBegin, TypeOK
  <2>3. pc'[t] \in {"r_next", "r_pass", "m_store"} => I(t)' = I(t)
    BY <1>2, <2>1 DEF I
  <2>4. SamePlaces(t)
    BY <1>1, <1>2, <1>3, <2>1 DEF SamePlaces, Holds, Waits, PlaceOK, Releasing
  <2>5. PlaceOK(t)'
    BY <1>1, <1>2, <1>3, <2>1, <2>3 DEF PlaceOK, Releasing, Node
  <2>6. CountOK(t)'
    BY <1>1, <1>2, <1>3, <2>1, <2>4 DEF CountOK, SamePlaces, Releasing
  <2> QED
    BY <1>2, <2>1, <2>2, <2>4, <2>5, <2>6
<1>13. CASE NowaitersNext(t)
  <2>1. /\ pc[t] = "n_next" /\ pc'[t] \in {"cs", "n_next"}
        /\ fast[t] => level[t] = 1
        /\ \/ level'[t] = level[t] /\ answer'[t] = "waiters" /\ next[I(t)] # NULL
           \/ level'[t] = level[t] /\ answer'[t] = "alone"
           \/ level[t] > 1 /\ level'[t] = level[t] - 1 /\ answer'[t] = answer[t]
    <3>1. pc[t] = "n_next" /\ (fast[t] => level[t] = 1)
      BY <1>13 DEF NowaitersNext, IInv, PlaceOK
    <3>2. CASE Successor(t) # NULL
      BY <1>1, <1>13, <3>1, <3>2 DEF NowaitersNext, Successor
    <3>3. CASE Successor(t) = NULL
      BY <1>1, <1>13, <3>1, <3>3 DEF NowaitersNext
    <3> QED
      BY <3>2, <3>3
  <2>2. level'[t] \in 1..Levels /\ (fast[t] => level'[t] = 1)
    BY <1>1, <2>1
  <2>3. Rest /\ TypeOK'
    BY <1>1, <1>2, <1>13 DEF NowaitersNext, TypeOK
  <2>4. SamePlaces(t)
    BY <1>1, <1>2, <1>3, <2>1 DEF SamePlaces, Holds, Waits, PlaceOK, Releasing
  <2>5. PlaceOK(t)'
    <3>1. answer'[t] = "waiters" =>
            \E l \in 1..Levels : (l = 1 \/ ~ fast[t]) /\ next[Node(t, l)] # NULL
      <4>1. I(t) = Node(t, level[t])
        BY DEF I, Node
      <4>2. answer[t] = "waiters" =>
              \E l \in 1..Levels : (l = 1 \/ ~ fast[t]) /\ next[Node(t, l)] # NULL
        BY <1>1 DEF PlaceOK
      <4> QED
        BY <1>1, <2>1, <4>1, <4>2
    <3> QED
      BY <1>1, <1>2, <1>3, <2>1, <2>2, <3>1 DEF PlaceOK, Releasing
  <2>6. CountOK(t)'
    BY <1>1, <1>2, <1>3, <2>1, <2>4 DEF CountOK, SamePlaces, Releasing
  <2> QED
    BY <1>2, <2>1, <2>3, <2>4, <2>5, <2>6
<1> QED
  BY <1>2, <1>4, <1>5, <1>6, <1>7, <1>8, <1>9, <1>10, <1>11, <1>12, <1>13 DEF Moves

LEMMA MovesInv == ASSUME IInv, NEW t \in Threads, Moves(t) PROVE IInv'
<1>1. Alone(t)
  BY MovesOwn DEF Alone
<1> QED
  BY <1>1, MovesOwn, StillInv

(* The steps of reuse_qnode and the like, before a queue node is in line.  *)
LEMMA LookAtRootInv == ASSUME IInv, NEW t \in Threads, LookAtRoot(t) PROVE IInv'
<1>1. /\ TypeOK /\ PlaceOK(t) /\ t \in DOMAIN pc /\ 1 \in 1..Levels
      /\ t \in DOMAIN level /\ t \in DOMAIN fast
  BY HMCSAssumption DEF IInv, TypeOK
<1>2. /\ pc[t] = "a_look" /\ pc'[t] = "a_reuse"
      /\ \/ level'[t] = level[t] /\ fast'[t] = fast[t]
         \/ level'[t] = 1 /\ fast'[t]
      /\ answer'[t] = answer[t] /\ status' = status /\ next' = next
      /\ lock' = lock /\ pred' = pred
  BY <1>1 DEF LookAtRoot, Goto, SetLevel
<1>3. ~ fast[t] /\ level[t] = Levels /\ answer[t] # "waiters"
  BY <1>1, <1>2 DEF PlaceOK
<1>4. Alone(t)
  <2>1. /\ pc' = [pc EXCEPT ![t] = "a_reuse"] /\ answer' = answer
        /\ level' = level \/ level' = [level EXCEPT ![t] = 1]
        /\ fast' = fast \/ fast' = [fast EXCEPT ![t] = TRUE]
    BY DEF LookAtRoot, Goto, SetLevel
  <2>2. \A u \in Threads : u # t =>
          /\ pc'[u] = pc[u] /\ level'[u] = level[u] /\ fast'[u] = fast[u]
          /\ answer'[u] = answer[u] /\ pred'[u] = pred[u]
    BY <1>1, <1>2, <2>1 DEF TypeOK
  <2> QED
    BY <1>2, <2>2 DEF Alone
<1>5. TypeOK'
  BY <1>1 DEF TypeOK, LookAtRoot, Goto, SetLevel
<1>6. \A l \in 1..Levels : ~ InLine(t, l) /\ ~ InLine(t, l)'
  BY <1>1, <1>2, <1>3, HMCSAssumption DEF InLine, Holds, Waits, Releasing
<1>7. SamePlaces(t) /\ CountOK(t)'
  BY <1>6, HMCSAssumption DEF SamePlaces, InLine, CountOK
<1>8. PlaceOK(t)'
  BY <1>2, <1>3 DEF PlaceOK, Releasing
<1>9. ~ InLine(t, level[t])
  BY <1>1, <1>6 DEF TypeOK
<1> QED
  BY <1>2, <1>4, <1>5, <1>7, <1>8, <1>9, StillInv

LEMMA TryReuseInv == ASSUME IInv, NEW t \in Threads, TryReuse(t) PROVE IInv'
<1>1. /\ TypeOK /\ PlaceOK(t) /\ Levels \in 1..Levels /\ t \in QNodes
      /\ pc[t] = "t_reuse"
  BY HMCSAssumption DEF IInv, TypeOK, TryReuse, At, QNodes
<1>2. ~ fast[t] /\ level[t] = Levels /\ answer[t] # "waiters" /\ I(t) = t
  BY <1>1 DEF PlaceOK, I
<1>3. /\ pc' = [pc EXCEPT ![t] = "t_cas"]
      /\ status' = [status EXCEPT ![t] = WAIT] /\ next' = [next EXCEPT ![t] = NULL]
      /\ lock' = lock /\ fast' = fast /\ level' = level /\ pred' = pred
      /\ answer' = answer /\ run' = run
  BY DEF TryReuse, At, Goto, Reuse
<1>4. TypeOK'
  BY <1>1, <1>3 DEF TypeOK
<1>5. Uses(t, level[t])
  BY <1>1 DEF Uses, Prepares
<1>6. pc'[t] = "t_cas" /\ status'[t] = WAIT /\ next'[t] = NULL /\ I(t)' = t
  BY <1>1, <1>2, <1>3 DEF TypeOK, I
<1>7. Alone(t)
  BY <1>1, <1>2, <1>3, <1>5 DEF TypeOK, Alone
<1>8. \A l \in 1..Levels : ~ InLine(t, l) /\ ~ InLine(t, l)'
  BY <1>1, <1>6 DEF InLine, Holds, Waits, Releasing
<1>9. SamePlaces(t) /\ CountOK(t)'
  BY <1>8, HMCSAssumption DEF SamePlaces, InLine, CountOK
<1>10. PlaceOK(t)'
  BY <1>2, <1>3, <1>6 DEF PlaceOK, Releasing, WAIT
<1>11. ~ InLine(t, level[t])
  BY <1>1, <1>2, <1>8
<1> QED
  BY <1>1, <1>3, <1>4, <1>6, <1>7, <1>9, <1>10, <1>11, StillInv

LEMMA AcqReuseInv == ASSUME IInv, NEW t \in Threads, AcqReuse(t) PROVE IInv'
<1>1. /\ TypeOK /\ PlaceOK(t) /\ CountOK(t) /\ pc[t] = "a_reuse"
      /\ I(t) \in QNodes /\ level[t] \in 1..Levels /\ I(t) = Node(t, level[t])
  BY Places, HMCSAssumption DEF IInv, TypeOK, AcqReuse, At
<1>2. (fast[t] => level[t] = 1) /\ answer[t] # "waiters"
  BY <1>1 DEF PlaceOK
<1>3. /\ pc' = [pc EXCEPT ![t] = "a_swap"]
      /\ status' = [status EXCEPT ![I(t)] = WAIT]
      /\ next' = [next EXCEPT ![I(t)] = NULL]
      /\ lock' = lock /\ fast' = fast /\ level' = level /\ pred' = pred
      /\ answer' = answer /\ run' = run
  BY DEF AcqReuse, At, Goto, Reuse
<1>4. TypeOK'
  BY <1>1, <1>3 DEF TypeOK
<1>5. Uses(t, level[t]) /\ ~ InLine(t, level[t])
  BY <1>1 DEF Uses, Prepares, InLine, Holds, Waits, Releasing
<1>6. /\ pc'[t] = "a_swap" /\ I(t)' = I(t)
      /\ status'[I(t)] = WAIT /\ next'[I(t)] = NULL
      /\ \A l \in 1..Levels : Node(t, l)' = Node(t, l)
  BY <1>1, <1>3 DEF TypeOK, I, Node
<1>7. Alone(t)
  BY <1>1, <1>3, <1>5 DEF TypeOK, Alone
<1>8. SamePlaces(t)
  BY <1>1, <1>3, <1>6 DEF SamePlaces, Holds, Waits, Releasing
<1>9. CountOK(t)'
  <2>1. ASSUME NEW l \in 2..Levels, Holds(t, l)'
        PROVE  status'[Node(t, l)] \in 1..Threshold
    <3>1. l \in 1..Levels /\ Holds(t, l) /\ l # level[t] /\ Node(t, l) \in QNodes
      BY <1>1, <1>8, <2>1, Places DEF SamePlaces, Holds, Releasing
    <3>2. Node(t, l) # I(t)
      BY <1>1, <1>5, <3>1, Unique DEF IInv, Uses, InLine
    <3>3. status[Node(t, l)] \in 1..Threshold
      BY <1>1, <2>1, <3>1 DEF CountOK, Releasing
    <3> QED
      BY <1>1, <1>3, <3>1, <3>2, <3>3 DEF TypeOK
  <2> QED
    BY <1>6, <2>1 DEF CountOK
<1>10. PlaceOK(t)'
  BY <1>2, <1>3, <1>6 DEF PlaceOK, Releasing, WAIT
<1> QED
  BY <1>1, <1>3, <1>4, <1>5, <1>6, <1>7, <1>8, <1>9, <1>10, StillInv

LEMMA AcqStartInv == ASSUME IInv, NEW t \in Threads, AcqStart(t) PROVE IInv'
<1>1. /\ TypeOK /\ PlaceOK(t) /\ CountOK(t) /\ pc[t] = "a_start"
      /\ I(t) \in QNodes /\ level[t] \in 1..Levels /\ I(t) = Node(t, level[t])
      /\ 1 \in 1..Threshold /\ Levels \in Nat
  BY Places, HMCSAssumption DEF IInv, TypeOK, AcqStart, At
<1>2. ~ fast[t] /\ level[t] > 1 /\ answer[t] # "waiters" /\ level[t] - 1 \in 1..Levels
  BY <1>1 DEF PlaceOK
<1>3. /\ pc' = [pc EXCEPT ![t] = "a_reuse"]
      /\ level' = [level EXCEPT ![t] = level[t] - 1]
      /\ status' = [status EXCEPT ![I(t)] = 1]
      /\ next' = next /\ lock' = lock /\ fast' = fast /\ pred' = pred
      /\ answer' = answer /\ run' = run
  BY DEF AcqStart, At, Goto, SetLevel, COHORT_START
<1>4. TypeOK'
  BY <1>1, <1>2, <1>3 DEF TypeOK
<1>5. Uses(t, level[t])
  BY <1>1, AtLevel DEF Queueing
<1>6. /\ pc'[t] = "a_reuse" /\ level'[t] = level[t] - 1 /\ status'[I(t)] = 1
      /\ fast'[t] = fast[t] /\ answer'[t] = answer[t]
      /\ \A l \in 1..Levels : Node(t, l)' = Node(t, l)
  BY <1>1, <1>2, <1>3 DEF TypeOK, Node
<1>7. Alone(t)
  BY <1>1, <1>3, <1>5 DEF TypeOK, Alone
<1>8. SamePlaces(t)
  BY <1>1, <1>2, <1>6 DEF SamePlaces, Holds, Waits, Releasing
<1>9. CountOK(t)'
  <2>1. ASSUME NEW l \in 2..Levels, Holds(t, l)'
        PROVE  status'[Node(t, l)] \in 1..Threshold
    <3>1. l \in 1..Levels /\ Holds(t, l) /\ Node(t, l) \in QNodes
      BY <1>1, <1>8, <2>1, Places DEF SamePlaces
    <3>2. CASE l = level[t]
      BY <1>1, <1>6, <3>2
    <3>3. CASE l # level[t]
      <4>1. Node(t, l) # I(t)
        BY <1>1, <1>5, <3>1, <3>3, Unique DEF IInv, Uses, InLine
      <4>2. status[Node(t, l)] \in 1..Threshold
        BY <1>1, <2>1, <3>1, <3>3 DEF CountOK, Releasing
      <4> QED
        BY <1>1, <1>3, <3>1, <4>1, <4>2 DEF TypeOK
    <3> QED
      BY <3>2, <3>3
  <2> QED
    BY <1>6, <2>1 DEF CountOK
<1>10. PlaceOK(t)'
  BY <1>2, <1>6 DEF PlaceOK, Releasing
<1> QED
  BY <1>1, <1>3, <1>4, <1>6, <1>7, <1>8, <1>9, <1>10, StillInv

(* A compare-and-swap that fails. *)
LEMMA TryFailsInv ==
  ASSUME IInv, NEW t \in Threads, TryCAS(t), lock[Path[t][1]] # NULL
  PROVE  IInv'
<1>1. /\ TypeOK /\ PlaceOK(t) /\ Levels \in 1..Levels /\ t \in QNodes
      /\ pc[t] = "t_cas"
  BY HMCSAssumption DEF IInv, TypeOK, TryCAS, QNodes
<1>2. ~ fast[t] /\ level[t] = Levels /\ answer[t] # "waiters" /\ I(t) = t
  BY <1>1 DEF PlaceOK, I
<1>3. /\ pc' = [pc EXCEPT ![t] = "idle"]
      /\ status' = [status EXCEPT ![t] = ACQUIRE_PARENT]
      /\ next' = [next EXCEPT ![t] = t]
      /\ lock' = lock /\ fast' = fast /\ level' = level /\ pred' = pred
      /\ answer' = answer /\ run' = run
  BY DEF TryCAS, Goto, Forget
<1>4. TypeOK'
  BY <1>1, <1>3 DEF TypeOK
<1>5. Uses(t, level[t])
  BY <1>1 DEF Uses, Prepares
<1>6. pc'[t] = "idle"
  BY <1>1, <1>3 DEF TypeOK
<1>7. Alone(t)
  BY <1>1, <1>2, <1>3, <1>5 DEF TypeOK, Alone
<1>8. \A l \in 1..Levels : ~ InLine(t, l) /\ ~ InLine(t, l)'
  BY <1>1, <1>6 DEF InLine, Holds, Waits, Releasing
<1>9. SamePlaces(t) /\ CountOK(t)'
  BY <1>8, HMCSAssumption DEF SamePlaces, InLine, CountOK
<1>10. PlaceOK(t)'
  BY <1>2, <1>3, <1>6 DEF PlaceOK, Releasing
<1>11. ~ InLine(t, level[t])
  BY <1>1, <1>2, <1>8
<1> QED
  BY <1>1, <1>3, <1>4, <1>6, <1>7, <1>9, <1>10, <1>11, StillInv

LEMMA MCASFailsInv ==
  ASSUME IInv, NEW t \in Threads, MCAS(t), lock[L(t)] # I(t)
  PROVE  IInv'
<1>1. TypeOK /\ PlaceOK(t) /\ CountOK(t) /\ pc[t] = "m_cas" /\ Levels \in Nat
  BY HMCSAssumption DEF IInv, MCAS
<1>2. /\ pc' = [pc EXCEPT ![t] = "m_wait"]
      /\ status' = status /\ next' = next /\ lock' = lock /\ fast' = fast
      /\ level' = level /\ pred' = pred /\ answer' = answer /\ run' = run
  BY DEF MCAS, Goto
<1>3. TypeOK'
  BY <1>1, <1>2 DEF TypeOK
<1>4. pc'[t] = "m_wait" /\ \A l \in 1..Levels : Node(t, l)' = Node(t, l)
  BY <1>1, <1>2 DEF TypeOK, Node
<1>5. Alone(t)
  BY <1>1, <1>2 DEF TypeOK, Alone
<1>6. SamePlaces(t)
  BY <1>1, <1>2, <1>4 DEF SamePlaces, Holds, Waits, Releasing
<1>7. CountOK(t)'
  BY <1>4 DEF CountOK, Releasing
<1>8. PlaceOK(t)'
  BY <1>1, <1>2, <1>4 DEF PlaceOK, Releasing
<1> QED
  BY <1>1, <1>2, <1>3, <1>4, <1>5, <1>6, <1>7, <1>8, StillInv
-----------------------------------------------------------------------------
(* A thread joins the queue of an hnode with a queue node that is in none: *)
(* behind the last one, or as the holder of an hnode that nobody holds.    *)
LEMMA Join ==
  ASSUME IInv, NEW t \in Threads, NEW k \in 1..Levels, NEW i \in QNodes,
         \A h \in HNodes : ~ InUse(h, i),
         next[i] = NULL, next' = next, lock' = [lock EXCEPT ![Path[t][k]] = i],
         \A u \in Threads : u # t => SamePlaces(u) /\ SameLinks(u),
         \A l \in 1..Levels : InLine(t, l) => Node(t, l)' = Node(t, l),
         \A l \in 1..Levels : InLine(t, l)' <=> InLine(t, l) \/ l = k,
         Node(t, k)' = i,
         \A l \in 1..Levels : Holds(t, l)' <=>
           Holds(t, l) \/ (l = k /\ lock[Path[t][k]] = NULL),
         \A h \in HNodes, n \in QNodes : ~ Spins(t, h, n),
         \A h \in HNodes : \A n \in QNodes \cup {NULL} :
           Linking(t, h, n)' => h = Path[t][k] /\ n = lock[h] /\ n # NULL
  PROVE  HoldersOK' /\ LinksOK' /\ TailOK'
<1> DEFINE g == Path[t][k]
<1>1. TypeOK /\ g \in HNodes /\ NULL \notin QNodes
  BY Places, HMCSAssumption DEF IInv, QNodes
<1>2. \A u \in Threads, l \in 1..Levels : u # t =>
        /\ Holds(u, l)' <=> Holds(u, l)
        /\ InLine(u, l)' <=> InLine(u, l)
        /\ InLine(u, l) => Node(u, l)' = Node(u, l)
  BY DEF SamePlaces, InLine
<1>3. \A h \in HNodes, n \in QNodes :
        InUse(h, n)' <=> InUse(h, n) \/ (h = g /\ n = i)
  <2>1. ASSUME NEW h \in HNodes, NEW n \in QNodes, InUse(h, n)' PROVE
        InUse(h, n) \/ (h = g /\ n = i)
    <3>1. PICK u \in Threads, l \in 1..Levels :
            InLine(u, l)' /\ Path[u][l] = h /\ Node(u, l)' = n
      BY <2>1 DEF InUse
    <3>2. CASE u = t /\ ~ InLine(u, l)
      BY <3>1, <3>2
    <3>3. CASE InLine(u, l)
      BY <1>2, <3>1, <3>3 DEF InUse
    <3> QED
      BY <1>2, <3>1, <3>2, <3>3
  <2>2. ASSUME NEW h \in HNodes, NEW n \in QNodes, InUse(h, n) PROVE InUse(h, n)'
    <3>1. PICK u \in Threads, l \in 1..Levels :
            InLine(u, l) /\ Path[u][l] = h /\ Node(u, l) = n
      BY <2>2 DEF InUse
    <3>2. InLine(u, l)' /\ Node(u, l)' = n
      BY <1>2, <3>1
    <3> QED
      BY <3>1, <3>2 DEF InUse
  <2>3. InUse(g, i)'
    <3>1. InLine(t, k)' /\ Path[t][k] = g /\ Node(t, k)' = i
      OBVIOUS
    <3> QED
      BY <3>1 DEF InUse
  <2> QED
    BY <2>1, <2>2, <2>3
<1>4. \A h \in HNodes : lock'[h] = IF h = g THEN i ELSE lock[h]
  BY <1>1 DEF TypeOK
<1>5. \A h \in HNodes, n \in QNodes : InUse(h, n) => n # i
  OBVIOUS
<1>6. \A u \in Threads, h \in HNodes : \A n \in QNodes \cup {NULL} : u # t =>
        /\ Linking(u, h, n)' <=> Linking(u, h, n)
        /\ Spins(u, h, n)' <=> Spins(u, h, n)
  BY DEF SameLinks
<1> HIDE DEF g
<1>7. HoldersOK'
  <2>1. lock[g] = NULL =>
          \A u \in Threads, l \in 1..Levels : Holds(u, l) => Path[u][l] # g
    BY <1>1 DEF IInv, TailOK
  <2>2. \A u, v \in Threads : \A l \in 1..Levels :
          Holds(u, l) /\ Holds(v, l) /\ Path[u][l] = Path[v][l] => u = v
    BY DEF IInv, HoldersOK
  <2> QED
    BY <1>2, <2>1, <2>2 DEF HoldersOK, g
<1>8. LinksOK'
  <2>1. \A h \in HNodes, m, n \in QNodes :
          InUse(h, m)' /\ next[m] = n => \E u \in Threads : Spins(u, h, n)'
    <3>1. \A h \in HNodes, m, n \in QNodes :
            InUse(h, m) /\ next[m] = n => \E u \in Threads : Spins(u, h, n)
      BY DEF IInv, LinksOK
    <3> QED
      BY <1>1, <1>3, <1>6, <3>1
  <2>2. \A h, j \in HNodes, l, m, n \in QNodes :
          InUse(h, l)' /\ InUse(j, m)' /\ next[l] = n /\ next[m] = n => l = m
    <3>1. \A h, j \in HNodes, l, m, n \in QNodes :
            InUse(h, l) /\ InUse(j, m) /\ next[l] = n /\ next[m] = n => l = m
      BY DEF IInv, LinksOK
    <3> QED
      BY <1>1, <1>3, <3>1
  <2>3. \A u \in Threads, h \in HNodes : \A n \in QNodes \cup {NULL} :
          Linking(u, h, n) =>
            n \in QNodes /\ InUse(h, n) /\ next[n] = NULL /\ lock[h] # n
    BY DEF IInv, LinksOK
  <2>4. lock[g] # NULL =>
          lock[g] \in QNodes /\ InUse(g, lock[g]) /\ next[lock[g]] = NULL
    BY <1>1 DEF IInv, TypeOK, TailOK
  <2>5. \A u \in Threads, h \in HNodes : \A n \in QNodes \cup {NULL} :
          Linking(u, h, n)' =>
            n \in QNodes /\ InUse(h, n)' /\ next[n] = NULL /\ lock'[h] # n
    <3>1. ASSUME NEW u \in Threads, NEW h \in HNodes, NEW n \in QNodes \cup {NULL},
                 Linking(u, h, n)'
          PROVE  n \in QNodes /\ InUse(h, n) /\ next[n] = NULL
                 /\ (h # g => lock[h] # n)
      <4>1. CASE u = t
        BY <2>4, <3>1, <4>1 DEF g
      <4>2. CASE u # t
        BY <1>6, <2>3, <3>1, <4>2
      <4> QED
        BY <4>1, <4>2
    <3> QED
      BY <1>3, <1>4, <1>5, <3>1
  <2>6. \A u, v \in Threads, h, j \in HNodes, n \in QNodes :
          Linking(u, h, n)' /\ Linking(v, j, n)' => u = v
    <3>1. \A u, v \in Threads, h, j \in HNodes, n \in QNodes :
            Linking(u, h, n) /\ Linking(v, j, n) => u = v
      BY DEF IInv, LinksOK
    <3>2. ASSUME NEW u \in Threads, NEW h \in HNodes, NEW j \in HNodes,
                 NEW n \in QNodes, u # t, Linking(u, h, n), Linking(t, j, n)'
          PROVE  FALSE
      <4>1. j = g /\ n = lock[g] /\ n # NULL
        BY <1>1, <3>2 DEF g
      <4>2. InUse(g, n) /\ InUse(h, n) /\ lock[h] # n
        BY <2>3, <2>4, <3>2, <4>1
      <4>3. h = g
        BY <4>2, OneQueue DEF IInv
      <4> QED
        BY <4>1, <4>2, <4>3
    <3> QED
      BY <1>6, <3>1, <3>2
  <2> QED
    BY <2>1, <2>2, <2>5, <2>6 DEF LinksOK
<1>9. TailOK'
  <2>1. \A h \in HNodes, n \in QNodes :
          lock'[h] = n => InUse(h, n)' /\ next[n] = NULL
    <3>1. \A h \in HNodes, n \in QNodes :
            lock[h] = n => InUse(h, n) /\ next[n] = NULL
      BY DEF IInv, TailOK
    <3> QED
      BY <1>1, <1>3, <1>4, <3>1
  <2>2. \A h \in HNodes : lock'[h] = NULL =>
          \A u \in Threads, l \in 1..Levels : Holds(u, l)' => Path[u][l] # h
    <3>1. \A h \in HNodes : lock[h] = NULL =>
            \A u \in Threads, l \in 1..Levels : Holds(u, l) => Path[u][l] # h
      BY DEF IInv, TailOK
    <3>2. \A u \in Threads, l \in 1..Levels :
            Holds(u, l)' => Holds(u, l) \/ Path[u][l] = g
      BY <1>2 DEF g
    <3> QED
      BY <1>1, <1>4, <3>1, <3>2
  <2> QED
    BY <2>1, <2>2 DEF TailOK
<1> QED
  BY <1>7, <1>8, <1>9

(* What is only prepared is in no queue. *)
LEMMA Prepared ==
  ASSUME IInv, NEW t \in Threads, Prepares(t, level[t])
  PROVE  /\ ~ InLine(t, level[t]) /\ Uses(t, level[t])
         /\ \A h \in HNodes : ~ InUse(h, I(t))
         /\ \A h \in HNodes, n \in QNodes : ~ Spins(t, h, n)
<1>1. level[t] \in 1..Levels /\ I(t) = Node(t, level[t]) /\ TypeOK
  BY Here DEF IInv
<1>2. ~ InLine(t, level[t]) /\ Uses(t, level[t])
  BY <1>1 DEF Uses, Prepares, InLine, Holds, Waits, Releasing
<1>3. ASSUME NEW h \in HNodes, InUse(h, I(t)) PROVE FALSE
  <2>1. PICK u \in Threads, l \in 1..Levels : InLine(u, l) /\ Node(u, l) = I(t)
    BY <1>3 DEF InUse
  <2>2. u = t /\ l = level[t]
    BY <1>1, <1>2, <2>1, Unique DEF IInv, Uses
  <2> QED
    BY <1>2, <2>1, <2>2
<1>4. \A h \in HNodes, n \in QNodes : ~ Spins(t, h, n)
  BY DEF Prepares, Spins
<1> QED
  BY <1>2, <1>3, <1>4

LEMMA AcqSwapInv == ASSUME IInv, NEW t \in Threads, AcqSwap(t) PROVE IInv'
<1>1. PICK k \in 1..Levels, i \in QNodes : k = level[t] /\ i = Node(t, k)
  BY Here DEF IInv
<1> DEFINE g == Path[t][k]
<1>2. /\ TypeOK /\ PlaceOK(t) /\ CountOK(t) /\ pc[t] = "a_swap"
      /\ level[t] = k /\ I(t) = i /\ L(t) = g /\ g \in HNodes
      /\ Levels \in Nat
  BY <1>1, Here, Places DEF IInv, AcqSwap
<1>3. /\ fast[t] => k = 1
      /\ answer[t] # "waiters" /\ status[i] = WAIT /\ next[i] = NULL
  BY <1>2 DEF PlaceOK
<1>4. Prepares(t, level[t])
  BY <1>2 DEF Prepares
<1>5. /\ lock' = [lock EXCEPT ![g] = i] /\ pred' = [pred EXCEPT ![t] = lock[g]]
      /\ next' = next /\ status' = status /\ fast' = fast /\ level' = level
      /\ answer' = answer /\ run' \in {1, run}
  BY <1>2 DEF AcqSwap
<1>6. /\ pred'[t] = lock[g]
      /\ \E p \in {"a_link", "cs", "a_start"} : pc' = [pc EXCEPT ![t] = p]
      /\ \/ lock[g] # NULL /\ pc'[t] = "a_link"
         \/ lock[g] = NULL /\ k = 1 /\ pc'[t] = "cs"
         \/ lock[g] = NULL /\ k > 1 /\ pc'[t] = "a_start"
  <2>1. pred'[t] = lock[g]
    BY <1>2, <1>5 DEF TypeOK
  <2>2. pc' = [pc EXCEPT ![t] = IF lock[g] # NULL THEN "a_link"
                                ELSE IF k = 1 THEN "cs" ELSE "a_start"]
    BY <1>2, <2>1 DEF AcqSwap, Goto
  <2>3. pc'[t] = IF lock[g] # NULL THEN "a_link"
                 ELSE IF k = 1 THEN "cs" ELSE "a_start"
    BY <2>2 DEF IInv, TypeOK
  <2>4. \E p \in {"a_link", "cs", "a_start"} : pc' = [pc EXCEPT ![t] = p]
    BY <2>2
  <2>5. k = 1 \/ k > 1
    BY <1>1, <1>2
  <2>6. \/ lock[g] # NULL /\ pc'[t] = "a_link"
        \/ lock[g] = NULL /\ k = 1 /\ pc'[t] = "cs"
        \/ lock[g] = NULL /\ k > 1 /\ pc'[t] = "a_start"
    BY <2>3, <2>5
  <2> HIDE DEF g
  <2> QED
    BY <2>1, <2>4, <2>6
<1> HIDE DEF g
<1>7. TypeOK'
  <2>1. /\ lock' \in [HNodes -> QNodes \cup {NULL}]
        /\ pred' \in [Threads -> QNodes \cup {NULL}]
    BY <1>2, <1>5 DEF TypeOK
  <2>2. pc' \in [Threads -> {"idle", "a_look", "t_look", "t_reuse", "t_cas",
               "a_reuse", "a_swap", "a_link", "a_spin", "a_start", "cs",
               "n_next", "r_test", "r_next", "r_pass", "m_next", "m_cas",
               "m_wait", "m_store"}]
    BY <1>2, <1>6 DEF TypeOK
  <2> QED
    BY <1>2, <1>5, <2>1, <2>2 DEF TypeOK
<1>8. Alone(t)
  BY <1>2, <1>5, <1>6 DEF TypeOK, Alone
<1>9. \A l \in 1..Levels : Node(t, l)' = Node(t, l)
  BY <1>5 DEF Node
<1>10. I(t)' = i /\ L(t)' = g
  BY <1>2, <1>5 DEF I, L
<1>11. ~ InLine(t, k) /\ level'[t] = k
  BY <1>2, <1>4, <1>5, Prepared
<1>12. \A l \in 1..Levels :
         Holds(t, l)' <=> Holds(t, l) \/ (l = k /\ lock[g] = NULL)
  BY <1>2, <1>3, <1>5, <1>6, <1>11 DEF Holds, Releasing
<1>13. \A l \in 1..Levels : InLine(t, l)' <=> InLine(t, l) \/ l = k
  BY <1>2, <1>6, <1>11, <1>12 DEF InLine, Waits
<1>14. \A h \in HNodes : \A n \in QNodes \cup {NULL} :
         Linking(t, h, n)' => h = g /\ n = lock[h] /\ n # NULL
  BY <1>6, <1>10 DEF Linking
<1>15. HoldersOK' /\ LinksOK' /\ TailOK'
  <2>1. \A h \in HNodes : ~ InUse(h, i)
    BY <1>2, <1>4, Prepared
  <2>2. \A h \in HNodes, n \in QNodes : ~ Spins(t, h, n)
    BY <1>4, Prepared
  <2>3. \A u \in Threads : u # t => SamePlaces(u) /\ SameLinks(u)
    BY <1>8, Others
  <2>4. \A l \in 1..Levels : InLine(t, l) => Node(t, l)' = Node(t, l)
    BY <1>9
  <2>5. Node(t, k)' = i
    BY <1>1, <1>9
  <2>6. next[i] = NULL /\ next' = next /\ lock' = [lock EXCEPT ![Path[t][k]] = i]
    BY <1>3, <1>5 DEF g
  <2>7. \A l \in 1..Levels :
          Holds(t, l)' <=> Holds(t, l) \/ (l = k /\ lock[Path[t][k]] = NULL)
    BY <1>12 DEF g
  <2>8. \A h \in HNodes : \A n \in QNodes \cup {NULL} :
          Linking(t, h, n)' => h = Path[t][k] /\ n = lock[h] /\ n # NULL
    BY <1>14 DEF g
  <2> QED
    BY <1>13, <2>1, <2>2, <2>3, <2>4, <2>5, <2>6, <2>7, <2>8, Join
<1>16. PlaceOK(t)'
  BY <1>2, <1>3, <1>5, <1>6, <1>10, <1>11 DEF PlaceOK, Releasing, WAIT
<1>17. CountOK(t)'
  <2>1. ASSUME NEW l \in 2..Levels, Holds(t, l)'
        PROVE  (l = k /\ pc'[t] = "a_start") \/ status[Node(t, l)] \in 1..Threshold
    <3>1. l \in 1..Levels
      BY <1>2
    <3>2. CASE l = k
      BY <1>6, <1>11, <1>12, <2>1, <3>1, <3>2 DEF InLine
    <3>3. CASE l # k
      BY <1>2, <1>12, <2>1, <3>1, <3>3 DEF CountOK, Releasing
    <3> QED
      BY <3>2, <3>3
  <2> QED
    BY <1>2, <1>5, <1>9, <1>11, <2>1 DEF CountOK
<1> QED
  BY <1>7, <1>8, <1>15, <1>16, <1>17, Others DEF IInv

(* A compare-and-swap that succeeds. *)
LEMMA TryTakesInv ==
  ASSUME IInv, NEW t \in Threads, TryCAS(t), lock[Path[t][1]] = NULL
  PROVE  IInv'
<1> DEFINE g == Path[t][1]
<1>1. /\ TypeOK /\ PlaceOK(t) /\ CountOK(t) /\ pc[t] = "t_cas"
      /\ t \in QNodes /\ Levels \in Nat \ {0} /\ 1 \in 1..Levels /\ g \in HNodes
      /\ level[t] \in 1..Levels
  BY Places, HMCSAssumption DEF IInv, TryCAS, QNodes
<1>2. ~ fast[t] /\ level[t] = Levels /\ answer[t] # "waiters" /\ I(t) = t
  BY <1>1 DEF PlaceOK, I
<1>3. next[t] = NULL
  BY <1>1, <1>2 DEF PlaceOK
<1>4. Prepares(t, level[t])
  BY <1>1 DEF Prepares
<1>5. /\ lock' = [lock EXCEPT ![g] = t] /\ next' = next /\ status' = status
      /\ fast' = [fast EXCEPT ![t] = TRUE] /\ level' = [level EXCEPT ![t] = 1]
      /\ pc' = [pc EXCEPT ![t] = "cs"] /\ run' = 1
      /\ pred' = pred /\ answer' = answer
  BY DEF TryCAS, Goto, SetLevel
<1> HIDE DEF g
<1>6. TypeOK'
  BY <1>1, <1>5 DEF TypeOK
<1>7. pc'[t] = "cs" /\ fast'[t] /\ level'[t] = 1
  BY <1>1, <1>5 DEF TypeOK
<1>8. Alone(t)
  BY <1>1, <1>5 DEF TypeOK, Alone
<1>9. \A l \in 1..Levels : ~ InLine(t, l) /\ ~ Holds(t, l)
  BY <1>1 DEF InLine, Holds, Waits, Releasing
<1>10. \A l \in 1..Levels :
         (Holds(t, l)' <=> l = 1) /\ (InLine(t, l)' <=> l = 1)
  BY <1>1, <1>7 DEF InLine, Holds, Waits
<1>11. HoldersOK' /\ LinksOK' /\ TailOK'
  <2>1. \A h \in HNodes : ~ InUse(h, t)
    BY <1>2, <1>4, Prepared
  <2>2. \A h \in HNodes, n \in QNodes : ~ Spins(t, h, n)
    BY <1>4, Prepared
  <2>3. \A u \in Threads : u # t => SamePlaces(u) /\ SameLinks(u)
    BY <1>8, Others
  <2>4. \A l \in 1..Levels : InLine(t, l) => Node(t, l)' = Node(t, l)
    BY <1>9
  <2>5. Node(t, 1)' = t
    BY <1>7 DEF Node
  <2>6. lock' = [lock EXCEPT ![Path[t][1]] = t]
    BY <1>5 DEF g
  <2>7. \A l \in 1..Levels : InLine(t, l)' <=> InLine(t, l) \/ l = 1
    BY <1>9, <1>10
  <2>8. \A l \in 1..Levels :
          Holds(t, l)' <=> Holds(t, l) \/ (l = 1 /\ lock[Path[t][1]] = NULL)
    BY <1>9, <1>10
  <2>9. \A h \in HNodes : \A n \in QNodes \cup {NULL} :
          Linking(t, h, n)' => h = Path[t][1] /\ n = lock[h] /\ n # NULL
    BY <1>7 DEF Linking
  <2>10. next' = next
    BY <1>5
  <2> QED
    BY <1>1, <1>3, <2>1, <2>2, <2>3, <2>4, <2>5, <2>6, <2>7, <2>8, <2>9, <2>10, Join
<1>12. PlaceOK(t)'
  BY <1>2, <1>5, <1>7 DEF PlaceOK, Releasing
<1>13. CountOK(t)'
  BY <1>1, <1>10 DEF CountOK
<1> QED
  BY <1>6, <1>8, <1>11, <1>12, <1>13, Others DEF IInv
-----------------------------------------------------------------------------
(* Who joined behind another links to it. *)
LEMMA AcqLinkInv == ASSUME IInv, NEW t \in Threads, AcqLink(t) PROVE IInv'
<1>1. PICK k \in 1..Levels, i \in QNodes, g \in HNodes, p \in QNodes \cup {NULL} :
        k = level[t] /\ i = I(t) /\ g = L(t) /\ p = pred[t]
  BY Here DEF IInv, TypeOK
<1>2. /\ TypeOK /\ PlaceOK(t) /\ CountOK(t) /\ pc[t] = "a_link" /\ Levels \in Nat
      /\ I(t) = Node(t, level[t]) /\ NULL \notin QNodes
  BY Here, HMCSAssumption DEF IInv, AcqLink, At, QNodes
<1>3. (fast[t] => k = 1) /\ answer[t] # "waiters" /\ status[i] = WAIT
  BY <1>1, <1>2 DEF PlaceOK
<1>4. Linking(t, g, p) /\ p \in QNodes /\ InUse(g, p) /\ next[p] = NULL /\ lock[g] # p
  <2>1. Linking(t, g, p)
    BY <1>1, <1>2 DEF Linking
  <2> QED
    BY <2>1 DEF IInv, LinksOK
<1>5. /\ next' = [next EXCEPT ![p] = i] /\ pred' = [pred EXCEPT ![t] = NULL]
      /\ pc' = [pc EXCEPT ![t] = "a_spin"] /\ lock' = lock
      /\ status' = status /\ fast' = fast /\ level' = level
      /\ answer' = answer /\ run' = run
  BY <1>1 DEF AcqLink, At, Goto
<1>6. TypeOK'
  BY <1>1, <1>2, <1>4, <1>5 DEF TypeOK
<1>7. /\ pc'[t] = "a_spin" /\ I(t)' = i /\ L(t)' = g
      /\ \A l \in 1..Levels : Node(t, l)' = Node(t, l)
      /\ \A n \in QNodes : next'[n] = IF n = p THEN i ELSE next[n]
  BY <1>1, <1>2, <1>4, <1>5 DEF TypeOK, I, L, Node
<1>8. SamePlaces(t)
  BY <1>1, <1>2, <1>3, <1>5, <1>7 DEF SamePlaces, Holds, Waits, Releasing
<1>9. PlaceOK(t)'
  BY <1>1, <1>3, <1>5, <1>7 DEF PlaceOK, Releasing
<1>10. CountOK(t)'
  <2>1. \A l \in 2..Levels : Holds(t, l)' => status[Node(t, l)] \in 1..Threshold
    BY <1>2, <1>8 DEF SamePlaces, CountOK, Releasing
  <2> QED
    BY <1>2, <1>5, <1>7, <2>1 DEF CountOK
<1>11. PICK w \in Threads, j \in 1..Levels : InLine(w, j) /\ Node(w, j) = p
  BY <1>4 DEF InUse
<1>12. ASSUME NEW u \in Threads, u # t
       PROVE  PlaceOK(u)' /\ CountOK(u)' /\ SamePlaces(u) /\ SameLinks(u)
  <2>1. /\ pc'[u] = pc[u] /\ level'[u] = level[u] /\ fast'[u] = fast[u]
        /\ answer'[u] = answer[u] /\ pred'[u] = pred[u]
    BY <1>2, <1>5, <1>12 DEF TypeOK
  <2>2. ASSUME NEW l \in 1..Levels, Uses(u, l)
        PROVE  /\ status'[Node(u, l)] = status[Node(u, l)]
               /\ \/ next'[Node(u, l)] = next[Node(u, l)]
                  \/ InLine(u, l) /\ next'[Node(u, l)] # NULL
    <3>1. CASE Node(u, l) = p
      <4>1. w = u /\ j = l
        BY <1>2, <1>11, <2>2, <3>1, Unique DEF IInv, Uses
      <4> QED
        BY <1>1, <1>2, <1>4, <1>5, <1>7, <1>11, <3>1, <4>1
    <3>2. CASE Node(u, l) # p
      BY <1>2, <1>5, <1>7, <3>2, Places
    <3> QED
      BY <3>1, <3>2
  <2> QED
    BY <1>2, <2>1, <2>2, Frame DEF IInv
<1>13. \A u \in Threads, l \in 1..Levels :
         /\ Holds(u, l)' <=> Holds(u, l)
         /\ InLine(u, l)' <=> InLine(u, l)
         /\ InLine(u, l) => Node(u, l)' = Node(u, l)
  BY <1>8, <1>12 DEF SamePlaces, InLine
<1>14. \A h \in HNodes, n \in QNodes : InUse(h, n)' <=> InUse(h, n)
  BY <1>13 DEF InUse
<1>15. \A h \in HNodes : InUse(h, p) => h = g
  BY <1>2, <1>4, OneQueue DEF IInv
<1>16. HoldersOK'
  BY <1>13 DEF IInv, HoldersOK
<1>17. \A u \in Threads, h \in HNodes : \A n \in QNodes \cup {NULL} :
         /\ u # t => (Linking(u, h, n)' <=> Linking(u, h, n))
         /\ u # t => (Spins(u, h, n)' <=> Spins(u, h, n))
         /\ ~ Linking(t, h, n)' /\ ~ Spins(t, h, n)
  BY <1>2, <1>7, <1>12 DEF SameLinks, Linking, Spins
<1>18. Spins(t, g, i)'
  BY <1>3, <1>5, <1>7 DEF Spins, WAIT
<1>19. LinksOK'
  <2>1. \A h \in HNodes, m, n \in QNodes :
          InUse(h, m) /\ next[m] = n => \E u \in Threads : Spins(u, h, n)
    BY DEF IInv, LinksOK
  <2>2. \A h \in HNodes, m \in QNodes : ~ (InUse(h, m) /\ next[m] = i)
    <3>1. SUFFICES ASSUME NEW h \in HNodes, NEW m \in QNodes, InUse(h, m), next[m] = i
                   PROVE  FALSE
      OBVIOUS
    <3>2. PICK u \in Threads : Spins(u, h, i)
      BY <2>1, <3>1
    <3>3. u # t /\ I(u) = i /\ Queueing(u) /\ Queueing(t)
      BY <1>2, <3>2 DEF Spins, Queueing
    <3>4. Uses(u, level[u]) /\ Uses(t, level[t])
      BY <3>3, AtLevel DEF IInv
    <3>5. Node(u, level[u]) = Node(t, level[t]) /\ level[u] \in 1..Levels
          /\ level[t] \in 1..Levels
      BY <1>1, <1>2, <3>3, Here
    <3> QED
      BY <1>2, <3>3, <3>4, <3>5, Unique DEF IInv
  <2>3. \A h \in HNodes, m, n \in QNodes :
          InUse(h, m)' /\ next'[m] = n => \E u \in Threads : Spins(u, h, n)'
    <3>1. ASSUME NEW h \in HNodes, NEW m \in QNodes, NEW n \in QNodes,
                 InUse(h, m), next'[m] = n
          PROVE  \E u \in Threads : Spins(u, h, n)'
      <4>1. CASE m = p
        BY <1>7, <1>15, <1>18, <3>1, <4>1
      <4>2. CASE m # p
        BY <1>7, <1>17, <2>1, <3>1, <4>2
      <4> QED
        BY <4>1, <4>2
    <3> QED
      BY <1>14, <3>1
  <2>4. \A h, q \in HNodes, l, m, n \in QNodes :
          InUse(h, l)' /\ InUse(q, m)' /\ next'[l] = n /\ next'[m] = n => l = m
    <3>1. \A h, q \in HNodes, l, m, n \in QNodes :
            InUse(h, l) /\ InUse(q, m) /\ next[l] = n /\ next[m] = n => l = m
      BY DEF IInv, LinksOK
    <3> QED
      BY <1>7, <1>14, <2>2, <3>1
  <2>5. \A u, v \in Threads, h, q \in HNodes, n \in QNodes :
          Linking(u, h, n) /\ Linking(v, q, n) => u = v
    BY DEF IInv, LinksOK
  <2>6. \A u \in Threads, h \in HNodes : \A n \in QNodes \cup {NULL} :
          Linking(u, h, n)' =>
            n \in QNodes /\ InUse(h, n)' /\ next'[n] = NULL /\ lock'[h] # n
    <3>1. \A u \in Threads, h \in HNodes : \A n \in QNodes \cup {NULL} :
            Linking(u, h, n) =>
              n \in QNodes /\ InUse(h, n) /\ next[n] = NULL /\ lock[h] # n
      BY DEF IInv, LinksOK
    <3> QED
      BY <1>4, <1>5, <1>7, <1>14, <1>17, <2>5, <3>1
  <2>7. \A u, v \in Threads, h, q \in HNodes, n \in QNodes :
          Linking(u, h, n)' /\ Linking(v, q, n)' => u = v
    BY <1>17, <2>5
  <2> QED
    BY <2>3, <2>4, <2>6, <2>7 DEF LinksOK
<1>20. TailOK'
  <2>1. \A h \in HNodes, n \in QNodes :
          lock[h] = n => InUse(h, n) /\ next[n] = NULL
    BY DEF IInv, TailOK
  <2>2. \A h \in HNodes : lock[h] # p
    BY <1>4, <1>15, <2>1
  <2>3. \A h \in HNodes, n \in QNodes :
          lock'[h] = n => InUse(h, n)' /\ next'[n] = NULL
    BY <1>5, <1>7, <1>14, <2>1, <2>2
  <2>4. \A h \in HNodes : lock'[h] = NULL =>
          \A u \in Threads, l \in 1..Levels : Holds(u, l)' => Path[u][l] # h
    BY <1>5, <1>13 DEF IInv, TailOK
  <2> QED
    BY <2>3, <2>4 DEF TailOK
<1> QED
  BY <1>6, <1>9, <1>10, <1>12, <1>16, <1>19, <1>20 DEF IInv
-----------------------------------------------------------------------------
(* The end of a release at one level, for the thread itself: it holds what *)
(* is below that level and nothing else.                                   *)
LEMMA UnwindOwn ==
  ASSUME TypeOK, NEW t \in Threads, PlaceOK(t), NEW k \in 1..Levels, k = level[t],
         pc[t] \in {"r_pass"} \cup Releasing, Unwind(t), answer' = answer
  PROVE  /\ \A l \in 1..Levels :
              /\ Holds(t, l)' <=> Holds(t, l) /\ l > k
              /\ ~ Waits(t, l) /\ ~ Waits(t, l)'
              /\ Holds(t, l) /\ l > k => Node(t, l)' = Node(t, l)
         /\ Holds(t, k) /\ Uses(t, k) /\ InLine(t, k)
         /\ pc[t] = "r_pass" => \A l \in 1..Levels : Holds(t, l)
         /\ pc[t] # "r_pass" => \A l \in 1..Levels : Holds(t, l) => l >= k
         /\ PlaceOK(t)' /\ CountOK(t)'
         /\ pc'[t] # "a_link" /\ pc'[t] # "a_spin"
         /\ \A u \in Threads : u # t =>
              pc'[u] = pc[u] /\ level'[u] = level[u] /\ fast'[u] = fast[u]
         /\ level' \in [Threads -> 1..Levels] /\ fast' \in [Threads -> BOOLEAN]
         /\ \E p \in {"idle", "m_next"} : pc' = [pc EXCEPT ![t] = p]
<1>1. Levels \in Nat \ {0} /\ Levels \in 1..Levels
  BY Here
<1>2. /\ fast[t] => k = 1
      /\ pc[t] = "r_pass" => ~ fast[t]
      /\ answer[t] # "waiters"
  BY DEF PlaceOK, Releasing
<1>3. \/ /\ fast[t] \/ k = Levels
         /\ pc' = [pc EXCEPT ![t] = "idle"] /\ level' = [level EXCEPT ![t] = Levels]
         /\ fast' = [fast EXCEPT ![t] = FALSE]
      \/ /\ ~ fast[t] /\ k < Levels
         /\ pc' = [pc EXCEPT ![t] = "m_next"] /\ level' = [level EXCEPT ![t] = k + 1]
         /\ fast' = fast
  BY DEF Unwind, Goto, SetLevel
<1>4. \/ /\ fast[t] \/ k = Levels
         /\ pc'[t] = "idle" /\ level'[t] = Levels /\ ~ fast'[t]
      \/ /\ ~ fast[t] /\ k < Levels
         /\ pc'[t] = "m_next" /\ level'[t] = k + 1 /\ fast'[t] = fast[t]
  BY <1>3 DEF TypeOK
<1>5. \A l \in 1..Levels : Holds(t, l)' <=> Holds(t, l) /\ l > k
  BY <1>1, <1>2, <1>4 DEF Holds, Releasing
<1>6. \A l \in 1..Levels : ~ Waits(t, l) /\ ~ Waits(t, l)'
  BY <1>4 DEF Waits, Releasing
<1>7. \A l \in 1..Levels : Holds(t, l) /\ l > k => Node(t, l)' = Node(t, l)
  BY <1>1, <1>2, <1>4 DEF Holds, Node
<1>8. Holds(t, k) /\ Uses(t, k) /\ InLine(t, k)
  BY <1>1, <1>2 DEF Holds, Releasing, Uses, InLine
<1>9. /\ pc[t] = "r_pass" => \A l \in 1..Levels : Holds(t, l)
      /\ pc[t] # "r_pass" => \A l \in 1..Levels : Holds(t, l) => l >= k
  BY <1>2 DEF Holds, Releasing
<1>10. PlaceOK(t)'
  BY <1>1, <1>2, <1>4 DEF PlaceOK, Releasing
<1>11. CountOK(t)'
  <2>1. \A l \in 2..Levels : Holds(t, l)' => pc'[t] = "m_next"
    BY <1>1, <1>4 DEF Holds, Releasing
  <2> QED
    BY <2>1 DEF CountOK, Releasing
<1>12. \A u \in Threads : u # t =>
         pc'[u] = pc[u] /\ level'[u] = level[u] /\ fast'[u] = fast[u]
  BY <1>3 DEF TypeOK
<1>13. level' \in [Threads -> 1..Levels] /\ fast' \in [Threads -> BOOLEAN]
  <2>1. k < Levels => k + 1 \in 1..Levels
    BY <1>1
  <2>2. \E j \in 1..Levels : level' = [level EXCEPT ![t] = j]
    BY <1>1, <1>3, <2>1
  <2>3. level' \in [Threads -> 1..Levels]
    BY <2>2 DEF TypeOK
  <2>4. fast' = fast \/ fast' = [fast EXCEPT ![t] = FALSE]
    BY <1>3
  <2> QED
    BY <2>3, <2>4 DEF TypeOK
<1>14. \E p \in {"idle", "m_next"} : pc' = [pc EXCEPT ![t] = p]
  BY <1>3
<1>15. pc'[t] # "a_link" /\ pc'[t] # "a_spin"
  BY <1>4
<1> QED
  BY <1>5, <1>6, <1>7, <1>8, <1>9, <1>10, <1>11, <1>12, <1>13, <1>14, <1>15

(* A thread leaves the queue of an hnode that nobody else is behind it in. *)
LEMMA MCASLeavesInv ==
  ASSUME IInv, NEW t \in Threads, MCAS(t), lock[L(t)] = I(t)
  PROVE  IInv'
<1>1. PICK k \in 1..Levels, i \in QNodes, g \in HNodes :
        k = level[t] /\ i = I(t) /\ g = L(t)
  BY Here DEF IInv
<1>2. /\ TypeOK /\ PlaceOK(t) /\ pc[t] = "m_cas" /\ NULL \notin QNodes
      /\ i = Node(t, k) /\ g = Path[t][k]
  BY <1>1, Here, HMCSAssumption DEF IInv, MCAS, QNodes
<1>3. /\ lock' = [lock EXCEPT ![g] = NULL] /\ Unwind(t)
      /\ status' = [status EXCEPT ![i] = ACQUIRE_PARENT]
      /\ next' = [next EXCEPT ![i] = i]
      /\ pred' = pred /\ answer' = answer /\ run' = run
  BY <1>1 DEF MCAS, Forget
<1> DEFINE own ==
      /\ \A l \in 1..Levels :
           /\ Holds(t, l)' <=> Holds(t, l) /\ l > k
           /\ ~ Waits(t, l) /\ ~ Waits(t, l)'
           /\ Holds(t, l) /\ l > k => Node(t, l)' = Node(t, l)
      /\ Holds(t, k) /\ Uses(t, k) /\ InLine(t, k)
      /\ \A l \in 1..Levels : Holds(t, l) => l >= k
      /\ PlaceOK(t)' /\ CountOK(t)'
      /\ pc'[t] # "a_link" /\ pc'[t] # "a_spin"
      /\ \A u \in Threads : u # t =>
           pc'[u] = pc[u] /\ level'[u] = level[u] /\ fast'[u] = fast[u]
      /\ level' \in [Threads -> 1..Levels] /\ fast' \in [Threads -> BOOLEAN]
      /\ \E p \in {"idle", "m_next"} : pc' = [pc EXCEPT ![t] = p]
<1>4. own
  <2>1. pc[t] \in {"r_pass"} \cup Releasing /\ pc[t] # "r_pass"
    BY <1>2 DEF Releasing
  <2> QED
    BY <1>1, <1>2, <1>3, <2>1, UnwindOwn
<1>5. TypeOK'
  BY <1>2, <1>3, <1>4 DEF TypeOK
<1>6. Alone(t)
  BY <1>1, <1>2, <1>3, <1>4 DEF Alone, TypeOK
<1>7. \A u \in Threads : u # t =>
        PlaceOK(u)' /\ CountOK(u)' /\ SamePlaces(u) /\ SameLinks(u)
  BY <1>6, Others
<1>8. \A u \in Threads, l \in 1..Levels :
        /\ Holds(u, l)' => Holds(u, l)
        /\ InLine(u, l)' <=> InLine(u, l) /\ ~ (u = t /\ l = k)
        /\ InLine(u, l)' => Node(u, l)' = Node(u, l)
  <2>1. ASSUME NEW u \in Threads, NEW l \in 1..Levels, u = t
        PROVE  /\ Holds(u, l)' => Holds(u, l)
               /\ InLine(u, l)' <=> InLine(u, l) /\ ~ (u = t /\ l = k)
               /\ InLine(u, l)' => Node(u, l)' = Node(u, l)
    <3>1. Holds(t, l) /\ l # k => l > k
      <4>1. l \in Int /\ k \in Int
        BY Here DEF IInv
      <4>2. Holds(t, l) => l >= k
        BY <1>4
      <4> QED
        BY <4>1, <4>2
    <3> QED
      BY <1>4, <2>1, <3>1 DEF InLine
  <2>2. ASSUME NEW u \in Threads, NEW l \in 1..Levels, u # t
        PROVE  /\ Holds(u, l)' => Holds(u, l)
               /\ InLine(u, l)' <=> InLine(u, l) /\ ~ (u = t /\ l = k)
               /\ InLine(u, l)' => Node(u, l)' = Node(u, l)
    BY <1>7, <2>2 DEF SamePlaces, InLine
  <2> QED
    BY <2>1, <2>2
<1>9. \A u \in Threads, l \in 1..Levels :
        InLine(u, l) /\ ~ (u = t /\ l = k) => Node(u, l) # i
  BY <1>2, <1>4, Unique DEF IInv, Uses
<1>10. InUse(g, i)
  BY <1>2, <1>4 DEF InUse
<1>11. \A h \in HNodes, n \in QNodes : InUse(h, n)' <=> InUse(h, n) /\ n # i
  <2>1. ASSUME NEW h \in HNodes, NEW n \in QNodes, InUse(h, n)'
        PROVE  InUse(h, n) /\ n # i
    <3>1. PICK u \in Threads, l \in 1..Levels :
            InLine(u, l)' /\ Path[u][l] = h /\ Node(u, l)' = n
      BY <2>1 DEF InUse
    <3>2. InLine(u, l) /\ Node(u, l) = n /\ n # i
      BY <1>8, <1>9, <3>1
    <3> QED
      BY <3>1, <3>2 DEF InUse
  <2>2. ASSUME NEW h \in HNodes, NEW n \in QNodes, InUse(h, n), n # i
        PROVE  InUse(h, n)'
    <3>1. PICK u \in Threads, l \in 1..Levels :
            InLine(u, l) /\ Path[u][l] = h /\ Node(u, l) = n
      BY <2>2 DEF InUse
    <3>2. InLine(u, l)' /\ Node(u, l)' = n
      BY <1>2, <1>8, <2>2, <3>1
    <3> QED
      BY <3>1, <3>2 DEF InUse
  <2> QED
    BY <2>1, <2>2
<1>12. \A h \in HNodes : InUse(h, i) => h = g
  BY <1>2, <1>10, OneQueue DEF IInv
<1>13. /\ \A h \in HNodes : lock'[h] = IF h = g THEN NULL ELSE lock[h]
       /\ \A n \in QNodes : n # i => next'[n] = next[n]
  BY <1>2, <1>3 DEF TypeOK
<1>14. HoldersOK'
  BY <1>8 DEF IInv, HoldersOK
<1>15. \A u \in Threads, h \in HNodes : \A n \in QNodes \cup {NULL} :
         /\ Linking(u, h, n)' => Linking(u, h, n)
         /\ Spins(u, h, n) => Spins(u, h, n)'
  <2>1. \A u \in Threads, h \in HNodes : \A n \in QNodes \cup {NULL} : u # t =>
          /\ Linking(u, h, n)' <=> Linking(u, h, n)
          /\ Spins(u, h, n)' <=> Spins(u, h, n)
    BY <1>7 DEF SameLinks
  <2>2. \A h \in HNodes : \A n \in QNodes \cup {NULL} :
          ~ Linking(t, h, n)' /\ ~ Spins(t, h, n)
    BY <1>2, <1>4 DEF Linking, Spins
  <2> QED
    BY <2>1, <2>2
<1>16. LinksOK'
  <2>1. \A h \in HNodes, m, n \in QNodes :
          InUse(h, m)' /\ next'[m] = n => \E u \in Threads : Spins(u, h, n)'
    <3>1. \A h \in HNodes, m, n \in QNodes :
            InUse(h, m) /\ next[m] = n => \E u \in Threads : Spins(u, h, n)
      BY DEF IInv, LinksOK
    <3> QED
      BY <1>11, <1>13, <1>15, <3>1
  <2>2. \A h, q \in HNodes, l, m, n \in QNodes :
          InUse(h, l)' /\ InUse(q, m)' /\ next'[l] = n /\ next'[m] = n => l = m
    <3>1. \A h, q \in HNodes, l, m, n \in QNodes :
            InUse(h, l) /\ InUse(q, m) /\ next[l] = n /\ next[m] = n => l = m
      BY DEF IInv, LinksOK
    <3> QED
      BY <1>11, <1>13, <3>1
  <2>3. \A u \in Threads, h \in HNodes : \A n \in QNodes \cup {NULL} :
          Linking(u, h, n)' =>
            n \in QNodes /\ InUse(h, n)' /\ next'[n] = NULL /\ lock'[h] # n
    <3>1. \A u \in Threads, h \in HNodes : \A n \in QNodes \cup {NULL} :
            Linking(u, h, n) =>
              n \in QNodes /\ InUse(h, n) /\ next[n] = NULL /\ lock[h] # n
      BY DEF IInv, LinksOK
    <3>2. lock[g] = i
      BY <1>1
    <3> QED
      BY <1>2, <1>11, <1>12, <1>13, <1>15, <3>1, <3>2
  <2>4. \A u, v \in Threads, h, q \in HNodes, n \in QNodes :
          Linking(u, h, n)' /\ Linking(v, q, n)' => u = v
    BY <1>15 DEF IInv, LinksOK
  <2> QED
    BY <2>1, <2>2, <2>3, <2>4 DEF LinksOK
<1>17. TailOK'
  <2>1. \A h \in HNodes, n \in QNodes :
          lock'[h] = n => InUse(h, n)' /\ next'[n] = NULL
    <3>1. \A h \in HNodes, n \in QNodes :
            lock[h] = n => InUse(h, n) /\ next[n] = NULL
      BY DEF IInv, TailOK
    <3> QED
      BY <1>2, <1>11, <1>12, <1>13, <3>1
  <2>2. ASSUME NEW h \in HNodes, lock'[h] = NULL, NEW u \in Threads,
               NEW l \in 1..Levels, Holds(u, l)'
        PROVE  Path[u][l] # h
    <3>1. Holds(u, l) /\ ~ (u = t /\ l = k)
      BY <1>8, <2>2 DEF InLine
    <3>2. CASE h = g
      <4>1. Path[u][l] = Path[t][k] => l = k
        BY Tree
      <4>2. Holds(u, k) /\ Path[u][k] = Path[t][k] => u = t
        BY <1>4 DEF IInv, HoldersOK
      <4> QED
        BY <1>2, <3>1, <3>2, <4>1, <4>2
    <3>3. CASE h # g
      BY <1>13, <2>2, <3>1, <3>3 DEF IInv, TailOK
    <3> QED
      BY <3>2, <3>3
  <2> QED
    BY <2>1, <2>2 DEF TailOK
<1> QED
  BY <1>4, <1>5, <1>7, <1>14, <1>16, <1>17 DEF IInv

(* A thread hands what it holds at one level, and with a count what it     *)
(* holds above, to the one that waits behind it.                           *)
LEMMA GrantInv ==
  ASSUME IInv, NEW t \in Threads, NEW v, Grant(t, v),
         v \in {ACQUIRE_PARENT} \cup 1..Threshold,
         pc[t] \in {"r_pass", "m_store"},
         pc[t] = "r_pass" => v # ACQUIRE_PARENT,
         pc[t] = "m_store" => (v = ACQUIRE_PARENT \/ level[t] = 1)
  PROVE  IInv'
<1>1. PICK k \in 1..Levels, i \in QNodes, g \in HNodes, x \in QNodes \cup {NULL} :
        k = level[t] /\ i = I(t) /\ g = L(t) /\ x = next[i]
  BY Here DEF IInv, TypeOK
<1>2. /\ TypeOK /\ PlaceOK(t) /\ CountOK(t) /\ NULL \notin QNodes
      /\ i = Node(t, k) /\ g = Path[t][k] /\ Levels \in Nat
  BY <1>1, Here, HMCSAssumption DEF IInv, QNodes
<1>3. x \in QNodes
  BY <1>1, <1>2 DEF PlaceOK
<1>4. /\ status' = [status EXCEPT ![x] = v, ![i] = ACQUIRE_PARENT]
      /\ next' = [next EXCEPT ![i] = i] /\ Unwind(t)
      /\ lock' = lock /\ pred' = pred /\ answer' = answer /\ run' = run
  BY <1>1 DEF Grant
<1>5. /\ \A l \in 1..Levels :
           /\ Holds(t, l)' <=> Holds(t, l) /\ l > k
           /\ ~ Waits(t, l) /\ ~ Waits(t, l)'
           /\ Holds(t, l) /\ l > k => Node(t, l)' = Node(t, l)
      /\ Holds(t, k) /\ Uses(t, k) /\ InLine(t, k)
      /\ pc[t] = "r_pass" => \A l \in 1..Levels : Holds(t, l)
      /\ pc[t] # "r_pass" => \A l \in 1..Levels : Holds(t, l) => l >= k
      /\ PlaceOK(t)' /\ CountOK(t)'
      /\ pc'[t] # "a_link" /\ pc'[t] # "a_spin"
      /\ \A u \in Threads : u # t =>
           pc'[u] = pc[u] /\ level'[u] = level[u] /\ fast'[u] = fast[u]
      /\ level' \in [Threads -> 1..Levels] /\ fast' \in [Threads -> BOOLEAN]
      /\ \E p \in {"idle", "m_next"} : pc' = [pc EXCEPT ![t] = p]
  <2>1. pc[t] \in {"r_pass"} \cup Releasing
    BY DEF Releasing
  <2> QED
    BY <1>1, <1>2, <1>4, <2>1, UnwindOwn
<1>6. InUse(g, i)
  BY <1>2, <1>5 DEF InUse
<1>7. PICK s \in Threads : Spins(s, g, x)
  BY <1>1, <1>3, <1>6 DEF IInv, LinksOK
<1>8. /\ s # t /\ pc[s] = "a_spin" /\ status[x] = WAIT /\ level[s] = k /\ L(s) = g
      /\ Node(s, k) = x /\ I(s) = x /\ PlaceOK(s) /\ CountOK(s)
      /\ \A l \in 1..Levels : l <= k => Path[s][l] = Path[t][l]
  <2>1. /\ pc[s] = "a_spin" /\ status[x] = WAIT /\ L(s) = g /\ I(s) = x
        /\ PlaceOK(s) /\ CountOK(s)
    BY <1>7 DEF Spins, IInv
  <2>2. Path[s][level[s]] = Path[t][k] /\ level[s] \in 1..Levels
        /\ Node(s, level[s]) = x
    BY <1>2, <2>1, Here
  <2>3. level[s] = k /\ \A l \in 1..Levels : l <= k => Path[s][l] = Path[t][l]
    BY <2>2, Tree
  <2> QED
    BY <2>1, <2>2, <2>3
<1>9. fast[s] => k = 1
  BY <1>8 DEF PlaceOK
<1>10. InLine(s, k) /\ Uses(s, k) /\ Waits(s, k)
  BY <1>8 DEF InLine, Uses, Waits
<1>11. x # i
  BY <1>2, <1>5, <1>8, <1>10, Unique DEF IInv
<1>12. /\ status'[x] = v /\ status'[i] = ACQUIRE_PARENT
       /\ \A n \in QNodes : n # x /\ n # i => status'[n] = status[n]
       /\ \A n \in QNodes : n # i => next'[n] = next[n]
  BY <1>2, <1>3, <1>4, <1>11 DEF TypeOK
<1>13. TypeOK'
  <2>1. status' \in [QNodes -> {WAIT, ACQUIRE_PARENT} \cup 1..Threshold]
    BY <1>2, <1>4 DEF TypeOK
  <2> QED
    BY <1>2, <1>4, <1>5, <2>1 DEF TypeOK
<1>14. \A u \in Threads, l \in 1..Levels : Uses(u, l) =>
         /\ (u = t /\ l = k) \/ Node(u, l) # i
         /\ (u = s /\ l = k) \/ Node(u, l) # x
  BY <1>2, <1>5, <1>8, <1>10, Unique DEF IInv
<1>15. ASSUME NEW u \in Threads, u # t, u # s
       PROVE  PlaceOK(u)' /\ CountOK(u)' /\ SamePlaces(u) /\ SameLinks(u)
  <2>1. /\ pc'[u] = pc[u] /\ level'[u] = level[u] /\ fast'[u] = fast[u]
        /\ answer'[u] = answer[u] /\ pred'[u] = pred[u]
    BY <1>4, <1>5, <1>15
  <2>2. \A l \in 1..Levels : Uses(u, l) =>
          /\ status'[Node(u, l)] = status[Node(u, l)]
          /\ next'[Node(u, l)] = next[Node(u, l)]
    BY <1>2, <1>12, <1>14, <1>15, Places
  <2> QED
    BY <1>2, <2>1, <2>2, Frame DEF IInv
<1> DEFINE passed(l) == l = k \/ (v # ACQUIRE_PARENT /\ l < k)
<1>16. \A l \in 1..Levels : passed(l) =>
         Holds(t, l) /\ Path[s][l] = Path[t][l] /\ (l = 1 \/ ~ fast[s])
  BY <1>1, <1>2, <1>5, <1>8, <1>9
<1>17. \A l \in 1..Levels : passed(l) /\ l # k =>
         /\ Node(s, l) = Node(t, l) /\ Node(t, l) \in QNodes
         /\ pc[t] = "r_pass" /\ v \in 1..Threshold
  <2>1. ASSUME NEW l \in 1..Levels, passed(l), l # k
        PROVE  /\ Node(s, l) = Node(t, l) /\ Node(t, l) \in QNodes
               /\ pc[t] = "r_pass" /\ v \in 1..Threshold
    <3>1. l < k /\ k > 1 /\ v # ACQUIRE_PARENT /\ l + 1 \in 1..Levels /\ l + 1 <= k
      BY <1>2, <2>1
    <3>2. pc[t] = "r_pass" /\ v \in 1..Threshold
      BY <1>1, <3>1
    <3>3. ~ fast[t] /\ ~ fast[s] /\ l # Levels /\ Path[s][l + 1] = Path[t][l + 1]
      BY <1>2, <1>8, <1>9, <3>1, <3>2 DEF PlaceOK
    <3> QED
      BY <1>2, <3>2, <3>3, Places DEF Node
  <2> QED
    BY <2>1
<1>18. /\ pc'[s] = "a_spin" /\ level'[s] = k /\ fast'[s] = fast[s]
       /\ I(s)' = x /\ L(s)' = g
       /\ \A l \in 1..Levels : Node(s, l)' = Node(s, l)
  BY <1>5, <1>8 DEF I, L, Node
<1>19. v # WAIT /\ (v = ACQUIRE_PARENT \/ v \in 1..Threshold) /\ ACQUIRE_PARENT \notin 1..Threshold
  BY HMCSAssumption DEF WAIT, ACQUIRE_PARENT
<1>20. \A l \in 1..Levels :
         /\ Holds(s, l)' <=> Holds(s, l) \/ passed(l)
         /\ InLine(s, l)' <=> InLine(s, l) \/ passed(l)
  <2>1. ASSUME NEW l \in 1..Levels
        PROVE  /\ Holds(s, l) <=> (l = 1 \/ ~ fast[s]) /\ l > k
               /\ Waits(s, l) <=> l = k
               /\ ~ Waits(s, l)'
               /\ Holds(s, l)' <=>
                    /\ l = 1 \/ ~ fast[s]
                    /\ l > k \/ (v = ACQUIRE_PARENT => l >= k)
    <3>1. Holds(s, l) <=> (l = 1 \/ ~ fast[s]) /\ l > k
      BY <1>8 DEF Holds, Releasing
    <3>2. (Waits(s, l) <=> l = k) /\ ~ Waits(s, l)'
      BY <1>8, <1>12, <1>18, <1>19 DEF Waits, WAIT
    <3>3. Holds(s, l)' <=>
            /\ l = 1 \/ ~ fast[s]
            /\ l > k \/ (v = ACQUIRE_PARENT => l >= k)
      BY <1>12, <1>18, <1>19 DEF Holds, Releasing, WAIT, ACQUIRE_PARENT
    <3> QED
      BY <3>1, <3>2, <3>3
  <2>2. ASSUME NEW l \in 1..Levels PROVE Holds(s, l)' <=> Holds(s, l) \/ passed(l)
    <3>1. l < k \/ l = k \/ l > k
      BY <1>2
    <3> QED
      BY <1>2, <1>16, <2>1, <3>1
  <2> HIDE DEF passed
  <2>3. ASSUME NEW l \in 1..Levels PROVE InLine(s, l)' <=> InLine(s, l) \/ passed(l)
    <3>1. l = k => passed(l)
      BY DEF passed
    <3> QED
      BY <2>1, <2>2, <3>1 DEF InLine
  <2> QED
    BY <2>2, <2>3
<1> HIDE DEF passed
<1>21. passed(k) /\ \A l \in 1..Levels : l > k => ~ passed(l)
  BY <1>2 DEF passed
<1>22. PlaceOK(s)'
  BY <1>4, <1>8, <1>9, <1>18 DEF PlaceOK, Releasing
<1>23. CountOK(s)'
  <2>1. ASSUME NEW l \in 2..Levels, Holds(s, l)'
        PROVE  (l = k /\ v = ACQUIRE_PARENT) \/ status'[Node(s, l)] \in 1..Threshold
    <3>1. l \in 1..Levels /\ Node(s, l) \in QNodes
      BY <1>2, Places
    <3>2. CASE l = k
      BY <1>8, <1>12, <1>19, <3>2
    <3>3. CASE passed(l) /\ l # k
      <4>1. Holds(t, l) /\ Uses(t, l) /\ Node(s, l) = Node(t, l) /\ pc[t] = "r_pass"
        BY <1>16, <1>17, <3>1, <3>3 DEF Uses, InLine
      <4>2. status[Node(t, l)] \in 1..Threshold
        BY <1>2, <4>1 DEF CountOK, Releasing
      <4>3. Node(t, l) # i /\ Node(t, l) # x
        BY <1>8, <1>14, <3>1, <3>3, <4>1
      <4> QED
        BY <1>12, <3>1, <4>1, <4>2, <4>3
    <3>4. CASE ~ passed(l)
      <4>1. Holds(s, l) /\ Uses(s, l) /\ l # k
        BY <1>20, <1>21, <2>1, <3>1, <3>4 DEF Uses, InLine
      <4>2. status[Node(s, l)] \in 1..Threshold
        BY <1>8, <4>1 DEF CountOK, Releasing
      <4>3. Node(s, l) # i /\ Node(s, l) # x
        BY <1>8, <1>14, <3>1, <4>1
      <4> QED
        BY <1>12, <3>1, <4>2, <4>3
    <3> QED
      BY <3>2, <3>3, <3>4
  <2> QED
    BY <1>2, <1>12, <1>18, <2>1 DEF CountOK, ACQUIRE_PARENT
<1>24. \A l \in 1..Levels :
         /\ InLine(t, l) <=> Holds(t, l)
         /\ InLine(t, l)' <=> Holds(t, l) /\ l > k
         /\ Holds(t, l)' <=> Holds(t, l) /\ l > k
         /\ Holds(t, l) => l > k \/ passed(l)
  <2>1. \A l \in 1..Levels : Holds(t, l) => l > k \/ passed(l)
    <3>1. ASSUME NEW l \in 1..Levels, Holds(t, l), ~ (l > k), l # k PROVE passed(l)
      <4>1. l < k
        BY <1>2, <3>1
      <4>2. pc[t] = "r_pass"
        BY <1>2, <1>5, <3>1, <4>1
      <4> QED
        BY <4>1, <4>2 DEF passed
    <3> QED
      BY <1>21, <3>1
  <2> QED
    BY <1>5, <2>1 DEF InLine
<1>25. ASSUME NEW u \in Threads, u # t, u # s, NEW l \in 1..Levels
       PROVE  /\ Holds(u, l)' <=> Holds(u, l)
              /\ InLine(u, l)' <=> InLine(u, l)
              /\ InLine(u, l) => Node(u, l)' = Node(u, l)
  BY <1>15, <1>25 DEF SamePlaces, InLine
<1>26. \A h \in HNodes, n \in QNodes : InUse(h, n)' <=> InUse(h, n) /\ n # i
  <2>1. ASSUME NEW h \in HNodes, NEW n \in QNodes, InUse(h, n)'
        PROVE  InUse(h, n) /\ n # i
    <3>1. PICK u \in Threads, l \in 1..Levels :
            InLine(u, l)' /\ Path[u][l] = h /\ Node(u, l)' = n
      BY <2>1 DEF InUse
    <3>2. CASE u = t
      <4>1. InLine(t, l) /\ Node(t, l) = n /\ l # k
        BY <1>2, <1>5, <1>24, <3>1, <3>2
      <4> QED
        BY <1>14, <3>1, <3>2, <4>1 DEF InUse, Uses
    <3>3. CASE u = s /\ passed(l) /\ l # k
      <4>1. InLine(t, l) /\ Node(t, l) = n /\ Path[t][l] = h
        BY <1>16, <1>17, <1>18, <3>1, <3>3 DEF InLine
      <4> QED
        BY <1>14, <3>3, <4>1 DEF InUse, Uses
    <3>4. CASE u = s /\ ~ (passed(l) /\ l # k)
      <4>1. InLine(s, l) /\ Node(s, l) = n
        BY <1>10, <1>18, <1>20, <3>1, <3>4
      <4> QED
        BY <1>8, <1>14, <3>1, <3>4, <4>1 DEF InUse, Uses
    <3>5. CASE u # t /\ u # s
      <4>1. InLine(u, l) /\ Node(u, l) = n
        BY <1>25, <3>1, <3>5
      <4> QED
        BY <1>14, <3>1, <3>5, <4>1 DEF InUse, Uses
    <3> QED
      BY <3>2, <3>3, <3>4, <3>5
  <2>2. ASSUME NEW h \in HNodes, NEW n \in QNodes, InUse(h, n), n # i
        PROVE  InUse(h, n)'
    <3>1. PICK u \in Threads, l \in 1..Levels :
            InLine(u, l) /\ Path[u][l] = h /\ Node(u, l) = n
      BY <2>2 DEF InUse
    <3>2. CASE u = t /\ l > k
      <4>1. InLine(t, l)' /\ Node(t, l)' = n
        BY <1>5, <1>24, <3>1, <3>2
      <4> QED
        BY <3>1, <3>2, <4>1 DEF InUse
    <3>3. CASE u = t /\ ~ (l > k)
      <4>1. passed(l) /\ l # k
        BY <1>2, <1>24, <2>2, <3>1, <3>3
      <4>2. InLine(s, l)' /\ Node(s, l)' = n /\ Path[s][l] = h
        BY <1>16, <1>17, <1>18, <1>20, <3>1, <3>3, <4>1
      <4> QED
        BY <4>2 DEF InUse
    <3>4. CASE u = s
      <4>1. InLine(s, l)' /\ Node(s, l)' = n
        BY <1>18, <1>20, <3>1, <3>4
      <4> QED
        BY <3>1, <3>4, <4>1 DEF InUse
    <3>5. CASE u # t /\ u # s
      <4>1. InLine(u, l)' /\ Node(u, l)' = n
        BY <1>25, <3>1, <3>5
      <4> QED
        BY <3>1, <3>5, <4>1 DEF InUse
    <3> QED
      BY <3>2, <3>3, <3>4, <3>5
  <2> QED
    BY <2>1, <2>2
<1>27. \A u \in Threads, l \in 1..Levels : Holds(u, l)' =>
         \/ Holds(u, l) /\ (u = t => ~ passed(l))
         \/ u = s /\ passed(l) /\ Holds(t, l) /\ Path[s][l] = Path[t][l]
  BY <1>16, <1>20, <1>21, <1>24, <1>25
<1>28. HoldersOK'
  <2>1. ASSUME NEW u \in Threads, NEW w \in Threads, NEW l \in 1..Levels,
               Holds(u, l)', Holds(w, l)', Path[u][l] = Path[w][l]
        PROVE  u = w
    <3>1. \A y, z \in Threads : Holds(y, l) /\ Holds(z, l) /\ Path[y][l] = Path[z][l] => y = z
      BY DEF IInv, HoldersOK
    <3>2. \/ Holds(u, l) /\ (u = t => ~ passed(l))
          \/ u = s /\ passed(l) /\ Holds(t, l) /\ Path[s][l] = Path[t][l]
      BY <1>27, <2>1
    <3>3. \/ Holds(w, l) /\ (w = t => ~ passed(l))
          \/ w = s /\ passed(l) /\ Holds(t, l) /\ Path[s][l] = Path[t][l]
      BY <1>27, <2>1
    <3> QED
      BY <2>1, <3>1, <3>2, <3>3
  <2> QED
    BY <2>1 DEF HoldersOK
<1>29. \A u \in Threads, h \in HNodes : \A n \in QNodes \cup {NULL} :
         /\ Linking(u, h, n)' => Linking(u, h, n)
         /\ Spins(u, h, n) /\ n # x => Spins(u, h, n)'
  <2>1. ASSUME NEW u \in Threads, u # t, u # s, NEW h \in HNodes,
               NEW n \in QNodes \cup {NULL}
        PROVE  /\ Linking(u, h, n)' <=> Linking(u, h, n)
               /\ Spins(u, h, n)' <=> Spins(u, h, n)
    BY <1>15, <2>1 DEF SameLinks
  <2>2. \A h \in HNodes : \A n \in QNodes \cup {NULL} :
          /\ ~ Linking(t, h, n)' /\ ~ Spins(t, h, n)
          /\ ~ Linking(s, h, n)' /\ (Spins(s, h, n) => n = x)
    BY <1>5, <1>8, <1>18 DEF Linking, Spins
  <2> QED
    BY <2>1, <2>2
<1>30. LinksOK'
  <2>1. \A h, q \in HNodes, l, m, n \in QNodes :
          InUse(h, l) /\ InUse(q, m) /\ next[l] = n /\ next[m] = n => l = m
    BY DEF IInv, LinksOK
  <2>2. \A h \in HNodes, m, n \in QNodes :
          InUse(h, m)' /\ next'[m] = n => \E u \in Threads : Spins(u, h, n)'
    <3>1. \A h \in HNodes, m, n \in QNodes :
            InUse(h, m) /\ next[m] = n => \E u \in Threads : Spins(u, h, n)
      BY DEF IInv, LinksOK
    <3>2. \A h \in HNodes, m \in QNodes : InUse(h, m) /\ m # i => next[m] # x
      BY <1>1, <1>3, <1>6, <2>1
    <3> QED
      BY <1>12, <1>26, <1>29, <3>1, <3>2
  <2>3. \A h, q \in HNodes, l, m, n \in QNodes :
          InUse(h, l)' /\ InUse(q, m)' /\ next'[l] = n /\ next'[m] = n => l = m
    BY <1>12, <1>26, <2>1
  <2>4. \A u \in Threads, h \in HNodes : \A n \in QNodes \cup {NULL} :
          Linking(u, h, n)' =>
            n \in QNodes /\ InUse(h, n)' /\ next'[n] = NULL /\ lock'[h] # n
    <3>1. \A u \in Threads, h \in HNodes : \A n \in QNodes \cup {NULL} :
            Linking(u, h, n) =>
              n \in QNodes /\ InUse(h, n) /\ next[n] = NULL /\ lock[h] # n
      BY DEF IInv, LinksOK
    <3> QED
      BY <1>1, <1>2, <1>3, <1>4, <1>12, <1>26, <1>29, <3>1
  <2>5. \A u, w \in Threads, h, q \in HNodes, n \in QNodes :
          Linking(u, h, n)' /\ Linking(w, q, n)' => u = w
    BY <1>29 DEF IInv, LinksOK
  <2> QED
    BY <2>2, <2>3, <2>4, <2>5 DEF LinksOK
<1>31. TailOK'
  <2>1. \A h \in HNodes, n \in QNodes :
          lock'[h] = n => InUse(h, n)' /\ next'[n] = NULL
    <3>1. \A h \in HNodes, n \in QNodes :
            lock[h] = n => InUse(h, n) /\ next[n] = NULL
      BY DEF IInv, TailOK
    <3> QED
      BY <1>1, <1>2, <1>3, <1>4, <1>12, <1>26, <3>1
  <2>2. \A h \in HNodes : lock'[h] = NULL =>
          \A u \in Threads, l \in 1..Levels : Holds(u, l)' => Path[u][l] # h
    <3>1. \A h \in HNodes : lock[h] = NULL =>
            \A u \in Threads, l \in 1..Levels : Holds(u, l) => Path[u][l] # h
      BY DEF IInv, TailOK
    <3> QED
      BY <1>4, <1>27, <3>1
  <2> QED
    BY <2>1, <2>2 DEF TailOK
<1> QED
  BY <1>5, <1>13, <1>15, <1>22, <1>23, <1>28, <1>30, <1>31 DEF IInv

LEMMA RelPassInv == ASSUME IInv, NEW t \in Threads, RelPass(t) PROVE IInv'
<1>1. level[t] \in 1..Levels /\ I(t) = Node(t, level[t]) /\ Levels \in Nat
      /\ Threshold \in Nat
  BY Here, HMCSAssumption DEF IInv
<1>2. pc[t] = "r_pass" /\ level[t] > 1 /\ ~ fast[t] /\ status[I(t)] # Threshold
  BY DEF RelPass, IInv, PlaceOK
<1>3. status[I(t)] \in 1..Threshold
  BY <1>1, <1>2 DEF IInv, CountOK, Holds, Releasing
<1>4. PICK v : v = status[I(t)] + 1
  OBVIOUS
<1>5. v \in 1..Threshold /\ v # ACQUIRE_PARENT
  BY <1>1, <1>2, <1>3, <1>4 DEF ACQUIRE_PARENT
<1>6. Grant(t, v)
  BY <1>4 DEF RelPass
<1> QED
  BY <1>2, <1>5, <1>6, GrantInv

LEMMA MStoreInv == ASSUME IInv, NEW t \in Threads, MStore(t) PROVE IInv'
<1>1. 1 \in 1..Threshold /\ pc[t] = "m_store"
  BY HMCSAssumption DEF MStore
<1>2. CASE level[t] = 1
  <2>1. Grant(t, 1)
    BY <1>2 DEF MStore, COHORT_START
  <2> QED
    BY <1>1, <1>2, <2>1, GrantInv
<1>3. CASE level[t] # 1
  <2>1. Grant(t, ACQUIRE_PARENT)
    BY <1>3 DEF MStore
  <2> QED
    BY <1>1, <2>1, GrantInv
<1> QED
  BY <1>2, <1>3
-----------------------------------------------------------------------------
LEMMA InitInv == Init => IInv
<1> SUFFICES ASSUME Init PROVE IInv
  OBVIOUS
<1>1. /\ Levels \in Nat \ {0} /\ Levels \in 1..Levels /\ Threshold \in Nat \ {0}
      /\ NULL \notin QNodes
  BY HMCSAssumption DEF QNodes
<1>2. TypeOK
  BY <1>1 DEF Init, TypeOK
<1>3. \A t \in Threads : pc[t] = "idle" /\ level[t] = Levels /\ ~ fast[t]
        /\ answer[t] = "none"
  BY DEF Init
<1>4. \A t \in Threads, l \in 1..Levels : ~ Holds(t, l) /\ ~ InLine(t, l)
  BY <1>3 DEF InLine, Holds, Waits, Releasing
<1>5. \A h \in HNodes, n \in QNodes : ~ InUse(h, n) /\ lock[h] = NULL
  BY <1>4 DEF InUse, Init
<1>6. \A t \in Threads : PlaceOK(t) /\ CountOK(t)
  <2>1. \A t \in Threads : PlaceOK(t)
    BY <1>3 DEF PlaceOK, Releasing
  <2>2. \A l \in 2..Levels : l \in 1..Levels
    BY <1>1
  <2>3. \A t \in Threads : CountOK(t)
    BY <1>4, <2>2 DEF CountOK
  <2> QED
    BY <2>1, <2>3
<1>7. HoldersOK
  BY <1>4 DEF HoldersOK
<1>8. LinksOK
  BY <1>3, <1>5 DEF LinksOK, Linking
<1>9. TailOK
  BY <1>1, <1>4, <1>5 DEF TailOK
<1> QED
  BY <1>2, <1>6, <1>7, <1>8, <1>9 DEF IInv

LEMMA NextInv == IInv /\ [Next]_vars => IInv'
<1> SUFFICES ASSUME IInv, [Next]_vars PROVE IInv'
  OBVIOUS
<1>1. ASSUME NEW t \in Threads, Moves(t) PROVE IInv'
  BY <1>1, MovesInv
<1>2. ASSUME NEW t \in Threads, LookAtRoot(t) PROVE IInv'
  BY <1>2, LookAtRootInv
<1>3. ASSUME NEW t \in Threads, TryReuse(t) \/ AcqReuse(t) \/ AcqStart(t) PROVE IInv'
  BY <1>3, TryReuseInv, AcqReuseInv, AcqStartInv
<1>4. ASSUME NEW t \in Threads, TryCAS(t) PROVE IInv'
  BY <1>4, TryFailsInv, TryTakesInv
<1>5. ASSUME NEW t \in Threads, AcqSwap(t) \/ AcqLink(t) PROVE IInv'
  BY <1>5, AcqSwapInv, AcqLinkInv
<1>6. ASSUME NEW t \in Threads, RelPass(t) \/ MStore(t) PROVE IInv'
  BY <1>6, RelPassInv, MStoreInv
<1>7. ASSUME NEW t \in Threads, MCAS(t) PROVE IInv'
  BY <1>7, MCASFailsInv, MCASLeavesInv
<1>8. CASE UNCHANGED vars
  <2>1. /\ lock' = lock /\ next' = next /\ status' = status /\ fast' = fast
        /\ pc' = pc /\ level' = level /\ pred' = pred /\ answer' = answer
        /\ run' = run
    BY <1>8 DEF vars
  <2>2. \A u \in Threads :
          PlaceOK(u)' /\ CountOK(u)' /\ SamePlaces(u) /\ SameLinks(u)
    BY <2>1, Frame DEF IInv
  <2>3. HoldersOK' /\ LinksOK' /\ TailOK'
    BY <2>1, <2>2, Still
  <2> QED
    BY <2>1, <2>2, <2>3 DEF IInv, TypeOK
<1> QED
  BY <1>1, <1>2, <1>3, <1>4, <1>5, <1>6, <1>7, <1>8 DEF Next, Inside, Moves

THEOREM Invariance == Spec => []IInv
  BY InitInv, NextInv, PTL DEF Spec

(* One thread owns the lock, whatever the tree, the threshold and the way  *)
(* it came: MutualExclusion.                                               *)
THEOREM Exclusion == Spec => []MutualExclusion
<1>1. IInv => MutualExclusion
  <2> SUFFICES ASSUME IInv, NEW s \in Threads, NEW t \in Threads, Owner(s), Owner(t)
               PROVE  s = t
    BY DEF MutualExclusion
  <2>1. 1 \in 1..Levels /\ Path[s][1] = Path[t][1]
    BY HMCSAssumption
  <2>2. Holds(s, 1) /\ Holds(t, 1)
    BY DEF Owner, Holds
  <2> QED
    BY <2>1, <2>2 DEF IInv, HoldersOK
<1> QED
  BY <1>1, Invariance, PTL

(* The queue node of an hnode serves one thread at a time, and no count    *)
(* grows beyond the threshold: NodeExclusive.                              *)
THEOREM NodesExclusive == Spec => []NodeExclusive
<1>1. IInv => NodeExclusive
  <2> SUFFICES ASSUME IInv PROVE NodeExclusive
    OBVIOUS
  <2>1. ASSUME NEW s \in Threads, NEW t \in Threads, s # t, Queueing(s), Queueing(t)
        PROVE  I(s) # I(t)
    <3>1. Uses(s, level[s]) /\ Uses(t, level[t])
      BY <2>1, AtLevel DEF IInv
    <3>2. /\ level[s] \in 1..Levels /\ I(s) = Node(s, level[s])
          /\ level[t] \in 1..Levels /\ I(t) = Node(t, level[t])
      BY Here DEF IInv
    <3> QED
      BY <2>1, <3>1, <3>2, Unique DEF IInv
  <2> QED
    BY <2>1 DEF IInv, NodeExclusive
<1> QED
  BY <1>1, Invariance, PTL

(* Once nowaiters_from_leaf of zm_hmcs.c has seen a successor, and until   *)
(* the release, a thread spins right behind the owner in one of the queues *)
(* that the owner is in: WaitersStay.                                      *)
THEOREM WaitersRemain == Spec => []WaitersStay
<1>1. IInv => WaitersStay
  <2> SUFFICES ASSUME IInv, NEW t \in Threads, answer[t] = "waiters"
               PROVE  \E s \in Threads \ {t}, l \in 1..Levels :
                        /\ l = 1 \/ ~ fast[t]
                        /\ Spins(s, Path[t][l], next[Node(t, l)])
    BY DEF WaitersStay
  <2>1. TypeOK /\ pc[t] \in {"cs", "n_next"}
    BY DEF IInv, PlaceOK
  <2>2. PICK l \in 1..Levels : (l = 1 \/ ~ fast[t]) /\ next[Node(t, l)] # NULL
    BY DEF IInv, PlaceOK
  <2>3. PICK h \in HNodes, m \in QNodes, n \in QNodes :
          h = Path[t][l] /\ m = Node(t, l) /\ n = next[m]
    BY <2>1, <2>2, Places DEF TypeOK
  <2>4. InUse(h, m)
    BY <2>1, <2>2, <2>3 DEF InUse, InLine, Holds
  <2>5. PICK s \in Threads : Spins(s, h, n)
    BY <2>3, <2>4 DEF IInv, LinksOK
  <2>6. s # t
    BY <2>1, <2>5 DEF Spins
  <2> QED
    BY <2>2, <2>3, <2>5, <2>6
<1> QED
  BY <1>1, Invariance, PTL

-----------------------------------------------------------------------------
(* Induction over a set of numbers, from the smallest one that is not in   *)
(* it.                                                                     *)
LEMMA Induction ==
  ASSUME NEW S, 0 \in S, \A n \in Nat : n \in S => n + 1 \in S
  PROVE  \A n \in Nat : n \in S
<1> SUFFICES ASSUME NEW T, T = Nat \ S, T # {} PROVE FALSE
  OBVIOUS
<1> DEFINE R == {ss \in Nat \X Nat : ss[1] < ss[2]}
<1>0. IsWellFoundedOn(R, Nat)
  BY NatLessThanWellFounded DEF OpToRel
<1>1. \A x, y \in Nat : x < y => <<x, y>> \in R
  OBVIOUS
<1> HIDE DEF R
<1>2. T \subseteq Nat
  OBVIOUS
<1>3. \E x \in T : \A y \in T : ~ (<<y, x>> \in R)
  BY <1>0, <1>2, WFMin, Zenon
<1>4. PICK x \in T : \A y \in T : ~ (<<y, x>> \in R)
  BY <1>3
<1>5. x \in Nat /\ x # 0 /\ x - 1 \in T
  OBVIOUS
<1>6. x - 1 < x
  BY <1>5
<1> QED
  BY <1>1, <1>4, <1>5, <1>6

(* The powers of the threshold: the function is the one its equation says. *)
LEMMA PassesFacts ==
  /\ Passes = [k \in 0..Levels - 1 |-> IF k = 0 THEN 1 ELSE Threshold * Passes[k - 1]]
  /\ \A k \in 0..Levels - 1 : Passes[k] \in Nat \ {0}
<1> DEFINE Defines(f, n) == f = [k \in 0..n |-> IF k = 0 THEN 1 ELSE Threshold * f[k - 1]]
           S == {n \in Nat : \E f \in [0..n -> Nat \ {0}] : Defines(f, n)}
<1>1. 0 \in S
  <2> DEFINE f == [k \in 0..0 |-> 1]
  <2>1. f \in [0..0 -> Nat \ {0}] /\ Defines(f, 0)
    OBVIOUS
  <2> QED
    BY <2>1
<1>2. ASSUME NEW n \in Nat, n \in S PROVE n + 1 \in S
  <2>1. PICK f \in [0..n -> Nat \ {0}] : Defines(f, n)
    BY <1>2
  <2> DEFINE m == Threshold * f[n]
             g == [k \in 0..n + 1 |-> IF k <= n THEN f[k] ELSE m]
  <2>2. m \in Nat \ {0}
    BY HMCSAssumption
  <2>3. \A k \in 0..n : f[k] = IF k = 0 THEN 1 ELSE Threshold * f[k - 1]
    BY <2>1
  <2>4. \A k \in 0..n : g[k] = f[k]
    OBVIOUS
  <2>5. g[n + 1] = m
    OBVIOUS
  <2>6. \A k \in 0..n + 1 : g[k] = IF k = 0 THEN 1 ELSE Threshold * g[k - 1]
    <3>1. ASSUME NEW k \in 0..n PROVE g[k] = IF k = 0 THEN 1 ELSE Threshold * g[k - 1]
      <4>1. k # 0 => k - 1 \in 0..n
        OBVIOUS
      <4> HIDE DEF g, m
      <4> QED
        BY <2>3, <2>4, <4>1
    <3>2. g[n + 1] = IF n + 1 = 0 THEN 1 ELSE Threshold * g[n + 1 - 1]
      <4>1. n + 1 - 1 = n /\ n + 1 # 0 /\ n \in 0..n
        OBVIOUS
      <4>2. g[n] = f[n]
        BY <2>4, <4>1
      <4> HIDE DEF g
      <4> QED
        BY <2>5, <4>1, <4>2
    <3>3. \A k \in 0..n + 1 : k \in 0..n \/ k = n + 1
      OBVIOUS
    <3> HIDE DEF g, m
    <3>4. ASSUME NEW k \in 0..n + 1 PROVE g[k] = IF k = 0 THEN 1 ELSE Threshold * g[k - 1]
      <4>1. CASE k \in 0..n
        BY <3>1, <4>1
      <4>2. CASE k = n + 1
        BY <3>2, <4>2, SMT
      <4> QED
        BY <3>3, <4>1, <4>2
    <3> QED
      BY <3>4
  <2>7. g \in [0..n + 1 -> Nat \ {0}]
    BY <2>2
  <2>8. g = [k \in 0..n + 1 |-> g[k]]
    OBVIOUS
  <2> HIDE DEF g, m
  <2>9. Defines(g, n + 1)
    <3>1. [k \in 0..n + 1 |-> g[k]]
            = [k \in 0..n + 1 |-> IF k = 0 THEN 1 ELSE Threshold * g[k - 1]]
      BY <2>6, Zenon
    <3>2. g = [k \in 0..n + 1 |-> IF k = 0 THEN 1 ELSE Threshold * g[k - 1]]
      BY <2>8, <3>1
    <3> QED
      BY <3>2
  <2> HIDE DEF Defines
  <2> QED
    BY <2>7, <2>9
<1>3. Levels - 1 \in S
  <2> HIDE DEF S
  <2>1. \A n \in Nat : n \in S
    BY <1>1, <1>2, Induction
  <2> QED
    BY <2>1, HMCSAssumption
<1>4. PICK f \in [0..Levels - 1 -> Nat \ {0}] : Defines(f, Levels - 1)
  BY <1>3
<1>5. Passes = [k \in 0..Levels - 1 |-> IF k = 0 THEN 1 ELSE Threshold * Passes[k - 1]]
  BY <1>4 DEF Passes
<1>6. \A k \in 0..Levels - 1 : Passes[k] = IF k = 0 THEN 1 ELSE Threshold * Passes[k - 1]
  BY <1>5
<1> DEFINE P == {k \in Nat : k <= Levels - 1 => Passes[k] \in Nat \ {0}}
<1>7. 0 \in P
  BY <1>6, HMCSAssumption
<1>8. ASSUME NEW k \in Nat, k \in P PROVE k + 1 \in P
  <2>1. SUFFICES ASSUME k + 1 <= Levels - 1 PROVE Passes[k + 1] \in Nat \ {0}
    OBVIOUS
  <2>2. Passes[k] \in Nat \ {0} /\ k + 1 \in 0..Levels - 1 /\ k + 1 - 1 = k /\ k + 1 # 0
    BY <1>8, <2>1, HMCSAssumption
  <2>3. Passes[k + 1] = Threshold * Passes[k]
    BY <1>6, <2>2
  <2> QED
    BY <2>2, <2>3, HMCSAssumption
<1>9. \A k \in Nat : k \in P
  <2> HIDE DEF P
  <2> QED
    BY <1>7, <1>8, Induction
<1>10. \A k \in 0..Levels - 1 : Passes[k] \in Nat \ {0}
  <2>1. \A k \in 0..Levels - 1 : k \in Nat /\ k <= Levels - 1
    BY HMCSAssumption
  <2> QED
    BY <1>9, <2>1
<1> QED
  BY <1>5, <1>10

LEMMA LastPasses == Passes[Levels - 1] \in Nat \ {0}
<1>1. Levels - 1 \in 0..Levels - 1
  BY HMCSAssumption
<1> QED
  BY <1>1, PassesFacts, Zenon

LEMMA Multiples ==
  ASSUME NEW a \in Nat, NEW b \in Nat, a <= b
  PROVE  /\ Threshold * a \in Nat /\ Threshold * a <= Threshold * b
         /\ Threshold * (a + 1) = Threshold * a + Threshold
<1>1. Threshold \in Nat
  BY HMCSAssumption
<1>2. PICK d \in Nat : b = a + d
  <2>1. b - a \in Nat /\ b = a + (b - a)
    OBVIOUS
  <2> QED
    BY <2>1
<1> DEFINE x == Threshold * a
           z == Threshold * d
<1>3. x \in Nat /\ z \in Nat
  BY <1>1
<1>4. Threshold * b = x + z
  BY <1>1, <1>2
<1>5. Threshold * (a + 1) = x + Threshold
  BY <1>1
<1> HIDE DEF x, z
<1>6. x <= x + z
  BY <1>3
<1> QED
  BY <1>3, <1>4, <1>5, <1>6 DEF x

(* The owner, or who is about to own the lock, holds every hnode of its    *)
(* path, with a count in each, and is the only one that does.              *)
LEMMA CountingFacts ==
  ASSUME IInv, NEW t \in Threads, Counting(t)
  PROVE  /\ \A l \in 1..Levels : Holds(t, l) /\ Uses(t, l) /\ Node(t, l) \in QNodes
         /\ \A l \in 2..Levels : l \in 1..Levels /\ l - 1 \in 1..Levels /\ status[Node(t, l)] \in 1..Threshold
         /\ \A u \in Threads : Holds(u, 1) => u = t
<1>1. /\ TypeOK /\ Levels \in Nat \ {0} /\ 1 \in 1..Levels /\ I(t) = Node(t, level[t])
      /\ level[t] \in 1..Levels /\ ~ fast[t]
  BY Here DEF IInv, Counting
<1>2. \A l \in 1..Levels : Holds(t, l)
  BY <1>1 DEF Counting, Holds
<1>3. \A l \in 1..Levels : Uses(t, l) /\ Node(t, l) \in QNodes
  BY <1>1, <1>2, Places DEF Uses, InLine
<1>4. \A l \in 2..Levels : l \in 1..Levels /\ l - 1 \in 1..Levels
  BY <1>1
<1>5. \A l \in 2..Levels : status[Node(t, l)] \in 1..Threshold
  BY <1>1, <1>2, <1>4 DEF IInv, CountOK, Counting, Releasing
<1>6. ASSUME NEW u \in Threads, Holds(u, 1) PROVE u = t
  <2>1. Path[u][1] = Path[t][1]
    BY HMCSAssumption
  <2> QED
    BY <1>1, <1>2, <1>6, <2>1 DEF IInv, HoldersOK
<1> QED
  BY <1>2, <1>3, <1>4, <1>5, <1>6

(* What has been counted is at most all there is to count.                 *)
LEMMA CountedBound ==
  ASSUME IInv, NEW t \in Threads, Counting(t),
         NEW past \in [1..Levels -> Nat], Counted(t, past)
  PROVE  past[Levels] + 1 <= Passes[Levels - 1]
<1>1. Levels \in Nat \ {0} /\ Threshold \in Nat \ {0}
  BY HMCSAssumption
<1> DEFINE S == {n \in Nat : n \in 0..Levels - 1 => past[n + 1] + 1 <= Passes[n]}
<1>2. 0 \in S
  BY <1>1, PassesFacts DEF Counted
<1>3. ASSUME NEW n \in Nat, n \in S PROVE n + 1 \in S
  <2>1. SUFFICES ASSUME n + 1 \in 0..Levels - 1 PROVE past[n + 1 + 1] + 1 <= Passes[n + 1]
    OBVIOUS
  <2>2. n \in 0..Levels - 1 /\ n + 1 \in 1..Levels /\ n + 2 \in 2..Levels /\ n + 2 \in 1..Levels
        /\ n + 2 - 1 = n + 1 /\ n + 1 + 1 = n + 2 /\ n + 1 - 1 = n /\ n + 1 # 0
    BY <1>1, <2>1
  <2> DEFINE a == past[n + 1]
             b == past[n + 2]
             c == status[Node(t, n + 2)]
             q == Passes[n]
  <2>3. a \in Nat /\ b \in Nat /\ c \in 1..Threshold /\ q \in Nat
    BY <2>2, PassesFacts, CountingFacts
  <2>4. a + 1 <= q
    BY <1>3, <2>2
  <2>5. b + 1 <= Threshold * a + c
    BY <2>2 DEF Counted
  <2>6. Passes[n + 1] = Threshold * q
    BY <2>1, <2>2, PassesFacts
  <2> HIDE DEF a, b, c, q
  <2>7. Threshold * (a + 1) = Threshold * a + Threshold /\ Threshold * a \in Nat
    <3>1. a <= a
      BY <2>3
    <3> QED
      BY <2>3, <3>1, Multiples
  <2>8. Threshold * (a + 1) <= Threshold * q /\ a + 1 \in Nat
    BY <2>3, <2>4, Multiples
  <2> DEFINE x == Threshold * a
             y == Threshold * (a + 1)
             z == Threshold * q
  <2>9. y = x + Threshold /\ x \in Nat /\ y <= z /\ b + 1 <= x + c /\ z \in Nat
    BY <1>1, <2>3, <2>5, <2>7, <2>8
  <2> HIDE DEF x, y, z
  <2>10. b + 1 <= z
    BY <1>1, <2>3, <2>9
  <2> QED
    BY <2>2, <2>6, <2>10 DEF b, z
<1>4. Levels - 1 \in S
  <2> HIDE DEF S
  <2>1. \A n \in Nat : n \in S
    BY <1>2, <1>3, Induction
  <2> QED
    BY <1>1, <2>1
<1> QED
  BY <1>1, <1>4

-----------------------------------------------------------------------------
(* A thread counts after a step only what it counted before it.            *)
Keeps(u) ==
  Counting(u)' =>
    /\ Counting(u) /\ (pc'[u] = "a_spin" <=> pc[u] = "a_spin")
    /\ \A l \in 2..Levels : (status[Node(u, l)])' = status[Node(u, l)]

LEMMA KeepsRun ==
  ASSUME RunInv, run' = run, \A u \in Threads : Keeps(u)
  PROVE  BoundedPassing' /\ RunOK'
<1>1. BoundedPassing'
  BY DEF RunInv, BoundedPassing
<1>2. ASSUME NEW u \in Threads, Counting(u)'
      PROVE  \E past \in [1..Levels -> Nat] : Counted(u, past)'
  <2>1. PICK past \in [1..Levels -> Nat] : Counted(u, past)
    BY <1>2 DEF RunInv, RunOK, Keeps
  <2>2. /\ pc'[u] = "a_spin" <=> pc[u] = "a_spin"
        /\ \A l \in 2..Levels : (status[Node(u, l)])' = status[Node(u, l)]
    BY <1>2 DEF Keeps
  <2>3. Counted(u, past)'
    BY <2>1, <2>2 DEF Counted
  <2> QED
    BY <2>3
<1> QED
  BY <1>1, <1>2 DEF RunOK

(* A thread that does not move, and to whose queue nodes nobody stores.    *)
LEMMA Bystander ==
  ASSUME IInv, NEW u \in Threads, NEW X,
         pc'[u] = pc[u], level'[u] = level[u], fast'[u] = fast[u],
         \A n \in QNodes : n \notin X => status'[n] = status[n],
         \A l \in 1..Levels : Uses(u, l) => Node(u, l) \notin X
  PROVE  Keeps(u)
<1>1. /\ level[u] \in 1..Levels /\ I(u) = Node(u, level[u]) /\ I(u) \in QNodes
      /\ TypeOK /\ PlaceOK(u)
  BY Here DEF IInv
<1>2. I(u)' = I(u) /\ \A l \in 1..Levels : Node(u, l)' = Node(u, l)
  BY DEF I, Node
<1>3. pc[u] = "a_spin" => status'[I(u)] = status[I(u)]
  BY <1>1, AtLevel DEF Queueing
<1>4. Counting(u)' => Counting(u)
  BY <1>2, <1>3 DEF Counting, WAIT, ACQUIRE_PARENT
<1>5. ASSUME Counting(u), NEW l \in 2..Levels
      PROVE  (status[Node(u, l)])' = status[Node(u, l)]
  <2>1. l \in 1..Levels /\ Uses(u, l) /\ Node(u, l) \in QNodes
    BY <1>5, CountingFacts
  <2>2. status'[Node(u, l)] = status[Node(u, l)]
    BY <2>1
  <2> QED
    BY <1>2, <2>1, <2>2
<1> QED
  BY <1>4, <1>5 DEF Keeps

(* A step of t that stores to no status but that of the node it uses.      *)
LEMMA OthersKeep ==
  ASSUME IInv, NEW t \in Threads,
         \A u \in Threads : u # t =>
           pc'[u] = pc[u] /\ level'[u] = level[u] /\ fast'[u] = fast[u],
         \A n \in QNodes : (n = I(t) /\ Uses(t, level[t])) \/ status'[n] = status[n]
  PROVE  \A u \in Threads : u # t => Keeps(u)
<1> SUFFICES ASSUME NEW u \in Threads, u # t PROVE Keeps(u)
  OBVIOUS
<1>1. PICK X : X = {n \in QNodes : n = I(t) /\ Uses(t, level[t])}
  OBVIOUS
<1>2. \A n \in QNodes : n \notin X => status'[n] = status[n]
  BY <1>1
<1>3. \A l \in 1..Levels : Uses(u, l) => Node(u, l) \notin X
  <2>1. level[t] \in 1..Levels /\ I(t) = Node(t, level[t])
    BY Here DEF IInv
  <2> QED
    BY <1>1, <2>1, Unique DEF IInv
<1> QED
  BY <1>2, <1>3, Bystander

(* The root queue changed hands.                                           *)
LEMMA FreshRun ==
  ASSUME IInv', run' = 1, NEW t \in Threads, pc'[t] = "cs",
         \A u \in Threads : u # t => ~ Counting(u)'
  PROVE  BoundedPassing' /\ RunOK'
<1>1. Levels \in Nat \ {0} /\ Threshold \in Nat \ {0}
  BY HMCSAssumption
<1>2. BoundedPassing'
  <2>1. Passes[Levels - 1] \in Nat \ {0}
    BY LastPasses
  <2> QED
    BY <2>1 DEF BoundedPassing
<1>3. ASSUME Counting(t)' PROVE \E past \in [1..Levels -> Nat] : Counted(t, past)'
  <2>1. PICK past \in [1..Levels -> Nat] : past = [l \in 1..Levels |-> 0]
    OBVIOUS
  <2>2. ASSUME NEW l \in 2..Levels
        PROVE  past[l] + 1 <= Threshold * past[l - 1] + (status[Node(t, l)])'
    <3>1. l \in 1..Levels /\ l - 1 \in 1..Levels
      BY <1>1
    <3>2. Holds(t, l)'
      BY <1>3, <3>1 DEF Counting, Holds
    <3>3. (status[Node(t, l)])' \in 1..Threshold
      BY <3>2 DEF IInv, CountOK, Releasing
    <3>4. past[l] = 0 /\ past[l - 1] = 0 /\ Threshold * 0 = 0
      BY <1>1, <2>1, <3>1
    <3> HIDE DEF Node
    <3> QED
      BY <1>1, <3>3, <3>4
  <2>3. past[1] = 0 /\ past[Levels] = 0
    BY <1>1, <2>1
  <2>4. Counted(t, past)'
    BY <2>2, <2>3 DEF Counted
  <2> QED
    BY <2>4
<1> QED
  BY <1>2, <1>3 DEF RunOK

(* A step of t that does not count the run, and owns the lock after it     *)
(* only if it counted before.                                              *)
LEMMA MovesRun ==
  ASSUME RunInv, NEW t \in Threads, Moves(t), ~ AcqSpin(t)
  PROVE  BoundedPassing' /\ RunOK'
<1>1. /\ status' = status /\ fast' = fast
      /\ \A u \in Threads : u # t => pc'[u] = pc[u] /\ level'[u] = level[u]
  BY MovesOwn DEF RunInv
<1>2. \A u \in Threads : u # t => Keeps(u)
  BY <1>1, OthersKeep DEF RunInv
<1>3. run' = run
  BY DEF Moves, LookAtLeaf, TryLookAtRoot, RelBegin, RelTest, RelNext,
       MNext, MWait, NowaitersBegin, NowaitersNext
<1>4. t \in DOMAIN pc
  BY DEF RunInv, IInv, TypeOK
<1>5. /\ pc'[t] \in {"cs", "n_next", "r_test", "r_next", "r_pass"} =>
           pc[t] \in {"cs", "n_next", "r_test", "r_next", "r_pass"}
      /\ pc'[t] # "a_spin"
  <2> USE DEF Goto, At
  <2>1. CASE LookAtLeaf(t) \/ TryLookAtRoot(t)
    BY <1>4, <2>1 DEF LookAtLeaf, TryLookAtRoot
  <2>2. CASE RelBegin(t) \/ RelTest(t) \/ RelNext(t)
    BY <1>4, <2>2 DEF RelBegin, RelTest, RelNext
  <2>3. CASE MNext(t) \/ MWait(t)
    BY <1>4, <2>3 DEF MNext, MWait
  <2>4. CASE NowaitersBegin(t) \/ NowaitersNext(t)
    BY <1>4, <2>4 DEF NowaitersBegin, NowaitersNext
  <2> QED
    BY <2>1, <2>2, <2>3, <2>4 DEF Moves
<1>6. Keeps(t)
  <2>1. \A l \in 2..Levels : Node(t, l)' = Node(t, l)
    BY <1>1 DEF Node
  <2>2. Counting(t)' => Counting(t) /\ pc[t] # "a_spin"
    BY <1>1, <1>5 DEF Counting
  <2> QED
    BY <1>1, <1>5, <2>1, <2>2 DEF Keeps
<1> QED
  BY <1>2, <1>3, <1>6, KeepsRun


(* A step after which t is on its way to the lock, or out of it.           *)
LEMMA AwayRun ==
  ASSUME RunInv, NEW t \in Threads, run' = run,
         pc'[t] \notin {"cs", "n_next", "r_test", "r_next", "r_pass"},
         pc'[t] = "a_spin" => (status[I(t)])' = WAIT,
         \A u \in Threads : u # t =>
           pc'[u] = pc[u] /\ level'[u] = level[u] /\ fast'[u] = fast[u],
         \A n \in QNodes : (n = I(t) /\ Uses(t, level[t])) \/ status'[n] = status[n]
  PROVE  BoundedPassing' /\ RunOK'
<1>1. IInv
  BY DEF RunInv
<1>2. \A u \in Threads : u # t => Keeps(u)
  BY <1>1, OthersKeep
<1>3. ~ Counting(t)'
  BY DEF Counting, WAIT
<1>4. Keeps(t)
  BY <1>3 DEF Keeps
<1> QED
  BY <1>2, <1>4, KeepsRun

LEMMA TakenRun ==
  ASSUME RunInv, NEW t \in Threads,
         LookAtRoot(t) \/ TryReuse(t) \/ AcqReuse(t) \/ AcqLink(t) \/ AcqStart(t)
  PROVE  BoundedPassing' /\ RunOK'
<1> USE DEF Goto, At, SetLevel
<1>1. /\ TypeOK /\ PlaceOK(t) /\ t \in DOMAIN pc /\ t \in DOMAIN level /\ t \in QNodes
      /\ I(t) \in QNodes /\ I(t) = Node(t, level[t]) /\ level[t] \in 1..Levels
      /\ t \in DOMAIN fast
  BY Here DEF RunInv, IInv, TypeOK, QNodes
<1>2. run' = run
  BY DEF LookAtRoot, TryReuse, AcqReuse, AcqLink, AcqStart
<1>3. CASE LookAtRoot(t)
  <2>1. /\ pc'[t] = "a_reuse" /\ status' = status
        /\ \A u \in Threads : u # t =>
             pc'[u] = pc[u] /\ level'[u] = level[u] /\ fast'[u] = fast[u]
    BY <1>1, <1>3 DEF LookAtRoot, TypeOK
  <2> QED
    BY <1>2, <2>1, AwayRun
<1>4. CASE TryReuse(t)
  <2>1. I(t) = t /\ Uses(t, level[t])
    BY <1>1, <1>4 DEF TryReuse, PlaceOK, I, Uses, Prepares
  <2>2. /\ pc'[t] = "t_cas" /\ status' = [status EXCEPT ![t] = WAIT]
        /\ \A u \in Threads : u # t =>
             pc'[u] = pc[u] /\ level'[u] = level[u] /\ fast'[u] = fast[u]
    BY <1>1, <1>4 DEF TryReuse, Reuse, TypeOK
  <2>3. \A n \in QNodes : (n = I(t) /\ Uses(t, level[t])) \/ status'[n] = status[n]
    BY <1>1, <2>1, <2>2 DEF TypeOK
  <2> QED
    BY <1>2, <2>2, <2>3, AwayRun
<1>5. CASE AcqReuse(t)
  <2>1. Uses(t, level[t])
    BY <1>5 DEF AcqReuse, Uses, Prepares
  <2>2. /\ pc'[t] = "a_swap" /\ status' = [status EXCEPT ![I(t)] = WAIT]
        /\ \A u \in Threads : u # t =>
             pc'[u] = pc[u] /\ level'[u] = level[u] /\ fast'[u] = fast[u]
    BY <1>1, <1>5 DEF AcqReuse, Reuse, TypeOK
  <2>3. \A n \in QNodes : (n = I(t) /\ Uses(t, level[t])) \/ status'[n] = status[n]
    BY <1>1, <2>1, <2>2 DEF TypeOK
  <2> QED
    BY <1>2, <2>2, <2>3, AwayRun
<1>6. CASE AcqLink(t)
  <2>1. /\ pc'[t] = "a_spin" /\ status' = status /\ I(t)' = I(t)
        /\ status[I(t)] = WAIT
        /\ \A u \in Threads : u # t =>
             pc'[u] = pc[u] /\ level'[u] = level[u] /\ fast'[u] = fast[u]
    BY <1>1, <1>6 DEF AcqLink, PlaceOK, TypeOK, I
  <2> QED
    BY <1>2, <2>1, AwayRun
<1>7. CASE AcqStart(t)
  <2>1. Uses(t, level[t])
    BY <1>1, <1>7, AtLevel DEF AcqStart, Queueing
  <2>2. /\ pc'[t] = "a_reuse" /\ status' = [status EXCEPT ![I(t)] = COHORT_START]
        /\ \A u \in Threads : u # t =>
             pc'[u] = pc[u] /\ level'[u] = level[u] /\ fast'[u] = fast[u]
    BY <1>1, <1>7 DEF AcqStart, TypeOK
  <2>3. \A n \in QNodes : (n = I(t) /\ Uses(t, level[t])) \/ status'[n] = status[n]
    BY <1>1, <2>1, <2>2 DEF TypeOK
  <2> QED
    BY <1>2, <2>2, <2>3, AwayRun
<1> QED
  BY <1>3, <1>4, <1>5, <1>6, <1>7

LEMMA MCASRun ==
  ASSUME RunInv, NEW t \in Threads, MCAS(t)
  PROVE  BoundedPassing' /\ RunOK'
<1>1. /\ TypeOK /\ PlaceOK(t) /\ t \in DOMAIN pc /\ t \in DOMAIN level
      /\ I(t) \in QNodes /\ t \in DOMAIN fast
  BY Here DEF RunInv, IInv, TypeOK
<1>2. Uses(t, level[t])
  BY <1>1, AtLevel DEF MCAS, Queueing
<1>3. run' = run /\ (status' = status \/ status' = [status EXCEPT ![I(t)] = ACQUIRE_PARENT])
  BY DEF MCAS, Forget
<1>4. /\ pc'[t] \in {"m_wait", "m_next", "idle"}
      /\ \A u \in Threads : u # t =>
           pc'[u] = pc[u] /\ level'[u] = level[u] /\ fast'[u] = fast[u]
  BY <1>1 DEF MCAS, Unwind, Goto, SetLevel, TypeOK
<1>5. \A n \in QNodes : (n = I(t) /\ Uses(t, level[t])) \/ status'[n] = status[n]
  BY <1>1, <1>2, <1>3 DEF TypeOK
<1> QED
  BY <1>3, <1>4, <1>5, AwayRun

(* Nobody else counts while t holds the root.                              *)
LEMMA RootRun ==
  ASSUME RunInv, IInv', NEW t \in Threads, run' = 1, pc'[t] = "cs",
         \A u \in Threads : Counting(u) => u = t,
         \A u \in Threads : u # t => Keeps(u)
  PROVE  BoundedPassing' /\ RunOK'
<1>1. \A u \in Threads : u # t => ~ Counting(u)'
  BY DEF Keeps
<1> QED
  BY <1>1, FreshRun

LEMMA NobodyCounts ==
  ASSUME RunInv, NEW t \in Threads, lock[Path[t][1]] = NULL
  PROVE  \A u \in Threads : ~ Counting(u)
<1>1. \A u \in Threads : Counting(u) => FALSE
  <2> SUFFICES ASSUME NEW u \in Threads, Counting(u) PROVE FALSE
    BY Zenon
  <2>1. /\ 1 \in 1..Levels /\ Path[u][1] = Path[t][1] /\ Path[t][1] \in HNodes
    BY HMCSAssumption
  <2>2. Holds(u, 1)
    BY <2>1, CountingFacts DEF RunInv
  <2> QED
    BY <2>1, <2>2 DEF RunInv, IInv, TailOK
<1> QED
  BY <1>1

LEMMA TryCASRun ==
  ASSUME RunInv, IInv', NEW t \in Threads, TryCAS(t)
  PROVE  BoundedPassing' /\ RunOK'
<1> USE DEF Goto, At, SetLevel
<1>1. /\ TypeOK /\ PlaceOK(t) /\ t \in DOMAIN pc /\ t \in DOMAIN level /\ t \in QNodes
      /\ t \in DOMAIN fast /\ IInv
  BY DEF RunInv, IInv, TypeOK, QNodes
<1>2. I(t) = t /\ Uses(t, level[t])
  BY <1>1 DEF TryCAS, PlaceOK, I, Uses, Prepares
<1>3. /\ \A u \in Threads : u # t =>
           pc'[u] = pc[u] /\ level'[u] = level[u] /\ fast'[u] = fast[u]
      /\ status' = status \/ status' = [status EXCEPT ![t] = ACQUIRE_PARENT]
  BY <1>1 DEF TryCAS, Forget, TypeOK
<1>4. \A n \in QNodes : (n = I(t) /\ Uses(t, level[t])) \/ status'[n] = status[n]
  BY <1>1, <1>2, <1>3 DEF TypeOK
<1>5. CASE lock[Path[t][1]] = NULL
  <2>1. pc'[t] = "cs" /\ run' = 1
    BY <1>1, <1>5 DEF TryCAS
  <2>2. \A u \in Threads : u # t => Keeps(u)
    BY <1>1, <1>3, <1>4, OthersKeep
  <2> QED
    BY <1>5, <2>1, <2>2, NobodyCounts, RootRun
<1>6. CASE lock[Path[t][1]] # NULL
  <2>1. pc'[t] = "idle" /\ run' = run
    BY <1>1, <1>6 DEF TryCAS
  <2> QED
    BY <1>3, <1>4, <2>1, AwayRun
<1> QED
  BY <1>5, <1>6

LEMMA AcqSwapRun ==
  ASSUME RunInv, IInv', NEW t \in Threads, AcqSwap(t)
  PROVE  BoundedPassing' /\ RunOK'
<1>1. TypeOK /\ t \in DOMAIN pc /\ t \in DOMAIN pred /\ IInv
  BY DEF RunInv, IInv, TypeOK
<1>2. /\ pred'[t] = lock[L(t)] /\ status' = status
      /\ pc'[t] = IF lock[L(t)] # NULL THEN "a_link"
                  ELSE IF level[t] = 1 THEN "cs" ELSE "a_start"
      /\ run' = IF lock[L(t)] = NULL /\ level[t] = 1 THEN 1 ELSE run
      /\ \A u \in Threads : u # t =>
           pc'[u] = pc[u] /\ level'[u] = level[u] /\ fast'[u] = fast[u]
  BY <1>1 DEF AcqSwap, Goto, TypeOK
<1>3. CASE lock[L(t)] = NULL /\ level[t] = 1
  <2>1. lock[Path[t][1]] = NULL /\ pc'[t] = "cs" /\ run' = 1
    BY <1>2, <1>3 DEF L
  <2>2. \A u \in Threads : u # t => Keeps(u)
    BY <1>1, <1>2, OthersKeep
  <2> QED
    BY <2>1, <2>2, NobodyCounts, RootRun
<1>4. CASE ~ (lock[L(t)] = NULL /\ level[t] = 1)
  <2>1. pc'[t] \in {"a_link", "a_start"} /\ run' = run
    BY <1>2, <1>4
  <2> QED
    BY <1>2, <2>1, AwayRun
<1> QED
  BY <1>3, <1>4

(* The end of a spin counts the critical section it enters.                *)
LEMMA AcqSpinRun ==
  ASSUME RunInv, IInv', NEW t \in Threads, AcqSpin(t)
  PROVE  BoundedPassing' /\ RunOK'
<1>1. /\ TypeOK /\ PlaceOK(t) /\ t \in DOMAIN pc /\ IInv /\ Levels \in Nat \ {0}
      /\ level[t] \in 1..Levels /\ 1 \in 1..Levels /\ Levels \in 1..Levels
  BY Here DEF RunInv, IInv, TypeOK
<1>2. /\ pc[t] = "a_spin" /\ status[I(t)] # WAIT
      /\ status' = status /\ fast' = fast /\ level' = level
      /\ \A u \in Threads : u # t => pc'[u] = pc[u]
  BY <1>1 DEF AcqSpin, Goto, TypeOK
<1>3. \A u \in Threads : u # t => Keeps(u)
  BY <1>1, <1>2, OthersKeep
<1>4. Holds(t, 1) => \A u \in Threads : Counting(u) => u = t
  BY <1>1, CountingFacts
<1>5. CASE level[t] = 1
  <2>1. Holds(t, 1)
    BY <1>1, <1>2, <1>5 DEF Holds
  <2>2. pc'[t] = "cs" /\ run' = 1
    BY <1>1, <1>5 DEF AcqSpin, Goto
  <2> QED
    BY <1>3, <1>4, <2>1, <2>2, RootRun
<1>6. CASE level[t] > 1 /\ status[I(t)] # ACQUIRE_PARENT
  <2>1. pc'[t] = "cs" /\ run' = run + 1
    BY <1>1, <1>6 DEF AcqSpin, Goto
  <2>2. Counting(t)
    BY <1>2, <1>6 DEF Counting, PlaceOK, RunInv, IInv
  <2>3. PICK past \in [1..Levels -> Nat] : Counted(t, past)
    BY <2>2 DEF RunInv, RunOK
  <2>4. \A l \in 2..Levels : Node(t, l)' = Node(t, l)
    BY <1>2 DEF Node
  <2>5. run + 1 <= past[Levels] + 1
    BY <1>2, <2>3 DEF Counted
  <2>6. Counted(t, past)'
    BY <1>2, <2>1, <2>3, <2>4, <2>5 DEF Counted
  <2>7. BoundedPassing'
    <3>1. past[Levels] + 1 <= Passes[Levels - 1]
      BY <1>1, <2>2, <2>3, CountedBound
    <3>2. run \in Nat /\ past[Levels] \in Nat /\ Passes[Levels - 1] \in Nat
      BY <1>1, PassesFacts DEF TypeOK
    <3> QED
      BY <2>1, <2>5, <3>1, <3>2 DEF BoundedPassing
  <2>8. \A u \in Threads : u # t => ~ Counting(u)'
    <3>1. Holds(t, 1)
      BY <1>1, <2>2, CountingFacts
    <3> QED
      BY <1>3, <1>4, <3>1 DEF Keeps
  <2> QED
    BY <2>6, <2>7, <2>8 DEF RunOK
<1>7. CASE level[t] > 1 /\ status[I(t)] = ACQUIRE_PARENT
  <2>1. pc'[t] = "a_start" /\ run' = run
    BY <1>1, <1>7 DEF AcqSpin, Goto
  <2> QED
    BY <1>2, <2>1, AwayRun
<1> QED
  BY <1>1, <1>5, <1>6, <1>7


(* To whom a release hands the hnode, and what it stores to.               *)
LEMMA GrantTo ==
  ASSUME IInv, NEW t \in Threads, NEW v, Grant(t, v), pc[t] \in {"r_pass", "m_store"}
  PROVE  \E s \in Threads :
           /\ s # t /\ pc[s] = "a_spin" /\ level[s] = level[t] /\ I(s) = next[I(t)]
           /\ pc'[s] = pc[s] /\ level'[s] = level[s] /\ fast'[s] = fast[s]
           /\ I(s) \in QNodes /\ I(s) # I(t) /\ status'[I(s)] = v
           /\ \A l \in 1..Levels : l <= level[t] => Path[s][l] = Path[t][l]
           /\ \A n \in QNodes : n # I(s) /\ n # I(t) => status'[n] = status[n]
           /\ \A u \in Threads : u # s /\ u # t => Keeps(u)
           /\ pc'[t] \in {"idle", "m_next"} /\ run' = run
<1>1. /\ TypeOK /\ PlaceOK(t) /\ NULL \notin QNodes /\ level[t] \in 1..Levels
      /\ I(t) \in QNodes /\ L(t) \in HNodes /\ I(t) = Node(t, level[t])
      /\ L(t) = Path[t][level[t]] /\ t \in DOMAIN pc
  BY Here, HMCSAssumption DEF IInv, QNodes, TypeOK
<1>2. next[I(t)] \in QNodes
  BY <1>1 DEF PlaceOK, TypeOK
<1>3. Uses(t, level[t]) /\ InLine(t, level[t])
  <2>1. Uses(t, level[t])
    BY <1>1, AtLevel DEF Queueing
  <2> QED
    BY <2>1 DEF Uses, Prepares
<1>4. InUse(L(t), I(t))
  BY <1>1, <1>3 DEF InUse
<1>5. PICK s \in Threads : Spins(s, L(t), next[I(t)])
  BY <1>1, <1>2, <1>4 DEF IInv, LinksOK
<1>6. /\ s # t /\ pc[s] = "a_spin" /\ L(s) = L(t) /\ I(s) = next[I(t)]
      /\ I(s) \in QNodes
  BY <1>2, <1>5 DEF Spins
<1>7. /\ Uses(s, level[s]) /\ level[s] \in 1..Levels /\ I(s) = Node(s, level[s])
      /\ Path[s][level[s]] = Path[t][level[t]]
  BY <1>1, <1>6, AtLevel, Here DEF IInv, Queueing
<1>8. I(s) # I(t)
  BY <1>1, <1>3, <1>6, <1>7, Unique DEF IInv
<1>9. level[s] = level[t] /\ \A l \in 1..Levels : l <= level[t] => Path[s][l] = Path[t][l]
  BY <1>1, <1>7, Tree
<1>10. /\ \A u \in Threads : u # t =>
            pc'[u] = pc[u] /\ level'[u] = level[u] /\ fast'[u] = fast[u]
       /\ pc'[t] \in {"idle", "m_next"} /\ run' = run
  BY <1>1 DEF Grant, Unwind, Goto, SetLevel, TypeOK
<1>11. status' = [status EXCEPT ![I(s)] = v, ![I(t)] = ACQUIRE_PARENT]
  BY <1>6 DEF Grant
<1>12. /\ status'[I(s)] = v
       /\ \A n \in QNodes : n # I(s) /\ n # I(t) => status'[n] = status[n]
  BY <1>1, <1>6, <1>8, <1>11 DEF TypeOK
<1>13. ASSUME NEW u \in Threads, u # s, u # t PROVE Keeps(u)
  <2>1. \A n \in QNodes : n \notin {I(s), I(t)} => status'[n] = status[n]
    BY <1>12
  <2>2. \A l \in 1..Levels : Uses(u, l) => Node(u, l) \notin {I(s), I(t)}
    BY <1>1, <1>3, <1>7, <1>13, Unique DEF IInv
  <2> QED
    BY <1>10, <1>13, <2>1, <2>2, Bystander
<1> QED
  BY <1>6, <1>8, <1>9, <1>10, <1>12, <1>13

LEMMA MStoreRun ==
  ASSUME RunInv, NEW t \in Threads, MStore(t)
  PROVE  BoundedPassing' /\ RunOK'
<1>1. PICK v : v = IF level[t] = 1 THEN COHORT_START ELSE ACQUIRE_PARENT
  OBVIOUS
<1>2. Grant(t, v) /\ pc[t] = "m_store"
  BY <1>1 DEF MStore
<1>3. PICK s \in Threads :
        /\ s # t /\ pc[s] = "a_spin" /\ level[s] = level[t] /\ I(s) = next[I(t)]
        /\ pc'[s] = pc[s] /\ level'[s] = level[s] /\ fast'[s] = fast[s]
        /\ status'[I(s)] = v
        /\ \A u \in Threads : u # s /\ u # t => Keeps(u)
        /\ pc'[t] \in {"idle", "m_next"} /\ run' = run
  BY <1>2, GrantTo DEF RunInv
<1>4. Keeps(t)
  <2>1. ~ Counting(t)'
    BY <1>3 DEF Counting
  <2> QED
    BY <2>1 DEF Keeps
<1>5. Keeps(s)
  <2>1. I(s)' = I(s)
    BY <1>3 DEF I
  <2>2. level'[s] = 1 \/ status'[I(s)] = ACQUIRE_PARENT
    BY <1>1, <1>3
  <2>3. ~ Counting(s)'
    BY <1>3, <2>1, <2>2 DEF Counting, ACQUIRE_PARENT
  <2> QED
    BY <2>3 DEF Keeps
<1> QED
  BY <1>3, <1>4, <1>5, KeepsRun

(* The lock handed on within a cohort: the turn of the hnode at that level *)
(* is over, and those of the hnodes below it on the path to the successor  *)
(* begin.                                                                  *)
LEMMA RelPassRun ==
  ASSUME RunInv, IInv', NEW t \in Threads, RelPass(t)
  PROVE  BoundedPassing' /\ RunOK'
<1>0. PICK v : v = status[I(t)] + 1
  OBVIOUS
<1>1. PICK k \in 1..Levels : k = level[t]
  BY Here DEF RunInv, IInv
<1>2. Grant(t, v) /\ pc[t] = "r_pass" /\ IInv
  BY <1>0 DEF RelPass, RunInv
<1>3. /\ TypeOK /\ k > 1 /\ ~ fast[t] /\ Levels \in Nat \ {0} /\ Threshold \in Nat \ {0}
      /\ I(t) = Node(t, k)
  BY <1>1, <1>2, Here, HMCSAssumption DEF IInv, PlaceOK
<1>4. PICK s \in Threads :
        /\ s # t /\ pc[s] = "a_spin" /\ level[s] = k /\ I(s) = next[I(t)]
        /\ pc'[s] = pc[s] /\ level'[s] = level[s] /\ fast'[s] = fast[s]
        /\ I(s) \in QNodes /\ I(s) # I(t) /\ status'[I(s)] = v
        /\ \A l \in 1..Levels : l <= k => Path[s][l] = Path[t][l]
        /\ \A n \in QNodes : n # I(s) /\ n # I(t) => status'[n] = status[n]
        /\ \A u \in Threads : u # s /\ u # t => Keeps(u)
        /\ pc'[t] \in {"idle", "m_next"} /\ run' = run
  BY <1>1, <1>2, GrantTo
<1>5. Counting(t)
  BY <1>2, <1>3 DEF Counting
<1>6. PICK past \in [1..Levels -> Nat] : Counted(t, past)
  BY <1>5 DEF RunInv, RunOK
<1>7. /\ past[1] = 0 /\ run <= past[Levels] + 1
      /\ \A l \in 2..Levels : past[l] + 1 <= Threshold * past[l - 1] + status[Node(t, l)]
  BY <1>2, <1>6 DEF Counted
<1>8. \A u \in Threads : u # s => ~ Counting(u)'
  <2>1. ~ Counting(t)'
    BY <1>4 DEF Counting
  <2>2. \A u \in Threads : Counting(u) => u = t
    <3>1. 1 \in 1..Levels /\ Holds(t, 1)
      BY <1>2, <1>3, <1>5, CountingFacts
    <3> QED
      BY <1>2, <3>1, CountingFacts
  <2> QED
    BY <1>4, <2>1, <2>2 DEF Keeps
<1> DEFINE now == [l \in 1..Levels |-> IF l < k THEN past[l] ELSE past[l] + 1]
<1>9. now \in [1..Levels -> Nat]
  OBVIOUS
<1>10. \A l \in 1..Levels : now[l] = IF l < k THEN past[l] ELSE past[l] + 1
  OBVIOUS
<1> HIDE DEF now
<1>11. ASSUME Counting(s)' PROVE Counted(s, now)'
  <2>1. ~ fast[s] /\ pc[s] = "a_spin"
    BY <1>4, <1>11 DEF Counting
  <2>2. \A l \in 1..Levels : Node(s, l)' = Node(s, l)
    BY <1>4 DEF Node
  <2>3. I(s) = Node(s, k)
    BY <1>4 DEF I, Node
  <2>4. ASSUME NEW l \in 2..Levels
        PROVE  now[l] + 1 <= Threshold * now[l - 1] + (status[Node(s, l)])'
    <3>1. l \in 1..Levels /\ l - 1 \in 1..Levels /\ l - 1 < l
      BY <1>3
    <3> DEFINE a == past[l - 1]
               b == past[l]
               c == status[Node(t, l)]
               d == (status[Node(s, l)])'
    <3>2. a \in Nat /\ b \in Nat /\ c \in 1..Threshold /\ Node(t, l) \in QNodes
      BY <1>2, <1>5, <3>1, CountingFacts
    <3>3. b + 1 <= Threshold * a + c
      BY <1>7
    <3>4. d = status'[Node(s, l)]
      BY <2>2, <3>1
    <3>5. d \in 1..Threshold
      <4>1. Holds(s, l)'
        BY <1>11, <3>1 DEF Counting, Holds
      <4>2. CountOK(s)'
        BY DEF IInv
      <4>3. ~ (pc'[s] \in Releasing) /\ pc'[s] # "a_start"
            /\ ~ (pc'[s] = "a_spin" /\ (status[I(s)])' = ACQUIRE_PARENT)
        BY <1>4, <1>11, <2>1 DEF Releasing, Counting, ACQUIRE_PARENT
      <4> HIDE DEF d
      <4>4. d \in 1..Threshold
        BY <4>1, <4>2, <4>3 DEF CountOK, Releasing, ACQUIRE_PARENT, d
      <4> QED
        BY <4>4
    <3>6. Threshold * a \in Nat /\ Threshold * (a + 1) = Threshold * a + Threshold
      <4>1. a <= a
        BY <3>2
      <4> HIDE DEF a
      <4> QED
        BY <3>2, <4>1, Multiples
    <3>7. CASE l < k
      <4>1. now[l] = b /\ now[l - 1] = a
        BY <1>10, <3>1, <3>7
      <4>2. Node(s, l) = Node(t, l)
        <5>1. l + 1 \in 1..Levels /\ l + 1 <= k /\ l # Levels
          BY <1>3, <3>1, <3>7
        <5>2. Path[s][l + 1] = Path[t][l + 1]
          BY <1>4, <5>1
        <5> QED
          BY <1>3, <2>1, <5>1, <5>2 DEF Node
      <4>3. Node(t, l) # I(t) /\ Node(t, l) # I(s)
        <5>1. Uses(t, l) /\ Uses(t, k) /\ Uses(s, k)
          <6>1. Uses(t, l) /\ Uses(t, k)
            BY <1>2, <1>5, <3>1, CountingFacts
          <6>2. Uses(s, k)
            BY <1>2, <1>4, AtLevel DEF IInv, Queueing
          <6> QED
            BY <6>1, <6>2
        <5>2. l # k
          BY <3>1, <3>7
        <5> QED
          BY <1>2, <1>3, <1>4, <2>3, <3>1, <5>1, <5>2, Unique DEF IInv
      <4>4. d = c
        BY <1>4, <3>2, <3>4, <4>2, <4>3
      <4> HIDE DEF a, b, c, d
      <4> QED
        BY <3>3, <4>1, <4>4 DEF d
    <3>8. CASE l = k
      <4>1. now[l] = b + 1 /\ now[l - 1] = a
        BY <1>10, <3>1, <3>8
      <4>2. d = c + 1
        BY <1>0, <1>3, <1>4, <2>3, <3>4, <3>8
      <4> DEFINE m == Threshold * a
      <4>3. m \in Nat /\ b + 1 <= m + c
        BY <3>3, <3>6
      <4> HIDE DEF a, b, c, d, m
      <4>4. (b + 1) + 1 <= m + d
        BY <3>2, <4>2, <4>3
      <4> QED
        BY <4>1, <4>4 DEF m, d
    <3>9. CASE l > k
      <4>1. now[l] = b + 1 /\ now[l - 1] = a + 1
        <5>1. ~ (l < k) /\ ~ (l - 1 < k)
          BY <3>1, <3>9
        <5> QED
          BY <1>10, <3>1, <5>1
      <4> DEFINE m == Threshold * a
                 n == Threshold * (a + 1)
      <4>2. m \in Nat /\ b + 1 <= m + c /\ n = m + Threshold
        BY <3>3, <3>6
      <4> HIDE DEF a, b, c, d, m, n
      <4>3. (b + 1) + 1 <= n + d
        BY <1>3, <3>2, <3>5, <4>2
      <4> QED
        BY <4>1, <4>3 DEF n, d
    <3> QED
      BY <1>3, <3>1, <3>7, <3>8, <3>9
  <2>5. now[1] = 0
    BY <1>3, <1>7, <1>10
  <2>6. run + 1 <= now[Levels] + 1
    <3>1. Levels \in 1..Levels /\ ~ (Levels < k)
      BY <1>3
    <3>2. now[Levels] = past[Levels] + 1
      BY <1>10, <3>1
    <3>3. past[Levels] \in Nat /\ run \in Nat
      BY <1>3, <3>1 DEF TypeOK
    <3> QED
      BY <1>7, <3>2, <3>3
  <2>7. pc'[s] = "a_spin" /\ run' = run
    BY <1>4, <2>1
  <2> QED
    BY <2>4, <2>5, <2>6, <2>7 DEF Counted
<1>12. BoundedPassing'
  BY <1>4 DEF RunInv, BoundedPassing
<1>13. RunOK'
  BY <1>8, <1>9, <1>11 DEF RunOK
<1> QED
  BY <1>12, <1>13

LEMMA RunInit == Init => RunInv
<1> SUFFICES ASSUME Init PROVE RunInv
  OBVIOUS
<1>1. IInv
  BY InitInv
<1>2. BoundedPassing
  <2>1. Passes[Levels - 1] \in Nat \ {0}
    BY LastPasses
  <2> QED
    BY <2>1 DEF Init, BoundedPassing
<1>3. RunOK
  BY DEF Init, RunOK, Counting
<1> QED
  BY <1>1, <1>2, <1>3 DEF RunInv

LEMMA RunStep == RunInv /\ [Next]_vars => RunInv'
<1> SUFFICES ASSUME RunInv, [Next]_vars PROVE RunInv'
  OBVIOUS
<1>1. IInv'
  BY NextInv DEF RunInv
<1>2. ASSUME NEW t \in Threads, Moves(t) PROVE BoundedPassing' /\ RunOK'
  BY <1>1, <1>2, MovesRun, AcqSpinRun
<1>3. ASSUME NEW t \in Threads,
             LookAtRoot(t) \/ TryReuse(t) \/ AcqReuse(t) \/ AcqLink(t) \/ AcqStart(t)
      PROVE  BoundedPassing' /\ RunOK'
  BY <1>3, TakenRun
<1>4. ASSUME NEW t \in Threads, TryCAS(t) \/ AcqSwap(t) PROVE BoundedPassing' /\ RunOK'
  BY <1>1, <1>4, TryCASRun, AcqSwapRun
<1>5. ASSUME NEW t \in Threads, RelPass(t) \/ MStore(t) PROVE BoundedPassing' /\ RunOK'
  BY <1>1, <1>5, RelPassRun, MStoreRun
<1>6. ASSUME NEW t \in Threads, MCAS(t) PROVE BoundedPassing' /\ RunOK'
  BY <1>6, MCASRun
<1>7. CASE UNCHANGED vars
  <2>1. run' = run /\ pc' = pc /\ level' = level /\ fast' = fast /\ status' = status
    BY <1>7 DEF vars
  <2>2. \A u \in Threads : Keeps(u)
    BY <2>1 DEF Keeps, Counting, Node, I, WAIT, ACQUIRE_PARENT
  <2> QED
    BY <1>1, <2>1, <2>2, KeepsRun DEF RunInv
<1>8. BoundedPassing' /\ RunOK'
  BY <1>2, <1>3, <1>4, <1>5, <1>6, <1>7, KeepsRun DEF Next, Inside, Moves, RunInv
<1> QED
  BY <1>1, <1>8 DEF RunInv

(* A cohort keeps the lock for a bounded number of critical sections, at   *)
(* most Threshold to the power of the levels below the root, whatever the  *)
(* tree and the threshold: BoundedPassing.  Who holds an hnode counts its  *)
(* turns in the status of its queue node and gives the hnode up at the     *)
(* threshold (reuse_qnode and release_helper, ZM_HMCS_THRESHOLD).          *)
THEOREM PassingIsBounded == Spec => []BoundedPassing
<1>1. RunInv => BoundedPassing
  BY DEF RunInv
<1> QED
  BY <1>1, RunInit, RunStep, PTL DEF Spec
=============================================================================
