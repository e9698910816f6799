--------------------------- MODULE MSQueueProofs ---------------------------
(***************************************************************************)
(* What the Michael-Scott queue does for every number of threads and nodes *)
(* and every scan factor: its list keeps its shape, no thread follows a    *)
(* pointer to a node that a scan let go of, and it is a FIFO queue that is *)
(* called empty only when it is.                                           *)
(***************************************************************************)
EXTENDS MSQueue, SequenceTheorems, TLAPS

(* The line from the head to the only node without a successor.            *)
LEMMA LineFacts ==
  ASSUME IInv
  PROVE  /\ line \in Seq(Nodes) /\ Len(line) \in Nat /\ Len(line) > 0
         /\ \A i \in 1..Len(line) :
              line[i] \in Nodes /\ line[i] \in Linked /\ InLine(line[i])
         /\ \A n : InLine(n) => n \in Linked
         /\ \A n \in Linked : n \in alive /\ n \in Nodes
         /\ head = line[1] /\ InLine(head) /\ InLine(tail)
         /\ next[line[Len(line)]] = NULL
<1>1. line \in Seq(Nodes) /\ Len(line) \in Nat /\ Len(line) > 0
  BY DEF IInv, ListOK, TypeOK
<1>2. \A i \in 1..Len(line) : line[i] \in Nodes /\ line[i] \in Linked
  BY <1>1 DEF IInv, LineOK
<1>3. 1 \in 1..Len(line) /\ Len(line) \in 1..Len(line)
  BY <1>1
<1>4. InLine(tail)
  <2>1. CASE tail = line[Len(line)]
    BY <1>3, <2>1 DEF InLine
  <2>2. CASE Len(line) > 1 /\ tail = line[Len(line) - 1]
    <3>1. Len(line) - 1 \in 1..Len(line)
      BY <1>1, <2>2
    <3> QED
      BY <2>2, <3>1 DEF InLine
  <2> QED
    BY <2>1, <2>2 DEF IInv, ListOK
<1>5. head = line[1] /\ InLine(head)
  BY <1>3 DEF IInv, ListOK, InLine
<1>6. next[line[Len(line)]] = NULL
  BY <1>1, <1>3 DEF IInv, ListOK
<1>7. \A n \in Linked : n \in alive /\ n \in Nodes
  BY DEF Linked, IInv, ListOK, TypeOK
<1> QED
  BY <1>1, <1>2, <1>4, <1>5, <1>6, <1>7 DEF InLine

(* A former head that has no successor is the whole line.                  *)
LEMMA Alone ==
  ASSUME IInv, NEW n \in Linked, InLine(n) => n = head, next[n] = NULL
  PROVE  Len(line) = 1 /\ n = head /\ tail = n
<1>1. n = line[Len(line)] /\ n = line[1] /\ n = head
  BY LineFacts DEF IInv, LineOK
<1>2. 1 \in 1..Len(line) /\ Len(line) \in 1..Len(line)
  BY LineFacts
<1>3. Len(line) = 1
  BY <1>1, <1>2 DEF IInv, LineOK
<1> QED
  BY <1>1, <1>3 DEF IInv, ListOK

LEMMA InitInv == Init => IInv
<1> SUFFICES ASSUME Init PROVE IInv
  OBVIOUS
<1>1. head \in Nodes /\ NULL \notin Nodes
  BY MSQueueAssumption, HzdPtrAssumption DEF Init
<1>2. /\ line = << head >> /\ Len(line) = 1 /\ line[1] = head /\ tail = head
      /\ alive = {head}
      /\ next = [n \in Nodes |-> NULL]
      /\ \A t \in Threads : pc[t] = "idle"
  BY DEF Init
<1>3. /\ hplist = << >> /\ hplength = 0 /\ reclaimed = {}
      /\ \A t \in Threads : hpc[t] = "null" /\ rlist[t] = {}
  BY DEF Init, HPInit, HPInitWith
<1>4. TypeOK
  <2>1. HPTypeOK
    <3>1. /\ hp \in [Threads -> [Slots -> Nodes \cup {NULL}]]
          /\ rlist \in [Threads -> SUBSET Nodes]
          /\ plist \in [Threads -> SUBSET Nodes]
      BY DEF Init, HPInit, HPInitWith
    <3>2. todo \in [Threads -> Seq(Threads \X Slots)]
      BY DEF Init, HPInit, HPInitWith
    <3>3. hpc \in [Threads -> {"null", "push", "init", "ready", "scan"}]
      BY DEF Init, HPInit, HPInitWith
    <3> QED
      BY <1>3, <3>1, <3>2, <3>3 DEF HPTypeOK
  <2>2. line \in Seq(Nodes) /\ next \in [Nodes -> Nodes \cup {NULL}]
    BY <1>1, <1>2
  <2> QED
    BY <1>1, <1>2, <2>1, <2>2 DEF Init, TypeOK
<1>5. ListOK
  BY <1>1, <1>2, <1>4 DEF ListOK
<1>6. Linked = {head} /\ LineOK
  BY <1>1, <1>2 DEF LineOK, Linked, Pending
<1>7. GoneOK
  BY <1>3 DEF GoneOK
<1>8. ASSUME NEW t \in Threads PROVE ThreadOK(t)
  BY <1>2, <1>3 DEF ThreadOK, EnqOK, DeqOK, RetireOK, SlotsOK, Pending, Leaving,
     ReliesOn
<1> QED
  BY <1>5, <1>6, <1>7, <1>8 DEF IInv
-----------------------------------------------------------------------------
(* A compare-and-swap that finds another value.                            *)
LinkFails(t) == EnqLink(t) /\ next[ltail[t]] # NULL
MoveFails(t) == DeqMove(t) /\ head # lhead[t]

(* Steps that move one thread between places and change its locals and     *)
(* slots only.                                                             *)
LocalStep(t) ==
  \/ EnqTail(t) \/ EnqPublish(t) \/ EnqCheck(t) \/ EnqNext(t)
  \/ DeqBegin(t) \/ DeqHead(t) \/ DeqPublish(t) \/ DeqCheck(t) \/ DeqTail(t)
  \/ DeqNext(t) \/ DeqProtect(t) \/ DeqTake(t)
  \/ LinkFails(t) \/ MoveFails(t)

LEMMA LocalType ==
  ASSUME IInv, NEW t \in Threads, LocalStep(t)
  PROVE  TypeOK'
<1> TypeOK
  BY DEF IInv, ListOK
<1>0. (pc[t] = "e_next" => ltail[t] \in Nodes) /\ (pc[t] = "d_next" => lhead[t] \in Nodes)
  BY LineFacts DEF IInv, ThreadOK, EnqOK, DeqOK
<1>1. ASSUME EnqTail(t) \/ EnqCheck(t) \/ EnqNext(t) PROVE TypeOK'
  <2>1. HPTypeOK'
    BY <1>1 DEF EnqTail, EnqCheck, EnqNext, TypeOK, HPTypeOK, hpVars
  <2> QED
    BY <1>0, <1>1, <2>1 DEF EnqTail, EnqCheck, EnqNext, TypeOK, At, Goto, memory, locals,
       history
<1>2. ASSUME DeqBegin(t) \/ DeqHead(t) \/ DeqCheck(t) \/ DeqTail(t) \/ DeqTake(t)
      PROVE  TypeOK'
  <2>1. HPTypeOK'
    BY <1>2 DEF DeqBegin, DeqHead, DeqCheck, DeqTail, DeqTake, TypeOK, HPTypeOK, hpVars
  <2> QED
    <3>1. CASE DeqBegin(t) \/ DeqTake(t)
      BY <2>1, <3>1 DEF DeqBegin, DeqTake, TypeOK, At, Goto, memory, history
    <3>2. CASE DeqHead(t) \/ DeqCheck(t) \/ DeqTail(t)
      BY <2>1, <3>2 DEF DeqHead, DeqCheck, DeqTail, TypeOK, At, Goto, memory, locals,
         history
    <3> QED
      BY <1>2, <3>1, <3>2
<1>3. ASSUME DeqNext(t) PROVE TypeOK'
  <2>1. HPTypeOK'
    BY <1>3 DEF DeqNext, TypeOK, HPTypeOK, hpVars
  <2> QED
    BY <1>0, <1>3, <2>1 DEF DeqNext, TypeOK, At, Goto, memory
<1>4. ASSUME EnqPublish(t) \/ DeqPublish(t) \/ DeqProtect(t) PROVE TypeOK'
  <2>1. \E i \in Slots, n \in Nodes \cup {NULL} : Publish(t, i, n)
    BY <1>4 DEF EnqPublish, DeqPublish, DeqProtect, TypeOK, Slots
  <2>2. HPTypeOK'
    BY <2>1 DEF Publish, TypeOK, HPTypeOK
  <2>3. CASE EnqPublish(t) \/ DeqPublish(t)
    BY <2>2, <2>3 DEF EnqPublish, DeqPublish, TypeOK, At, Goto, memory, locals, history
  <2>4. CASE DeqProtect(t)
    BY <2>2, <2>4 DEF DeqProtect, TypeOK, Goto, Return, memory
  <2> QED
    BY <1>4, <2>3, <2>4
<1>5. ASSUME LinkFails(t) \/ MoveFails(t) PROVE TypeOK'
  <2>1. HPTypeOK'
    BY <1>5 DEF LinkFails, MoveFails, EnqLink, DeqMove, TypeOK, HPTypeOK, hpVars
  <2> QED
    BY <1>5, <2>1 DEF LinkFails, MoveFails, EnqLink, DeqMove, TypeOK, Goto, locals,
       history
<1> QED
  BY <1>1, <1>2, <1>3, <1>4, <1>5 DEF LocalStep

(* They disturb nothing that holds of other threads.                       *)
LEMMA LocalFrame ==
  ASSUME IInv, NEW t \in Threads, LocalStep(t)
  PROVE  /\ head' = head /\ tail' = tail /\ next' = next /\ alive' = alive
         /\ line' = line /\ hplist' = hplist /\ hplength' = hplength /\ rlist' = rlist
         /\ hpc' = hpc /\ plist' = plist /\ todo' = todo /\ reclaimed' = reclaimed
         /\ \A u \in Threads \ {t} :
              /\ pc'[u] = pc[u] /\ node'[u] = node[u] /\ lhead'[u] = lhead[u]
              /\ ltail'[u] = ltail[u] /\ lnext'[u] = lnext[u] /\ hp'[u] = hp[u]
              /\ sawEmpty'[u] = sawEmpty[u]
         /\ Pending(t)' <=> Pending(t)
         /\ Pending(t) => node'[t] = node[t]
         /\ Leaving(t)' <=> Leaving(t)
         /\ Leaving(t) => lhead'[t] = lhead[t] /\ lnext'[t] = lnext[t]
<1> TypeOK
  BY DEF IInv, ListOK
<1>1. CASE EnqTail(t) \/ EnqCheck(t) \/ EnqNext(t)
  BY <1>1 DEF EnqTail, EnqCheck, EnqNext, TypeOK, At, Goto, memory, locals,
     history, hpVars, Pending, Leaving
<1>2. CASE DeqBegin(t) \/ DeqTake(t) \/ DeqNext(t)
  BY <1>2 DEF DeqBegin, DeqTake, DeqNext, Free, TypeOK, At, Goto, memory, history,
     hpVars, Pending, Leaving
<1>3. CASE DeqHead(t) \/ DeqCheck(t) \/ DeqTail(t)
  BY <1>3 DEF DeqHead, DeqCheck, DeqTail, TypeOK, At, Goto, memory, locals, history,
     hpVars, Pending, Leaving
<1>4. CASE EnqPublish(t) \/ DeqPublish(t)
  BY <1>4 DEF EnqPublish, DeqPublish, Publish, TypeOK, HPTypeOK, At, Goto, memory,
     locals, history, Pending, Leaving
<1>5. CASE DeqProtect(t)
  BY <1>5 DEF DeqProtect, Publish, TypeOK, HPTypeOK, Goto, Return, memory, Pending,
     Leaving
<1>6. CASE LinkFails(t) \/ MoveFails(t)
  BY <1>6 DEF LinkFails, MoveFails, EnqLink, DeqMove, TypeOK, Goto, locals, history,
     hpVars, Pending, Leaving
<1> QED
  BY <1>1, <1>2, <1>3, <1>4, <1>5, <1>6 DEF LocalStep

LEMMA LocalEnq ==
  ASSUME IInv, NEW t \in Threads, LocalStep(t), Linked' = Linked
  PROVE  EnqOK(t)'
<1> TypeOK /\ EnqOK(t)
  BY DEF IInv, ListOK, ThreadOK
<1>1. /\ tail' = tail /\ next' = next /\ alive' = alive /\ line' = line
      /\ \A u \in Threads \ {t} : pc'[u] = pc[u] /\ node'[u] = node[u]
      /\ Pending(t)' <=> Pending(t)
      /\ Pending(t) => node'[t] = node[t]
  BY LocalFrame
<1>2. Pending(t)' =>
        /\ node'[t] \in alive' /\ next'[node'[t]] = NULL
        /\ \A u \in Threads \ {t} : Pending(u)' => node'[u] # node'[t]
  BY <1>1 DEF EnqOK, Pending
<1>3. CASE EnqTail(t)
  BY <1>1, <1>2, <1>3, LineFacts DEF EnqTail, EnqOK, TypeOK, At, Goto
<1>4. CASE EnqPublish(t) \/ EnqCheck(t)
  BY <1>1, <1>2, <1>4 DEF EnqPublish, EnqCheck, EnqOK, TypeOK, At, Goto, locals
<1>5. CASE EnqNext(t)
  BY <1>1, <1>2, <1>5 DEF EnqNext, EnqOK, TypeOK, Goto
<1>6. CASE LinkFails(t)
  BY <1>1, <1>2, <1>6 DEF LinkFails, EnqLink, EnqOK, TypeOK, Goto
<1>7. CASE ~ (EnqTail(t) \/ EnqPublish(t) \/ EnqCheck(t) \/ EnqNext(t) \/ LinkFails(t))
  <2>1. pc'[t] \in {"idle", "d_head", "d_publish", "d_check", "d_tail", "d_next",
                    "d_protect", "d_help", "d_move", "d_retire"}
    BY <1>7 DEF LocalStep, DeqBegin, DeqHead, DeqPublish, DeqCheck, DeqTail, DeqNext,
       DeqProtect, DeqTake, MoveFails, DeqMove, TypeOK, At, Goto, Return
  <2> QED
    BY <2>1 DEF EnqOK, Pending
<1> QED
  BY <1>3, <1>4, <1>5, <1>6, <1>7

LEMMA LocalDeq ==
  ASSUME IInv, NEW t \in Threads, LocalStep(t), Linked' = Linked,
         \A n : InLine(n)' <=> InLine(n)
  PROVE  DeqOK(t)'
<1> TypeOK /\ DeqOK(t)
  BY DEF IInv, ListOK, ThreadOK
<1>1. head' = head /\ tail' = tail /\ next' = next
  BY LocalFrame
<1>2. CASE DeqHead(t)
  BY <1>1, <1>2, LineFacts DEF DeqHead, DeqOK, TypeOK, At, Goto
<1>3. CASE DeqPublish(t) \/ DeqCheck(t)
  BY <1>1, <1>3 DEF DeqPublish, DeqCheck, DeqOK, TypeOK, At, Goto, locals
<1>4. CASE DeqTail(t)
  <2>1. lhead[t] \in Linked /\ (InLine(lhead[t]) => lhead[t] = head)
    BY <1>4 DEF DeqTail, DeqOK, At
  <2>2. tail # lhead[t] => next[lhead[t]] # NULL
    BY <2>1, Alone
  <2> QED
    BY <1>1, <1>4, <2>1, <2>2 DEF DeqTail, DeqOK, TypeOK, At, Goto
<1>5. CASE DeqNext(t)
  <2>1. ASSUME next[lhead[t]] = NULL PROVE Len(line) = 1
    BY <1>5, <2>1, Alone DEF DeqNext, At, DeqOK
  <2> QED
    BY <1>1, <1>5, <2>1 DEF DeqNext, DeqOK, TypeOK, At, Goto
<1>6. CASE DeqProtect(t)
  BY <1>1, <1>6 DEF DeqProtect, DeqOK, TypeOK, Goto, Return
<1>7. CASE ~ (\/ DeqHead(t) \/ DeqPublish(t) \/ DeqCheck(t) \/ DeqTail(t)
              \/ DeqNext(t) \/ DeqProtect(t))
  <2>1. pc'[t] \in {"e_tail", "e_publish", "e_check", "e_next", "e_link", "e_help",
                    "d_head", "d_retire"}
    BY <1>7 DEF LocalStep, EnqTail, EnqPublish, EnqCheck, EnqNext, LinkFails, EnqLink,
       DeqBegin, DeqTake, MoveFails, DeqMove, TypeOK, At, Goto
  <2> QED
    BY <2>1 DEF DeqOK
<1> QED
  BY <1>2, <1>3, <1>4, <1>5, <1>6, <1>7

(* A node in the line is on no retired list.                               *)
LEMMA InLineKept ==
  ASSUME IInv, NEW n, InLine(n)
  PROVE  n \notin reclaimed /\ \A u \in Threads : n \notin rlist[u]
BY DEF IInv, GoneOK

LEMMA LocalSlots ==
  ASSUME IInv, NEW t \in Threads, LocalStep(t)
  PROVE  SlotsOK(t)'
<1> TypeOK /\ HPTypeOK /\ SlotsOK(t)
  BY DEF IInv, ListOK, ThreadOK, TypeOK
<1>1. /\ tail' = tail /\ hplist' = hplist /\ rlist' = rlist /\ hpc' = hpc
      /\ plist' = plist /\ todo' = todo /\ reclaimed' = reclaimed
  BY LocalFrame
<1>2. hpc[t] = "ready"
  BY DEF SlotsOK, LocalStep, EnqTail, EnqPublish, EnqCheck, EnqNext, DeqBegin, Free,
     DeqHead, DeqPublish, DeqCheck, DeqTail, DeqNext, DeqProtect, DeqTake, At,
     LinkFails, EnqLink, MoveFails, DeqMove
<1>3. /\ pc'[t] # "idle" => hpc'[t] = "ready"
      /\ hpc'[t] \in {"init", "ready", "scan"} =>
           \E k \in 1..Len(hplist') : hplist'[k] = t
  BY <1>1, <1>2 DEF SlotsOK
<1>4. /\ pc'[t] \in {"e_check", "e_next", "e_link"} => hp'[t][0] = ltail'[t]
      /\ pc'[t] \in {"d_check", "d_tail", "d_next"} => hp'[t][0] = lhead'[t]
      /\ pc'[t] \in {"d_move", "d_take"} => hp'[t][1] = lnext'[t]
  <2>1. CASE EnqTail(t) \/ EnqCheck(t) \/ EnqNext(t)
    BY <2>1 DEF EnqTail, EnqCheck, EnqNext, SlotsOK, TypeOK, At, Goto, locals, hpVars
  <2>2. CASE DeqBegin(t) \/ DeqHead(t) \/ DeqCheck(t) \/ DeqTail(t) \/ DeqNext(t)
               \/ DeqTake(t)
    BY <2>2 DEF DeqBegin, DeqHead, DeqCheck, DeqTail, DeqNext, DeqTake, SlotsOK,
       TypeOK, At, Goto, locals, hpVars
  <2>3. CASE EnqPublish(t) \/ DeqPublish(t)
    BY <2>3 DEF EnqPublish, DeqPublish, Publish, Slots, SlotsOK, TypeOK, HPTypeOK, At,
       Goto, locals
  <2>4. CASE DeqProtect(t)
    BY <2>4 DEF DeqProtect, Publish, Slots, SlotsOK, TypeOK, HPTypeOK, Goto, Return
  <2>5. CASE LinkFails(t) \/ MoveFails(t)
    BY <2>5 DEF LinkFails, EnqLink, MoveFails, DeqMove, TypeOK, Goto
  <2> QED
    BY <2>1, <2>2, <2>3, <2>4, <2>5 DEF LocalStep
<1>5. ASSUME NEW i \in Slots, ReliesOn(t, i)'
      PROVE  /\ hp'[t][i] = hp[t][i]
             /\ ReliesOn(t, i) \/ InLine(hp[t][i])
  <2>1. CASE EnqCheck(t) \/ DeqCheck(t)
    BY <1>5, <2>1, LineFacts DEF EnqCheck, DeqCheck, SlotsOK, TypeOK, ReliesOn, Goto,
       hpVars
  <2>2. CASE EnqTail(t) \/ EnqNext(t) \/ DeqBegin(t) \/ DeqHead(t) \/ DeqTail(t)
               \/ DeqNext(t) \/ DeqTake(t)
    BY <1>5, <2>2 DEF EnqTail, EnqNext, DeqBegin, DeqHead, DeqTail, DeqNext, DeqTake,
       SlotsOK, TypeOK, ReliesOn, At, Goto, hpVars
  <2>3. CASE EnqPublish(t) \/ DeqPublish(t) \/ DeqProtect(t)
    BY <1>5, <2>3 DEF EnqPublish, DeqPublish, DeqProtect, TypeOK, ReliesOn, At, Goto,
       Return
  <2>4. CASE LinkFails(t) \/ MoveFails(t)
    BY <1>5, <2>4 DEF LinkFails, EnqLink, MoveFails, DeqMove, TypeOK, ReliesOn, Goto
  <2> QED
    BY <2>1, <2>2, <2>3, <2>4 DEF LocalStep
<1>6. ASSUME NEW i \in Slots, ReliesOn(t, i)'
      PROVE  /\ hp'[t][i] \notin reclaimed'
             /\ \A u \in Threads : Noticed(u, t, i)'
  <2>1. CASE ReliesOn(t, i)
    BY <1>1, <1>5, <1>6, <2>1 DEF SlotsOK, Noticed
  <2>2. CASE InLine(hp[t][i])
    BY <1>1, <1>5, <1>6, <2>2, InLineKept DEF Noticed
  <2> QED
    BY <1>5, <1>6, <2>1, <2>2
<1> QED
  BY <1>3, <1>4, <1>6 DEF SlotsOK

LEMMA LocalInv ==
  ASSUME IInv, NEW t \in Threads, LocalStep(t)
  PROVE  IInv'
<1>1. /\ head' = head /\ tail' = tail /\ next' = next /\ alive' = alive
      /\ line' = line /\ hplist' = hplist /\ rlist' = rlist
      /\ hpc' = hpc /\ plist' = plist /\ todo' = todo /\ reclaimed' = reclaimed
  BY LocalFrame
<1>2. ASSUME NEW u \in Threads, u # t
      PROVE  /\ pc'[u] = pc[u] /\ node'[u] = node[u] /\ lhead'[u] = lhead[u]
             /\ ltail'[u] = ltail[u] /\ lnext'[u] = lnext[u] /\ hp'[u] = hp[u]
             /\ sawEmpty'[u] = sawEmpty[u]
  BY <1>2, LocalFrame
<1>3. /\ \A u \in Threads : Pending(u)' <=> Pending(u)
      /\ \A u \in Threads : Pending(u) => node'[u] = node[u]
      /\ \A u \in Threads : Leaving(u)' <=> Leaving(u)
      /\ \A u \in Threads :
           Leaving(u) => lhead'[u] = lhead[u] /\ lnext'[u] = lnext[u]
  BY <1>2, LocalFrame DEF Pending, Leaving
<1>4. Linked' = Linked /\ \A n : InLine(n)' <=> InLine(n)
  BY <1>1, <1>3 DEF Linked, InLine
<1>5. ListOK'
  BY <1>1, LocalType DEF IInv, ListOK
<1>6. LineOK'
  BY <1>1, <1>4 DEF IInv, LineOK
<1>7. GoneOK'
  BY <1>1, <1>4 DEF IInv, GoneOK
<1>8. ASSUME NEW u \in Threads PROVE ThreadOK(u)'
  <2> ThreadOK(u)
    BY DEF IInv
  <2>1. RetireOK(u)'
    BY <1>1, <1>3, <1>4 DEF ThreadOK, RetireOK
  <2>2. CASE u = t
    BY <1>4, <2>1, <2>2, LocalEnq, LocalDeq, LocalSlots DEF ThreadOK
  <2>3. CASE u # t
    <3>1. EnqOK(u)'
      BY <1>1, <1>2, <1>3, <1>4, <2>3 DEF ThreadOK, EnqOK
    <3>2. DeqOK(u)'
      BY <1>1, <1>2, <1>4, <2>3 DEF ThreadOK, DeqOK
    <3>3. SlotsOK(u)'
      BY <1>1, <1>2, <2>3 DEF ThreadOK, SlotsOK, ReliesOn, Noticed
    <3> QED
      BY <2>1, <3>1, <3>2, <3>3 DEF ThreadOK
  <2> QED
    BY <2>2, <2>3
<1> QED
  BY <1>5, <1>6, <1>7, <1>8 DEF IInv

(* The moves of the tail, which end an operation or send it back.          *)
LEMMA TailInv ==
  ASSUME IInv, NEW t \in Threads, EnqHelp(t) \/ EnqSwing(t) \/ DeqHelp(t)
  PROVE  IInv'
<1> DEFINE n == Len(line)
<1> TypeOK /\ ThreadOK(t)
  BY DEF IInv, ListOK
<1>1. /\ UNCHANGED <<hpVars, head, next, alive, line, sawEmpty, out>>
      /\ (EnqSwing(t) /\ Return(t)) \/ UNCHANGED <<node, lhead, ltail, lnext>>
  BY DEF EnqHelp, EnqSwing, DeqHelp, locals, history
<1>2. /\ hp' = hp /\ rlist' = rlist /\ hpc' = hpc /\ plist' = plist /\ todo' = todo
      /\ reclaimed' = reclaimed /\ hplist' = hplist /\ hplength' = hplength
  BY <1>1 DEF hpVars
<1>3. /\ pc'[t] \in {"idle", "e_tail", "d_head"} /\ pc[t] # "idle"
      /\ pc \in [Threads -> {"idle", "e_tail", "e_publish", "e_check", "e_next",
               "e_link", "e_help", "e_swing", "d_head", "d_publish", "d_check",
               "d_tail", "d_next", "d_protect", "d_help", "d_move", "d_take",
               "d_retire"}]
      /\ pc' = [pc EXCEPT ![t] = pc'[t]]
      /\ Pending(t)' <=> Pending(t)
      /\ Pending(t) => node'[t] = node[t]
      /\ ~ Leaving(t) /\ ~ Leaving(t)'
  BY DEF EnqHelp, EnqSwing, DeqHelp, TypeOK, At, Goto, Return, Pending, Leaving, locals
<1>4. ASSUME NEW u \in Threads, u # t
      PROVE  /\ pc'[u] = pc[u] /\ node'[u] = node[u] /\ lhead'[u] = lhead[u]
             /\ ltail'[u] = ltail[u] /\ lnext'[u] = lnext[u]
  BY <1>1, <1>3, <1>4 DEF Return, TypeOK
<1>5. tail' = tail \/ (n > 1 /\ tail = line[n - 1] /\ tail' = line[n])
  <2>1. tail' = tail \/ (tail' = next[tail] /\ next[tail] # NULL)
    BY DEF EnqHelp, EnqSwing, DeqHelp, MoveTail, At, ThreadOK, EnqOK, DeqOK
  <2>2. next[tail] # NULL => n > 1 /\ tail = line[n - 1]
    BY LineFacts DEF IInv, ListOK
  <2>3. n > 1 => next[line[n - 1]] = line[n]
    <3>1. SUFFICES ASSUME n > 1 PROVE next[line[n - 1]] = line[n]
      OBVIOUS
    <3>2. n - 1 \in 1..n /\ n - 1 < n /\ (n - 1) + 1 = n
      BY <3>1, LineFacts
    <3> QED
      BY <3>2 DEF IInv, ListOK
  <2> QED
    BY <2>1, <2>2, <2>3
<1>6. /\ \A u \in Threads : Pending(u)' <=> Pending(u)
      /\ \A u \in Threads : Pending(u) => node'[u] = node[u]
      /\ \A u \in Threads : Leaving(u)' <=> Leaving(u)
  BY <1>3, <1>4 DEF Pending, Leaving
<1>7. Linked' = Linked /\ \A m : InLine(m)' <=> InLine(m)
  BY <1>1, <1>6 DEF Linked, InLine
<1>8. ListOK'
  <2>1. tail' \in Nodes
    BY <1>5, LineFacts DEF TypeOK
  <2>2. HPTypeOK'
    BY <1>2 DEF TypeOK, HPTypeOK
  <2>3. TypeOK'
    BY <1>1, <1>3, <2>1, <2>2 DEF TypeOK, Return
  <2> QED
    BY <1>1, <1>5, <2>3 DEF IInv, ListOK
<1>9. LineOK' /\ GoneOK'
  BY <1>1, <1>2, <1>7 DEF IInv, LineOK, GoneOK
<1>10. ASSUME NEW u \in Threads PROVE ThreadOK(u)'
  <2> ThreadOK(u)
    BY DEF IInv
  <2>1. RetireOK(u)'
    BY <1>2, <1>3, <1>4, <1>6, <1>7 DEF ThreadOK, RetireOK
  <2>2. EnqOK(u)'
    <3>1. CASE u = t
      BY <1>1, <1>3, <1>4, <1>6, <3>1 DEF ThreadOK, EnqOK
    <3>2. CASE u # t
      BY <1>1, <1>4, <1>5, <1>6, <1>7, <3>2 DEF ThreadOK, EnqOK
    <3> QED
      BY <3>1, <3>2
  <2>3. DeqOK(u)'
    <3>1. CASE u = t
      BY <1>3, <3>1 DEF DeqOK
    <3>2. CASE u # t
      <4>1. n > 1 => line[n] # head
        <5>1. 1 \in 1..n /\ n \in 1..n
          BY LineFacts
        <5> QED
          BY <5>1, LineFacts DEF IInv, LineOK
      <4> QED
        BY <1>1, <1>4, <1>5, <1>7, <3>2, <4>1 DEF ThreadOK, DeqOK
    <3> QED
      BY <3>1, <3>2
  <2>4. SlotsOK(u)'
    <3>1. CASE u = t
      BY <1>2, <1>3, <3>1 DEF ThreadOK, SlotsOK, ReliesOn
    <3>2. CASE u # t
      BY <1>2, <1>4, <3>2 DEF ThreadOK, SlotsOK, ReliesOn, Noticed
    <3> QED
      BY <3>1, <3>2
  <2> QED
    BY <2>1, <2>2, <2>3, <2>4 DEF ThreadOK
<1> QED
  BY <1>8, <1>9, <1>10 DEF IInv

(* A new node is nobody else's.                                            *)
LEMMA AllocInv ==
  ASSUME IInv, NEW t \in Threads, EnqAlloc(t)
  PROVE  IInv'
<1> DEFINE m == CHOOSE k \in Nodes : k \notin alive
<1> TypeOK /\ HPTypeOK
  BY DEF IInv, ListOK, TypeOK
<1>1. m \in Nodes /\ m \notin alive
  <2>1. \E k \in Nodes : k \notin alive
    BY DEF EnqAlloc, TypeOK
  <2> QED
    BY <2>1
<1> HIDE DEF m
<1>2. /\ alive' = alive \cup {m} /\ node' = [node EXCEPT ![t] = m]
      /\ next' = [next EXCEPT ![m] = NULL] /\ pc' = [pc EXCEPT ![t] = "e_tail"]
      /\ pc[t] = "idle" /\ hpc[t] = "ready"
  BY DEF EnqAlloc, Free, Goto, m
<1>3. /\ head' = head /\ tail' = tail /\ line' = line /\ lhead' = lhead
      /\ ltail' = ltail /\ lnext' = lnext /\ out' = out /\ sawEmpty' = sawEmpty
      /\ hp' = hp /\ rlist' = rlist /\ hpc' = hpc /\ plist' = plist /\ todo' = todo
      /\ reclaimed' = reclaimed /\ hplist' = hplist /\ hplength' = hplength
  BY DEF EnqAlloc, hpVars, history
<1>4. /\ pc'[t] = "e_tail" /\ node'[t] = m /\ next'[m] = NULL
      /\ \A u \in Threads : u # t => pc'[u] = pc[u] /\ node'[u] = node[u]
      /\ \A k \in alive : next'[k] = next[k] /\ k # m
  BY <1>1, <1>2 DEF TypeOK
<1>5. /\ Pending(t)' /\ ~ Pending(t)
      /\ \A u \in Threads : u # t => (Pending(u)' <=> Pending(u))
      /\ \A u \in Threads : Leaving(u)' <=> Leaving(u)
  BY <1>2, <1>4 DEF Pending, Leaving
<1>6. Linked' = Linked
  <2>1. ASSUME NEW k \in Linked PROVE k \in Linked'
    BY <1>2, <1>4, <1>5 DEF Linked
  <2>2. ASSUME NEW k \in Linked' PROVE k \in Linked
    BY <1>2, <1>4, <1>5 DEF Linked
  <2> QED
    BY <2>1, <2>2
<1>7. \A k : InLine(k)' <=> InLine(k)
  BY <1>3 DEF InLine
<1>8. ListOK'
  <2>1. HPTypeOK'
    BY <1>3 DEF HPTypeOK
  <2>2. TypeOK'
    BY <1>1, <1>2, <1>3, <2>1 DEF TypeOK
  <2> QED
    BY <1>3, <1>4, <2>2, LineFacts DEF IInv, ListOK
<1>9. LineOK'
  BY <1>3, <1>4, <1>6, LineFacts DEF IInv, LineOK
<1>10. GoneOK'
  BY <1>3, <1>6, <1>7 DEF IInv, GoneOK
<1>11. ASSUME NEW u \in Threads PROVE ThreadOK(u)'
  <2> ThreadOK(u)
    BY DEF IInv
  <2>1. RetireOK(u)'
    BY <1>3, <1>5, <1>6, <1>7 DEF ThreadOK, RetireOK
  <2>2. CASE u = t
    <3>1. \A w \in Threads \ {t} : Pending(w)' => node'[w] # m
      BY <1>1, <1>4, <1>5 DEF IInv, ThreadOK, EnqOK
    <3>2. EnqOK(t)'
      BY <1>2, <1>4, <3>1 DEF EnqOK
    <3>3. DeqOK(t)' /\ SlotsOK(t)'
      BY <1>2, <1>3, <1>4, <2>2 DEF ThreadOK, DeqOK, SlotsOK, ReliesOn
    <3> QED
      BY <2>1, <2>2, <3>2, <3>3 DEF ThreadOK
  <2>3. CASE u # t
    <3>1. EnqOK(u)'
      <4>1. Pending(u) => node[u] # m
        BY <1>1 DEF ThreadOK, EnqOK
      <4>2. \A k \in Linked : next'[k] = next[k]
        BY <1>4, LineFacts
      <4>3. pc[u] = pc'[u] /\ node'[u] = node[u]
        BY <1>4, <2>3
      <4> QED
        BY <1>2, <1>3, <1>4, <1>5, <1>6, <2>3, <4>1, <4>2, <4>3 DEF ThreadOK, EnqOK
    <3>2. DeqOK(u)'
      BY <1>3, <1>4, <1>6, <1>7, <2>3, LineFacts DEF ThreadOK, DeqOK
    <3>3. SlotsOK(u)'
      BY <1>3, <1>4, <2>3 DEF ThreadOK, SlotsOK, ReliesOn, Noticed
    <3> QED
      BY <2>1, <3>1, <3>2, <3>3 DEF ThreadOK
  <2> QED
    BY <2>2, <2>3
<1> QED
  BY <1>8, <1>9, <1>10, <1>11 DEF IInv

(* The link goes behind the last node, where the tail is too.              *)
LEMMA LinkInv ==
  ASSUME IInv, NEW t \in Threads, EnqLink(t), next[ltail[t]] = NULL
  PROVE  IInv'
<1> DEFINE n == Len(line)
           m == node[t]
           last == line[n]
<1> TypeOK /\ HPTypeOK /\ ThreadOK(t)
  BY DEF IInv, ListOK, TypeOK
<1>1. n \in Nat /\ n > 0 /\ n \in 1..n /\ 1 \in 1..n
  BY LineFacts
<1>2. ltail[t] = last /\ tail = last /\ last \in Linked /\ last \in Nodes
  BY <1>1, LineFacts DEF EnqLink, ThreadOK, EnqOK, IInv, LineOK
<1>3. /\ m \in alive /\ m \in Nodes /\ m \notin Linked /\ m # NULL
      /\ next[m] = NULL /\ m # last
      /\ \A u \in Threads : u # t /\ Pending(u) => node[u] # m
  BY <1>2, HzdPtrAssumption DEF EnqLink, ThreadOK, EnqOK, Linked, Pending, TypeOK
<1>4. /\ next' = [next EXCEPT ![last] = m] /\ line' = Append(line, m)
      /\ pc' = [pc EXCEPT ![t] = "e_swing"] /\ pc[t] = "e_link"
  BY <1>2 DEF EnqLink, Goto
<1>5. /\ head' = head /\ tail' = tail /\ alive' = alive /\ node' = node /\ lhead' = lhead
      /\ ltail' = ltail /\ lnext' = lnext /\ out' = out /\ sawEmpty' = sawEmpty
      /\ hp' = hp /\ rlist' = rlist /\ hpc' = hpc /\ plist' = plist /\ todo' = todo
      /\ reclaimed' = reclaimed /\ hplist' = hplist /\ hplength' = hplength
  BY DEF EnqLink, locals, hpVars
<1>6. /\ next'[last] = m /\ \A k \in Nodes : k # last => next'[k] = next[k]
      /\ pc'[t] = "e_swing" /\ \A u \in Threads : u # t => pc'[u] = pc[u]
  BY <1>2, <1>4 DEF TypeOK
<1>7. /\ line' \in Seq(Nodes) /\ Len(line') = n + 1 /\ line'[n + 1] = m
      /\ \A i \in 1..n : line'[i] = line[i]
  BY <1>1, <1>3, <1>4, LineFacts
<1>8. \A i \in 1..Len(line') : i \in 1..n \/ i = n + 1
  BY <1>1, <1>7
<1>9. /\ Pending(t) /\ ~ Pending(t)'
      /\ \A u \in Threads : u # t => (Pending(u)' <=> Pending(u))
      /\ \A u \in Threads : Leaving(u)' <=> Leaving(u)
  BY <1>4, <1>6 DEF Pending, Leaving
<1>10. Linked' = Linked \cup {m}
  <2>1. ASSUME NEW k \in Linked \cup {m} PROVE k \in Linked'
    BY <1>3, <1>5, <1>9 DEF Linked
  <2>2. ASSUME NEW k \in Linked' PROVE k \in Linked \cup {m}
    BY <1>3, <1>5, <1>9 DEF Linked
  <2> QED
    BY <2>1, <2>2
<1>11. \A k : InLine(k)' <=> InLine(k) \/ k = m
  <2>1. \A k : InLine(k)' => InLine(k) \/ k = m
    BY <1>7, <1>8 DEF InLine
  <2>2. n + 1 \in 1..Len(line') /\ \A i \in 1..n : i \in 1..Len(line')
    BY <1>1, <1>7
  <2>3. \A k : InLine(k) => InLine(k)'
    BY <1>7, <2>2 DEF InLine
  <2> QED
    BY <1>7, <2>1, <2>2, <2>3 DEF InLine
<1>12. ListOK'
  <2>1. HPTypeOK'
    BY <1>5 DEF HPTypeOK
  <2>2. TypeOK'
    BY <1>2, <1>3, <1>4, <1>5, <1>7, <2>1 DEF TypeOK
  <2>3. head' = line'[1] /\ Len(line') > 1 /\ tail' = line'[Len(line') - 1]
    BY <1>1, <1>2, <1>5, <1>7, LineFacts
  <2>4. ASSUME NEW i \in 1..Len(line')
        PROVE  next'[line'[i]] = IF i < Len(line') THEN line'[i + 1] ELSE NULL
    <3>1. CASE i = n + 1
      BY <1>1, <1>3, <1>6, <1>7, <3>1
    <3>2. CASE i = n
      BY <1>1, <1>6, <1>7, <3>2
    <3>3. CASE i \in 1..n /\ i # n
      <4>1. i < n /\ i + 1 \in 1..n /\ i < Len(line')
        BY <1>1, <1>7, <3>3
      <4>2. line[i] # last /\ line[i] \in Nodes
        BY <1>1, <3>3, LineFacts DEF IInv, LineOK
      <4> QED
        BY <1>6, <1>7, <3>3, <4>1, <4>2 DEF IInv, ListOK
    <3> QED
      BY <1>8, <3>1, <3>2, <3>3
  <2> QED
    BY <1>7, <2>2, <2>3, <2>4 DEF ListOK
<1>13. LineOK'
  <2>1. ASSUME NEW i \in 1..Len(line'), NEW j \in 1..Len(line'), line'[i] = line'[j]
        PROVE  i = j
    BY <1>3, <1>7, <1>8, <2>1, LineFacts DEF IInv, LineOK
  <2>2. \A i \in 1..Len(line') : line'[i] \in Linked'
    BY <1>7, <1>8, <1>10, LineFacts
  <2>3. ASSUME NEW k \in Linked', next'[k] = NULL PROVE k = line'[Len(line')]
    BY <1>3, <1>6, <1>7, <1>10, <2>3, LineFacts DEF IInv, LineOK
  <2> QED
    BY <2>1, <2>2, <2>3 DEF LineOK
<1>14. GoneOK'
  BY <1>3, <1>5, <1>10, <1>11 DEF IInv, GoneOK
<1>15. ASSUME NEW u \in Threads PROVE ThreadOK(u)'
  <2> ThreadOK(u)
    BY DEF IInv
  <2>1. RetireOK(u)'
    BY <1>3, <1>5, <1>9, <1>10, <1>11 DEF ThreadOK, RetireOK
  <2>2. SlotsOK(u)'
    BY <1>4, <1>5, <1>6 DEF ThreadOK, SlotsOK, ReliesOn, Noticed
  <2>3. EnqOK(u)'
    <3>1. CASE u = t
      BY <1>2, <1>3, <1>5, <1>6, <1>7, <1>9, <1>10, <3>1 DEF EnqOK
    <3>2. CASE u # t
      <4>1. \A k \in Linked : k # line'[Len(line')]
        BY <1>3, <1>7
      <4>2. \A k \in Linked : k \in Nodes /\ (next[k] # NULL => next'[k] = next[k])
        BY <1>2, <1>6, LineFacts
      <4>3. Pending(u) => node[u] \in Nodes /\ node[u] # last
        BY <1>2 DEF ThreadOK, EnqOK, Linked, TypeOK
      <4>4. Pending(u)' => node'[u] \in alive' /\ next'[node'[u]] = NULL
              /\ \A w \in Threads \ {u} : Pending(w)' => node'[w] # node'[u]
        BY <1>5, <1>6, <1>9, <3>2, <4>3 DEF ThreadOK, EnqOK
      <4>5. pc[u] = "e_help" => next'[ltail[u]] = lnext[u] /\ lnext[u] # NULL
        BY <4>2 DEF ThreadOK, EnqOK
      <4>6. pc[u] = "e_swing" => next'[ltail[u]] = node[u] /\ node[u] # NULL
        BY <4>2 DEF ThreadOK, EnqOK
      <4> QED
        BY <1>5, <1>6, <1>10, <3>2, <4>1, <4>4, <4>5, <4>6 DEF ThreadOK, EnqOK
    <3> QED
      BY <3>1, <3>2
  <2>4. DeqOK(u)'
    <3>1. CASE u = t
      BY <1>6, <3>1 DEF DeqOK
    <3>2. CASE u # t
      <4>1. \A k \in Linked : (next[k] # NULL => next'[k] = next[k]) /\ k # m
        BY <1>2, <1>3, <1>6, LineFacts
      <4> QED
        BY <1>5, <1>6, <1>10, <1>11, <3>2, <4>1 DEF ThreadOK, DeqOK
    <3> QED
      BY <3>1, <3>2
  <2> QED
    BY <2>1, <2>2, <2>3, <2>4 DEF ThreadOK
<1> QED
  BY <1>12, <1>13, <1>14, <1>15 DEF IInv

(* What a dequeue that may move the head knows of the line.                *)
LEMMA Second ==
  ASSUME IInv, NEW t \in Threads, pc[t] = "d_move", head = lhead[t]
  PROVE  Len(line) > 1 /\ lnext[t] = line[2] /\ tail # head
<1>1. next[head] = lnext[t] /\ lnext[t] # NULL /\ tail # head
  BY DEF IInv, ThreadOK, DeqOK
<1>2. Len(line) \in Nat /\ 1 \in 1..Len(line) /\ 1 + 1 = 2
  BY LineFacts
<1> QED
  BY <1>1, <1>2, LineFacts DEF IInv, ListOK

(* The move leaves the old head to one thread.                             *)
LEMMA MoveInv ==
  ASSUME IInv, NEW t \in Threads, DeqMove(t), head = lhead[t]
  PROVE  IInv'
<1> DEFINE n == Len(line)
<1> TypeOK /\ HPTypeOK /\ ThreadOK(t)
  BY DEF IInv, ListOK, TypeOK
<1>1. /\ head' = lnext[t] /\ line' = Tail(line) /\ pc' = [pc EXCEPT ![t] = "d_take"]
      /\ pc[t] = "d_move"
  BY DEF DeqMove, Goto
<1>2. n \in Nat /\ n > 1 /\ lnext[t] = line[2] /\ tail # head
  BY <1>1, Second, LineFacts
<1>3. /\ tail' = tail /\ next' = next /\ alive' = alive /\ node' = node /\ lhead' = lhead
      /\ ltail' = ltail /\ lnext' = lnext /\ out' = out /\ sawEmpty' = sawEmpty
      /\ hp' = hp /\ rlist' = rlist /\ hpc' = hpc /\ plist' = plist /\ todo' = todo
      /\ reclaimed' = reclaimed /\ hplist' = hplist /\ hplength' = hplength
  BY DEF DeqMove, locals, hpVars
<1>4. /\ line' \in Seq(Nodes) /\ Len(line') = n - 1
      /\ \A i \in 1..(n - 1) : line'[i] = line[i + 1]
  BY <1>1, <1>2, LineFacts
<1>5. pc'[t] = "d_take" /\ \A u \in Threads : u # t => pc'[u] = pc[u]
  BY <1>1 DEF TypeOK
<1>6. /\ \A u \in Threads : Pending(u)' <=> Pending(u)
      /\ \A u \in Threads : Leaving(u)' <=> Leaving(u) \/ u = t
      /\ ~ Leaving(t)
  BY <1>1, <1>5 DEF Pending, Leaving
<1>7. Linked' = Linked
  BY <1>3, <1>6 DEF Linked
<1>8. \A i \in 1..(n - 1) : i + 1 \in 1..n /\ line[i + 1] # head
  <2>1. ASSUME NEW i \in 1..(n - 1) PROVE i + 1 \in 1..n /\ i + 1 # 1 /\ 1 \in 1..n
    BY <1>2
  <2> QED
    BY <2>1, LineFacts DEF IInv, LineOK
<1>9. \A k : InLine(k)' <=> InLine(k) /\ k # head
  <2>1. ASSUME NEW k, InLine(k)' PROVE InLine(k) /\ k # head
    <3>1. PICK i \in 1..(n - 1) : line'[i] = k
      BY <1>4, <2>1 DEF InLine
    <3> QED
      BY <1>4, <1>8, <3>1 DEF InLine
  <2>2. ASSUME NEW k, InLine(k), k # head PROVE InLine(k)'
    <3>1. PICK i \in 1..n : line[i] = k
      BY <2>2 DEF InLine
    <3>2. i - 1 \in 1..(n - 1) /\ (i - 1) + 1 = i
      BY <1>2, <2>2, <3>1, LineFacts
    <3>3. line'[i - 1] = k
      BY <1>4, <3>1, <3>2
    <3> QED
      BY <1>4, <3>2, <3>3 DEF InLine
  <2> QED
    BY <2>1, <2>2
<1>10. n - 1 \in 1..(n - 1) /\ (n - 1) + 1 = n /\ line'[Len(line')] = line[n]
  BY <1>2, <1>4
<1>11. ListOK'
  <2>1. HPTypeOK'
    BY <1>3 DEF HPTypeOK
  <2>2. head' = line'[1] /\ head' \in Nodes
    <3>1. 1 \in 1..(n - 1) /\ 1 + 1 = 2 /\ 2 \in 1..n
      BY <1>2
    <3> QED
      BY <1>1, <1>2, <1>4, <3>1, LineFacts
  <2>3. TypeOK'
    BY <1>1, <1>3, <1>4, <2>1, <2>2 DEF TypeOK
  <2>4. tail' = line'[Len(line')] \/ (Len(line') > 1 /\ tail' = line'[Len(line') - 1])
    <3>1. CASE tail = line[n]
      BY <1>3, <1>10, <3>1
    <3>2. CASE tail = line[n - 1] /\ n = 2
      BY <1>2, <3>2, LineFacts
    <3>3. CASE tail = line[n - 1] /\ n # 2
      <4>1. Len(line') > 1 /\ Len(line') - 1 \in 1..(n - 1) /\ (Len(line') - 1) + 1 = n - 1
        BY <1>2, <1>4, <3>3
      <4> QED
        BY <1>3, <1>4, <3>3, <4>1
    <3> QED
      BY <3>1, <3>2, <3>3 DEF IInv, ListOK
  <2>5. ASSUME NEW i \in 1..Len(line')
        PROVE  next'[line'[i]] = IF i < Len(line') THEN line'[i + 1] ELSE NULL
    <3>1. i \in 1..(n - 1) /\ i + 1 \in 1..n /\ (i < Len(line') <=> i + 1 < n)
      BY <1>2, <1>4
    <3>2. line'[i] = line[i + 1] /\ (i + 1 < n => line'[i + 1] = line[(i + 1) + 1])
      BY <1>2, <1>4, <3>1
    <3>3. next[line[i + 1]] = IF i + 1 < n THEN line[(i + 1) + 1] ELSE NULL
      BY <3>1 DEF IInv, ListOK
    <3> QED
      BY <1>3, <3>1, <3>2, <3>3
  <2>6. Len(line') > 0
    BY <1>2, <1>4
  <2> QED
    BY <2>2, <2>3, <2>4, <2>5, <2>6 DEF ListOK
<1>12. LineOK'
  <2>1. \A i \in 1..Len(line') : i \in 1..(n - 1) /\ i \in Nat
    BY <1>4
  <2>2. ASSUME NEW i \in 1..Len(line'), NEW j \in 1..Len(line'), line'[i] = line'[j]
        PROVE  i = j
    <3>1. i + 1 = j + 1
      BY <1>4, <1>8, <2>1, <2>2 DEF IInv, LineOK
    <3> QED
      BY <2>1, <3>1
  <2>3. \A i \in 1..Len(line') : line'[i] \in Linked'
    BY <1>4, <1>7, <1>8, <2>1, LineFacts
  <2>4. \A k \in Linked' : next'[k] = NULL => k = line'[Len(line')]
    BY <1>3, <1>7, <1>10 DEF IInv, LineOK
  <2> QED
    BY <2>2, <2>3, <2>4 DEF LineOK
<1>13. GoneOK'
  BY <1>3, <1>7, <1>9 DEF IInv, GoneOK
<1>14. head \notin reclaimed /\ \A u \in Threads : head \notin rlist[u]
  BY LineFacts, InLineKept
<1>15. InLine(lnext[t])
  <2>1. 2 \in 1..n
    BY <1>2
  <2> QED
    BY <1>2, <2>1 DEF InLine
<1>16. ASSUME NEW u \in Threads PROVE ThreadOK(u)'
  <2> ThreadOK(u)
    BY DEF IInv
  <2>1. EnqOK(u)'
    BY <1>1, <1>3, <1>5, <1>6, <1>7, <1>10 DEF ThreadOK, EnqOK
  <2>2. DeqOK(u)'
    <3>1. CASE u = t
      BY <1>5, <3>1 DEF DeqOK
    <3>2. CASE u # t
      <4>1. InLine(head') /\ head' # head
        <5>1. 1 \in 1..(n - 1) /\ 1 + 1 = 2
          BY <1>2
        <5> QED
          BY <1>1, <1>2, <1>8, <1>15, <5>1
      <4>2. pc[u] \in {"d_next", "d_protect", "d_move"} => lhead[u] # head'
        BY <4>1 DEF ThreadOK, DeqOK
      <4>3. /\ pc'[u] = pc[u] /\ lhead'[u] = lhead[u] /\ ltail'[u] = ltail[u]
            /\ lnext'[u] = lnext[u] /\ sawEmpty'[u] = sawEmpty[u]
        BY <1>3, <1>5, <3>2
      <4>4. pc[u] \in {"d_publish", "d_check", "d_tail", "d_next", "d_protect",
                       "d_help", "d_move"} =>
              lhead[u] \in Linked' /\ ~ InLine(lhead[u])'
        BY <1>7, <1>9, <4>3 DEF ThreadOK, DeqOK
      <4> QED
        BY <1>3, <4>2, <4>3, <4>4 DEF ThreadOK, DeqOK
    <3> QED
      BY <3>1, <3>2
  <2>3. RetireOK(u)'
    <3>1. lhead[t] \in Linked /\ ~ InLine(lhead[t])' /\ lnext[t] # NULL
      BY <1>1, <1>3, <1>9, LineFacts DEF ThreadOK, DeqOK
    <3>2. \A w \in Threads : Leaving(w) => lhead[w] # head
      BY LineFacts DEF IInv, ThreadOK, RetireOK
    <3> QED
      BY <1>3, <1>6, <1>7, <1>9, <1>14, <3>1, <3>2 DEF ThreadOK, RetireOK
  <2>4. SlotsOK(u)'
    <3>1. CASE u = t
      <4>1. hp'[t][1] = lnext[t] /\ hpc'[t] = "ready"
        BY <1>1, <1>3 DEF ThreadOK, SlotsOK
      <4>2. lnext[t] \notin reclaimed /\ \A w \in Threads : lnext[t] \notin rlist[w]
        BY <1>15, InLineKept
      <4>3. \A j \in Slots : ReliesOn(t, j)' => j = 1
        BY <1>5 DEF ReliesOn
      <4> QED
        BY <1>3, <1>5, <3>1, <4>1, <4>2, <4>3 DEF ThreadOK, SlotsOK, Noticed
    <3>2. CASE u # t
      BY <1>3, <1>5, <3>2 DEF ThreadOK, SlotsOK, ReliesOn, Noticed
    <3> QED
      BY <3>1, <3>2
  <2> QED
    BY <2>1, <2>2, <2>3, <2>4 DEF ThreadOK
<1> QED
  BY <1>11, <1>12, <1>13, <1>16 DEF IInv
-----------------------------------------------------------------------------
(* A scan that starts has every slot of every published node before it.    *)
LEMMA SlotOrderOK ==
  ASSUME hplist \in Seq(Threads)
  PROVE  /\ SlotOrder \in Seq(Threads \X Slots)
         /\ \A k \in 1..Len(hplist), i \in Slots :
              \E j \in 1..Len(SlotOrder) : SlotOrder[j] = <<hplist[k], i>>
<1> DEFINE n == Len(hplist)
<1>1. n \in Nat /\ 2 * n \in Nat
  OBVIOUS
<1>2. \A j \in 1..(2 * n) : (j + 1) \div 2 \in 1..n /\ (j + 1) % 2 \in {0, 1}
  BY <1>1
<1>3. SlotOrder \in [1..(2 * n) -> Threads \X Slots]
  BY <1>2 DEF SlotOrder, Slots
<1>4. SlotOrder \in Seq(Threads \X Slots) /\ Len(SlotOrder) = 2 * n
  BY <1>1, <1>3
<1>5. ASSUME NEW k \in 1..n, NEW i \in Slots
      PROVE  \E j \in 1..Len(SlotOrder) : SlotOrder[j] = <<hplist[k], i>>
  <2> DEFINE j == 2 * k + i - 1
  <2>1. i = 0 \/ i = 1
    BY <1>5 DEF Slots
  <2>2. j \in 1..(2 * n) /\ (j + 1) \div 2 = k /\ (j + 1) % 2 = i
    BY <1>1, <2>1
  <2>3. SlotOrder[j] = <<hplist[(j + 1) \div 2], (j + 1) % 2>>
    BY <2>2 DEF SlotOrder
  <2>4. SlotOrder[j] = <<hplist[k], i>> /\ j \in 1..Len(SlotOrder)
    BY <1>4, <2>2, <2>3
  <2> QED
    BY <2>4
<1> QED
  BY <1>4, <1>5

(* What the hazard pointers do disturbs neither the list nor the places.   *)
LEMMA HPFrame ==
  ASSUME IInv, UNCHANGED msVars, HPTypeOK'
  PROVE  /\ ListOK' /\ LineOK' /\ Linked' = Linked
         /\ \A n : InLine(n)' <=> InLine(n)
         /\ \A u \in Threads : EnqOK(u)' /\ DeqOK(u)'
<1>1. /\ head' = head /\ tail' = tail /\ next' = next /\ alive' = alive /\ pc' = pc
      /\ node' = node /\ lhead' = lhead /\ ltail' = ltail /\ lnext' = lnext
      /\ out' = out /\ line' = line /\ sawEmpty' = sawEmpty
  BY DEF msVars, memory, locals, history
<1>2. ListOK'
  BY <1>1 DEF IInv, ListOK, TypeOK
<1>3. Linked' = Linked /\ \A n : InLine(n)' <=> InLine(n)
  BY <1>1 DEF Linked, Pending, InLine
<1>4. LineOK'
  BY <1>1, <1>3 DEF IInv, LineOK
<1>5. ASSUME NEW u \in Threads PROVE EnqOK(u)' /\ DeqOK(u)'
  <2>1. EnqOK(u)'
    BY <1>1, <1>3 DEF IInv, ThreadOK, EnqOK, Pending
  <2>2. DeqOK(u)'
    BY <1>1, <1>3 DEF IInv, ThreadOK, DeqOK
  <2> QED
    BY <2>1, <2>2
<1> QED
  BY <1>2, <1>3, <1>4, <1>5

LEMMA ScanInv ==
  ASSUME IInv, NEW t \in Threads, ScanStep(t)
  PROVE  IInv'
<1> TypeOK /\ HPTypeOK /\ hpc[t] = "scan"
  BY DEF IInv, ListOK, TypeOK, ScanStep, Scan, ScanRead, ScanRemove
<1>1. UNCHANGED msVars /\ pc' = pc /\ lhead' = lhead /\ ltail' = ltail /\ lnext' = lnext
  BY DEF ScanStep, msVars, locals
<1>2. /\ hplist' = hplist /\ hp' = hp
      /\ \A u \in Threads : hpc'[u] = hpc[u] \/ (u = t /\ hpc'[u] = "ready")
      /\ \A u \in Threads : rlist'[u] \subseteq rlist[u]
      /\ \A u \in Threads : rlist'[u] \cap reclaimed' = {}
      /\ reclaimed' \subseteq reclaimed \cup rlist[t]
      /\ \A u \in Threads : u # t =>
           plist'[u] = plist[u] /\ todo'[u] = todo[u] /\ rlist'[u] = rlist[u]
  <2>1. CASE ScanRead(t)
    BY <2>1 DEF ScanRead, HPTypeOK, IInv, ThreadOK, RetireOK
  <2>2. CASE ScanRemove(t)
    <3>1. /\ rlist' = [rlist EXCEPT ![t] = @ \cap plist[t]]
          /\ reclaimed' = reclaimed \cup (rlist[t] \ plist[t])
          /\ hpc' = [hpc EXCEPT ![t] = "ready"] /\ hplist' = hplist /\ hp' = hp
          /\ plist' = [plist EXCEPT ![t] = {}] /\ todo' = todo
      BY <2>2 DEF ScanRemove, HPGoto
    <3>2. ASSUME NEW u \in Threads PROVE rlist'[u] \cap reclaimed' = {}
      BY <3>1 DEF HPTypeOK, IInv, ThreadOK, RetireOK
    <3> QED
      BY <3>1, <3>2 DEF HPTypeOK
  <2> QED
    BY <2>1, <2>2 DEF ScanStep, Scan
<1>3. HPTypeOK'
  <2>1. CASE ScanRead(t)
    <3>1. todo[t] \in Seq(Threads \X Slots) /\ todo[t] # << >>
      BY <2>1 DEF ScanRead, HPTypeOK
    <3>2. Head(todo[t]) \in Threads \X Slots /\ Tail(todo[t]) \in Seq(Threads \X Slots)
      BY <3>1
    <3>3. hp[Head(todo[t])[1]][Head(todo[t])[2]] \in Nodes \cup {NULL}
      BY <3>2 DEF HPTypeOK
    <3> QED
      BY <2>1, <3>2, <3>3 DEF ScanRead, HPTypeOK
  <2>2. CASE ScanRemove(t)
    BY <2>2 DEF ScanRemove, HPGoto, HPTypeOK
  <2> QED
    BY <2>1, <2>2 DEF ScanStep, Scan
<1>4. GoneOK'
  BY <1>1, <1>2, <1>3, HPFrame DEF IInv, GoneOK
<1>5. ASSUME NEW u \in Threads PROVE ThreadOK(u)'
  <2> ThreadOK(u)
    BY DEF IInv
  <2>1. EnqOK(u)' /\ DeqOK(u)'
    BY <1>1, <1>3, HPFrame
  <2>2. RetireOK(u)'
    <3>1. Leaving(u)' =>
            /\ lhead'[u] \in Linked' /\ ~ InLine(lhead[u])' /\ lnext'[u] # NULL
            /\ \A w \in Threads : lhead'[u] \notin rlist'[w] \cup reclaimed'
            /\ \A w \in Threads \ {u} : Leaving(w)' => lhead'[w] # lhead'[u]
      BY <1>1, <1>2, <1>3, HPFrame DEF ThreadOK, RetireOK, Leaving
    <3>2. \A w \in Threads \ {u} : rlist'[u] \cap rlist'[w] = {}
      BY <1>2 DEF ThreadOK, RetireOK
    <3> QED
      BY <1>2, <3>1, <3>2 DEF RetireOK
  <2>3. SlotsOK(u)'
    <3>1. ASSUME NEW i \in Slots, ReliesOn(u, i)'
          PROVE  hp'[u][i] \notin reclaimed' /\ \A w \in Threads : Noticed(w, u, i)'
      <4>1. /\ hp[u][i] \notin reclaimed /\ hp'[u][i] = hp[u][i]
            /\ \A w \in Threads : Noticed(w, u, i)
        BY <1>1, <1>2, <3>1 DEF ThreadOK, SlotsOK, ReliesOn
      <4>2. ASSUME NEW w \in Threads, w # t PROVE Noticed(w, u, i)'
        <5>1. /\ hpc'[w] = hpc[w] /\ rlist'[w] = rlist[w] /\ plist'[w] = plist[w]
              /\ todo'[w] = todo[w]
          BY <1>2, <4>2
        <5> QED
          BY <4>1, <5>1 DEF Noticed
      <4>3. CASE ScanRead(t)
        <5>1. /\ reclaimed' = reclaimed /\ rlist' = rlist /\ todo[t] # << >>
              /\ plist'[t] = plist[t] \cup
                   ({hp[Head(todo[t])[1]][Head(todo[t])[2]]} \ {NULL})
              /\ todo'[t] = Tail(todo[t]) /\ todo[t] \in Seq(Threads \X Slots)
          BY <4>3 DEF ScanRead, HPTypeOK
        <5>2. ASSUME hp[u][i] \in rlist[t], hp[u][i] \notin plist[t]
              PROVE  \/ hp[u][i] \in plist'[t]
                     \/ \E j \in 1..Len(todo'[t]) : todo'[t][j] = <<u, i>>
          <6>1. PICK j \in 1..Len(todo[t]) : todo[t][j] = <<u, i>>
            BY <4>1, <5>2 DEF Noticed
          <6>2. CASE j = 1
            <7>1. Head(todo[t])[1] = u /\ Head(todo[t])[2] = i
              BY <5>1, <6>1, <6>2
            <7>2. hp[u][i] # NULL
              BY <5>2, HzdPtrAssumption DEF HPTypeOK
            <7> QED
              BY <5>1, <7>1, <7>2
          <6>3. CASE j # 1
            <7>1. j - 1 \in 1..Len(todo'[t]) /\ todo'[t][j - 1] = todo[t][j]
              BY <5>1, <6>1, <6>3
            <7> QED
              BY <6>1, <7>1
          <6> QED
            BY <6>2, <6>3
        <5> QED
          BY <1>2, <4>1, <4>2, <5>1, <5>2 DEF Noticed
      <4>4. CASE ScanRemove(t)
        <5>1. /\ reclaimed' = reclaimed \cup (rlist[t] \ plist[t])
              /\ todo[t] = << >> /\ hpc'[t] = "ready"
          BY <4>4 DEF ScanRemove, HPGoto, HPTypeOK
        <5>2. ~ \E j \in 1..Len(todo[t]) : todo[t][j] = <<u, i>>
          BY <5>1
        <5> QED
          BY <4>1, <4>2, <5>1, <5>2 DEF Noticed
      <4> QED
        BY <4>3, <4>4 DEF ScanStep, Scan
    <3>2. /\ pc'[u] # "idle" => hpc'[u] = "ready"
          /\ hpc'[u] \in {"init", "ready", "scan"} =>
               \E k \in 1..Len(hplist') : hplist'[k] = u
      BY <1>1, <1>2 DEF ThreadOK, SlotsOK
    <3> QED
      BY <1>1, <1>2, <3>1, <3>2 DEF ThreadOK, SlotsOK
  <2> QED
    BY <2>1, <2>2, <2>3 DEF ThreadOK
<1> QED
  BY <1>1, <1>3, <1>4, <1>5, HPFrame DEF IInv

LEMMA GetInv ==
  ASSUME IInv, NEW t \in Threads, GetSlots(t)
  PROVE  IInv'
<1> TypeOK /\ HPTypeOK
  BY DEF IInv, ListOK, TypeOK
<1>1. UNCHANGED msVars /\ pc' = pc /\ lhead' = lhead /\ ltail' = ltail /\ lnext' = lnext
  BY DEF GetSlots, msVars, locals
<1>2. /\ hpc[t] \in {"null", "push", "init"} /\ hpc' = [hpc EXCEPT ![t] = hpc'[t]]
      /\ hpc'[t] \in {"push", "init", "ready"}
      /\ hpc'[t] = "push" \/ hpc[t] \in {"push", "init"}
      /\ hpc[t] = "push" => hplist' = << t >> \o hplist
      /\ hpc[t] # "push" => hplist' = hplist
      /\ \A u \in Threads : u # t => hp'[u] = hp[u]
      /\ \A u \in Threads : rlist'[u] = rlist[u] \/ rlist'[u] = {}
      /\ plist' = plist /\ todo' = todo /\ reclaimed' = reclaimed
      /\ hpc'[t] = "init" <=> hpc[t] = "push"
  BY DEF GetSlots, Allocate, AllocLength, AllocPush, AllocInit, HPGoto, HPTypeOK
<1>3. pc[t] = "idle"
  BY <1>2 DEF IInv, ThreadOK, SlotsOK
<1>4. HPTypeOK'
  <2>1. CASE AllocLength(t)
    BY <2>1 DEF AllocLength, HPGoto, HPTypeOK
  <2>2. CASE AllocPush(t)
    <3>1. hplist' \in Seq(Threads)
      BY <2>2 DEF AllocPush, HPTypeOK
    <3> QED
      BY <2>2, <3>1 DEF AllocPush, HPGoto, HPTypeOK
  <2>3. CASE AllocInit(t)
    BY <2>3 DEF AllocInit, HPGoto, HPTypeOK
  <2> QED
    BY <2>1, <2>2, <2>3 DEF GetSlots, Allocate
<1>5. GoneOK'
  BY <1>1, <1>2, <1>4, HPFrame DEF IInv, GoneOK
<1>6. ASSUME NEW u \in Threads PROVE ThreadOK(u)'
  <2> ThreadOK(u)
    BY DEF IInv
  <2>1. EnqOK(u)' /\ DeqOK(u)'
    BY <1>1, <1>4, HPFrame
  <2>2. RetireOK(u)'
    <3>1. Linked' = Linked /\ (~ InLine(lhead[u]) => ~ InLine(lhead[u])')
      BY <1>1, <1>4, HPFrame
    <3> QED
      BY <1>1, <1>2, <3>1 DEF ThreadOK, RetireOK, Leaving
  <2>3. SlotsOK(u)'
    <3>1. pc'[u] # "idle" => hpc'[u] = "ready"
      BY <1>1, <1>2, <1>3 DEF ThreadOK, SlotsOK, HPTypeOK
    <3>2. hpc'[u] \in {"init", "ready", "scan"} =>
            \E k \in 1..Len(hplist') : hplist'[k] = u
      <4>1. CASE hpc[t] # "push"
        BY <1>2, <4>1 DEF ThreadOK, SlotsOK, HPTypeOK
      <4>2. CASE hpc[t] = "push"
        <5>1. /\ Len(hplist') = Len(hplist) + 1 /\ hplist'[1] = t
              /\ \A k \in 1..Len(hplist) : hplist'[k + 1] = hplist[k]
              /\ Len(hplist) \in Nat
          BY <1>2, <4>2 DEF HPTypeOK
        <5>2. 1 \in 1..Len(hplist') /\ \A k \in 1..Len(hplist) : k + 1 \in 1..Len(hplist')
          BY <5>1
        <5>3. u = t \/ hpc'[u] = hpc[u]
          BY <1>2 DEF HPTypeOK
        <5> QED
          BY <5>1, <5>2, <5>3 DEF ThreadOK, SlotsOK
      <4> QED
        BY <4>1, <4>2
    <3>3. CASE u = t
      BY <1>1, <1>3, <3>1, <3>2, <3>3 DEF SlotsOK, ReliesOn
    <3>4. CASE u # t
      <4>1. ASSUME NEW i \in Slots, NEW w \in Threads, Noticed(w, u, i)
            PROVE  Noticed(w, u, i)'
        <5>1. hpc'[w] = "scan" => hpc[w] = "scan"
          BY <1>2 DEF HPTypeOK
        <5> QED
          BY <1>2, <3>4, <4>1, <5>1 DEF Noticed
      <4>2. \A i \in Slots : ReliesOn(u, i)' <=> ReliesOn(u, i)
        BY <1>1 DEF ReliesOn
      <4> QED
        BY <1>1, <1>2, <3>1, <3>2, <3>4, <4>1, <4>2 DEF ThreadOK, SlotsOK
    <3> QED
      BY <3>3, <3>4
  <2> QED
    BY <2>1, <2>2, <2>3 DEF ThreadOK
<1> QED
  BY <1>1, <1>4, <1>5, <1>6, HPFrame DEF IInv

(* The retired node goes from its dequeue to the list of one thread, and a *)
(* scan that starts with it has all slots to read.                         *)
LEMMA RetireInv ==
  ASSUME IInv, NEW t \in Threads, DeqRetire(t)
  PROVE  IInv'
<1> DEFINE x == lhead[t]
<1> TypeOK /\ HPTypeOK /\ ThreadOK(t)
  BY DEF IInv, ListOK, TypeOK
<1>1. /\ rlist' = [rlist EXCEPT ![t] = @ \cup {x}] /\ hp' = hp /\ hplist' = hplist
      /\ plist' = plist /\ reclaimed' = reclaimed /\ hplength' = hplength
      /\ \/ hpc' = [hpc EXCEPT ![t] = "scan"] /\ todo' = [todo EXCEPT ![t] = SlotOrder]
         \/ hpc' = hpc /\ todo' = todo
      /\ hpc[t] = "ready" /\ pc[t] = "d_retire"
  BY DEF DeqRetire, Retire, HPGoto
<1>2. /\ head' = head /\ tail' = tail /\ next' = next /\ alive' = alive /\ line' = line
      /\ sawEmpty' = sawEmpty /\ out' = out /\ pc' = [pc EXCEPT ![t] = "idle"]
  BY DEF DeqRetire, Return, Goto, memory, history
<1>3. ASSUME NEW u \in Threads, u # t
      PROVE  /\ pc'[u] = pc[u] /\ node'[u] = node[u] /\ lhead'[u] = lhead[u]
             /\ ltail'[u] = ltail[u] /\ lnext'[u] = lnext[u]
             /\ rlist'[u] = rlist[u] /\ hpc'[u] = hpc[u] /\ todo'[u] = todo[u]
  BY <1>1, <1>2, <1>3 DEF DeqRetire, Return, TypeOK, HPTypeOK
<1>4. pc'[t] = "idle" /\ rlist'[t] = rlist[t] \cup {x}
  BY <1>1, <1>2 DEF TypeOK, HPTypeOK
<1>5. /\ x \in Linked /\ x \in Nodes /\ ~ InLine(x) /\ x \notin reclaimed
      /\ \A u \in Threads : x \notin rlist[u]
      /\ \A u \in Threads : u # t /\ Leaving(u) => lhead[u] # x
  BY <1>1, LineFacts DEF ThreadOK, RetireOK, Leaving
<1>6. /\ \A u \in Threads : Pending(u)' <=> Pending(u)
      /\ \A u \in Threads : Pending(u) => node'[u] = node[u]
      /\ \A u \in Threads : Leaving(u)' <=> Leaving(u) /\ u # t
  BY <1>1, <1>3, <1>4 DEF Pending, Leaving
<1>7. Linked' = Linked /\ \A k : InLine(k)' <=> InLine(k)
  BY <1>2, <1>6 DEF Linked, InLine
<1>8. ListOK'
  <2>1. HPTypeOK'
    BY <1>1, <1>5, SlotOrderOK DEF HPTypeOK
  <2>2. TypeOK'
    BY <1>2, <2>1 DEF DeqRetire, Return, TypeOK
  <2> QED
    BY <1>2, <2>2 DEF IInv, ListOK
<1>9. LineOK'
  BY <1>2, <1>7 DEF IInv, LineOK
<1>10. GoneOK'
  BY <1>1, <1>3, <1>4, <1>5, <1>7 DEF IInv, GoneOK
<1>11. ASSUME NEW u \in Threads PROVE ThreadOK(u)'
  <2> ThreadOK(u)
    BY DEF IInv
  <2>1. EnqOK(u)' /\ DeqOK(u)'
    <3>1. CASE u = t
      BY <1>4, <3>1 DEF EnqOK, DeqOK, Pending
    <3>2. CASE u # t
      <4>1. EnqOK(u)'
        BY <1>2, <1>3, <1>6, <1>7, <3>2 DEF ThreadOK, EnqOK
      <4>2. DeqOK(u)'
        BY <1>2, <1>3, <1>7, <3>2 DEF ThreadOK, DeqOK
      <4> QED
        BY <4>1, <4>2
    <3> QED
      BY <3>1, <3>2
  <2>2. RetireOK(u)'
    <3>1. rlist'[u] \cap reclaimed' = {}
      BY <1>1, <1>3, <1>4, <1>5 DEF ThreadOK, RetireOK
    <3>2. \A w \in Threads \ {u} : rlist'[u] \cap rlist'[w] = {}
      BY <1>3, <1>4, <1>5 DEF ThreadOK, RetireOK
    <3>3. Leaving(u)' =>
            /\ lhead'[u] \in Linked' /\ ~ InLine(lhead[u])' /\ lnext'[u] # NULL
            /\ \A w \in Threads : lhead'[u] \notin rlist'[w] \cup reclaimed'
            /\ \A w \in Threads \ {u} : Leaving(w)' => lhead'[w] # lhead'[u]
      <4>1. SUFFICES ASSUME u # t, Leaving(u)
                     PROVE  /\ lhead[u] \in Linked /\ ~ InLine(lhead[u]) /\ lnext[u] # NULL
                            /\ \A w \in Threads : lhead[u] \notin rlist'[w] \cup reclaimed
                            /\ \A w \in Threads \ {u} : Leaving(w) => lhead[w] # lhead[u]
        BY <1>1, <1>3, <1>6, <1>7
      <4> QED
        BY <1>3, <1>4, <1>5, <4>1 DEF ThreadOK, RetireOK
    <3> QED
      BY <3>1, <3>2, <3>3 DEF RetireOK
  <2>3. SlotsOK(u)'
    <3>1. /\ pc'[u] # "idle" => hpc'[u] = "ready"
          /\ hpc'[u] \in {"init", "ready", "scan"} =>
               \E k \in 1..Len(hplist') : hplist'[k] = u
      BY <1>1, <1>3, <1>4 DEF ThreadOK, SlotsOK
    <3>2. CASE u = t
      BY <1>4, <3>1, <3>2 DEF SlotsOK, ReliesOn
    <3>3. CASE u # t
      <4>1. ASSUME NEW i \in Slots, ReliesOn(u, i), NEW w \in Threads
            PROVE  Noticed(w, u, i)'
        <5>1. Noticed(w, u, i)
          BY <4>1 DEF ThreadOK, SlotsOK
        <5>2. CASE w # t
          BY <1>1, <1>3, <5>1, <5>2 DEF Noticed
        <5>3. CASE w = t /\ hpc'[t] = "scan"
          <6>1. todo'[t] = SlotOrder
            BY <1>1, <5>3 DEF HPTypeOK
          <6>2. PICK k \in 1..Len(hplist) : hplist[k] = u
            BY <4>1 DEF ThreadOK, SlotsOK, ReliesOn
          <6>3. \E j \in 1..Len(SlotOrder) : SlotOrder[j] = <<u, i>>
            BY <4>1, <6>2, SlotOrderOK DEF HPTypeOK
          <6> QED
            BY <5>3, <6>1, <6>3 DEF Noticed
        <5> QED
          BY <5>2, <5>3 DEF Noticed
      <4>2. \A i \in Slots : ReliesOn(u, i)' <=> ReliesOn(u, i)
        BY <1>3, <3>3 DEF ReliesOn
      <4> QED
        BY <1>1, <1>3, <3>1, <3>3, <4>1, <4>2 DEF ThreadOK, SlotsOK
    <3> QED
      BY <3>2, <3>3
  <2> QED
    BY <2>1, <2>2, <2>3 DEF ThreadOK
<1> QED
  BY <1>8, <1>9, <1>10, <1>11 DEF IInv
-----------------------------------------------------------------------------
LEMMA StepInv == IInv /\ [Next]_vars => IInv'
<1> SUFFICES ASSUME IInv, [Next]_vars PROVE IInv'
  OBVIOUS
<1>1. ASSUME NEW t \in Threads, Enqueue(t) PROVE IInv'
  <2>1. CASE EnqLink(t)
    BY <2>1, LinkInv, LocalInv DEF LocalStep, LinkFails
  <2>2. CASE EnqTail(t) \/ EnqPublish(t) \/ EnqCheck(t) \/ EnqNext(t)
    BY <2>2, LocalInv DEF LocalStep
  <2> QED
    BY <1>1, <2>1, <2>2, TailInv DEF Enqueue
<1>2. ASSUME NEW t \in Threads, Dequeue(t) PROVE IInv'
  <2>1. CASE DeqMove(t)
    BY <2>1, MoveInv, LocalInv DEF LocalStep, MoveFails
  <2>2. CASE \/ DeqHead(t) \/ DeqPublish(t) \/ DeqCheck(t) \/ DeqTail(t)
             \/ DeqNext(t) \/ DeqProtect(t) \/ DeqTake(t)
    BY <2>2, LocalInv DEF LocalStep
  <2> QED
    BY <1>2, <2>1, <2>2, TailInv, RetireInv DEF Dequeue
<1>3. ASSUME NEW t \in Threads, Begin(t) PROVE IInv'
  BY <1>3, GetInv, AllocInv, LocalInv DEF Begin, LocalStep
<1>4. CASE UNCHANGED vars
  <2>1. UNCHANGED msVars /\ UNCHANGED hpVars
    BY <1>4 DEF vars
  <2>2. /\ hp' = hp /\ rlist' = rlist /\ hpc' = hpc /\ plist' = plist /\ todo' = todo
        /\ reclaimed' = reclaimed /\ hplist' = hplist /\ hplength' = hplength
        /\ pc' = pc /\ lhead' = lhead /\ ltail' = ltail /\ lnext' = lnext
    BY <2>1 DEF hpVars, msVars, locals
  <2>3. HPTypeOK'
    BY <2>2 DEF HPTypeOK, IInv, ListOK, TypeOK
  <2>4. GoneOK'
    BY <2>1, <2>2, <2>3, HPFrame DEF IInv, GoneOK
  <2>5. ASSUME NEW u \in Threads PROVE ThreadOK(u)'
    <3> ThreadOK(u)
      BY DEF IInv
    <3>1. RetireOK(u)'
      <4>1. Linked' = Linked /\ (~ InLine(lhead[u]) => ~ InLine(lhead[u])')
        BY <2>1, <2>2, <2>3, HPFrame
      <4> QED
        BY <2>2, <4>1 DEF ThreadOK, RetireOK, Leaving
    <3>2. SlotsOK(u)'
      BY <2>2 DEF ThreadOK, SlotsOK, ReliesOn, Noticed
    <3> QED
      BY <2>1, <2>3, <3>1, <3>2, HPFrame DEF ThreadOK
  <2> QED
    BY <2>1, <2>3, <2>4, <2>5, HPFrame DEF IInv
<1> QED
  BY <1>1, <1>2, <1>3, <1>4, ScanInv DEF Next

(* The inductive invariant: the list, what the locals of an operation know *)
(* of it, and what every scan in progress has found or will find.          *)
THEOREM Invariance == Spec => []IInv
<1> QED
  BY InitInv, StepInv, PTL DEF Spec

(* The list is never broken, and its tail never more than one node behind, *)
(* wherever threads stop (lines 25-50 and 60-85 of zm_msqueue.c).          *)
THEOREM ListKept == Spec => []ListOK
<1>1. IInv => ListOK
  BY DEF IInv
<1> QED
  BY <1>1, Invariance, PTL

(* The hazard pointers protect: a node is retired by one thread after it   *)
(* left the queue, and nobody follows a pointer to a node that a scan let  *)
(* go of (lines 26-31, 61-67, 75-80 and 86 of zm_msqueue.c).               *)
THEOREM Reclamation == Spec => []ReclamationSafe
<1>1. ASSUME IInv PROVE RetiredOnce
  BY <1>1 DEF IInv, ThreadOK, GoneOK, RetireOK, RetiredOnce, Leaving
<1>2. ASSUME IInv PROVE NoUseAfterReclaim
  BY <1>2 DEF IInv, ThreadOK, SlotsOK, ReliesOn, NoUseAfterReclaim, Slots
<1>3. IInv => ReclamationSafe
  BY <1>1, <1>2 DEF ReclamationSafe
<1> QED
  BY <1>3, Invariance, PTL

(* zm_msqueue_dequeue finds the queue empty only if it was when it looked  *)
(* for the successor of the head.                                          *)
THEOREM EmptyIsEmpty == Spec => EmptyMeansEmpty
<1>1. ASSUME IInv, [Next]_vars, NEW t \in Threads,
             pc[t] = "d_protect", pc'[t] = "idle"
      PROVE  sawEmpty[t]
  <2>1. pc' # pc
    BY <1>1
  <2>2. PICK u \in Threads : Begin(u) \/ Enqueue(u) \/ Dequeue(u) \/ ScanStep(u)
    BY <1>1, <2>1 DEF Next, vars, msVars
  <2>3. \A w \in Threads \ {u} : pc'[w] = pc[w]
    <3>1. CASE GetSlots(u) \/ ScanStep(u)
      BY <3>1 DEF GetSlots, ScanStep, msVars
    <3>2. CASE EnqAlloc(u) \/ DeqBegin(u) \/ Enqueue(u)
      BY <1>1, <3>2 DEF EnqAlloc, DeqBegin, Enqueue, EnqTail, EnqPublish, EnqCheck, EnqNext,
         EnqLink, EnqHelp, EnqSwing, At, Goto, Return, IInv, ListOK, TypeOK
    <3>3. CASE Dequeue(u)
      BY <1>1, <3>3 DEF Dequeue, DeqHead, DeqPublish, DeqCheck, DeqTail, DeqNext,
         DeqProtect, DeqHelp, DeqMove, DeqTake, DeqRetire, At, Goto, Return, IInv, ListOK,
         TypeOK
    <3> QED
      BY <2>2, <3>1, <3>2, <3>3 DEF Begin
  <2>4. u = t
    BY <1>1, <2>3
  <2>5. DeqProtect(t)
    <3>1. ~ GetSlots(t) /\ ~ ScanStep(t)
      BY <1>1 DEF GetSlots, ScanStep, msVars
    <3> QED
      BY <1>1, <2>2, <2>4, <3>1 DEF Begin, Free, EnqAlloc, DeqBegin, Enqueue, EnqTail,
         EnqPublish, EnqCheck, EnqNext, EnqLink, EnqHelp, EnqSwing, Dequeue, DeqHead,
         DeqPublish, DeqCheck, DeqTail, DeqNext, DeqHelp, DeqMove, DeqTake, DeqRetire, At
  <2>6. lhead[t] = ltail[t] /\ lnext[t] = NULL
    BY <1>1, <2>5 DEF DeqProtect, Goto, IInv, ListOK, TypeOK
  <2> QED
    BY <1>1, <2>6 DEF IInv, ThreadOK, DeqOK
<1>2. IInv /\ [Next]_vars =>
        [\A t \in Threads : pc[t] = "d_protect" /\ pc'[t] = "idle" => sawEmpty[t]]_vars
  BY <1>1
<1> QED
  BY <1>2, Invariance, PTL DEF Spec, EmptyMeansEmpty

(* The queue implements FifoQueue: the link of zm_msqueue_enqueue adds the *)
(* element behind all others, and the move of the head in                  *)
(* zm_msqueue_dequeue takes the oldest one.                                *)
THEOREM ImplementsFifoQueue == Spec => FifoOrder
<1> DEFINE I == Tail(line)
           O == [t \in Threads |-> IF pc[t] = "d_take" THEN lnext[t] ELSE out[t]]
<1>1. Init => Fifo!Init
  <2> SUFFICES ASSUME Init PROVE I = << >> /\ O = [t \in Threads |-> NULL]
    BY DEF Fifo!Init
  <2>1. I = << >>
    BY DEF Init
  <2>2. O = [t \in Threads |-> NULL]
    BY DEF Init
  <2> QED
    BY <2>1, <2>2
<1>2. ASSUME IInv, [Next]_vars PROVE [Fifo!Next]_(Fifo!vars)
  <2> TypeOK
    BY <1>2 DEF IInv, ListOK
  <2> HIDE DEF I, O
  <2>1. SUFFICES Fifo!Next \/ UNCHANGED <<I, O>>
    BY DEF Fifo!vars, I, O
  <2>2. ASSUME line' = line, NEW t \in Threads, pc[t] # "d_take", pc'[t] # "d_take",
               out' = out, \A u \in Threads \ {t} : pc'[u] = pc[u] /\ lnext'[u] = lnext[u]
        PROVE  UNCHANGED <<I, O>>
    BY <2>2 DEF I, O
  <2>3. ASSUME NEW t \in Threads, LocalStep(t), ~ DeqBegin(t), ~ DeqTake(t)
        PROVE  UNCHANGED <<I, O>>
    <3>1. out' = out
      BY <2>3 DEF LocalStep, EnqTail, EnqPublish, EnqCheck, EnqNext, DeqHead, DeqPublish,
         DeqCheck, DeqTail, DeqNext, DeqProtect, LinkFails, EnqLink, MoveFails, DeqMove,
         locals
    <3>2. pc[t] # "d_take" /\ pc'[t] # "d_take"
      <4>1. pc[t] # "d_take"
        BY <2>3 DEF LocalStep, EnqTail, EnqPublish, EnqCheck, EnqNext, DeqHead, DeqPublish,
           DeqCheck, DeqTail, DeqNext, DeqProtect, LinkFails, EnqLink, MoveFails, DeqMove, At
      <4>2. pc[t] # "d_retire"
        BY <2>3 DEF LocalStep, EnqTail, EnqPublish, EnqCheck, EnqNext, DeqHead, DeqPublish,
           DeqCheck, DeqTail, DeqNext, DeqProtect, LinkFails, EnqLink, MoveFails, DeqMove, At
      <4> QED
        BY <1>2, <2>3, <4>1, <4>2, LocalFrame DEF Leaving
    <3> QED
      BY <1>2, <2>2, <2>3, <3>1, <3>2, LocalFrame
  <2>4. ASSUME NEW t \in Threads, DeqBegin(t) PROVE Fifo!Miss(t)
    <3>1. /\ line' = line /\ lnext' = lnext /\ out' = [out EXCEPT ![t] = NULL]
          /\ pc[t] = "idle" /\ pc' = [pc EXCEPT ![t] = "d_head"]
      BY <2>4 DEF DeqBegin, Free, Goto, history
    <3>2. O' = [O EXCEPT ![t] = NULL]
      BY <3>1 DEF TypeOK, O
    <3> QED
      BY <3>1, <3>2 DEF Fifo!Miss, I, O
  <2>5. ASSUME NEW t \in Threads, DeqTake(t) PROVE UNCHANGED <<I, O>>
    <3>1. /\ line' = line /\ lnext' = lnext /\ out' = [out EXCEPT ![t] = lnext[t]]
          /\ pc[t] = "d_take" /\ pc' = [pc EXCEPT ![t] = "d_retire"]
      BY <2>5 DEF DeqTake, At, Goto, history
    <3>2. O' = O
      BY <3>1 DEF TypeOK, O
    <3> QED
      BY <3>1, <3>2 DEF I
  <2>6. ASSUME NEW t \in Threads, EnqLink(t), next[ltail[t]] = NULL
        PROVE  Fifo!Enqueue(node[t]) /\ node[t] \in Nodes
    <3>1. /\ line' = Append(line, node[t]) /\ out' = out /\ lnext' = lnext
          /\ pc[t] = "e_link" /\ pc' = [pc EXCEPT ![t] = "e_swing"]
      BY <2>6 DEF EnqLink, Goto, locals
    <3>2. node[t] \in Nodes
      BY <1>2, <3>1 DEF IInv, ThreadOK, EnqOK, Pending, TypeOK
    <3>3. I' = Append(I, node[t])
      <4>1. line \in Seq(Nodes) /\ Len(line) \in Nat /\ Len(line) > 0
        BY <1>2, LineFacts
      <4>2. /\ I \in Seq(Nodes) /\ Len(I) = Len(line) - 1
            /\ \A i \in 1..(Len(line) - 1) : I[i] = line[i + 1]
        BY <4>1 DEF I
      <4>3. /\ I' \in Seq(Nodes) /\ Len(I') = Len(line)
            /\ \A i \in 1..Len(line) : I'[i] = Append(line, node[t])[i + 1]
        BY <3>1, <3>2, <4>1 DEF I
      <4>4. /\ Append(I, node[t]) \in Seq(Nodes) /\ Len(Append(I, node[t])) = Len(line)
            /\ \A i \in 1..Len(line) :
                 Append(I, node[t])[i] = IF i = Len(line) THEN node[t] ELSE line[i + 1]
        BY <3>2, <4>1, <4>2
      <4>5. \A i \in 1..Len(line) :
              Append(line, node[t])[i + 1] = IF i = Len(line) THEN node[t] ELSE line[i + 1]
        BY <3>2, <4>1
      <4> QED
        BY <4>3, <4>4, <4>5, SeqEqual
    <3>4. O' = O
      BY <3>1 DEF TypeOK, O
    <3> QED
      BY <3>2, <3>3, <3>4 DEF Fifo!Enqueue, I, O
  <2>7. ASSUME NEW t \in Threads, DeqMove(t), head = lhead[t] PROVE Fifo!Dequeue(t)
    <3>1. /\ line' = Tail(line) /\ out' = out /\ lnext' = lnext
          /\ pc[t] = "d_move" /\ pc' = [pc EXCEPT ![t] = "d_take"]
      BY <2>7 DEF DeqMove, Goto, locals
    <3>2. Len(line) > 1 /\ lnext[t] = line[2]
      BY <1>2, <2>7, <3>1, Second
    <3>3. I # << >> /\ Head(I) = lnext[t]
      <4>1. line \in Seq(Nodes) /\ Len(line) \in Nat /\ line # << >>
        BY <1>2, <3>2, LineFacts
      <4>2. I \in Seq(Nodes) /\ Len(I) = Len(line) - 1 /\ 1 \in 1..Len(I)
        BY <3>2, <4>1 DEF I
      <4>3. I[1] = line[1 + 1] /\ 1 + 1 = 2
        BY <3>2, <4>1, <4>2 DEF I
      <4>4. Len(I) # 0 /\ Len(<< >>) = 0
        BY <4>1, <4>2
      <4>5. I # << >>
        BY <4>4, Zenon
      <4> QED
        BY <3>2, <4>2, <4>3, <4>5
    <3>4. I' = Tail(I)
      BY <3>1 DEF I
    <3>5. O' = [O EXCEPT ![t] = Head(I)]
      BY <3>1, <3>3 DEF TypeOK, O
    <3> QED
      BY <3>3, <3>4, <3>5 DEF Fifo!Dequeue, I, O
  <2>8. ASSUME NEW t \in Threads,
               EnqHelp(t) \/ EnqSwing(t) \/ DeqHelp(t) \/ EnqAlloc(t) \/ DeqRetire(t)
        PROVE  UNCHANGED <<I, O>>
    <3>1. /\ line' = line /\ out' = out /\ pc[t] # "d_take" /\ pc'[t] # "d_take"
      BY <2>8 DEF EnqHelp, EnqSwing, DeqHelp, EnqAlloc, DeqRetire, At, Goto, Return, Free,
         TypeOK, locals, history
    <3>2. \A u \in Threads \ {t} : pc'[u] = pc[u] /\ lnext'[u] = lnext[u]
      BY <2>8 DEF EnqHelp, EnqSwing, DeqHelp, EnqAlloc, DeqRetire, At, Goto, Return,
         TypeOK, locals
    <3> QED
      BY <2>2, <3>1, <3>2
  <2>9. UNCHANGED msVars => UNCHANGED <<I, O>>
    BY DEF msVars, locals, history, I, O
  <2>10. ASSUME NEW t \in Threads, Enqueue(t) PROVE Fifo!Next \/ UNCHANGED <<I, O>>
    <3>1. CASE EnqLink(t) /\ next[ltail[t]] = NULL
      BY <2>6, <3>1 DEF Fifo!Next
    <3>2. CASE EnqLink(t) /\ next[ltail[t]] # NULL
      <4>1. LocalStep(t) /\ ~ DeqBegin(t) /\ ~ DeqTake(t)
        BY <3>2 DEF LocalStep, LinkFails, EnqLink, DeqBegin, DeqTake, Free, At
      <4> QED
        BY <2>3, <4>1
    <3>3. CASE EnqTail(t) \/ EnqPublish(t) \/ EnqCheck(t) \/ EnqNext(t)
      <4>1. LocalStep(t) /\ ~ DeqBegin(t) /\ ~ DeqTake(t)
        BY <3>3 DEF LocalStep, EnqTail, EnqPublish, EnqCheck, EnqNext, DeqBegin, DeqTake,
           Free, At
      <4> QED
        BY <2>3, <4>1
    <3> QED
      BY <2>8, <2>10, <3>1, <3>2, <3>3 DEF Enqueue
  <2>11. ASSUME NEW t \in Threads, Dequeue(t) PROVE Fifo!Next \/ UNCHANGED <<I, O>>
    <3>1. CASE DeqMove(t) /\ head = lhead[t]
      BY <2>7, <3>1 DEF Fifo!Next
    <3>2. CASE DeqMove(t) /\ head # lhead[t]
      <4>1. LocalStep(t) /\ ~ DeqBegin(t) /\ ~ DeqTake(t)
        BY <3>2 DEF LocalStep, MoveFails, DeqMove, DeqBegin, DeqTake, Free, At
      <4> QED
        BY <2>3, <4>1
    <3>3. CASE \/ DeqHead(t) \/ DeqPublish(t) \/ DeqCheck(t) \/ DeqTail(t)
               \/ DeqNext(t) \/ DeqProtect(t)
      <4>1. LocalStep(t) /\ ~ DeqBegin(t) /\ ~ DeqTake(t)
        BY <3>3 DEF LocalStep, DeqHead, DeqPublish, DeqCheck, DeqTail, DeqNext, DeqProtect,
           DeqBegin, DeqTake, Free, At
      <4> QED
        BY <2>3, <4>1
    <3> QED
      BY <2>5, <2>8, <2>11, <3>1, <3>2, <3>3 DEF Dequeue
  <2>12. ASSUME NEW t \in Threads, Begin(t) \/ ScanStep(t)
         PROVE  Fifo!Next \/ UNCHANGED <<I, O>>
    BY <2>4, <2>8, <2>9, <2>12 DEF Begin, GetSlots, ScanStep, Fifo!Next
  <2>13. CASE UNCHANGED vars
    BY <2>9, <2>13 DEF vars
  <2> QED
    BY <1>2, <2>10, <2>11, <2>12, <2>13 DEF Next
<1> QED
  BY <1>1, <1>2, Invariance, PTL DEF Spec, FifoOrder, Fifo!Spec
-----------------------------------------------------------------------------
(* The doubly linked list that holds what a thread retired, and the scan   *)
(* that removes from two of them, for lists of any length: why the scan    *)
(* above can be a step on sets.  SDList is a specification of its own.     *)
CONSTANT Data
VARIABLES length, prev, data, nxt, cur, before, pulled

SD == INSTANCE SDList

LEMMA SDNullIsNobody == SD!NULL \notin Nodes /\ SD!NULL \notin Data
BY NoSetContainsEverything DEF SD!NULL

(* What is left of a sequence without repetition.                          *)
LEMMA SDRemoved ==
  ASSUME NEW S, NEW s \in Seq(S), NEW i \in 1..Len(s),
         \A j, k \in 1..Len(s) : s[j] = s[k] => j = k
  PROVE  /\ SD!Without(s, s[i]) \in Seq(S)
         /\ Len(SD!Without(s, s[i])) = Len(s) - 1
         /\ \A k \in 1..Len(s) - 1 :
              SD!Without(s, s[i])[k] = IF k < i THEN s[k] ELSE s[k + 1]
<1> DEFINE a == SubSeq(s, 1, i - 1)
           b == SubSeq(s, i + 1, Len(s))
<1>1. (CHOOSE j \in 1..Len(s) : s[j] = s[i]) = i
  OBVIOUS
<1>2. SD!Without(s, s[i]) = a \o b
  BY <1>1 DEF SD!Without, SD!RemoveAt
<1>3. a \in Seq(S) /\ Len(a) = i - 1 /\ \A k \in 1..i - 1 : a[k] = s[k]
  BY SubSeqProperties
<1>4. /\ b \in Seq(S) /\ Len(b) = Len(s) - i
      /\ \A k \in 1..Len(s) - i : b[k] = s[k + i]
  BY SubSeqProperties
<1> HIDE DEF a, b
<1>5. /\ a \o b \in Seq(S)
      /\ Len(a \o b) = Len(a) + Len(b)
      /\ \A k \in 1..Len(a) + Len(b) :
           (a \o b)[k] = IF k <= Len(a) THEN a[k] ELSE b[k - Len(a)]
  <2>1. a \in Seq(S) /\ b \in Seq(S)
    BY <1>3, <1>4
  <2> QED
    BY <2>1, ConcatProperties
<1>6. ASSUME NEW k \in 1..Len(s) - 1
      PROVE  (a \o b)[k] = IF k < i THEN s[k] ELSE s[k + 1]
  <2>1. CASE k < i
    BY <2>1, <1>3, <1>4, <1>5, <1>6
  <2>2. CASE ~ (k < i)
    <3>1. k - Len(a) \in 1..Len(s) - i /\ (k - Len(a)) + i = k + 1
      BY <2>2, <1>3, <1>6
    <3>2. (a \o b)[k] = b[k - Len(a)]
      BY <2>2, <1>3, <1>4, <1>5, <1>6
    <3> QED
      BY <2>2, <3>1, <3>2, <1>4
  <2> QED
    BY <2>1, <2>2
<1>7. Len(a \o b) = Len(s) - 1
  BY <1>3, <1>4, <1>5
<1> QED
  BY <1>2, <1>5, <1>6, <1>7

SDListTypes ==
  /\ head \in [SD!Lists -> Nodes \cup {SD!NULL}] /\ tail \in [SD!Lists -> Nodes \cup {SD!NULL}]
  /\ length \in [SD!Lists -> Int]
  /\ next \in [Nodes -> Nodes \cup {SD!NULL}] /\ prev \in [Nodes -> Nodes \cup {SD!NULL}]
  /\ data \in [Nodes -> Data \cup {SD!NULL}]
  /\ alive \subseteq Nodes
  /\ line \in [SD!Lists -> Seq(Nodes)]

(* What the calls of the list preserve, wherever the scan is.              *)
SDSound == SDListTypes /\ (\A l \in SD!Lists : SD!Spelled(l)) /\ SD!Apart /\ alive = SD!InLists

LEMMA SDListsAreSound == SD!ListsOK => SDSound
BY DEF SD!ListsOK, SDSound, SD!TypeOK, SDListTypes

(* Two lists have no node in common, whichever they are.                   *)
LEMMA SDNoCommonNode ==
  ASSUME SD!Apart, NEW k \in SD!Lists, NEW l \in SD!Lists, k # l,
         NEW i \in 1..Len(line[k]), NEW j \in 1..Len(line[l])
  PROVE  line[k][i] # line[l][j]
BY DEF SD!Apart, SD!Lists

(* zm_sdlist_push_back puts a node behind all others.                      *)
LEMMA SDPushSound ==
  ASSUME SDSound, NEW l \in SD!Lists, NEW d \in Data, SD!PushBack(l, d)
  PROVE  /\ SDSound'
         /\ length' = [length EXCEPT ![l] = @ + 1]
         /\ Len(line'[l]) = Len(line[l]) + 1
         /\ \A k \in SD!Lists : k # l => line'[k] = line[k]
         /\ \A k \in SD!Lists : \A i \in 1..Len(line[k]) :
              /\ line'[k][i] = line[k][i]
              /\ data'[line[k][i]] = data[line[k][i]]
         /\ data'[line'[l][Len(line[l]) + 1]] = d
<1>1. PICK n \in Nodes \ alive :
        /\ alive' = alive \cup {n}
        /\ data' = [data EXCEPT ![n] = d]
        /\ next' = [m \in Nodes |-> IF m = n THEN SD!NULL
                                    ELSE IF m = tail[l] THEN n ELSE next[m]]
        /\ prev' = [prev EXCEPT ![n] = tail[l]]
        /\ head' = [head EXCEPT ![l] = IF tail[l] = SD!NULL THEN n ELSE @]
        /\ tail' = [tail EXCEPT ![l] = n]
        /\ length' = [length EXCEPT ![l] = @ + 1]
        /\ line' = [line EXCEPT ![l] = Append(@, n)]
  BY DEF SD!PushBack
<1> DEFINE N == Len(line[l])
<1>2. \A k \in SD!Lists : line[k] \in Seq(Nodes) /\ Len(line[k]) \in Nat
  BY DEF SDSound, SDListTypes
<1>3. /\ line'[l] = Append(line[l], n)
      /\ \A k \in SD!Lists : k # l => line'[k] = line[k]
  BY <1>1 DEF SDSound, SDListTypes
<1>4. /\ line'[l] \in Seq(Nodes) /\ Len(line'[l]) = N + 1
      /\ line'[l][N + 1] = n
      /\ \A i \in 1..N : line'[l][i] = line[l][i]
  BY <1>1, <1>2, <1>3
<1>5. \A k \in SD!Lists : \A i \in 1..Len(line[k]) :
        line[k][i] \in Nodes /\ line[k][i] # n /\ line'[k][i] = line[k][i]
  BY <1>1, <1>2, <1>3, <1>4 DEF SDSound, SD!InLists
<1>6. SDListTypes'
  BY <1>1, <1>3, <1>4 DEF SDSound, SDListTypes
<1>7. SD!Spelled(l)'
  <2>1. \A i, j \in 1..N + 1 : line'[l][i] = line'[l][j] => i = j
    <3>1. \A i \in 1..N + 1 : i = N + 1 \/ i \in 1..N
      BY <1>2
    <3>2. \A i \in 1..N : line'[l][i] = line[l][i] /\ line[l][i] # n
      BY <1>4, <1>5
    <3>3. \A i, j \in 1..N : line[l][i] = line[l][j] => i = j
      BY DEF SDSound, SD!Spelled
    <3> QED
      BY <1>4, <3>1, <3>2, <3>3
  <2>2. tail[l] = IF N = 0 THEN SD!NULL ELSE line[l][N]
    BY <1>2 DEF SDSound, SD!Spelled, SD!Predecessor
  <2>3. \A i \in 1..N : line[l][i] = tail[l] <=> i = N
    BY <1>2, <1>5, <2>2, SDNullIsNobody DEF SDSound, SD!Spelled
  <2>4. \A i \in 1..N + 1 : next'[line'[l][i]] = SD!Successor(l, i)'
    BY <1>1, <1>2, <1>4, <1>5, <2>2, <2>3 DEF SDSound, SD!Spelled, SD!Successor
  <2>5. ASSUME NEW i \in 1..N + 1 PROVE prev'[line'[l][i]] = SD!Predecessor(l, i)'
    <3>1. ASSUME NEW j \in 1..N + 1
          PROVE  SD!Predecessor(l, j)' = IF j > 1 THEN line[l][j - 1] ELSE SD!NULL
      <4>1. j > 1 => j - 1 \in 1..N
        BY <1>2, <3>1
      <4>2. j > 1 => line'[l][j - 1] = line[l][j - 1]
        BY <1>4, <4>1
      <4> QED
        BY <4>2 DEF SD!Predecessor
    <3>2. CASE i = N + 1
      <4>1. line'[l][i] = n /\ i \in 1..N + 1 /\ i = N + 1
        BY <1>4, <2>5, <3>2
      <4>2. prev'[n] = tail[l]
        BY <1>1 DEF SDSound, SDListTypes
      <4>3. SD!Predecessor(l, i)' = IF N = 0 THEN SD!NULL ELSE line[l][N]
        BY <1>2, <3>1, <4>1
      <4> QED
        BY <2>2, <4>1, <4>2, <4>3
    <3>3. CASE i # N + 1
      <4>1. prev'[line[l][i]] = prev[line[l][i]]
        BY <1>1, <1>2, <1>5, <2>5, <3>3 DEF SDSound, SDListTypes
      <4>2. i \in 1..N /\ line'[l][i] = line[l][i]
        BY <1>2, <1>4, <2>5, <3>3
      <4>3. prev[line[l][i]] = IF i > 1 THEN line[l][i - 1] ELSE SD!NULL
        BY <4>2 DEF SDSound, SD!Spelled, SD!Predecessor
      <4> QED
        BY <3>1, <4>1, <4>2, <4>3
    <3> QED
      BY <3>2, <3>3
  <2>6. /\ head'[l] = SD!Successor(l, 0)'
        /\ tail'[l] = SD!Predecessor(l, Len(line[l]) + 1)'
    <3>1. /\ SD!Successor(l, 0)' = line'[l][1]
          /\ SD!Predecessor(l, Len(line[l]) + 1)' = n
      <4>1. Len(line'[l]) > 0 /\ 0 + 1 = 1
        BY <1>2, <1>4
      <4>2. Len(line'[l]) + 1 > 1 /\ (Len(line'[l]) + 1) - 1 = N + 1
        BY <1>2, <1>4
      <4> QED
        BY <1>4, <4>1, <4>2 DEF SD!Successor, SD!Predecessor
    <3>2. head'[l] = line'[l][1]
      <4>1. CASE N = 0
        BY <1>1, <1>2, <1>4, <2>2, <4>1 DEF SDSound, SDListTypes
      <4>2. CASE N # 0
        BY <1>1, <1>2, <1>4, <1>5, <2>2, <4>2, SDNullIsNobody
        DEF SDSound, SDListTypes, SD!Spelled, SD!Successor
      <4> QED
        BY <4>1, <4>2
    <3>3. tail'[l] = n
      BY <1>1 DEF SDSound, SDListTypes
    <3> QED
      BY <3>1, <3>2, <3>3
  <2> QED
    BY <1>2, <1>4, <2>1, <2>4, <2>5, <2>6 DEF SD!Spelled
<1>8. ASSUME NEW k \in SD!Lists, k # l PROVE SD!Spelled(k)'
  <2>1. \A i \in 1..Len(line[k]) : line[k][i] # tail[l]
    BY <1>2, <1>5, <1>8, SDNoCommonNode, SDNullIsNobody
    DEF SDSound, SD!Spelled, SD!Predecessor
  <2> QED
    BY <1>1, <1>2, <1>3, <1>5, <1>8, <2>1
    DEF SDSound, SDListTypes, SD!Spelled, SD!Successor, SD!Predecessor
<1>9. SD!Apart'
  <2>1. ASSUME NEW k \in SD!Lists, NEW i \in 1..Len(line'[k])
        PROVE  \/ i \in 1..Len(line[k]) /\ line'[k][i] = line[k][i]
               \/ k = l /\ line'[k][i] = n
    <3>1. CASE k = l /\ i = N + 1
      BY <1>4, <3>1
    <3>2. CASE k # l \/ i # N + 1
      <4>1. i \in 1..Len(line[k])
        BY <1>2, <1>3, <1>4, <2>1, <3>2
      <4> QED
        BY <1>5, <4>1
    <3> QED
      BY <3>1, <3>2
  <2>2. "rlist" \in SD!Lists /\ "plist" \in SD!Lists /\ "rlist" # "plist"
    BY DEF SD!Lists
  <2> QED
    BY <1>5, <2>1, <2>2 DEF SDSound, SD!Apart
<1>10. alive' = SD!InLists'
  BY <1>1, <1>2, <1>3, <1>4, <1>5 DEF SDSound, SD!InLists
<1>11. \A k \in SD!Lists : \A i \in 1..Len(line[k]) : data'[line[k][i]] = data[line[k][i]]
  BY <1>1, <1>5 DEF SDSound, SDListTypes
<1>12. data'[n] = d
  BY <1>1 DEF SDSound, SDListTypes
<1> QED
  BY <1>1, <1>3, <1>4, <1>5, <1>6, <1>7, <1>8, <1>9, <1>10, <1>11, <1>12 DEF SDSound

(* Where the elements of a list come from after the removal of the i-th.   *)
SDClosed(l, i) ==
  /\ line'[l] \in Seq(Nodes)
  /\ Len(line'[l]) = Len(line[l]) - 1
  /\ \A k \in 1..Len(line[l]) - 1 :
       line'[l][k] = IF k < i THEN line[l][k] ELSE line[l][k + 1]
  /\ \A k \in SD!Lists : k # l => line'[k] = line[k]

(* zm_sdlist_rmnode takes a node out of its list and of no other, wherever *)
(* it stands.                                                              *)
LEMMA SDRmNodeSound ==
  ASSUME SDSound, NEW l \in SD!Lists, NEW i \in 1..Len(line[l]),
         SD!RmNode(l, line[l][i])
  PROVE  SDSound' /\ SDClosed(l, i) /\ data' = data
<1> DEFINE n == line[l][i]
           N == Len(line[l])
<1>1. /\ head' = [head EXCEPT ![l] = IF n = @ THEN next[n] ELSE @]
      /\ tail' = [tail EXCEPT ![l] = IF n = @ THEN prev[n] ELSE @]
      /\ next' = [m \in Nodes |-> IF m = prev[n] THEN next[n] ELSE next[m]]
      /\ prev' = [m \in Nodes |-> IF m = next[n] THEN prev[n] ELSE prev[m]]
      /\ alive' = alive \ {n}
      /\ length' = [length EXCEPT ![l] = @ - 1]
      /\ line' = [line EXCEPT ![l] = SD!Without(@, n)]
      /\ data' = data
  BY DEF SD!RmNode
<1>2. /\ \A k \in SD!Lists : line[k] \in Seq(Nodes) /\ Len(line[k]) \in Nat
      /\ \A k \in SD!Lists : \A j \in 1..Len(line[k]) : line[k][j] \in Nodes
      /\ N \in Nat /\ i \in 1..N /\ n \in Nodes
  BY DEF SDSound, SDListTypes
<1>3. \A j, k \in 1..N : line[l][j] = line[l][k] => j = k
  BY DEF SDSound, SD!Spelled
<1>4. /\ line'[l] = SD!Without(line[l], n)
      /\ \A k \in SD!Lists : k # l => line'[k] = line[k]
  BY <1>1 DEF SDSound, SDListTypes
<1>5. SDClosed(l, i)
  <2> DEFINE s == line[l]
  <2>1. s \in Seq(Nodes) /\ i \in 1..Len(s)
    BY <1>2
  <2>2. \A j, k \in 1..Len(s) : s[j] = s[k] => j = k
    BY <1>3
  <2> HIDE DEF s
  <2>3. /\ SD!Without(s, s[i]) \in Seq(Nodes)
        /\ Len(SD!Without(s, s[i])) = Len(s) - 1
        /\ \A k \in 1..Len(s) - 1 :
             SD!Without(s, s[i])[k] = IF k < i THEN s[k] ELSE s[k + 1]
    BY <2>1, <2>2, SDRemoved
  <2>4. line'[l] = SD!Without(s, s[i])
    BY <1>4 DEF s
  <2> QED
    BY <1>4, <2>3, <2>4 DEF SDClosed, s
<1>6. /\ \A j \in 1..N - 1 : j < i => line'[l][j] = line[l][j]
      /\ \A j \in 1..N - 1 : ~ (j < i) => line'[l][j] = line[l][j + 1]
      /\ Len(line'[l]) = N - 1
  BY <1>2, <1>5 DEF SDClosed
<1>7. /\ next[n] = IF i < N THEN line[l][i + 1] ELSE SD!NULL
      /\ prev[n] = IF i > 1 THEN line[l][i - 1] ELSE SD!NULL
  BY <1>2 DEF SDSound, SD!Spelled, SD!Successor, SD!Predecessor
<1>8. SDListTypes'
  <2>1. line' \in [SD!Lists -> Seq(Nodes)]
    BY <1>1, <1>5 DEF SDSound, SDListTypes, SDClosed
  <2>2. next[n] \in Nodes \cup {SD!NULL} /\ prev[n] \in Nodes \cup {SD!NULL}
    BY <1>2 DEF SDSound, SDListTypes
  <2> QED
    BY <1>1, <2>1, <2>2 DEF SDSound, SDListTypes
<1> HIDE DEF n, N
<1>9. SD!Spelled(l)'
  <2>1. ASSUME NEW j \in 1..N - 1, NEW k \in 1..N - 1, line'[l][j] = line'[l][k]
        PROVE  j = k
    <3> DEFINE from(x) == IF x < i THEN x ELSE x + 1
    <3>1. from(j) \in 1..N /\ from(k) \in 1..N
      BY <1>2
    <3>2. line[l][from(j)] = line[l][from(k)]
      BY <1>6, <2>1, <1>2
    <3>3. from(j) = from(k)
      BY <1>3, <3>1, <3>2
    <3> QED
      BY <1>2, <3>3
  <2>2. ASSUME NEW j \in 1..N
        PROVE  /\ line[l][j] = prev[n] <=> j = i - 1
               /\ line[l][j] = next[n] <=> j = i + 1
    BY <1>2, <1>3, <1>7, <2>2, SDNullIsNobody DEF N
  <2>3. ASSUME NEW j \in 1..N
        PROVE  /\ next'[line[l][j]] = IF j = i - 1 THEN next[n] ELSE next[line[l][j]]
               /\ prev'[line[l][j]] = IF j = i + 1 THEN prev[n] ELSE prev[line[l][j]]
               /\ next[line[l][j]] = IF j < N THEN line[l][j + 1] ELSE SD!NULL
               /\ prev[line[l][j]] = IF j > 1 THEN line[l][j - 1] ELSE SD!NULL
    BY <1>1, <1>2, <2>2, <2>3 DEF N, SDSound, SD!Spelled, SD!Successor, SD!Predecessor
  <2>4. ASSUME NEW j \in 1..N - 1
        PROVE  /\ next'[line'[l][j]] = SD!Successor(l, j)'
               /\ prev'[line'[l][j]] = SD!Predecessor(l, j)'
    <3>1. SD!Successor(l, j)' = IF j < N - 1 THEN line'[l][j + 1] ELSE SD!NULL
      BY <1>6 DEF SD!Successor
    <3>2. SD!Predecessor(l, j)' = IF j > 1 THEN line'[l][j - 1] ELSE SD!NULL
      BY DEF SD!Predecessor
    <3>3. CASE j < i
      <4>1. /\ j \in 1..N /\ line'[l][j] = line[l][j]
            /\ j + 1 < i => line'[l][j + 1] = line[l][j + 1]
            /\ j > 1 => line'[l][j - 1] = line[l][j - 1]
        <5>1. j \in 1..N /\ (j + 1 < i => j + 1 \in 1..N - 1)
              /\ (j > 1 => j - 1 \in 1..N - 1 /\ j - 1 < i)
          BY <1>2, <2>4, <3>3
        <5> QED
          BY <1>6, <2>4, <3>3, <5>1
      <4>2. j = i - 1 /\ i < N => line'[l][j + 1] = line[l][i + 1]
        <5>1. i < N => i \in 1..N - 1 /\ ~ (i < i) /\ (i - 1) + 1 = i
          BY <1>2
        <5> QED
          BY <1>6, <5>1
      <4>3. next'[line[l][j]] = SD!Successor(l, j)'
        <5>1. CASE j = i - 1
          <6>1. next'[line[l][j]] = next[n]
            BY <2>3, <4>1, <5>1
          <6>2. j < N - 1 <=> i < N
            BY <1>2, <2>4, <5>1
          <6> QED
            BY <1>7, <3>1, <4>2, <5>1, <6>1, <6>2
        <5>2. CASE j # i - 1
          <6>1. j < N /\ j < N - 1 /\ j + 1 < i
            BY <1>2, <2>4, <3>3, <5>2
          <6> QED
            BY <2>3, <3>1, <4>1, <5>2, <6>1
        <5> QED
          BY <5>1, <5>2
      <4>4. prev'[line[l][j]] = SD!Predecessor(l, j)'
        <5>1. prev'[line[l][j]] = IF j > 1 THEN line[l][j - 1] ELSE SD!NULL
          <6>1. j # i + 1
            BY <1>2, <2>4, <3>3
          <6> QED
            BY <2>3, <4>1, <6>1
        <5> QED
          BY <3>2, <4>1, <5>1
      <4> QED
        BY <4>1, <4>3, <4>4
    <3>4. CASE j >= i
      <4>1. /\ j + 1 \in 1..N /\ line'[l][j] = line[l][j + 1]
            /\ j < N - 1 => line'[l][j + 1] = line[l][(j + 1) + 1]
            /\ j > i => line'[l][j - 1] = line[l][(j + 1) - 1]
        <5>1. j + 1 \in 1..N /\ ~ (j < i) /\ ~ (j + 1 < i)
          BY <1>2, <2>4, <3>4
        <5>2. line'[l][j] = line[l][j + 1]
          BY <1>6, <2>4, <5>1
        <5>3. j < N - 1 => line'[l][j + 1] = line[l][(j + 1) + 1]
          BY <1>2, <1>6, <2>4, <5>1
        <5>4. ASSUME j > i PROVE line'[l][j - 1] = line[l][(j + 1) - 1]
          <6>1. j - 1 \in 1..N - 1 /\ ~ (j - 1 < i) /\ (j - 1) + 1 = (j + 1) - 1
            BY <1>2, <2>4, <5>4
          <6> QED
            BY <1>6, <6>1
        <5> QED
          BY <5>1, <5>2, <5>3, <5>4
      <4>2. j = i /\ i > 1 => line'[l][j - 1] = line[l][i - 1]
        BY <1>2, <1>6, <2>4, <3>4
      <4>3. next'[line[l][j + 1]] = SD!Successor(l, j)'
        <5>1. j + 1 # i - 1 /\ (j + 1 < N <=> j < N - 1)
          BY <1>2, <2>4, <3>4
        <5> QED
          BY <2>3, <3>1, <4>1, <5>1
      <4>4. prev'[line[l][j + 1]] = SD!Predecessor(l, j)'
        <5>1. CASE j = i
          <6>1. prev'[line[l][j + 1]] = prev[n]
            BY <2>3, <4>1, <5>1
          <6> QED
            BY <1>7, <3>2, <4>2, <5>1, <6>1
        <5>2. CASE j # i
          <6>1. j > i /\ j > 1 /\ j + 1 > 1 /\ j + 1 # i + 1
            BY <1>2, <2>4, <3>4, <5>2
          <6> QED
            BY <2>3, <3>2, <4>1, <6>1
        <5> QED
          BY <5>1, <5>2
      <4> QED
        BY <4>1, <4>3, <4>4
    <3> QED
      BY <1>2, <2>4, <3>3, <3>4
  <2>5. /\ head[l] = line[l][1] /\ tail[l] = line[l][N]
        /\ n = head[l] <=> i = 1
        /\ n = tail[l] <=> i = N
    <3>1. (N + 1) - 1 = N /\ N + 1 > 1 /\ 0 < N /\ 0 + 1 = 1
      BY <1>2
    <3>2. head[l] = line[l][1] /\ tail[l] = line[l][N]
      BY <3>1 DEF N, SDSound, SD!Spelled, SD!Successor, SD!Predecessor
    <3>3. 1 \in 1..N /\ N \in 1..N
      BY <1>2
    <3> QED
      BY <1>2, <1>3, <3>2, <3>3 DEF n
  <2>6. head'[l] = SD!Successor(l, 0)'
    <3>1. SD!Successor(l, 0)' = IF 0 < N - 1 THEN line'[l][1] ELSE SD!NULL
      BY <1>6 DEF SD!Successor
    <3>2. head'[l] = IF i = 1 THEN next[n] ELSE head[l]
      BY <1>1, <2>5 DEF SDSound, SDListTypes
    <3>3. CASE i = 1
      <4>1. 0 < N - 1 => 1 \in 1..N - 1 /\ ~ (1 < i) /\ line[l][1 + 1] = line[l][i + 1]
        BY <1>2, <3>3
      <4>2. 0 < N - 1 <=> i < N
        BY <1>2, <3>3
      <4> QED
        BY <1>6, <1>7, <3>1, <3>2, <3>3, <4>1, <4>2
    <3>4. CASE i # 1
      <4>1. 0 < N - 1 /\ 1 \in 1..N - 1 /\ 1 < i
        BY <1>2, <3>4
      <4> QED
        BY <1>6, <2>5, <3>1, <3>2, <3>4, <4>1
    <3> QED
      BY <3>3, <3>4
  <2>7. tail'[l] = SD!Predecessor(l, Len(line[l]) + 1)'
    <3>1. SD!Predecessor(l, Len(line[l]) + 1)' = IF N > 1 THEN line'[l][N - 1] ELSE SD!NULL
      <4>1. (Len(line'[l]) + 1) - 1 = N - 1 /\ Len(line'[l]) + 1 = N
        BY <1>2, <1>6
      <4> QED
        BY <4>1 DEF SD!Predecessor
    <3>2. tail'[l] = IF i = N THEN prev[n] ELSE tail[l]
      BY <1>1, <2>5 DEF SDSound, SDListTypes
    <3>3. CASE i = N
      <4>1. N > 1 => N - 1 \in 1..N - 1 /\ N - 1 < i /\ line[l][N - 1] = line[l][i - 1]
        BY <1>2, <3>3
      <4>2. N > 1 <=> i > 1
        BY <3>3
      <4> QED
        BY <1>6, <1>7, <3>1, <3>2, <3>3, <4>1, <4>2
    <3>4. CASE i # N
      <4>1. N > 1 /\ N - 1 \in 1..N - 1 /\ ~ (N - 1 < i) /\ (N - 1) + 1 = N
        BY <1>2, <3>4
      <4>2. line'[l][N - 1] = line[l][N]
        BY <1>6, <4>1
      <4> QED
        BY <2>5, <3>1, <3>2, <3>4, <4>1, <4>2
    <3> QED
      BY <3>3, <3>4
  <2> QED
    BY <1>6, <2>1, <2>4, <2>6, <2>7 DEF SD!Spelled
<1>10. ASSUME NEW k \in SD!Lists, k # l PROVE SD!Spelled(k)'
  <2>1. ASSUME NEW j \in 1..Len(line[k])
        PROVE  line[k][j] # prev[n] /\ line[k][j] # next[n]
    <3>1. line[k][j] \in Nodes /\ line[k][j] # SD!NULL
      BY <1>2, <1>10, <2>1, SDNullIsNobody
    <3>2. ASSUME NEW m \in 1..N PROVE line[k][j] # line[l][m]
      BY <1>10, <2>1, <3>2, SDNoCommonNode DEF SDSound, N
    <3>3. /\ i < N => i + 1 \in 1..N
          /\ i > 1 => i - 1 \in 1..N
      BY <1>2
    <3> QED
      BY <1>7, <3>1, <3>2, <3>3
  <2>2. \A j \in 1..Len(line[k]) : /\ next'[line[k][j]] = next[line[k][j]]
                                   /\ prev'[line[k][j]] = prev[line[k][j]]
    BY <1>1, <1>2, <2>1
  <2>3. head'[k] = head[k] /\ tail'[k] = tail[k]
    BY <1>1, <1>10 DEF SDSound, SDListTypes
  <2>4. \A j : SD!Successor(k, j)' = SD!Successor(k, j) /\ SD!Predecessor(k, j)' = SD!Predecessor(k, j)
    BY <1>4, <1>10 DEF SD!Successor, SD!Predecessor
  <2>5. line'[k] = line[k] /\ SD!Spelled(k)
    BY <1>4, <1>10 DEF SDSound
  <2> QED
    BY <2>2, <2>3, <2>4, <2>5 DEF SD!Spelled
<1>11. SD!Apart'
  <2>1. ASSUME NEW k \in SD!Lists, NEW j \in 1..Len(line'[k])
        PROVE  \E m \in 1..Len(line[k]) : line'[k][j] = line[k][m]
    <3>1. CASE k # l
      BY <1>4, <2>1, <3>1
    <3>2. CASE k = l
      <4>1. j \in 1..N - 1 /\ j \in 1..N /\ j + 1 \in 1..N
        BY <1>2, <1>6, <2>1, <3>2
      <4>2. line'[l][j] = line[l][j] \/ line'[l][j] = line[l][j + 1]
        BY <1>6, <4>1
      <4> QED
        BY <3>2, <4>1, <4>2 DEF N
    <3> QED
      BY <3>1, <3>2
  <2> QED
    BY <2>1 DEF SDSound, SD!Apart, SD!Lists
<1>12. alive' = SD!InLists'
  <2>1. ASSUME NEW k \in SD!Lists, k # l, NEW j \in 1..Len(line[k])
        PROVE  line[k][j] # n
    BY <1>2, <2>1, SDNoCommonNode DEF SDSound, n
  <2>2. ASSUME NEW j \in 1..N, j # i
        PROVE  \E m \in 1..N - 1 : line'[l][m] = line[l][j]
    <3>1. CASE j < i
      BY <1>2, <1>6, <2>2, <3>1
    <3>2. CASE j > i
      <4>1. j - 1 \in 1..N - 1 /\ ~ (j - 1 < i) /\ (j - 1) + 1 = j
        BY <1>2, <2>2, <3>2
      <4> QED
        BY <1>6, <4>1
    <3> QED
      BY <1>2, <2>2, <3>1, <3>2
  <2>3. ASSUME NEW j \in 1..N - 1
        PROVE  line'[l][j] # n /\ \E m \in 1..N : line'[l][j] = line[l][m]
    BY <1>2, <1>3, <1>6, <2>3 DEF n
  <2>4. ASSUME NEW m \in Nodes PROVE m \in SD!InLists' <=> m \in SD!InLists /\ m # n
    <3>1. ASSUME m \in SD!InLists' PROVE m \in SD!InLists /\ m # n
      <4>1. PICK k \in SD!Lists : \E j \in 1..Len(line'[k]) : line'[k][j] = m
        BY <3>1 DEF SD!InLists
      <4>2. CASE k = l
        BY <1>2, <1>6, <2>3, <2>4, <4>1, <4>2 DEF SD!InLists, N
      <4>3. CASE k # l
        BY <1>4, <2>1, <2>4, <4>1, <4>3 DEF SD!InLists
      <4> QED
        BY <4>2, <4>3
    <3>2. ASSUME m \in SD!InLists, m # n PROVE m \in SD!InLists'
      <4>1. PICK k \in SD!Lists : \E j \in 1..Len(line[k]) : line[k][j] = m
        BY <3>2 DEF SD!InLists
      <4>2. CASE k = l
        <5>1. PICK j \in 1..N : line[l][j] = m
          BY <4>1, <4>2 DEF N
        <5>2. j # i
          BY <3>2, <5>1 DEF n
        <5> QED
          BY <1>6, <2>2, <2>4, <5>1, <5>2 DEF SD!InLists
      <4>3. CASE k # l
        BY <1>4, <2>4, <4>1, <4>3 DEF SD!InLists
      <4> QED
        BY <4>2, <4>3
    <3> QED
      BY <3>1, <3>2
  <2> QED
    BY <1>1, <2>4 DEF SDSound, SD!InLists
<1> QED
  BY <1>1, <1>5, <1>8, <1>9, <1>10, <1>11, <1>12 DEF SDSound

(* zm_sdlist_pop_front takes out the first node.                           *)
LEMMA SDPopSound ==
  ASSUME SDSound, NEW l \in SD!Lists, head[l] # SD!NULL, SD!PopFront(l)
  PROVE  SDSound' /\ SDClosed(l, 1) /\ data' = data
<1> DEFINE n == head[l]
           N == Len(line[l])
<1>1. /\ length' = [length EXCEPT ![l] = @ - 1]
      /\ head' = [head EXCEPT ![l] = next[n]]
      /\ tail' = [tail EXCEPT ![l] = IF next[n] = SD!NULL THEN SD!NULL ELSE @]
      /\ prev' = [m \in Nodes |-> IF m = next[n] THEN SD!NULL ELSE prev[m]]
      /\ alive' = alive \ {n}
      /\ line' = [line EXCEPT ![l] = Tail(@)]
      /\ next' = next /\ data' = data
  BY DEF SD!PopFront
<1>2. /\ \A k \in SD!Lists : line[k] \in Seq(Nodes) /\ Len(line[k]) \in Nat
      /\ \A k \in SD!Lists : \A j \in 1..Len(line[k]) : line[k][j] \in Nodes
  BY DEF SDSound, SDListTypes
<1>3. N \in Nat /\ N > 0 /\ n = line[l][1] /\ 1 \in 1..N /\ n \in Nodes
  BY <1>2 DEF SDSound, SD!Spelled, SD!Successor
<1>4. next[n] = (IF 1 < N THEN line[l][2] ELSE SD!NULL) /\ prev[n] = SD!NULL
  BY <1>3 DEF SDSound, SD!Spelled, SD!Successor, SD!Predecessor
<1>5. tail[l] = line[l][N]
  <2>1. N + 1 > 1 /\ (N + 1) - 1 = N
    BY <1>3
  <2> QED
    BY <2>1 DEF SDSound, SD!Spelled, SD!Predecessor
<1>6. SD!Without(line[l], n) = Tail(line[l])
  <2> DEFINE s == line[l]
  <2>1. (CHOOSE j \in 1..Len(s) : s[j] = n) = 1
    BY <1>3 DEF SDSound, SD!Spelled
  <2>2. SD!Without(s, n) = SubSeq(s, 1, 0) \o SubSeq(s, 2, Len(s))
    <3>1. SD!Without(s, n) = SD!RemoveAt(s, 1)
      BY <2>1 DEF SD!Without
    <3>2. SD!RemoveAt(s, 1) = SubSeq(s, 1, 1 - 1) \o SubSeq(s, 1 + 1, Len(s))
      BY DEF SD!RemoveAt
    <3>3. 1 - 1 = 0 /\ 1 + 1 = 2
      OBVIOUS
    <3> QED
      BY <3>1, <3>2, <3>3
  <2>3. SubSeq(s, 1, 0) = << >>
    BY SubSeqEmpty
  <2>4. SubSeq(s, 2, Len(s)) = Tail(s)
    <3>1. s \in Seq(Nodes) /\ s # << >>
      BY <1>2, <1>3
    <3> QED
      BY <3>1, TailIsSubSeq
  <2>5. Tail(s) \in Seq(Nodes)
    BY <1>2, <1>3
  <2> QED
    BY <2>2, <2>3, <2>4, <2>5, ConcatEmptySeq
<1>7. \A j \in 1..N : line[l][j] = n <=> j = 1
  <2>1. \A i, j \in 1..N : line[l][i] = line[l][j] => i = j
    BY DEF SDSound, SD!Spelled
  <2> QED
    BY <1>3, <2>1
<1>8. next[n] = SD!NULL <=> N = 1
  <2>1. 1 < N => 2 \in 1..N
    BY <1>3
  <2>2. 1 < N => line[l][2] # SD!NULL
    BY <1>2, <2>1, SDNullIsNobody
  <2> QED
    <3> HIDE DEF N
    <3>1. N = 1 <=> ~ (1 < N)
      <4>1. N \in Nat /\ N > 0
        BY <1>3
      <4> QED
        BY <4>1
    <3> QED
      BY <1>4, <2>2, <3>1
<1>9. SD!RmNode(l, n)
  <2>1. head' = [head EXCEPT ![l] = IF n = @ THEN next[n] ELSE @]
    BY <1>1
  <2>2. tail' = [tail EXCEPT ![l] = IF n = @ THEN prev[n] ELSE @]
    <3>1. n = tail[l] <=> N = 1
      <4>1. N \in 1..N
        BY <1>3
      <4> QED
        BY <1>5, <1>7, <4>1
    <3> QED
      BY <1>1, <1>4, <1>8, <3>1 DEF SDSound, SDListTypes
  <2>3. next' = [m \in Nodes |-> IF m = prev[n] THEN next[n] ELSE next[m]]
    BY <1>1, <1>4, SDNullIsNobody DEF SDSound, SDListTypes
  <2>4. prev' = [m \in Nodes |-> IF m = next[n] THEN prev[n] ELSE prev[m]]
    BY <1>1, <1>4
  <2> QED
    <3>1. line' = [line EXCEPT ![l] = SD!Without(@, n)]
      BY <1>1, <1>6 DEF SDSound, SDListTypes
    <3> HIDE DEF n
    <3> QED
      BY <1>1, <2>1, <2>2, <2>3, <2>4, <3>1 DEF SD!RmNode
<1> QED
  BY <1>1, <1>3, <1>9, SDRmNodeSound

LEMMA SDTwoLists == "rlist" \in SD!Lists /\ "plist" \in SD!Lists /\ "rlist" # "plist"
BY DEF SD!Lists

LEMMA SDInitInv == SD!Init => SD!IInv
<1> SUFFICES ASSUME SD!Init PROVE SD!IInv
  OBVIOUS
<1> USE DEF SD!Init
<1>1. \A l \in SD!Lists : line[l] = << >> /\ Len(line[l]) = 0 /\ length[l] = 0
  OBVIOUS
<1>2. SD!TypeOK
  <2>1. line \in [SD!Lists -> Seq(Nodes)]
    OBVIOUS
  <2> QED
    BY <2>1 DEF SD!TypeOK
<1>3. \A l \in SD!Lists : SD!Spelled(l)
  BY <1>1 DEF SD!Spelled, SD!Successor, SD!Predecessor
<1>4. SD!Apart /\ alive = SD!InLists
  BY <1>1, SDTwoLists DEF SD!Apart, SD!InLists
<1>5. SD!ListsOK
  BY <1>1, <1>2, <1>3, <1>4, SDTwoLists DEF SD!ListsOK
<1>6. SD!RetiredOnce
  BY <1>1, SDTwoLists DEF SD!RetiredOnce, SD!DataOf
<1> QED
  BY <1>5, <1>6 DEF SD!IInv, SD!ScanOK, SD!ScanExact

(* What a list contains after each call.                                   *)
LEMMA SDPushData ==
  ASSUME SDSound, NEW l \in SD!Lists, NEW d \in Data, SD!PushBack(l, d)
  PROVE  /\ SD!DataOf(l)' = SD!DataOf(l) \cup {d}
         /\ \A k \in SD!Lists : k # l => SD!DataOf(k)' = SD!DataOf(k)
<1>1. \A k \in SD!Lists : Len(line[k]) \in Nat
  BY DEF SDSound, SDListTypes
<1>2. \A k \in SD!Lists : k # l => line'[k] = line[k]
  BY SDPushSound
<1>3. Len(line'[l]) = Len(line[l]) + 1
  BY SDPushSound
<1>4. \A k \in SD!Lists : \A i \in 1..Len(line[k]) : data'[line'[k][i]] = data[line[k][i]]
  BY SDPushSound
<1>5. data'[line'[l][Len(line[l]) + 1]] = d
  BY SDPushSound
<1>6. SD!DataOf(l)' = SD!DataOf(l) \cup {d}
  <2>1. \A i \in 1..Len(line'[l]) : i \in 1..Len(line[l]) \/ i = Len(line[l]) + 1
    BY <1>1, <1>3
  <2>2. /\ \A i \in 1..Len(line[l]) : i \in 1..Len(line'[l])
        /\ Len(line[l]) + 1 \in 1..Len(line'[l])
    BY <1>1, <1>3
  <2>3. ASSUME NEW i \in 1..Len(line'[l])
        PROVE  data'[line'[l][i]] \in SD!DataOf(l) \cup {d}
    <3>1. CASE i \in 1..Len(line[l])
      BY <1>4, <3>1 DEF SD!DataOf
    <3>2. CASE i = Len(line[l]) + 1
      BY <1>5, <3>2
    <3> QED
      BY <2>1, <3>1, <3>2
  <2>4. ASSUME NEW i \in 1..Len(line[l])
        PROVE  data[line[l][i]] \in SD!DataOf(l)'
    BY <1>4, <2>2 DEF SD!DataOf
  <2>5. d \in SD!DataOf(l)'
    BY <1>5, <2>2 DEF SD!DataOf
  <2>6. SD!DataOf(l)' \subseteq SD!DataOf(l) \cup {d}
    BY <2>3 DEF SD!DataOf
  <2>7. SD!DataOf(l) \subseteq SD!DataOf(l)'
    BY <2>4 DEF SD!DataOf
  <2> QED
    BY <2>5, <2>6, <2>7
<1>7. ASSUME NEW k \in SD!Lists, k # l PROVE SD!DataOf(k)' = SD!DataOf(k)
  BY <1>2, <1>4, <1>7 DEF SD!DataOf
<1> QED
  BY <1>6, <1>7

LEMMA SDClosedData ==
  ASSUME SDSound, NEW l \in SD!Lists, NEW i \in 1..Len(line[l]), SDClosed(l, i),
         data' = data
  PROVE  /\ SD!DataOf(l)' \subseteq SD!DataOf(l)
         /\ SD!DataOf(l) \subseteq SD!DataOf(l)' \cup {data[line[l][i]]}
         /\ \A k \in SD!Lists : k # l => SD!DataOf(k)' = SD!DataOf(k)
<1> DEFINE N == Len(line[l])
<1>1. N \in Nat /\ i \in 1..N
  BY DEF SDSound, SDListTypes
<1>2. /\ Len(line'[l]) = N - 1
      /\ \A k \in 1..N - 1 :
           line'[l][k] = IF k < i THEN line[l][k] ELSE line[l][k + 1]
      /\ \A k \in SD!Lists : k # l => line'[k] = line[k]
  BY DEF SDClosed
<1> HIDE DEF N
<1>3. ASSUME NEW k \in 1..N - 1
      PROVE  \E j \in 1..N : data'[line'[l][k]] = data[line[l][j]]
  <2>1. k \in 1..N /\ k + 1 \in 1..N
    BY <1>1
  <2> QED
    BY <1>2, <2>1
<1>4. ASSUME NEW j \in 1..N, j # i
      PROVE  \E k \in 1..N - 1 : data'[line'[l][k]] = data[line[l][j]]
  <2>1. CASE j < i
    <3>1. j \in 1..N - 1
      BY <1>1, <2>1
    <3> QED
      BY <1>2, <2>1, <3>1
  <2>2. CASE ~ (j < i)
    <3>1. j - 1 \in 1..N - 1 /\ ~ (j - 1 < i) /\ (j - 1) + 1 = j
      BY <1>1, <1>4, <2>2
    <3>2. line'[l][j - 1] = line[l][j]
      BY <1>2, <3>1
    <3> QED
      BY <3>1, <3>2
  <2> QED
    BY <2>1, <2>2
<1>5. SD!DataOf(l)' \subseteq SD!DataOf(l)
  <2>1. ASSUME NEW k \in 1..N - 1 PROVE data'[line'[l][k]] \in SD!DataOf(l)
    BY <1>3 DEF SD!DataOf, N
  <2> QED
    BY <1>2, <2>1 DEF SD!DataOf
<1>6. SD!DataOf(l) \subseteq SD!DataOf(l)' \cup {data[line[l][i]]}
  <2>1. ASSUME NEW j \in 1..N PROVE data[line[l][j]] \in SD!DataOf(l)' \cup {data[line[l][i]]}
    <3>1. CASE j # i
      <4>1. PICK k \in 1..N - 1 : data'[line'[l][k]] = data[line[l][j]]
        BY <1>4, <2>1, <3>1
      <4>2. data'[line'[l][k]] \in SD!DataOf(l)'
        BY <1>2, <4>1 DEF SD!DataOf
      <4> QED
        BY <4>1, <4>2
    <3> QED
      BY <3>1
  <2> QED
    BY <2>1 DEF SD!DataOf, N
<1>7. \A k \in SD!Lists : k # l => SD!DataOf(k)' = SD!DataOf(k)
  BY <1>2 DEF SD!DataOf
<1> QED
  BY <1>5, <1>6, <1>7

(* The rest of the types: the client's locals.                             *)
SDLocalTypes ==
  /\ pc \in {"idle", "init", "pull", "loop", "search", "free"}
  /\ node \in Nodes \cup {SD!NULL} /\ nxt \in Nodes \cup {SD!NULL}
  /\ cur \in Nodes \cup {SD!NULL}
  /\ before \subseteq Data /\ pulled \subseteq Data

LEMMA SDTypesSplit == SD!TypeOK <=> SDListTypes /\ SDLocalTypes
BY DEF SD!TypeOK, SDListTypes, SDLocalTypes

(* Objects stay different when the lists only change at the end, or lose   *)
(* a node.                                                                 *)
LEMMA SDRetireInv == ASSUME SD!IInv, NEW d \in Data, SD!Retire(d) PROVE SD!IInv'
<1>1. /\ pc = "idle" /\ d \notin SD!DataOf("rlist") /\ SD!PushBack("rlist", d)
      /\ pc' \in {"init", "idle"}
      /\ UNCHANGED <<node, nxt, cur, before, pulled>>
  BY DEF SD!Retire
<1>2. SDSound /\ SD!TypeOK /\ SD!ListsOK
  BY SDListsAreSound DEF SD!IInv, SD!ListsOK
<1> DEFINE R == line["rlist"]
<1>3. /\ SDSound'
      /\ length' = [length EXCEPT !["rlist"] = @ + 1]
      /\ Len(line'["rlist"]) = Len(R) + 1
      /\ line'["plist"] = line["plist"]
      /\ \A i \in 1..Len(R) :
           line'["rlist"][i] = R[i] /\ data'[R[i]] = data[R[i]]
      /\ data'[line'["rlist"][Len(R) + 1]] = d
  BY <1>1, <1>2, SDTwoLists, SDPushSound
<1>4. /\ SD!DataOf("rlist")' = SD!DataOf("rlist") \cup {d}
      /\ SD!DataOf("plist")' = SD!DataOf("plist")
  BY <1>1, <1>2, SDTwoLists, SDPushData
<1>5. SD!ListsOK'
  <2>1. SD!TypeOK'
    <3>1. SDListTypes'
      BY <1>3 DEF SDSound
    <3>2. SDLocalTypes'
      BY <1>1, <1>2, SDTypesSplit DEF SDLocalTypes
    <3> QED
      BY <3>1, <3>2 DEF SD!TypeOK, SDListTypes, SDLocalTypes
  <2>2. length'["rlist"] = Len(line'["rlist"])
    BY <1>2, <1>3, SDTwoLists DEF SD!ListsOK, SDSound, SDListTypes
  <2> QED
    BY <1>1, <1>2, <1>3, <2>1, <2>2 DEF SD!ListsOK, SDSound
<1>6. SD!RetiredOnce'
  <2>1. \A l \in SD!Lists : SD!DataOf(l)' \subseteq Data
    BY <1>4 DEF SD!IInv, SD!RetiredOnce, SD!Lists
  <2>2. Len(R) \in Nat
    BY <1>2, SDTwoLists DEF SDSound, SDListTypes
  <2>3. /\ \A i \in 1..Len(R) : data'[line'["rlist"][i]] = data[R[i]] /\ data[R[i]] # d
        /\ \A i, j \in 1..Len(R) : data[R[i]] = data[R[j]] => i = j
    BY <1>1, <1>3 DEF SD!IInv, SD!RetiredOnce, SD!DataOf
  <2>4. \A i \in 1..Len(line'["rlist"]) : i \in 1..Len(R) \/ i = Len(R) + 1
    BY <1>3, <2>2
  <2>5. \A i, j \in 1..Len(line'["rlist"]) :
          data'[line'["rlist"][i]] = data'[line'["rlist"][j]] => i = j
    BY <1>3, <2>3, <2>4
  <2> QED
    BY <2>1, <2>5 DEF SD!RetiredOnce
<1> QED
  BY <1>1, <1>5, <1>6 DEF SD!IInv, SD!ScanOK, SD!ScanExact

LEMMA SDScanInitInv == SD!IInv /\ SD!ScanInit => SD!IInv'
<1> SUFFICES ASSUME SD!IInv, SD!ScanInit PROVE SD!IInv'
  OBVIOUS
<1>1. /\ pc = "init" /\ pc' = "pull"
      /\ head' = [head EXCEPT !["plist"] = SD!NULL]
      /\ tail' = [tail EXCEPT !["plist"] = SD!NULL]
      /\ length' = [length EXCEPT !["plist"] = 0]
      /\ before' = SD!DataOf("rlist") /\ pulled' = {}
      /\ UNCHANGED <<next, prev, data, alive, line, node, nxt, cur>>
  BY DEF SD!ScanInit, SD!Goto
<1>2. SD!TypeOK /\ line["plist"] = << >> /\ Len(line["plist"]) = 0
  BY <1>1 DEF SD!IInv, SD!ListsOK
<1>3. head["plist"] = SD!NULL /\ tail["plist"] = SD!NULL
  BY <1>2, SDTwoLists DEF SD!IInv, SD!ListsOK, SD!Spelled, SD!Successor, SD!Predecessor
<1>4. head' = head /\ tail' = tail
  BY <1>1, <1>2, <1>3 DEF SD!TypeOK
<1>5. SD!TypeOK'
  BY <1>1, <1>2, SDTwoLists DEF SD!TypeOK, SD!IInv, SD!RetiredOnce
<1>6. \A l \in SD!Lists : SD!Spelled(l)'
  BY <1>1, <1>4 DEF SD!IInv, SD!ListsOK, SD!Spelled, SD!Successor, SD!Predecessor
<1>7. length'["plist"] = Len(line'["plist"]) /\ length'["rlist"] = Len(line'["rlist"])
  BY <1>1, <1>2, SDTwoLists DEF SD!TypeOK, SD!IInv, SD!ListsOK
<1>8. SD!ListsOK'
  BY <1>1, <1>5, <1>6, <1>7 DEF SD!IInv, SD!ListsOK, SD!Apart, SD!InLists
<1>9. SD!DataOf("plist")' = {} /\ SD!DataOf("rlist")' = SD!DataOf("rlist")
  BY <1>1, <1>2 DEF SD!DataOf
<1>10. SD!RetiredOnce'
  BY <1>1 DEF SD!IInv, SD!RetiredOnce, SD!DataOf
<1> QED
  BY <1>1, <1>8, <1>9, <1>10 DEF SD!IInv, SD!ScanOK, SD!ScanExact

LEMMA SDPullInv == ASSUME SD!IInv, NEW d \in Data, SD!Pull(d) PROVE SD!IInv'
<1>1. /\ pc = "pull" /\ pc' = "pull" /\ SD!PushBack("plist", d)
      /\ pulled' = pulled \cup {d}
      /\ UNCHANGED <<node, nxt, cur, before>>
  BY DEF SD!Pull, SD!Goto
<1>2. SDSound /\ SD!TypeOK /\ SD!ListsOK
  BY SDListsAreSound DEF SD!IInv, SD!ListsOK
<1>3. /\ SDSound'
      /\ length' = [length EXCEPT !["plist"] = @ + 1]
      /\ Len(line'["plist"]) = Len(line["plist"]) + 1
      /\ line'["rlist"] = line["rlist"]
      /\ \A i \in 1..Len(line["rlist"]) :
           data'[line["rlist"][i]] = data[line["rlist"][i]]
  BY <1>1, <1>2, SDTwoLists, SDPushSound
<1>4. /\ SD!DataOf("plist")' = SD!DataOf("plist") \cup {d}
      /\ SD!DataOf("rlist")' = SD!DataOf("rlist")
  BY <1>1, <1>2, SDTwoLists, SDPushData
<1>5. SD!ListsOK'
  <2>1. SD!TypeOK'
    <3>1. SDListTypes'
      BY <1>3 DEF SDSound
    <3>2. SDLocalTypes'
      BY <1>1, <1>2, SDTypesSplit DEF SDLocalTypes
    <3> QED
      BY <3>1, <3>2 DEF SD!TypeOK, SDListTypes, SDLocalTypes
  <2>2. /\ length'["plist"] = Len(line'["plist"])
        /\ length'["rlist"] = Len(line'["rlist"])
    BY <1>1, <1>2, <1>3, SDTwoLists DEF SD!ListsOK, SDSound, SDListTypes
  <2> QED
    BY <1>1, <1>2, <1>3, <2>1, <2>2 DEF SD!ListsOK, SDSound
<1>6. SD!RetiredOnce'
  <2>1. \A l \in SD!Lists : SD!DataOf(l)' \subseteq Data
    BY <1>4 DEF SD!IInv, SD!RetiredOnce, SD!Lists
  <2> QED
    BY <1>3, <2>1 DEF SD!IInv, SD!RetiredOnce
<1>7. before' = SD!DataOf("rlist")' /\ pulled' = SD!DataOf("plist")'
  BY <1>1, <1>4 DEF SD!IInv, SD!ScanOK
<1> QED
  BY <1>1, <1>5, <1>6, <1>7 DEF SD!IInv, SD!ScanOK, SD!ScanExact

LEMMA SDPullEndInv == SD!IInv /\ SD!PullEnd => SD!IInv'
<1> SUFFICES ASSUME SD!IInv, SD!PullEnd PROVE SD!IInv'
  OBVIOUS
<1>1. /\ pc = "pull" /\ pc' = "loop" /\ node' = head["rlist"]
      /\ UNCHANGED <<SD!lists, nxt, cur, before, pulled>>
  BY DEF SD!PullEnd, SD!Goto
<1>2. SD!ListsOK'
  BY <1>1, SDTwoLists
  DEF SD!IInv, SD!ListsOK, SD!TypeOK, SD!Spelled, SD!Apart, SD!InLists, SD!Successor, SD!Predecessor, SD!lists
<1>3. SD!RetiredOnce'
  BY <1>1 DEF SD!IInv, SD!RetiredOnce, SD!DataOf, SD!lists
<1>4. before = SD!DataOf("rlist") /\ pulled = SD!DataOf("plist")
  BY <1>1 DEF SD!IInv, SD!ScanOK
<1>5. SD!LoopAt(0)'
  <2>1. node' = SD!Successor("rlist", 0)'
    BY <1>1, SDTwoLists DEF SD!IInv, SD!ListsOK, SD!Spelled, SD!Successor, SD!lists
  <2>2. SD!Kept(0)' = {}
    BY DEF SD!Kept
  <2>3. 0 <= Len(line'["rlist"])
    BY <1>1, SDTwoLists DEF SD!IInv, SD!ListsOK, SD!TypeOK, SD!lists
  <2> QED
    BY <1>1, <1>4, <2>1, <2>2, <2>3 DEF SD!LoopAt, SD!DataOf, SD!lists
<1> QED
  BY <1>1, <1>2, <1>3, <1>5 DEF SD!IInv, SD!ScanOK, SD!ScanExact

(* At the end of the loop everything that is left was kept.                *)
LEMMA SDLoopTestInv == SD!IInv /\ SD!LoopTest => SD!IInv'
<1> SUFFICES ASSUME SD!IInv, SD!LoopTest PROVE SD!IInv'
  OBVIOUS
<1>1. pc = "loop" /\ UNCHANGED <<SD!lists, node, before, pulled>>
  BY DEF SD!LoopTest, SD!Goto
<1>2. PICK k \in Nat : SD!LoopAt(k)
  BY <1>1 DEF SD!IInv, SD!ScanOK
<1>3. SD!RetiredOnce'
  BY <1>1 DEF SD!IInv, SD!RetiredOnce, SD!DataOf, SD!lists
<1>4. /\ SD!DataOf("rlist")' = SD!DataOf("rlist") /\ SD!DataOf("plist")' = SD!DataOf("plist")
      /\ SD!Kept(k)' = SD!Kept(k)
      /\ \A j : SD!Successor("rlist", j)' = SD!Successor("rlist", j)
  BY <1>1 DEF SD!DataOf, SD!Kept, SD!Successor, SD!lists
<1>5. SD!TypeOK /\ (node \in Nodes => node # SD!NULL)
  BY SDNullIsNobody DEF SD!IInv, SD!ListsOK
<1>6. Len(line["rlist"]) \in Nat /\ k <= Len(line["rlist"])
  BY <1>2, <1>5, SDTwoLists DEF SD!TypeOK, SD!LoopAt
<1>7. CASE node = SD!NULL
  <2>1. pc' = "free" /\ nxt' = nxt /\ cur' = cur
    BY <1>7 DEF SD!LoopTest, SD!Goto
  <2>2. SD!ListsOK'
    BY <1>1, <2>1, SDTwoLists
    DEF SD!IInv, SD!ListsOK, SD!TypeOK, SD!Spelled, SD!Apart, SD!InLists, SD!Successor, SD!Predecessor, SD!lists
  <2>3. k = Len(line["rlist"])
    <3>1. ASSUME k < Len(line["rlist"]) PROVE FALSE
      <4>1. k + 1 \in 1..Len(line["rlist"]) /\ node = line["rlist"][k + 1]
        BY <1>2, <1>6, <3>1 DEF SD!LoopAt, SD!Successor
      <4>2. line["rlist"] \in Seq(Nodes)
        BY <1>5, SDTwoLists DEF SD!TypeOK
      <4> QED
        BY <1>7, <4>1, <4>2, SDNullIsNobody
    <3> QED
      BY <1>6, <3>1
  <2>4. SD!Kept(k) = SD!DataOf("rlist")
    BY <2>3 DEF SD!Kept, SD!DataOf
  <2>5. SD!DataOf("rlist") = before \cap pulled
    BY <1>2, <2>4 DEF SD!LoopAt
  <2> QED
    BY <1>1, <1>3, <1>4, <2>1, <2>2, <2>5 DEF SD!IInv, SD!ScanOK, SD!ScanExact
<1>8. CASE node # SD!NULL
  <2>1. pc' = "search" /\ nxt' = next[node] /\ cur' = head["plist"] /\ node' = node
    BY <1>1, <1>8 DEF SD!LoopTest, SD!Goto
  <2>2. k < Len(line["rlist"]) /\ node = line["rlist"][k + 1]
        /\ k + 1 \in 1..Len(line["rlist"])
    BY <1>2, <1>6, <1>8 DEF SD!LoopAt, SD!Successor
  <2>3. nxt' = SD!Successor("rlist", k + 1)'
    BY <1>4, <2>1, <2>2, SDTwoLists DEF SD!IInv, SD!ListsOK, SD!Spelled
  <2>4. cur' = SD!Successor("plist", 0)'
    BY <1>1, <2>1, SDTwoLists DEF SD!IInv, SD!ListsOK, SD!Spelled, SD!Successor, SD!lists
  <2>5. SD!TypeOK'
    <3>1. nxt' \in Nodes \cup {SD!NULL} /\ cur' \in Nodes \cup {SD!NULL}
      BY <1>5, <1>8, <2>1, SDTwoLists DEF SD!TypeOK
    <3> QED
      BY <1>1, <1>5, <2>1, <3>1 DEF SD!TypeOK, SD!lists
  <2>6. SD!ListsOK'
    BY <1>1, <2>1, <2>5, SDTwoLists
    DEF SD!IInv, SD!ListsOK, SD!Spelled, SD!Apart, SD!InLists, SD!Successor, SD!Predecessor, SD!lists
  <2>7. SD!LoopAt(k)'
    BY <1>1, <1>2, <1>4, <1>8, <2>1, <2>3 DEF SD!LoopAt, SD!lists
  <2>8. SD!SearchAt(0)'
    <3>1. 0 <= Len(line'["plist"])
      BY <2>5, SDTwoLists DEF SD!TypeOK
    <3> QED
      BY <2>4, <3>1 DEF SD!SearchAt
  <2> QED
    BY <1>3, <2>1, <2>6, <2>7, <2>8 DEF SD!IInv, SD!ScanOK, SD!ScanExact
<1> QED
  BY <1>7, <1>8

LEMMA SDSearchNextInv == SD!IInv /\ SD!SearchNext => SD!IInv'
<1> SUFFICES ASSUME SD!IInv, SD!SearchNext PROVE SD!IInv'
  OBVIOUS
<1>1. /\ pc = "search" /\ pc' = "search"
      /\ cur # SD!NULL /\ data[cur] # data[node] /\ cur' = next[cur]
      /\ UNCHANGED <<SD!lists, node, nxt, before, pulled>>
  BY DEF SD!SearchNext, SD!Goto
<1>2. PICK k \in Nat : SD!LoopAt(k)
  BY <1>1 DEF SD!IInv, SD!ScanOK
<1>3. PICK j \in Nat : SD!SearchAt(j)
  BY <1>1 DEF SD!IInv, SD!ScanOK
<1>4. SD!TypeOK /\ Len(line["plist"]) \in Nat
  BY SDTwoLists DEF SD!IInv, SD!ListsOK, SD!TypeOK
<1>5. /\ j < Len(line["plist"]) /\ j + 1 \in 1..Len(line["plist"])
      /\ cur = line["plist"][j + 1]
  BY <1>1, <1>3, <1>4 DEF SD!SearchAt, SD!Successor
<1>6. cur' = SD!Successor("plist", j + 1)
  BY <1>1, <1>5, SDTwoLists DEF SD!IInv, SD!ListsOK, SD!Spelled
<1>7. SD!TypeOK'
  <2>1. cur' \in Nodes \cup {SD!NULL}
    BY <1>1, <1>4 DEF SD!TypeOK
  <2> QED
    BY <1>1, <1>4, <2>1 DEF SD!TypeOK, SD!lists
<1>8. SD!ListsOK'
  BY <1>1, <1>7, SDTwoLists
  DEF SD!IInv, SD!ListsOK, SD!Spelled, SD!Apart, SD!InLists, SD!Successor, SD!Predecessor, SD!lists
<1>9. SD!RetiredOnce'
  BY <1>1 DEF SD!IInv, SD!RetiredOnce, SD!DataOf, SD!lists
<1>10. SD!LoopAt(k)'
  BY <1>1, <1>2 DEF SD!LoopAt, SD!DataOf, SD!Kept, SD!Successor, SD!lists
<1>11. SD!SearchAt(j + 1)'
  <2>1. \A i \in 1..j + 1 : i \in 1..j \/ i = j + 1
    OBVIOUS
  <2>2. \A i \in 1..j + 1 : data[line["plist"][i]] # data[node]
    BY <1>1, <1>3, <1>5, <2>1 DEF SD!SearchAt
  <2>3. cur' = SD!Successor("plist", j + 1)'
    BY <1>1, <1>6 DEF SD!Successor, SD!lists
  <2> QED
    BY <1>1, <1>4, <1>5, <2>2, <2>3 DEF SD!SearchAt, SD!lists
<1> QED
  BY <1>1, <1>8, <1>9, <1>10, <1>11 DEF SD!IInv, SD!ScanOK, SD!ScanExact

(* Everything that was found is still in plist, or kept.                   *)
LEMMA SDFoundInv == SD!IInv /\ SD!Found => SD!IInv'
<1> SUFFICES ASSUME SD!IInv, SD!Found PROVE SD!IInv'
  OBVIOUS
<1>1. /\ pc = "search" /\ pc' = "loop"
      /\ cur # SD!NULL /\ data[cur] = data[node] /\ SD!RmNode("plist", cur)
      /\ node' = nxt
      /\ UNCHANGED <<nxt, cur, before, pulled>>
  BY DEF SD!Found, SD!Goto
<1>2. PICK k \in Nat : SD!LoopAt(k)
  BY <1>1 DEF SD!IInv, SD!ScanOK
<1>3. PICK j \in Nat : SD!SearchAt(j)
  BY <1>1 DEF SD!IInv, SD!ScanOK
<1>4. /\ SD!TypeOK /\ SD!ListsOK /\ SDSound
      /\ Len(line["plist"]) \in Nat /\ Len(line["rlist"]) \in Nat
  BY SDTwoLists, SDListsAreSound DEF SD!IInv, SD!ListsOK, SD!TypeOK
<1>5. j + 1 \in 1..Len(line["plist"]) /\ cur = line["plist"][j + 1]
  BY <1>1, <1>3, <1>4 DEF SD!SearchAt, SD!Successor
<1>6. k + 1 \in 1..Len(line["rlist"]) /\ node = line["rlist"][k + 1]
  BY <1>1, <1>2, <1>4 DEF SD!LoopAt, SD!Successor
<1>7. SDSound' /\ SDClosed("plist", j + 1) /\ data' = data
  BY <1>1, <1>4, <1>5, SDTwoLists, SDRmNodeSound
<1>8. /\ SD!DataOf("plist")' \subseteq SD!DataOf("plist")
      /\ SD!DataOf("plist") \subseteq SD!DataOf("plist")' \cup {data[node]}
      /\ SD!DataOf("rlist")' = SD!DataOf("rlist")
  BY <1>1, <1>4, <1>5, <1>7, SDTwoLists, SDClosedData
<1>9. line'["rlist"] = line["rlist"] /\ Len(line'["plist"]) = Len(line["plist"]) - 1
  BY <1>7, SDTwoLists DEF SDClosed
<1>10. length' = [length EXCEPT !["plist"] = @ - 1]
  BY <1>1 DEF SD!RmNode
<1>11. SD!ListsOK'
  <2>1. SD!TypeOK'
    <3>1. SDListTypes'
      BY <1>7 DEF SDSound
    <3>2. SDLocalTypes'
      BY <1>1, <1>4, SDTypesSplit DEF SDLocalTypes
    <3> QED
      BY <3>1, <3>2 DEF SD!TypeOK, SDListTypes, SDLocalTypes
  <2>2. /\ length'["plist"] = Len(line'["plist"])
        /\ length'["rlist"] = Len(line'["rlist"])
    BY <1>1, <1>4, <1>9, <1>10, SDTwoLists DEF SD!ListsOK, SDSound, SDListTypes
  <2> QED
    BY <1>1, <1>7, <2>1, <2>2 DEF SD!ListsOK, SDSound
<1>12. SD!RetiredOnce'
  <2>1. \A l \in SD!Lists : SD!DataOf(l)' \subseteq Data
    BY <1>8 DEF SD!IInv, SD!RetiredOnce, SD!Lists
  <2> QED
    BY <1>7, <1>9, <2>1 DEF SD!IInv, SD!RetiredOnce
<1>13. SD!Kept(k + 1)' = SD!Kept(k) \cup {data[node]}
  <2>1. \A i \in 1..k + 1 : i \in 1..k \/ i = k + 1
    OBVIOUS
  <2>2. 1..k \subseteq 1..k + 1 /\ k + 1 \in 1..k + 1
    OBVIOUS
  <2> QED
    BY <1>6, <1>7, <1>9, <2>1, <2>2 DEF SD!Kept
<1>14. data[node] \in pulled
  BY <1>1, <1>2, <1>5 DEF SD!LoopAt, SD!DataOf
<1>15. SD!LoopAt(k + 1)'
  <2>1. k + 1 <= Len(line'["rlist"])
    BY <1>4, <1>6, <1>9
  <2>2. node' = SD!Successor("rlist", k + 1)'
    BY <1>1, <1>2, <1>9 DEF SD!LoopAt, SD!Successor
  <2>3. SD!Kept(k + 1)' \subseteq pulled'
    BY <1>1, <1>2, <1>13, <1>14 DEF SD!LoopAt
  <2>4. /\ SD!DataOf("rlist")' \subseteq before'
        /\ \A d \in before' : d \in SD!DataOf("rlist")' \/ d \notin pulled'
        /\ SD!DataOf("plist")' \subseteq pulled'
    BY <1>1, <1>2, <1>8 DEF SD!LoopAt
  <2>5. \A d \in pulled' : d \in SD!DataOf("plist")' \/ d \in SD!Kept(k + 1)'
    BY <1>1, <1>2, <1>8, <1>13 DEF SD!LoopAt
  <2> QED
    BY <1>1, <2>1, <2>2, <2>3, <2>4, <2>5 DEF SD!LoopAt
<1> QED
  BY <1>1, <1>11, <1>12, <1>15 DEF SD!IInv, SD!ScanOK, SD!ScanExact

(* An object that is let go was not among those that are kept: it was      *)
(* retired once.                                                           *)
LEMMA SDNotFoundInv == SD!IInv /\ SD!NotFound => SD!IInv'
<1> SUFFICES ASSUME SD!IInv, SD!NotFound PROVE SD!IInv'
  OBVIOUS
<1>1. /\ pc = "search" /\ pc' = "loop" /\ cur = SD!NULL /\ SD!RmNode("rlist", node)
      /\ node' = nxt
      /\ UNCHANGED <<nxt, cur, before, pulled>>
  BY DEF SD!NotFound, SD!Goto
<1>2. PICK k \in Nat : SD!LoopAt(k)
  BY <1>1 DEF SD!IInv, SD!ScanOK
<1>3. PICK j \in Nat : SD!SearchAt(j)
  BY <1>1 DEF SD!IInv, SD!ScanOK
<1>4. /\ SD!TypeOK /\ SD!ListsOK /\ SDSound
      /\ Len(line["plist"]) \in Nat /\ Len(line["rlist"]) \in Nat
      /\ \A i \in 1..Len(line["plist"]) : line["plist"][i] # SD!NULL
  BY SDTwoLists, SDListsAreSound, SDNullIsNobody DEF SD!IInv, SD!ListsOK, SD!TypeOK
<1>5. j = Len(line["plist"])
  <2>1. ASSUME j < Len(line["plist"]) PROVE FALSE
    BY <1>1, <1>3, <1>4, <2>1 DEF SD!SearchAt, SD!Successor
  <2> QED
    BY <1>3, <1>4, <2>1 DEF SD!SearchAt
<1>6. k + 1 \in 1..Len(line["rlist"]) /\ node = line["rlist"][k + 1]
  BY <1>1, <1>2, <1>4 DEF SD!LoopAt, SD!Successor
<1>7. data[node] \notin SD!DataOf("plist")
  BY <1>3, <1>5 DEF SD!SearchAt, SD!DataOf
<1>8. SDSound' /\ SDClosed("rlist", k + 1) /\ data' = data
  BY <1>1, <1>4, <1>6, SDTwoLists, SDRmNodeSound
<1>9. /\ SD!DataOf("rlist")' \subseteq SD!DataOf("rlist")
      /\ SD!DataOf("rlist") \subseteq SD!DataOf("rlist")' \cup {data[node]}
      /\ SD!DataOf("plist")' = SD!DataOf("plist")
  BY <1>4, <1>6, <1>8, SDTwoLists, SDClosedData
<1>10. /\ line'["plist"] = line["plist"]
       /\ Len(line'["rlist"]) = Len(line["rlist"]) - 1
       /\ \A i \in 1..Len(line["rlist"]) - 1 :
            line'["rlist"][i] = IF i < k + 1 THEN line["rlist"][i]
                                ELSE line["rlist"][i + 1]
  BY <1>8, SDTwoLists DEF SDClosed
<1>11. length' = [length EXCEPT !["rlist"] = @ - 1]
  BY <1>1 DEF SD!RmNode
<1>12. SD!ListsOK'
  <2>1. SD!TypeOK'
    <3>1. SDListTypes'
      BY <1>8 DEF SDSound
    <3>2. SDLocalTypes'
      BY <1>1, <1>4, SDTypesSplit DEF SDLocalTypes
    <3> QED
      BY <3>1, <3>2 DEF SD!TypeOK, SDListTypes, SDLocalTypes
  <2>2. /\ length'["plist"] = Len(line'["plist"])
        /\ length'["rlist"] = Len(line'["rlist"])
    BY <1>1, <1>4, <1>10, <1>11, SDTwoLists DEF SD!ListsOK, SDSound, SDListTypes
  <2> QED
    BY <1>1, <1>8, <2>1, <2>2 DEF SD!ListsOK, SDSound
<1>13. SD!RetiredOnce'
  <2>1. \A l \in SD!Lists : SD!DataOf(l)' \subseteq Data
    BY <1>9 DEF SD!IInv, SD!RetiredOnce, SD!Lists
  <2> DEFINE Old(i) == IF i < k + 1 THEN i ELSE i + 1
  <2>2. ASSUME NEW i \in 1..Len(line["rlist"]) - 1
        PROVE  Old(i) \in 1..Len(line["rlist"])
               /\ data'[line'["rlist"][i]] = data[line["rlist"][Old(i)]]
    <3>1. CASE i < k + 1
      BY <1>4, <1>8, <1>10, <2>2, <3>1
    <3>2. CASE ~ (i < k + 1)
      <4>1. line'["rlist"][i] = line["rlist"][i + 1]
        BY <1>10, <2>2, <3>2
      <4> QED
        BY <1>4, <1>8, <2>2, <3>2, <4>1
    <3> QED
      BY <3>1, <3>2
  <2>3. \A h, i \in 1..Len(line["rlist"]) - 1 : Old(h) = Old(i) => h = i
    OBVIOUS
  <2> HIDE DEF Old
  <2>4. \A h, i \in 1..Len(line'["rlist"]) :
          data'[line'["rlist"][h]] = data'[line'["rlist"][i]] => h = i
    <3>1. ASSUME NEW h \in 1..Len(line["rlist"]) - 1,
                 NEW i \in 1..Len(line["rlist"]) - 1,
                 data'[line'["rlist"][h]] = data'[line'["rlist"][i]]
          PROVE  h = i
      <4>1. data[line["rlist"][Old(h)]] = data[line["rlist"][Old(i)]]
        BY <2>2, <3>1
      <4>2. Old(h) \in 1..Len(line["rlist"]) /\ Old(i) \in 1..Len(line["rlist"])
        BY <2>2
      <4>3. Old(h) = Old(i)
        BY <4>1, <4>2 DEF SD!IInv, SD!RetiredOnce
      <4> QED
        BY <2>3, <4>3
    <3>2. 1..Len(line'["rlist"]) = 1..Len(line["rlist"]) - 1
      BY <1>10
    <3> QED
      BY <3>1, <3>2
  <2> QED
    BY <2>1, <2>4 DEF SD!RetiredOnce
<1>14. SD!Kept(k)' = SD!Kept(k)
  <2>1. \A i \in 1..k : i < k + 1 /\ i \in 1..Len(line["rlist"]) - 1
    BY <1>4, <1>6
  <2>2. \A i \in 1..k : data'[line'["rlist"][i]] = data[line["rlist"][i]]
    BY <1>8, <1>10, <2>1
  <2> QED
    BY <2>2 DEF SD!Kept
<1>15. data[node] \notin SD!Kept(k)
  <2>1. \A i \in 1..k : i \in 1..Len(line["rlist"]) /\ i # k + 1
    BY <1>4, <1>6
  <2> QED
    BY <1>6, <2>1 DEF SD!Kept, SD!IInv, SD!RetiredOnce
<1>16. data[node] \notin pulled
  BY <1>2, <1>7, <1>15 DEF SD!LoopAt
<1>17. SD!LoopAt(k)'
  <2>1. k <= Len(line'["rlist"])
    BY <1>4, <1>6, <1>10
  <2>2. node' = SD!Successor("rlist", k)'
    <3>1. node' = SD!Successor("rlist", k + 1)
      BY <1>1, <1>2 DEF SD!LoopAt
    <3>2. CASE k + 1 < Len(line["rlist"])
      <4>1. k + 1 \in 1..Len(line["rlist"]) - 1 /\ ~ (k + 1 < k + 1)
        BY <1>4, <1>6, <3>2
      <4>2. line'["rlist"][k + 1] = line["rlist"][(k + 1) + 1]
        BY <1>10, <4>1
      <4>3. k < Len(line'["rlist"])
        BY <1>4, <1>10, <3>2
      <4> QED
        BY <3>1, <3>2, <4>2, <4>3 DEF SD!Successor
    <3>3. CASE ~ (k + 1 < Len(line["rlist"]))
      <4>1. ~ (k < Len(line'["rlist"]))
        BY <1>4, <1>10, <3>3
      <4> QED
        BY <3>1, <3>3, <4>1 DEF SD!Successor
    <3> QED
      BY <3>2, <3>3
  <2>3. SD!Kept(k)' \subseteq pulled' /\ SD!DataOf("rlist")' \subseteq before'
    BY <1>1, <1>2, <1>9, <1>14 DEF SD!LoopAt
  <2>4. \A d \in before' : d \in SD!DataOf("rlist")' \/ d \notin pulled'
    BY <1>1, <1>2, <1>9, <1>16 DEF SD!LoopAt
  <2>5. /\ SD!DataOf("plist")' \subseteq pulled'
        /\ \A d \in pulled' : d \in SD!DataOf("plist")' \/ d \in SD!Kept(k)'
    BY <1>1, <1>2, <1>9, <1>14 DEF SD!LoopAt
  <2> QED
    BY <1>1, <2>1, <2>2, <2>3, <2>4, <2>5 DEF SD!LoopAt
<1> QED
  BY <1>1, <1>12, <1>13, <1>17 DEF SD!IInv, SD!ScanOK, SD!ScanExact

(* zm_sdlist_free counts an empty list down once more, and is the last     *)
(* that looks at it.                                                       *)
LEMMA SDFreeInv == SD!IInv /\ SD!Free => SD!IInv'
<1> SUFFICES ASSUME SD!IInv, SD!Free PROVE SD!IInv'
  OBVIOUS
<1>1. /\ pc = "free" /\ pc' = IF head["plist"] = SD!NULL THEN "idle" ELSE "free"
      /\ SD!PopFront("plist")
      /\ UNCHANGED <<node, nxt, cur, before, pulled>>
  BY DEF SD!Free, SD!Goto
<1>2. /\ SD!TypeOK /\ SD!ListsOK /\ SDSound
      /\ Len(line["plist"]) \in Nat /\ Len(line["rlist"]) \in Nat
      /\ \A i \in 1..Len(line["plist"]) : line["plist"][i] # SD!NULL
  BY SDTwoLists, SDListsAreSound, SDNullIsNobody DEF SD!IInv, SD!ListsOK, SD!TypeOK
<1>3. /\ length' = [length EXCEPT !["plist"] = @ - 1]
      /\ length' \in [SD!Lists -> Int] /\ length'["rlist"] = length["rlist"]
  BY <1>1, <1>2, SDTwoLists DEF SD!PopFront, SD!TypeOK
<1>4. SD!DataOf("rlist") = before \cap pulled
  BY <1>1 DEF SD!IInv, SD!ScanExact
<1>5. SDLocalTypes'
  BY <1>1, <1>2, SDTypesSplit DEF SDLocalTypes
<1>6. CASE head["plist"] = SD!NULL
  <2>1. /\ pc' = "idle"
        /\ UNCHANGED <<head, tail, next, prev, data, alive, line>>
    BY <1>1, <1>6 DEF SD!PopFront
  <2>2. line["plist"] = << >>
    <3>1. ASSUME 0 < Len(line["plist"]) PROVE FALSE
      BY <1>2, <1>6, <3>1, SDTwoLists DEF SD!ListsOK, SD!Spelled, SD!Successor
    <3>2. Len(line["plist"]) = 0
      BY <1>2, <3>1
    <3> QED
      BY <1>2, <3>2, SDTwoLists, EmptySeq DEF SD!TypeOK
  <2>3. SD!TypeOK'
    BY <1>2, <1>3, <1>5, <2>1 DEF SD!TypeOK, SDLocalTypes
  <2>4. SD!ListsOK'
    BY <1>2, <1>3, <2>1, <2>2, <2>3
    DEF SD!ListsOK, SD!Spelled, SD!Apart, SD!InLists, SD!Successor, SD!Predecessor
  <2>5. SD!RetiredOnce'
    BY <2>1 DEF SD!IInv, SD!RetiredOnce, SD!DataOf
  <2> QED
    BY <2>1, <2>4, <2>5 DEF SD!IInv, SD!ScanOK, SD!ScanExact
<1>7. CASE head["plist"] # SD!NULL
  <2>1. SDSound' /\ SDClosed("plist", 1) /\ data' = data /\ pc' = "free"
    BY <1>1, <1>2, <1>7, SDTwoLists, SDPopSound
  <2>2. 1 \in 1..Len(line["plist"])
    <3>1. ASSUME Len(line["plist"]) = 0 PROVE FALSE
      BY <1>2, <1>7, <3>1, SDTwoLists DEF SD!ListsOK, SD!Spelled, SD!Successor
    <3> QED
      BY <1>2, <3>1
  <2>3. /\ SD!DataOf("plist")' \subseteq SD!DataOf("plist")
        /\ SD!DataOf("rlist")' = SD!DataOf("rlist")
    BY <1>2, <2>1, <2>2, SDTwoLists, SDClosedData
  <2>4. line'["rlist"] = line["rlist"]
    BY <2>1, SDTwoLists DEF SDClosed
  <2>5. SD!ListsOK'
    <3>1. SD!TypeOK'
      BY <1>5, <2>1 DEF SD!TypeOK, SDSound, SDListTypes, SDLocalTypes
    <3> QED
      BY <1>2, <1>3, <2>1, <2>4, <3>1 DEF SD!ListsOK, SDSound
  <2>6. SD!RetiredOnce'
    <3>1. \A l \in SD!Lists : SD!DataOf(l)' \subseteq Data
      BY <2>3 DEF SD!IInv, SD!RetiredOnce, SD!Lists
    <3> QED
      BY <2>1, <2>4, <3>1 DEF SD!IInv, SD!RetiredOnce
  <2> QED
    BY <1>1, <1>4, <2>1, <2>3, <2>5, <2>6 DEF SD!IInv, SD!ScanOK, SD!ScanExact
<1> QED
  BY <1>6, <1>7

LEMMA SDStepInv == SD!IInv /\ [SD!Next]_SD!vars => SD!IInv'
<1> SUFFICES ASSUME SD!IInv, [SD!Next]_SD!vars PROVE SD!IInv'
  OBVIOUS
<1>1. CASE UNCHANGED SD!vars
  <2>1. UNCHANGED <<head, tail, length, next, prev, data, alive, line>>
        /\ UNCHANGED <<pc, node, nxt, cur, before, pulled>>
    BY <1>1 DEF SD!vars, SD!lists
  <2>2. SD!ListsOK'
    BY <2>1 DEF SD!IInv, SD!ListsOK, SD!TypeOK, SD!Spelled, SD!Apart, SD!InLists, SD!Successor, SD!Predecessor
  <2>3. SD!RetiredOnce' /\ SD!ScanExact'
    BY <2>1 DEF SD!IInv, SD!RetiredOnce, SD!ScanExact, SD!DataOf
  <2>4. SD!ScanOK'
    BY <2>1 DEF SD!IInv, SD!ScanOK, SD!LoopAt, SD!SearchAt, SD!Kept, SD!DataOf, SD!Successor
  <2> QED
    BY <2>2, <2>3, <2>4 DEF SD!IInv
<1>2. CASE \E d \in Data : SD!Retire(d) \/ SD!Pull(d)
  BY <1>2, SDRetireInv, SDPullInv
<1>3. CASE SD!ScanInit \/ SD!PullEnd \/ SD!LoopTest \/ SD!SearchNext \/ SD!Found \/ SD!NotFound \/ SD!Free
  BY <1>3, SDScanInitInv, SDPullEndInv, SDLoopTestInv, SDSearchNextInv, SDFoundInv,
     SDNotFoundInv, SDFreeInv
<1> QED
  BY <1>1, <1>2, <1>3 DEF SD!Next

LEMMA SDInvariance == SD!Spec => []SD!IInv
<1>1. SD!Init => SD!IInv
  BY SDInitInv
<1>2. SD!IInv /\ [SD!Next]_SD!vars => SD!IInv'
  BY SDStepInv
<1> QED
  BY <1>1, <1>2, PTL DEF SD!Spec

(* Through every push, pop and removal, at either end or in the middle,    *)
(* next and prev of zm_sdlist.h spell the same list in the two directions, *)
(* no node is in both lists, what is allocated is what is in one, and the  *)
(* length is that of the list whenever zm_hzdptr_retire compares it.       *)
THEOREM SDListIsLine == SD!Spec => []SD!ListsOK
<1>1. SD!IInv => SD!ListsOK
  BY DEF SD!IInv
<1> QED
  BY <1>1, SDInvariance, PTL

(* The loops of zm_hzdptr_scan and zm_sdlist_remove, which free the nodes  *)
(* they have come to, never look at a node after that.                     *)
THEOREM SDLoopsStayInLists == SD!Spec => []SD!NoStrayAccess
<1>1. SD!IInv => SD!NoStrayAccess
  <2> SUFFICES ASSUME SD!IInv PROVE SD!NoStrayAccess
    OBVIOUS
  <2>1. \A l \in SD!Lists : line[l] \in Seq(Nodes) /\ Len(line[l]) \in Nat
    BY DEF SD!IInv, SD!ListsOK, SD!TypeOK
  <2>2. ASSUME NEW l \in SD!Lists, NEW i \in Nat
        PROVE  SD!Successor(l, i) \in alive \cup {SD!NULL}
    <3>1. CASE i < Len(line[l])
      <4>1. i + 1 \in 1..Len(line[l])
        BY <2>1, <3>1
      <4>2. line[l][i + 1] \in Nodes
        BY <2>1, <4>1
      <4> QED
        BY <3>1, <4>1, <4>2 DEF SD!IInv, SD!ListsOK, SD!InLists, SD!Successor
    <3>2. CASE ~ (i < Len(line[l]))
      BY <3>2 DEF SD!Successor
    <3> QED
      BY <3>1, <3>2
  <2> QED
    BY <2>2, SDTwoLists DEF SD!IInv, SD!ScanOK, SD!LoopAt, SD!SearchAt, SD!NoStrayAccess
<1> QED
  BY <1>1, SDInvariance, PTL

(* When zm_hzdptr_scan has gone over its list, that holds exactly the      *)
(* retired objects that a hazard pointer was found to hold.                *)
THEOREM SDScansAreExact == SD!Spec => []SD!ScanExact
<1>1. SD!IInv => SD!ScanExact
  BY DEF SD!IInv
<1> QED
  BY <1>1, SDInvariance, PTL
=============================================================================
