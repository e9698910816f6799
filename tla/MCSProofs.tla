----------------------------- MODULE MCSProofs -----------------------------
(***************************************************************************)
(* What the MCS lock, plain or memorizing, does for every number of        *)
(* threads.                                                                *)
(***************************************************************************)
EXTENDS MMCS, TLAPS

(* A thread inside the critical section is the first of the queue, one     *)
(* that is linking itself is not.                                          *)
LEMMA Places ==
  ASSUME IInv, NEW t \in Threads
  PROVE  /\ pc[t] \in Inside => Len(queue) > 0 /\ queue[1] = t
         /\ pc[t] \in Linking => \E i \in 2..Len(queue) : queue[i] = t
         /\ pc[t] \in Outside => \A i \in 1..Len(queue) : queue[i] # t
<1> USE DEF Inside, Linking, Queued, Releasing, Outside
<1>1. ASSUME pc[t] \in Queued
      PROVE  \E i \in 1..Len(queue) : queue[i] = t
  BY <1>1 DEF IInv, QueueOK
<1>2. \A i \in 1..Len(queue) : i = 1 \/ i \in 2..Len(queue)
  BY DEF IInv, TypeOK
<1>3. ASSUME pc[t] \in Inside PROVE Len(queue) > 0 /\ queue[1] = t
  <2>1. PICK i \in 1..Len(queue) : queue[i] = t
    BY <1>1, <1>3
  <2>2. i = 1
    BY <1>2, <1>3, <2>1 DEF IInv, QueueOK
  <2> QED
    BY <2>1, <2>2 DEF IInv, TypeOK
<1>4. ASSUME pc[t] \in Linking PROVE \E i \in 2..Len(queue) : queue[i] = t
  <2>1. PICK i \in 1..Len(queue) : queue[i] = t
    BY <1>1, <1>4
  <2>2. i # 1
    BY <1>4, <2>1 DEF IInv, TypeOK, LinksOK
  <2> QED
    BY <1>2, <2>1, <2>2
<1>5. ASSUME pc[t] \in Outside PROVE \A i \in 1..Len(queue) : queue[i] # t
  BY <1>5 DEF IInv, QueueOK
<1> QED
  BY <1>3, <1>4, <1>5

LEMMA InitInv == Init => IInv
BY MCSAssumption
DEF Init, IInv, TypeOK, QueueOK, LinksOK, AnswerOK, Queued, Inside, Linking,
    Releasing, Outside

(* The first store of acquire_c and of tryacq_c, into a node out of the    *)
(* queue.                                                                  *)
LEMMA NodeInitInv ==
  ASSUME IInv, NEW t \in Threads, pc[t] = "idle",
         next' = [next EXCEPT ![t] = NULL],
         NEW label \in {"swap", "try_cas"}, Goto(t, label),
         UNCHANGED <<lock, status, pred, answer, queue>>
  PROVE  IInv'
<1> USE DEF Inside, Linking, Queued, Releasing, Outside, Goto
<1>1. TypeOK'
  BY DEF IInv, TypeOK
<1>2. QueueOK'
  BY DEF IInv, TypeOK, QueueOK
<1>3. \A i \in 1..Len(queue) : queue[i] # t /\ queue[i] \in Threads
  BY Places DEF IInv, TypeOK
<1>4. LinksOK'
  <2>1. ASSUME NEW u \in Threads, u # t
        PROVE  next'[u] = next[u] /\ pc'[u] = pc[u]
    BY <2>1 DEF IInv, TypeOK
  <2>2. next'[t] = NULL /\ pc'[t] = label
    BY DEF IInv, TypeOK
  <2>3. \A i \in 1..Len(queue) :
           next'[queue[i]] = next[queue[i]] /\ pc'[queue[i]] = pc[queue[i]]
    BY <1>3, <2>1
  <2>4. Len(queue) \in Nat /\ (queue # << >> => Len(queue) > 0)
    BY DEF IInv, TypeOK
  <2> QED
    BY <2>1, <2>2, <2>3, <2>4 DEF IInv, LinksOK
<1>5. AnswerOK'
  BY DEF IInv, TypeOK, AnswerOK
<1> QED
  BY <1>1, <1>2, <1>4, <1>5 DEF IInv

(* Joining the queue, by the exchange of acquire_c or by the compare-and-  *)
(* swap of tryacq_c, which does so only when the queue is empty.           *)
LEMMA JoinInv ==
  ASSUME IInv, NEW t \in Threads, pc[t] \in {"swap", "try_cas"},
         lock' = t, queue' = Append(queue, t),
         pred' \in [Threads -> Threads \cup {NULL}],
         \A u \in Threads \ {t} : pred'[u] = pred[u],
         lock # NULL => pred'[t] = lock,
         Goto(t, IF lock = NULL THEN "cs" ELSE "locked"),
         UNCHANGED <<next, status, answer>>
  PROVE  IInv'
<1> USE DEF Inside, Linking, Queued, Releasing, Outside
<1> DEFINE n == Len(queue)
<1>1. n \in Nat /\ (queue = << >> <=> n = 0)
  BY DEF IInv, TypeOK
<1>2. /\ queue' \in Seq(Threads)
      /\ Len(queue') = n + 1
      /\ \A i \in 1..n : queue'[i] = queue[i]
      /\ queue'[n + 1] = t
  BY DEF IInv, TypeOK
<1>3. \A i \in 1..n : queue[i] # t /\ queue[i] \in Threads
  BY Places DEF IInv, TypeOK
<1>4. lock = NULL <=> n = 0
  BY <1>1, <1>3, MCSAssumption DEF IInv, QueueOK
<1>5. /\ \A u \in Threads \ {t} : pc'[u] = pc[u]
      /\ pc'[t] = IF n = 0 THEN "cs" ELSE "locked"
  BY <1>4 DEF IInv, TypeOK, Goto
<1> HIDE DEF n
<1>6. TypeOK'
  BY <1>2, <1>5 DEF IInv, TypeOK, Goto
<1>7. QueueOK'
  <2>1. \A i, j \in 1..Len(queue') : queue'[i] = queue'[j] => i = j
    BY <1>1, <1>2, <1>3 DEF IInv, QueueOK, n
  <2>2. ASSUME NEW u \in Threads
        PROVE  pc'[u] \in Queued <=> \E i \in 1..Len(queue') : queue'[i] = u
    <3>1. CASE u = t
      BY <1>1, <1>2, <1>5, <3>1
    <3>2. CASE u # t
      <4>1. (\E i \in 1..n : queue[i] = u)
              <=> \E i \in 1..Len(queue') : queue'[i] = u
        BY <1>1, <1>2, <3>2
      <4> QED
        BY <1>5, <3>2, <4>1 DEF IInv, QueueOK, n
    <3> QED
      BY <3>1, <3>2
  <2>3. lock' = IF queue' = << >> THEN NULL ELSE queue'[Len(queue')]
    BY <1>1, <1>2
  <2>4. \A i \in 2..Len(queue') : pc'[queue'[i]] \in Linking \cup {"spin"}
    <3> TAKE i \in 2..Len(queue')
    <3>1. CASE i = n + 1
      BY <1>1, <1>2, <1>5, <3>1
    <3>2. CASE i # n + 1
      <4>1. i \in 2..n /\ i \in 1..n
        BY <1>1, <1>2, <3>2
      <4> QED
        BY <1>2, <1>3, <1>5, <4>1 DEF IInv, QueueOK, n
    <3> QED
      BY <3>1, <3>2
  <2> QED
    BY <2>1, <2>2, <2>3, <2>4 DEF QueueOK
<1>8. LinksOK'
  <2>1. ASSUME NEW i \in 1..Len(queue'), i > 1
        PROVE  /\ pc'[queue'[i]] \in Linking => pred'[queue'[i]] = queue'[i-1]
               /\ next'[queue'[i-1]]
                    = IF pc'[queue'[i]] \in Linking THEN NULL ELSE queue'[i]
               /\ pc'[queue'[i]] \in {"link", "spin"} =>
                    status'[queue'[i]] = "LOCKED"
    <3>1. CASE i = n + 1
      <4>1. n \in 1..n /\ i - 1 = n /\ n # 0 /\ queue # << >>
        BY <1>1, <1>2, <2>1, <3>1
      <4>2. queue'[i] = t /\ queue'[i-1] = queue[n] /\ lock = queue[n]
        BY <1>2, <3>1, <4>1 DEF IInv, QueueOK, n
      <4>3. pc'[t] = "locked"
        BY <1>5, <4>1
      <4>4. next[queue[n]] = NULL
        BY <4>1 DEF IInv, LinksOK, n
      <4>5. pred'[t] = queue[n]
        BY <1>4, <4>1, <4>2
      <4> QED
        BY <4>2, <4>3, <4>4, <4>5
    <3>2. CASE i # n + 1
      <4>1. i \in 1..n /\ i - 1 \in 1..n
        BY <1>1, <1>2, <2>1, <3>2
      <4> QED
        BY <1>2, <1>3, <1>5, <2>1, <4>1 DEF IInv, LinksOK, n
    <3> QED
      BY <3>1, <3>2
  <2>2. /\ next'[queue'[Len(queue')]] = NULL
        /\ pc'[queue'[1]] \in Inside \cup {"spin"}
        /\ pc'[queue'[1]] = "spin" => status'[queue'[1]] = "UNLOCKED"
    <3>1. next'[queue'[Len(queue')]] = NULL
      BY <1>1, <1>2 DEF IInv, LinksOK
    <3>2. CASE n = 0
      <4>1. queue'[1] = t
        BY <1>2, <3>2
      <4> QED
        BY <1>5, <3>1, <3>2, <4>1
    <3>3. CASE n # 0
      <4>1. 1 \in 1..n /\ queue # << >>
        BY <1>1, <3>3
      <4>2. queue'[1] = queue[1] /\ pc'[queue[1]] = pc[queue[1]]
        BY <1>2, <1>3, <1>5, <4>1
      <4> QED
        BY <3>1, <4>1, <4>2 DEF IInv, LinksOK
    <3> QED
      BY <3>2, <3>3
  <2>3. ASSUME NEW u \in Threads
        PROVE  /\ pc'[u] \in {"swap", "try_cas"} => next'[u] = NULL
               /\ pc'[u] = "rel_unlock" => next'[u] # NULL
               /\ pc'[u] = "rel_wait" => Len(queue') > 1
    BY <1>1, <1>2, <1>5 DEF IInv, LinksOK, n
  <2> QED
    BY <2>1, <2>2, <2>3 DEF LinksOK
<1>9. AnswerOK'
  <2>1. ASSUME NEW u \in Threads
        PROVE  /\ answer'[u] # "none" => pc'[u] = "cs"
               /\ answer'[u] = "waiters" => Len(queue') > 1
    BY <1>1, <1>2, <1>5 DEF IInv, AnswerOK, n
  <2> QED
    BY <2>1 DEF AnswerOK
<1> QED
  BY <1>6, <1>7, <1>8, <1>9 DEF IInv

(* While a thread releases, no answer of zm_mcs_nowaiters is remembered.   *)
LEMMA NoAnswer ==
  ASSUME IInv, NEW t \in Threads, pc[t] \in Releasing
  PROVE  \A u \in Threads : answer[u] = "none"
BY Places DEF IInv, AnswerOK, Inside, Releasing

(* The release of an owner that nobody follows.                            *)
LEMMA ReleaseLastInv ==
  ASSUME IInv, NEW t \in Threads, RelCAS(t), lock = t
  PROVE  IInv'
<1> USE DEF Inside, Linking, Queued, Releasing, Outside
<1>0. pc[t] = "rel_cas" /\ lock' = NULL /\ UNCHANGED <<next, status, pred, answer>>
  BY DEF RelCAS
<1>1. Len(queue) \in Nat /\ Len(queue) > 0 /\ queue[1] = t
  BY <1>0, Places DEF IInv, TypeOK
<1>2. Len(queue) = 1
  <2>1. queue # << >> /\ 1 \in 1..Len(queue) /\ Len(queue) \in 1..Len(queue)
    BY <1>1
  <2>2. queue[Len(queue)] = t
    BY <2>1 DEF IInv, QueueOK
  <2> QED
    BY <1>1, <2>1, <2>2 DEF IInv, QueueOK
<1>3. queue' = << >> /\ queue' \in Seq(Threads) /\ Len(queue') = 0
  <2>1. queue # << >>
    BY <1>2
  <2>2. queue' \in Seq(Threads) /\ Len(queue') = 0
    BY <1>2, <2>1 DEF IInv, TypeOK, RelCAS
  <2> QED
    BY <2>2
<1>4. \A u \in Threads : pc'[u] \in Outside
  BY <1>1, <1>2 DEF IInv, TypeOK, QueueOK, RelCAS, Goto
<1>5. \A u \in Threads : pc'[u] # "idle" => pc'[u] = pc[u]
  BY DEF IInv, TypeOK, RelCAS, Goto
<1>6. TypeOK'
  BY <1>0, <1>3 DEF IInv, TypeOK, RelCAS, Goto
<1>7. QueueOK'
  <2>1. ASSUME NEW i \in 1..Len(queue') PROVE FALSE
    BY <1>3
  <2>2. ~ \E i \in 2..Len(queue') : TRUE
    BY <1>3
  <2> QED
    BY <1>0, <1>3, <1>4, <2>1, <2>2 DEF QueueOK
<1>8. LinksOK'
  <2>1. ASSUME NEW u \in Threads
        PROVE  /\ pc'[u] \in {"swap", "try_cas"} => next'[u] = NULL
               /\ pc'[u] # "rel_unlock" /\ pc'[u] # "rel_wait"
    BY <1>0, <1>4, <1>5 DEF IInv, LinksOK
  <2>2. ASSUME NEW i \in 1..Len(queue') PROVE FALSE
    BY <1>3
  <2> QED
    BY <1>3, <2>1, <2>2 DEF LinksOK
<1>9. AnswerOK'
  BY <1>0, NoAnswer DEF AnswerOK
<1> QED
  BY <1>6, <1>7, <1>8, <1>9 DEF IInv

(* The successor of a releaser is the second of the queue and spins.       *)
LEMMA Successor ==
  ASSUME IInv, NEW t \in Threads, pc[t] \in Inside, next[t] # NULL
  PROVE  Len(queue) > 1 /\ next[t] = queue[2] /\ pc[queue[2]] = "spin"
<1>1. Len(queue) \in Nat /\ Len(queue) > 0 /\ queue[1] = t
  BY Places DEF IInv, TypeOK
<1>2. Len(queue) > 1
  BY <1>1 DEF IInv, LinksOK
<1>3. 2 \in 2..Len(queue) /\ 2 \in 1..Len(queue) /\ 2 - 1 = 1
  BY <1>1, <1>2
<1>4. next[queue[1]] = IF pc[queue[2]] \in Linking THEN NULL ELSE queue[2]
  BY <1>3 DEF IInv, LinksOK
<1> QED
  BY <1>1, <1>2, <1>3, <1>4 DEF IInv, QueueOK

(* The release that hands the lock to the successor.                       *)
LEMMA HandOffInv ==
  ASSUME IInv, NEW t \in Threads, RelUnlock(t)
  PROVE  IInv'
<1> USE DEF Inside, Linking, Queued, Releasing, Outside
<1> DEFINE n == Len(queue)
<1>1. n \in Nat /\ n > 1 /\ queue[1] = t /\ pc[t] = "rel_unlock"
  BY Places, Successor DEF IInv, TypeOK, LinksOK, RelUnlock
<1>2. /\ next[t] = queue[2] /\ queue[2] \in Threads /\ queue[2] # t
      /\ pc[queue[2]] = "spin"
  BY <1>1, Successor DEF IInv, TypeOK, LinksOK, RelUnlock
<1>3. /\ queue' \in Seq(Threads)
      /\ Len(queue') = n - 1
      /\ \A i \in 1..(n - 1) : queue'[i] = queue[i + 1]
  BY <1>1 DEF IInv, TypeOK, RelUnlock
<1>4. \A i \in 2..n : queue[i] # t /\ queue[i] \in Threads /\ i \in 1..n
  BY <1>1 DEF IInv, TypeOK, QueueOK
<1>5. \A i \in 3..n : queue[i] # queue[2]
  BY <1>1 DEF IInv, QueueOK
<1>6. /\ \A u \in Threads \ {t} : pc'[u] = pc[u]
      /\ pc'[t] = "idle"
  BY DEF IInv, TypeOK, RelUnlock, Goto
<1>7. /\ \A u \in Threads \ {queue[2]} : status'[u] = status[u]
      /\ status'[queue[2]] = "UNLOCKED"
  BY <1>2 DEF IInv, TypeOK, RelUnlock
<1> HIDE DEF n
<1>8. TypeOK'
  BY <1>2, <1>3 DEF IInv, TypeOK, RelUnlock, Goto, Status
<1>9. QueueOK'
  <2>1. \A i, j \in 1..Len(queue') : queue'[i] = queue'[j] => i = j
    BY <1>1, <1>3 DEF IInv, QueueOK, n
  <2>2. ASSUME NEW u \in Threads
        PROVE  pc'[u] \in Queued <=> \E i \in 1..Len(queue') : queue'[i] = u
    <3>1. CASE u = t
      BY <1>1, <1>3, <1>4, <1>6, <3>1
    <3>2. CASE u # t
      <4>1. ASSUME NEW i \in 1..n, queue[i] = u
            PROVE  \E j \in 1..Len(queue') : queue'[j] = u
        <5>1. i - 1 \in 1..Len(queue') /\ queue'[i - 1] = u
          BY <1>1, <1>3, <3>2, <4>1
        <5> QED
          BY <5>1
      <4>2. ASSUME NEW j \in 1..Len(queue'), queue'[j] = u
            PROVE  \E i \in 1..n : queue[i] = u
        <5>1. j + 1 \in 1..n /\ queue[j + 1] = u
          BY <1>1, <1>3, <4>2
        <5> QED
          BY <5>1
      <4> QED
        BY <1>6, <3>2, <4>1, <4>2 DEF IInv, QueueOK, n
    <3> QED
      BY <3>1, <3>2
  <2>3. lock' = IF queue' = << >> THEN NULL ELSE queue'[Len(queue')]
    <3>1. queue' # << >> /\ queue # << >> /\ n - 1 \in 1..(n - 1)
      BY <1>1, <1>3 DEF n
    <3> QED
      BY <1>1, <1>3, <3>1 DEF IInv, QueueOK, RelUnlock, n
  <2>4. \A i \in 2..Len(queue') : pc'[queue'[i]] \in Linking \cup {"spin"}
    <3> TAKE i \in 2..Len(queue')
    <3>1. i \in 1..(n - 1) /\ i + 1 \in 2..n
      BY <1>1, <1>3
    <3> QED
      BY <1>3, <1>4, <1>6, <3>1 DEF IInv, QueueOK, n
  <2> QED
    BY <2>1, <2>2, <2>3, <2>4 DEF QueueOK
<1>10. LinksOK'
  <2>1. ASSUME NEW i \in 1..Len(queue'), i > 1
        PROVE  /\ pc'[queue'[i]] \in Linking => pred'[queue'[i]] = queue'[i-1]
               /\ next'[queue'[i-1]]
                    = IF pc'[queue'[i]] \in Linking THEN NULL ELSE queue'[i]
               /\ pc'[queue'[i]] \in {"link", "spin"} =>
                    status'[queue'[i]] = "LOCKED"
    <3> DEFINE j == i + 1
    <3>1. j \in 3..n /\ j \in 2..n /\ j \in 1..n /\ j > 1 /\ j - 1 \in 2..n
      BY <1>1, <1>3, <2>1
    <3>2. queue'[i] = queue[j] /\ queue'[i - 1] = queue[j - 1]
      BY <1>1, <1>3, <2>1
    <3> HIDE DEF j
    <3>3. pc'[queue[j]] = pc[queue[j]] /\ status'[queue[j]] = status[queue[j]]
      BY <1>4, <1>5, <1>6, <1>7, <3>1
    <3> QED
      BY <3>1, <3>2, <3>3 DEF IInv, LinksOK, RelUnlock, n
  <2>2. /\ next'[queue'[Len(queue')]] = NULL
        /\ pc'[queue'[1]] \in Inside \cup {"spin"}
        /\ pc'[queue'[1]] = "spin" => status'[queue'[1]] = "UNLOCKED"
    <3>1. 1 \in 1..(n - 1) /\ n - 1 \in 1..(n - 1) /\ queue # << >>
      BY <1>1 DEF n
    <3>2. queue'[1] = queue[2] /\ queue'[Len(queue')] = queue[n]
      BY <1>1, <1>3, <3>1
    <3> QED
      BY <1>2, <1>6, <1>7, <3>1, <3>2 DEF IInv, LinksOK, RelUnlock, n
  <2>3. ASSUME NEW u \in Threads
        PROVE  /\ pc'[u] \in {"swap", "try_cas"} => next'[u] = NULL
               /\ pc'[u] = "rel_unlock" => next'[u] # NULL
               /\ pc'[u] # "rel_wait"
    <3>1. ASSUME u # t PROVE pc[u] # "rel_wait"
      BY <1>1, <3>1, Places
    <3> QED
      BY <1>6, <3>1 DEF IInv, LinksOK, RelUnlock
  <2> QED
    BY <2>1, <2>2, <2>3 DEF LinksOK
<1>11. AnswerOK'
  BY <1>1, NoAnswer DEF AnswerOK, RelUnlock
<1> QED
  BY <1>8, <1>9, <1>10, <1>11 DEF IInv

(* The steps that leave the queue as it is.                                *)
LEMMA LinkInv ==
  ASSUME IInv, NEW t \in Threads, AcqLocked(t) \/ AcqLink(t) \/ AcqSpin(t)
  PROVE  IInv'
<1> USE DEF Inside, Linking, Queued, Releasing, Outside
<1>0. /\ \A i \in 1..Len(queue) : queue[i] \in Threads
      /\ Len(queue) \in Nat
      /\ queue # << >> => Len(queue) > 0
  BY DEF IInv, TypeOK
<1>1. CASE AcqLocked(t)
  <2>1. /\ \A u \in Threads \ {t} : pc'[u] = pc[u] /\ status'[u] = status[u]
        /\ pc[t] = "locked" /\ pc'[t] = "link" /\ status'[t] = "LOCKED"
    BY <1>1 DEF IInv, TypeOK, AcqLocked, Goto
  <2>2. TypeOK'
    BY <1>1 DEF IInv, TypeOK, AcqLocked, Goto, Status
  <2>3. QueueOK'
    BY <1>0, <1>1, <2>1 DEF IInv, QueueOK, AcqLocked
  <2>4. LinksOK'
    BY <1>0, <1>1, <2>1 DEF IInv, LinksOK, AcqLocked
  <2>5. AnswerOK'
    BY <1>1, <2>1 DEF IInv, AnswerOK, AcqLocked
  <2> QED
    BY <2>2, <2>3, <2>4, <2>5 DEF IInv
<1>2. CASE AcqLink(t)
  <2>1. /\ \A u \in Threads \ {t} : pc'[u] = pc[u]
        /\ pc[t] = "link" /\ pc'[t] = "spin"
    BY <1>2 DEF IInv, TypeOK, AcqLink, Goto
  <2>2. PICK k \in 2..Len(queue) : queue[k] = t
    BY <2>1, Places
  <2>3. /\ k \in 1..Len(queue) /\ k > 1 /\ k - 1 \in 1..Len(queue)
        /\ queue[k - 1] \in Threads
    BY <1>0, <2>2
  <2>4. /\ pred[t] = queue[k - 1]
        /\ status[t] = "LOCKED"
    BY <2>1, <2>2, <2>3 DEF IInv, LinksOK
  <2>5. /\ \A u \in Threads \ {queue[k - 1]} : next'[u] = next[u]
        /\ next'[queue[k - 1]] = t
    BY <1>2, <2>3, <2>4 DEF IInv, TypeOK, AcqLink
  <2>6. TypeOK'
    BY <1>2, <2>4 DEF IInv, TypeOK, AcqLink, Goto
  <2>7. QueueOK'
    BY <1>0, <1>2, <2>1 DEF IInv, QueueOK, AcqLink
  <2>8. LinksOK'
    <3>1. ASSUME NEW i \in 1..Len(queue), i > 1
          PROVE  /\ pc'[queue[i]] \in Linking => pred[queue[i]] = queue[i-1]
                 /\ next'[queue[i-1]]
                      = IF pc'[queue[i]] \in Linking THEN NULL ELSE queue[i]
                 /\ pc'[queue[i]] \in {"link", "spin"} =>
                      status[queue[i]] = "LOCKED"
      <4>1. CASE i = k
        BY <2>1, <2>2, <2>4, <2>5, <4>1
      <4>2. CASE i # k
        <5>1. queue[i] # t /\ queue[i] \in Threads
          BY <1>0, <2>2, <2>3, <4>2 DEF IInv, QueueOK
        <5>2. /\ i - 1 \in 1..Len(queue) /\ queue[i-1] \in Threads
              /\ queue[i-1] # queue[k-1]
          BY <1>0, <2>3, <3>1, <4>2 DEF IInv, QueueOK
        <5> QED
          BY <2>1, <2>5, <3>1, <5>1, <5>2 DEF IInv, LinksOK
      <4> QED
        BY <4>1, <4>2
    <3>2. ASSUME queue # << >>
          PROVE  /\ next'[queue[Len(queue)]] = NULL
                 /\ pc'[queue[1]] \in Inside \cup {"spin"}
                 /\ pc'[queue[1]] = "spin" => status[queue[1]] = "UNLOCKED"
      <4>1. Len(queue) \in 1..Len(queue) /\ 1 \in 1..Len(queue)
        BY <1>0, <3>2
      <4>2. queue[Len(queue)] # queue[k - 1] /\ queue[1] # t
        BY <1>0, <2>2, <2>3, <4>1 DEF IInv, QueueOK
      <4> QED
        BY <1>0, <2>1, <2>5, <3>2, <4>1, <4>2 DEF IInv, LinksOK
    <3>3. ASSUME NEW u \in Threads
          PROVE  /\ pc'[u] \in {"swap", "try_cas"} => next'[u] = NULL
                 /\ pc'[u] = "rel_unlock" => next'[u] # NULL
                 /\ pc'[u] = "rel_wait" => Len(queue) > 1
      <4>1. ASSUME pc'[u] \in {"swap", "try_cas"} PROVE u # queue[k - 1]
        <5>1. pc[u] \in Outside
          BY <2>1, <4>1
        <5> QED
          BY <2>3, <5>1, Places
      <4> QED
        BY <2>1, <2>5, <4>1, MCSAssumption DEF IInv, LinksOK
    <3> QED
      BY <1>2, <3>1, <3>2, <3>3 DEF LinksOK, AcqLink
  <2>9. AnswerOK'
    BY <1>2, <2>1 DEF IInv, AnswerOK, AcqLink
  <2> QED
    BY <2>6, <2>7, <2>8, <2>9 DEF IInv
<1>3. CASE AcqSpin(t)
  <2>1. /\ \A u \in Threads \ {t} : pc'[u] = pc[u]
        /\ pc[t] = "spin" /\ pc'[t] = "cs" /\ status[t] = "UNLOCKED"
    BY <1>3 DEF IInv, TypeOK, AcqSpin, Goto
  <2>2. \A i \in 1..Len(queue) : i > 1 => queue[i] # t
    BY <2>1 DEF IInv, LinksOK
  <2>3. TypeOK'
    BY <1>3 DEF IInv, TypeOK, AcqSpin, Goto
  <2>4. QueueOK'
    <3>1. \A i \in 2..Len(queue) : i \in 1..Len(queue) /\ i > 1
      BY <1>0
    <3> QED
      BY <1>0, <1>3, <2>1, <2>2, <3>1 DEF IInv, QueueOK, AcqSpin
  <2>5. LinksOK'
    BY <1>0, <1>3, <2>1, <2>2 DEF IInv, LinksOK, AcqSpin
  <2>6. AnswerOK'
    BY <1>3, <2>1 DEF IInv, AnswerOK, AcqSpin
  <2> QED
    BY <2>3, <2>4, <2>5, <2>6 DEF IInv
<1> QED
  BY <1>1, <1>2, <1>3

LEMMA AcquireInv ==
  ASSUME IInv, NEW t \in Threads,
         AcqInit(t) \/ AcqSwap(t) \/ TryInit(t) \/ TryCAS(t)
  PROVE  IInv'
<1>1. CASE AcqInit(t)
  BY <1>1, NodeInitInv DEF AcqInit
<1>2. CASE AcqSwap(t)
  <2>1. /\ pred' \in [Threads -> Threads \cup {NULL}]
        /\ \A u \in Threads \ {t} : pred'[u] = pred[u]
        /\ lock # NULL => pred'[t] = lock
    BY <1>2 DEF IInv, TypeOK, AcqSwap
  <2> QED
    BY <1>2, <2>1, JoinInv DEF AcqSwap
<1>3. CASE TryInit(t)
  BY <1>3, NodeInitInv DEF TryInit
<1>4. CASE TryCAS(t)
  <2>1. CASE lock = NULL
    <3>1. /\ pc[t] \in {"swap", "try_cas"}
          /\ lock' = t /\ queue' = Append(queue, t)
          /\ Goto(t, IF lock = NULL THEN "cs" ELSE "locked")
          /\ UNCHANGED <<next, status, pred, answer>>
      BY <1>4, <2>1 DEF TryCAS
    <3>2. /\ pred' \in [Threads -> Threads \cup {NULL}]
          /\ \A u \in Threads \ {t} : pred'[u] = pred[u]
      BY <3>1 DEF IInv, TypeOK
    <3> QED
      BY <2>1, <3>1, <3>2, JoinInv
  <2>2. CASE lock # NULL
    <3>1. /\ pc[t] = "try_cas" /\ Goto(t, "idle")
          /\ UNCHANGED <<lock, next, status, pred, answer, queue>>
      BY <1>4, <2>2 DEF TryCAS
    <3>2. /\ \A u \in Threads \ {t} : pc'[u] = pc[u]
          /\ pc'[t] = "idle"
      BY <3>1 DEF IInv, TypeOK, Goto
    <3>3. \A i \in 1..Len(queue) : queue[i] # t /\ queue[i] \in Threads
      BY <3>1, Places DEF IInv, TypeOK, Outside
    <3>4. TypeOK'
      BY <3>1 DEF IInv, TypeOK, Goto, Outside
    <3>5. QueueOK'
      <4>1. \A i \in 2..Len(queue) : pc'[queue[i]] = pc[queue[i]]
        BY <3>2, <3>3 DEF IInv, TypeOK
      <4>2. \A u \in Threads : pc'[u] \in Queued <=> pc[u] \in Queued
        BY <3>1, <3>2 DEF Queued, Linking, Inside, Releasing
      <4> QED
        BY <3>1, <4>1, <4>2 DEF IInv, QueueOK
    <3>6. LinksOK'
      <4>1. \A i \in 1..Len(queue) : pc'[queue[i]] = pc[queue[i]]
        BY <3>2, <3>3
      <4>2. queue # << >> => Len(queue) > 0 /\ 1 \in 1..Len(queue)
        BY DEF IInv, TypeOK
      <4> QED
        BY <3>1, <3>2, <4>1, <4>2 DEF IInv, LinksOK
    <3>7. AnswerOK'
      BY <3>1, <3>2 DEF IInv, AnswerOK
    <3> QED
      BY <3>4, <3>5, <3>6, <3>7 DEF IInv
  <2> QED
    BY <2>1, <2>2
<1> QED
  BY <1>1, <1>2, <1>3, <1>4

(* A thread that moves from one place inside the critical section to       *)
(* another, its link unchanged.                                            *)
LEMMA MoveInsideInv ==
  ASSUME IInv, NEW t \in Threads, pc[t] \in Inside,
         NEW label \in Inside, Goto(t, label),
         label = "rel_unlock" => next[t] # NULL,
         label = "rel_wait" => Len(queue) > 1,
         answer' = [answer EXCEPT ![t] = "none"],
         UNCHANGED <<lock, next, status, pred, queue>>
  PROVE  IInv'
<1> USE DEF Inside, Linking, Queued, Releasing, Outside
<1>1. /\ \A u \in Threads \ {t} : pc'[u] = pc[u] /\ answer'[u] = answer[u]
      /\ pc'[t] = label /\ answer'[t] = "none"
  BY DEF IInv, TypeOK, Goto
<1>2. /\ \A i \in 1..Len(queue) : queue[i] \in Threads
      /\ queue # << >> => Len(queue) > 0 /\ 1 \in 1..Len(queue)
  BY DEF IInv, TypeOK
<1>3. TypeOK'
  BY DEF IInv, TypeOK, Goto
<1>4. QueueOK'
  <2>1. \A i \in 2..Len(queue) : i \in 1..Len(queue) /\ queue[i] # t
    BY DEF IInv, TypeOK, QueueOK
  <2> QED
    BY <1>1, <1>2, <2>1 DEF IInv, QueueOK
<1>5. LinksOK'
  BY <1>1, <1>2 DEF IInv, LinksOK
<1>6. AnswerOK'
  BY <1>1 DEF IInv, AnswerOK
<1> QED
  BY <1>3, <1>4, <1>5, <1>6 DEF IInv

LEMMA ReleaseInv ==
  ASSUME IInv, NEW t \in Threads,
         RelLoad(t) \/ RelCAS(t) \/ RelWait(t) \/ RelUnlock(t) \/ Nowaiters(t)
  PROVE  IInv'
<1> USE DEF Inside, Linking, Queued, Releasing
<1>1. CASE RelLoad(t)
  BY <1>1, MoveInsideInv DEF RelLoad
<1>2. CASE RelCAS(t)
  <2>1. CASE lock = t
    BY <1>2, <2>1, ReleaseLastInv
  <2>2. CASE lock # t
    <3>1. /\ pc[t] = "rel_cas" /\ Goto(t, "rel_wait")
          /\ UNCHANGED <<lock, next, status, pred, answer, queue>>
      BY <1>2, <2>2 DEF RelCAS
    <3>2. Len(queue) \in Nat /\ Len(queue) > 0 /\ queue[1] = t
      BY <3>1, Places DEF IInv, TypeOK
    <3>3. Len(queue) > 1
      <4>1. queue # << >>
        BY <3>2
      <4>2. queue[Len(queue)] # t
        BY <2>2, <4>1 DEF IInv, QueueOK
      <4>3. Len(queue) # 1
        BY <3>2, <4>2
      <4> QED
        BY <3>2, <4>3
    <3>4. answer' = [answer EXCEPT ![t] = "none"]
      BY <3>1, NoAnswer DEF IInv, TypeOK
    <3> QED
      BY <3>1, <3>3, <3>4, MoveInsideInv
  <2> QED
    BY <2>1, <2>2
<1>3. CASE RelWait(t)
  <2>1. answer' = [answer EXCEPT ![t] = "none"]
    BY <1>3, NoAnswer DEF IInv, TypeOK, RelWait
  <2> QED
    BY <1>3, <2>1, MoveInsideInv DEF RelWait
<1>4. CASE RelUnlock(t)
  BY <1>4, HandOffInv
<1>5. CASE Nowaiters(t)
  <2>1. ASSUME next[t] # NULL PROVE Len(queue) > 1
    BY <1>5, <2>1, Successor DEF Nowaiters
  <2>2. TypeOK' /\ QueueOK' /\ LinksOK'
    BY <1>5 DEF IInv, TypeOK, QueueOK, LinksOK, Nowaiters
  <2>3. AnswerOK'
    <3>1. ASSUME NEW u \in Threads, u # t PROVE answer'[u] = answer[u]
      BY <1>5, <3>1 DEF IInv, TypeOK, Nowaiters
    <3>2. answer'[t] = IF next[t] = NULL THEN "alone" ELSE "waiters"
      BY <1>5 DEF IInv, TypeOK, Nowaiters, Alone
    <3> QED
      BY <1>5, <2>1, <3>1, <3>2 DEF IInv, AnswerOK, Nowaiters
  <2> QED
    BY <2>2, <2>3 DEF IInv
<1> QED
  BY <1>1, <1>2, <1>3, <1>4, <1>5

LEMMA StepInv == IInv /\ [Next]_vars => IInv'
<1> SUFFICES ASSUME IInv, [Next]_vars PROVE IInv'
  OBVIOUS
<1>1. ASSUME NEW t \in Threads,
             AcqInit(t) \/ AcqSwap(t) \/ TryInit(t) \/ TryCAS(t)
      PROVE  IInv'
  BY <1>1, AcquireInv
<1>2. ASSUME NEW t \in Threads, AcqLocked(t) \/ AcqLink(t) \/ AcqSpin(t)
      PROVE  IInv'
  BY <1>2, LinkInv
<1>3. ASSUME NEW t \in Threads,
             RelLoad(t) \/ RelCAS(t) \/ RelWait(t) \/ RelUnlock(t) \/ Nowaiters(t)
      PROVE  IInv'
  BY <1>3, ReleaseInv
<1>4. CASE UNCHANGED vars
  BY <1>4 DEF IInv, TypeOK, QueueOK, LinksOK, AnswerOK, vars
<1> QED
  BY <1>1, <1>2, <1>3, <1>4 DEF Next
-----------------------------------------------------------------------------
(* The inductive invariant holds of every behaviour of the lock.           *)
THEOREM Invariance == Spec => []IInv
BY InitInv, StepInv, PTL DEF Spec

(* Every variable keeps its type.                                          *)
THEOREM TypeCorrect == Spec => []TypeOK
<1>1. IInv => TypeOK
  BY DEF IInv
<1> QED
  BY <1>1, Invariance, PTL

(* Two threads are never both between the end of their acquisition and the *)
(* instruction of their release that gives the lock away.                  *)
THEOREM Exclusion == Spec => []MutualExclusion
<1>1. IInv => MutualExclusion
  BY Places DEF MutualExclusion
<1> QED
  BY <1>1, Invariance, PTL

(* A linked waiter stays until the owner releases, so an owner told that   *)
(* there are waiters may rely on it.                                       *)
THEOREM WaitersStayInQueue == Spec => []WaitersStay
<1>1. IInv => WaitersStay
  BY DEF IInv, TypeOK, AnswerOK, WaitersStay
<1> QED
  BY <1>1, Invariance, PTL

(* No store through pred->next or next->status reaches the node of a       *)
(* thread that has left the lock.                                          *)
THEOREM NodesStayAlive == Spec => []NodesAlive
<1>1. IInv => NodesAlive
  <2> SUFFICES ASSUME IInv, NEW t \in Threads
               PROVE  /\ pc[t] = "link" =>
                           pred[t] # NULL /\ pc[pred[t]] \in Queued
                      /\ pc[t] = "rel_unlock" =>
                           next[t] # NULL /\ pc[next[t]] = "spin"
    BY DEF NodesAlive
  <2>1. ASSUME pc[t] = "link"
        PROVE  pred[t] # NULL /\ pc[pred[t]] \in Queued
    <3>1. PICK i \in 2..Len(queue) : queue[i] = t
      BY <2>1, Places DEF Linking
    <3>2. i \in 1..Len(queue) /\ i > 1 /\ i - 1 \in 1..Len(queue)
      BY <3>1 DEF IInv, TypeOK
    <3>3. pred[t] = queue[i - 1] /\ queue[i - 1] \in Threads
      BY <2>1, <3>1, <3>2 DEF IInv, TypeOK, LinksOK, Linking
    <3> QED
      BY <3>2, <3>3, MCSAssumption DEF IInv, QueueOK
  <2>2. ASSUME pc[t] = "rel_unlock"
        PROVE  next[t] # NULL /\ pc[next[t]] = "spin"
    BY <2>2, Successor DEF IInv, LinksOK, Inside, Releasing
  <2> QED
    BY <2>1, <2>2
<1> QED
  BY <1>1, Invariance, PTL

(* The owner, if any, is alone inside and first of the queue.              *)
OwnerAlone ==
  \A t \in Threads : pc[t] \in Inside =>
    /\ {u \in Threads : pc[u] \in Inside} = {t}
    /\ queue # << >> /\ Head(queue) = t

LEMMA OwnerIsAlone == IInv => OwnerAlone
<1> SUFFICES ASSUME IInv, NEW t \in Threads, pc[t] \in Inside
             PROVE  /\ {u \in Threads : pc[u] \in Inside} = {t}
                    /\ queue # << >> /\ Head(queue) = t
  BY DEF OwnerAlone
<1>1. Len(queue) > 0 /\ queue[1] = t
  BY Places
<1>2. \A u \in Threads : pc[u] \in Inside => u = t
  BY <1>1, Places
<1> QED
  BY <1>1, <1>2 DEF IInv, TypeOK

(* The MCS lock implements the FIFO lock: the exchange enters the line,    *)
(* the end of the spin grants the lock, and the compare-and-swap or the    *)
(* store to the successor's status leaves the line.                        *)
THEOREM ImplementsFifoLock == Spec => FifoOrder
<1> DEFINE H == {t \in Threads : pc[t] \in Inside}
<1>1. Init => FIFO!Init
  BY DEF Init, FIFO!Init, Inside, Releasing
<1>2. ASSUME IInv, [Next]_vars PROVE [FIFO!Next]_(FIFO!vars)
  <2> USE DEF Inside, Releasing
  <2>1. IInv'
    BY <1>2, StepInv
  <2>0. OwnerAlone /\ OwnerAlone'
    BY <1>2, <2>1, OwnerIsAlone, PTL
  <2>2. \A t \in Threads : pc'[t] \in Inside =>
          H' = {t} /\ queue' # << >> /\ Head(queue') = t
    BY <2>0 DEF OwnerAlone
  <2>3. \A t \in Threads : pc[t] \in Inside =>
          H = {t} /\ queue # << >> /\ Head(queue) = t
    BY <2>0 DEF OwnerAlone
  <2> HIDE DEF H
  <2>4. ASSUME NEW t \in Threads, AcqSwap(t) \/ (TryCAS(t) /\ lock = NULL)
        PROVE  FIFO!Enter(t) \/ FIFO!EnterFree(t)
    <3>1. /\ pc[t] \in Outside /\ queue' = Append(queue, t)
          /\ Goto(t, IF lock = NULL THEN "cs" ELSE "locked")
      BY <2>4 DEF AcqSwap, TryCAS, Outside
    <3>2. pc'[t] = IF lock = NULL THEN "cs" ELSE "locked"
      BY <1>2, <3>1 DEF IInv, TypeOK, Goto
    <3>3. CASE lock = NULL
      <4>1. queue = << >>
        BY <1>2, <3>3, MCSAssumption DEF IInv, TypeOK, QueueOK
      <4>2. H' = {t}
        BY <2>2, <3>2, <3>3
      <4> QED
        BY <3>1, <4>1, <4>2 DEF FIFO!EnterFree, H
    <3>4. CASE lock # NULL
      <4>1. H' = H
        BY <1>2, <3>1, <3>4 DEF IInv, TypeOK, Goto, H, Outside
      <4> QED
        BY <1>2, <3>1, <4>1, Places DEF FIFO!Enter, FIFO!Waiting, H
    <3> QED
      BY <3>3, <3>4
  <2>5. ASSUME NEW t \in Threads, AcqSpin(t) PROVE FIFO!Grant(t)
    <3>1. pc[t] = "spin" /\ pc'[t] = "cs" /\ UNCHANGED queue
      BY <1>2, <2>5 DEF IInv, TypeOK, AcqSpin, Goto
    <3>2. H' = {t} /\ queue # << >> /\ Head(queue) = t
      BY <2>2, <3>1
    <3>3. H = {}
      BY <2>3, <3>1, <3>2 DEF H
    <3> QED
      BY <3>1, <3>2, <3>3 DEF FIFO!Grant, H
  <2>6. ASSUME NEW t \in Threads, RelUnlock(t) \/ (RelCAS(t) /\ lock = t)
        PROVE  FIFO!Leave(t)
    <3>1. /\ pc[t] \in Inside /\ pc'[t] = "idle" /\ queue' = Tail(queue)
          /\ \A u \in Threads \ {t} : pc'[u] = pc[u]
      BY <1>2, <2>6 DEF IInv, TypeOK, RelUnlock, RelCAS, Goto
    <3>2. H = {t} /\ queue # << >>
      BY <2>3, <3>1
    <3>3. H' = {}
      BY <3>1, <3>2 DEF H
    <3> QED
      BY <3>1, <3>2, <3>3 DEF FIFO!Leave, H
  <2>7. ASSUME NEW t \in Threads,
               \/ AcqInit(t) \/ AcqLocked(t) \/ AcqLink(t) \/ TryInit(t)
               \/ (TryCAS(t) /\ lock # NULL)
               \/ RelLoad(t) \/ (RelCAS(t) /\ lock # t) \/ RelWait(t)
               \/ Nowaiters(t)
        PROVE  UNCHANGED <<queue, H>>
    BY <1>2, <2>7 DEF IInv, TypeOK, AcqInit, AcqLocked, AcqLink, TryInit,
         TryCAS, RelLoad, RelCAS, RelWait, Nowaiters, Goto, H
  <2>8. CASE UNCHANGED vars
    BY <2>8 DEF vars, FIFO!vars, H
  <2>9. ASSUME NEW t \in Threads,
               \/ AcqInit(t) \/ AcqSwap(t) \/ AcqLocked(t) \/ AcqLink(t)
               \/ AcqSpin(t) \/ TryInit(t) \/ TryCAS(t)
               \/ RelLoad(t) \/ RelCAS(t) \/ RelWait(t) \/ RelUnlock(t)
               \/ Nowaiters(t)
        PROVE  FIFO!Next \/ UNCHANGED <<queue, H>>
    <3>1. CASE TryCAS(t)
      BY <2>4, <2>7, <3>1 DEF FIFO!Next
    <3>2. CASE RelCAS(t)
      BY <2>6, <2>7, <3>2 DEF FIFO!Next
    <3>3. CASE AcqSwap(t)
      BY <2>4, <3>3 DEF FIFO!Next
    <3>4. CASE AcqSpin(t)
      BY <2>5, <3>4 DEF FIFO!Next
    <3>5. CASE RelUnlock(t)
      BY <2>6, <3>5 DEF FIFO!Next
    <3>6. CASE \/ AcqInit(t) \/ AcqLocked(t) \/ AcqLink(t) \/ TryInit(t)
               \/ RelLoad(t) \/ RelWait(t) \/ Nowaiters(t)
      BY <2>7, <3>6
    <3> QED
      BY <2>9, <3>1, <3>2, <3>3, <3>4, <3>5, <3>6
  <2> QED
    BY <1>2, <2>8, <2>9 DEF Next, FIFO!vars, H
<1> QED
  BY <1>1, <1>2, Invariance, PTL DEF Spec, FifoOrder, FIFO!Spec
-----------------------------------------------------------------------------
(* The memorizing lock is the MCS lock, and its one field always is the    *)
(* owner's.                                                                *)
LEMMA MemoStep == [MMCSNext]_mmcsVars => [Next]_vars
<1> SUFFICES ASSUME [MMCSNext]_mmcsVars PROVE [Next]_vars
  OBVIOUS
<1>1. ASSUME NEW t \in Threads, Step(t) PROVE Next \/ UNCHANGED vars
  <2>1. CASE AcqSave(t) \/ RelTake(t)
    BY <2>1 DEF AcqSave, RelTake, Move
  <2>2. CASE Acquiring(t) \/ Trying(t) \/ RelStart(t) \/ RelRest(t) \/ Asking(t)
    BY <2>2 DEF Acquiring, Trying, RelStart, RelRest, Asking, Next
  <2> QED
    BY <1>1, <2>1, <2>2 DEF Step
<1>2. CASE UNCHANGED mmcsVars
  BY <1>2 DEF mmcsVars
<1> QED
  BY <1>1, <1>2 DEF MMCSNext

(* Both kinds of lock are the MCS lock, so that what is proved of it,      *)
(* exclusion, the order of the exchanges and the life of the nodes, holds  *)
(* of both.                                                                *)
THEOREM MemoIsMCS == MMCSSpec => Spec
<1>1. MMCSInit => Init
  BY DEF MMCSInit
<1> QED
  BY <1>1, MemoStep, PTL DEF MMCSSpec, Spec

LEMMA MemoInv ==
  ASSUME TypeOK, MutualExclusion, PlacesOK, OwnersContext, [MMCSNext]_mmcsVars
  PROVE  PlacesOK' /\ OwnersContext'
<1> USE DEF ctxVars
<1>1. ASSUME NEW t \in Threads, AcqSave(t) \/ RelTake(t)
      PROVE  PlacesOK' /\ OwnersContext'
  <2>1. \A u \in Threads \ {t} : place[u] = "out"
    BY <1>1 DEF AcqSave, RelTake, Move, MutualExclusion, PlacesOK, Inside
  <2>2. /\ pc[t] = "cs" /\ pc' = pc
        /\ \A u \in Threads \ {t} : place'[u] = "out"
    BY <1>1, <2>1 DEF AcqSave, RelTake, Move, PlacesOK, vars
  <2>3. PlacesOK'
    <3>1. ctx' \in [Threads -> Threads \cup {NULL}]
      BY <1>1 DEF AcqSave, RelTake, Move, PlacesOK, OwnersContext
    <3>2. place' \in [Threads -> {"out", "saved", "taken"}]
      BY <1>1 DEF AcqSave, RelTake, Move, PlacesOK
    <3> QED
      BY <2>2, <3>1, <3>2 DEF PlacesOK
  <2>4. CASE AcqSave(t)
    BY <2>2, <2>4 DEF AcqSave, Move, PlacesOK, OwnersContext
  <2>5. CASE RelTake(t)
    BY <2>2, <2>5 DEF RelTake, Move, PlacesOK, OwnersContext
  <2> QED
    BY <1>1, <2>3, <2>4, <2>5
<1>2. ASSUME NEW t \in Threads, Acquiring(t) \/ Trying(t) \/ RelRest(t) \/ Asking(t)
      PROVE  PlacesOK' /\ OwnersContext'
  <2>1. UNCHANGED ctxVars
    BY <1>2 DEF Acquiring, Trying, RelRest, Asking
  <2>2. \A u \in Threads : pc[u] = "cs" => pc'[u] = "cs"
    BY <1>2 DEF TypeOK, Acquiring, Trying, RelRest, Asking, AcqInit, AcqSwap,
         AcqLocked, AcqLink, AcqSpin, TryInit, TryCAS, RelCAS, RelWait,
         RelUnlock, Nowaiters, Goto
  <2> QED
    BY <2>1, <2>2 DEF PlacesOK, OwnersContext
<1>3. ASSUME NEW t \in Threads, RelStart(t) PROVE PlacesOK' /\ OwnersContext'
  BY <1>3 DEF TypeOK, RelStart, RelLoad, Goto, PlacesOK, OwnersContext
<1>4. CASE UNCHANGED mmcsVars
  BY <1>4 DEF mmcsVars, vars, PlacesOK, OwnersContext
<1> QED
  BY <1>1, <1>2, <1>3, <1>4 DEF MMCSNext, Step

(* No owner of a memorizing lock works on the node of another thread, or   *)
(* on none, for every number of threads.                                   *)
THEOREM ContextIsTheOwners == MMCSSpec => []OwnersContext
<1>1. MMCSInit => PlacesOK /\ OwnersContext
  BY DEF MMCSInit, PlacesOK, OwnersContext
<1>2. TypeOK /\ MutualExclusion /\ (PlacesOK /\ OwnersContext)
        /\ [MMCSNext]_mmcsVars => (PlacesOK /\ OwnersContext)'
  BY MemoInv
<1> QED
  BY <1>1, <1>2, MemoIsMCS, TypeCorrect, Exclusion, PTL DEF MMCSSpec
=============================================================================
