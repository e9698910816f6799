---------------------------- MODULE TicketProofs ----------------------------
(***************************************************************************)
(* What the ticket lock does for every number of threads and every width   *)
(* of its counters; then, in the rounds of PrioChain, turns by counted     *)
(* conditions: they come in order, whatever else the threads use the lock  *)
(* for.                                                                    *)
(***************************************************************************)
EXTENDS PrioChain, FiniteSetTheorems, FunctionTheorems, TLAPS

(* Unsigned addition wraps at most once when its result is below 2M.       *)
LEMMA WrapOnce ==
  ASSUME NEW n \in Nat, n < 2 * M
  PROVE  n % M = IF n >= M THEN n - M ELSE n
BY TicketAssumption, SMT

(* A line without repetition is no longer than the set it is drawn from.   *)
LEMMA LineIsShort ==
  ASSUME NEW S, IsFiniteSet(S), NEW q \in Seq(S),
         \A i, j \in 1..Len(q) : q[i] = q[j] => i = j
  PROVE  Len(q) <= Cardinality(S)
<1> DEFINE D == 1..Len(q)
<1>1. q \in Injection(D, S)
  BY DEF Injection, IsInjective
<1>2. Cardinality(D) <= Cardinality(S)
  BY <1>1, FS_Injection
<1>3. Cardinality(D) = Len(q)
  BY FS_Interval
<1> QED
  BY <1>2, <1>3

(* A thread outside the line leaves room in it for one more.               *)
LEMMA RoomInLine ==
  ASSUME TypeOK, LineOK
  PROVE  /\ Len(queue) \in 0..M
         /\ \A t \in Threads : pc[t] \notin {"spin", "cs"} => Len(queue) < M
<1>1. Cardinality(Threads) \in Nat
  BY TicketAssumption, FS_CardinalityType
<1>2. Len(queue) <= M
  BY LineIsShort, TicketAssumption, <1>1 DEF TypeOK, LineOK
<1>3. ASSUME NEW t \in Threads, pc[t] \notin {"spin", "cs"}
      PROVE  Len(queue) < M
  <2> DEFINE S == Threads \ {t}
  <2>1. IsFiniteSet(S) /\ Cardinality(S) = Cardinality(Threads) - 1
    BY TicketAssumption, FS_RemoveElement
  <2>2. queue \in Seq(S)
    BY <1>3 DEF TypeOK, LineOK
  <2>3. Len(queue) <= Cardinality(S)
    BY <2>1, <2>2, LineIsShort DEF LineOK
  <2> QED
    BY <1>1, <2>1, <2>3, TicketAssumption
<1> QED
  BY <1>2, <1>3 DEF TypeOK

LEMMA InitInv == Init => IInv
<1> SUFFICES ASSUME Init PROVE IInv
  OBVIOUS
<1>1. 0 % M = 0
  BY WrapOnce, TicketAssumption
<1> QED
  BY <1>1, TicketAssumption
  DEF Init, IInv, TypeOK, LineOK, TicketOrder, TryOK, AnswerOK, WaitersStay,
      Counter, Trying, Answers

(* Counters one step further: Draw and Release move the line by one ticket. *)
LEMMA Arith ==
  ASSUME NEW a \in Counter, NEW k \in 0..M
  PROVE  /\ (a + k) % M \in Counter
         /\ k < M => Inc((a + k) % M) = (a + (k + 1)) % M
         /\ k > 0 => (Inc(a) + (k - 1)) % M = (a + k) % M
         /\ (a + k) % M = a <=> k \in {0, M}
<1>1. a \in Nat /\ a < M /\ M > 1 /\ M \in Nat
  BY TicketAssumption DEF Counter
<1>2. (a + k) % M = IF a + k >= M THEN a + k - M ELSE a + k
  BY <1>1, WrapOnce
<1>3. (a + 1) % M = IF a + 1 >= M THEN a + 1 - M ELSE a + 1
  BY <1>1, WrapOnce
<1>4. (a + k) % M \in Counter
  BY <1>1, <1>2 DEF Counter
<1>5. ASSUME k < M PROVE Inc((a + k) % M) = (a + (k + 1)) % M
  <2>1. (a + (k + 1)) % M
          = IF a + (k + 1) >= M THEN a + (k + 1) - M ELSE a + (k + 1)
    BY <1>1, <1>5, WrapOnce
  <2> DEFINE b == (a + k) % M
  <2>2. b \in Nat /\ b < M
    BY <1>1, <1>4 DEF Counter
  <2> HIDE DEF b
  <2>3. (b + 1) % M = IF b + 1 >= M THEN b + 1 - M ELSE b + 1
    BY <1>1, <2>2, WrapOnce
  <2> QED
    BY <1>1, <1>2, <1>5, <2>1, <2>3 DEF Inc, b
<1>6. ASSUME k > 0 PROVE (Inc(a) + (k - 1)) % M = (a + k) % M
  <2> DEFINE b == (a + 1) % M
  <2>1. b \in Nat /\ b < M
    BY <1>1, <1>3
  <2> HIDE DEF b
  <2>2. (b + (k - 1)) % M
          = IF b + (k - 1) >= M THEN b + (k - 1) - M ELSE b + (k - 1)
    BY <1>1, <1>6, <2>1, WrapOnce
  <2> QED
    BY <1>1, <1>2, <1>3, <1>6, <2>2 DEF Inc, b
<1> QED
  BY <1>1, <1>2, <1>4, <1>5, <1>6

(* Joining the line, by zm_ticket_acquire or by the compare-and-swap of    *)
(* zm_ticket_tryacq, which does so only when the line is empty.            *)
LEMMA DrawInv ==
  ASSUME IInv, NEW t \in Threads, pc[t] \notin {"spin", "cs"}, Draw(t),
         NEW label \in {"spin", "cs"}, Goto(t, label),
         label = "cs" => queue = << >>,
         my_ticket' = [my_ticket EXCEPT ![t] = next_ticket],
         UNCHANGED <<now_serving, answer>>
  PROVE  IInv'
<1> DEFINE n == Len(queue)
<1>1. n \in 0..M /\ n < M
  BY RoomInLine DEF IInv
<1>2. /\ queue' \in Seq(Threads)
      /\ Len(queue') = n + 1
      /\ \A i \in 1..n : queue'[i] = queue[i]
      /\ queue'[n + 1] = t
  BY DEF IInv, TypeOK, Draw
<1>3. \A i \in 1..n : queue[i] # t
  BY DEF IInv, LineOK
<1>4. next_ticket \in Counter /\ now_serving \in Counter
  BY DEF IInv, TypeOK
<1>5. next_ticket' = (now_serving' + Len(queue')) % M /\ next_ticket' \in Counter
  <2>1. next_ticket' = (now_serving + (n + 1)) % M
    BY <1>1, <1>4, Arith DEF IInv, TicketOrder, Draw
  <2>2. (now_serving + (n + 1)) % M \in Counter
    <3>1. n + 1 \in 0..M
      BY <1>1, TicketAssumption
    <3> QED
      BY <1>4, <3>1, Arith
  <2> QED
    BY <1>2, <2>1, <2>2
<1>6. TypeOK'
  <2>1. pc' \in [Threads -> {"idle", "spin", "cs"} \cup Trying]
    BY DEF IInv, TypeOK, Goto
  <2>2. my_ticket' \in [Threads -> Counter]
    BY <1>4 DEF IInv, TypeOK
  <2>3. since' \in [Threads -> Counter]
    BY TicketAssumption DEF IInv, TypeOK, Draw, NoFullLap, Counter
  <2> QED
    BY <1>2, <1>4, <1>5, <2>1, <2>2, <2>3 DEF IInv, TypeOK
<1>7. LineOK'
  <2>1. \A i, j \in 1..Len(queue') : queue'[i] = queue'[j] => i = j
    BY <1>1, <1>2, <1>3 DEF IInv, LineOK
  <2>2. ASSUME NEW u \in Threads
        PROVE  pc'[u] \in {"spin", "cs"}
                 <=> \E i \in 1..Len(queue') : queue'[i] = u
    <3>1. CASE u = t
      BY <1>1, <1>2, <3>1 DEF IInv, TypeOK, Goto
    <3>2. CASE u # t
      <4>1. pc'[u] = pc[u]
        BY <3>2 DEF IInv, TypeOK, Goto
      <4>2. (\E i \in 1..n : queue[i] = u)
              <=> \E i \in 1..Len(queue') : queue'[i] = u
        BY <1>1, <1>2, <3>2
      <4> QED
        BY <4>1, <4>2 DEF IInv, LineOK
    <3> QED
      BY <3>1, <3>2
  <2>3. ASSUME NEW u \in Threads, pc'[u] = "cs"
        PROVE  Len(queue') > 0 /\ queue'[1] = u
    <3>1. CASE u = t
      BY <1>2, <2>3, <3>1 DEF IInv, TypeOK, Goto
    <3>2. CASE u # t
      BY <1>1, <1>2, <2>3, <3>2 DEF IInv, TypeOK, LineOK, Goto
    <3> QED
      BY <3>1, <3>2
  <2> QED
    BY <2>1, <2>2, <2>3 DEF LineOK
<1>8. TicketOrder'
  BY <1>1, <1>2, <1>3, <1>5 DEF IInv, TypeOK, TicketOrder
<1>9. TryOK'
  <2> SUFFICES ASSUME NEW u \in Threads, pc'[u] \in Trying
               PROVE  /\ next_ticket' = (my_ticket'[u] + since'[u]) % M
                      /\ since'[u] # 0
    BY DEF TryOK, Trying
  <2>1. u # t /\ pc[u] \in Trying
    BY DEF IInv, TypeOK, Goto, Trying
  <2>2. my_ticket'[u] = my_ticket[u] /\ since'[u] = since[u] + 1
    BY <2>1 DEF IInv, TypeOK, Draw
  <2>3. since[u] \in 0..M /\ since[u] < M /\ my_ticket[u] \in Counter
    BY TicketAssumption DEF IInv, TypeOK, Counter
  <2>4. Inc((my_ticket[u] + since[u]) % M) = (my_ticket[u] + (since[u] + 1)) % M
    BY <2>3, Arith
  <2> QED
    BY <2>1, <2>2, <2>3, <2>4 DEF IInv, TryOK, Draw
<1>10. AnswerOK'
  BY DEF IInv, TypeOK, AnswerOK, Goto
<1>11. WaitersStay'
  BY <1>1, <1>2 DEF IInv, WaitersStay
<1> QED
  BY <1>6, <1>7, <1>8, <1>9, <1>10, <1>11 DEF IInv

(* Leaving the line: the owner serves the next ticket.                     *)
LEMMA ReleaseInv ==
  ASSUME IInv, NEW t \in Threads, Release(t)
  PROVE  IInv'
<1> DEFINE n == Len(queue)
<1>1. n \in 0..M /\ n > 0 /\ queue[1] = t /\ pc[t] = "cs"
  BY RoomInLine DEF IInv, LineOK, Release
<1>2. /\ queue' \in Seq(Threads)
      /\ Len(queue') = n - 1
      /\ \A i \in 1..(n - 1) : queue'[i] = queue[i + 1]
  BY <1>1 DEF IInv, TypeOK, Release
<1>3. now_serving \in Counter /\ now_serving' = Inc(now_serving)
  BY DEF IInv, TypeOK, Release
<1>4. now_serving' \in Counter
  <2>1. 1 \in 0..M
    BY TicketAssumption
  <2> QED
    BY <1>3, <2>1, Arith DEF Inc
<1>5. TypeOK'
  BY <1>2, <1>4 DEF IInv, TypeOK, Release, Goto, Answers
<1>6. LineOK'
  <2>1. \A i, j \in 1..Len(queue') : queue'[i] = queue'[j] => i = j
    BY <1>1, <1>2 DEF IInv, LineOK
  <2>2. ASSUME NEW u \in Threads
        PROVE  pc'[u] \in {"spin", "cs"}
                 <=> \E i \in 1..Len(queue') : queue'[i] = u
    <3>1. CASE u = t
      <4>1. pc'[u] = "idle"
        BY <3>1 DEF IInv, TypeOK, Release, Goto
      <4>2. \A i \in 1..(n - 1) : queue[i + 1] # t
        BY <1>1 DEF IInv, LineOK
      <4> QED
        BY <1>1, <1>2, <3>1, <4>1, <4>2
    <3>2. CASE u # t
      <4>1. pc'[u] = pc[u]
        BY <3>2 DEF IInv, TypeOK, Release, Goto
      <4>2. ASSUME NEW i \in 1..n, queue[i] = u
            PROVE  \E j \in 1..Len(queue') : queue'[j] = u
        <5>1. i - 1 \in 1..(n - 1) /\ queue'[i - 1] = u
          BY <1>1, <1>2, <3>2, <4>2
        <5> QED
          BY <1>2, <5>1
      <4>3. ASSUME NEW j \in 1..Len(queue'), queue'[j] = u
            PROVE  \E i \in 1..n : queue[i] = u
        <5>1. j + 1 \in 1..n /\ queue[j + 1] = u
          BY <1>1, <1>2, <4>3
        <5> QED
          BY <5>1
      <4> QED
        BY <4>1, <4>2, <4>3 DEF IInv, LineOK
    <3> QED
      BY <3>1, <3>2
  <2>3. ASSUME NEW u \in Threads PROVE pc'[u] # "cs"
    BY <1>1 DEF IInv, TypeOK, LineOK, Release, Goto
  <2> QED
    BY <2>1, <2>2, <2>3 DEF LineOK
<1>7. TicketOrder'
  <2>1. \A k \in 1..n : (now_serving' + (k - 1)) % M = (now_serving + k) % M
    <3> TAKE k \in 1..n
    <3>1. k \in 0..M /\ k > 0
      BY <1>1, TicketAssumption
    <3> QED
      BY <1>3, <3>1, Arith
  <2>2. \A i \in 1..Len(queue') :
          my_ticket'[queue'[i]] = (now_serving' + (i - 1)) % M
    <3> TAKE i \in 1..Len(queue')
    <3>1. i \in 1..n /\ i + 1 \in 1..n /\ queue'[i] = queue[i + 1]
      BY <1>1, <1>2
    <3>2. my_ticket[queue[i + 1]] = (now_serving + ((i + 1) - 1)) % M
      BY <3>1 DEF IInv, TicketOrder
    <3>3. (i + 1) - 1 = i
      BY <3>1
    <3> QED
      BY <2>1, <3>1, <3>2, <3>3 DEF Release
  <2>3. next_ticket' = (now_serving' + Len(queue')) % M
    BY <1>1, <1>2, <2>1 DEF IInv, TicketOrder, Release
  <2> QED
    BY <2>2, <2>3 DEF TicketOrder
<1>8. TryOK'
  <2> SUFFICES ASSUME NEW u \in Threads, pc'[u] \in Trying
               PROVE  /\ next_ticket' = (my_ticket'[u] + since'[u]) % M
                      /\ pc'[u] = "try_cas" /\ since'[u] = 0 => queue' = << >>
    BY DEF TryOK, Trying
  <2>1. u # t /\ pc'[u] = pc[u]
    BY DEF IInv, TypeOK, Release, Goto, Trying
  <2>2. queue # << >>
    BY <1>1
  <2> QED
    BY <2>1, <2>2 DEF IInv, TryOK, Release
<1>9. AnswerOK'
  BY <1>1 DEF IInv, TypeOK, AnswerOK, Release, Goto, Answers
<1>10. WaitersStay'
  <2>1. ASSUME NEW u \in Threads PROVE answer'[u] = "none"
    BY <1>1 DEF IInv, TypeOK, LineOK, AnswerOK, Release
  <2> QED
    BY <2>1 DEF WaitersStay
<1> QED
  BY <1>5, <1>6, <1>7, <1>8, <1>9, <1>10 DEF IInv

(* A ticket loaded when no ticket was drawn since is the next ticket.      *)
LEMMA FreshTicket ==
  ASSUME TypeOK, TryOK, NEW t \in Threads, pc[t] \in Trying, since[t] = 0
  PROVE  next_ticket = my_ticket[t]
<1>1. my_ticket[t] \in Nat /\ my_ticket[t] < M
  BY TicketAssumption DEF TypeOK, Counter
<1>2. my_ticket[t] % M = my_ticket[t]
  BY <1>1, WrapOnce, TicketAssumption
<1> QED
  BY <1>1, <1>2 DEF TryOK

(* The line is empty exactly when the two counters agree and somebody is   *)
(* out of the line.                                                        *)
LEMMA CountersAgree ==
  ASSUME IInv, NEW t \in Threads, pc[t] \notin {"spin", "cs"}
  PROVE  next_ticket = now_serving <=> queue = << >>
<1>1. Len(queue) \in 0..M /\ Len(queue) < M
  BY RoomInLine DEF IInv
<1>2. next_ticket = now_serving <=> Len(queue) = 0
  BY <1>1, Arith DEF IInv, TypeOK, TicketOrder
<1> QED
  BY <1>2 DEF IInv, TypeOK

LEMMA TryInv ==
  ASSUME IInv, NEW t \in Threads, TryLoadNext(t) \/ TryLoadServing(t)
  PROVE  IInv'
<1>1. CASE TryLoadNext(t)
  <2>1. next_ticket \in Nat /\ next_ticket < M /\ 0 \in Counter
    BY TicketAssumption DEF IInv, TypeOK, Counter
  <2>2. (next_ticket + 0) % M = next_ticket
    BY <2>1, WrapOnce, TicketAssumption
  <2>3. TypeOK'
    BY <1>1, <2>1 DEF IInv, TypeOK, TryLoadNext, Goto, Trying
  <2>4. LineOK'
    BY <1>1 DEF IInv, TypeOK, LineOK, TryLoadNext, Goto
  <2>5. TicketOrder'
    BY <1>1 DEF IInv, TypeOK, LineOK, TicketOrder, TryLoadNext
  <2>6. TryOK'
    BY <1>1, <2>2 DEF IInv, TypeOK, TryOK, TryLoadNext, Goto, Trying
  <2>7. AnswerOK' /\ WaitersStay'
    BY <1>1 DEF IInv, TypeOK, AnswerOK, WaitersStay, TryLoadNext, Goto
  <2> QED
    BY <2>3, <2>4, <2>5, <2>6, <2>7 DEF IInv
<1>2. CASE TryLoadServing(t)
  <2>1. pc[t] = "try_serving" /\ pc[t] \in Trying
    BY <1>2 DEF TryLoadServing, Trying
  <2>2. TypeOK'
    BY <1>2 DEF IInv, TypeOK, TryLoadServing, Goto, Trying
  <2>3. LineOK' /\ TicketOrder' /\ AnswerOK' /\ WaitersStay'
    BY <1>2 DEF IInv, TypeOK, LineOK, TicketOrder, AnswerOK, WaitersStay,
                TryLoadServing, Goto
  <2>4. ASSUME my_ticket[t] = now_serving, since[t] = 0 PROVE queue = << >>
    BY <2>1, <2>4, FreshTicket, CountersAgree DEF IInv
  <2>5. TryOK'
    BY <1>2, <2>1, <2>4 DEF IInv, TypeOK, TryOK, TryLoadServing, Goto, Trying
  <2> QED
    BY <2>2, <2>3, <2>5 DEF IInv
<1> QED
  BY <1>1, <1>2

LEMMA NowaitersInv ==
  ASSUME IInv, NEW t \in Threads, Nowaiters(t)
  PROVE  IInv'
<1> DEFINE n == Len(queue)
<1>1. n \in Nat /\ n > 0 /\ queue[1] = t /\ pc[t] = "cs"
  BY DEF IInv, TypeOK, LineOK, Nowaiters
<1>2. ASSUME n = 1 PROVE Alone
  <2>1. next_ticket = (now_serving + 1) % M
    BY <1>2 DEF IInv, TicketOrder
  <2>2. now_serving \in Nat /\ now_serving < M /\ M \in Nat /\ M > 1
    BY TicketAssumption DEF IInv, TypeOK, Counter
  <2>3. next_ticket = IF now_serving + 1 >= M THEN now_serving + 1 - M
                                              ELSE now_serving + 1
    BY <2>1, <2>2, WrapOnce
  <2>4. 1 % M = 1 /\ (1 - M) % M = 1
    BY <2>2, SMT
  <2>5. next_ticket - now_serving \in {1, 1 - M}
    BY <2>2, <2>3
  <2> QED
    BY <2>4, <2>5 DEF Alone
<1>3. WaitersStay'
  <2>1. ASSUME NEW u \in Threads, answer'[u] = "waiters" PROVE n >= 2
    <3>1. CASE u = t
      <4>1. ASSUME Alone PROVE FALSE
        BY <2>1, <3>1, <4>1 DEF IInv, TypeOK, Nowaiters
      <4>2. n # 1
        BY <1>2, <4>1
      <4> QED
        <5>1. n \in Nat /\ n > 0
          BY <1>1
        <5> HIDE DEF n
        <5> QED
          BY <4>2, <5>1
    <3>2. CASE u # t
      BY <2>1, <3>2 DEF IInv, TypeOK, WaitersStay, Nowaiters
    <3> QED
      BY <3>1, <3>2
  <2> QED
    BY <2>1 DEF WaitersStay, Nowaiters
<1>4. TypeOK' /\ AnswerOK'
  BY <1>1 DEF IInv, TypeOK, AnswerOK, Nowaiters, Answers
<1>5. LineOK' /\ TicketOrder' /\ TryOK'
  BY DEF IInv, LineOK, TicketOrder, TryOK, Nowaiters
<1> QED
  BY <1>3, <1>4, <1>5 DEF IInv

LEMMA StepInv == IInv /\ [Next]_vars => IInv'
<1> SUFFICES ASSUME IInv, [Next]_vars PROVE IInv'
  OBVIOUS
<1>1. ASSUME NEW t \in Threads, AcquireFetchAdd(t) PROVE IInv'
  BY <1>1, DrawInv DEF AcquireFetchAdd
<1>2. ASSUME NEW t \in Threads, AcquireSpin(t) PROVE IInv'
  <2>1. PICK i \in 1..Len(queue) : queue[i] = t
    BY <1>2 DEF IInv, LineOK, AcquireSpin
  <2>2. i = 1
    <3>1. (now_serving + (i - 1)) % M = now_serving
      BY <1>2, <2>1 DEF IInv, TicketOrder, AcquireSpin
    <3>2. Len(queue) \in 0..M /\ i - 1 \in 0..M /\ i - 1 < M
      BY <2>1, RoomInLine, TicketAssumption DEF IInv
    <3> QED
      BY <2>1, <3>1, <3>2, Arith DEF IInv, TypeOK
  <2>3. LineOK'
    BY <1>2, <2>1, <2>2 DEF IInv, TypeOK, LineOK, AcquireSpin, Goto
  <2>4. TypeOK' /\ TicketOrder' /\ TryOK' /\ AnswerOK' /\ WaitersStay'
    BY <1>2 DEF IInv, TypeOK, TicketOrder, TryOK, AnswerOK, WaitersStay,
                AcquireSpin, Goto, Trying
  <2> QED
    BY <2>3, <2>4 DEF IInv
<1>3. ASSUME NEW t \in Threads, TryLoadNext(t) \/ TryLoadServing(t) PROVE IInv'
  BY <1>3, TryInv
<1>4. ASSUME NEW t \in Threads, TryCAS(t) PROVE IInv'
  <2>1. pc[t] = "try_cas" /\ pc[t] \in Trying /\ pc[t] \notin {"spin", "cs"}
    BY <1>4 DEF TryCAS, Trying
  <2>2. CASE next_ticket = my_ticket[t]
    <3>1. since[t] = 0
      <4>1. /\ my_ticket[t] \in Counter
            /\ since[t] \in 0..M /\ since[t] < M
        BY TicketAssumption DEF IInv, TypeOK, Counter
      <4> QED
        BY <2>1, <2>2, <4>1, Arith DEF IInv, TryOK
    <3>2. queue = << >>
      BY <2>1, <3>1 DEF IInv, TryOK
    <3>3. my_ticket' = [my_ticket EXCEPT ![t] = next_ticket]
      BY <1>4, <2>2 DEF IInv, TypeOK, TryCAS
    <3>4. Draw(t) /\ Goto(t, "cs") /\ UNCHANGED <<now_serving, answer>>
      BY <1>4, <2>2 DEF TryCAS
    <3> QED
      BY <2>1, <3>2, <3>3, <3>4, DrawInv
  <2>3. CASE next_ticket # my_ticket[t]
    <3>1. /\ Goto(t, "idle")
          /\ UNCHANGED <<next_ticket, now_serving, my_ticket, answer, queue, since>>
      BY <1>4, <2>3 DEF TryCAS
    <3> QED
      BY <2>1, <3>1 DEF IInv, TypeOK, LineOK, TicketOrder, TryOK, AnswerOK,
                        WaitersStay, Goto, Trying
  <2> QED
    BY <2>2, <2>3
<1>5. ASSUME NEW t \in Threads, Release(t) PROVE IInv'
  BY <1>5, ReleaseInv
<1>6. ASSUME NEW t \in Threads, Nowaiters(t) PROVE IInv'
  BY <1>6, NowaitersInv
<1>7. CASE UNCHANGED vars
  BY <1>7 DEF IInv, TypeOK, LineOK, TicketOrder, TryOK, AnswerOK, WaitersStay, vars
<1> QED
  BY <1>1, <1>2, <1>3, <1>4, <1>5, <1>6, <1>7 DEF Next
-----------------------------------------------------------------------------
(* The inductive invariant holds of every behaviour of the lock.           *)
THEOREM Invariance == Spec => []IInv
BY InitInv, StepInv, PTL DEF Spec

(* Every variable keeps its type, the counters that of an unsigned.        *)
THEOREM TypeCorrect == Spec => []TypeOK
<1>1. IInv => TypeOK
  BY DEF IInv
<1> QED
  BY <1>1, Invariance, PTL

(* Two threads never own the lock at once, whatever their number and the   *)
(* width of the counters, through any number of wrap-arounds.              *)
THEOREM Exclusion == Spec => []MutualExclusion
<1>1. IInv => MutualExclusion
  BY DEF IInv, LineOK, MutualExclusion
<1> QED
  BY <1>1, Invariance, PTL

(* What zm_ticket_nowaiters told the owner stays right until the release.  *)
THEOREM WaitersStayInLine == Spec => []WaitersStay
<1>1. IInv => WaitersStay
  BY DEF IInv
<1> QED
  BY <1>1, Invariance, PTL

(* zm_ticket_tryacq never fails on a lock that was free all along.         *)
THEOREM TryFailsHonestly == Spec => TryFailsOnlyIfHeld
<1>1. ASSUME IInv, [Next]_vars, NEW t \in Threads,
             pc[t] \in Trying, pc'[t] = "idle"
      PROVE  queue # << >> \/ since[t] > 0
  <2>1. since[t] \in Nat /\ pc[t] # "idle" /\ pc[t] \notin {"spin", "cs"}
    BY <1>1, TicketAssumption DEF IInv, TypeOK, Counter, Trying
  <2>2. TryLoadServing(t) \/ TryCAS(t)
    BY <1>1, <2>1 DEF IInv, TypeOK, Next, vars, AcquireFetchAdd, AcquireSpin,
         TryLoadNext, TryLoadServing, TryCAS, Release, Nowaiters, Goto, Trying
  <2>3. my_ticket[t] # now_serving \/ next_ticket # my_ticket[t]
    BY <1>1, <2>1, <2>2 DEF IInv, TypeOK, TryLoadServing, TryCAS, Goto
  <2> QED
    BY <1>1, <2>1, <2>3, FreshTicket, CountersAgree DEF IInv
<1>2. IInv /\ [Next]_vars =>
        [\A t \in Threads : pc[t] \in Trying /\ pc'[t] = "idle" =>
           queue # << >> \/ since[t] > 0]_vars
  BY <1>1
<1> QED
  BY <1>2, Invariance, PTL DEF Spec, TryFailsOnlyIfHeld

(* The ticket lock implements the FIFO lock: the fetch_add or the          *)
(* compare-and-swap enters the line, the end of the spin grants the lock   *)
(* and the release leaves the line.                                        *)
THEOREM ImplementsFifoLock == Spec => FifoOrder
<1> DEFINE H == {t \in Threads : pc[t] = "cs"}
<1>1. Init => FIFO!Init
  BY DEF Init, FIFO!Init
<1>2. ASSUME IInv, [Next]_vars PROVE [FIFO!Next]_(FIFO!vars)
  <2>1. ASSUME NEW t \in Threads, AcquireFetchAdd(t) PROVE FIFO!Enter(t)
    <3>1. H' = H
      BY <1>2, <2>1 DEF IInv, TypeOK, AcquireFetchAdd, Goto
    <3>2. ~ \E i \in 1..Len(queue) : queue[i] = t
      BY <1>2, <2>1 DEF IInv, LineOK, AcquireFetchAdd
    <3> QED
      BY <2>1, <3>1, <3>2 DEF FIFO!Enter, FIFO!Waiting, AcquireFetchAdd, Draw
  <2>2. ASSUME NEW t \in Threads, AcquireSpin(t) PROVE FIFO!Grant(t)
    <3>1. IInv'
      BY <1>2, StepInv
    <3>2. pc'[t] = "cs" /\ pc[t] = "spin" /\ UNCHANGED queue
      BY <1>2, <2>2 DEF IInv, TypeOK, AcquireSpin, Goto
    <3>3. Len(queue) > 0 /\ queue[1] = t
      BY <3>1, <3>2 DEF IInv, LineOK
    <3>4. H = {}
      BY <1>2, <3>2, <3>3 DEF IInv, LineOK
    <3>5. H' = {t}
      BY <3>1, <3>2, <3>3 DEF IInv, LineOK
    <3> QED
      BY <1>2, <3>2, <3>3, <3>4, <3>5 DEF FIFO!Grant, IInv, TypeOK
  <2>3. ASSUME NEW t \in Threads, TryCAS(t)
        PROVE  FIFO!EnterFree(t) \/ UNCHANGED <<queue, H>>
    <3>1. pc[t] = "try_cas" /\ pc[t] \in Trying
      BY <2>3 DEF TryCAS, Trying
    <3>2. CASE next_ticket = my_ticket[t]
      <4>1. IInv'
        BY <1>2, StepInv
      <4>2. pc'[t] = "cs" /\ queue' = Append(queue, t)
        BY <1>2, <2>3, <3>2 DEF IInv, TypeOK, TryCAS, Draw, Goto
      <4>3. Len(queue') > 0 /\ queue'[1] = t
        BY <4>1, <4>2 DEF IInv, LineOK
      <4>4. H' = {t}
        BY <4>1, <4>2, <4>3 DEF IInv, LineOK
      <4>5. queue = << >>
        <5>1. ASSUME queue # << >> PROVE queue'[1] = queue[1]
          BY <1>2, <4>2, <5>1 DEF IInv, TypeOK
        <5>2. ASSUME queue # << >> PROVE queue[1] # t
          BY <1>2, <3>1, <5>2 DEF IInv, TypeOK, LineOK
        <5> QED
          BY <4>3, <5>1, <5>2
      <4> QED
        BY <4>2, <4>4, <4>5 DEF FIFO!EnterFree
    <3>3. CASE next_ticket # my_ticket[t]
      BY <1>2, <2>3, <3>1, <3>3 DEF IInv, TypeOK, TryCAS, Goto
    <3> QED
      BY <3>2, <3>3
  <2>4. ASSUME NEW t \in Threads, Release(t) PROVE FIFO!Leave(t)
    <3>1. H = {t} /\ H' = {} /\ queue # << >>
      BY <1>2, <2>4 DEF IInv, TypeOK, LineOK, Release, Goto
    <3> QED
      BY <2>4, <3>1 DEF FIFO!Leave, Release
  <2>5. ASSUME NEW t \in Threads,
               TryLoadNext(t) \/ TryLoadServing(t) \/ Nowaiters(t)
        PROVE  UNCHANGED <<queue, H>>
    BY <1>2, <2>5 DEF IInv, TypeOK, TryLoadNext, TryLoadServing, Nowaiters, Goto
  <2>6. CASE UNCHANGED vars
    BY <2>6 DEF vars, FIFO!vars
  <2> QED
    BY <1>2, <2>1, <2>2, <2>3, <2>4, <2>5, <2>6
    DEF Next, FIFO!Next, FIFO!vars
<1> QED
  BY <1>1, <1>2, Invariance, PTL DEF Spec, FifoOrder, FIFO!Spec
-----------------------------------------------------------------------------
(* The chain's threads use the ticket lock by its operations only.         *)
LEMMA UsesTheLock == [ChainNext]_allVars => [Next]_vars
<1> SUFFICES ASSUME [ChainNext]_allVars PROVE [Next]_vars
  OBVIOUS
<1>1. CASE Barriers
  BY <1>1 DEF Barriers, Barrier
<1>2. ASSUME NEW t \in Threads, Setup(t) \/ TakeTurn(t) \/ SignalOther(t)
      PROVE  UNCHANGED vars
  BY <1>2 DEF Setup, TakeTurn, SignalOther
<1>3. ASSUME NEW t \in Threads,
             Acquire(t) \/ Try(t) \/ Leave(t) \/ Ask(t) \/ LockStep(t) \/ Finish(t)
      PROVE  Next
  BY <1>3 DEF Acquire, Try, Leave, Ask, LockStep, Finish, Next
<1>4. ASSUME NEW t \in Threads, Await(t) PROVE UNCHANGED vars
  BY <1>4 DEF Await, SCountWait, WaitStore
<1>5. ASSUME NEW t \in Threads, AwaitStep(t) PROVE Next \/ UNCHANGED vars
  BY <1>5 DEF AwaitStep, WaitRelease, WaitSpin, WaitAcquire, WaitReturn, Next
<1>6. CASE UNCHANGED allVars
  BY <1>6 DEF allVars
<1> QED
  BY <1>1, <1>2, <1>3, <1>4, <1>5, <1>6 DEF ChainNext, Round

(* ...so that they are excluded from one another.                          *)
THEOREM ChainUsesTicket == ChainSpec => Spec
<1>1. ChainInit => Init
  BY DEF ChainInit
<1> QED
  BY <1>1, UsesTheLock, PTL DEF ChainSpec, Spec

LEMMA ChainInitInv == ChainInit => ChainInv
<1> SUFFICES ASSUME ChainInit PROVE ChainInv
  OBVIOUS
<1>1. ChainTypeOK
  BY DEF ChainInit, CondInit, ChainTypeOK
<1>2. PlacesOK /\ WaitsOK /\ TurnsOK
  BY DEF ChainInit, Init, CondInit, PlacesOK, WaitsOK, TurnsOK, Active
<1> QED
  BY <1>1, <1>2 DEF ChainInv

LEMMA Numbers == Threads \subseteq Nat /\ (Threads # {} => 0 \in Threads)
<1>1. Cardinality(Threads) \in Nat
  BY TicketAssumption, FS_CardinalityType
<1> DEFINE n == Cardinality(Threads)
<1>2. Threads = 0 .. n - 1
  BY ChainAssumption
<1> HIDE DEF n
<1> QED
  BY <1>1, <1>2 DEF n

(* What a thread does with the lock before it waits changes nothing.       *)
LEMMA FreeUse ==
  ASSUME TypeOK, ChainInv, NEW t \in Threads, stage[t] = "run", cpc[t] = "out",
         NEW label, Goto(t, label) \/ UNCHANGED pc,
         UNCHANGED condVars, UNCHANGED chainVars
  PROVE  ChainInv'
<1> USE DEF condVars, chainVars
<1>1. ChainTypeOK'
  BY DEF ChainInv, ChainTypeOK
<1>2. \A u \in Threads : u # t => pc'[u] = pc[u]
  BY DEF TypeOK, Goto
<1>3. PlacesOK'
  BY <1>2 DEF ChainInv, PlacesOK
<1>4. WaitsOK'
  BY DEF ChainInv, WaitsOK
<1>5. TurnsOK'
  BY DEF ChainInv, TurnsOK, Active, Pending
<1> QED
  BY <1>1, <1>3, <1>4, <1>5 DEF ChainInv

LEMMA BarriersInv ==
  ASSUME TypeOK, ChainInv, Barriers
  PROVE  ChainInv'
<1> USE DEF condVars, vars
<1>1. PICK from, to :
        /\ Barrier(from, to)
        /\ \/ from = "barrier1" /\ to = "setup"
           \/ from = "barrier2" /\ to = "run"
  BY DEF Barriers
<1>2. ChainTypeOK'
  BY <1>1 DEF ChainInv, ChainTypeOK, Barrier
<1>3. PlacesOK'
  BY <1>1 DEF ChainInv, ChainTypeOK, PlacesOK, Barrier
<1>4. WaitsOK'
  BY <1>1 DEF ChainInv, WaitsOK, Barrier
<1>5. \A t \in Threads : left[t] = {} /\ stage[t] = from
  BY <1>1 DEF ChainInv, PlacesOK, Barrier
<1>6. CASE from = "barrier1"
  <2>1. \A t \in Threads : stage'[t] = "setup"
    BY <1>1, <1>6 DEF Barrier
  <2> QED
    BY <1>2, <1>3, <1>4, <2>1 DEF ChainInv, TurnsOK, Active
<1>7. CASE from = "barrier2"
  <2>1. \A t \in Threads : count[t] = t /\ t \in Nat
    BY <1>5, <1>7, Numbers DEF ChainInv, TurnsOK
  <2>2. Threads # {} => counter = 0
    BY <1>5, <1>7, Numbers DEF ChainInv, TurnsOK
  <2>3. /\ \A t \in Threads : stage'[t] = "run"
        /\ count' = count /\ counter' = counter /\ left' = left
    BY <1>1, <1>7 DEF Barrier
  <2>4. \A t \in Threads : ~Pending(t)'
    BY <1>5, <2>3 DEF Pending
  <2> QED
    <3>1. \A t \in Threads : counter' <= t /\ count'[t] = (t - counter') + 0
      BY <2>1, <2>2, <2>3
    <3>2. \A t \in Threads : stage'[t] \notin {"barrier2", "signal", "barrier1"}
      BY <2>3
    <3>3. TurnsOK'
      BY <2>4, <3>1, <3>2 DEF TurnsOK
    <3> QED
      BY <1>2, <1>3, <1>4, <3>3 DEF ChainInv
<1> QED
  BY <1>1, <1>6, <1>7

LEMMA SetupInv ==
  ASSUME TypeOK, ChainInv, NEW t \in Threads, Setup(t)
  PROVE  ChainInv'
<1> USE DEF To, Setup, SCountInit, Signal, vars, condVars
<1>1. t \in Nat
  BY Numbers
<1>2. ChainTypeOK'
  BY <1>1 DEF ChainInv, ChainTypeOK
<1>3. \A u \in Threads : stage[u] \in {"setup", "barrier2"}
  BY DEF ChainInv, PlacesOK
<1>4. \A u \in Threads : stage'[u] \in {"setup", "barrier2"}
  BY <1>3 DEF ChainInv, ChainTypeOK
<1>5. PlacesOK'
  BY <1>3, <1>4 DEF ChainInv, ChainTypeOK, PlacesOK
<1>6. WaitsOK'
  BY <1>3, <1>4 DEF ChainInv, ChainTypeOK, PlacesOK, WaitsOK
<1>7. \A u \in Threads :
        stage'[u] = "barrier2" => count'[u] = u /\ (u = 0 => counter' = 0)
  BY DEF ChainInv, ChainTypeOK, TurnsOK
<1>8. TurnsOK'
  BY <1>4, <1>7 DEF TurnsOK, Active
<1> QED
  BY <1>2, <1>5, <1>6, <1>8 DEF ChainInv

(* From the check of the count to the turn.                                *)
LEMMA AwaitInv ==
  ASSUME TypeOK, ChainInv, NEW t \in Threads, Await(t) \/ AwaitStep(t)
  PROVE  ChainInv'
<1> USE DEF chainVars, condVars, vars
<1>1. /\ left' = left /\ counter' = counter /\ count' = count
      /\ Active(t) /\ Active(t)'
      /\ \A u \in Threads : u # t => stage'[u] = stage[u] /\ cpc'[u] = cpc[u]
                                     /\ pc'[u] = pc[u] /\ flag'[u] = flag[u]
  BY DEF Await, AwaitStep, SCountWait, WaitStore, WaitRelease, WaitSpin,
         WaitAcquire, WaitReturn, AcquireFetchAdd, AcquireSpin, Release, Goto,
         CondGoto, To, ChainInv, ChainTypeOK, TypeOK, PlacesOK, Active
<1>2. ChainTypeOK'
  BY DEF Await, AwaitStep, SCountWait, WaitStore, WaitRelease, WaitSpin,
         WaitAcquire, WaitReturn, CondGoto, To, ChainInv, ChainTypeOK
<1>3. /\ stage'[t] = "turn" => pc'[t] = "cs" /\ cpc'[t] = "out" /\ count[t] = 0
      /\ stage'[t] = "wait" <=> cpc'[t] # "out"
      /\ cpc'[t] = "release" => pc'[t] = "cs" /\ flag'[t] = "WAIT"
      /\ cpc'[t] = "spin" => pc'[t] = "idle" /\ (flag'[t] = "CLEAR" => count[t] = 0)
      /\ cpc'[t] = "acquire" => pc'[t] = "idle" /\ count[t] = 0
      /\ cpc'[t] = "spin_lock" => pc'[t] = "spin" /\ count[t] = 0
  <2> USE DEF ChainInv, ChainTypeOK, TypeOK, PlacesOK, WaitsOK, To, CondGoto, Goto
  <2>1. CASE Await(t)
    BY <2>1 DEF Await, SCountWait, WaitStore
  <2>2. CASE stage[t] = "wait" /\ WaitReturn(t) /\ To(t, "wait", "turn")
    BY <2>2 DEF WaitReturn, AcquireSpin
  <2>3. CASE (WaitRelease(t) \/ WaitSpin(t) \/ WaitAcquire(t)) /\ stage' = stage
    BY <2>3 DEF WaitRelease, WaitSpin, WaitAcquire, Release, AcquireFetchAdd
  <2> QED
    BY <2>1, <2>2, <2>3 DEF AwaitStep
<1>4. PlacesOK'
  BY <1>1, <1>3 DEF ChainInv, ChainTypeOK, PlacesOK, Active
<1>5. WaitsOK'
  BY <1>1, <1>3 DEF ChainInv, WaitsOK
<1>6. TurnsOK'
  BY <1>1 DEF ChainInv, TurnsOK, Active, Pending
<1> QED
  BY <1>2, <1>4, <1>5, <1>6 DEF ChainInv

(* The owner with its turn is alone with the counts.                       *)
LEMMA OwnerIsAlone ==
  ASSUME TypeOK, MutualExclusion, ChainInv, NEW t \in Threads,
         stage[t] \in {"turn", "signal"}
  PROVE  \A u \in Threads \ {t} :
           /\ left[u] = {}
           /\ stage[u] \notin {"turn", "signal", "setup", "barrier2"}
           /\ cpc[u] # "release"
BY DEF MutualExclusion, ChainInv, ChainTypeOK, PlacesOK

LEMMA TakeTurnInv ==
  ASSUME TypeOK, MutualExclusion, ChainInv, NEW t \in Threads, TakeTurn(t)
  PROVE  ChainInv'
<1> USE DEF TakeTurn, To, vars, condVars
<1>1. /\ stage[t] = "turn" /\ stage'[t] = "signal"
      /\ \A u \in Threads \ {t} : stage'[u] = stage[u] /\ left'[u] = left[u]
      /\ left'[t] = Threads \ {t}
      /\ counter' = counter + 1
      /\ count' = count /\ cpc' = cpc /\ flag' = flag /\ pc' = pc
  BY DEF ChainInv, ChainTypeOK
<1>2. \A u \in Threads : left[u] = {}
  BY <1>1, OwnerIsAlone DEF ChainInv, PlacesOK
<1>3. counter = t /\ t \in Nat
  <2>1. ~Pending(t) /\ Active(t) /\ count[t] = 0
    BY <1>1, <1>2 DEF Pending, Active, ChainInv, WaitsOK
  <2> QED
    BY <2>1, Numbers DEF ChainInv, ChainTypeOK, TurnsOK
<1>4. ChainTypeOK'
  BY <1>3 DEF ChainInv, ChainTypeOK
<1>5. PlacesOK'
  BY <1>1, OwnerIsAlone DEF ChainInv, PlacesOK
<1>6. WaitsOK'
  BY <1>1 DEF ChainInv, WaitsOK
<1>7. ASSUME NEW u \in Threads, Active(u)'
      PROVE  counter' <= u /\ Pending(u)' /\ count'[u] = (u - counter') + 1
  <2>1. u # t /\ Active(u) /\ ~Pending(u)
    BY <1>1, <1>2, <1>7 DEF Active, Pending
  <2>2. Pending(u)'
    BY <1>1, <2>1 DEF Pending
  <2>3. counter <= u /\ count[u] = u - counter /\ u \in Nat
    BY <2>1, Numbers DEF ChainInv, ChainTypeOK, TurnsOK
  <2> QED
    BY <1>1, <1>3, <2>1, <2>2, <2>3
<1>8. ASSUME NEW u \in Threads, stage'[u] \in {"signal", "barrier1"}
      PROVE  u < counter'
  <2>1. CASE u = t
    BY <1>1, <1>3, <2>1
  <2>2. CASE u # t
    <3>1. u < counter /\ u \in Nat
      BY <1>1, <1>8, <2>2, Numbers DEF ChainInv, TurnsOK
    <3> QED
      BY <1>1, <1>3, <3>1
  <2> QED
    BY <2>1, <2>2
<1>9. \A u \in Threads : stage'[u] # "barrier2"
  BY <1>1, OwnerIsAlone
<1>10. TurnsOK'
  BY <1>7, <1>8, <1>9 DEF TurnsOK
<1> QED
  BY <1>4, <1>5, <1>6, <1>10 DEF ChainInv

LEMMA SignalInv ==
  ASSUME TypeOK, MutualExclusion, ChainInv, NEW t \in Threads, SignalOther(t)
  PROVE  ChainInv'
<1> USE DEF vars
<1>1. PICK c \in left[t] : SCountSignal(c) /\ left' = [left EXCEPT ![t] = @ \ {c}]
  BY DEF SignalOther
<1>2. /\ stage[t] = "signal" /\ c \in Threads
      /\ stage' = stage /\ counter' = counter /\ cpc' = cpc /\ pc' = pc
      /\ left'[t] = left[t] \ {c}
      /\ \A u \in Threads \ {t} : left'[u] = left[u] /\ left[u] = {}
  BY <1>1, OwnerIsAlone DEF SignalOther, SCountSignal, ChainInv, ChainTypeOK
<1>3. \A u \in Threads : u # c => count'[u] = count[u] /\ flag'[u] = flag[u]
  BY <1>1, <1>2 DEF SCountSignal, Signal, ChainInv, ChainTypeOK
<1>4. /\ count[c] \in Nat /\ count'[c] \in Nat
      /\ count[c] > 0 => count'[c] = count[c] - 1
      /\ count[c] = 0 => count'[c] = 0
      /\ count[c] > 1 => flag'[c] = flag[c]
  BY <1>1, <1>2 DEF SCountSignal, Signal, ChainInv, ChainTypeOK
<1>5. ChainTypeOK'
  <2>1. count' \in [Threads -> Nat]
    BY <1>1, <1>2 DEF SCountSignal, ChainInv, ChainTypeOK
  <2>2. flag' \in [Threads -> {"CLEAR", "WAIT"}]
    BY <1>1, <1>2 DEF SCountSignal, Signal, ChainInv, ChainTypeOK
  <2>3. left' \in [Threads -> SUBSET Threads]
    BY <1>1 DEF ChainInv, ChainTypeOK
  <2> QED
    BY <1>2, <2>1, <2>2, <2>3 DEF ChainInv, ChainTypeOK
<1>6. PlacesOK'
  BY <1>2 DEF ChainInv, PlacesOK
<1>7. WaitsOK'
  <2>1. ASSUME NEW u \in Threads,
               stage[u] = "turn" \/ cpc[u] \in {"acquire", "spin_lock"}
        PROVE  count'[u] = 0
    <3>1. count[u] = 0
      BY <2>1 DEF ChainInv, WaitsOK
    <3> QED
      BY <1>3, <1>4, <3>1
  <2>2. ASSUME NEW u \in Threads, cpc[u] \in {"release", "spin"}, flag'[u] = "CLEAR"
        PROVE  count'[u] = 0
    <3>1. flag[u] = "CLEAR" => count[u] = 0
      BY <2>2 DEF ChainInv, WaitsOK
    <3> QED
      BY <1>3, <1>4, <2>2, <3>1
  <2> QED
    BY <1>2, <2>1, <2>2 DEF WaitsOK
<1>8. ASSUME NEW u \in Threads, Active(u)
      PROVE  /\ counter <= u
             /\ count'[u] = (u - counter) + (IF Pending(u)' THEN 1 ELSE 0)
  <2>1. /\ counter <= u /\ u \in Nat /\ counter \in Nat
        /\ count[u] = (u - counter) + (IF Pending(u) THEN 1 ELSE 0)
    BY <1>8, Numbers DEF ChainInv, ChainTypeOK, TurnsOK
  <2>2. Pending(u) <=> u \in left[t]
    BY <1>2 DEF Pending
  <2>3. Pending(u)' <=> u \in left[t] \ {c}
    BY <1>2 DEF Pending
  <2>4. CASE u = c
    <3>1. u \in left[t] /\ u \notin left[t] \ {c}
      BY <2>4
    <3>2. count[u] = (u - counter) + 1
      BY <2>1, <2>2, <3>1
    <3>3. count'[u] = u - counter
      BY <1>4, <2>1, <2>4, <3>2
    <3> QED
      BY <2>1, <2>3, <3>1, <3>3
  <2>5. CASE u # c
    BY <1>3, <2>1, <2>2, <2>3, <2>5
  <2> QED
    BY <2>4, <2>5
<1>9. \A u \in Threads : stage[u] # "barrier2"
  BY <1>2, OwnerIsAlone
<1>10. \A u \in Threads : stage[u] \in {"signal", "barrier1"} =>
         u < counter \/ \A v \in Threads : stage[v] = "barrier1"
  BY DEF ChainInv, TurnsOK
<1>11. TurnsOK'
  BY <1>2, <1>8, <1>9, <1>10 DEF TurnsOK, Active
<1> QED
  BY <1>5, <1>6, <1>7, <1>11 DEF ChainInv

LEMMA FinishInv ==
  ASSUME TypeOK, MutualExclusion, ChainInv, NEW t \in Threads, Finish(t)
  PROVE  ChainInv'
<1> USE DEF Finish, To, condVars
<1>1. /\ stage[t] = "signal" /\ stage'[t] = "barrier1" /\ left[t] = {}
      /\ \A u \in Threads \ {t} : stage'[u] = stage[u] /\ pc'[u] = pc[u]
      /\ pc'[t] = "idle"
      /\ left' = left /\ counter' = counter
      /\ count' = count /\ cpc' = cpc /\ flag' = flag
  BY DEF ChainInv, ChainTypeOK, TypeOK, Release, Goto
<1>2. cpc[t] = "out"
  BY <1>1 DEF ChainInv, PlacesOK, ChainTypeOK
<1>3. ChainTypeOK'
  BY DEF ChainInv, ChainTypeOK
<1>4. PlacesOK'
  BY <1>1, <1>2, OwnerIsAlone DEF ChainInv, PlacesOK
<1>5. WaitsOK'
  BY <1>1 DEF ChainInv, WaitsOK
<1>6. \A u \in Threads : (Active(u)' => Active(u)) /\ (Pending(u)' <=> Pending(u))
  BY <1>1 DEF Active, Pending
<1>7. \A u \in Threads : stage[u] \in {"signal", "barrier1"} => u < counter
  BY <1>1 DEF ChainInv, TurnsOK
<1>8. TurnsOK'
  BY <1>1, <1>6, <1>7, OwnerIsAlone DEF ChainInv, TurnsOK
<1> QED
  BY <1>3, <1>4, <1>5, <1>8 DEF ChainInv

LEMMA ChainStepInv ==
  TypeOK /\ MutualExclusion /\ ChainInv /\ [ChainNext]_allVars => ChainInv'
<1> SUFFICES ASSUME TypeOK, MutualExclusion, ChainInv, [ChainNext]_allVars
             PROVE  ChainInv'
  OBVIOUS
<1>1. CASE Barriers
  BY <1>1, BarriersInv
<1>2. ASSUME NEW t \in Threads, Setup(t) PROVE ChainInv'
  BY <1>2, SetupInv
<1>3. ASSUME NEW t \in Threads, Await(t) \/ AwaitStep(t) PROVE ChainInv'
  BY <1>3, AwaitInv
<1>4. ASSUME NEW t \in Threads, TakeTurn(t) PROVE ChainInv'
  BY <1>4, TakeTurnInv
<1>5. ASSUME NEW t \in Threads, SignalOther(t) PROVE ChainInv'
  BY <1>5, SignalInv
<1>6. ASSUME NEW t \in Threads, Finish(t) PROVE ChainInv'
  BY <1>6, FinishInv
<1>7. ASSUME NEW t \in Threads, Acquire(t) \/ Try(t) \/ Leave(t)
      PROVE  ChainInv'
  <2>1. PICK label \in {"spin", "try_serving", "idle"} : Goto(t, label)
    BY <1>7 DEF Acquire, Try, Leave, AcquireFetchAdd, TryLoadNext, Release
  <2>2. /\ stage[t] = "run" /\ cpc[t] = "out"
        /\ UNCHANGED condVars /\ UNCHANGED chainVars
    BY <1>7 DEF Acquire, Try, Leave, Outside
  <2> QED
    BY <2>1, <2>2, FreeUse
<1>8. ASSUME NEW t \in Threads, LockStep(t) PROVE ChainInv'
  <2>1. PICK label : Goto(t, label)
    BY <1>8 DEF LockStep, AcquireSpin, TryLoadServing, TryCAS
  <2>2. cpc[t] = "out" /\ UNCHANGED condVars /\ UNCHANGED chainVars
    BY <1>8 DEF LockStep, Outside
  <2>3. pc[t] \notin {"idle", "cs"}
    BY <1>8 DEF LockStep, AcquireSpin, TryLoadServing, TryCAS
  <2>4. stage[t] = "run"
    BY <2>2, <2>3 DEF ChainInv, ChainTypeOK, PlacesOK
  <2> QED
    BY <2>1, <2>2, <2>4, FreeUse
<1>9. ASSUME UNCHANGED condVars, UNCHANGED chainVars, UNCHANGED pc PROVE ChainInv'
  BY <1>9 DEF condVars, chainVars, ChainInv, ChainTypeOK, PlacesOK, WaitsOK,
              TurnsOK, Active, Pending
<1>10. ASSUME NEW t \in Threads, Ask(t) PROVE ChainInv'
  BY <1>9, <1>10 DEF Ask, Outside, Nowaiters
<1>11. CASE UNCHANGED allVars
  BY <1>9, <1>11 DEF allVars, vars
<1> QED
  BY <1>1, <1>2, <1>3, <1>4, <1>5, <1>6, <1>7, <1>8, <1>10, <1>11
  DEF ChainNext, Round
-----------------------------------------------------------------------------
(* The counts say how many turns each thread has to wait for.              *)
THEOREM ChainInvariance == ChainSpec => []ChainInv
<1>1. IInv => TypeOK /\ MutualExclusion
  BY DEF IInv, LineOK, MutualExclusion
<1> QED
  BY <1>1, ChainInitInv, ChainStepInv, ChainUsesTicket, Invariance, PTL
  DEF ChainSpec

(* The turns come in the order of the threads' numbers, for every number   *)
(* of threads, whoever uses the lock between a signal and the wake-up: the *)
(* test's assertion never aborts.                                          *)
THEOREM TurnsComeInOrder == ChainSpec => []TurnsInOrder
<1>1. IInv /\ ChainInv => TurnsInOrder
  <2> SUFFICES ASSUME IInv, ChainInv, NEW t \in Threads, stage[t] = "turn"
               PROVE  counter = t
    BY DEF TurnsInOrder
  <2>1. ~Pending(t)
    <3>1. TypeOK /\ MutualExclusion
      BY DEF IInv, LineOK, MutualExclusion
    <3>2. \A u \in Threads : left[u] = {}
      BY <3>1, OwnerIsAlone DEF ChainInv, PlacesOK
    <3> QED
      BY <3>2 DEF Pending
  <2>2. Active(t) /\ count[t] = 0
    BY DEF Active, ChainInv, WaitsOK
  <2> QED
    BY <2>1, <2>2, Numbers DEF ChainInv, ChainTypeOK, TurnsOK
<1> QED
  BY <1>1, ChainInvariance, ChainUsesTicket, Invariance, PTL

(* Counted conditions never let two threads own the lock at once: a waiter *)
(* gives it back and comes back to the end of its line.                    *)
THEOREM ChainExclusion == ChainSpec => []MutualExclusion
BY ChainUsesTicket, Exclusion, PTL
=============================================================================
