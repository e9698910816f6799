------------------------------- MODULE Ticket -------------------------------
(***************************************************************************)
(* The ticket lock of lock/zm_ticket.c.  Every atomic instruction is one   *)
(* step; the spin loop of zm_ticket_acquire is the action that leaves it.  *)
(* The counters are C unsigned integers, so they live in 0..M-1 (M is 2^32 *)
(* in the code, a small number in the runs).                               *)
(*                                                                         *)
(* queue and since are history variables: queue lists the threads that     *)
(* hold a ticket in the order they drew it, since[t] counts the tickets    *)
(* drawn after t, inside zm_ticket_tryacq, loaded next_ticket.             *)
(***************************************************************************)
EXTENDS Integers, Sequences, FiniteSets

CONSTANTS
  Threads,  \* the threads that share the lock
  M         \* the number of values of an unsigned counter

(* The counters can tell all the threads apart, and a full line of waiters *)
(* from an empty one as long as one thread is not in it.                   *)
ASSUME TicketAssumption ==
  /\ IsFiniteSet(Threads)
  /\ M \in Nat \ {0, 1}
  /\ Cardinality(Threads) <= M

VARIABLES
  next_ticket, now_serving,  \* zm_ticket_t
  pc,                        \* where each thread is
  my_ticket,                 \* the local of zm_ticket_acquire and _tryacq
  answer,                    \* the holder's last zm_ticket_nowaiters
  queue, since               \* history

vars == <<next_ticket, now_serving, pc, my_ticket, answer, queue, since>>

Counter == 0 .. M-1
Inc(n) == (n + 1) % M

Trying == {"try_serving", "try_cas"}
Answers == {"none", "alone", "waiters"}

Init ==
  /\ next_ticket = 0
  /\ now_serving = 0
  /\ pc = [t \in Threads |-> "idle"]
  /\ my_ticket = [t \in Threads |-> 0]
  /\ answer = [t \in Threads |-> "none"]
  /\ queue = << >>
  /\ since = [t \in Threads |-> 0]

Goto(t, label) == pc' = [pc EXCEPT ![t] = label]

(***************************************************************************)
(* Drawing ticket next_ticket.  NoFullLap is the assumption under which    *)
(* zm_ticket_tryacq is correct: while a thread is between its load of      *)
(* next_ticket and its compare-and-swap, the others draw fewer than M      *)
(* tickets (fewer than 2^32 in the code).                                  *)
(***************************************************************************)
NoFullLap(t) == \A u \in Threads \ {t} : pc[u] \in Trying => since[u] < M-1

Draw(t) ==
  /\ NoFullLap(t)
  /\ next_ticket' = Inc(next_ticket)
  /\ queue' = Append(queue, t)
  /\ since' = [u \in Threads |->
                 IF u # t /\ pc[u] \in Trying THEN since[u] + 1 ELSE 0]

(* zm_ticket_acquire: the fetch_add, whose old value is the ticket. *)
AcquireFetchAdd(t) ==
  /\ pc[t] = "idle"
  /\ my_ticket' = [my_ticket EXCEPT ![t] = next_ticket]
  /\ Draw(t)
  /\ Goto(t, "spin")
  /\ UNCHANGED <<now_serving, answer>>

(* A waiter that compares counters by magnitude, as if they never wrapped. *)
AcquireSpinByMagnitude(t) ==
  /\ pc[t] = "spin"
  /\ now_serving >= my_ticket[t]
  /\ Goto(t, "cs")
  /\ UNCHANGED <<next_ticket, now_serving, my_ticket, answer, queue, since>>

(* The exit of the spin loop. *)
AcquireSpin(t) ==
  /\ pc[t] = "spin"
  /\ now_serving = my_ticket[t]
  /\ Goto(t, "cs")
  /\ UNCHANGED <<next_ticket, now_serving, my_ticket, answer, queue, since>>

(* zm_ticket_tryacq: the load of next_ticket. *)
TryLoadNext(t) ==
  /\ pc[t] = "idle"
  /\ my_ticket' = [my_ticket EXCEPT ![t] = next_ticket]
  /\ since' = [since EXCEPT ![t] = 0]
  /\ Goto(t, "try_serving")
  /\ UNCHANGED <<next_ticket, now_serving, answer, queue>>

(* The comparison forgotten: the compare-and-swap alone decides. *)
TryLoadServingNoTest(t) ==
  /\ pc[t] = "try_serving"
  /\ Goto(t, "try_cas")
  /\ UNCHANGED <<next_ticket, now_serving, my_ticket, answer, queue, since>>

(* The load of now_serving and the comparison with the ticket. *)
TryLoadServing(t) ==
  /\ pc[t] = "try_serving"
  /\ Goto(t, IF my_ticket[t] = now_serving THEN "try_cas" ELSE "idle")
  /\ UNCHANGED <<next_ticket, now_serving, my_ticket, answer, queue, since>>

(* The weak compare-and-swap, which may fail for no reason. *)
TryCASWeak(t) ==
  /\ pc[t] = "try_cas"
  /\ \/ /\ next_ticket = my_ticket[t]
        /\ Draw(t)
        /\ Goto(t, "cs")
     \/ /\ Goto(t, "idle")
        /\ UNCHANGED <<next_ticket, queue, since>>
  /\ UNCHANGED <<now_serving, my_ticket, answer>>

(* The strong compare-and-swap: it takes the ticket or gives up. *)
TryCAS(t) ==
  /\ pc[t] = "try_cas"
  /\ \/ /\ next_ticket = my_ticket[t]
        /\ Draw(t)
        /\ Goto(t, "cs")
     \/ /\ next_ticket # my_ticket[t]
        /\ Goto(t, "idle")
        /\ UNCHANGED <<next_ticket, queue, since>>
  /\ UNCHANGED <<now_serving, my_ticket, answer>>

(* zm_ticket_release *)
Release(t) ==
  /\ pc[t] = "cs"
  /\ now_serving' = Inc(now_serving)
  /\ queue' = Tail(queue)
  /\ answer' = [answer EXCEPT ![t] = "none"]
  /\ Goto(t, "idle")
  /\ UNCHANGED <<next_ticket, my_ticket, since>>

(* The test of zm_ticket_nowaiters, an unsigned subtraction. *)
Alone == (next_ticket - now_serving) % M = 1

(***************************************************************************)
(* zm_ticket_nowaiters, which only the owner calls (zm_mcsp.c and zm_tlp.c *)
(* call it while releasing).  Nobody else writes now_serving, so its two   *)
(* loads, in the order the compiler picks, are as one at the load of       *)
(* next_ticket.                                                            *)
(***************************************************************************)
Nowaiters(t) ==
  /\ pc[t] = "cs"
  /\ answer' = [answer EXCEPT ![t] = IF Alone THEN "alone" ELSE "waiters"]
  /\ UNCHANGED <<next_ticket, now_serving, pc, my_ticket, queue, since>>

Next ==
  \E t \in Threads :
    \/ AcquireFetchAdd(t) \/ AcquireSpin(t)
    \/ TryLoadNext(t) \/ TryLoadServing(t) \/ TryCAS(t)
    \/ Release(t) \/ Nowaiters(t)

Spec == Init /\ [][Next]_vars

(* A thread inside an operation keeps running, and the caller of a lock    *)
(* eventually releases it; nobody is obliged to start an operation.        *)
Progress(t) ==
  AcquireSpin(t) \/ TryLoadServing(t) \/ TryCAS(t) \/ Release(t)

FairSpec == Spec /\ \A t \in Threads : WF_vars(Progress(t))
-----------------------------------------------------------------------------
(* Every variable stays in its type: the counters never leave the range    *)
(* of an unsigned integer.                                                 *)
TypeOK ==
  /\ next_ticket \in Counter
  /\ now_serving \in Counter
  /\ pc \in [Threads -> {"idle", "spin", "cs"} \cup Trying]
  /\ my_ticket \in [Threads -> Counter]
  /\ answer \in [Threads -> Answers]
  /\ queue \in Seq(Threads)
  /\ since \in [Threads -> Counter]

(* Two threads are never both past zm_ticket_acquire or a successful       *)
(* zm_ticket_tryacq, even when the counters wrap around.                   *)
MutualExclusion ==
  \A s, t \in Threads : pc[s] = "cs" /\ pc[t] = "cs" => s = t

(* The tickets held are consecutive from now_serving on, modulo M, in the  *)
(* order they were drawn, and next_ticket follows the last of them.        *)
TicketOrder ==
  /\ \A i \in 1..Len(queue) :
       my_ticket[queue[i]] = (now_serving + (i - 1)) % M
  /\ next_ticket = (now_serving + Len(queue)) % M

(* A thread holds a ticket exactly while it is in line, once, and only the *)
(* first in line is inside the critical section.                           *)
LineOK ==
  /\ \A i, j \in 1..Len(queue) : queue[i] = queue[j] => i = j
  /\ \A t \in Threads :
       pc[t] \in {"spin", "cs"} <=> \E i \in 1..Len(queue) : queue[i] = t
  /\ \A t \in Threads : pc[t] = "cs" => Len(queue) > 0 /\ queue[1] = t

(* The ticket that zm_ticket_tryacq loaded is since[t] draws old; if none  *)
(* was drawn since and now_serving was equal to it, the line is empty.     *)
TryOK ==
  \A t \in Threads :
    /\ pc[t] \in Trying => next_ticket = (my_ticket[t] + since[t]) % M
    /\ pc[t] = "try_cas" /\ since[t] = 0 => queue = << >>

AnswerOK ==
  \A t \in Threads : answer[t] # "none" => pc[t] = "cs"

(* A zm_ticket_nowaiters that answers 0 to the owner stays right until the *)
(* release: a waiter never leaves the line.                                *)
WaitersStay ==
  \A t \in Threads : answer[t] = "waiters" => Len(queue) >= 2

(* The inductive invariant of the ticket lock: mutual exclusion rests on   *)
(* the tickets in line being consecutive modulo M and on what a            *)
(* zm_ticket_tryacq in flight knows of the counters.                       *)
IInv == TypeOK /\ LineOK /\ TicketOrder /\ TryOK /\ AnswerOK /\ WaitersStay

(* zm_ticket_tryacq fails only if the lock was held at some instant of the *)
(* call: it is held now, or a ticket was drawn since the call began.       *)
TryFailsOnlyIfHeld ==
  [][\A t \in Threads :
       pc[t] \in Trying /\ pc'[t] = "idle" =>
         queue # << >> \/ since[t] > 0]_vars

(* The ticket lock is a FIFO lock: threads are granted the lock in the     *)
(* order of their fetch_add, one at a time.                                *)
FIFO == INSTANCE FifoLock WITH
          holders <- {t \in Threads : pc[t] = "cs"}

FifoOrder == FIFO!Spec

(* A thread that drew a ticket enters its critical section, whatever the   *)
(* others do, if owners release.                                           *)
StarvationFree ==
  \A t \in Threads : pc[t] = "spin" ~> pc[t] = "cs"
=============================================================================
