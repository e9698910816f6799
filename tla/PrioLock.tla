------------------------------ MODULE PrioLock ------------------------------
(***************************************************************************)
(* The two-level priority protocol of lock/zm_tlp.c, which lock/zm_mcsp.c  *)
(* spells out again for MCS locks: a FIFO lock high_p for the threads that *)
(* call zm_tlp_acquire, another, low_p, for those that call                *)
(* zm_tlp_acquire_low, and a ticket lock, filter, for which the owner of   *)
(* one competes with the owner of the other.  A high-priority owner that   *)
(* sees a high-priority waiter keeps the filter for it, by leaving         *)
(* go_straight set.                                                        *)
(*                                                                         *)
(* high_p and low_p are FifoLocks, which Ticket and MCS implement; their   *)
(* nowaiters may overlook a waiter that has not linked itself yet (MCS)    *)
(* but never invents one.  The filter is passed from thread to thread, so  *)
(* it keeps the counters of Ticket: a ticket is released by whoever calls  *)
(* zm_ticket_release.  go_straight and low_p_acq are plain ints.           *)
(***************************************************************************)
EXTENDS Priority, Integers, Sequences

CONSTANT
  M         \* the number of values of the filter's counters

(* At most one ticket of each side is ever drawn; Nowaiters needs none.    *)
ASSUME PrioLockAssumption == M \in Nat /\ M > 2

VARIABLES
  hq, hown,                \* high_p
  lq, lown,                \* low_p
  fnext, fnow,             \* filter.next_ticket, filter.now_serving
  my_ticket                \* each thread's last ticket of the filter

locks == <<hq, hown, lq, lown>>
filter == <<fnext, fnow, my_ticket>>
vars == <<locks, filter, flags, pc>>

High == INSTANCE FifoLock WITH queue <- hq, holders <- hown
Low == INSTANCE FifoLock WITH queue <- lq, holders <- lown

Inc(n) == (n + 1) % M

Init ==
  /\ High!Init
  /\ Low!Init
  /\ fnext = 0 /\ fnow = 0
  /\ my_ticket = [t \in Threads |-> 0]
  /\ go_straight = 0 /\ low_p_acq = 0
  /\ pc = [t \in Threads |-> "idle"]
-----------------------------------------------------------------------------
(* zm_tlp_acquire: the high-priority lock... *)
HighEnter(t) ==
  /\ At(t, "idle", "h_wait")
  /\ High!Enter(t)
  /\ UNCHANGED <<lq, lown, filter, flags>>

HighGrant(t) ==
  /\ At(t, "h_wait", "h_test")
  /\ High!Grant(t)
  /\ UNCHANGED <<lq, lown, filter, flags>>

(* ...go_straight ignored: every owner queues for the filter... *)
HighTestIgnored(t) ==
  /\ pc[t] = "h_test"
  /\ Goto(t, "h_draw")
  /\ UNCHANGED <<locks, filter, flags>>

(* ...which a predecessor may have kept for us... *)
HighTest(t) ==
  /\ pc[t] = "h_test"
  /\ Goto(t, IF go_straight = 1 THEN "h_cs" ELSE "h_draw")
  /\ UNCHANGED <<locks, filter, flags>>

(* The fetch_add and the end of the spin of zm_ticket_acquire. *)
Draw(t) ==
  /\ my_ticket' = [my_ticket EXCEPT ![t] = fnext]
  /\ fnext' = Inc(fnext)
  /\ UNCHANGED <<fnow, locks, flags>>

Served(t) == my_ticket[t] = fnow

HighDraw(t) == At(t, "h_draw", "h_filter") /\ Draw(t)

(* ...and go_straight = 1 once the filter is ours. *)
HighServed(t) ==
  /\ At(t, "h_filter", "h_set")
  /\ Served(t)
  /\ UNCHANGED <<locks, filter, flags>>

HighSet(t) ==
  /\ At(t, "h_set", "h_cs")
  /\ go_straight' = 1
  /\ UNCHANGED <<locks, filter, low_p_acq>>
-----------------------------------------------------------------------------
(* zm_tlp_acquire_low *)
LowEnter(t) ==
  /\ At(t, "idle", "l_wait")
  /\ Low!Enter(t)
  /\ UNCHANGED <<hq, hown, filter, flags>>

(* The low-priority lock forgotten: every low-priority thread competes for *)
(* the filter by itself.                                                   *)
LowGrantAnyway(t) ==
  /\ At(t, "l_wait", "l_draw")
  /\ UNCHANGED <<locks, filter, flags>>

LowGrant(t) ==
  /\ At(t, "l_wait", "l_draw")
  /\ Low!Grant(t)
  /\ UNCHANGED <<hq, hown, filter, flags>>

LowDraw(t) == At(t, "l_draw", "l_filter") /\ Draw(t)

LowServed(t) ==
  /\ At(t, "l_filter", "l_set")
  /\ Served(t)
  /\ UNCHANGED <<locks, filter, flags>>

LowSet(t) ==
  /\ At(t, "l_set", "l_cs")
  /\ low_p_acq' = 1
  /\ UNCHANGED <<locks, filter, go_straight>>
-----------------------------------------------------------------------------
(* zm_tlp_release: low_p_acq tells which side the caller is on. *)
RelTest(t) ==
  /\ pc[t] \in {"h_cs", "l_cs"}
  /\ Goto(t, IF low_p_acq = 0 THEN "rh_nowaiters" ELSE "rl_clear")
  /\ UNCHANGED <<locks, filter, flags>>

(* zm_tlp_nowaiters_high_p, which sees no waiter that is not there. *)
RelNowaitersBlind(t) ==
  /\ pc[t] = "rh_nowaiters"
  /\ \/ Goto(t, "rh_clear")
     \/ Goto(t, "rh_high")
  /\ UNCHANGED <<locks, filter, flags>>

RelNowaiters(t) ==
  /\ pc[t] = "rh_nowaiters"
  /\ \/ Goto(t, "rh_clear")
     \/ Len(hq) > 1 /\ Goto(t, "rh_high")
  /\ UNCHANGED <<locks, filter, flags>>

(* go_straight left set when the filter is given up. *)
RelHighClearForgotten(t) ==
  /\ At(t, "rh_clear", "rh_ticket")
  /\ UNCHANGED <<locks, filter, flags>>

RelHighClear(t) ==
  /\ At(t, "rh_clear", "rh_ticket")
  /\ go_straight' = 0
  /\ UNCHANGED <<locks, filter, low_p_acq>>

(* zm_ticket_release *)
RelTicket(t) ==
  /\ \/ At(t, "rh_ticket", "rh_high")
     \/ At(t, "rl_ticket", "rl_low")
  /\ fnow' = Inc(fnow)
  /\ UNCHANGED <<locks, flags, fnext, my_ticket>>

RelHigh(t) ==
  /\ At(t, "rh_high", "idle")
  /\ High!Leave(t)
  /\ UNCHANGED <<lq, lown, filter, flags>>

RelLowClear(t) ==
  /\ At(t, "rl_clear", "rl_ticket")
  /\ low_p_acq' = 0
  /\ UNCHANGED <<locks, filter, go_straight>>

RelLow(t) ==
  /\ At(t, "rl_low", "idle")
  /\ Low!Leave(t)
  /\ UNCHANGED <<hq, hown, filter, flags>>
-----------------------------------------------------------------------------
Acquire(t) ==
  \/ HighGrant(t) \/ HighTest(t) \/ HighDraw(t) \/ HighServed(t) \/ HighSet(t)
  \/ LowGrant(t) \/ LowDraw(t) \/ LowServed(t) \/ LowSet(t)

(* The two stores of a low-priority release in the other order. *)
ReleaseTicketFirst(t) ==
  \/ /\ pc[t] \in {"h_cs", "l_cs"}
     /\ Goto(t, IF low_p_acq = 0 THEN "rh_nowaiters" ELSE "rl_ticket")
     /\ UNCHANGED <<locks, filter, flags>>
  \/ /\ At(t, "rh_ticket", "rh_high") \/ At(t, "rl_ticket", "rl_clear")
     /\ fnow' = Inc(fnow)
     /\ UNCHANGED <<locks, flags, fnext, my_ticket>>
  \/ /\ At(t, "rl_clear", "rl_low")
     /\ low_p_acq' = 0
     /\ UNCHANGED <<locks, filter, go_straight>>
  \/ RelNowaiters(t) \/ RelHighClear(t) \/ RelHigh(t) \/ RelLow(t)

Release(t) ==
  \/ RelTest(t) \/ RelNowaiters(t) \/ RelHighClear(t) \/ RelTicket(t)
  \/ RelHigh(t) \/ RelLowClear(t) \/ RelLow(t)

Next ==
  \E t \in Threads : HighEnter(t) \/ LowEnter(t) \/ Acquire(t) \/ Release(t)

Spec == Init /\ [][Next]_vars

(* A thread inside zm_tlp_acquire, _acquire_low or _release keeps running, *)
(* and an owner eventually releases.                                       *)
FairSpec == Spec /\ \A t \in Threads : WF_vars(Acquire(t) \/ Release(t))
-----------------------------------------------------------------------------
HighLabels == {"h_wait", "h_test", "h_draw", "h_filter", "h_set", "h_cs",
               "rh_nowaiters", "rh_clear", "rh_ticket", "rh_high"}
LowLabels == {"l_wait", "l_draw", "l_filter", "l_set", "l_cs",
              "rl_clear", "rl_ticket", "rl_low"}

TypeOK ==
  /\ hq \in Seq(Threads) /\ hown \subseteq Threads
  /\ lq \in Seq(Threads) /\ lown \subseteq Threads
  /\ fnext \in 0..M-1 /\ fnow \in 0..M-1
  /\ my_ticket \in [Threads -> 0..M-1]
  /\ go_straight \in {0, 1} /\ low_p_acq \in {0, 1}
  /\ pc \in [Threads -> {"idle"} \cup HighLabels \cup LowLabels]

(* Two threads, of whichever priority, never own the lock at once.         *)
MutualExclusion ==
  \A s, t \in Threads :
    pc[s] \in {"h_cs", "l_cs"} /\ pc[t] \in {"h_cs", "l_cs"} => s = t

(* The plain ints go_straight and low_p_acq are never accessed by two      *)
(* threads at once, one of them writing: the locks order the accesses, so  *)
(* they need not be atomic, and no variable leaves its type.  A thread at  *)
(* "h_cs" or "l_cs" may be about to read low_p_acq.                        *)
FlagsProtected ==
  /\ TypeOK
  /\ \A s, t \in Threads : s # t =>
       /\ pc[s] \in {"h_set", "rh_clear"} =>
            pc[t] \notin {"h_test", "h_set", "rh_clear"}
       /\ pc[s] \in {"l_set", "rl_clear"} =>
            pc[t] \notin {"h_cs", "l_cs", "l_set", "rl_clear"}

(* Priority: a thread that queues for the filter has at most one ticket    *)
(* before its own, so a high-priority owner of high_p is overtaken by at   *)
(* most one low-priority critical section.                                 *)
AtMostOneAhead ==
  \A t \in Threads :
    pc[t] \in {"h_filter", "l_filter"} => (my_ticket[t] - fnow) % M <= 1

(* While the filter is kept for the high-priority threads, no low-priority *)
(* thread is served.                                                       *)
ChainExcludesLow ==
  go_straight = 1 =>
    \A t \in Threads : pc[t] \notin {"l_set", "l_cs", "rl_clear", "rl_ticket"}

(* A high-priority acquisition is never starved, by either side.           *)
HighStarvationFree ==
  \A t \in Threads : pc[t] = "h_wait" ~> pc[t] = "h_cs"

(* A low-priority acquisition can be starved only by an endless relay of   *)
(* high-priority owners: if high_p is free again and again, it ends.       *)
LowProgress ==
  []<>(hq = << >>) => \A t \in Threads : pc[t] = "l_wait" ~> pc[t] = "l_cs"
-----------------------------------------------------------------------------
(* The inductive invariant.  Who owns which lock is in the labels...       *)
HighOwner == HighLabels \ {"h_wait"}
LowOwner == LowLabels \ {"l_wait"}

OwnersOK ==
  /\ \A t \in Threads : pc[t] \in HighOwner <=> t \in hown
  /\ \A t \in Threads : pc[t] \in LowOwner <=> t \in lown
  /\ \A s, t \in hown : s = t
  /\ \A s, t \in lown : s = t

(* ...the flags tell whether the filter is kept for the high side, and     *)
(* whether the low one is in...                                            *)
FlagsOK ==
  /\ \A t \in Threads :
       /\ pc[t] \in {"h_cs", "rh_nowaiters", "rh_clear"} => go_straight = 1
       /\ pc[t] \in {"h_draw", "h_filter", "h_set", "rh_ticket"} => go_straight = 0
  /\ low_p_acq = 1 <=> \E t \in Threads : pc[t] \in {"l_cs", "rl_clear"}

HighHas == go_straight = 1 \/ \E t \in Threads : pc[t] \in {"h_set", "rh_ticket"}
LowHas == \E t \in Threads : pc[t] \in {"l_set", "l_cs", "rl_clear", "rl_ticket"}
HighWants == \E t \in Threads : pc[t] = "h_filter"
LowWants == \E t \in Threads : pc[t] = "l_filter"

(* ...and each side has at most one ticket of the filter: the one it holds *)
(* the filter with, whichever of its threads drew it, or one it waits      *)
(* with, next or behind the other side.                                    *)
FilterOK ==
  /\ ~ (HighHas /\ LowHas)
  /\ fnext = IF (HighHas \/ HighWants) /\ (LowHas \/ LowWants) THEN Inc(Inc(fnow))
             ELSE IF HighHas \/ HighWants \/ LowHas \/ LowWants THEN Inc(fnow)
             ELSE fnow
  /\ \A t \in Threads : pc[t] = "h_filter" =>
       /\ my_ticket[t] \in {fnow, Inc(fnow)}
       /\ LowHas => my_ticket[t] = Inc(fnow)
       /\ my_ticket[t] = Inc(fnow) => LowHas \/ LowWants
  /\ \A t \in Threads : pc[t] = "l_filter" =>
       /\ my_ticket[t] \in {fnow, Inc(fnow)}
       /\ HighHas => my_ticket[t] = Inc(fnow)
       /\ my_ticket[t] = Inc(fnow) => HighHas \/ HighWants
  /\ \A s, t \in Threads :
       pc[s] = "h_filter" /\ pc[t] = "l_filter" => my_ticket[s] # my_ticket[t]

IInv == TypeOK /\ OwnersOK /\ FlagsOK /\ FilterOK
=============================================================================
