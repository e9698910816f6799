--------------------------- MODULE PriorityProofs ---------------------------
(***************************************************************************)
(* The two priority locks that are built from other synchronization.       *)
(*                                                                         *)
(* First, what the list of zm_hmpr does for every number of threads, when  *)
(* its lock is static: znode begins with ZM_WAIT, and never gets into the  *)
(* line.                                                                   *)
(*                                                                         *)
(* The argument is about the nodes ever inserted, in the order in which    *)
(* they were: the node at place k is f[k].  b nodes were inserted, those   *)
(* before place a left, and the line is f[a], ..., f[b - 1].  A thread t   *)
(* inside wake came from place lo[t] and has passed the nodes up to that   *)
(* at hi[t]; on its way back hi[t] goes down to lo[t] again.               *)
(*                                                                         *)
(* Then what the two-level protocol of zm_tlp and zm_mcsp does for every   *)
(* number of threads and every width of the filter's counters.             *)
(***************************************************************************)
EXTENDS PrioLock, HMPR, TLAPS

Forward == {"k_next", "k_cas", "k_check", "k_turn"}
Back == {"k_rev", "k_revnext"}
End == {"k_tail", "k_wait", "k_grant"}
Wakes == Forward \cup Back \cup End \cup {"k_recycle", "k_clear"}

(* t moves the line on: it has not woken anybody yet. *)
Leads(t) ==
  \/ wpc[t] \in Forward \cup End
  \/ wpc[t] \in Back \cup {"k_recycle"} /\ succ[t] = NULL

(* Where a thread is in an operation of the list, by where it is in one of *)
(* the lock.                                                               *)
PlaceOK(t) ==
  /\ pc[t] \in {"idle", "h_lock", "cs", "raise"} => wpc[t] = "out"
  /\ pc[t] = "h_enq" => wpc[t] \in {"e_status", "out"}
  /\ pc[t] = "r_high" => wpc[t] \in {"k_try", "out"}
  /\ pc[t] = "l_wait" =>
       wpc[t] \in {"e_status", "e_next", "e_swap", "e_wake", "e_link", "w_spin", "out"}
  /\ pc[t] = "r_low" => wpc[t] \in Wakes \cup {"k_try", "out"}
  /\ wpc[t] # "out" => node[t] = IF pc[t] \in {"h_enq", "r_high"} THEN znode ELSE t
  /\ waits[t] <=> pc[t] = "l_wait" /\ wpc[t] # "out"
  /\ wpc[t] \in {"out", "k_try"} => pred[t] = NULL /\ succ[t] = NULL
  /\ pc[t] \in {"h_enq", "cs", "raise", "r_high"} => owner = t
  /\ pc[t] = "raise" => target[t] \in Threads

(* What its node may contain there. *)
NodeOK(t) ==
  /\ pc[t] \in {"idle", "h_lock", "h_enq", "r_high"} => status[t] = "RECYCLE"
  /\ pc[t] \in {"cs", "raise"} =>
       status[t] = "RECYCLE" \/ (status[t] = "WAKE" /\ low_p_acq = 1)
  /\ pc[t] = "l_wait" /\ wpc[t] = "e_status" => status[t] = "RECYCLE"
  /\ wpc[t] \in {"e_next", "e_swap", "e_wake", "e_link"} => status[t] \in {"WAIT", "SKIP"}
  /\ pc[t] = "l_wait" /\ wpc[t] = "out" => status[t] \in {"WAKE", "RECYCLE"}
  /\ pc[t] = "r_low" => status[t] = "RECYCLE" \/ (status[t] = "WAKE" /\ wpc[t] = "k_try")
  /\ status[t] \in {"SKIP", "CHECK"} => p[t] = 0
  /\ wpc[t] = "e_swap" => next[t] = NULL

(* A thread that was passed, and will never again be one of low priority.  *)
Gone(n) ==
  /\ n \in Threads
  /\ status[n] = "RECYCLE" /\ p[n] = 0
  /\ wpc[n] \notin Wakes /\ ~ (wpc[n] = "e_status" /\ waits[n])
Passed(n) == n \in Threads /\ (status[n] = "CHECK" \/ Gone(n))

(* Behind the first node are those of threads in wait, each linked to the  *)
(* one before it or about to be.                                           *)
Linking(k, f) ==
  wpc[f[k]] = "e_link" /\ pred[f[k]] = f[k - 1] /\ next[f[k - 1]] = NULL
Linked(k, f, a) ==
  /\ wpc[f[k]] = "w_spin" /\ next[f[k - 1]] = f[k]
  /\ \/ status[f[k]] \in {"WAIT", "SKIP"}
     \/ k = a + 1 /\ status[f[k]] = "CHECK" /\ \E t \in Threads : wpc[t] = "k_turn"
InLine(t) == wpc[t] = "e_link" \/ (wpc[t] = "w_spin" /\ status[t] \in {"WAIT", "SKIP"})

LineOK(f, a, b) ==
  /\ a <= b
  /\ \A k \in 0..b-1 : f[k] \in Threads
  /\ lock = IF a = b THEN NULL ELSE f[b - 1]
  /\ \A j, k \in a..b-1 : f[j] = f[k] => j = k
  /\ \A k \in a+1..b-1 : Linking(k, f) \/ Linked(k, f, a)
  /\ a < b => next[f[b - 1]] = NULL
  /\ \A t \in Threads : InLine(t) => \E k \in a+1..b-1 : f[k] = t

(* The first node has WAKE or is about to, or one thread is moving the     *)
(* line on from there.                                                     *)
TokenOK(f, a, b) ==
  /\ a < b => \/ status[f[a]] = "WAKE" \/ wpc[f[a]] = "e_wake"
              \/ \E t \in Threads : Leads(t)
  /\ \A t \in Threads : status[t] = "WAKE" \/ wpc[t] = "e_wake" => a < b /\ t = f[a]
  /\ \A t \in Threads : Leads(t) => a < b /\ cur[t] = f[a]
  /\ \A t, u \in Threads : Leads(t) /\ Leads(u) => t = u

(* A thread inside wake: its way back, what it has just examined, and what *)
(* it is about to do to the next node.                                     *)
TrailOK(t, f, a, b, lo, hi) ==
  /\ lo[t] <= hi[t] /\ hi[t] <= a /\ hi[t] < b
  /\ f[lo[t]] = t
  /\ pred[t] = IF hi[t] = lo[t] THEN NULL ELSE f[hi[t] - 1]
  /\ hi[t] > lo[t] => next[t] = NULL
  /\ \A k \in lo[t]+1..hi[t] : Passed(f[k]) /\ \A j \in a..b-1 : f[j] = f[k] => j = k
  /\ \A k \in lo[t]+1..hi[t]-1 : next[f[k]] = f[k - 1]
PointOK(t, f, a, b, lo, hi) ==
  /\ wpc[t] \in Forward \cup {"k_recycle"} =>
       cur[t] = f[hi[t]] /\ (hi[t] = a <=> Leads(t))
  /\ wpc[t] \in End => cur[t] = t \/ Gone(cur[t])
  /\ wpc[t] \in Back /\ succ[t] = NULL => Gone(cur[t])
  /\ wpc[t] \in {"k_cas", "k_check", "k_turn", "k_grant"} =>
       a + 1 < b /\ succ[t] = f[a + 1] /\ next[f[a]] = f[a + 1]
  /\ wpc[t] = "k_check" => status[succ[t]] = "SKIP"
  /\ wpc[t] = "k_turn" => status[succ[t]] = "CHECK"
  /\ wpc[t] = "k_wait" => a + 1 < b
  /\ wpc[t] \in End \cup {"k_clear"} => hi[t] = lo[t]
  /\ wpc[t] \in Back => hi[t] > lo[t]
  /\ wpc[t] = "k_revnext" => status[pred[t]] = "RECYCLE"
WakeOK(t, f, a, b, lo, hi) ==
  wpc[t] \in Wakes => TrailOK(t, f, a, b, lo, hi) /\ PointOK(t, f, a, b, lo, hi)

(* A node passed is one that some thread will come back to. *)
Owes(t, n, f, lo, hi) ==
  /\ wpc[t] \in Wakes
  /\ \/ \E k \in lo[t]+1..hi[t]-1 : n = f[k]
     \/ wpc[t] \in Forward \cup {"k_recycle"} /\ hi[t] > lo[t] /\ n = f[hi[t]]
     \/ wpc[t] = "k_turn" /\ n = succ[t]
CoverOK(f, lo, hi) ==
  \A n \in Threads : status[n] = "CHECK" => \E t \in Threads : Owes(t, n, f, lo, hi)

LocalInv ==
  /\ HMPRTypeOK /\ status[znode] = "WAIT"
  /\ \A t \in Threads : PlaceOK(t) /\ NodeOK(t)
ListInv(f, a, b, lo, hi) ==
  /\ f \in [Nat -> Nodes] /\ a \in Nat /\ b \in Nat
  /\ lo \in [Threads -> Nat] /\ hi \in [Threads -> Nat]
  /\ LineOK(f, a, b) /\ TokenOK(f, a, b) /\ CoverOK(f, lo, hi)
  /\ \A t \in Threads : WakeOK(t, f, a, b, lo, hi)
LinesOK == LocalInv /\ \E f, a, b, lo, hi : ListInv(f, a, b, lo, hi)

-----------------------------------------------------------------------------
LEMMA Names ==
  /\ Threads \subseteq Nodes /\ NULL \notin Nodes /\ NULL \notin Threads
  /\ znode \in Nodes /\ znode \notin Threads /\ Nodes = Threads \cup {znode}
BY WSkipAssumption, HMPRAssumption

(* The thread that moves the line on is at its first node. *)
LEMMA Leader ==
  ASSUME LocalInv,
         NEW f, NEW a, NEW b, NEW lo, NEW hi, ListInv(f, a, b, lo, hi),
         NEW t \in Threads, Leads(t)
  PROVE  /\ wpc[t] \in Wakes /\ pc[t] = "r_low" /\ node[t] = t /\ status[t] = "RECYCLE"
         /\ TrailOK(t, f, a, b, lo, hi) /\ PointOK(t, f, a, b, lo, hi)
         /\ a < b /\ cur[t] = f[a] /\ cur[t] \in Threads
         /\ (cur[t] = t /\ lo[t] = hi[t]) \/ Passed(cur[t])
         /\ \A u \in Threads : status[u] # "WAKE" /\ wpc[u] # "e_wake"
         /\ \A u \in Threads : u # t => ~ Leads(u)
         /\ f[a] \in Threads /\ a \in a..b-1
<1>0. /\ f \in [Nat -> Nodes] /\ a \in Nat /\ b \in Nat
      /\ lo \in [Threads -> Nat] /\ hi \in [Threads -> Nat]
  BY DEF ListInv
<1>1. wpc[t] \in Wakes
  BY DEF Leads, Wakes
<1>2. pc[t] = "r_low" /\ node[t] = t /\ status[t] = "RECYCLE"
  BY <1>1 DEF LocalInv, HMPRTypeOK, PlaceOK, NodeOK, Wakes, Forward, Back, End
<1>3. TrailOK(t, f, a, b, lo, hi) /\ PointOK(t, f, a, b, lo, hi)
  BY <1>1 DEF ListInv, WakeOK
<1>4. a < b /\ cur[t] = f[a] /\ \A u \in Threads : u # t => ~ Leads(u)
  BY DEF ListInv, TokenOK
<1>5. f[a] \in Threads /\ a \in a..b-1
  BY <1>0, <1>4 DEF ListInv, LineOK
<1>6. (cur[t] = t /\ lo[t] = hi[t]) \/ Passed(cur[t])
  <2>1. CASE wpc[t] \in Forward \cup {"k_recycle"}
    <3>1. cur[t] = f[hi[t]] /\ lo[t] <= hi[t] /\ lo[t] \in Nat /\ hi[t] \in Nat
      BY <1>0, <1>3, <2>1 DEF TrailOK, PointOK
    <3>2. CASE lo[t] = hi[t]
      BY <1>3, <3>1, <3>2 DEF TrailOK
    <3>3. CASE lo[t] < hi[t]
      BY <1>3, <3>1, <3>3 DEF TrailOK
    <3> QED
      BY <3>1, <3>2, <3>3
  <2>2. CASE wpc[t] \in End \cup Back
    BY <1>3, <2>2 DEF PointOK, Passed, Gone, Leads, Forward, Back, End
  <2> QED
    BY <2>1, <2>2 DEF Leads, Forward, Back, End
<1>7. status[cur[t]] \in {"RECYCLE", "CHECK"}
  BY <1>2, <1>6 DEF Passed, Gone
<1>8. ASSUME NEW u \in Threads, status[u] = "WAKE" \/ wpc[u] = "e_wake" PROVE FALSE
  <2>1. u = cur[t]
    BY <1>4, <1>8 DEF ListInv, TokenOK
  <2>2. wpc[u] = "e_wake" /\ status[u] \in {"WAIT", "SKIP"}
    BY <1>7, <1>8, <2>1 DEF LocalInv, NodeOK
  <2> QED
    BY <1>7, <2>1, <2>2
<1> QED
  BY <1>1, <1>2, <1>3, <1>4, <1>5, <1>6, <1>8

(* Who is in the line is in wait, but for the first. *)
LEMMA Member ==
  ASSUME LocalInv,
         NEW f, NEW a, NEW b, NEW lo, NEW hi, ListInv(f, a, b, lo, hi),
         NEW j \in a..b-1
  PROVE  /\ f[j] \in Threads /\ j \in Nat
         /\ j # a => wpc[f[j]] \in {"e_link", "w_spin"}
         /\ wpc[f[j]] \notin {"e_next", "e_swap"}
         /\ ~ (wpc[f[j]] = "e_status" /\ waits[f[j]])
         /\ wpc[f[j]] \in Wakes => j = a /\ Leads(f[j]) /\ cur[f[j]] = f[j]
         /\ status[f[j]] \in {"WAIT", "WAKE", "SKIP"} \/ Passed(f[j]) \/ Leads(f[j])
<1>0. /\ f \in [Nat -> Nodes] /\ a \in Nat /\ b \in Nat
      /\ lo \in [Threads -> Nat] /\ hi \in [Threads -> Nat]
  BY DEF ListInv
<1>1. f[j] \in Threads /\ j \in Nat
  BY <1>0 DEF ListInv, LineOK
<1>2. CASE j # a
  <2>1. Linking(j, f) \/ Linked(j, f, a)
    BY <1>2 DEF ListInv, LineOK
  <2>2. wpc[f[j]] \in {"e_link", "w_spin"}
    BY <2>1 DEF Linking, Linked
  <2>3. status[f[j]] \in {"WAIT", "SKIP", "CHECK"}
    BY <1>1, <2>1 DEF Linking, Linked, LocalInv, NodeOK
  <2> QED
    BY <1>1, <1>2, <2>2, <2>3 DEF Passed, Wakes, Forward, Back, End
<1>3. CASE j = a
  <2>1. a < b
    BY <1>0, <1>3
  <2>2. CASE status[f[a]] = "WAKE" \/ wpc[f[a]] = "e_wake"
    BY <1>1, <1>3, <2>2 DEF LocalInv, NodeOK, PlaceOK, HMPRTypeOK, Wakes, Forward, Back, End
  <2>3. CASE \E t \in Threads : Leads(t)
    <3>1. PICK t \in Threads : Leads(t)
      BY <2>3
    <3>2. cur[t] = f[a] /\ wpc[t] \in Wakes /\ (cur[t] = t \/ Passed(cur[t]))
      BY <3>1, Leader
    <3>3. CASE cur[t] = t
      BY <1>1, <1>3, <3>1, <3>2, <3>3 DEF Wakes, Forward, Back, End
    <3>4. CASE Passed(cur[t])
      BY <1>1, <1>3, <3>2, <3>4 DEF Passed, Gone, LocalInv, NodeOK, PlaceOK, HMPRTypeOK,
         Wakes, Forward, Back, End
    <3> QED
      BY <3>2, <3>3, <3>4
  <2> QED
    BY <2>1, <2>2, <2>3 DEF ListInv, TokenOK
<1> QED
  BY <1>2, <1>3

(* The node behind the first, once it is linked. *)
LEMMA Second ==
  ASSUME LocalInv,
         NEW f, NEW a, NEW b, NEW lo, NEW hi, ListInv(f, a, b, lo, hi),
         a < b, next[f[a]] # NULL
  PROVE  /\ a + 1 < b /\ a + 1 \in a..b-1 /\ next[f[a]] = f[a + 1]
         /\ f[a + 1] \in Threads /\ f[a + 1] # f[a]
         /\ Linked(a + 1, f, a) /\ wpc[f[a + 1]] = "w_spin"
<1>0. /\ f \in [Nat -> Nodes] /\ a \in Nat /\ b \in Nat
      /\ lo \in [Threads -> Nat] /\ hi \in [Threads -> Nat]
  BY DEF ListInv
<1>1. a + 1 < b
  BY <1>0 DEF ListInv, LineOK
<1>2. a \in a..b-1 /\ a + 1 \in a+1..b-1 /\ a + 1 \in a..b-1 /\ a + 1 # a /\ a + 1 - 1 = a
  BY <1>0, <1>1
<1>3. Linking(a + 1, f) \/ Linked(a + 1, f, a)
  BY <1>2 DEF ListInv, LineOK
<1>4. Linked(a + 1, f, a)
  BY <1>2, <1>3 DEF Linking
<1>5. f[a + 1] \in Threads /\ f[a + 1] # f[a]
  BY <1>2 DEF ListInv, LineOK
<1> QED
  BY <1>1, <1>2, <1>4, <1>5 DEF Linked

(* What others do to the line leaves a thread inside wake its way back,    *)
(* and nobody but the thread that leads examines or moves the line.        *)
Aims(u, f, a, b) ==
  /\ wpc[u] \in {"k_check", "k_turn"} /\ a + 1 < b /\ succ[u] = f[a + 1]
  /\ status[succ[u]] \in {"SKIP", "CHECK"}
Leaves(u, f, a, b, lo, hi, f2, a2, b2, lo2, hi2) ==
  /\ a2 \in {a, a + 1} /\ b2 \in {b, b + 1}
  /\ \A k \in 0..b-1 : f2[k] = f[k]
  /\ b2 = b + 1 => ~ Passed(f2[b])
  /\ wpc'[u] = wpc[u] /\ pred'[u] = pred[u] /\ cur'[u] = cur[u] /\ succ'[u] = succ[u]
  /\ lo2[u] = lo[u] /\ hi2[u] = hi[u]
  /\ hi[u] > lo[u] => next'[u] = next[u]
  /\ \A n \in Threads : Gone(n) => Gone(n)'
  /\ \A n \in Threads : Passed(n) => Passed(n)'
  /\ \A n \in Threads : Passed(n) /\ next'[n] # next[n] => \E j \in a..b-1 : n = f[j]
  /\ Leads(u) => /\ a2 = a
                 /\ next[f[a]] # NULL => next'[f[a]] = next[f[a]]
                 /\ Aims(u, f, a, b) => status'[succ[u]] = status[succ[u]]

LEMMA Undisturbed ==
  ASSUME LocalInv, LocalInv',
         NEW f, NEW a, NEW b, NEW lo, NEW hi, ListInv(f, a, b, lo, hi),
         NEW f2, NEW a2, NEW b2, NEW lo2, NEW hi2,
         NEW u \in Threads, wpc[u] \in Wakes,
         Leaves(u, f, a, b, lo, hi, f2, a2, b2, lo2, hi2)
  PROVE  WakeOK(u, f2, a2, b2, lo2, hi2)'
<1>a. /\ a2 \in {a, a + 1} /\ b2 \in {b, b + 1}
      /\ \A k \in 0..b-1 : f2[k] = f[k]
      /\ b2 = b + 1 => ~ Passed(f2[b])
      /\ wpc'[u] = wpc[u] /\ pred'[u] = pred[u] /\ cur'[u] = cur[u] /\ succ'[u] = succ[u]
      /\ lo2[u] = lo[u] /\ hi2[u] = hi[u]
      /\ hi[u] > lo[u] => next'[u] = next[u]
      /\ Leads(u) => /\ a2 = a
                     /\ next[f[a]] # NULL => next'[f[a]] = next[f[a]]
                     /\ Aims(u, f, a, b) => status'[succ[u]] = status[succ[u]]
  BY DEF Leaves
<1>b. \A n : /\ Gone(n) => Gone(n)'
             /\ Passed(n) => Passed(n)'
             /\ Passed(n) /\ next'[n] # next[n] => \E j \in a..b-1 : n = f[j]
  BY DEF Leaves, Gone, Passed
<1> USE <1>a, <1>b
<1>0. /\ f \in [Nat -> Nodes] /\ a \in Nat /\ b \in Nat
      /\ lo \in [Threads -> Nat] /\ hi \in [Threads -> Nat]
      /\ lo[u] \in Nat /\ hi[u] \in Nat
  BY DEF ListInv
<1>1. TrailOK(u, f, a, b, lo, hi) /\ PointOK(u, f, a, b, lo, hi)
  BY DEF ListInv, WakeOK
<1>2. /\ lo[u] <= hi[u] /\ hi[u] <= a /\ hi[u] < b
      /\ \A k \in lo[u]..hi[u] : f2[k] = f[k]
  BY <1>0, <1>1 DEF TrailOK
<1>3. ASSUME NEW k \in lo[u]+1..hi[u]
      PROVE  /\ Passed(f2[k])' /\ Passed(f2[k]) /\ f2[k] = f[k]
             /\ \A j \in a2..b2-1 : f2[j] = f2[k] => j = k
             /\ \A j \in a..b-1 : f[j] = f[k] => j = k
  <2>1. Passed(f[k]) /\ \A j \in a..b-1 : f[j] = f[k] => j = k
    BY <1>1 DEF TrailOK
  <2>2. f2[k] = f[k]
    BY <1>0, <1>2
  <2>3. ASSUME NEW j \in a2..b2-1, f2[j] = f2[k] PROVE j = k
    <3>1. CASE j = b
      BY <1>0, <2>1, <2>2, <2>3, <3>1
    <3>2. CASE j # b
      <4>1. j \in a..b-1 /\ j \in 0..b-1
        BY <1>0, <3>2
      <4> QED
        BY <2>1, <2>2, <2>3, <4>1
    <3> QED
      BY <3>1, <3>2
  <2> QED
    BY <2>1, <2>2, <2>3
<1>4. TrailOK(u, f2, a2, b2, lo2, hi2)'
  <2>1. f2[lo[u]] = u
    BY <1>0, <1>1, <1>2 DEF TrailOK
  <2>2. pred[u] = IF hi[u] = lo[u] THEN NULL ELSE f2[hi[u] - 1]
    BY <1>0, <1>1, <1>2 DEF TrailOK
  <2>3. ASSUME NEW k \in lo[u]+1..hi[u]-1 PROVE next'[f2[k]] = f2[k - 1]
    <3>1. k \in lo[u]+1..hi[u] /\ k < a /\ k - 1 \in lo[u]..hi[u] /\ k \in lo[u]..hi[u]
      BY <1>0, <1>2
    <3>2. next[f2[k]] = f2[k - 1]
      BY <1>1, <1>2, <3>1 DEF TrailOK
    <3>3. \A j \in a..b-1 : f[j] # f[k]
      BY <1>0, <1>3, <3>1
    <3> QED
      BY <1>3, <3>1, <3>2, <3>3
  <2>4. hi[u] > lo[u] => next'[u] = NULL
    BY <1>1 DEF TrailOK
  <2>5. hi[u] <= a2 /\ hi[u] < b2
    BY <1>0, <1>2
  <2> QED
    BY <1>2, <1>3, <2>1, <2>2, <2>3, <2>4, <2>5 DEF TrailOK
<1>5. Leads(u)' <=> Leads(u)
  BY DEF Leads
<1>6. PointOK(u, f2, a2, b2, lo2, hi2)'
  <2>1. wpc[u] \in Forward \cup {"k_recycle"} => cur[u] = f2[hi[u]] /\ (hi[u] = a2 <=> Leads(u))
    BY <1>0, <1>1, <1>2 DEF PointOK
  <2>2. wpc[u] \in {"k_cas", "k_check", "k_turn", "k_grant"} =>
          a2 + 1 < b2 /\ succ[u] = f2[a2 + 1] /\ next'[f2[a2]] = f2[a2 + 1]
    <3>1. SUFFICES ASSUME wpc[u] \in {"k_cas", "k_check", "k_turn", "k_grant"}
                   PROVE  a2 + 1 < b2 /\ succ[u] = f2[a2 + 1] /\ next'[f2[a2]] = f2[a2 + 1]
      OBVIOUS
    <3>2. Leads(u) /\ a + 1 < b /\ succ[u] = f[a + 1] /\ next[f[a]] = f[a + 1]
      BY <1>1, <3>1 DEF PointOK, Leads, Forward, End
    <3>3. a \in 0..b-1 /\ a + 1 \in 0..b-1
      BY <1>0, <3>2
    <3>4. f[a + 1] # NULL
      BY <3>3, Names DEF ListInv, LineOK
    <3> QED
      BY <1>0, <3>2, <3>3, <3>4
  <2>3. /\ wpc[u] = "k_check" => status'[succ[u]] = "SKIP"
        /\ wpc[u] = "k_turn" => status'[succ[u]] = "CHECK"
    <3>1. SUFFICES ASSUME wpc[u] \in {"k_check", "k_turn"}
                   PROVE  status'[succ[u]] = status[succ[u]]
      BY <1>1 DEF PointOK
    <3>2. /\ Leads(u) /\ a + 1 < b /\ succ[u] = f[a + 1]
          /\ status[succ[u]] \in {"SKIP", "CHECK"}
      BY <1>1, <3>1 DEF PointOK, Leads, Forward
    <3> QED
      BY <3>1, <3>2 DEF Aims
  <2>4. wpc[u] = "k_wait" => a2 + 1 < b2
    BY <1>0, <1>1 DEF PointOK, Leads, End
  <2>5. wpc[u] = "k_revnext" => status'[pred[u]] = "RECYCLE"
    <3>1. SUFFICES ASSUME wpc[u] = "k_revnext" PROVE status'[pred[u]] = "RECYCLE"
      OBVIOUS
    <3>2. hi[u] > lo[u] /\ pred[u] = f2[hi[u] - 1] /\ status[pred[u]] = "RECYCLE"
      BY <1>0, <1>1, <1>2, <3>1 DEF PointOK, TrailOK, Back
    <3>3. CASE hi[u] - 1 = lo[u]
      <4>1. pred[u] = u
        BY <1>0, <1>1, <1>2, <3>2, <3>3 DEF TrailOK
      <4>2. status'[u] = "RECYCLE"
        BY <3>1 DEF LocalInv, HMPRTypeOK, PlaceOK, NodeOK
      <4> QED
        BY <4>1, <4>2
    <3>4. CASE hi[u] - 1 # lo[u]
      <4>1. hi[u] - 1 \in lo[u]+1..hi[u]
        BY <1>0, <1>2, <3>2, <3>4
      <4>2. Gone(pred[u])
        BY <1>3, <3>2, <4>1 DEF Passed
      <4> QED
        BY <4>2 DEF Gone
    <3> QED
      BY <3>3, <3>4
  <2> QED
    BY <1>1, <1>5, <2>1, <2>2, <2>3, <2>4, <2>5 DEF PointOK
<1> QED
  BY <1>4, <1>6 DEF WakeOK

LEMMA StillOwes ==
  ASSUME NEW f, NEW a, NEW b, NEW lo, NEW hi, ListInv(f, a, b, lo, hi),
         NEW f2, NEW lo2, NEW hi2, \A k \in 0..b-1 : f2[k] = f[k],
         NEW u \in Threads, wpc'[u] = wpc[u], succ'[u] = succ[u],
         lo2[u] = lo[u], hi2[u] = hi[u],
         NEW n, Owes(u, n, f, lo, hi)
  PROVE  Owes(u, n, f2, lo2, hi2)'
<1>1. /\ b \in Nat /\ lo[u] \in Nat /\ hi[u] \in Nat /\ hi[u] < b
  BY DEF ListInv, Owes, WakeOK, TrailOK
<1>2. \A k \in lo[u]..hi[u] : f2[k] = f[k]
  BY <1>1
<1>3. \A k \in lo[u]+1..hi[u]-1 : f2[k] = f[k]
  BY <1>1, <1>2
<1>4. hi[u] > lo[u] => f2[hi[u]] = f[hi[u]]
  BY <1>1, <1>2
<1> QED
  BY <1>3, <1>4 DEF Owes

(* The places in which a thread is not in line, nor about to be. *)
Calm == {"out", "e_status", "e_next", "e_swap", "k_try"}

(* Steps outside of the line: those of the lock, a skip, the first steps   *)
(* of an insertion, the end of a wait.                                     *)
LEMMA CalmStep ==
  ASSUME LocalInv, LocalInv',
         NEW f, NEW a, NEW b, NEW lo, NEW hi, ListInv(f, a, b, lo, hi),
         lock' = lock,
         \A u \in Threads :
           \/ /\ wpc'[u] = wpc[u]
              /\ wpc[u] \notin Calm => pred'[u] = pred[u] /\ cur'[u] = cur[u] /\ succ'[u] = succ[u]
           \/ wpc[u] \in Calm /\ wpc'[u] \in Calm
           \/ wpc[u] = "w_spin" /\ status[u] \in {"WAKE", "RECYCLE"} /\ wpc'[u] \in Calm,
         \A n \in Threads : next'[n] = next[n] \/ wpc[n] = "e_next",
         \A n \in Threads :
           \/ status'[n] = status[n]
           \/ status[n] = "WAIT" /\ status'[n] = "SKIP"
           \/ status[n] = "RECYCLE" /\ status'[n] = "WAIT" /\ wpc[n] = "e_status" /\ waits[n],
         \A n : Gone(n) => Gone(n)'
  PROVE  ListInv(f, a, b, lo, hi)'
<1>0. /\ f \in [Nat -> Nodes] /\ a \in Nat /\ b \in Nat
      /\ lo \in [Threads -> Nat] /\ hi \in [Threads -> Nat]
  BY DEF ListInv
<1>1. \A u \in Threads : wpc[u] \in Wakes \/ wpc'[u] \in Wakes =>
        wpc'[u] = wpc[u] /\ pred'[u] = pred[u] /\ cur'[u] = cur[u] /\ succ'[u] = succ[u]
  BY DEF Wakes, Forward, Back, End, Calm
<1>2. \A u \in Threads : Leads(u)' <=> Leads(u)
  BY <1>1 DEF Leads, Wakes
<1>3. ASSUME NEW j \in a..b-1
      PROVE  /\ f[j] \in Threads /\ next'[f[j]] = next[f[j]]
             /\ status'[f[j]] = status[f[j]] \/ (status[f[j]] = "WAIT" /\ status'[f[j]] = "SKIP")
  BY Member
<1>4. LineOK(f, a, b)'
  <2>1. /\ a <= b /\ \A k \in 0..b-1 : f[k] \in Threads
        /\ lock' = IF a = b THEN NULL ELSE f[b - 1]
        /\ \A j, k \in a..b-1 : f[j] = f[k] => j = k
        /\ a < b => next'[f[b - 1]] = NULL
    BY <1>0, <1>3 DEF ListInv, LineOK
  <2>2. ASSUME NEW k \in a+1..b-1 PROVE Linking(k, f)' \/ Linked(k, f, a)'
    <3>1. k \in a..b-1 /\ k - 1 \in a..b-1
      BY <1>0
    <3>2. CASE Linking(k, f)
      <4>1. wpc'[f[k]] = "e_link" /\ pred'[f[k]] = pred[f[k]]
        BY <1>3, <3>1, <3>2 DEF Linking, Calm
      <4> QED
        BY <1>3, <3>1, <3>2, <4>1 DEF Linking
    <3>3. CASE Linked(k, f, a)
      <4>1. status[f[k]] \in {"WAIT", "SKIP", "CHECK"} /\ wpc[f[k]] = "w_spin"
        BY <3>3 DEF Linked
      <4>2. wpc'[f[k]] = "w_spin"
        BY <1>3, <3>1, <4>1 DEF Calm
      <4>3. (\E t \in Threads : wpc[t] = "k_turn") => \E t \in Threads : wpc'[t] = "k_turn"
        BY <1>1 DEF Wakes, Forward
      <4> QED
        BY <1>3, <3>1, <3>3, <4>2, <4>3 DEF Linked
    <3> QED
      BY <3>2, <3>3 DEF ListInv, LineOK
  <2>3. ASSUME NEW t \in Threads, InLine(t)' PROVE \E k \in a+1..b-1 : f[k] = t
    <3>1. InLine(t)
      BY <2>3 DEF InLine, Calm
    <3> QED
      BY <3>1 DEF ListInv, LineOK
  <2> QED
    BY <2>1, <2>2, <2>3 DEF LineOK
<1>5. TokenOK(f, a, b)'
  <2>1. a < b => a \in a..b-1
    BY <1>0
  <2>2. \A u \in Threads : wpc'[u] = "e_wake" <=> wpc[u] = "e_wake"
    BY DEF Calm
  <2>3. \A u \in Threads : status'[u] = "WAKE" <=> status[u] = "WAKE"
    OBVIOUS
  <2>4. a < b => \/ status'[f[a]] = "WAKE" \/ wpc'[f[a]] = "e_wake"
                 \/ \E t \in Threads : Leads(t)'
    BY <1>2, <1>3, <2>1, <2>2, <2>3 DEF ListInv, TokenOK
  <2>5. \A t \in Threads : status'[t] = "WAKE" \/ wpc'[t] = "e_wake" => a < b /\ t = f[a]
    BY <2>2, <2>3 DEF ListInv, TokenOK
  <2>6. ASSUME NEW t \in Threads, Leads(t)' PROVE a < b /\ cur'[t] = f[a]
    <3>1. Leads(t) /\ wpc[t] \in Wakes
      BY <1>2, <2>6 DEF Leads, Wakes
    <3> QED
      BY <1>1, <3>1 DEF ListInv, TokenOK
  <2>7. \A t, u \in Threads : Leads(t)' /\ Leads(u)' => t = u
    BY <1>2 DEF ListInv, TokenOK
  <2> QED
    BY <2>4, <2>5, <2>6, <2>7 DEF TokenOK
<1>6. ASSUME NEW u \in Threads PROVE WakeOK(u, f, a, b, lo, hi)'
  <2>1. SUFFICES ASSUME wpc'[u] \in Wakes PROVE WakeOK(u, f, a, b, lo, hi)'
    BY DEF WakeOK
  <2>2. /\ wpc[u] \in Wakes /\ wpc'[u] = wpc[u] /\ pred'[u] = pred[u]
        /\ cur'[u] = cur[u] /\ succ'[u] = succ[u]
    BY <1>1, <2>1
  <2>3. ASSUME NEW n \in Threads, Passed(n)
        PROVE  /\ Passed(n)'
               /\ next'[n] # next[n] => \E j \in a..b-1 : n = f[j]
    <3>1. n \in Threads /\ status[n] \in {"CHECK", "RECYCLE"}
      BY <2>3 DEF Passed, Gone
    <3>2. wpc[n] # "e_next"
      BY <3>1 DEF LocalInv, NodeOK
    <3> QED
      BY <2>3, <3>1, <3>2 DEF Passed
  <2>4. Leads(u) => /\ next[f[a]] # NULL => next'[f[a]] = next[f[a]]
                    /\ Aims(u, f, a, b) => status'[succ[u]] = status[succ[u]]
    <3>1. Leads(u) => a \in a..b-1
      BY Leader
    <3>2. Aims(u, f, a, b) => a + 1 \in a..b-1
      BY <1>0 DEF Aims
    <3> QED
      BY <1>3, <3>1, <3>2 DEF Aims
  <2>5. hi[u] > lo[u] => next'[u] = next[u]
    BY <2>2 DEF Wakes, Forward, Back, End
  <2>6. Leaves(u, f, a, b, lo, hi, f, a, b, lo, hi)
    BY <1>0, <2>2, <2>3, <2>4, <2>5 DEF Leaves
  <2> QED
    BY <2>2, <2>6, Undisturbed
<1>7. CoverOK(f, lo, hi)'
  <2>1. SUFFICES ASSUME NEW n \in Threads, status'[n] = "CHECK"
                 PROVE  \E t \in Threads : Owes(t, n, f, lo, hi)'
    BY DEF CoverOK
  <2>2. PICK t \in Threads : Owes(t, n, f, lo, hi)
    BY <2>1 DEF ListInv, CoverOK
  <2>3. wpc'[t] = wpc[t] /\ succ'[t] = succ[t]
    BY <1>1, <2>2 DEF Owes
  <2> QED
    BY <2>2, <2>3, StillOwes
<1> QED
  BY <1>0, <1>4, <1>5, <1>6, <1>7 DEF ListInv

(* What a step of t leaves as it was. *)
LEMMA StepFrame ==
  ASSUME LocalInv, NEW t \in Threads, ListStep(t)
  PROVE  /\ \A u \in Threads : u # t =>
              /\ wpc'[u] = wpc[u] /\ node'[u] = node[u] /\ waits'[u] = waits[u]
              /\ pred'[u] = pred[u] /\ cur'[u] = cur[u] /\ succ'[u] = succ[u]
         /\ p' = p /\ pc' = pc /\ owner' = owner /\ low_p_acq' = low_p_acq
         /\ target' = target
<1>1. /\ p' = p /\ pc' = pc /\ owner' = owner /\ low_p_acq' = low_p_acq /\ target' = target
  BY DEF ListStep, lockVars
<1>2. \A u \in Threads : u # t =>
              /\ wpc'[u] = wpc[u] /\ node'[u] = node[u] /\ waits'[u] = waits[u]
              /\ pred'[u] = pred[u] /\ cur'[u] = cur[u] /\ succ'[u] = succ[u]
  <2> SUFFICES ASSUME NEW u \in Threads, u # t
               PROVE  /\ wpc'[u] = wpc[u] /\ node'[u] = node[u] /\ waits'[u] = waits[u]
                      /\ pred'[u] = pred[u] /\ cur'[u] = cur[u] /\ succ'[u] = succ[u]
    OBVIOUS
  <2>1. CASE EnqStatus(t) \/ EnqNext(t) \/ EnqSwap(t) \/ EnqWake(t) \/ EnqLink(t) \/ WaitSpin(t)
    BY <2>1 DEF LocalInv, HMPRTypeOK, WSkipTypeOK, EnqStatus, EnqNext, EnqSwap, EnqWake, EnqLink,
       WaitSpin, Enqueued, Return, WGoto, WAt
  <2>2. CASE WakeTry(t) \/ WakeNext(t) \/ WakeCAS(t) \/ WakeCheck(t) \/ WakeTurn(t)
    BY <2>2 DEF LocalInv, HMPRTypeOK, WSkipTypeOK, WakeTry, WakeNext, WakeCAS, WakeCheck, WakeTurn,
       Return, WGoto, WAt
  <2>3. CASE \/ WakeRecycle(t) \/ WakeRev(t) \/ WakeRevNext(t)
             \/ WakeTail(t) \/ WakeWait(t) \/ WakeGrant(t) \/ WakeClear(t)
    BY <2>3 DEF LocalInv, HMPRTypeOK, WSkipTypeOK, WakeRecycle, WakeRev, WakeRevNext, WakeTail,
       WakeWait, WakeGrant, WakeClear, Return, WGoto, WAt
  <2> QED
    BY <2>1, <2>2, <2>3 DEF ListStep, WSkipStep
<1> QED
  BY <1>1, <1>2

(* An insertion, in which a thread that was not in the line comes to its   *)
(* end.                                                                    *)
LEMMA SwapList ==
  ASSUME LocalInv, LocalInv',
         NEW f, NEW a, NEW b, NEW lo, NEW hi, ListInv(f, a, b, lo, hi),
         NEW t \in Threads, ListStep(t), EnqSwap(t)
  PROVE  ListInv([f EXCEPT ![b] = t], a, b + 1, lo, hi)'
<1>0. /\ f \in [Nat -> Nodes] /\ a \in Nat /\ b \in Nat
      /\ lo \in [Threads -> Nat] /\ hi \in [Threads -> Nat]
      /\ a <= b
  BY DEF ListInv, LineOK
<1>g. PICK g : g = [f EXCEPT ![b] = t]
  OBVIOUS
<1>c. PICK c \in Nat : c = b + 1
  BY <1>0
<1>1. /\ wpc[t] = "e_swap" /\ pc[t] = "l_wait" /\ node[t] = t
      /\ status[t] \in {"WAIT", "SKIP"} /\ next[t] = NULL
  BY DEF EnqSwap, LocalInv, HMPRTypeOK, PlaceOK, NodeOK, Wakes, Forward, Back, End
<1>2. /\ lock' = t /\ next' = next /\ status' = status /\ pred'[t] = lock
      /\ wpc'[t] = IF lock = NULL THEN "e_wake" ELSE "e_link"
  BY <1>1 DEF EnqSwap, WGoto, LocalInv, HMPRTypeOK, WSkipTypeOK
<1>3. /\ \A u \in Threads : u # t =>
           /\ wpc'[u] = wpc[u] /\ pred'[u] = pred[u] /\ cur'[u] = cur[u]
           /\ succ'[u] = succ[u] /\ waits'[u] = waits[u]
      /\ p' = p
  BY StepFrame
<1>4. \A j \in a..b-1 : f[j] \in Threads /\ f[j] # t
  BY <1>1, Member
<1>5. /\ g \in [Nat -> Nodes] /\ g[b] = t /\ \A k \in Nat : k # b => g[k] = f[k]
      /\ \A k \in 0..b-1 : g[k] = f[k]
  BY <1>0, <1>g, Names
<1>6. ~ Passed(t) /\ ~ Passed(t)'
  BY <1>1, <1>2 DEF Passed, Gone
<1>7. lock = NULL <=> a = b
  <2>1. a # b => b - 1 \in 0..b-1
    BY <1>0
  <2> QED
    BY <2>1, Names DEF ListInv, LineOK
<1>8. /\ c \in Nat /\ c = b + 1 /\ c - 1 = b /\ a < c /\ a + 1 <= c /\ b # a => a < b
      /\ \A k \in a..c-1 : k = b \/ k \in a..b-1
      /\ \A k \in a+1..c-1 : k = b \/ k \in a+1..b-1
  BY <1>0, <1>c
<1>e. a < c /\ a <= c /\ a # c
  BY <1>0, <1>c
<1>9. LineOK(g, a, c)'
  <2>1. \A k \in 0..c-1 : g[k] \in Threads
    <3> SUFFICES ASSUME NEW k \in 0..c-1 PROVE g[k] \in Threads
      OBVIOUS
    <3>1. k = b \/ k \in 0..b-1
      BY <1>0, <1>8
    <3> QED
      BY <1>5, <3>1 DEF ListInv, LineOK
  <2>2. \A j, k \in a..c-1 : g[j] = g[k] => j = k
    <3> SUFFICES ASSUME NEW j \in a..c-1, NEW k \in a..c-1, g[j] = g[k] PROVE j = k
      OBVIOUS
    <3>1. /\ j = b \/ (j \in a..b-1 /\ g[j] = f[j])
          /\ k = b \/ (k \in a..b-1 /\ g[k] = f[k])
      BY <1>0, <1>5, <1>8
    <3> QED
      BY <1>4, <1>5, <3>1 DEF ListInv, LineOK
  <2>3. ASSUME NEW k \in a+1..c-1 PROVE Linking(k, g)' \/ Linked(k, g, a)'
    <3>1. CASE k = b
      <4>1. a < b /\ b - 1 \in a..b-1 /\ g[b - 1] = f[b - 1]
        BY <1>0, <1>5, <1>8, <3>1
      <4>2. lock = f[b - 1] /\ next[f[b - 1]] = NULL
        BY <4>1 DEF ListInv, LineOK
      <4>3. lock # NULL
        BY <1>7, <4>1, <1>0
      <4> QED
        BY <1>2, <1>5, <3>1, <4>1, <4>2, <4>3 DEF Linking
    <3>2. CASE k # b
      <4>1. k \in a+1..b-1 /\ k \in a..b-1 /\ k - 1 \in a..b-1
        BY <1>0, <1>8, <3>2
      <4>2. g[k] = f[k] /\ g[k - 1] = f[k - 1] /\ f[k] # t /\ f[k] \in Threads
        BY <1>0, <1>4, <1>5, <4>1
      <4>3. Linking(k, f) \/ Linked(k, f, a)
        BY <4>1 DEF ListInv, LineOK
      <4>4. (\E u \in Threads : wpc[u] = "k_turn") => \E u \in Threads : wpc'[u] = "k_turn"
        BY <1>1, <1>3
      <4> QED
        BY <1>2, <1>3, <4>2, <4>3, <4>4 DEF Linking, Linked
    <3> QED
      BY <3>1, <3>2
  <2>4. ASSUME NEW u \in Threads, InLine(u)' PROVE \E k \in a+1..c-1 : g[k] = u
    <3>1. CASE u = t
      <4>1. a # b
        BY <1>2, <1>7, <2>4, <3>1 DEF InLine
      <4>2. b \in a+1..c-1
        BY <1>0, <1>c, <4>1
      <4> QED
        BY <1>5, <3>1, <4>2
    <3>2. CASE u # t
      <4>1. InLine(u)
        BY <1>2, <1>3, <2>4, <3>2 DEF InLine
      <4>2. PICK k \in a+1..b-1 : f[k] = u
        BY <4>1 DEF ListInv, LineOK
      <4>3. k \in a+1..c-1 /\ k \in Nat /\ k # b
        BY <1>0, <1>c
      <4>4. g[k] = u
        BY <1>5, <4>2, <4>3
      <4> QED
        BY <4>3, <4>4
    <3> QED
      BY <3>1, <3>2
  <2>5. lock' = g[c - 1] /\ next'[g[c - 1]] = NULL
    BY <1>0, <1>1, <1>2, <1>5, <1>c
  <2> QED
    BY <1>e, <2>1, <2>2, <2>3, <2>4, <2>5 DEF LineOK
<1>10. \A u \in Threads : Leads(u)' <=> Leads(u)
  <2>1. ~ Leads(t) /\ ~ Leads(t)'
    BY <1>1, <1>2 DEF Leads, Forward, Back, End
  <2> QED
    BY <1>3, <2>1 DEF Leads
<1>11. TokenOK(g, a, c)'
  <2>1. CASE a = b
    <3>1. /\ \A u \in Threads : status[u] # "WAKE" /\ wpc[u] # "e_wake" /\ ~ Leads(u)
      BY <1>0, <2>1 DEF ListInv, TokenOK
    <3>2. g[a] = t /\ wpc'[t] = "e_wake"
      BY <1>2, <1>5, <1>7, <2>1
    <3> QED
      BY <1>2, <1>3, <1>10, <1>e, <3>1, <3>2 DEF TokenOK
  <2>2. CASE a # b
    <3>1. a \in a..b-1 /\ g[a] = f[a] /\ a < b
      BY <1>0, <1>5, <2>2
    <3>2. wpc'[t] = "e_link" /\ f[a] # t /\ f[a] \in Threads
      BY <1>2, <1>4, <1>7, <2>2, <3>1
    <3>3. ASSUME NEW u \in Threads, Leads(u)' PROVE cur'[u] = g[a]
      <4>1. Leads(u) /\ u # t
        BY <1>1, <1>10, <3>3 DEF Leads, Forward, Back, End
      <4> QED
        BY <1>3, <3>1, <4>1 DEF ListInv, TokenOK
    <3>4. \A u \in Threads : status'[u] = "WAKE" \/ wpc'[u] = "e_wake" => u = g[a]
      BY <1>1, <1>2, <1>3, <3>1, <3>2 DEF ListInv, TokenOK
    <3>5. \/ status'[g[a]] = "WAKE" \/ wpc'[g[a]] = "e_wake"
          \/ \E u \in Threads : Leads(u)'
      BY <1>2, <1>3, <1>10, <3>1, <3>2 DEF ListInv, TokenOK
    <3>6. \A u, v \in Threads : Leads(u)' /\ Leads(v)' => u = v
      BY <1>10 DEF TokenOK, ListInv
    <3> QED
      BY <1>e, <3>3, <3>4, <3>5, <3>6 DEF TokenOK
  <2> QED
    BY <2>1, <2>2
<1>12. \A n : (Gone(n) => Gone(n)') /\ (Passed(n) => Passed(n)')
  BY <1>2, <1>3, <1>6 DEF Passed, Gone
<1>13. ASSUME NEW u \in Threads PROVE WakeOK(u, g, a, c, lo, hi)'
  <2>1. SUFFICES ASSUME wpc'[u] \in Wakes PROVE WakeOK(u, g, a, c, lo, hi)'
    BY DEF WakeOK
  <2>2. u # t /\ wpc[u] \in Wakes
    BY <1>2, <1>3, <2>1 DEF Wakes, Forward, Back, End
  <2>3. Leaves(u, f, a, b, lo, hi, g, a, c, lo, hi)
    BY <1>2, <1>3, <1>5, <1>6, <1>12, <1>c, <2>2 DEF Leaves
  <2> QED
    BY <2>2, <2>3, Undisturbed
<1>14. CoverOK(g, lo, hi)'
  <2>1. SUFFICES ASSUME NEW n \in Threads, status'[n] = "CHECK"
                 PROVE  \E u \in Threads : Owes(u, n, g, lo, hi)'
    BY DEF CoverOK
  <2>2. PICK u \in Threads : Owes(u, n, f, lo, hi)
    BY <1>2, <2>1 DEF ListInv, CoverOK
  <2>3. wpc'[u] = wpc[u] /\ succ'[u] = succ[u]
    BY <1>1, <1>3, <2>2 DEF Owes, Wakes, Forward, Back, End
  <2> QED
    BY <1>5, <2>2, <2>3, StillOwes
<1>16. ListInv(g, a, c, lo, hi)'
  BY <1>0, <1>5, <1>8, <1>9, <1>11, <1>13, <1>14 DEF ListInv
<1> QED
  BY <1>16, <1>c, <1>g

(* The first in line gives WAKE to itself. *)
LEMMA FirstList ==
  ASSUME LocalInv, LocalInv',
         NEW f, NEW a, NEW b, NEW lo, NEW hi, ListInv(f, a, b, lo, hi),
         NEW t \in Threads, ListStep(t), EnqWake(t)
  PROVE  ListInv(f, a, b, lo, hi)'
<1>0. /\ f \in [Nat -> Nodes] /\ a \in Nat /\ b \in Nat
      /\ lo \in [Threads -> Nat] /\ hi \in [Threads -> Nat]
      /\ a <= b
  BY DEF ListInv, LineOK
<1>1. wpc[t] = "e_wake" /\ node[t] = t /\ status[t] \in {"WAIT", "SKIP"}
  BY DEF EnqWake, LocalInv, HMPRTypeOK, PlaceOK, NodeOK, Wakes, Forward, Back, End
<1>2. /\ lock' = lock /\ next' = next /\ wpc'[t] = "out"
      /\ status' = [status EXCEPT ![t] = "WAKE"]
  BY <1>1 DEF EnqWake, Return, WGoto, SetStatus, LocalInv, HMPRTypeOK, WSkipTypeOK
<1>3. /\ \A u \in Threads : u # t =>
           /\ wpc'[u] = wpc[u] /\ pred'[u] = pred[u] /\ cur'[u] = cur[u]
           /\ succ'[u] = succ[u] /\ waits'[u] = waits[u]
      /\ p' = p
  BY StepFrame
<1>4. /\ status'[t] = "WAKE" /\ \A u \in Threads : u # t => status'[u] = status[u]
  BY <1>2, Names DEF LocalInv, HMPRTypeOK, WSkipTypeOK
<1>5. a < b /\ t = f[a]
  BY <1>1 DEF ListInv, TokenOK
<1>6. \A j \in a+1..b-1 : f[j] \in Threads /\ f[j] # t /\ j \in a..b-1
  <2> SUFFICES ASSUME NEW j \in a+1..b-1 PROVE f[j] \in Threads /\ f[j] # t /\ j \in a..b-1
    OBVIOUS
  <2>1. j \in a..b-1 /\ j # a
    BY <1>0
  <2> QED
    BY <1>1, <2>1, Member
<1>7. LineOK(f, a, b)'
  <2>1. ASSUME NEW k \in a+1..b-1 PROVE Linking(k, f)' \/ Linked(k, f, a)'
    <3>1. (\E u \in Threads : wpc[u] = "k_turn") => \E u \in Threads : wpc'[u] = "k_turn"
      BY <1>1, <1>3
    <3>2. Linking(k, f) \/ Linked(k, f, a)
      BY DEF ListInv, LineOK
    <3> QED
      BY <1>2, <1>3, <1>4, <1>6, <3>1, <3>2 DEF Linking, Linked
  <2>2. ASSUME NEW u \in Threads, InLine(u)' PROVE \E k \in a+1..b-1 : f[k] = u
    <3>1. InLine(u)
      BY <1>2, <1>3, <1>4, <2>2 DEF InLine
    <3> QED
      BY <3>1 DEF ListInv, LineOK
  <2> QED
    BY <1>2, <2>1, <2>2 DEF ListInv, LineOK
<1>8. \A u \in Threads : ~ Leads(u) /\ ~ Leads(u)'
  <2>1. \A u \in Threads : ~ Leads(u)
    BY <1>1, Leader
  <2>2. ~ Leads(t)'
    BY <1>2 DEF Leads, Forward, Back, End
  <2> QED
    BY <1>3, <2>1, <2>2 DEF Leads
<1>9. TokenOK(f, a, b)'
  <2>1. \A u \in Threads : status'[u] = "WAKE" \/ wpc'[u] = "e_wake" => u = t
    BY <1>2, <1>3, <1>4, <1>5 DEF ListInv, TokenOK
  <2> QED
    BY <1>4, <1>5, <1>8, <2>1 DEF TokenOK
<1>10. \A n \in Threads : (Gone(n) => Gone(n)') /\ (Passed(n) => Passed(n)')
  BY <1>1, <1>3, <1>4 DEF Passed, Gone
<1>11. ASSUME NEW u \in Threads PROVE WakeOK(u, f, a, b, lo, hi)'
  <2>1. SUFFICES ASSUME wpc'[u] \in Wakes PROVE WakeOK(u, f, a, b, lo, hi)'
    BY DEF WakeOK
  <2>2. u # t /\ wpc[u] \in Wakes
    BY <1>2, <1>3, <2>1 DEF Wakes, Forward, Back, End
  <2>3. Leaves(u, f, a, b, lo, hi, f, a, b, lo, hi)
    BY <1>0, <1>2, <1>3, <1>8, <1>10, <2>2 DEF Leaves
  <2> QED
    BY <2>2, <2>3, Undisturbed
<1>12. CoverOK(f, lo, hi)'
  <2>1. SUFFICES ASSUME NEW n \in Threads, status'[n] = "CHECK"
                 PROVE  \E u \in Threads : Owes(u, n, f, lo, hi)'
    BY DEF CoverOK
  <2>2. PICK u \in Threads : Owes(u, n, f, lo, hi)
    BY <1>4, <2>1 DEF ListInv, CoverOK
  <2>3. wpc'[u] = wpc[u] /\ succ'[u] = succ[u]
    BY <1>1, <1>3, <2>2 DEF Owes, Wakes, Forward, Back, End
  <2> QED
    BY <2>2, <2>3, StillOwes
<1> QED
  BY <1>0, <1>7, <1>9, <1>11, <1>12 DEF ListInv

(* One that is not links itself to the node before it. *)
LEMMA LinkList ==
  ASSUME LocalInv, LocalInv',
         NEW f, NEW a, NEW b, NEW lo, NEW hi, ListInv(f, a, b, lo, hi),
         NEW t \in Threads, ListStep(t), EnqLink(t)
  PROVE  ListInv(f, a, b, lo, hi)'
<1>0. /\ f \in [Nat -> Nodes] /\ a \in Nat /\ b \in Nat
      /\ lo \in [Threads -> Nat] /\ hi \in [Threads -> Nat]
      /\ a <= b
  BY DEF ListInv, LineOK
<1>1. /\ wpc[t] = "e_link" /\ pc[t] = "l_wait" /\ node[t] = t /\ waits[t]
      /\ status[t] \in {"WAIT", "SKIP"}
  BY DEF EnqLink, LocalInv, HMPRTypeOK, PlaceOK, NodeOK, Wakes, Forward, Back, End
<1>2. PICK i \in a+1..b-1 : f[i] = t
  BY <1>1 DEF ListInv, LineOK, InLine
<1>3. /\ i \in Nat /\ i - 1 \in Nat /\ i \in a..b-1 /\ i - 1 \in a..b-1 /\ i - 1 # b - 1
      /\ i # a
  BY <1>0
<1>4. pred[t] = f[i - 1] /\ next[f[i - 1]] = NULL /\ f[i - 1] \in Threads
  BY <1>1, <1>2, <1>3 DEF ListInv, LineOK, Linking, Linked
<1>5. /\ lock' = lock /\ status' = status /\ wpc'[t] = "w_spin"
      /\ next' = [next EXCEPT ![f[i - 1]] = t]
      /\ pred' = pred /\ cur' = cur /\ succ' = succ
  BY <1>1, <1>4 DEF EnqLink, Enqueued, WGoto, SetNext, LocalInv, HMPRTypeOK, WSkipTypeOK
<1>6. /\ \A u \in Threads : u # t => wpc'[u] = wpc[u] /\ waits'[u] = waits[u]
      /\ p' = p
  BY StepFrame
<1>7. /\ next'[f[i - 1]] = t /\ \A n \in Nodes : n # f[i - 1] => next'[n] = next[n]
  BY <1>4, <1>5, Names DEF LocalInv, HMPRTypeOK, WSkipTypeOK
<1>8. \A j \in a..b-1 : /\ f[j] \in Threads /\ f[j] \in Nodes
                        /\ j # i - 1 => f[j] # f[i - 1]
                        /\ j # i => f[j] # t
  BY <1>2, <1>3, Names DEF ListInv, LineOK
<1>9. LineOK(f, a, b)'
  <2>1. ASSUME NEW k \in a+1..b-1 PROVE Linking(k, f)' \/ Linked(k, f, a)'
    <3>1. k \in a..b-1 /\ k - 1 \in a..b-1 /\ k \in Nat
      BY <1>0
    <3>2. CASE k = i
      BY <1>1, <1>2, <1>5, <1>7, <3>2 DEF Linked
    <3>3. CASE k # i
      <4>1. f[k] # t /\ k - 1 # i - 1 /\ f[k] \in Threads
        BY <1>3, <1>8, <3>1, <3>3
      <4>2. next'[f[k - 1]] = next[f[k - 1]]
        BY <1>7, <1>8, <3>1, <4>1
      <4>3. (\E u \in Threads : wpc[u] = "k_turn") => \E u \in Threads : wpc'[u] = "k_turn"
        BY <1>1, <1>6
      <4>4. Linking(k, f) \/ Linked(k, f, a)
        BY DEF ListInv, LineOK
      <4> QED
        BY <1>5, <1>6, <4>1, <4>2, <4>3, <4>4 DEF Linking, Linked
    <3> QED
      BY <3>2, <3>3
  <2>2. ASSUME NEW u \in Threads, InLine(u)' PROVE \E k \in a+1..b-1 : f[k] = u
    <3>1. InLine(u)
      BY <1>1, <1>5, <1>6, <2>2 DEF InLine
    <3> QED
      BY <3>1 DEF ListInv, LineOK
  <2>3. next'[f[b - 1]] = NULL
    <3>1. b - 1 \in a..b-1 /\ a < b
      BY <1>0, <1>3
    <3>2. next[f[b - 1]] = NULL
      BY <3>1 DEF ListInv, LineOK
    <3> QED
      BY <1>3, <1>7, <1>8, <3>1, <3>2
  <2> QED
    BY <1>5, <2>1, <2>2, <2>3 DEF ListInv, LineOK
<1>10. \A u \in Threads : Leads(u)' <=> Leads(u)
  <2>1. ~ Leads(t) /\ ~ Leads(t)'
    BY <1>1, <1>5 DEF Leads, Forward, Back, End
  <2> QED
    BY <1>5, <1>6, <2>1 DEF Leads
<1>11. TokenOK(f, a, b)'
  <2>1. \A u \in Threads : wpc'[u] = "e_wake" <=> wpc[u] = "e_wake"
    BY <1>1, <1>5, <1>6
  <2>2. a < b => f[a] \in Threads
    BY <1>0, <1>8
  <2> QED
    BY <1>5, <1>10, <2>1, <2>2 DEF ListInv, TokenOK
<1>12. \A n \in Threads : (Gone(n) => Gone(n)') /\ (Passed(n) => Passed(n)')
  BY <1>1, <1>5, <1>6 DEF Passed, Gone
<1>13. ASSUME NEW u \in Threads PROVE WakeOK(u, f, a, b, lo, hi)'
  <2>1. SUFFICES ASSUME wpc'[u] \in Wakes PROVE WakeOK(u, f, a, b, lo, hi)'
    BY DEF WakeOK
  <2>2. u # t /\ wpc[u] \in Wakes
    BY <1>5, <1>6, <2>1 DEF Wakes, Forward, Back, End
  <2>3. hi[u] > lo[u] => next'[u] = next[u]
    <3>1. SUFFICES ASSUME hi[u] > lo[u], u = f[i - 1] PROVE FALSE
      BY <1>7, Names
    <3>2. Leads(u) /\ cur[u] = u
      BY <1>3, <2>2, <3>1, Member
    <3>3. lo[u] \in Nat /\ hi[u] \in Nat /\ lo[u] # hi[u]
      BY <1>0, <3>1
    <3>4. Passed(u)
      BY <3>2, <3>3, Leader
    <3>5. status[u] = "RECYCLE"
      BY <3>2, Leader
    <3> QED
      BY <2>2, <3>4, <3>5 DEF Passed, Gone
  <2>4. \A n \in Threads : next'[n] # next[n] => \E j \in a..b-1 : n = f[j]
    BY <1>3, <1>7, Names
  <2>5. next[f[a]] # NULL => next'[f[a]] = next[f[a]]
    <3>1. a \in a..b-1
      BY <1>0, <1>3
    <3> QED
      BY <1>4, <1>7, <1>8, <3>1
  <2>6. Leaves(u, f, a, b, lo, hi, f, a, b, lo, hi)
    BY <1>0, <1>5, <1>6, <1>12, <2>2, <2>3, <2>4, <2>5 DEF Leaves
  <2> QED
    BY <2>2, <2>6, Undisturbed
<1>14. CoverOK(f, lo, hi)'
  <2>1. SUFFICES ASSUME NEW n \in Threads, status'[n] = "CHECK"
                 PROVE  \E u \in Threads : Owes(u, n, f, lo, hi)'
    BY DEF CoverOK
  <2>2. PICK u \in Threads : Owes(u, n, f, lo, hi)
    BY <1>5, <2>1 DEF ListInv, CoverOK
  <2>3. wpc'[u] = wpc[u] /\ succ'[u] = succ[u]
    BY <1>1, <1>5, <1>6, <2>2 DEF Owes, Wakes, Forward, Back, End
  <2> QED
    BY <2>2, <2>3, StillOwes
<1> QED
  BY <1>0, <1>9, <1>11, <1>13, <1>14 DEF ListInv

(* The first in line begins to wake. *)
LEMMA TryList ==
  ASSUME LocalInv, LocalInv',
         NEW f, NEW a, NEW b, NEW lo, NEW hi, ListInv(f, a, b, lo, hi),
         NEW t \in Threads, ListStep(t), WakeTry(t), status[node[t]] = "WAKE"
  PROVE  ListInv(f, a, b, [lo EXCEPT ![t] = a], [hi EXCEPT ![t] = a])'
<1>0. /\ f \in [Nat -> Nodes] /\ a \in Nat /\ b \in Nat
      /\ lo \in [Threads -> Nat] /\ hi \in [Threads -> Nat]
      /\ a <= b
  BY DEF ListInv, LineOK
<1>l. PICK lo2 : lo2 = [lo EXCEPT ![t] = a]
  OBVIOUS
<1>h. PICK hi2 : hi2 = [hi EXCEPT ![t] = a]
  OBVIOUS
<1>1. wpc[t] = "k_try" /\ node[t] = t /\ pred[t] = NULL /\ succ[t] = NULL
  BY DEF WakeTry, LocalInv, HMPRTypeOK, PlaceOK
<1>2. /\ lock' = lock /\ next' = next /\ wpc'[t] = "k_next"
      /\ status' = [status EXCEPT ![t] = "RECYCLE"]
      /\ cur'[t] = t /\ pred' = pred /\ succ' = succ
  BY <1>1 DEF WakeTry, WGoto, SetStatus, LocalInv, HMPRTypeOK, WSkipTypeOK
<1>3. /\ \A u \in Threads : u # t =>
           wpc'[u] = wpc[u] /\ cur'[u] = cur[u] /\ waits'[u] = waits[u]
      /\ p' = p
  BY StepFrame
<1>4. /\ status'[t] = "RECYCLE" /\ \A u \in Threads : u # t => status'[u] = status[u]
  BY <1>2, Names DEF LocalInv, HMPRTypeOK, WSkipTypeOK
<1>5. a < b /\ t = f[a] /\ status[t] = "WAKE"
  BY <1>1 DEF ListInv, TokenOK
<1>6. /\ lo2 \in [Threads -> Nat] /\ hi2 \in [Threads -> Nat]
      /\ lo2[t] = a /\ hi2[t] = a
      /\ \A u \in Threads : u # t => lo2[u] = lo[u] /\ hi2[u] = hi[u]
  BY <1>0, <1>l, <1>h
<1>7. \A j \in a+1..b-1 : f[j] \in Threads /\ f[j] # t /\ j \in a..b-1
  <2> SUFFICES ASSUME NEW j \in a+1..b-1 PROVE f[j] \in Threads /\ f[j] # t /\ j \in a..b-1
    OBVIOUS
  <2>1. j \in a..b-1 /\ j # a
    BY <1>0
  <2> QED
    BY <1>1, <2>1, Member
<1>8. LineOK(f, a, b)'
  <2>1. ASSUME NEW k \in a+1..b-1 PROVE Linking(k, f)' \/ Linked(k, f, a)'
    <3>1. (\E u \in Threads : wpc[u] = "k_turn") => \E u \in Threads : wpc'[u] = "k_turn"
      BY <1>1, <1>3
    <3>2. Linking(k, f) \/ Linked(k, f, a)
      BY DEF ListInv, LineOK
    <3> QED
      BY <1>2, <1>3, <1>4, <1>7, <3>1, <3>2 DEF Linking, Linked
  <2>2. ASSUME NEW u \in Threads, InLine(u)' PROVE \E k \in a+1..b-1 : f[k] = u
    <3>1. InLine(u)
      BY <1>2, <1>3, <1>4, <2>2 DEF InLine
    <3> QED
      BY <3>1 DEF ListInv, LineOK
  <2> QED
    BY <1>2, <2>1, <2>2 DEF ListInv, LineOK
<1>9. Leads(t)' /\ \A u \in Threads : u # t => ~ Leads(u) /\ ~ Leads(u)'
  <2>1. \A u \in Threads : ~ Leads(u)
    BY <1>5, Leader
  <2>2. Leads(t)'
    BY <1>2 DEF Leads, Forward
  <2> QED
    BY <1>2, <1>3, <2>1, <2>2 DEF Leads
<1>10. TokenOK(f, a, b)'
  <2>1. \A u \in Threads : status'[u] # "WAKE" /\ wpc'[u] # "e_wake"
    BY <1>1, <1>2, <1>3, <1>4, <1>5 DEF ListInv, TokenOK
  <2> QED
    BY <1>2, <1>5, <1>9, <2>1 DEF TokenOK
<1>11. \A n \in Threads : (Gone(n) => Gone(n)') /\ (Passed(n) => Passed(n)')
  BY <1>3, <1>4, <1>5 DEF Passed, Gone
<1>12. WakeOK(t, f, a, b, lo2, hi2)'
  <2>1. TrailOK(t, f, a, b, lo2, hi2)'
    BY <1>0, <1>1, <1>2, <1>5, <1>6 DEF TrailOK
  <2>2. PointOK(t, f, a, b, lo2, hi2)'
    BY <1>2, <1>5, <1>6, <1>9 DEF PointOK, Forward, Back, End
  <2> QED
    BY <2>1, <2>2 DEF WakeOK
<1>13. ASSUME NEW u \in Threads, u # t PROVE WakeOK(u, f, a, b, lo2, hi2)'
  <2>1. SUFFICES ASSUME wpc'[u] \in Wakes PROVE WakeOK(u, f, a, b, lo2, hi2)'
    BY DEF WakeOK
  <2>2. wpc[u] \in Wakes
    BY <1>3, <1>13, <2>1
  <2>3. Leaves(u, f, a, b, lo, hi, f, a, b, lo2, hi2)
    BY <1>0, <1>2, <1>3, <1>6, <1>9, <1>11, <1>13 DEF Leaves
  <2> QED
    BY <2>2, <2>3, Undisturbed
<1>14. CoverOK(f, lo2, hi2)'
  <2>1. SUFFICES ASSUME NEW n \in Threads, status'[n] = "CHECK"
                 PROVE  \E u \in Threads : Owes(u, n, f, lo2, hi2)'
    BY DEF CoverOK
  <2>2. PICK u \in Threads : Owes(u, n, f, lo, hi)
    BY <1>4, <2>1 DEF ListInv, CoverOK
  <2>3. wpc'[u] = wpc[u] /\ succ'[u] = succ[u] /\ lo2[u] = lo[u] /\ hi2[u] = hi[u]
    BY <1>1, <1>2, <1>3, <1>6, <2>2 DEF Owes, Wakes, Forward, Back, End
  <2> QED
    BY <2>2, <2>3, StillOwes
<1>15. ListInv(f, a, b, lo2, hi2)'
  BY <1>0, <1>6, <1>8, <1>10, <1>12, <1>13, <1>14 DEF ListInv
<1> QED
  BY <1>15, <1>l, <1>h

(* A step of a thread inside wake that neither moves the line on nor       *)
(* examines the next node.                                                 *)
Inside(t, f, a, b, hi, hi2) ==
  /\ wpc[t] \in Wakes \ {"k_turn"} /\ wpc'[t] \in (Wakes \ {"k_turn"}) \cup {"out"}
  /\ Leads(t)' <=> Leads(t)
  /\ Leads(t) => cur'[t] = cur[t]
  /\ lock' = lock
  /\ hi2 \in [Threads -> Nat] /\ \A u \in Threads : u # t => hi2[u] = hi[u]
  /\ \A n \in Threads : next'[n] = next[n] \/ (n = t /\ ~ Leads(t))
  /\ \A n \in Threads :
       \/ status'[n] = status[n]
       \/ Passed(n) /\ status'[n] = "RECYCLE" /\ \A j \in a+1..b-1 : f[j] # n

LEMMA InsidePassed ==
  ASSUME LocalInv, NEW t \in Threads, ListStep(t),
         NEW f, NEW a, NEW b, NEW hi, NEW hi2, Inside(t, f, a, b, hi, hi2)
  PROVE  \A n \in Threads : (Gone(n) => Gone(n)') /\ (Passed(n) => Passed(n)')
<1>1. /\ \A u \in Threads : u # t => wpc'[u] = wpc[u] /\ waits'[u] = waits[u]
      /\ p' = p
  BY StepFrame
<1>2. \A n \in Threads : status'[n] = status[n] \/ (Passed(n) /\ status'[n] = "RECYCLE")
  BY DEF Inside
<1>3. wpc[t] \in Wakes
  BY DEF Inside
<1>4. ~ Passed(t)
  BY <1>3 DEF LocalInv, HMPRTypeOK, PlaceOK, NodeOK, Passed, Gone, Wakes, Forward, Back, End
<1> SUFFICES ASSUME NEW n \in Threads PROVE (Gone(n) => Gone(n)') /\ (Passed(n) => Passed(n)')
  OBVIOUS
<1>5. CASE n = t
  BY <1>4, <1>5 DEF Passed
<1>6. CASE n # t
  <2>1. Gone(n) => Gone(n)'
    BY <1>1, <1>2, <1>6 DEF Gone
  <2>2. status[n] = "CHECK" => wpc[n] = "w_spin" /\ p[n] = 0
    BY DEF LocalInv, HMPRTypeOK, PlaceOK, NodeOK, WSkipTypeOK, Wakes, Forward, Back, End
  <2>3. status[n] = "CHECK" => Passed(n)'
    BY <1>1, <1>2, <1>6, <2>2 DEF Passed, Gone, Wakes, Forward, Back, End
  <2> QED
    BY <2>1, <2>3 DEF Passed
<1> QED
  BY <1>5, <1>6

LEMMA InsideList ==
  ASSUME LocalInv, LocalInv',
         NEW f, NEW a, NEW b, NEW lo, NEW hi, ListInv(f, a, b, lo, hi),
         NEW t \in Threads, ListStep(t), NEW hi2, Inside(t, f, a, b, hi, hi2),
         WakeOK(t, f, a, b, lo, hi2)',
         \A n \in Threads : status'[n] = "CHECK" /\ Owes(t, n, f, lo, hi) =>
                              Owes(t, n, f, lo, hi2)'
  PROVE  ListInv(f, a, b, lo, hi2)'
<1>0. /\ f \in [Nat -> Nodes] /\ a \in Nat /\ b \in Nat
      /\ lo \in [Threads -> Nat] /\ hi \in [Threads -> Nat]
      /\ a <= b
  BY DEF ListInv, LineOK
<1>1. /\ \A u \in Threads : u # t =>
           /\ wpc'[u] = wpc[u] /\ pred'[u] = pred[u] /\ cur'[u] = cur[u]
           /\ succ'[u] = succ[u] /\ waits'[u] = waits[u]
      /\ p' = p
  BY StepFrame
<1>2. /\ wpc[t] \in Wakes /\ wpc[t] # "k_turn" /\ wpc'[t] # "k_turn"
      /\ \A l \in {"e_link", "e_wake", "w_spin"} : wpc[t] # l /\ wpc'[t] # l
      /\ lock' = lock
  BY DEF Inside, Wakes, Forward, Back, End
<1>3. \A n \in Threads :
        \/ status'[n] = status[n]
        \/ Passed(n) /\ status'[n] = "RECYCLE" /\ \A j \in a+1..b-1 : f[j] # n
  BY DEF Inside
<1>4. \A n \in Threads : next'[n] = next[n] \/ (n = t /\ ~ Leads(t))
  BY DEF Inside
<1>5. \A u \in Threads : Leads(u)' <=> Leads(u)
  <2>1. Leads(t)' <=> Leads(t)
    BY DEF Inside
  <2> QED
    BY <1>1, <2>1 DEF Leads
<1>6. status[t] = "RECYCLE" /\ ~ Passed(t)
  BY <1>2 DEF LocalInv, HMPRTypeOK, PlaceOK, NodeOK, Passed, Gone, Wakes, Forward, Back, End
<1>7. ASSUME NEW j \in a..b-1
      PROVE  /\ f[j] \in Threads /\ next'[f[j]] = next[f[j]]
             /\ j # a => f[j] # t /\ status'[f[j]] = status[f[j]]
  <2>1. f[j] \in Threads /\ (f[j] = t => j = a /\ Leads(t))
    BY <1>2, Member
  <2>2. j # a => j \in a+1..b-1
    BY <1>0
  <2> QED
    BY <1>3, <1>4, <2>1, <2>2
<1>8. LineOK(f, a, b)'
  <2>1. ASSUME NEW k \in a+1..b-1 PROVE Linking(k, f)' \/ Linked(k, f, a)'
    <3>1. k \in a..b-1 /\ k - 1 \in a..b-1 /\ k # a
      BY <1>0
    <3>2. (\E u \in Threads : wpc[u] = "k_turn") => \E u \in Threads : wpc'[u] = "k_turn"
      BY <1>1, <1>2
    <3>3. Linking(k, f) \/ Linked(k, f, a)
      BY DEF ListInv, LineOK
    <3> QED
      BY <1>1, <1>7, <3>1, <3>2, <3>3 DEF Linking, Linked
  <2>2. ASSUME NEW u \in Threads, InLine(u)' PROVE \E k \in a+1..b-1 : f[k] = u
    <3>1. InLine(u)
      BY <1>1, <1>2, <1>3, <2>2 DEF InLine
    <3> QED
      BY <3>1 DEF ListInv, LineOK
  <2>3. a < b => next'[f[b - 1]] = NULL
    <3>1. a < b => b - 1 \in a..b-1
      BY <1>0
    <3> QED
      BY <1>7, <3>1 DEF ListInv, LineOK
  <2> QED
    BY <1>2, <2>1, <2>2, <2>3 DEF ListInv, LineOK
<1>9. TokenOK(f, a, b)'
  <2>1. \A u \in Threads : wpc'[u] = "e_wake" <=> wpc[u] = "e_wake"
    BY <1>1, <1>2
  <2>2. \A u \in Threads : status'[u] = "WAKE" <=> status[u] = "WAKE"
    BY <1>3 DEF Passed, Gone
  <2>3. a < b => f[a] \in Threads
    BY <1>0, <1>7
  <2>4. \A u \in Threads : Leads(u)' => cur'[u] = cur[u]
    BY <1>1, <1>5 DEF Inside
  <2> QED
    BY <1>5, <2>1, <2>2, <2>3, <2>4 DEF ListInv, TokenOK
<1>10. \A n \in Threads : (Gone(n) => Gone(n)') /\ (Passed(n) => Passed(n)')
  BY InsidePassed
<1>11. ASSUME NEW u \in Threads, u # t PROVE WakeOK(u, f, a, b, lo, hi2)'
  <2>1. SUFFICES ASSUME wpc'[u] \in Wakes PROVE WakeOK(u, f, a, b, lo, hi2)'
    BY DEF WakeOK
  <2>2. wpc[u] \in Wakes /\ next'[u] = next[u] /\ hi2[u] = hi[u]
    BY <1>1, <1>4, <1>11, <2>1 DEF Inside
  <2>3. \A n \in Threads : Passed(n) => next'[n] = next[n]
    BY <1>4, <1>6
  <2>4. Leads(u) => next'[f[a]] = next[f[a]]
    <3>1. Leads(u) => a \in a..b-1
      BY Leader
    <3> QED
      BY <1>7, <3>1
  <2>5. Aims(u, f, a, b) => status'[succ[u]] = status[succ[u]]
    <3>1. Aims(u, f, a, b) => a + 1 \in a..b-1 /\ a + 1 # a
      BY <1>0 DEF Aims
    <3> QED
      BY <1>7, <3>1 DEF Aims
  <2>6. Leaves(u, f, a, b, lo, hi, f, a, b, lo, hi2)
    BY <1>0, <1>1, <1>10, <1>11, <2>2, <2>3, <2>4, <2>5 DEF Leaves
  <2> QED
    BY <2>2, <2>6, Undisturbed
<1>12. CoverOK(f, lo, hi2)'
  <2>1. SUFFICES ASSUME NEW n \in Threads, status'[n] = "CHECK"
                 PROVE  \E u \in Threads : Owes(u, n, f, lo, hi2)'
    BY DEF CoverOK
  <2>2. PICK u \in Threads : Owes(u, n, f, lo, hi)
    BY <1>3, <2>1 DEF ListInv, CoverOK
  <2>3. CASE u = t
    BY <2>1, <2>2, <2>3
  <2>4. CASE u # t
    <3>1. wpc'[u] = wpc[u] /\ succ'[u] = succ[u] /\ hi2[u] = hi[u]
      BY <1>1, <2>4 DEF Inside
    <3> QED
      BY <2>2, <3>1, StillOwes
  <2> QED
    BY <2>3, <2>4
<1> QED
  BY <1>0, <1>8, <1>9, <1>11, <1>12 DEF ListInv, Inside

(* Such a step keeps the way back, or goes a step of it. *)
LEMMA InsideTrail ==
  ASSUME LocalInv,
         NEW f, NEW a, NEW b, NEW lo, NEW hi, ListInv(f, a, b, lo, hi),
         NEW t \in Threads, ListStep(t), NEW hi2, Inside(t, f, a, b, hi, hi2),
         next' = next, lo[t] <= hi2[t], hi2[t] <= hi[t],
         pred'[t] = IF hi2[t] = lo[t] THEN NULL ELSE f[hi2[t] - 1]
  PROVE  TrailOK(t, f, a, b, lo, hi2)'
<1>0. /\ f \in [Nat -> Nodes] /\ a \in Nat /\ b \in Nat
      /\ lo[t] \in Nat /\ hi[t] \in Nat /\ hi2[t] \in Nat
  BY DEF ListInv, Inside
<1>1. TrailOK(t, f, a, b, lo, hi)
  BY DEF ListInv, WakeOK, Inside
<1>2. hi2[t] <= a /\ hi2[t] < b /\ f[lo[t]] = t /\ (hi2[t] > lo[t] => next[t] = NULL)
  BY <1>0, <1>1 DEF TrailOK
<1>3. ASSUME NEW k \in lo[t]+1..hi2[t]
      PROVE  Passed(f[k])' /\ \A j \in a..b-1 : f[j] = f[k] => j = k
  <2>1. k \in lo[t]+1..hi[t]
    BY <1>0
  <2>2. Passed(f[k]) /\ f[k] \in Threads /\ \A j \in a..b-1 : f[j] = f[k] => j = k
    BY <1>1, <2>1 DEF TrailOK, Passed
  <2> QED
    BY <2>2, InsidePassed
<1>4. ASSUME NEW k \in lo[t]+1..hi2[t]-1 PROVE next[f[k]] = f[k - 1]
  <2>1. k \in lo[t]+1..hi[t]-1
    BY <1>0
  <2> QED
    BY <1>1, <2>1 DEF TrailOK
<1> QED
  BY <1>2, <1>3, <1>4 DEF TrailOK

(* Where a thread inside wake is, and where its way back begins. *)
LEMMA Way ==
  ASSUME LocalInv,
         NEW f, NEW a, NEW b, NEW lo, NEW hi, ListInv(f, a, b, lo, hi),
         NEW t \in Threads, wpc[t] \in Wakes
  PROVE  /\ node[t] = t /\ status[t] = "RECYCLE" /\ pc[t] = "r_low"
         /\ TrailOK(t, f, a, b, lo, hi) /\ PointOK(t, f, a, b, lo, hi)
         /\ lo[t] \in Nat /\ hi[t] \in Nat /\ a \in Nat /\ b \in Nat
         /\ lo[t] <= hi[t] /\ hi[t] <= a /\ hi[t] < b
         /\ pred[t] = IF hi[t] = lo[t] THEN NULL ELSE f[hi[t] - 1]
         /\ pred[t] = NULL <=> hi[t] = lo[t]
         /\ hi[t] # lo[t] =>
              /\ Passed(f[hi[t]]) /\ f[hi[t] - 1] \in Threads
              /\ hi[t] - 1 = lo[t] => pred[t] = t /\ next[t] = NULL
              /\ hi[t] - 1 # lo[t] =>
                   Passed(f[hi[t] - 1]) /\ next[f[hi[t] - 1]] = f[hi[t] - 2]
         /\ \A k \in lo[t]+1..hi[t] : \A j \in a+1..b-1 : f[j] # f[k]
<1>0. /\ f \in [Nat -> Nodes] /\ a \in Nat /\ b \in Nat
      /\ lo[t] \in Nat /\ hi[t] \in Nat
  BY DEF ListInv
<1>1. TrailOK(t, f, a, b, lo, hi) /\ PointOK(t, f, a, b, lo, hi)
  BY DEF ListInv, WakeOK
<1>2. node[t] = t /\ status[t] = "RECYCLE" /\ pc[t] = "r_low"
  BY DEF LocalInv, HMPRTypeOK, PlaceOK, NodeOK, Wakes, Forward, Back, End
<1>3. /\ lo[t] <= hi[t] /\ hi[t] <= a /\ hi[t] < b
      /\ pred[t] = IF hi[t] = lo[t] THEN NULL ELSE f[hi[t] - 1]
  BY <1>1 DEF TrailOK
<1>4. hi[t] # lo[t] =>
              /\ Passed(f[hi[t]]) /\ f[hi[t] - 1] \in Threads
              /\ hi[t] - 1 = lo[t] => pred[t] = t /\ next[t] = NULL
              /\ hi[t] - 1 # lo[t] =>
                   Passed(f[hi[t] - 1]) /\ next[f[hi[t] - 1]] = f[hi[t] - 2]
  <2> SUFFICES ASSUME hi[t] # lo[t]
               PROVE  /\ Passed(f[hi[t]]) /\ f[hi[t] - 1] \in Threads
                      /\ hi[t] - 1 = lo[t] => pred[t] = t /\ next[t] = NULL
                      /\ hi[t] - 1 # lo[t] =>
                           Passed(f[hi[t] - 1]) /\ next[f[hi[t] - 1]] = f[hi[t] - 2]
    OBVIOUS
  <2>1. hi[t] > lo[t] /\ hi[t] \in lo[t]+1..hi[t] /\ hi[t] - 1 \in 0..b-1
    BY <1>0, <1>3
  <2>2. Passed(f[hi[t]]) /\ f[hi[t] - 1] \in Threads
    BY <1>1, <2>1 DEF TrailOK, ListInv, LineOK
  <2>3. CASE hi[t] - 1 = lo[t]
    BY <1>1, <1>3, <2>1, <2>2, <2>3 DEF TrailOK
  <2>4. CASE hi[t] - 1 # lo[t]
    <3>1. /\ hi[t] - 1 \in lo[t]+1..hi[t] /\ hi[t] - 1 \in lo[t]+1..hi[t]-1
          /\ hi[t] - 1 - 1 = hi[t] - 2
      BY <1>0, <1>3, <2>1, <2>4
    <3>2. Passed(f[hi[t] - 1]) /\ next[f[hi[t] - 1]] = f[hi[t] - 1 - 1]
      BY <1>1, <3>1 DEF TrailOK
    <3> QED
      BY <2>2, <2>4, <3>1, <3>2
  <2> QED
    BY <2>3, <2>4
<1>5. pred[t] = NULL <=> hi[t] = lo[t]
  BY <1>3, <1>4, Names
<1>6. ASSUME NEW k \in lo[t]+1..hi[t], NEW j \in a+1..b-1 PROVE f[j] # f[k]
  <2>1. j \in a..b-1 /\ j # k
    BY <1>0, <1>3
  <2> QED
    BY <1>1, <2>1 DEF TrailOK
<1> QED
  BY <1>0, <1>1, <1>2, <1>3, <1>4, <1>5, <1>6

(* The traversal reads a link, and its compare-and-swap fails. *)
LEMMA NextList ==
  ASSUME LocalInv, LocalInv',
         NEW f, NEW a, NEW b, NEW lo, NEW hi, ListInv(f, a, b, lo, hi),
         NEW t \in Threads, ListStep(t), WakeNext(t)
  PROVE  ListInv(f, a, b, lo, hi)'
<1>1. /\ wpc[t] = "k_next" /\ wpc[t] \in Wakes /\ Leads(t)
      /\ hi \in [Threads -> Nat]
  BY DEF WakeNext, Wakes, Forward, Leads, ListInv
<1>2. /\ lock' = lock /\ next' = next /\ status' = status /\ pred' = pred /\ cur' = cur
      /\ succ'[t] = next[cur[t]]
      /\ wpc'[t] = IF next[cur[t]] = NULL THEN "k_recycle" ELSE "k_cas"
  BY <1>1, Leader, Names DEF WakeNext, WGoto, LocalInv, HMPRTypeOK, WSkipTypeOK
<1>3. Leads(t)' /\ wpc'[t] \in Wakes \ {"k_turn"} /\ wpc[t] \in Wakes \ {"k_turn"}
  BY <1>1, <1>2 DEF Leads, Wakes, Forward
<1>4. Inside(t, f, a, b, hi, hi)
  BY <1>1, <1>2, <1>3 DEF Inside
<1>5. TrailOK(t, f, a, b, lo, hi)'
  BY <1>1, <1>2, <1>4, Way, InsideTrail
<1>6. PointOK(t, f, a, b, lo, hi)'
  <2>1. cur[t] = f[hi[t]] /\ hi[t] = a
    BY <1>1, Way DEF PointOK, Forward
  <2>2. next[cur[t]] # NULL => a + 1 < b /\ succ'[t] = f[a + 1] /\ next[f[a]] = f[a + 1]
    <3>1. a < b /\ cur[t] = f[a]
      BY <1>1, Leader
    <3> QED
      BY <1>2, <3>1, Second
  <2> QED
    BY <1>2, <1>3, <2>1, <2>2 DEF PointOK, Forward, Back, End
<1>7. \A n \in Threads : Owes(t, n, f, lo, hi) => Owes(t, n, f, lo, hi)'
  BY <1>1, <1>2, <1>3 DEF Owes, Forward
<1>8. WakeOK(t, f, a, b, lo, hi)'
  BY <1>5, <1>6 DEF WakeOK
<1> QED
  BY <1>4, <1>7, <1>8, InsideList

LEMMA CASFailsList ==
  ASSUME LocalInv, LocalInv',
         NEW f, NEW a, NEW b, NEW lo, NEW hi, ListInv(f, a, b, lo, hi),
         NEW t \in Threads, ListStep(t), WakeCAS(t), status[succ[t]] # "WAIT"
  PROVE  ListInv(f, a, b, lo, hi)'
<1>1. /\ wpc[t] = "k_cas" /\ wpc[t] \in Wakes /\ Leads(t)
      /\ hi \in [Threads -> Nat]
  BY DEF WakeCAS, Wakes, Forward, Leads, ListInv
<1>2. /\ lock' = lock /\ next' = next /\ status' = status /\ pred' = pred /\ cur' = cur
      /\ succ' = succ /\ wpc'[t] = "k_check"
  BY <1>1 DEF WakeCAS, WGoto, LocalInv, HMPRTypeOK, WSkipTypeOK
<1>3. Leads(t)' /\ wpc'[t] \in Wakes \ {"k_turn"} /\ wpc[t] \in Wakes \ {"k_turn"}
  BY <1>1, <1>2 DEF Leads, Wakes, Forward
<1>4. Inside(t, f, a, b, hi, hi)
  BY <1>1, <1>2, <1>3 DEF Inside
<1>5. TrailOK(t, f, a, b, lo, hi)'
  BY <1>1, <1>2, <1>4, Way, InsideTrail
<1>6. PointOK(t, f, a, b, lo, hi)'
  <2>1. /\ cur[t] = f[hi[t]] /\ hi[t] = a
        /\ a + 1 < b /\ succ[t] = f[a + 1] /\ next[f[a]] = f[a + 1]
    BY <1>1, Way DEF PointOK, Forward
  <2>2. status[succ[t]] = "SKIP"
    <3>1. a \in Nat /\ b \in Nat
      BY DEF ListInv
    <3>2. a < b
      BY <2>1, <3>1
    <3>3. next[f[a]] # NULL
      <4>1. a + 1 \in 0..b-1
        BY <2>1, <3>1
      <4> QED
        BY <2>1, <4>1, Names DEF ListInv, LineOK
    <3>4. Linked(a + 1, f, a)
      BY <3>2, <3>3, Second
    <3>5. \A u \in Threads : wpc[u] # "k_turn"
      <4> SUFFICES ASSUME NEW u \in Threads, wpc[u] = "k_turn" PROVE FALSE
        OBVIOUS
      <4>1. Leads(u)
        BY DEF Leads, Forward
      <4>2. u = t
        BY <1>1, <4>1, Leader
      <4> QED
        BY <1>1, <4>2
    <3> QED
      BY <2>1, <3>4, <3>5 DEF Linked
  <2> QED
    BY <1>2, <1>3, <2>1, <2>2 DEF PointOK, Forward, Back, End
<1>7. \A n \in Threads : Owes(t, n, f, lo, hi) => Owes(t, n, f, lo, hi)'
  BY <1>1, <1>2, <1>3 DEF Owes, Forward
<1>8. WakeOK(t, f, a, b, lo, hi)'
  BY <1>5, <1>6 DEF WakeOK
<1> QED
  BY <1>4, <1>7, <1>8, InsideList

(* The last node passed is let go. *)
LEMMA RecycleList ==
  ASSUME LocalInv, LocalInv',
         NEW f, NEW a, NEW b, NEW lo, NEW hi, ListInv(f, a, b, lo, hi),
         NEW t \in Threads, ListStep(t), WakeRecycle(t)
  PROVE  ListInv(f, a, b, lo, hi)'
<1>1. wpc[t] = "k_recycle" /\ wpc[t] \in Wakes /\ hi \in [Threads -> Nat]
  BY DEF WakeRecycle, Wakes, ListInv
<1>2. /\ cur[t] = f[hi[t]] /\ (hi[t] = a <=> Leads(t))
      /\ lo[t] \in Nat /\ hi[t] \in Nat /\ lo[t] <= hi[t]
      /\ pred[t] = NULL <=> hi[t] = lo[t]
      /\ hi[t] = lo[t] => cur[t] = t /\ status[t] = "RECYCLE"
      /\ hi[t] # lo[t] => Passed(cur[t]) /\ \A j \in a+1..b-1 : f[j] # cur[t]
  <2>1. cur[t] = f[hi[t]] /\ (hi[t] = a <=> Leads(t))
    BY <1>1, Way DEF PointOK
  <2>2. lo[t] \in Nat /\ hi[t] \in Nat /\ lo[t] <= hi[t]
    BY <1>1, Way
  <2>3. hi[t] = lo[t] => cur[t] = t /\ status[t] = "RECYCLE"
    BY <1>1, <2>1, Way DEF TrailOK
  <2>4. hi[t] # lo[t] => hi[t] \in lo[t]+1..hi[t]
    BY <2>2
  <2>5. hi[t] # lo[t] => Passed(cur[t]) /\ \A j \in a+1..b-1 : f[j] # cur[t]
    BY <1>1, <2>1, <2>4, Way
  <2>6. pred[t] = NULL <=> hi[t] = lo[t]
    BY <1>1, Way
  <2> QED
    BY <2>1, <2>2, <2>3, <2>5, <2>6
<1>3. /\ lock' = lock /\ next' = next /\ pred' = pred /\ cur' = cur /\ succ' = succ
      /\ wpc'[t] = IF hi[t] # lo[t] THEN "k_rev"
                   ELSE IF succ[t] = NULL THEN "k_tail" ELSE "k_clear"
      /\ status' = [status EXCEPT ![cur[t]] = "RECYCLE"]
  BY <1>1, <1>2 DEF WakeRecycle, Recycled, SetStatus, WGoto, LocalInv, HMPRTypeOK, WSkipTypeOK
<1>4. /\ status'[cur[t]] = "RECYCLE" /\ cur[t] \in Threads
      /\ \A n \in Threads : n # cur[t] => status'[n] = status[n]
  BY <1>2, <1>3, Names DEF LocalInv, HMPRTypeOK, WSkipTypeOK, Passed
<1>5. /\ Leads(t)' <=> Leads(t)
      /\ wpc'[t] \in Wakes \ {"k_turn"} /\ wpc[t] \in Wakes \ {"k_turn"}
  BY <1>1, <1>3 DEF Leads, Wakes, Forward, Back, End
<1>6. Inside(t, f, a, b, hi, hi)
  <2>1. \A n \in Threads : \/ status'[n] = status[n]
                           \/ Passed(n) /\ status'[n] = "RECYCLE" /\ \A j \in a+1..b-1 : f[j] # n
    BY <1>2, <1>4
  <2> QED
    BY <1>1, <1>3, <1>5, <2>1 DEF Inside
<1>7. TrailOK(t, f, a, b, lo, hi)'
  BY <1>1, <1>3, <1>6, Way, InsideTrail
<1>8. PointOK(t, f, a, b, lo, hi)'
  <2>1. hi[t] # lo[t] => Gone(cur[t])'
    <3>1. PICK n \in Threads : n = cur[t]
      BY <1>4
    <3>2. hi[t] # lo[t] => Gone(n)'
      BY <1>2, <1>4, <1>6, <3>1, InsidePassed DEF Passed
    <3> QED
      BY <1>3, <3>1, <3>2 DEF Gone
  <2>2. hi[t] # lo[t] => hi[t] > lo[t]
    BY <1>2
  <2> QED
    BY <1>2, <1>3, <2>1, <2>2 DEF PointOK, Forward, Back, End
<1>9. \A n \in Threads : status'[n] = "CHECK" /\ Owes(t, n, f, lo, hi) => Owes(t, n, f, lo, hi)'
  BY <1>1, <1>2, <1>3, <1>4, <1>5 DEF Owes, Forward
<1>10. WakeOK(t, f, a, b, lo, hi)'
  BY <1>7, <1>8 DEF WakeOK
<1> QED
  BY <1>6, <1>9, <1>10, InsideList

(* On the way back: a node is let go, or taken back last. *)
LEMMA RevList ==
  ASSUME LocalInv, LocalInv',
         NEW f, NEW a, NEW b, NEW lo, NEW hi, ListInv(f, a, b, lo, hi),
         NEW t \in Threads, ListStep(t), WakeRev(t)
  PROVE  ListInv(f, a, b, lo, hi)'
<1>1. wpc[t] = "k_rev" /\ wpc[t] \in Wakes /\ hi \in [Threads -> Nat]
  BY DEF WakeRev, WAt, Wakes, Back, ListInv
<1>2. /\ hi[t] > lo[t] /\ hi[t] # lo[t] /\ lo[t] \in Nat /\ hi[t] \in Nat /\ lo[t] <= hi[t]
      /\ succ[t] = NULL => Gone(cur[t])
  <2>1. lo[t] \in Nat /\ hi[t] \in Nat /\ lo[t] <= hi[t]
    BY <1>1, Way
  <2>2. hi[t] > lo[t] /\ (succ[t] = NULL => Gone(cur[t]))
    BY <1>1, Way DEF PointOK, Back
  <2> QED
    BY <2>1, <2>2
<1>3. \/ pred[t] = t /\ status[t] = "RECYCLE"
      \/ Passed(pred[t]) /\ \A j \in a+1..b-1 : f[j] # pred[t]
  <2>1. pred[t] = f[hi[t] - 1] /\ status[t] = "RECYCLE"
    BY <1>1, <1>2, Way
  <2>2. CASE hi[t] - 1 = lo[t]
    BY <1>1, <1>2, <2>1, <2>2, Way
  <2>3. CASE hi[t] - 1 # lo[t]
    <3>1. hi[t] - 1 \in lo[t]+1..hi[t]
      BY <1>2, <2>3
    <3> QED
      BY <1>1, <1>2, <2>1, <2>3, <3>1, Way
  <2> QED
    BY <2>2, <2>3
<1>4. /\ lock' = lock /\ next' = next /\ pred' = pred /\ cur' = cur /\ succ' = succ
      /\ wpc'[t] = "k_revnext"
      /\ status' = [status EXCEPT ![pred[t]] = "RECYCLE"]
  BY <1>1 DEF WakeRev, WAt, SetStatus, WGoto, LocalInv, HMPRTypeOK, WSkipTypeOK
<1>5. /\ status'[pred[t]] = "RECYCLE" /\ pred[t] \in Threads
      /\ \A n \in Threads : n # pred[t] => status'[n] = status[n]
  BY <1>3, <1>4, Names DEF LocalInv, HMPRTypeOK, WSkipTypeOK, Passed
<1>6. /\ Leads(t)' <=> Leads(t)
      /\ wpc'[t] \in Wakes \ {"k_turn"} /\ wpc[t] \in Wakes \ {"k_turn"}
  BY <1>1, <1>4 DEF Leads, Wakes, Forward, Back, End
<1>7. Inside(t, f, a, b, hi, hi)
  <2>1. \A n \in Threads : \/ status'[n] = status[n]
                           \/ Passed(n) /\ status'[n] = "RECYCLE" /\ \A j \in a+1..b-1 : f[j] # n
    BY <1>3, <1>5
  <2> QED
    BY <1>1, <1>4, <1>6, <2>1 DEF Inside
<1>8. TrailOK(t, f, a, b, lo, hi)'
  BY <1>1, <1>4, <1>7, Way, InsideTrail
<1>9. PointOK(t, f, a, b, lo, hi)'
  <2>1. succ[t] = NULL => Gone(cur[t])'
    BY <1>2, <1>4, <1>7, InsidePassed DEF Gone
  <2> QED
    BY <1>2, <1>4, <1>5, <2>1 DEF PointOK, Forward, Back, End
<1>10. \A n \in Threads : Owes(t, n, f, lo, hi) => Owes(t, n, f, lo, hi)'
  BY <1>1, <1>4, <1>6 DEF Owes, Forward
<1>11. WakeOK(t, f, a, b, lo, hi)'
  BY <1>8, <1>9 DEF WakeOK
<1> QED
  BY <1>7, <1>10, <1>11, InsideList

LEMMA RevNextList ==
  ASSUME LocalInv, LocalInv',
         NEW f, NEW a, NEW b, NEW lo, NEW hi, ListInv(f, a, b, lo, hi),
         NEW t \in Threads, ListStep(t), WakeRevNext(t)
  PROVE  ListInv(f, a, b, lo, [hi EXCEPT ![t] = @ - 1])'
<1>1. wpc[t] = "k_revnext" /\ wpc[t] \in Wakes /\ hi \in [Threads -> Nat]
  BY DEF WakeRevNext, Wakes, Back, ListInv
<1>2. /\ hi[t] > lo[t] /\ hi[t] # lo[t] /\ lo[t] \in Nat /\ hi[t] \in Nat /\ lo[t] <= hi[t]
      /\ succ[t] = NULL => Gone(cur[t])
      /\ status[pred[t]] = "RECYCLE" /\ pred[t] = f[hi[t] - 1] /\ pred[t] \in Threads
  <2>1. lo[t] \in Nat /\ hi[t] \in Nat /\ lo[t] <= hi[t]
    BY <1>1, Way
  <2>2. /\ hi[t] > lo[t] /\ (succ[t] = NULL => Gone(cur[t]))
        /\ status[pred[t]] = "RECYCLE"
    BY <1>1, Way DEF PointOK, Back
  <2>3. pred[t] = f[hi[t] - 1] /\ pred[t] \in Threads
    BY <1>1, <2>1, <2>2, Way
  <2> QED
    BY <2>1, <2>2, <2>3
<1>h. PICK hi2 : hi2 = [hi EXCEPT ![t] = @ - 1]
  OBVIOUS
<1>3. /\ hi2 \in [Threads -> Nat] /\ hi2[t] = hi[t] - 1
      /\ \A u \in Threads : u # t => hi2[u] = hi[u]
      /\ lo[t] <= hi2[t] /\ hi2[t] <= hi[t]
  <2>1. hi[t] - 1 \in Nat /\ lo[t] <= hi[t] - 1 /\ hi[t] - 1 <= hi[t]
    BY <1>2
  <2> QED
    BY <1>1, <1>h, <2>1
<1>4. /\ lock' = lock /\ next' = next /\ status' = status /\ cur' = cur /\ succ' = succ
      /\ pred'[t] = next[pred[t]]
      /\ wpc'[t] = IF next[pred[t]] # NULL THEN "k_rev"
                   ELSE IF succ[t] = NULL THEN "k_tail" ELSE "k_clear"
  BY <1>1, <1>2, Names DEF WakeRevNext, Recycled, WGoto, LocalInv, HMPRTypeOK, WSkipTypeOK
<1>5. /\ next[pred[t]] = IF hi2[t] = lo[t] THEN NULL ELSE f[hi2[t] - 1]
      /\ next[pred[t]] = NULL <=> hi2[t] = lo[t]
  <2>1. CASE hi[t] - 1 = lo[t]
    <3>1. pred[t] = t /\ next[t] = NULL
      BY <1>1, <1>2, <2>1, Way
    <3> QED
      BY <1>3, <2>1, <3>1
  <2>2. CASE hi[t] - 1 # lo[t]
    <3>1. next[pred[t]] = f[hi[t] - 2] /\ hi[t] < b /\ b \in Nat
      BY <1>1, <1>2, <2>2, Way
    <3>2. hi[t] - 2 \in 0..b-1 /\ hi2[t] - 1 = hi[t] - 2
      BY <1>2, <1>3, <2>2, <3>1
    <3>3. f[hi[t] - 2] # NULL
      BY <3>2, Names DEF ListInv, LineOK
    <3> QED
      BY <1>3, <2>2, <3>1, <3>2, <3>3
  <2> QED
    BY <2>1, <2>2
<1>6. /\ Leads(t)' <=> Leads(t)
      /\ wpc'[t] \in Wakes \ {"k_turn"} /\ wpc[t] \in Wakes \ {"k_turn"}
  BY <1>1, <1>4 DEF Leads, Wakes, Forward, Back, End
<1>7. Inside(t, f, a, b, hi, hi2)
  BY <1>3, <1>4, <1>6 DEF Inside
<1>8. TrailOK(t, f, a, b, lo, hi2)'
  <2>1. pred'[t] = IF hi2[t] = lo[t] THEN NULL ELSE f[hi2[t] - 1]
    BY <1>4, <1>5
  <2> QED
    BY <1>3, <1>4, <1>7, <2>1, InsideTrail
<1>9. PointOK(t, f, a, b, lo, hi2)'
  <2>1. succ[t] = NULL => Gone(cur[t])'
    BY <1>2, <1>4, <1>7, InsidePassed DEF Gone
  <2>2. hi2[t] # lo[t] => hi2[t] > lo[t]
    BY <1>2, <1>3
  <2> QED
    BY <1>4, <1>5, <2>1, <2>2 DEF PointOK, Forward, Back, End
<1>10. ASSUME NEW n \in Threads, status'[n] = "CHECK", Owes(t, n, f, lo, hi)
       PROVE  Owes(t, n, f, lo, hi2)'
  <2>1. PICK k \in lo[t]+1..hi[t]-1 : n = f[k]
    BY <1>1, <1>10 DEF Owes, Forward
  <2>2. k # hi[t] - 1
    BY <1>2, <1>4, <1>10, <2>1
  <2>3. k \in lo[t]+1..hi2[t]-1
    BY <1>2, <1>3, <2>2
  <2> QED
    BY <1>6, <2>1, <2>3 DEF Owes
<1>11. WakeOK(t, f, a, b, lo, hi2)'
  BY <1>8, <1>9 DEF WakeOK
<1>12. ListInv(f, a, b, lo, hi2)'
  BY <1>7, <1>10, <1>11, InsideList
<1> QED
  BY <1>12, <1>h

(* The end of the line moved on, and the next node is linked by now. *)
LEMMA TailFailsList ==
  ASSUME LocalInv, LocalInv',
         NEW f, NEW a, NEW b, NEW lo, NEW hi, ListInv(f, a, b, lo, hi),
         NEW t \in Threads, ListStep(t), WakeTail(t), lock # cur[t]
  PROVE  ListInv(f, a, b, lo, hi)'
<1>1. /\ wpc[t] = "k_tail" /\ wpc[t] \in Wakes /\ Leads(t)
      /\ hi \in [Threads -> Nat] /\ a \in Nat /\ b \in Nat
  BY DEF WakeTail, Wakes, End, Leads, ListInv
<1>2. /\ lock' = lock /\ next' = next /\ status' = status /\ pred' = pred /\ cur' = cur
      /\ succ' = succ /\ wpc'[t] = "k_wait"
  BY <1>1 DEF WakeTail, WGoto, LocalInv, HMPRTypeOK, WSkipTypeOK
<1>3. Leads(t)' /\ wpc'[t] \in Wakes \ {"k_turn"} /\ wpc[t] \in Wakes \ {"k_turn"}
  BY <1>1, <1>2 DEF Leads, Wakes, End
<1>4. Inside(t, f, a, b, hi, hi)
  BY <1>1, <1>2, <1>3 DEF Inside
<1>5. TrailOK(t, f, a, b, lo, hi)'
  BY <1>1, <1>2, <1>4, Way, InsideTrail
<1>6. PointOK(t, f, a, b, lo, hi)'
  <2>1. a < b /\ cur[t] = f[a]
    BY <1>1, Leader
  <2>2. lock = f[b - 1] /\ b - 1 # a
    BY <1>1, <2>1 DEF ListInv, LineOK
  <2>3. a + 1 < b
    BY <1>1, <2>1, <2>2
  <2>4. hi[t] = lo[t] /\ (cur[t] = t \/ Gone(cur[t]))
    BY <1>1, Way DEF PointOK, End
  <2>5. cur[t] = t \/ Gone(cur[t])'
    BY <1>2, <1>4, <2>4, InsidePassed DEF Gone
  <2> QED
    BY <1>2, <2>3, <2>4, <2>5 DEF PointOK, Forward, Back, End
<1>7. \A n \in Threads : status'[n] = "CHECK" /\ Owes(t, n, f, lo, hi) => Owes(t, n, f, lo, hi)'
  BY <1>1, <1>2, <1>3 DEF Owes, Forward
<1>8. WakeOK(t, f, a, b, lo, hi)'
  BY <1>5, <1>6 DEF WakeOK
<1> QED
  BY <1>4, <1>7, <1>8, InsideList

LEMMA WaitList ==
  ASSUME LocalInv, LocalInv',
         NEW f, NEW a, NEW b, NEW lo, NEW hi, ListInv(f, a, b, lo, hi),
         NEW t \in Threads, ListStep(t), WakeWait(t)
  PROVE  ListInv(f, a, b, lo, hi)'
<1>1. /\ wpc[t] = "k_wait" /\ wpc[t] \in Wakes /\ Leads(t)
      /\ hi \in [Threads -> Nat]
  BY DEF WakeWait, WAt, Wakes, End, Leads, ListInv
<1>2. /\ lock' = lock /\ next' = next /\ status' = status /\ pred' = pred /\ cur' = cur
      /\ succ'[t] = next[cur[t]] /\ wpc'[t] = "k_grant" /\ next[cur[t]] # NULL
  BY <1>1, Leader, Names DEF WakeWait, WAt, WGoto, LocalInv, HMPRTypeOK, WSkipTypeOK
<1>3. Leads(t)' /\ wpc'[t] \in Wakes \ {"k_turn"} /\ wpc[t] \in Wakes \ {"k_turn"}
  BY <1>1, <1>2 DEF Leads, Wakes, End
<1>4. Inside(t, f, a, b, hi, hi)
  BY <1>1, <1>2, <1>3 DEF Inside
<1>5. TrailOK(t, f, a, b, lo, hi)'
  BY <1>1, <1>2, <1>4, Way, InsideTrail
<1>6. PointOK(t, f, a, b, lo, hi)'
  <2>1. a < b /\ cur[t] = f[a]
    BY <1>1, Leader
  <2>2. a + 1 < b /\ succ'[t] = f[a + 1] /\ next[f[a]] = f[a + 1]
    BY <1>2, <2>1, Second
  <2>3. hi[t] = lo[t] /\ (cur[t] = t \/ Gone(cur[t]))
    BY <1>1, Way DEF PointOK, End
  <2>4. cur[t] = t \/ Gone(cur[t])'
    BY <1>2, <1>4, <2>3, InsidePassed DEF Gone
  <2> QED
    BY <1>2, <2>2, <2>3, <2>4 DEF PointOK, Forward, Back, End
<1>7. ASSUME NEW n \in Threads, Owes(t, n, f, lo, hi) PROVE Owes(t, n, f, lo, hi)'
  BY <1>1, <1>2, <1>3, <1>7 DEF Owes, Forward
<1>8. WakeOK(t, f, a, b, lo, hi)'
  BY <1>5, <1>6 DEF WakeOK
<1> QED
  BY <1>4, <1>7, <1>8, InsideList

(* The last store of wake, to its own node. *)
LEMMA ClearList ==
  ASSUME LocalInv, LocalInv',
         NEW f, NEW a, NEW b, NEW lo, NEW hi, ListInv(f, a, b, lo, hi),
         NEW t \in Threads, ListStep(t), WakeClear(t)
  PROVE  ListInv(f, a, b, lo, hi)'
<1>1. /\ wpc[t] = "k_clear" /\ wpc[t] \in Wakes /\ ~ Leads(t)
      /\ hi \in [Threads -> Nat]
  BY DEF WakeClear, Wakes, Forward, Back, End, Leads, ListInv
<1>2. node[t] = t /\ hi[t] = lo[t] /\ lo[t] \in Nat
  BY <1>1, Way DEF PointOK, End
<1>3. /\ lock' = lock /\ status' = status /\ wpc'[t] = "out"
      /\ \A n \in Threads : n # t => next'[n] = next[n]
  BY <1>1, <1>2, Names DEF WakeClear, Return, SetNext, WGoto, LocalInv, HMPRTypeOK, WSkipTypeOK
<1>4. ~ Leads(t)' /\ wpc[t] \in Wakes \ {"k_turn"}
  BY <1>1, <1>3 DEF Leads, Wakes, Forward, Back, End
<1>5. Inside(t, f, a, b, hi, hi)
  BY <1>1, <1>3, <1>4 DEF Inside
<1>6. ASSUME NEW n \in Threads PROVE ~ Owes(t, n, f, lo, hi)
  <2>1. lo[t]+1..hi[t]-1 = {}
    BY <1>2
  <2> QED
    BY <1>1, <1>2, <2>1 DEF Owes, Forward
<1>7. WakeOK(t, f, a, b, lo, hi)'
  BY <1>3 DEF WakeOK, Wakes, Forward, Back, End
<1> QED
  BY <1>5, <1>6, <1>7, InsideList

(* What the thread that leads knows of the next node. *)
LEMMA Target ==
  ASSUME LocalInv,
         NEW f, NEW a, NEW b, NEW lo, NEW hi, ListInv(f, a, b, lo, hi),
         NEW t \in Threads, wpc[t] \in {"k_cas", "k_check", "k_turn", "k_grant"}
  PROVE  /\ wpc[t] \in Wakes /\ Leads(t)
         /\ f \in [Nat -> Nodes] /\ a \in Nat /\ b \in Nat
         /\ lo \in [Threads -> Nat] /\ hi \in [Threads -> Nat]
         /\ a + 1 < b /\ succ[t] = f[a + 1] /\ next[f[a]] = f[a + 1]
         /\ f[a] \in Threads /\ f[a + 1] \in Threads /\ f[a + 1] # f[a] /\ f[a + 1] # t
         /\ wpc[f[a + 1]] = "w_spin" /\ Linked(a + 1, f, a)
         /\ wpc[t] # "k_turn" => status[f[a + 1]] \in {"WAIT", "SKIP"}
         /\ \A u \in Threads : u # t => ~ Leads(u)
         /\ \A u \in Threads : status[u] # "WAKE" /\ wpc[u] # "e_wake"
<1>1. wpc[t] \in Wakes /\ Leads(t)
  BY DEF Wakes, Forward, Leads, End
<1>2. /\ f \in [Nat -> Nodes] /\ a \in Nat /\ b \in Nat
      /\ lo \in [Threads -> Nat] /\ hi \in [Threads -> Nat]
  BY DEF ListInv
<1>3. a + 1 < b /\ succ[t] = f[a + 1] /\ next[f[a]] = f[a + 1]
  BY <1>1, Way DEF PointOK
<1>4. a < b /\ a + 1 \in 0..b-1 /\ a \in 0..b-1
  BY <1>2, <1>3
<1>5. f[a + 1] # NULL /\ f[a] \in Threads
  BY <1>4, Names DEF ListInv, LineOK
<1>6. /\ f[a + 1] \in Threads /\ f[a + 1] # f[a]
      /\ wpc[f[a + 1]] = "w_spin" /\ Linked(a + 1, f, a)
  BY <1>3, <1>4, <1>5, Second
<1>7. /\ \A u \in Threads : u # t => ~ Leads(u)
      /\ \A u \in Threads : status[u] # "WAKE" /\ wpc[u] # "e_wake"
  BY <1>1, Leader
<1>8. \A u \in Threads : wpc[u] = "k_turn" => u = t
  BY <1>7 DEF Leads, Forward
<1>9. wpc[t] # "k_turn" => status[f[a + 1]] \in {"WAIT", "SKIP"}
  BY <1>6, <1>8 DEF Linked
<1> QED
  BY <1>1, <1>2, <1>3, <1>5, <1>6, <1>7, <1>9

(* The next node is given WAKE, at the end of the traversal or of wake. *)
LEMMA HandList ==
  ASSUME LocalInv, LocalInv',
         NEW f, NEW a, NEW b, NEW lo, NEW hi, ListInv(f, a, b, lo, hi),
         NEW t \in Threads, ListStep(t),
         \/ WakeCAS(t) /\ status[succ[t]] = "WAIT"
         \/ WakeGrant(t)
  PROVE  ListInv(f, a + 1, b, lo, hi)'
<1>0. /\ f \in [Nat -> Nodes] /\ a \in Nat /\ b \in Nat
      /\ lo \in [Threads -> Nat] /\ hi \in [Threads -> Nat]
  BY DEF ListInv
<1>c. PICK c \in Nat : c = a + 1
  BY <1>0
<1>1. wpc[t] \in {"k_cas", "k_grant"}
  BY DEF WakeCAS, WakeGrant, WAt
<1>2. /\ wpc[t] \in Wakes /\ Leads(t)
      /\ c < b /\ succ[t] = f[c] /\ f[c] \in Threads /\ f[c] # t
      /\ wpc[f[c]] = "w_spin" /\ status[f[c]] \in {"WAIT", "SKIP"}
      /\ \A u \in Threads : u # t => ~ Leads(u)
      /\ \A u \in Threads : status[u] # "WAKE" /\ wpc[u] # "e_wake"
  BY <1>1, <1>c, Target
<1>3. /\ lock' = lock /\ next' = next /\ pred' = pred /\ cur' = cur /\ succ' = succ
      /\ wpc'[t] = IF wpc[t] = "k_cas" THEN "k_recycle" ELSE "k_clear"
      /\ status' = [status EXCEPT ![f[c]] = "WAKE"]
  BY <1>1, <1>2 DEF WakeCAS, WakeGrant, WAt, WGoto, SetStatus, LocalInv, HMPRTypeOK, WSkipTypeOK
<1>4. /\ \A u \in Threads : u # t => wpc'[u] = wpc[u] /\ waits'[u] = waits[u]
      /\ p' = p
  BY StepFrame
<1>5. /\ status'[f[c]] = "WAKE" /\ \A u \in Threads : u # f[c] => status'[u] = status[u]
  BY <1>2, <1>3, Names DEF LocalInv, HMPRTypeOK, WSkipTypeOK
<1>6. \A u \in Threads : ~ Leads(u)'
  <2>1. ~ Leads(t)'
    BY <1>2, <1>3, Names DEF Leads, Forward, Back, End
  <2> QED
    BY <1>2, <1>3, <1>4, <2>1 DEF Leads
<1>7. \A j \in c+1..b-1 : /\ f[j] \in Threads /\ f[j] # f[c] /\ f[j] # t
                          /\ j \in a+1..b-1 /\ j # a + 1
  <2> SUFFICES ASSUME NEW j \in c+1..b-1
               PROVE  /\ f[j] \in Threads /\ f[j] # f[c] /\ f[j] # t
                      /\ j \in a+1..b-1 /\ j # a + 1
    OBVIOUS
  <2>1. j \in a..b-1 /\ j # c /\ c \in a..b-1 /\ j \in a+1..b-1 /\ j # a + 1 /\ j # a
    BY <1>0, <1>c, <1>2
  <2>2. f[j] \in Threads /\ f[j] # t
    BY <1>1, <2>1, Member
  <2>3. f[j] # f[c]
    BY <2>1 DEF ListInv, LineOK
  <2> QED
    BY <2>1, <2>2, <2>3
<1>8. LineOK(f, c, b)'
  <2>1. ASSUME NEW k \in c+1..b-1 PROVE Linking(k, f)' \/ Linked(k, f, c)'
    <3>1. Linking(k, f) \/ Linked(k, f, a)
      BY <1>7 DEF ListInv, LineOK
    <3> QED
      BY <1>3, <1>4, <1>5, <1>7, <3>1 DEF Linking, Linked
  <2>2. ASSUME NEW u \in Threads, InLine(u)' PROVE \E k \in c+1..b-1 : f[k] = u
    <3>1. InLine(u) /\ u # f[c]
      BY <1>2, <1>3, <1>4, <1>5, <2>2 DEF InLine
    <3>2. PICK k \in a+1..b-1 : f[k] = u
      BY <3>1 DEF ListInv, LineOK
    <3>3. k \in c+1..b-1
      BY <1>0, <1>c, <3>1, <3>2
    <3> QED
      BY <3>2, <3>3
  <2>3. \A j, k \in c..b-1 : f[j] = f[k] => j = k
    <3>1. \A j \in c..b-1 : j \in a..b-1
      BY <1>0, <1>c
    <3> QED
      BY <3>1 DEF ListInv, LineOK
  <2>4. /\ c <= b /\ lock' = (IF c = b THEN NULL ELSE f[b - 1])
        /\ next'[f[b - 1]] = NULL
    <3>1. a < b /\ a # b /\ c # b /\ c <= b
      BY <1>0, <1>c, <1>2
    <3> QED
      BY <1>3, <3>1 DEF ListInv, LineOK
  <2>5. \A k \in 0..b-1 : f[k] \in Threads
    BY DEF ListInv, LineOK
  <2> QED
    BY <2>1, <2>2, <2>3, <2>4, <2>5 DEF LineOK
<1>9. TokenOK(f, c, b)'
  <2>1. \A u \in Threads : status'[u] = "WAKE" \/ wpc'[u] = "e_wake" => u = f[c]
    BY <1>2, <1>3, <1>4, <1>5
  <2> QED
    BY <1>2, <1>5, <1>6, <2>1 DEF TokenOK
<1>10. ASSUME NEW n \in Threads PROVE (Gone(n) => Gone(n)') /\ (Passed(n) => Passed(n)')
  <2>1. ~ Passed(t)
    BY <1>2, Way DEF Passed, Gone
  <2>2. n # t => (Gone(n) => Gone(n)')
    BY <1>2, <1>4, <1>5 DEF Gone
  <2>3. status[n] = "CHECK" => status'[n] = "CHECK"
    BY <1>2, <1>5
  <2> QED
    BY <2>1, <2>2, <2>3 DEF Passed
<1>11. WakeOK(t, f, c, b, lo, hi)'
  <2>1. /\ TrailOK(t, f, a, b, lo, hi) /\ PointOK(t, f, a, b, lo, hi)
        /\ lo[t] \in Nat /\ hi[t] \in Nat /\ hi[t] <= a
    BY <1>2, Way
  <2>2. hi[t] <= c /\ hi[t] # c
    BY <1>0, <1>c, <2>1
  <2>3. ASSUME NEW k \in lo[t]+1..hi[t]
        PROVE  Passed(f[k])' /\ \A j \in c..b-1 : f[j] = f[k] => j = k
    <3>1. Passed(f[k]) /\ f[k] \in Threads /\ \A j \in a..b-1 : f[j] = f[k] => j = k
      BY <2>1 DEF TrailOK, Passed
    <3>2. \A j \in c..b-1 : j \in a..b-1
      BY <1>0, <1>c
    <3> QED
      BY <1>10, <3>1, <3>2
  <2>4. TrailOK(t, f, c, b, lo, hi)'
    BY <1>3, <2>1, <2>2, <2>3 DEF TrailOK
  <2>5. wpc[t] = "k_grant" => hi[t] = lo[t]
    BY <2>1 DEF PointOK, End
  <2>6. wpc[t] = "k_cas" => cur[t] = f[hi[t]]
    BY <2>1 DEF PointOK, Forward
  <2>7. PointOK(t, f, c, b, lo, hi)'
    BY <1>1, <1>3, <1>6, <2>2, <2>5, <2>6 DEF PointOK, Forward, Back, End
  <2> QED
    BY <2>4, <2>7 DEF WakeOK
<1>12. ASSUME NEW u \in Threads, u # t PROVE WakeOK(u, f, c, b, lo, hi)'
  <2>1. SUFFICES ASSUME wpc'[u] \in Wakes PROVE WakeOK(u, f, c, b, lo, hi)'
    BY DEF WakeOK
  <2>2. wpc[u] \in Wakes
    BY <1>4, <1>12, <2>1
  <2>3. Leaves(u, f, a, b, lo, hi, f, c, b, lo, hi)
    BY <1>0, <1>c, <1>2, <1>3, <1>4, <1>10, <1>12 DEF Leaves
  <2> QED
    BY <2>2, <2>3, Undisturbed
<1>13. CoverOK(f, lo, hi)'
  <2>1. SUFFICES ASSUME NEW n \in Threads, status'[n] = "CHECK"
                 PROVE  \E u \in Threads : Owes(u, n, f, lo, hi)'
    BY DEF CoverOK
  <2>2. PICK u \in Threads : Owes(u, n, f, lo, hi)
    BY <1>5, <2>1 DEF ListInv, CoverOK
  <2>3. CASE u # t
    <3>1. wpc'[u] = wpc[u] /\ succ'[u] = succ[u]
      BY <1>3, <1>4, <2>3
    <3> QED
      BY <2>2, <3>1, StillOwes
  <2>4. CASE u = t /\ wpc[t] = "k_cas"
    BY <1>3, <2>2, <2>4 DEF Owes, Wakes, Forward
  <2>5. CASE u = t /\ wpc[t] = "k_grant"
    <3>1. hi[t] = lo[t] /\ lo[t] \in Nat
      BY <1>2, <2>5, Way DEF PointOK, End
    <3>2. lo[t]+1..hi[t]-1 = {}
      BY <3>1
    <3> QED
      BY <2>2, <2>5, <3>1, <3>2 DEF Owes, Forward
  <2> QED
    BY <1>1, <2>3, <2>4, <2>5
<1>14. ListInv(f, c, b, lo, hi)'
  BY <1>0, <1>8, <1>9, <1>11, <1>12, <1>13 DEF ListInv
<1> QED
  BY <1>14, <1>c

(* The next node was skipped: it is passed. *)
LEMMA CheckList ==
  ASSUME LocalInv, LocalInv',
         NEW f, NEW a, NEW b, NEW lo, NEW hi, ListInv(f, a, b, lo, hi),
         NEW t \in Threads, ListStep(t), WakeCheck(t)
  PROVE  ListInv(f, a, b, lo, hi)'
<1>1. wpc[t] = "k_check"
  BY DEF WakeCheck, WAt
<1>2. /\ wpc[t] \in Wakes /\ Leads(t)
      /\ f \in [Nat -> Nodes] /\ a \in Nat /\ b \in Nat
      /\ lo \in [Threads -> Nat] /\ hi \in [Threads -> Nat]
      /\ a + 1 < b /\ succ[t] = f[a + 1] /\ next[f[a]] = f[a + 1]
      /\ f[a] \in Threads /\ f[a + 1] \in Threads /\ f[a + 1] # f[a] /\ f[a + 1] # t
      /\ wpc[f[a + 1]] = "w_spin"
      /\ \A u \in Threads : u # t => ~ Leads(u)
      /\ \A u \in Threads : status[u] # "WAKE" /\ wpc[u] # "e_wake"
  BY <1>1, Target
<1>n. PICK n0 \in Threads : n0 = f[a + 1]
  BY <1>2
<1>3. /\ lock' = lock /\ next' = next /\ pred' = pred /\ cur' = cur /\ succ' = succ
      /\ wpc'[t] = "k_turn"
      /\ status' = [status EXCEPT ![n0] = "CHECK"]
  BY <1>1, <1>2, <1>n DEF WakeCheck, WAt, WGoto, SetStatus, LocalInv, HMPRTypeOK, WSkipTypeOK
<1>4. /\ \A u \in Threads : u # t => wpc'[u] = wpc[u] /\ waits'[u] = waits[u]
      /\ p' = p
  BY StepFrame
<1>5. /\ status'[n0] = "CHECK" /\ \A u \in Threads : u # n0 => status'[u] = status[u]
      /\ status[n0] = "SKIP" /\ status[t] = "RECYCLE"
  <2>1. status[succ[t]] = "SKIP" /\ status[t] = "RECYCLE"
    BY <1>1, <1>2, Way DEF PointOK
  <2> QED
    BY <1>2, <1>n, <1>3, <2>1, Names DEF LocalInv, HMPRTypeOK, WSkipTypeOK
<1>6. \A u \in Threads : Leads(u)' <=> Leads(u)
  <2>1. Leads(t)'
    BY <1>3 DEF Leads, Forward
  <2> QED
    BY <1>2, <1>3, <1>4, <2>1 DEF Leads
<1>7. \A j \in a+1..b-1 : /\ f[j] \in Threads /\ f[j] # t
                          /\ j # a + 1 => f[j] # n0
  <2> SUFFICES ASSUME NEW j \in a+1..b-1
               PROVE  f[j] \in Threads /\ f[j] # t /\ (j # a + 1 => f[j] # n0)
    OBVIOUS
  <2>1. j \in a..b-1 /\ a + 1 \in a..b-1 /\ j # a
    BY <1>2
  <2>2. f[j] \in Threads /\ f[j] # t
    BY <1>1, <2>1, Member
  <2>3. j # a + 1 => f[j] # f[a + 1]
    BY <2>1 DEF ListInv, LineOK
  <2> QED
    BY <1>n, <2>2, <2>3
<1>8. LineOK(f, a, b)'
  <2>1. ASSUME NEW k \in a+1..b-1 PROVE Linking(k, f)' \/ Linked(k, f, a)'
    <3>1. Linking(k, f) \/ Linked(k, f, a)
      BY DEF ListInv, LineOK
    <3>2. CASE k = a + 1
      <4>1. next'[f[k - 1]] = f[k] /\ wpc'[f[k]] = "w_spin" /\ status'[f[k]] = "CHECK"
        BY <1>2, <1>n, <1>3, <1>4, <1>5, <3>2
      <4>2. \E u \in Threads : wpc'[u] = "k_turn"
        BY <1>3
      <4> QED
        BY <3>2, <4>1, <4>2 DEF Linked
    <3>3. CASE k # a + 1
      BY <1>3, <1>4, <1>5, <1>7, <3>1, <3>3 DEF Linking, Linked
    <3> QED
      BY <3>2, <3>3
  <2>2. ASSUME NEW u \in Threads, InLine(u)' PROVE \E k \in a+1..b-1 : f[k] = u
    <3>1. InLine(u)
      BY <1>2, <1>n, <1>3, <1>4, <1>5, <2>2 DEF InLine
    <3> QED
      BY <3>1 DEF ListInv, LineOK
  <2> QED
    BY <1>3, <2>1, <2>2 DEF ListInv, LineOK
<1>9. TokenOK(f, a, b)'
  <2>1. \A u \in Threads : status'[u] # "WAKE" /\ wpc'[u] # "e_wake"
    BY <1>2, <1>3, <1>4, <1>5
  <2> QED
    BY <1>2, <1>3, <1>6, <2>1 DEF TokenOK, ListInv
<1>10. ASSUME NEW n \in Threads PROVE (Gone(n) => Gone(n)') /\ (Passed(n) => Passed(n)')
  <2>1. ~ Passed(t) /\ ~ Passed(n0)
    BY <1>2, <1>5 DEF Passed, Gone
  <2>2. n # t => (Gone(n) => Gone(n)')
    BY <1>4, <1>5 DEF Gone
  <2>3. status[n] = "CHECK" => status'[n] = "CHECK"
    BY <1>5
  <2> QED
    BY <2>1, <2>2, <2>3 DEF Passed
<1>11. WakeOK(t, f, a, b, lo, hi)'
  <2>1. TrailOK(t, f, a, b, lo, hi) /\ PointOK(t, f, a, b, lo, hi)
    BY <1>2, Way
  <2>2. ASSUME NEW k \in lo[t]+1..hi[t]
        PROVE  Passed(f[k])' /\ \A j \in a..b-1 : f[j] = f[k] => j = k
    <3>1. Passed(f[k]) /\ f[k] \in Threads /\ \A j \in a..b-1 : f[j] = f[k] => j = k
      BY <2>1 DEF TrailOK, Passed
    <3> QED
      BY <1>10, <3>1
  <2>3. TrailOK(t, f, a, b, lo, hi)'
    BY <1>3, <2>1, <2>2 DEF TrailOK
  <2>4. PointOK(t, f, a, b, lo, hi)'
    BY <1>1, <1>2, <1>n, <1>3, <1>5, <1>6, <2>1 DEF PointOK, Forward, Back, End
  <2> QED
    BY <2>3, <2>4 DEF WakeOK
<1>12. ASSUME NEW u \in Threads, u # t PROVE WakeOK(u, f, a, b, lo, hi)'
  <2>1. SUFFICES ASSUME wpc'[u] \in Wakes PROVE WakeOK(u, f, a, b, lo, hi)'
    BY DEF WakeOK
  <2>2. wpc[u] \in Wakes
    BY <1>4, <1>12, <2>1
  <2>3. Leaves(u, f, a, b, lo, hi, f, a, b, lo, hi)
    BY <1>2, <1>3, <1>4, <1>10, <1>12 DEF Leaves
  <2> QED
    BY <2>2, <2>3, Undisturbed
<1>13. CoverOK(f, lo, hi)'
  <2>1. SUFFICES ASSUME NEW n \in Threads, status'[n] = "CHECK"
                 PROVE  \E u \in Threads : Owes(u, n, f, lo, hi)'
    BY DEF CoverOK
  <2>2. CASE n = n0
    <3>1. Owes(t, n, f, lo, hi)'
      BY <1>2, <1>n, <1>3, <2>2 DEF Owes, Wakes, Forward
    <3> QED
      BY <3>1
  <2>3. CASE n # n0
    <3>1. PICK u \in Threads : Owes(u, n, f, lo, hi)
      BY <1>5, <2>1, <2>3 DEF ListInv, CoverOK
    <3>2. CASE u # t
      <4>1. wpc'[u] = wpc[u] /\ succ'[u] = succ[u]
        BY <1>3, <1>4, <3>2
      <4> QED
        BY <3>1, <4>1, StillOwes
    <3>3. CASE u = t
      BY <1>1, <1>3, <3>1, <3>3 DEF Owes, Wakes, Forward
    <3> QED
      BY <3>2, <3>3
  <2> QED
    BY <2>2, <2>3
<1> QED
  BY <1>2, <1>8, <1>9, <1>11, <1>12, <1>13 DEF ListInv

(* The link is turned, and the thread goes on from the node passed. *)
LEMMA TurnList ==
  ASSUME LocalInv, LocalInv',
         NEW f, NEW a, NEW b, NEW lo, NEW hi, ListInv(f, a, b, lo, hi),
         NEW t \in Threads, ListStep(t), WakeTurn(t)
  PROVE  ListInv(f, a + 1, b, lo, [hi EXCEPT ![t] = a + 1])'
<1>1. wpc[t] = "k_turn"
  BY DEF WakeTurn, WAt
<1>0. /\ f \in [Nat -> Nodes] /\ a \in Nat /\ b \in Nat
      /\ lo \in [Threads -> Nat] /\ hi \in [Threads -> Nat]
  BY DEF ListInv
<1>c. PICK c \in Nat : c = a + 1
  BY <1>0
<1>h. PICK hi2 : hi2 = [hi EXCEPT ![t] = c]
  OBVIOUS
<1>2. /\ wpc[t] \in Wakes /\ Leads(t)
      /\ c < b /\ a < b /\ succ[t] = f[c] /\ f[c] \in Threads /\ f[c] # t
      /\ f[a] \in Threads /\ f[c] # f[a] /\ wpc[f[c]] = "w_spin"
      /\ \A u \in Threads : u # t => ~ Leads(u)
      /\ \A u \in Threads : status[u] # "WAKE" /\ wpc[u] # "e_wake"
  <2>1. a < b
    BY <1>1, Leader, Target
  <2> QED
    BY <1>1, <1>c, <2>1, Target
<1>3. /\ TrailOK(t, f, a, b, lo, hi) /\ PointOK(t, f, a, b, lo, hi)
      /\ lo[t] \in Nat /\ lo[t] <= a /\ hi[t] = a /\ cur[t] = f[a] /\ status[f[c]] = "CHECK"
      /\ pred[t] = IF a = lo[t] THEN NULL ELSE f[a - 1]
      /\ a = lo[t] => f[a] = t
      /\ a # lo[t] => Passed(f[a]) /\ f[a] # t /\ next[t] = NULL
  <2>1. /\ TrailOK(t, f, a, b, lo, hi) /\ PointOK(t, f, a, b, lo, hi)
        /\ lo[t] \in Nat /\ lo[t] <= hi[t]
        /\ pred[t] = IF hi[t] = lo[t] THEN NULL ELSE f[hi[t] - 1]
        /\ hi[t] # lo[t] => Passed(f[hi[t]])
    BY <1>2, Way
  <2>2. hi[t] = a /\ cur[t] = f[a] /\ status[f[c]] = "CHECK"
    BY <1>1, <1>2, <2>1 DEF PointOK, Forward
  <2>3. hi[t] # lo[t] => next[t] = NULL
    <3>1. hi[t] # lo[t] => hi[t] > lo[t]
      BY <1>0, <2>1, <2>2
    <3> QED
      BY <2>1, <3>1 DEF TrailOK
  <2>4. hi[t] = lo[t] => f[hi[t]] = t
    BY <2>1 DEF TrailOK
  <2>5. ~ Passed(t)
    BY <1>2, Way DEF Passed, Gone
  <2> QED
    BY <2>1, <2>2, <2>3, <2>4, <2>5
<1>4. /\ lock' = lock /\ status' = status /\ succ' = succ
      /\ pred'[t] = f[a] /\ cur'[t] = f[c] /\ wpc'[t] = "k_next"
      /\ next' = [next EXCEPT ![f[a]] = pred[t]]
  BY <1>1, <1>2, <1>3 DEF WakeTurn, WAt, WGoto, SetNext, LocalInv, HMPRTypeOK, WSkipTypeOK
<1>5. /\ \A u \in Threads : u # t =>
           /\ wpc'[u] = wpc[u] /\ waits'[u] = waits[u]
           /\ pred'[u] = pred[u] /\ cur'[u] = cur[u]
      /\ p' = p
  BY StepFrame
<1>6. /\ next'[f[a]] = pred[t] /\ \A n \in Nodes : n # f[a] => next'[n] = next[n]
  BY <1>2, <1>4, Names DEF LocalInv, HMPRTypeOK, WSkipTypeOK
<1>7. /\ hi2 \in [Threads -> Nat] /\ hi2[t] = c
      /\ \A u \in Threads : u # t => hi2[u] = hi[u]
  BY <1>0, <1>h
<1>8. /\ Leads(t)' /\ \A u \in Threads : u # t => ~ Leads(u)'
  <2>1. Leads(t)'
    BY <1>4 DEF Leads, Forward
  <2> QED
    BY <1>2, <1>4, <1>5, <2>1 DEF Leads
<1>9. \A j \in c..b-1 : /\ f[j] \in Threads /\ f[j] # f[a]
                        /\ j # c => f[j] # f[c] /\ f[j] # t
                        /\ j \in a..b-1 /\ j \in a+1..b-1
  <2> SUFFICES ASSUME NEW j \in c..b-1
               PROVE  /\ f[j] \in Threads /\ f[j] # f[a]
                      /\ j # c => f[j] # f[c] /\ f[j] # t
                      /\ j \in a..b-1 /\ j \in a+1..b-1
    OBVIOUS
  <2>1. j \in a..b-1 /\ c \in a..b-1 /\ a \in a..b-1 /\ j \in a+1..b-1 /\ j # a
    BY <1>0, <1>c, <1>2
  <2>2. f[j] \in Threads /\ f[j] # t
    BY <1>1, <2>1, Member
  <2>3. f[j] # f[a] /\ (j # c => f[j] # f[c])
    BY <2>1 DEF ListInv, LineOK
  <2> QED
    BY <2>1, <2>2, <2>3
<1>10. LineOK(f, c, b)'
  <2>1. ASSUME NEW k \in c+1..b-1 PROVE Linking(k, f)' \/ Linked(k, f, c)'
    <3>1. k \in c..b-1 /\ k - 1 \in c..b-1 /\ k # c /\ k # a + 1
      BY <1>0, <1>c
    <3>2. next'[f[k - 1]] = next[f[k - 1]]
      BY <1>6, <1>9, <3>1, Names
    <3>3. Linking(k, f) \/ Linked(k, f, a)
      BY <1>9, <3>1 DEF ListInv, LineOK
    <3> QED
      BY <1>4, <1>5, <1>9, <3>1, <3>2, <3>3 DEF Linking, Linked
  <2>2. ASSUME NEW u \in Threads, InLine(u)' PROVE \E k \in c+1..b-1 : f[k] = u
    <3>1. InLine(u) /\ u # f[c]
      BY <1>2, <1>3, <1>4, <1>5, <2>2 DEF InLine
    <3>2. PICK k \in a+1..b-1 : f[k] = u
      BY <3>1 DEF ListInv, LineOK
    <3>3. k \in c+1..b-1
      BY <1>0, <1>c, <3>1, <3>2
    <3> QED
      BY <3>2, <3>3
  <2>3. \A j, k \in c..b-1 : f[j] = f[k] => j = k
    BY <1>9 DEF ListInv, LineOK
  <2>4. /\ c <= b /\ lock' = (IF c = b THEN NULL ELSE f[b - 1])
        /\ next'[f[b - 1]] = NULL
    <3>1. a # b /\ c # b /\ c <= b /\ b - 1 \in c..b-1
      BY <1>0, <1>c, <1>2
    <3>2. next[f[b - 1]] = NULL /\ lock = f[b - 1]
      BY <1>2, <3>1 DEF ListInv, LineOK
    <3> QED
      BY <1>4, <1>6, <1>9, <3>1, <3>2, Names
  <2>5. \A k \in 0..b-1 : f[k] \in Threads
    BY DEF ListInv, LineOK
  <2> QED
    BY <2>1, <2>2, <2>3, <2>4, <2>5 DEF LineOK
<1>11. TokenOK(f, c, b)'
  <2>1. \A u \in Threads : status'[u] # "WAKE" /\ wpc'[u] # "e_wake"
    BY <1>1, <1>2, <1>4, <1>5
  <2> QED
    BY <1>2, <1>4, <1>8, <2>1 DEF TokenOK
<1>12. ASSUME NEW n \in Threads PROVE (Gone(n) => Gone(n)') /\ (Passed(n) => Passed(n)')
  <2>1. ~ Passed(t)
    BY <1>2, Way DEF Passed, Gone
  <2>2. n # t => (Gone(n) => Gone(n)')
    BY <1>4, <1>5 DEF Gone
  <2> QED
    BY <1>4, <2>1, <2>2 DEF Passed
<1>13. WakeOK(t, f, c, b, lo, hi2)'
  <2>1. c > lo[t] /\ c # lo[t] /\ lo[t] <= c /\ c <= c /\ c - 1 = a
    BY <1>0, <1>c, <1>3
  <2>2. f[lo[t]] = t
    BY <1>3 DEF TrailOK
  <2>3. next'[t] = NULL
    BY <1>3, <1>6, Names
  <2>4. ASSUME NEW k \in lo[t]+1..c
        PROVE  Passed(f[k])' /\ \A j \in c..b-1 : f[j] = f[k] => j = k
    <3>1. CASE k = c
      <4>1. Passed(f[c])'
        BY <1>2, <1>3, <1>4 DEF Passed
      <4> QED
        BY <1>9, <3>1, <4>1
    <3>2. CASE k # c
      <4>1. k \in lo[t]+1..hi[t]
        BY <1>0, <1>c, <1>3, <3>2
      <4>2. Passed(f[k]) /\ f[k] \in Threads /\ \A j \in a..b-1 : f[j] = f[k] => j = k
        BY <1>3, <4>1 DEF TrailOK, Passed
      <4> QED
        BY <1>9, <1>12, <4>2
    <3> QED
      BY <3>1, <3>2
  <2>5. ASSUME NEW k \in lo[t]+1..c-1 PROVE next'[f[k]] = f[k - 1]
    <3>1. CASE k = a
      <4>1. a # lo[t]
        BY <1>3, <3>1
      <4> QED
        BY <1>3, <1>6, <3>1, <4>1
    <3>2. CASE k # a
      <4>1. k \in lo[t]+1..hi[t]-1 /\ k \in lo[t]+1..hi[t] /\ a \in a..b-1
        BY <1>0, <1>c, <1>2, <1>3, <3>2
      <4>2. next[f[k]] = f[k - 1] /\ f[k] \in Threads /\ f[a] # f[k]
        BY <1>3, <3>2, <4>1 DEF TrailOK, Passed
      <4> QED
        BY <1>6, <4>2, Names
    <3> QED
      BY <3>1, <3>2
  <2>6. TrailOK(t, f, c, b, lo, hi2)'
    BY <1>2, <1>4, <1>7, <2>1, <2>2, <2>3, <2>4, <2>5 DEF TrailOK
  <2>7. PointOK(t, f, c, b, lo, hi2)'
    BY <1>4, <1>7, <1>8 DEF PointOK, Forward, Back, End
  <2> QED
    BY <2>6, <2>7 DEF WakeOK
<1>14. ASSUME NEW u \in Threads, u # t PROVE WakeOK(u, f, c, b, lo, hi2)'
  <2>1. SUFFICES ASSUME wpc'[u] \in Wakes PROVE WakeOK(u, f, c, b, lo, hi2)'
    BY DEF WakeOK
  <2>2. wpc[u] \in Wakes
    BY <1>5, <1>14, <2>1
  <2>3. next'[u] = next[u]
    <3>1. ~ Passed(u)
      BY <2>2, Way DEF Passed, Gone
    <3>2. u # f[a]
      BY <1>3, <1>14, <3>1
    <3> QED
      BY <1>6, <3>2, Names
  <2>4. \A n \in Threads : next'[n] # next[n] => \E j \in a..b-1 : n = f[j]
    <3>1. a \in a..b-1
      BY <1>0, <1>2
    <3> QED
      BY <1>6, <3>1, Names
  <2>5. Leaves(u, f, a, b, lo, hi, f, c, b, lo, hi2)
    BY <1>0, <1>c, <1>2, <1>4, <1>5, <1>7, <1>12, <1>14, <2>3, <2>4 DEF Leaves
  <2> QED
    BY <2>2, <2>5, Undisturbed
<1>15. CoverOK(f, lo, hi2)'
  <2>1. SUFFICES ASSUME NEW n \in Threads, status'[n] = "CHECK"
                 PROVE  \E u \in Threads : Owes(u, n, f, lo, hi2)'
    BY DEF CoverOK
  <2>2. PICK u \in Threads : Owes(u, n, f, lo, hi)
    BY <1>4, <2>1 DEF ListInv, CoverOK
  <2>3. CASE u # t
    <3>1. wpc'[u] = wpc[u] /\ succ'[u] = succ[u] /\ hi2[u] = hi[u]
      BY <1>4, <1>5, <1>7, <2>3
    <3> QED
      BY <2>2, <3>1, StillOwes
  <2>4. CASE u = t
    <3>1. (\E k \in lo[t]+1..a : n = f[k]) \/ n = f[c]
      <4>1. CASE \E k \in lo[t]+1..a-1 : n = f[k]
        BY <1>0, <1>3, <4>1
      <4>2. CASE a > lo[t] /\ n = f[a]
        <5>1. a \in lo[t]+1..a
          BY <1>0, <1>3, <4>2
        <5> QED
          BY <4>2, <5>1
      <4> QED
        BY <1>1, <1>2, <1>3, <2>2, <2>4, <4>1, <4>2 DEF Owes
    <3>2. \A k \in lo[t]+1..a : k \in lo[t]+1..c-1
      BY <1>0, <1>c, <1>3
    <3>3. c > lo[t]
      BY <1>0, <1>c, <1>3
    <3>4. Owes(t, n, f, lo, hi2)'
      BY <1>4, <1>7, <3>1, <3>2, <3>3 DEF Owes, Wakes, Forward
    <3> QED
      BY <3>4
  <2> QED
    BY <2>3, <2>4
<1>16. ListInv(f, c, b, lo, hi2)'
  BY <1>0, <1>7, <1>10, <1>11, <1>13, <1>14, <1>15 DEF ListInv
<1> QED
  BY <1>16, <1>c, <1>h

(* The first was the last: the line is empty. *)
LEMMA EmptyList ==
  ASSUME LocalInv, LocalInv',
         NEW f, NEW a, NEW b, NEW lo, NEW hi, ListInv(f, a, b, lo, hi),
         NEW t \in Threads, ListStep(t), WakeTail(t), lock = cur[t]
  PROVE  ListInv(f, a + 1, b, lo, hi)'
<1>0. /\ f \in [Nat -> Nodes] /\ a \in Nat /\ b \in Nat
      /\ lo \in [Threads -> Nat] /\ hi \in [Threads -> Nat]
  BY DEF ListInv
<1>c. PICK c \in Nat : c = a + 1
  BY <1>0
<1>1. wpc[t] = "k_tail" /\ wpc[t] \in Wakes /\ Leads(t)
  BY DEF WakeTail, Wakes, End, Leads
<1>2. /\ a < b /\ cur[t] = f[a] /\ a \in a..b-1 /\ hi[t] = lo[t]
      /\ \A u \in Threads : u # t => ~ Leads(u)
      /\ \A u \in Threads : status[u] # "WAKE" /\ wpc[u] # "e_wake"
  BY <1>1, Leader, Way DEF PointOK, End
<1>3. c = b
  <2>1. b - 1 \in a..b-1 /\ a # b
    BY <1>0, <1>2
  <2>2. f[b - 1] = f[a]
    BY <1>2, <2>1 DEF ListInv, LineOK
  <2>3. b - 1 = a
    BY <1>2, <2>1, <2>2 DEF ListInv, LineOK
  <2> QED
    BY <1>0, <1>c, <2>3
<1>4. lock' = NULL /\ next' = next /\ status' = status /\ wpc'[t] = "out"
  BY <1>1 DEF WakeTail, Return, WGoto, LocalInv, HMPRTypeOK, WSkipTypeOK
<1>5. /\ \A u \in Threads : u # t =>
           /\ wpc'[u] = wpc[u] /\ waits'[u] = waits[u] /\ pred'[u] = pred[u]
           /\ cur'[u] = cur[u] /\ succ'[u] = succ[u]
      /\ p' = p
  BY StepFrame
<1>6. \A u \in Threads : ~ Leads(u)'
  <2>1. ~ Leads(t)'
    BY <1>4 DEF Leads, Forward, Back, End
  <2> QED
    BY <1>2, <1>5, <2>1 DEF Leads
<1>7. LineOK(f, c, b)'
  <2>1. c..b-1 = {} /\ c+1..b-1 = {} /\ a+1..b-1 = {} /\ c <= b
    BY <1>0, <1>c, <1>3
  <2>2. \A u \in Threads : ~ InLine(u)'
    <3>1. \A u \in Threads : ~ InLine(u)
      BY <2>1 DEF ListInv, LineOK
    <3> QED
      BY <1>4, <1>5, <3>1 DEF InLine
  <2>3. \A k \in 0..b-1 : f[k] \in Threads
    BY DEF ListInv, LineOK
  <2>4. ~ (c < b)
    BY <1>0, <1>3
  <2> QED
    BY <1>3, <1>4, <2>1, <2>2, <2>3, <2>4 DEF LineOK
<1>8. TokenOK(f, c, b)'
  <2>1. \A u \in Threads : status'[u] # "WAKE" /\ wpc'[u] # "e_wake"
    BY <1>2, <1>4, <1>5
  <2>2. ~ (c < b)
    BY <1>0, <1>3
  <2> QED
    BY <1>6, <2>1, <2>2 DEF TokenOK
<1>9. ASSUME NEW n \in Threads PROVE (Gone(n) => Gone(n)') /\ (Passed(n) => Passed(n)')
  BY <1>1, <1>4, <1>5 DEF Passed, Gone
<1>10. ASSUME NEW u \in Threads PROVE WakeOK(u, f, c, b, lo, hi)'
  <2>1. SUFFICES ASSUME wpc'[u] \in Wakes PROVE WakeOK(u, f, c, b, lo, hi)'
    BY DEF WakeOK
  <2>2. wpc[u] \in Wakes /\ u # t
    BY <1>4, <1>5, <2>1 DEF Wakes, Forward, Back, End
  <2>3. Leaves(u, f, a, b, lo, hi, f, c, b, lo, hi)
    BY <1>0, <1>c, <1>2, <1>4, <1>5, <1>9, <2>2 DEF Leaves
  <2> QED
    BY <2>2, <2>3, Undisturbed
<1>11. CoverOK(f, lo, hi)'
  <2>1. SUFFICES ASSUME NEW n \in Threads, status'[n] = "CHECK"
                 PROVE  \E u \in Threads : Owes(u, n, f, lo, hi)'
    BY DEF CoverOK
  <2>2. PICK u \in Threads : Owes(u, n, f, lo, hi)
    BY <1>4, <2>1 DEF ListInv, CoverOK
  <2>3. u # t
    <3>1. lo[t]+1..hi[t]-1 = {}
      BY <1>0, <1>2
    <3> QED
      BY <1>1, <2>2, <3>1 DEF Owes, Forward
  <2>4. wpc'[u] = wpc[u] /\ succ'[u] = succ[u]
    BY <1>5, <2>3
  <2> QED
    BY <2>2, <2>4, StillOwes
<1>12. ListInv(f, c, b, lo, hi)'
  BY <1>0, <1>7, <1>8, <1>10, <1>11 DEF ListInv
<1> QED
  BY <1>12, <1>c

-----------------------------------------------------------------------------
(* What a step of t does to the nodes of others: it moves the wait of a    *)
(* thread on, and links to no node that is not inserted yet.               *)
LEMMA NodesOfOthers ==
  ASSUME LocalInv,
         NEW f, NEW a, NEW b, NEW lo, NEW hi, ListInv(f, a, b, lo, hi),
         NEW t \in Threads, ListStep(t)
  PROVE  /\ \A u \in Threads : u # t =>
              \/ status'[u] = status[u]
              \/ /\ wpc[u] = "w_spin"
                 /\ \/ status'[u] \in {"WAKE", "RECYCLE"}
                    \/ status'[u] = "CHECK" /\ p[u] = 0
         /\ \A u \in Threads : u # t => next'[u] = next[u] \/ wpc[u] # "e_swap"
         /\ status'[znode] = status[znode]
<1> DEFINE Kept == \A u \in Threads : u # t =>
              \/ status'[u] = status[u]
              \/ /\ wpc[u] = "w_spin"
                 /\ \/ status'[u] \in {"WAKE", "RECYCLE"}
                    \/ status'[u] = "CHECK" /\ p[u] = 0
           Links == \A u \in Threads : u # t => next'[u] = next[u] \/ wpc[u] # "e_swap"
           Zn == status'[znode] = status[znode]
<1> SUFFICES Kept /\ Links /\ Zn
  OBVIOUS
<1>1. ASSUME status' = status PROVE Kept /\ Zn
  BY <1>1
<1>2. ASSUME next' = next PROVE Links
  BY <1>2
<1>3. ASSUME NEW n \in Threads, NEW s, status' = [status EXCEPT ![n] = s],
             \/ n = t
             \/ wpc[n] = "w_spin" /\ (s \in {"WAKE", "RECYCLE"} \/ (s = "CHECK" /\ p[n] = 0))
             \/ Passed(n) /\ s = "RECYCLE"
      PROVE  Kept /\ Zn
  <2>1. status'[n] = s /\ \A m \in Nodes : m # n => status'[m] = status[m]
    BY <1>3, Names DEF LocalInv, HMPRTypeOK, WSkipTypeOK
  <2>2. Passed(n) => wpc[n] = "w_spin" \/ status[n] = "RECYCLE"
    BY DEF Passed, Gone, LocalInv, HMPRTypeOK, WSkipTypeOK, PlaceOK, NodeOK, Wakes, Forward, Back, End
  <2> QED
    BY <1>3, <2>1, <2>2, Names
<1>4. CASE EnqStatus(t)
  <2>1. next' = next
    BY <1>4 DEF EnqStatus
  <2>2. CASE node[t] = t
    <3>1. status' = [status EXCEPT ![t] = "WAIT"]
      BY <1>4, <2>2 DEF EnqStatus, SetStatus
    <3> QED
      BY <1>2, <1>3, <2>1, <3>1
  <2>3. CASE node[t] # t
    <3>1. node[t] = znode /\ status[znode] = "WAIT"
      BY <1>4, <2>3 DEF EnqStatus, LocalInv, HMPRTypeOK, PlaceOK
    <3>2. status' = status
      BY <1>4, <3>1 DEF EnqStatus, SetStatus, LocalInv, HMPRTypeOK, WSkipTypeOK
    <3> QED
      BY <1>1, <1>2, <2>1, <3>2
  <2> QED
    BY <2>2, <2>3
<1>5. CASE EnqNext(t)
  <2>1. node[t] = t /\ wpc[t] = "e_next"
    BY <1>5 DEF EnqNext, WAt, LocalInv, HMPRTypeOK, PlaceOK, Wakes, Forward, Back, End
  <2>2. status' = status /\ next' = [next EXCEPT ![t] = NULL]
    BY <1>5, <2>1 DEF EnqNext, SetNext
  <2>3. Links
    BY <2>2, Names DEF LocalInv, HMPRTypeOK, WSkipTypeOK
  <2> QED
    BY <1>1, <2>2, <2>3
<1>6. CASE EnqSwap(t) \/ WaitSpin(t) \/ WakeNext(t) \/ WakeRevNext(t) \/ WakeTail(t) \/ WakeWait(t)
  <2>1. status' = status /\ next' = next
    BY <1>6 DEF EnqSwap, WaitSpin, WakeNext, WakeRevNext, WakeTail, WakeWait
  <2> QED
    BY <1>1, <1>2, <2>1
<1>7. CASE EnqWake(t)
  <2>1. node[t] = t /\ next' = next
    BY <1>7 DEF EnqWake, LocalInv, HMPRTypeOK, PlaceOK, Wakes, Forward, Back, End
  <2>2. status' = [status EXCEPT ![t] = "WAKE"]
    BY <1>7, <2>1 DEF EnqWake, SetStatus
  <2> QED
    BY <1>2, <1>3, <2>1, <2>2
<1>8. CASE EnqLink(t)
  <2>1. PICK i \in a+1..b-1 : f[i] = t
    BY <1>8 DEF EnqLink, ListInv, LineOK, InLine
  <2>2. i - 1 \in a..b-1
    BY DEF ListInv
  <2>3. pred[t] = f[i - 1] /\ wpc[t] = "e_link"
    BY <1>8, <2>1 DEF EnqLink, ListInv, LineOK, Linking, Linked
  <2>4. wpc[f[i - 1]] # "e_swap" /\ f[i - 1] \in Threads
    BY <2>2, Member
  <2>5. status' = status /\ next' = [next EXCEPT ![f[i - 1]] = node[t]]
    BY <1>8, <2>3 DEF EnqLink, SetNext
  <2>6. Links
    BY <2>4, <2>5, Names DEF LocalInv, HMPRTypeOK, WSkipTypeOK
  <2> QED
    BY <1>1, <2>5, <2>6
<1>9. CASE WakeTry(t)
  <2>1. next' = next
    BY <1>9 DEF WakeTry
  <2>2. CASE status[node[t]] = "WAKE"
    <3>1. node[t] = t
      BY <1>9, <2>2 DEF WakeTry, LocalInv, HMPRTypeOK, PlaceOK
    <3>2. status' = [status EXCEPT ![t] = "RECYCLE"]
      BY <1>9, <2>2, <3>1 DEF WakeTry, SetStatus
    <3> QED
      BY <1>2, <1>3, <2>1, <3>2
  <2>3. CASE status[node[t]] # "WAKE"
    <3>1. status' = status
      BY <1>9, <2>3 DEF WakeTry
    <3> QED
      BY <1>1, <1>2, <2>1, <3>1
  <2> QED
    BY <2>2, <2>3
<1>10. CASE WakeCAS(t) \/ WakeGrant(t)
  <2>1. next' = next /\ wpc[t] \in {"k_cas", "k_grant"}
    BY <1>10 DEF WakeCAS, WakeGrant, WAt
  <2>2. succ[t] \in Threads /\ wpc[succ[t]] = "w_spin"
    BY <2>1, Target
  <2>3. status' = status \/ status' = [status EXCEPT ![succ[t]] = "WAKE"]
    BY <1>10 DEF WakeCAS, WakeGrant, SetStatus
  <2>4. PICK n \in Threads : n = succ[t]
    BY <2>2
  <2> QED
    BY <1>1, <1>2, <1>3, <2>1, <2>2, <2>3, <2>4
<1>11. CASE WakeCheck(t)
  <2>1. next' = next /\ wpc[t] = "k_check" /\ wpc[t] \in Wakes
    BY <1>11 DEF WakeCheck, WAt, Wakes, Forward
  <2>2. succ[t] \in Threads /\ wpc[succ[t]] = "w_spin"
    BY <2>1, Target
  <2>3. p[succ[t]] = 0
    BY <2>1, <2>2, Way DEF PointOK, LocalInv, NodeOK
  <2>4. status' = [status EXCEPT ![succ[t]] = "CHECK"]
    BY <1>11 DEF WakeCheck, SetStatus
  <2>5. PICK n \in Threads : n = succ[t]
    BY <2>2
  <2> QED
    BY <1>2, <1>3, <2>1, <2>2, <2>3, <2>4, <2>5
<1>12. CASE WakeTurn(t)
  <2>1. wpc[t] = "k_turn" /\ Leads(t)
    BY <1>12 DEF WakeTurn, WAt, Leads, Forward
  <2>2. cur[t] = f[a] /\ f[a] \in Threads /\ a \in a..b-1
    BY <2>1, Leader
  <2>3. wpc[f[a]] # "e_swap"
    BY <2>2, Member
  <2>4. status' = status /\ next' = [next EXCEPT ![f[a]] = pred[t]]
    BY <1>12, <2>2 DEF WakeTurn, SetNext
  <2>5. Links
    BY <2>2, <2>3, <2>4, Names DEF LocalInv, HMPRTypeOK, WSkipTypeOK
  <2> QED
    BY <1>1, <2>4, <2>5
<1>13. CASE WakeRecycle(t)
  <2>1. next' = next /\ wpc[t] = "k_recycle" /\ wpc[t] \in Wakes
    BY <1>13 DEF WakeRecycle, Wakes
  <2>2. cur[t] = t \/ Passed(cur[t])
    <3>1. cur[t] = f[hi[t]] /\ f[lo[t]] = t
      BY <2>1, Way DEF PointOK, TrailOK
    <3> QED
      BY <2>1, <3>1, Way
  <2>3. PICK n \in Threads : n = cur[t]
    BY <2>2 DEF Passed
  <2>4. status' = [status EXCEPT ![n] = "RECYCLE"]
    BY <1>13, <2>3 DEF WakeRecycle, SetStatus
  <2> QED
    BY <1>2, <1>3, <2>1, <2>2, <2>3, <2>4
<1>14. CASE WakeRev(t)
  <2>1. next' = next /\ wpc[t] = "k_rev" /\ wpc[t] \in Wakes
    BY <1>14 DEF WakeRev, WAt, Wakes, Back
  <2>2. pred[t] = t \/ Passed(pred[t])
    <3>1. hi[t] > lo[t] /\ hi[t] # lo[t]
      BY <2>1, Way DEF PointOK, Back
    <3> QED
      BY <2>1, <3>1, Way
  <2>3. PICK n \in Threads : n = pred[t]
    BY <2>2 DEF Passed
  <2>4. status' = [status EXCEPT ![n] = "RECYCLE"]
    BY <1>14, <2>3 DEF WakeRev, SetStatus
  <2> QED
    BY <1>2, <1>3, <2>1, <2>2, <2>3, <2>4
<1>15. CASE WakeClear(t)
  <2>1. wpc[t] \in Wakes /\ status' = status
    BY <1>15 DEF WakeClear, Wakes
  <2>2. next' = [next EXCEPT ![t] = NULL]
    BY <1>15, <2>1, Way DEF WakeClear, SetNext
  <2>3. Links
    BY <2>2, Names DEF LocalInv, HMPRTypeOK, WSkipTypeOK
  <2> QED
    BY <1>1, <2>1, <2>3
<1> HIDE DEF Kept, Links, Zn
<1> QED
  BY <1>4, <1>5, <1>6, <1>7, <1>8, <1>9, <1>10, <1>11, <1>12, <1>13, <1>14, <1>15
     DEF ListStep, WSkipStep

(* A step of the list keeps to the types: it never follows a NULL.         *)
LEMMA ListTypes ==
  ASSUME LocalInv,
         NEW f, NEW a, NEW b, NEW lo, NEW hi, ListInv(f, a, b, lo, hi),
         NEW t \in Threads, ListStep(t)
  PROVE  HMPRTypeOK'
<1>0. HMPRTypeOK /\ WSkipTypeOK
  BY DEF LocalInv, HMPRTypeOK
<1> SUFFICES WSkipTypeOK'
  BY <1>0 DEF ListStep, lockVars, HMPRTypeOK
<1>1. CASE EnqStatus(t) \/ EnqNext(t) \/ EnqWake(t) \/ WaitSpin(t)
  BY <1>0, <1>1 DEF WSkipTypeOK, EnqStatus, EnqNext, EnqWake, WaitSpin, Enqueued, Return,
     WGoto, WAt, SetStatus, SetNext, Status
<1>2. CASE EnqSwap(t)
  <2>1. node[t] \in Nodes
    BY <1>2, Names DEF EnqSwap, LocalInv, HMPRTypeOK, WSkipTypeOK, PlaceOK
  <2> QED
    BY <1>0, <1>2, <2>1 DEF WSkipTypeOK, EnqSwap, WGoto
<1>3. CASE EnqLink(t)
  BY <1>0, <1>3 DEF WSkipTypeOK, EnqLink, Enqueued, Return, WGoto, SetNext
<1>4. CASE WakeTry(t) \/ WakeCAS(t) \/ WakeCheck(t) \/ WakeTurn(t)
  BY <1>0, <1>4 DEF WSkipTypeOK, WakeTry, WakeCAS, WakeCheck, WakeTurn, Return,
     WGoto, WAt, SetStatus, SetNext, Status
<1>5. CASE WakeNext(t)
  <2>1. Leads(t)
    BY <1>5 DEF WakeNext, Leads, Forward
  <2>2. next[cur[t]] \in Nodes \cup {NULL}
    BY <1>0, <2>1, Leader, Names DEF WSkipTypeOK
  <2> QED
    BY <1>0, <1>5, <2>2 DEF WSkipTypeOK, WakeNext, WGoto
<1>6. CASE WakeRecycle(t) \/ WakeRev(t) \/ WakeGrant(t) \/ WakeTail(t) \/ WakeClear(t)
  BY <1>0, <1>6 DEF WSkipTypeOK, WakeRecycle, WakeRev, WakeGrant, WakeTail, WakeClear,
     Return, Recycled, WGoto, WAt, SetStatus, SetNext, Status
<1>7. CASE WakeRevNext(t)
  <2>1. wpc[t] = "k_revnext" /\ wpc[t] \in Wakes
    BY <1>7 DEF WakeRevNext, Wakes, Back
  <2>2. hi[t] > lo[t] /\ lo[t] \in Nat /\ hi[t] \in Nat
    BY <2>1, Way DEF PointOK, Back
  <2>3. hi[t] # lo[t]
    BY <2>2
  <2>4. pred[t] \in Threads
    BY <2>1, <2>3, Way
  <2>5. next[pred[t]] \in Nodes \cup {NULL}
    BY <1>0, <2>4, Names DEF WSkipTypeOK
  <2> QED
    BY <1>0, <1>7, <2>5 DEF WSkipTypeOK, WakeRevNext, Recycled, WGoto
<1>8. CASE WakeWait(t)
  <2>1. Leads(t)
    BY <1>8 DEF WakeWait, WAt, Leads, End
  <2>2. next[cur[t]] \in Nodes \cup {NULL}
    BY <1>0, <2>1, Leader, Names DEF WSkipTypeOK
  <2> QED
    BY <1>0, <1>8, <2>2 DEF WSkipTypeOK, WakeWait, WGoto, WAt
<1> QED
  BY <1>1, <1>2, <1>3, <1>4, <1>5, <1>6, <1>7, <1>8 DEF ListStep, WSkipStep

(* A step of the list keeps each thread's node to what its place allows.   *)
LEMMA ListLocal ==
  ASSUME LocalInv,
         NEW f, NEW a, NEW b, NEW lo, NEW hi, ListInv(f, a, b, lo, hi),
         NEW t \in Threads, ListStep(t)
  PROVE  LocalInv'
<1>0. HMPRTypeOK /\ WSkipTypeOK /\ PlaceOK(t) /\ NodeOK(t)
  BY DEF LocalInv, HMPRTypeOK
<1>1. HMPRTypeOK'
  BY ListTypes
<1>2. status'[znode] = "WAIT"
  BY NodesOfOthers DEF LocalInv
<1>3. ASSUME NEW u \in Threads, u # t PROVE PlaceOK(u)' /\ NodeOK(u)'
  <2>0. PlaceOK(u) /\ NodeOK(u)
    BY DEF LocalInv
  <2>1. /\ wpc'[u] = wpc[u] /\ node'[u] = node[u] /\ waits'[u] = waits[u]
        /\ pred'[u] = pred[u] /\ cur'[u] = cur[u] /\ succ'[u] = succ[u]
        /\ p' = p /\ pc' = pc /\ owner' = owner /\ low_p_acq' = low_p_acq
        /\ target' = target
    BY <1>3, StepFrame
  <2>2. PlaceOK(u)'
    BY <2>0, <2>1 DEF PlaceOK, Wakes, Forward, Back, End
  <2>3. next'[u] = next[u] \/ wpc[u] # "e_swap"
    BY <1>3, NodesOfOthers
  <2>4. CASE status'[u] = status[u]
    BY <2>0, <2>1, <2>2, <2>3, <2>4 DEF NodeOK
  <2>5. CASE /\ wpc[u] = "w_spin"
             /\ \/ status'[u] \in {"WAKE", "RECYCLE"}
                \/ status'[u] = "CHECK" /\ p[u] = 0
    <3>1. pc[u] = "l_wait"
      BY <1>0, <2>0, <2>5 DEF PlaceOK, HMPRTypeOK, Wakes, Forward, Back, End
    <3> QED
      BY <2>1, <2>2, <2>3, <2>5, <3>1 DEF NodeOK
  <2> QED
    BY <1>3, <2>4, <2>5, NodesOfOthers
<1>4. /\ p' = p /\ pc' = pc /\ owner' = owner /\ low_p_acq' = low_p_acq
      /\ target' = target
  BY StepFrame
<1>5. pc[t] \in {"h_enq", "r_high", "l_wait", "r_low"} /\ wpc[t] # "out"
  BY <1>0 DEF HMPRTypeOK, PlaceOK, ListStep, WSkipStep, EnqStatus, EnqNext, EnqSwap, EnqWake, EnqLink,
     WaitSpin, WakeTry, WakeNext, WakeCAS, WakeCheck, WakeTurn, WakeRecycle, WakeRev,
     WakeRevNext, WakeTail, WakeWait, WakeGrant, WakeClear, WAt
<1>6. Return(t) => PlaceOK(t)' /\ wpc'[t] = "out"
  BY <1>0, <1>4, <1>5 DEF Return, WGoto, PlaceOK, HMPRTypeOK, WSkipTypeOK
<1>7. ASSUME wpc'[t] \in Wakes \cup {"e_next", "e_swap", "e_wake", "e_link", "w_spin"},
             node'[t] = node[t], waits'[t] = waits[t],
             IF wpc'[t] \in Wakes THEN pc[t] = "r_low" ELSE pc[t] = "l_wait"
      PROVE  PlaceOK(t)'
  BY <1>0, <1>4, <1>5, <1>7 DEF PlaceOK, HMPRTypeOK, WSkipTypeOK, Wakes, Forward, Back, End
<1>8. CASE EnqStatus(t)
  <2> SUFFICES PlaceOK(t)' /\ NodeOK(t)'
    BY <1>1, <1>2, <1>3 DEF LocalInv
  <2>1. wpc[t] = "e_status" /\ node[t] = IF pc[t] = "h_enq" THEN znode ELSE t
    BY <1>0, <1>8 DEF EnqStatus, PlaceOK, Wakes, Forward, Back, End
  <2>2. CASE pc[t] = "h_enq"
    <3>1. ~ waits[t] /\ status[node[t]] # "RECYCLE"
      BY <1>0, <2>1, <2>2 DEF PlaceOK, LocalInv
    <3>2. Return(t) /\ status' = [status EXCEPT ![znode] = "WAIT"]
      BY <1>8, <2>1, <2>2, <3>1 DEF EnqStatus, SetStatus, Enqueued
    <3>3. status'[t] = status[t]
      BY <1>0, <3>2, Names DEF WSkipTypeOK
    <3>4. NodeOK(t)'
      BY <1>0, <1>4, <1>6, <2>2, <3>2, <3>3 DEF NodeOK
    <3> QED
      BY <1>6, <3>2, <3>4
  <2>3. CASE pc[t] # "h_enq"
    <3>1. pc[t] = "l_wait" /\ status[t] = "RECYCLE" /\ node[t] = t
      BY <1>0, <1>5, <2>1, <2>3 DEF PlaceOK, NodeOK, Wakes, Forward, Back, End
    <3>2. wpc'[t] = "e_next" /\ node' = node /\ waits' = waits /\ status'[t] = "WAIT"
      BY <1>0, <1>8, <3>1, Names DEF EnqStatus, SetStatus, WGoto, WSkipTypeOK
    <3>3. NodeOK(t)'
      BY <1>4, <3>1, <3>2 DEF NodeOK
    <3> QED
      BY <1>7, <3>1, <3>2, <3>3 DEF Wakes, Forward, Back, End
  <2> QED
    BY <2>2, <2>3
<1>9. CASE EnqNext(t) \/ EnqSwap(t)
  <2>1. pc[t] = "l_wait" /\ node[t] = t /\ status[t] \in {"WAIT", "SKIP"}
    BY <1>0, <1>5, <1>9 DEF EnqNext, EnqSwap, WAt, PlaceOK, NodeOK, Wakes, Forward, Back, End
  <2>2. /\ status' = status /\ node' = node /\ waits' = waits
        /\ wpc'[t] \in {"e_swap", "e_wake", "e_link"}
        /\ wpc'[t] = "e_swap" => next'[t] = NULL
    BY <1>0, <1>9, <2>1, Names DEF EnqNext, EnqSwap, WAt, WGoto, SetNext, WSkipTypeOK
  <2>3. PlaceOK(t)'
    BY <1>7, <2>1, <2>2 DEF Wakes, Forward, Back, End
  <2>4. NodeOK(t)'
    BY <1>0, <1>4, <2>1, <2>2 DEF NodeOK
  <2> QED
    BY <1>1, <1>2, <1>3, <2>3, <2>4 DEF LocalInv
<1>10. CASE EnqWake(t) \/ WaitSpin(t)
  <2>1. pc[t] = "l_wait" /\ node[t] = t /\ Return(t)
    BY <1>0, <1>5, <1>10 DEF EnqWake, WaitSpin, PlaceOK, Wakes, Forward, Back, End
  <2>2. status'[t] \in {"WAKE", "RECYCLE"}
    BY <1>0, <1>10, <2>1, Names DEF EnqWake, WaitSpin, SetStatus, WSkipTypeOK
  <2>3. PlaceOK(t)' /\ NodeOK(t)'
    BY <1>4, <1>6, <2>1, <2>2 DEF NodeOK
  <2> QED
    BY <1>1, <1>2, <1>3, <2>3 DEF LocalInv
<1>11. CASE EnqLink(t)
  <2>1. pc[t] = "l_wait" /\ waits[t] /\ status[t] \in {"WAIT", "SKIP"}
    BY <1>0, <1>5, <1>11 DEF EnqLink, PlaceOK, NodeOK, Wakes, Forward, Back, End
  <2>2. status' = status /\ node' = node /\ waits' = waits /\ wpc'[t] = "w_spin"
    BY <1>0, <1>11, <2>1 DEF EnqLink, Enqueued, WGoto, WSkipTypeOK
  <2>3. PlaceOK(t)'
    BY <1>7, <2>1, <2>2 DEF Wakes, Forward, Back, End
  <2>4. NodeOK(t)'
    BY <1>0, <1>4, <2>1, <2>2 DEF NodeOK
  <2> QED
    BY <1>1, <1>2, <1>3, <2>3, <2>4 DEF LocalInv
<1>12. CASE WakeTry(t) /\ status[node[t]] # "WAKE"
  <2>1. wpc[t] = "k_try" /\ Return(t) /\ status' = status
    BY <1>12 DEF WakeTry
  <2>2. pc[t] \in {"r_high", "r_low"} /\ status[t] = "RECYCLE"
    BY <1>0, <1>5, <1>12, <2>1 DEF PlaceOK, NodeOK
  <2>3. PlaceOK(t)' /\ NodeOK(t)'
    BY <1>0, <1>4, <1>6, <2>1, <2>2 DEF NodeOK
  <2> QED
    BY <1>1, <1>2, <1>3, <2>3 DEF LocalInv
<1>13. ASSUME pc[t] = "r_low", status'[t] = "RECYCLE",
              Return(t) \/ (wpc'[t] \in Wakes /\ node' = node /\ waits' = waits)
       PROVE  LocalInv'
  <2>1. PlaceOK(t)'
    BY <1>6, <1>7, <1>13
  <2>2. NodeOK(t)'
    BY <1>0, <1>4, <1>6, <1>13 DEF NodeOK, Wakes, Forward, Back, End
  <2> QED
    BY <1>1, <1>2, <1>3, <2>1, <2>2 DEF LocalInv
<1>14. CASE WakeTry(t) /\ status[node[t]] = "WAKE"
  <2>1. node[t] = t /\ pc[t] = "r_low" /\ wpc[t] = "k_try"
    BY <1>0, <1>5, <1>14 DEF WakeTry, LocalInv, PlaceOK
  <2>2. status'[t] = "RECYCLE" /\ wpc'[t] \in Wakes /\ node' = node /\ waits' = waits
    BY <1>0, <1>14, <2>1, Names DEF WakeTry, SetStatus, WGoto, WSkipTypeOK, Wakes, Forward
  <2> QED
    BY <1>13, <2>1, <2>2
<1>15. CASE WakeNext(t) \/ WakeRevNext(t) \/ WakeTail(t) \/ WakeWait(t) \/ WakeTurn(t) \/ WakeClear(t)
  <2>1. wpc[t] \in Wakes /\ status' = status
    BY <1>15 DEF WakeNext, WakeRevNext, WakeTail, WakeWait, WakeTurn, WakeClear, WAt,
       Wakes, Forward, Back, End
  <2>2. pc[t] = "r_low" /\ status[t] = "RECYCLE"
    BY <2>1, Way
  <2>3. Return(t) \/ (wpc'[t] \in Wakes /\ node' = node /\ waits' = waits)
    BY <1>0, <1>15 DEF WakeNext, WakeRevNext, WakeTail, WakeWait, WakeTurn, WakeClear, WAt,
       WGoto, Recycled, WSkipTypeOK, Wakes, Forward, Back, End
  <2> QED
    BY <1>13, <2>1, <2>2, <2>3
<1>16. CASE WakeCAS(t) \/ WakeCheck(t) \/ WakeGrant(t)
  <2>1. wpc[t] \in {"k_cas", "k_check", "k_grant"}
    BY <1>16 DEF WakeCAS, WakeCheck, WakeGrant, WAt
  <2>2. wpc[t] \in Wakes /\ succ[t] # t
    BY <2>1, Target
  <2>3. pc[t] = "r_low" /\ status[t] = "RECYCLE"
    BY <2>2, Way
  <2>4. status'[t] = "RECYCLE"
    BY <1>0, <1>16, <2>2, <2>3, Names DEF WakeCAS, WakeCheck, WakeGrant, SetStatus, WSkipTypeOK
  <2>5. wpc'[t] \in Wakes /\ node' = node /\ waits' = waits
    BY <1>0, <1>16 DEF WakeCAS, WakeCheck, WakeGrant, WAt, WGoto, WSkipTypeOK,
       Wakes, Forward, Back, End
  <2> QED
    BY <1>13, <2>3, <2>4, <2>5
<1>17. CASE WakeRecycle(t) \/ WakeRev(t)
  <2>1. wpc[t] \in Wakes
    BY <1>17 DEF WakeRecycle, WakeRev, WAt, Wakes, Back
  <2>2. pc[t] = "r_low" /\ status[t] = "RECYCLE"
    BY <2>1, Way
  <2>3. status'[t] = "RECYCLE"
    BY <1>0, <1>17, <2>2, Names DEF WakeRecycle, WakeRev, SetStatus, WSkipTypeOK
  <2>4. wpc'[t] \in Wakes /\ node' = node /\ waits' = waits
    BY <1>0, <1>17 DEF WakeRecycle, WakeRev, WAt, WGoto, Recycled, WSkipTypeOK,
       Wakes, Forward, Back, End
  <2> QED
    BY <1>13, <2>2, <2>3, <2>4
<1> QED
  BY <1>8, <1>9, <1>10, <1>11, <1>12, <1>14, <1>15, <1>16, <1>17 DEF ListStep, WSkipStep

(* The steps of a thread outside the operations of the list. *)
LockStep(t) ==
  \/ HighBegin(t) \/ LowBegin(t) \/ HMPRAcquire(t)
  \/ \E u \in Threads \ {t} : Raise(t, u)
  \/ RaiseSkip(t)
  \/ HMPRRelease(t) \/ HighUnlock(t) \/ LowDone(t)

LEMMA LockTypes ==
  ASSUME LocalInv, NEW t \in Threads, LockStep(t)
  PROVE  HMPRTypeOK'
<1>0. HMPRTypeOK /\ WSkipTypeOK /\ PlaceOK(t)
  BY DEF LocalInv, HMPRTypeOK
<1>1. CASE HighBegin(t) \/ HighStraight(t) \/ LowLock(t)
  <2>1. WSkipTypeOK'
    BY <1>0, <1>1 DEF WSkipTypeOK, HighBegin, HighStraight, LowLock, wskipVars
  <2>2. CASE HighBegin(t) \/ HighStraight(t)
    BY <1>0, <2>1, <2>2 DEF HMPRTypeOK, HighBegin, HighStraight, At, Goto, flags, prios
  <2>3. CASE LowLock(t)
    BY <1>0, <2>1, <2>3 DEF HMPRTypeOK, LowLock, At, Goto, prios
  <2> QED
    BY <1>1, <2>2, <2>3
<1>2. CASE HighLock(t)
  <2>1. WSkipTypeOK'
    <3>1. CASE CallEnq(t, znode)
      BY <1>0, <3>1, Names DEF WSkipTypeOK, CallEnq, Call, WGoto
    <3>2. CASE UNCHANGED wskipVars
      BY <1>0, <3>2 DEF WSkipTypeOK, wskipVars
    <3> QED
      BY <1>2, <3>1, <3>2 DEF HighLock
  <2>2. pc' \in [Threads -> {"idle", "h_lock", "h_enq", "l_wait", "cs", "raise", "r_high", "r_low"}]
    BY <1>0, <1>2 DEF HMPRTypeOK, HighLock, Goto
  <2> QED
    BY <1>0, <1>2, <2>1, <2>2 DEF HMPRTypeOK, HighLock, flags, prios
<1>3. CASE LowBegin(t)
  BY <1>0, <1>3, Names DEF HMPRTypeOK, WSkipTypeOK, LowBegin, At, Goto, flags, CallWait, Call, WGoto
<1>4. CASE (\E u \in Threads \ {t} : Raise(t, u)) \/ RaiseSkip(t)
  BY <1>0, <1>4 DEF HMPRTypeOK, WSkipTypeOK, Raise, RaiseSkip, At, Goto, flags, wskipVars, Skip, Status
<1>5. CASE ReleaseStraight(t) \/ HighUnlock(t) \/ LowDone(t)
  BY <1>0, <1>5 DEF HMPRTypeOK, WSkipTypeOK, ReleaseStraight, HighUnlock, LowDone,
     At, Goto, flags, prios, wskipVars
<1>6. CASE ReleaseHigh(t)
  BY <1>0, <1>6, Names DEF HMPRTypeOK, WSkipTypeOK, ReleaseHigh, At, Goto, prios, CallWake, Call, WGoto
<1>7. CASE ReleaseLow(t)
  BY <1>0, <1>7, Names DEF HMPRTypeOK, WSkipTypeOK, ReleaseLow, At, Goto, prios, CallWake, Call, WGoto
<1> QED
  BY <1>1, <1>2, <1>3, <1>4, <1>5, <1>6, <1>7 DEF LockStep, HMPRAcquire, HMPRRelease

(* What a step of t outside the list changes of others: it raises one of   *)
(* them, and marks one that waits to be skipped.  Who holds the lock is    *)
(* alone to set low_p_acq.                                                 *)
LEMMA LockFrame ==
  ASSUME LocalInv, NEW t \in Threads, LockStep(t)
  PROVE  /\ lock' = lock /\ next' = next /\ pred' = pred /\ cur' = cur /\ succ' = succ
         /\ \A u \in Threads : u # t =>
              /\ wpc'[u] = wpc[u] /\ node'[u] = node[u] /\ waits'[u] = waits[u]
              /\ pc'[u] = pc[u] /\ target'[u] = target[u]
         /\ \A u \in Threads : p'[u] = p[u] \/ (p'[u] = 0 /\ pc'[t] = "raise")
         /\ \A n \in Nodes : status'[n] = status[n]
                             \/ (status[n] = "WAIT" /\ status'[n] = "SKIP" /\ n \in Threads
                                 /\ p'[n] = 0 /\ pc'[t] = "cs")
         /\ owner' = owner \/ owner = NULL \/ owner = t
         /\ owner' \in {owner, t, NULL}
         /\ low_p_acq' = low_p_acq \/ owner \in {NULL, t}
<1>0. HMPRTypeOK /\ WSkipTypeOK /\ PlaceOK(t)
  BY DEF LocalInv, HMPRTypeOK
<1>1. CASE HighBegin(t) \/ HighLock(t) \/ HighStraight(t) \/ LowBegin(t) \/ LowLock(t)
  BY <1>0, <1>1 DEF HMPRTypeOK, WSkipTypeOK, HighBegin, HighLock, HighStraight, LowBegin, LowLock,
     At, Goto, flags, prios, wskipVars, CallEnq, CallWait, Call, WGoto
<1>2. CASE \E u \in Threads \ {t} : Raise(t, u)
  <2>1. PICK v \in Threads \ {t} : Raise(t, v)
    BY <1>2
  <2>2. p'[v] = 0 /\ pc'[t] = "raise" /\ \A u \in Threads : u # v => p'[u] = p[u]
    BY <1>0, <2>1 DEF Raise, At, Goto, HMPRTypeOK
  <2> QED
    BY <1>0, <2>1, <2>2 DEF HMPRTypeOK, WSkipTypeOK, Raise, At, Goto, flags, wskipVars
<1>3. CASE RaiseSkip(t)
  <2>1. pc[t] = "raise" /\ pc'[t] = "cs" /\ target[t] \in Threads /\ p' = p
    BY <1>0, <1>3 DEF RaiseSkip, At, Goto, PlaceOK, HMPRTypeOK
  <2>2. \A n \in Nodes : status'[n] = status[n]
                         \/ (status[n] = "WAIT" /\ status'[n] = "SKIP" /\ n = target[t] /\ p[n] = 0)
    BY <1>0, <1>3 DEF RaiseSkip, Skip, WSkipTypeOK, wskipVars
  <2> QED
    BY <1>0, <1>3, <2>1, <2>2 DEF HMPRTypeOK, WSkipTypeOK, RaiseSkip, Skip, At, Goto, flags, wskipVars
<1>4. CASE HMPRRelease(t) \/ HighUnlock(t) \/ LowDone(t)
  BY <1>0, <1>4 DEF HMPRTypeOK, WSkipTypeOK, HMPRRelease, ReleaseStraight, ReleaseHigh, HighUnlock,
     ReleaseLow, LowDone, At, Goto, flags, prios, wskipVars, CallWake, Call, WGoto, PlaceOK
<1> QED
  BY <1>1, <1>2, <1>3, <1>4 DEF LockStep, HMPRAcquire

LEMMA LockLocal ==
  ASSUME LocalInv, NEW t \in Threads, LockStep(t)
  PROVE  LocalInv'
<1>0. HMPRTypeOK /\ WSkipTypeOK /\ PlaceOK(t) /\ NodeOK(t)
  BY DEF LocalInv, HMPRTypeOK
<1>1. HMPRTypeOK'
  BY LockTypes
<1>2. status'[znode] = "WAIT"
  BY LockFrame, Names DEF LocalInv
<1>3. ASSUME NEW u \in Threads, u # t PROVE PlaceOK(u)' /\ NodeOK(u)'
  <2>0. PlaceOK(u) /\ NodeOK(u)
    BY DEF LocalInv
  <2>1. /\ next' = next /\ pred' = pred /\ succ' = succ
        /\ wpc'[u] = wpc[u] /\ node'[u] = node[u] /\ waits'[u] = waits[u]
        /\ pc'[u] = pc[u] /\ target'[u] = target[u]
        /\ p'[u] = p[u] \/ p'[u] = 0
        /\ status'[u] = status[u] \/ (status[u] = "WAIT" /\ status'[u] = "SKIP" /\ p'[u] = 0)
        /\ owner = u => owner' = u /\ low_p_acq' = low_p_acq
    BY <1>3, LockFrame, Names
  <2>2. PlaceOK(u)'
    BY <2>0, <2>1 DEF PlaceOK
  <2>3. NodeOK(u)'
    BY <2>0, <2>1 DEF NodeOK, PlaceOK
  <2> QED
    BY <2>2, <2>3
<1>4. SUFFICES PlaceOK(t)' /\ NodeOK(t)'
  BY <1>1, <1>2, <1>3 DEF LocalInv
<1>5. CASE HighBegin(t) \/ HighLock(t) \/ HighStraight(t)
  BY <1>0, <1>5 DEF HMPRTypeOK, WSkipTypeOK, PlaceOK, NodeOK, HighBegin, HighLock, HighStraight,
     At, Goto, Out, flags, prios, wskipVars, CallEnq, Call, WGoto, Wakes, Forward, Back, End
<1>6. CASE LowBegin(t) \/ LowLock(t)
  BY <1>0, <1>6 DEF HMPRTypeOK, WSkipTypeOK, PlaceOK, NodeOK, LowBegin, LowLock,
     At, Goto, Out, flags, prios, wskipVars, CallWait, Call, WGoto, Wakes, Forward, Back, End
<1>7. CASE (\E u \in Threads \ {t} : Raise(t, u)) \/ RaiseSkip(t)
  <2>1. /\ wskipVars' = wskipVars \/ (RaiseSkip(t) /\ Skip(target[t]))
        /\ owner' = owner /\ low_p_acq' = low_p_acq
        /\ pc'[t] \in {"raise", "cs"} /\ pc[t] \in {"raise", "cs"}
        /\ pc'[t] = "raise" => target'[t] \in Threads
    BY <1>0, <1>7 DEF Raise, RaiseSkip, At, Goto, flags, HMPRTypeOK
  <2>2. wpc' = wpc /\ node' = node /\ waits' = waits /\ pred' = pred /\ succ' = succ
    BY <2>1 DEF wskipVars, Skip
  <2>3. PlaceOK(t)'
    BY <1>0, <2>1, <2>2 DEF PlaceOK, Wakes, Forward, Back, End
  <2>4. status[t] \in {"RECYCLE", "WAKE"} /\ wpc[t] = "out"
    BY <1>0, <2>1 DEF NodeOK, PlaceOK
  <2>5. status'[t] = status[t]
    BY <2>4, LockFrame, Names
  <2> QED
    BY <1>0, <2>1, <2>2, <2>3, <2>4, <2>5 DEF NodeOK
<1>8. CASE ReleaseStraight(t) \/ HighUnlock(t) \/ LowDone(t)
  BY <1>0, <1>8 DEF HMPRTypeOK, WSkipTypeOK, PlaceOK, NodeOK, ReleaseStraight, HighUnlock, LowDone,
     At, Goto, Out, flags, prios, wskipVars, Wakes, Forward, Back, End
<1>9. CASE ReleaseHigh(t) \/ ReleaseLow(t)
  BY <1>0, <1>9 DEF HMPRTypeOK, WSkipTypeOK, PlaceOK, NodeOK, ReleaseHigh, ReleaseLow,
     At, Goto, Out, flags, prios, CallWake, Call, WGoto, Wakes, Forward, Back, End
<1> QED
  BY <1>5, <1>6, <1>7, <1>8, <1>9 DEF LockStep, HMPRAcquire, HMPRRelease

LEMMA LockList ==
  ASSUME LocalInv, LocalInv',
         NEW f, NEW a, NEW b, NEW lo, NEW hi, ListInv(f, a, b, lo, hi),
         NEW t \in Threads, LockStep(t)
  PROVE  ListInv(f, a, b, lo, hi)'
<1>0. HMPRTypeOK /\ WSkipTypeOK /\ PlaceOK(t)
  BY DEF LocalInv, HMPRTypeOK
<1>1. \/ wpc'[t] = wpc[t] /\ waits'[t] = waits[t]
      \/ wpc[t] = "out" /\ wpc'[t] \in {"e_status", "k_try"} /\ (waits'[t] => p[t] > 0)
  BY <1>0 DEF LockStep, HighBegin, HighLock, HighStraight, LowBegin, LowLock, HMPRAcquire, Raise, RaiseSkip,
     HMPRRelease, ReleaseStraight, ReleaseHigh, ReleaseLow, HighUnlock, LowDone, Skip, HMPRTypeOK,
     At, Goto, Out, wskipVars, CallEnq, CallWait, CallWake, Call, WGoto, WSkipTypeOK
<1>2. ASSUME NEW n, Gone(n) PROVE Gone(n)'
  <2>1. n \in Threads /\ n \in Nodes
    BY <1>2, Names DEF Gone
  <2>2. status'[n] = "RECYCLE" /\ p'[n] = 0
    BY <1>2, <2>1, LockFrame DEF Gone
  <2>3. CASE n = t
    BY <1>1, <1>2, <2>1, <2>2, <2>3 DEF Gone, Wakes, Forward, Back, End
  <2>4. CASE n # t
    BY <1>2, <2>1, <2>2, <2>4, LockFrame DEF Gone
  <2> QED
    BY <2>3, <2>4
<1>3. \A u \in Threads : \/ /\ wpc'[u] = wpc[u]
                            /\ pred'[u] = pred[u] /\ cur'[u] = cur[u] /\ succ'[u] = succ[u]
                         \/ wpc[u] \in Calm /\ wpc'[u] \in Calm
  BY <1>1, LockFrame DEF Calm
<1>4. /\ lock' = lock /\ \A n \in Threads : next'[n] = next[n]
      /\ \A n \in Threads : status'[n] = status[n] \/ (status[n] = "WAIT" /\ status'[n] = "SKIP")
  BY LockFrame, Names
<1> QED
  BY <1>2, <1>3, <1>4, CalmStep

(* The first steps of an insertion, the end of a wait, and a wake by a     *)
(* thread that is not the first.                                           *)
LEMMA CalmList ==
  ASSUME LocalInv, LocalInv',
         NEW f, NEW a, NEW b, NEW lo, NEW hi, ListInv(f, a, b, lo, hi),
         NEW t \in Threads, ListStep(t),
         \/ EnqStatus(t) \/ EnqNext(t) \/ WaitSpin(t)
         \/ WakeTry(t) /\ status[node[t]] # "WAKE"
  PROVE  ListInv(f, a, b, lo, hi)'
<1>0. HMPRTypeOK /\ WSkipTypeOK /\ PlaceOK(t) /\ NodeOK(t)
  BY DEF LocalInv, HMPRTypeOK
<1>1. wpc[t] \in {"e_status", "e_next", "w_spin", "k_try"}
  BY DEF EnqStatus, EnqNext, WaitSpin, WakeTry, WAt
<1>2. wpc[t] = "e_status" => node[t] = (IF waits[t] THEN t ELSE znode)
                             /\ status[node[t]] = (IF waits[t] THEN "RECYCLE" ELSE "WAIT")
  BY <1>0 DEF LocalInv, HMPRTypeOK, PlaceOK, NodeOK, Wakes, Forward, Back, End
<1>3. wpc[t] \in {"e_next", "w_spin"} => node[t] = t
  BY <1>0 DEF HMPRTypeOK, PlaceOK, Wakes, Forward, Back, End
<1>4. lock' = lock /\ wpc'[t] \in Calm
      /\ (wpc[t] = "w_spin" => status[t] \in {"WAKE", "RECYCLE"})
  BY <1>0, <1>1, <1>2, <1>3 DEF EnqStatus, EnqNext, WaitSpin, WakeTry, WAt, WGoto, Enqueued, Return,
     WSkipTypeOK, Calm
<1>5. \A n \in Threads : next'[n] = next[n] \/ wpc[n] = "e_next"
  BY <1>0, <1>3, Names DEF EnqStatus, EnqNext, WaitSpin, WakeTry, SetNext, WAt, WSkipTypeOK
<1>6. \A n \in Threads :
           \/ status'[n] = status[n]
           \/ status[n] = "RECYCLE" /\ status'[n] = "WAIT" /\ wpc[n] = "e_status" /\ waits[n]
  BY <1>0, <1>1, <1>2, Names DEF EnqStatus, EnqNext, WaitSpin, WakeTry, SetStatus, WSkipTypeOK
<1>7. \A u \in Threads :
           \/ /\ wpc'[u] = wpc[u]
              /\ pred'[u] = pred[u] /\ cur'[u] = cur[u] /\ succ'[u] = succ[u]
           \/ wpc[u] \in Calm /\ wpc'[u] \in Calm
           \/ wpc[u] = "w_spin" /\ status[u] \in {"WAKE", "RECYCLE"} /\ wpc'[u] \in Calm
  BY <1>1, <1>4, StepFrame DEF Calm
<1>8. wpc'[t] # "e_status" /\ wpc'[t] \notin Wakes
  BY <1>0, <1>1, <1>2 DEF EnqStatus, EnqNext, WaitSpin, WakeTry, WAt, WGoto, Enqueued, Return,
     WSkipTypeOK, Wakes, Forward, Back, End
<1>9. ASSUME NEW n, Gone(n) PROVE Gone(n)'
  <2>1. n \in Threads /\ status'[n] = "RECYCLE" /\ p'[n] = 0
    BY <1>6, <1>9, StepFrame DEF Gone
  <2>2. CASE n = t
    BY <1>8, <2>1, <2>2 DEF Gone
  <2>3. CASE n # t
    BY <1>9, <2>1, <2>3, StepFrame DEF Gone
  <2> QED
    BY <2>2, <2>3
<1> QED
  BY <1>4, <1>5, <1>6, <1>7, <1>9, CalmStep

-----------------------------------------------------------------------------
(* The invariant of the list, step by step. *)
LEMMA ListPreserved ==
  ASSUME LocalInv, LocalInv',
         NEW f, NEW a, NEW b, NEW lo, NEW hi, ListInv(f, a, b, lo, hi),
         NEW t \in Threads, ListStep(t)
  PROVE  \E f2, a2, b2, lo2, hi2 : ListInv(f2, a2, b2, lo2, hi2)'
<1>1. CASE \/ EnqStatus(t) \/ EnqNext(t) \/ WaitSpin(t)
           \/ WakeTry(t) /\ status[node[t]] # "WAKE"
  BY <1>1, CalmList
<1>2. CASE EnqSwap(t)
  <2>1. ListInv([f EXCEPT ![b] = t], a, b + 1, lo, hi)'
    BY <1>2, SwapList
  <2> QED
    BY <2>1
<1>3. CASE EnqWake(t)
  BY <1>3, FirstList
<1>4. CASE EnqLink(t)
  BY <1>4, LinkList
<1>5. CASE WakeTry(t) /\ status[node[t]] = "WAKE"
  BY <1>5, TryList
<1>6. CASE WakeNext(t)
  BY <1>6, NextList
<1>7. CASE WakeCAS(t) /\ status[succ[t]] # "WAIT"
  BY <1>7, CASFailsList
<1>8. CASE (WakeCAS(t) /\ status[succ[t]] = "WAIT") \/ WakeGrant(t)
  BY <1>8, HandList
<1>9. CASE WakeCheck(t)
  BY <1>9, CheckList
<1>10. CASE WakeTurn(t)
  BY <1>10, TurnList
<1>11. CASE WakeRecycle(t)
  BY <1>11, RecycleList
<1>12. CASE WakeRev(t)
  BY <1>12, RevList
<1>13. CASE WakeRevNext(t)
  BY <1>13, RevNextList
<1>14. CASE WakeTail(t) /\ lock # cur[t]
  BY <1>14, TailFailsList
<1>15. CASE WakeTail(t) /\ lock = cur[t]
  BY <1>15, EmptyList
<1>16. CASE WakeWait(t)
  BY <1>16, WaitList
<1>17. CASE WakeClear(t)
  BY <1>17, ClearList
<1> QED
  BY <1>1, <1>2, <1>3, <1>4, <1>5, <1>6, <1>7, <1>8, <1>9, <1>10, <1>11, <1>12, <1>13,
     <1>14, <1>15, <1>16, <1>17 DEF ListStep, WSkipStep

LEMMA InvInit ==
  ASSUME znodeStatus = "WAIT", HMPRInit
  PROVE  LinesOK
<1>1. HMPRTypeOK
  BY Names DEF HMPRInit, WSkipInit, HMPRTypeOK, WSkipTypeOK, Status
<1>2. status[znode] = "WAIT" /\ \A t \in Threads : PlaceOK(t) /\ NodeOK(t)
  BY Names DEF HMPRInit, WSkipInit, PlaceOK, NodeOK
<1>3. PICK f, lo : f = [k \in Nat |-> znode] /\ lo = [t \in Threads |-> 0]
  OBVIOUS
<1>4. \A t \in Threads : wpc[t] = "out" /\ status[t] = "RECYCLE" /\ wpc[t] \notin Wakes
  BY Names DEF HMPRInit, WSkipInit, Wakes, Forward, Back, End
<1>5. \A t \in Threads : ~ Leads(t) /\ ~ InLine(t)
  BY <1>4 DEF Leads, InLine, Wakes
<1>6. f \in [Nat -> Nodes] /\ lo \in [Threads -> Nat]
  BY <1>3, Names
<1>7. LineOK(f, 0, 0)
  BY <1>5 DEF LineOK, HMPRInit, WSkipInit
<1>8. TokenOK(f, 0, 0) /\ CoverOK(f, lo, lo) /\ \A t \in Threads : WakeOK(t, f, 0, 0, lo, lo)
  BY <1>4, <1>5 DEF TokenOK, CoverOK, WakeOK
<1>9. ListInv(f, 0, 0, lo, lo)
  BY <1>6, <1>7, <1>8 DEF ListInv
<1> QED
  BY <1>1, <1>2, <1>9 DEF LinesOK, LocalInv

LEMMA InvNext ==
  ASSUME LinesOK, [HMPRNext]_hmprVars
  PROVE  LinesOK'
<1>0. PICK f, a, b, lo, hi : ListInv(f, a, b, lo, hi)
  BY DEF LinesOK
<1>1. LocalInv
  BY DEF LinesOK
<1>2. CASE \E t \in Threads : LockStep(t)
  <2>1. PICK t \in Threads : LockStep(t)
    BY <1>2
  <2>2. LocalInv'
    BY <1>1, <2>1, LockLocal
  <2>3. ListInv(f, a, b, lo, hi)'
    BY <1>0, <1>1, <2>1, <2>2, LockList
  <2> QED
    BY <2>2, <2>3 DEF LinesOK
<1>3. CASE \E t \in Threads : ListStep(t)
  <2>1. PICK t \in Threads : ListStep(t)
    BY <1>3
  <2>2. LocalInv'
    BY <1>0, <1>1, <2>1, ListLocal
  <2>3. \E f2, a2, b2, lo2, hi2 : ListInv(f2, a2, b2, lo2, hi2)'
    BY <1>0, <1>1, <2>1, <2>2, ListPreserved
  <2> QED
    BY <2>2, <2>3 DEF LinesOK
<1>4. CASE UNCHANGED hmprVars
  <2>1. LocalInv'
    BY <1>1, <1>4 DEF LocalInv, HMPRTypeOK, WSkipTypeOK, PlaceOK, NodeOK, hmprVars, lockVars, wskipVars
  <2>2. /\ lock' = lock /\ next' = next /\ status' = status /\ wpc' = wpc
        /\ pred' = pred /\ cur' = cur /\ succ' = succ
    BY <1>4 DEF hmprVars, wskipVars
  <2>3. \A n : Gone(n) => Gone(n)'
    BY <1>4 DEF Gone, hmprVars, lockVars, wskipVars
  <2>4. ListInv(f, a, b, lo, hi)'
    BY <1>0, <1>1, <2>1, <2>2, <2>3, CalmStep
  <2> QED
    BY <2>1, <2>4 DEF LinesOK
<1> QED
  BY <1>2, <1>3, <1>4 DEF HMPRNext, LockStep

(* The invariant holds in every state of a lock whose znode begins with    *)
(* ZM_WAIT, what memory set to zero means (zm_hmpr_init does not say).     *)
THEOREM HMPRInvariant ==
  ASSUME znodeStatus = "WAIT"
  PROVE  HMPRSpec => []LinesOK
<1>1. HMPRInit => LinesOK
  BY InvInit
<1>2. LinesOK /\ [HMPRNext]_hmprVars => LinesOK'
  BY InvNext
<1> QED
  BY <1>1, <1>2, PTL DEF HMPRSpec

(* One thread at a time is first in the line, and no node is inserted that *)
(* wake still has to come back to (wake and enq of cond/zm_wskip.c).       *)
THEOREM OneWakesHolds ==
  ASSUME znodeStatus = "WAIT"
  PROVE  HMPRSpec => []OneWakes
<1>1. ASSUME LinesOK PROVE OneWakes
  <2>0. PICK f, a, b, lo, hi : ListInv(f, a, b, lo, hi)
    BY <1>1 DEF LinesOK
  <2>1. LocalInv
    BY <1>1 DEF LinesOK
  <2>2. NeverChecked
    <3> SUFFICES ASSUME NEW t \in Threads, wpc[t] = "e_status" PROVE status[node[t]] # "CHECK"
      BY DEF NeverChecked
    <3>1. PlaceOK(t) /\ NodeOK(t) /\ HMPRTypeOK /\ status[znode] = "WAIT"
      BY <2>1 DEF LocalInv
    <3> QED
      BY <3>1 DEF PlaceOK, NodeOK, HMPRTypeOK, Wakes, Forward, Back, End
  <2>3. ASSUME NEW m \in Nodes, NEW n \in Nodes, status[m] = "WAKE", status[n] = "WAKE"
        PROVE  m = n
    <3>1. m \in Threads /\ n \in Threads
      BY <2>1, <2>3, Names DEF LocalInv
    <3> QED
      BY <2>0, <2>3, <3>1 DEF ListInv, TokenOK
  <2> QED
    BY <2>1, <2>2, <2>3 DEF OneWakes, LocalInv
<1> QED
  BY <1>1, HMPRInvariant, PTL

LEMMA TailInv == ASSUME LinesOK PROVE TailInLine
<1>0. PICK f, a, b, lo, hi : ListInv(f, a, b, lo, hi)
  BY DEF LinesOK
<1>1. LocalInv
  BY DEF LinesOK
<1> SUFFICES ASSUME lock # NULL, status[lock] = "RECYCLE"
             PROVE  \E t \in Threads : wpc[t] \notin {"out", "w_spin"}
                                       /\ lock \in {node[t], cur[t], succ[t]}
  BY DEF TailInLine
<1>2. a \in Nat /\ b \in Nat /\ a < b /\ lock = f[b - 1]
  BY <1>0 DEF ListInv, LineOK
<1>3. b - 1 \in a..b-1
  BY <1>2
<1>4. lock \in Threads
  BY <1>0, <1>1, <1>2, <1>3, Member
<1>5. wpc[lock] # "e_link" /\ wpc[lock] # "e_wake"
  BY <1>1, <1>4 DEF LocalInv, NodeOK
<1>6. b - 1 = a
  <2>1. SUFFICES ASSUME b - 1 # a PROVE FALSE
    OBVIOUS
  <2>2. b - 1 \in a+1..b-1
    BY <1>2, <2>1
  <2>3. Linking(b - 1, f) \/ Linked(b - 1, f, a)
    BY <1>0, <2>2 DEF ListInv, LineOK
  <2> QED
    BY <1>2, <1>5, <2>3 DEF Linking, Linked
<1>7. PICK t \in Threads : Leads(t)
  BY <1>0, <1>2, <1>5, <1>6 DEF ListInv, TokenOK
<1>8. wpc[t] \in Wakes /\ cur[t] = lock
  BY <1>0, <1>1, <1>2, <1>6, <1>7, Leader
<1> QED
  BY <1>8 DEF Wakes, Forward, Back, End

LEMMA SomeoneInv == ASSUME LinesOK PROVE SomeoneWakes
<1>0. PICK f, a, b, lo, hi : ListInv(f, a, b, lo, hi)
  BY DEF LinesOK
<1>1. LocalInv
  BY DEF LinesOK
<1> SUFFICES ASSUME NEW t \in Threads, wpc[t] = "w_spin", status[t] \in {"WAIT", "SKIP", "CHECK"}
             PROVE  \E u \in Threads :
                      \/ status[u] = "WAKE" /\ pc[u] # "idle"
                      \/ wpc[u] = "e_wake"
                      \/ wpc[u] \notin {"out", "e_status", "e_next", "e_swap", "e_link",
                                        "w_spin", "k_try"}
  BY DEF SomeoneWakes
<1>2. CASE status[t] = "CHECK"
  <2>1. PICK u \in Threads : wpc[u] \in Wakes
    BY <1>0, <1>2 DEF ListInv, CoverOK, Owes
  <2> QED
    BY <2>1 DEF Wakes, Forward, Back, End
<1>3. CASE status[t] # "CHECK"
  <2>1. PICK k \in a+1..b-1 : f[k] = t
    BY <1>0, <1>3 DEF ListInv, LineOK, InLine
  <2>2. a < b /\ a \in a..b-1
    BY <1>0 DEF ListInv
  <2>3. f[a] \in Threads
    BY <1>0, <1>1, <2>2, Member
  <2>4. status[f[a]] = "WAKE" => pc[f[a]] # "idle"
    BY <1>1, <2>3 DEF LocalInv, NodeOK
  <2>5. \A u \in Threads : Leads(u) => wpc[u] \in Wakes
    BY DEF Leads, Wakes
  <2>6. \/ status[f[a]] = "WAKE" \/ wpc[f[a]] = "e_wake"
        \/ \E u \in Threads : Leads(u)
    BY <1>0, <2>2 DEF ListInv, TokenOK
  <2> QED
    BY <2>3, <2>4, <2>5, <2>6 DEF Wakes, Forward, Back, End
<1> QED
  BY <1>2, <1>3

(* Whoever waits in the line is woken by somebody who has not called wake  *)
(* yet or is inside it, and the line does not end in a node that left it:  *)
(* the hand-over of wake and its compare-and-swap of the tail lose nobody. *)
THEOREM NobodyForgottenHolds ==
  ASSUME znodeStatus = "WAIT"
  PROVE  HMPRSpec => []NobodyForgotten
<1>1. LinesOK => NobodyForgotten
  BY TailInv, SomeoneInv DEF NobodyForgotten
<1> QED
  BY <1>1, HMPRInvariant, PTL

-----------------------------------------------------------------------------
(***************************************************************************)
(* The two-level priority protocol.                                        *)
(***************************************************************************)

LEMMA Counters ==
  ASSUME NEW n \in 0..M-1
  PROVE  /\ Inc(n) \in 0..M-1 /\ Inc(n) # n
         /\ Inc(Inc(n)) \in 0..M-1 /\ Inc(Inc(n)) # n /\ Inc(Inc(n)) # Inc(n)
         /\ (n - n) % M = 0 /\ (Inc(n) - n) % M = 1
<1>1. M \in Nat /\ M > 2 /\ n \in Nat /\ n < M
  BY PrioLockAssumption
<1>2. \A k \in 0..M-1 : (k + 1) % M = IF k + 1 = M THEN 0 ELSE k + 1
  BY <1>1, SMT
<1>3. 0 % M = 0 /\ 1 % M = 1 /\ (1 - M) % M = 1
  BY <1>1, SMT
<1>4. Inc(n) = IF n + 1 = M THEN 0 ELSE n + 1
  BY <1>2 DEF Inc
<1>5. Inc(n) \in 0..M-1
  BY <1>1, <1>4
<1>6. Inc(Inc(n)) = IF Inc(n) + 1 = M THEN 0 ELSE Inc(n) + 1
  BY <1>2, <1>5 DEF Inc
<1>7. n - n = 0 /\ Inc(n) - n \in {1, 1 - M}
  BY <1>1, <1>4
<1> QED
  BY <1>1, <1>3, <1>4, <1>5, <1>6, <1>7

LEMMA InitInv == Init => IInv
<1> SUFFICES ASSUME Init PROVE IInv
  OBVIOUS
<1>1. /\ \A t \in Threads : pc[t] = "idle"
      /\ hown = {} /\ lown = {} /\ go_straight = 0 /\ low_p_acq = 0
      /\ hq = << >> /\ lq = << >> /\ fnext = 0 /\ fnow = 0
      /\ 0 \in 0..M-1
  BY PrioLockAssumption DEF Init, High!Init, Low!Init
<1>2. TypeOK
  BY <1>1 DEF Init, TypeOK
<1>3. OwnersOK /\ FlagsOK
  BY <1>1 DEF OwnersOK, FlagsOK, HighOwner, LowOwner, HighLabels, LowLabels
<1>4. FilterOK
  BY <1>1 DEF FilterOK, HighHas, LowHas, HighWants, LowWants
<1> QED
  BY <1>2, <1>3, <1>4 DEF IInv

(* A step that takes and gives back no ticket, and does not change who     *)
(* holds the filter or waits for it.                                       *)
LEMMA Quiet ==
  ASSUME FilterOK, UNCHANGED filter,
         HighHas' <=> HighHas, LowHas' <=> LowHas,
         \A t \in Threads : pc'[t] = "h_filter" <=> pc[t] = "h_filter",
         \A t \in Threads : pc'[t] = "l_filter" <=> pc[t] = "l_filter"
  PROVE  FilterOK'
<1>1. (HighWants' <=> HighWants) /\ (LowWants' <=> LowWants)
  BY DEF HighWants, LowWants
<1>2. fnext' = fnext /\ fnow' = fnow /\ my_ticket' = my_ticket
  BY DEF filter
<1> QED
  BY <1>1, <1>2 DEF FilterOK

(* A step of the owner of high_p that keeps it concerns nobody else.       *)
LEMMA HighMove ==
  ASSUME IInv, NEW t \in Threads, NEW b \in HighOwner, pc[t] \in HighOwner,
         Goto(t, b), UNCHANGED locks
  PROVE  /\ pc' \in [Threads -> {"idle"} \cup HighLabels \cup LowLabels]
         /\ pc'[t] = b
         /\ \A u \in Threads \ {t} : pc'[u] = pc[u] /\ pc[u] \notin HighOwner
         /\ \A u \in Threads : pc'[u] \in LowOwner <=> pc[u] \in LowOwner
         /\ OwnersOK'
         /\ HighHas <=> go_straight = 1 \/ pc[t] \in {"h_set", "rh_ticket"}
         /\ HighHas' <=> go_straight' = 1 \/ b \in {"h_set", "rh_ticket"}
         /\ (HighWants <=> pc[t] = "h_filter") /\ (HighWants' <=> b = "h_filter")
         /\ (LowHas' <=> LowHas) /\ (LowWants' <=> LowWants)
<1>1. /\ pc'[t] = b /\ \A u \in Threads \ {t} : pc'[u] = pc[u]
      /\ pc' \in [Threads -> {"idle"} \cup HighLabels \cup LowLabels]
  BY DEF IInv, TypeOK, Goto, HighOwner
<1>2. \A u \in Threads \ {t} : pc[u] \notin HighOwner
  BY DEF IInv, OwnersOK
<1>3. \A u \in Threads : pc'[u] \in LowOwner <=> pc[u] \in LowOwner
  BY <1>1 DEF HighOwner, LowOwner, HighLabels, LowLabels
<1>4. OwnersOK'
  BY <1>1, <1>2, <1>3 DEF IInv, OwnersOK, locks
<1>5. /\ HighHas <=> go_straight = 1 \/ pc[t] \in {"h_set", "rh_ticket"}
      /\ HighHas' <=> go_straight' = 1 \/ b \in {"h_set", "rh_ticket"}
      /\ (HighWants <=> pc[t] = "h_filter") /\ (HighWants' <=> b = "h_filter")
  BY <1>1, <1>2 DEF HighHas, HighWants, HighOwner, HighLabels
<1>6. \A l \in LowLabels : pc[t] # l /\ b # l
  BY DEF HighOwner, HighLabels, LowLabels
<1>7. (LowHas' <=> LowHas) /\ (LowWants' <=> LowWants)
  BY <1>1, <1>6 DEF LowHas, LowWants, LowLabels
<1> QED
  BY <1>1, <1>2, <1>3, <1>4, <1>5, <1>7

LEMMA LowMove ==
  ASSUME IInv, NEW t \in Threads, NEW b \in LowOwner, pc[t] \in LowOwner,
         Goto(t, b), UNCHANGED locks, UNCHANGED go_straight
  PROVE  /\ pc' \in [Threads -> {"idle"} \cup HighLabels \cup LowLabels]
         /\ pc'[t] = b
         /\ \A u \in Threads \ {t} : pc'[u] = pc[u] /\ pc[u] \notin LowOwner
         /\ \A u \in Threads : pc'[u] \in HighOwner \/ pc[u] \in HighOwner => pc'[u] = pc[u]
         /\ OwnersOK'
         /\ LowHas <=> pc[t] \in {"l_set", "l_cs", "rl_clear", "rl_ticket"}
         /\ LowHas' <=> b \in {"l_set", "l_cs", "rl_clear", "rl_ticket"}
         /\ (LowWants <=> pc[t] = "l_filter") /\ (LowWants' <=> b = "l_filter")
         /\ (HighHas' <=> HighHas) /\ (HighWants' <=> HighWants)
<1>1. /\ pc'[t] = b /\ \A u \in Threads \ {t} : pc'[u] = pc[u]
      /\ pc' \in [Threads -> {"idle"} \cup HighLabels \cup LowLabels]
  BY DEF IInv, TypeOK, Goto, LowOwner
<1>2. \A u \in Threads \ {t} : pc[u] \notin LowOwner
  BY DEF IInv, OwnersOK
<1>3. \A u \in Threads : pc'[u] \in HighOwner \/ pc[u] \in HighOwner => pc'[u] = pc[u]
  BY <1>1 DEF HighOwner, LowOwner, HighLabels, LowLabels
<1>4. OwnersOK'
  BY <1>1, <1>2, <1>3 DEF IInv, OwnersOK, locks
<1>5. /\ LowHas <=> pc[t] \in {"l_set", "l_cs", "rl_clear", "rl_ticket"}
      /\ LowHas' <=> b \in {"l_set", "l_cs", "rl_clear", "rl_ticket"}
      /\ (LowWants <=> pc[t] = "l_filter") /\ (LowWants' <=> b = "l_filter")
  BY <1>1, <1>2 DEF LowHas, LowWants, LowOwner, LowLabels
<1>6. \A l \in HighLabels : pc[t] # l /\ b # l
  BY DEF LowOwner, HighLabels, LowLabels
<1>7. (HighHas' <=> HighHas) /\ (HighWants' <=> HighWants)
  BY <1>1, <1>6 DEF HighHas, HighWants, HighLabels
<1> QED
  BY <1>1, <1>2, <1>3, <1>4, <1>5, <1>7

(* Entering, being granted and leaving high_p or low_p happens outside the *)
(* filter.                                                                 *)
LEMMA LocksInv ==
  ASSUME IInv, NEW t \in Threads,
         \/ HighEnter(t) \/ HighGrant(t) \/ RelHigh(t)
         \/ LowEnter(t) \/ LowGrant(t) \/ RelLow(t)
  PROVE  IInv'
<1> DEFINE Outside == {"idle", "h_wait", "h_test", "rh_high", "l_wait", "l_draw", "rl_low"}
<1>1. /\ UNCHANGED <<fnext, fnow, my_ticket, go_straight, low_p_acq>>
      /\ pc[t] \in Outside /\ pc'[t] \in Outside
      /\ \A u \in Threads \ {t} : pc'[u] = pc[u]
  BY DEF IInv, TypeOK, HighEnter, HighGrant, RelHigh, LowEnter, LowGrant, RelLow, At,
         Goto, filter, flags
<1>2. /\ pc' \in [Threads -> {"idle"} \cup HighLabels \cup LowLabels]
      /\ hown' \subseteq Threads /\ lown' \subseteq Threads
  BY DEF IInv, TypeOK, HighLabels, LowLabels, HighEnter, HighGrant, RelHigh, LowEnter,
         LowGrant, RelLow, At, Goto, High!Enter, High!Grant, High!Leave,
         Low!Enter, Low!Grant, Low!Leave
<1>3. hq' \in Seq(Threads) /\ lq' \in Seq(Threads)
  <2>1. hq' \in {hq, Append(hq, t)} \/ (hq # << >> /\ hq' = Tail(hq))
    BY DEF HighEnter, HighGrant, RelHigh, LowEnter, LowGrant, RelLow,
           High!Enter, High!Grant, High!Leave
  <2>2. lq' \in {lq, Append(lq, t)} \/ (lq # << >> /\ lq' = Tail(lq))
    BY DEF HighEnter, HighGrant, RelHigh, LowEnter, LowGrant, RelLow,
           Low!Enter, Low!Grant, Low!Leave
  <2>3. \A q \in Seq(Threads) :
          Append(q, t) \in Seq(Threads) /\ (q # << >> => Tail(q) \in Seq(Threads))
    OBVIOUS
  <2>4. hq \in Seq(Threads) /\ lq \in Seq(Threads)
    BY DEF IInv, TypeOK
  <2> QED
    BY <2>1, <2>2, <2>3, <2>4, Zenon
<1>4. TypeOK'
  BY <1>1, <1>2, <1>3 DEF IInv, TypeOK
<1>5. OwnersOK'
  <2>1. CASE HighEnter(t) \/ LowEnter(t)
    <3>1. /\ hown' = hown /\ lown' = lown
          /\ pc[t] = "idle" /\ pc'[t] \in {"h_wait", "l_wait"}
      BY <1>1, <2>1 DEF IInv, TypeOK, HighEnter, LowEnter, At, Goto, High!Enter, Low!Enter
    <3> QED
      BY <1>1, <3>1 DEF IInv, OwnersOK, HighOwner, LowOwner, HighLabels, LowLabels
  <2>2. CASE HighGrant(t) \/ RelHigh(t)
    <3>1. /\ lown' = lown
          /\ \/ hown = {} /\ hown' = {t} /\ pc[t] = "h_wait" /\ pc'[t] = "h_test"
             \/ hown = {t} /\ hown' = {} /\ pc[t] = "rh_high" /\ pc'[t] = "idle"
      BY <1>1, <2>2 DEF IInv, TypeOK, HighGrant, RelHigh, At, Goto, High!Grant, High!Leave
    <3> QED
      BY <1>1, <3>1 DEF IInv, OwnersOK, HighOwner, LowOwner, HighLabels, LowLabels
  <2>3. CASE LowGrant(t) \/ RelLow(t)
    <3>1. /\ hown' = hown
          /\ \/ lown = {} /\ lown' = {t} /\ pc[t] = "l_wait" /\ pc'[t] = "l_draw"
             \/ lown = {t} /\ lown' = {} /\ pc[t] = "rl_low" /\ pc'[t] = "idle"
      BY <1>1, <2>3 DEF IInv, TypeOK, LowGrant, RelLow, At, Goto, Low!Grant, Low!Leave
    <3> QED
      BY <1>1, <3>1 DEF IInv, OwnersOK, HighOwner, LowOwner, HighLabels, LowLabels
  <2> QED
    BY <2>1, <2>2, <2>3
<1>6. FlagsOK'
  BY <1>1 DEF IInv, FlagsOK
<1>7. FilterOK'
  <2>1. (HighHas' <=> HighHas) /\ (LowHas' <=> LowHas)
    BY <1>1 DEF HighHas, LowHas
  <2> QED
    BY <1>1, <2>1, Quiet DEF IInv, filter
<1> QED
  BY <1>4, <1>5, <1>6, <1>7 DEF IInv

(* Steps of an owner of high_p that neither take nor give back a ticket.   *)
LEMMA HighQuietInv ==
  ASSUME IInv, NEW t \in Threads,
         \/ HighTest(t) \/ HighSet(t) \/ (pc[t] = "h_cs" /\ RelTest(t))
         \/ RelNowaiters(t) \/ RelHighClear(t)
  PROVE  IInv'
<1>1. pc[t] = "h_cs" => low_p_acq = 0
  BY DEF IInv, TypeOK, FlagsOK, FilterOK, HighHas, LowHas
<1>2. /\ UNCHANGED locks /\ UNCHANGED filter /\ UNCHANGED low_p_acq
      /\ pc[t] \in HighOwner
  BY <1>1 DEF HighTest, HighSet, RelTest, RelNowaiters, RelHighClear, At, flags,
              HighOwner, HighLabels
<1>3. PICK b \in HighOwner :
        /\ Goto(t, b)
        /\ \/ pc[t] = "h_test" /\ go_straight' = go_straight
              /\ b = IF go_straight = 1 THEN "h_cs" ELSE "h_draw"
           \/ pc[t] = "h_set" /\ go_straight' = 1 /\ b = "h_cs"
           \/ pc[t] = "h_cs" /\ go_straight' = go_straight /\ b = "rh_nowaiters"
           \/ pc[t] = "rh_nowaiters" /\ go_straight' = go_straight
              /\ b \in {"rh_clear", "rh_high"}
           \/ pc[t] = "rh_clear" /\ go_straight' = 0 /\ b = "rh_ticket"
  <2>1. {"h_cs", "h_draw", "rh_nowaiters", "rh_clear", "rh_high", "rh_ticket"}
          \subseteq HighOwner
    BY DEF HighOwner, HighLabels
  <2>2. CASE HighTest(t)
    BY <2>1, <2>2 DEF HighTest, flags
  <2>3. CASE HighSet(t)
    BY <2>1, <2>3 DEF HighSet, At
  <2>4. CASE pc[t] = "h_cs" /\ RelTest(t)
    BY <1>1, <2>1, <2>4 DEF RelTest, flags
  <2>5. CASE RelNowaiters(t)
    BY <2>1, <2>5 DEF RelNowaiters, flags
  <2>6. CASE RelHighClear(t)
    BY <2>1, <2>6 DEF RelHighClear, At
  <2> QED
    BY <2>2, <2>3, <2>4, <2>5, <2>6
<1>4. /\ pc' \in [Threads -> {"idle"} \cup HighLabels \cup LowLabels]
      /\ pc'[t] = b
      /\ \A u \in Threads \ {t} : pc'[u] = pc[u] /\ pc[u] \notin HighOwner
      /\ \A u \in Threads : pc'[u] \in LowOwner <=> pc[u] \in LowOwner
      /\ OwnersOK'
      /\ HighHas <=> go_straight = 1 \/ pc[t] \in {"h_set", "rh_ticket"}
      /\ HighHas' <=> go_straight' = 1 \/ b \in {"h_set", "rh_ticket"}
      /\ (HighWants <=> pc[t] = "h_filter") /\ (HighWants' <=> b = "h_filter")
      /\ (LowHas' <=> LowHas) /\ (LowWants' <=> LowWants)
  BY <1>2, <1>3, HighMove
<1>5. go_straight \in {0, 1} /\ go_straight' \in {0, 1}
  BY <1>3 DEF IInv, TypeOK
<1>6. TypeOK'
  BY <1>2, <1>4, <1>5 DEF IInv, TypeOK, locks, filter
<1>7. FlagsOK'
  <2>1. \A u \in Threads : pc'[u] \in {"l_cs", "rl_clear"} <=> pc[u] \in {"l_cs", "rl_clear"}
    BY <1>2, <1>3, <1>4 DEF HighOwner, HighLabels
  <2>2. \A u \in Threads \ {t} : pc'[u] \notin {"h_cs", "rh_nowaiters", "rh_clear",
                                 "h_draw", "h_filter", "h_set", "rh_ticket"}
    BY <1>4 DEF HighOwner, HighLabels
  <2>3. /\ pc[t] \in {"h_cs", "rh_nowaiters", "rh_clear"} => go_straight = 1
        /\ pc'[t] \in {"h_cs", "rh_nowaiters", "rh_clear"} => go_straight' = 1
        /\ pc'[t] \in {"h_draw", "h_filter", "h_set", "rh_ticket"} => go_straight' = 0
    BY <1>3, <1>4, <1>5 DEF IInv, FlagsOK
  <2> QED
    BY <1>2, <2>1, <2>2, <2>3 DEF IInv, FlagsOK
<1>8. FilterOK'
  <2>1. HighHas' <=> HighHas
    BY <1>3, <1>4, <1>5 DEF IInv, FlagsOK
  <2>2. /\ \A u \in Threads : pc'[u] = "h_filter" <=> pc[u] = "h_filter"
        /\ \A u \in Threads : pc'[u] = "l_filter" <=> pc[u] = "l_filter"
    BY <1>3, <1>4
  <2>3. FilterOK /\ UNCHANGED filter
    BY <1>2 DEF IInv
  <2> QED
    BY <1>4, <2>1, <2>2, <2>3, Quiet, Zenon
<1> QED
  BY <1>4, <1>6, <1>7, <1>8 DEF IInv

(* The same of an owner of low_p.                                          *)
LEMMA LowQuietInv ==
  ASSUME IInv, NEW t \in Threads,
         LowSet(t) \/ (pc[t] = "l_cs" /\ RelTest(t)) \/ RelLowClear(t)
  PROVE  IInv'
<1>1. pc[t] = "l_cs" => low_p_acq = 1
  BY DEF IInv, FlagsOK
<1>2. /\ UNCHANGED locks /\ UNCHANGED filter /\ UNCHANGED go_straight
      /\ pc[t] \in LowOwner
  BY <1>1 DEF LowSet, RelTest, RelLowClear, At, flags, LowOwner, LowLabels
<1>3. PICK b \in LowOwner :
        /\ Goto(t, b)
        /\ \/ pc[t] = "l_set" /\ low_p_acq' = 1 /\ b = "l_cs"
           \/ pc[t] = "l_cs" /\ low_p_acq' = low_p_acq /\ b = "rl_clear"
           \/ pc[t] = "rl_clear" /\ low_p_acq' = 0 /\ b = "rl_ticket"
  <2>1. {"l_cs", "rl_clear", "rl_ticket"} \subseteq LowOwner
    BY DEF LowOwner, LowLabels
  <2>2. CASE LowSet(t)
    BY <2>1, <2>2 DEF LowSet, At
  <2>3. CASE pc[t] = "l_cs" /\ RelTest(t)
    BY <1>1, <2>1, <2>3 DEF RelTest, flags
  <2>4. CASE RelLowClear(t)
    BY <2>1, <2>4 DEF RelLowClear, At
  <2> QED
    BY <2>2, <2>3, <2>4
<1>4. /\ pc' \in [Threads -> {"idle"} \cup HighLabels \cup LowLabels]
      /\ pc'[t] = b
      /\ \A u \in Threads \ {t} : pc'[u] = pc[u] /\ pc[u] \notin LowOwner
      /\ \A u \in Threads : pc'[u] \in HighOwner \/ pc[u] \in HighOwner => pc'[u] = pc[u]
      /\ OwnersOK'
      /\ LowHas <=> pc[t] \in {"l_set", "l_cs", "rl_clear", "rl_ticket"}
      /\ LowHas' <=> b \in {"l_set", "l_cs", "rl_clear", "rl_ticket"}
      /\ (LowWants <=> pc[t] = "l_filter") /\ (LowWants' <=> b = "l_filter")
      /\ (HighHas' <=> HighHas) /\ (HighWants' <=> HighWants)
  BY <1>2, <1>3, LowMove
<1>5. TypeOK'
  BY <1>2, <1>3, <1>4 DEF IInv, TypeOK, locks, filter
<1>6. FlagsOK'
  <2>1. \A u \in Threads \ {t} : pc'[u] \notin {"l_cs", "rl_clear"}
    BY <1>4 DEF LowOwner, LowLabels
  <2>2. low_p_acq' = 1 <=> pc'[t] \in {"l_cs", "rl_clear"}
    BY <1>1, <1>3, <1>4
  <2>3. \A u \in Threads : pc'[u] \in HighOwner => pc'[u] = pc[u]
    BY <1>4
  <2> QED
    BY <1>2, <2>1, <2>2, <2>3 DEF IInv, FlagsOK, HighOwner, HighLabels
<1>7. FilterOK'
  <2>1. LowHas' <=> LowHas
    BY <1>3, <1>4
  <2>2. /\ \A u \in Threads : pc'[u] = "h_filter" <=> pc[u] = "h_filter"
        /\ \A u \in Threads : pc'[u] = "l_filter" <=> pc[u] = "l_filter"
    BY <1>3, <1>4
  <2>3. FilterOK /\ UNCHANGED filter
    BY <1>2 DEF IInv
  <2> QED
    BY <1>4, <2>1, <2>2, <2>3, Quiet, Zenon
<1> QED
  BY <1>4, <1>5, <1>6, <1>7 DEF IInv

(* A ticket drawn, served or given back by the owner of high_p.            *)
LEMMA HighTicketInv ==
  ASSUME IInv, NEW t \in Threads,
         HighDraw(t) \/ HighServed(t) \/ (pc[t] = "rh_ticket" /\ RelTicket(t))
  PROVE  IInv'
<1>1. /\ UNCHANGED locks /\ go_straight' = go_straight /\ low_p_acq' = low_p_acq
      /\ pc[t] \in HighOwner
  BY DEF HighDraw, HighServed, RelTicket, Draw, At, flags, HighOwner, HighLabels
<1>2. PICK b \in HighOwner :
        /\ Goto(t, b)
        /\ \/ /\ pc[t] = "h_draw" /\ b = "h_filter" /\ fnow' = fnow
              /\ my_ticket' = [my_ticket EXCEPT ![t] = fnext] /\ fnext' = Inc(fnext)
           \/ /\ pc[t] = "h_filter" /\ b = "h_set" /\ my_ticket[t] = fnow
              /\ fnow' = fnow /\ fnext' = fnext /\ my_ticket' = my_ticket
           \/ /\ pc[t] = "rh_ticket" /\ b = "rh_high" /\ fnow' = Inc(fnow)
              /\ fnext' = fnext /\ my_ticket' = my_ticket
  <2>1. {"h_filter", "h_set", "rh_high"} \subseteq HighOwner
    BY DEF HighOwner, HighLabels
  <2>2. CASE HighDraw(t)
    BY <2>1, <2>2 DEF HighDraw, Draw, At
  <2>3. CASE HighServed(t)
    BY <2>1, <2>3 DEF HighServed, Served, At, filter
  <2>4. CASE pc[t] = "rh_ticket" /\ RelTicket(t)
    BY <2>1, <2>4 DEF RelTicket, At
  <2> QED
    BY <2>2, <2>3, <2>4
<1>3. /\ pc' \in [Threads -> {"idle"} \cup HighLabels \cup LowLabels]
      /\ pc'[t] = b
      /\ \A u \in Threads \ {t} : pc'[u] = pc[u] /\ pc[u] \notin HighOwner
      /\ \A u \in Threads : pc'[u] \in LowOwner <=> pc[u] \in LowOwner
      /\ OwnersOK'
      /\ HighHas <=> go_straight = 1 \/ pc[t] \in {"h_set", "rh_ticket"}
      /\ HighHas' <=> go_straight' = 1 \/ b \in {"h_set", "rh_ticket"}
      /\ (HighWants <=> pc[t] = "h_filter") /\ (HighWants' <=> b = "h_filter")
      /\ (LowHas' <=> LowHas) /\ (LowWants' <=> LowWants)
  BY <1>1, <1>2, HighMove
<1>4. go_straight = 0 /\ go_straight' = 0
  BY <1>1, <1>2 DEF IInv, FlagsOK
<1>5. /\ fnow \in 0..M-1 /\ fnext \in 0..M-1 /\ my_ticket \in [Threads -> 0..M-1]
      /\ Inc(fnow) # fnow /\ Inc(Inc(fnow)) # Inc(fnow)
      /\ Inc(fnow) \in 0..M-1 /\ Inc(fnext) \in 0..M-1
  BY Counters DEF IInv, TypeOK
<1>6. TypeOK'
  BY <1>1, <1>2, <1>3, <1>5 DEF IInv, TypeOK, locks
<1>7. FlagsOK'
  <2>1. \A u \in Threads : pc'[u] \in {"l_cs", "rl_clear"} <=> pc[u] \in {"l_cs", "rl_clear"}
    BY <1>2, <1>3
  <2>2. \A u \in Threads \ {t} : pc'[u] \notin {"h_cs", "rh_nowaiters", "rh_clear",
                                 "h_draw", "h_filter", "h_set", "rh_ticket"}
    BY <1>3 DEF HighOwner, HighLabels
  <2>3. pc'[t] \notin {"h_cs", "rh_nowaiters", "rh_clear"}
    BY <1>2, <1>3
  <2> QED
    BY <1>1, <1>4, <2>1, <2>2, <2>3 DEF IInv, FlagsOK
<1>8. FilterOK'
  <2>1. FilterOK
    BY DEF IInv
  <2>2. /\ \A u \in Threads : pc'[u] = "l_filter" <=> pc[u] = "l_filter"
        /\ \A u \in Threads : u # t => pc'[u] # "h_filter"
        /\ pc[t] # "l_filter"
    BY <1>2, <1>3 DEF HighOwner, HighLabels
  <2>3. LowWants <=> \E u \in Threads : pc[u] = "l_filter"
    BY DEF LowWants
  <2>4. CASE pc[t] = "h_draw"
    <3>1. ~ HighHas /\ ~ HighWants /\ ~ HighHas' /\ HighWants'
      BY <1>2, <1>3, <1>4, <2>4
    <3>2. /\ fnow' = fnow /\ fnext' = Inc(fnext)
          /\ my_ticket'[t] = fnext /\ \A u \in Threads : u # t => my_ticket'[u] = my_ticket[u]
      BY <1>2, <1>5, <2>4
    <3>3. fnext = IF LowHas \/ LowWants THEN Inc(fnow) ELSE fnow
      BY <2>1, <3>1 DEF FilterOK
    <3>4. \A u \in Threads : pc[u] = "l_filter" => my_ticket[u] = fnow /\ LowWants
      BY <2>1, <2>3, <3>1 DEF FilterOK
    <3> QED
      BY <1>3, <1>5, <2>1, <2>2, <2>3, <3>1, <3>2, <3>3, <3>4 DEF FilterOK
  <2>5. CASE pc[t] = "h_filter"
    <3>1. ~ HighHas /\ HighWants /\ HighHas' /\ ~ HighWants'
      BY <1>2, <1>3, <1>4, <2>5
    <3>2. my_ticket[t] = fnow /\ fnow' = fnow /\ fnext' = fnext /\ my_ticket' = my_ticket
      BY <1>2, <2>5
    <3>3. ~ LowHas
      BY <1>5, <2>1, <2>5, <3>2 DEF FilterOK
    <3>4. \A u \in Threads : pc'[u] = "l_filter" => my_ticket[u] = Inc(fnow)
      BY <2>1, <2>2, <2>5, <3>2 DEF FilterOK
    <3>5. \A u \in Threads : pc'[u] # "h_filter"
      BY <1>2, <1>3, <2>2, <2>5
    <3> QED
      BY <1>3, <1>5, <2>1, <3>1, <3>2, <3>3, <3>4, <3>5 DEF FilterOK
  <2>6. CASE pc[t] = "rh_ticket"
    <3>1. HighHas /\ ~ HighWants /\ ~ HighHas' /\ ~ HighWants' /\ ~ LowHas
      BY <1>2, <1>3, <1>4, <2>1, <2>6 DEF FilterOK
    <3>2. fnow' = Inc(fnow) /\ fnext' = fnext /\ my_ticket' = my_ticket
      BY <1>2, <2>6
    <3>3. fnext = IF LowWants THEN Inc(Inc(fnow)) ELSE Inc(fnow)
      BY <2>1, <3>1 DEF FilterOK
    <3>4. \A u \in Threads : pc'[u] = "l_filter" => my_ticket[u] = Inc(fnow)
      BY <2>1, <2>2, <3>1 DEF FilterOK
    <3>5. \A u \in Threads : pc'[u] # "h_filter"
      BY <1>2, <1>3, <2>2, <2>6
    <3> QED
      BY <1>3, <1>5, <3>1, <3>2, <3>3, <3>4, <3>5 DEF FilterOK
  <2> QED
    BY <1>2, <2>4, <2>5, <2>6
<1> QED
  BY <1>3, <1>6, <1>7, <1>8 DEF IInv

(* The same of an owner of low_p.                                          *)
LEMMA LowTicketInv ==
  ASSUME IInv, NEW t \in Threads,
         LowDraw(t) \/ LowServed(t) \/ (pc[t] = "rl_ticket" /\ RelTicket(t))
  PROVE  IInv'
<1>1. /\ UNCHANGED locks /\ go_straight' = go_straight /\ low_p_acq' = low_p_acq
      /\ pc[t] \in LowOwner
  BY DEF LowDraw, LowServed, RelTicket, Draw, At, flags, LowOwner, LowLabels
<1>2. PICK b \in LowOwner :
        /\ Goto(t, b)
        /\ \/ /\ pc[t] = "l_draw" /\ b = "l_filter" /\ fnow' = fnow
              /\ my_ticket' = [my_ticket EXCEPT ![t] = fnext] /\ fnext' = Inc(fnext)
           \/ /\ pc[t] = "l_filter" /\ b = "l_set" /\ my_ticket[t] = fnow
              /\ fnow' = fnow /\ fnext' = fnext /\ my_ticket' = my_ticket
           \/ /\ pc[t] = "rl_ticket" /\ b = "rl_low" /\ fnow' = Inc(fnow)
              /\ fnext' = fnext /\ my_ticket' = my_ticket
  <2>1. {"l_filter", "l_set", "rl_low"} \subseteq LowOwner
    BY DEF LowOwner, LowLabels
  <2>2. CASE LowDraw(t)
    BY <2>1, <2>2 DEF LowDraw, Draw, At
  <2>3. CASE LowServed(t)
    BY <2>1, <2>3 DEF LowServed, Served, At, filter
  <2>4. CASE pc[t] = "rl_ticket" /\ RelTicket(t)
    BY <2>1, <2>4 DEF RelTicket, At
  <2> QED
    BY <2>2, <2>3, <2>4
<1>3. /\ pc' \in [Threads -> {"idle"} \cup HighLabels \cup LowLabels]
      /\ pc'[t] = b
      /\ \A u \in Threads \ {t} : pc'[u] = pc[u] /\ pc[u] \notin LowOwner
      /\ \A u \in Threads : pc'[u] \in HighOwner \/ pc[u] \in HighOwner => pc'[u] = pc[u]
      /\ OwnersOK'
      /\ LowHas <=> pc[t] \in {"l_set", "l_cs", "rl_clear", "rl_ticket"}
      /\ LowHas' <=> b \in {"l_set", "l_cs", "rl_clear", "rl_ticket"}
      /\ (LowWants <=> pc[t] = "l_filter") /\ (LowWants' <=> b = "l_filter")
      /\ (HighHas' <=> HighHas) /\ (HighWants' <=> HighWants)
  BY <1>1, <1>2, LowMove
<1>4. /\ fnow \in 0..M-1 /\ fnext \in 0..M-1 /\ my_ticket \in [Threads -> 0..M-1]
      /\ Inc(fnow) # fnow /\ Inc(Inc(fnow)) # Inc(fnow)
      /\ Inc(fnow) \in 0..M-1 /\ Inc(fnext) \in 0..M-1
  BY Counters DEF IInv, TypeOK
<1>5. TypeOK'
  BY <1>1, <1>2, <1>3, <1>4 DEF IInv, TypeOK, locks
<1>6. FlagsOK'
  <2>1. \A u \in Threads : pc'[u] \in {"l_cs", "rl_clear"} <=> pc[u] \in {"l_cs", "rl_clear"}
    BY <1>2, <1>3
  <2>2. \A u \in Threads : pc'[u] \in HighOwner => pc'[u] = pc[u]
    BY <1>3
  <2> QED
    BY <1>1, <2>1, <2>2 DEF IInv, FlagsOK, HighOwner, HighLabels
<1>7. FilterOK'
  <2>1. FilterOK
    BY DEF IInv
  <2>2. /\ \A u \in Threads : pc'[u] = "h_filter" <=> pc[u] = "h_filter"
        /\ \A u \in Threads : u # t => pc'[u] # "l_filter"
        /\ pc[t] # "h_filter"
    BY <1>2, <1>3 DEF LowOwner, LowLabels
  <2>3. HighWants <=> \E u \in Threads : pc[u] = "h_filter"
    BY DEF HighWants
  <2>4. CASE pc[t] = "l_draw"
    <3>1. ~ LowHas /\ ~ LowWants /\ ~ LowHas' /\ LowWants'
      BY <1>2, <1>3, <2>4
    <3>2. /\ fnow' = fnow /\ fnext' = Inc(fnext)
          /\ my_ticket'[t] = fnext /\ \A u \in Threads : u # t => my_ticket'[u] = my_ticket[u]
      BY <1>2, <1>4, <2>4
    <3>3. fnext = IF HighHas \/ HighWants THEN Inc(fnow) ELSE fnow
      BY <2>1, <3>1 DEF FilterOK
    <3>4. \A u \in Threads : pc[u] = "h_filter" => my_ticket[u] = fnow /\ HighWants
      BY <2>1, <2>3, <3>1 DEF FilterOK
    <3> QED
      BY <1>3, <1>4, <2>1, <2>2, <2>3, <3>1, <3>2, <3>3, <3>4 DEF FilterOK
  <2>5. CASE pc[t] = "l_filter"
    <3>1. ~ LowHas /\ LowWants /\ LowHas' /\ ~ LowWants'
      BY <1>2, <1>3, <2>5
    <3>2. my_ticket[t] = fnow /\ fnow' = fnow /\ fnext' = fnext /\ my_ticket' = my_ticket
      BY <1>2, <2>5
    <3>3. ~ HighHas
      BY <1>4, <2>1, <2>5, <3>2 DEF FilterOK
    <3>4. \A u \in Threads : pc'[u] = "h_filter" => my_ticket[u] = Inc(fnow)
      BY <2>1, <2>2, <2>5, <3>2 DEF FilterOK
    <3>5. \A u \in Threads : pc'[u] # "l_filter"
      BY <1>2, <1>3, <2>2, <2>5
    <3> QED
      BY <1>3, <1>4, <2>1, <3>1, <3>2, <3>3, <3>4, <3>5 DEF FilterOK
  <2>6. CASE pc[t] = "rl_ticket"
    <3>1. LowHas /\ ~ LowWants /\ ~ LowHas' /\ ~ LowWants' /\ ~ HighHas
      BY <1>2, <1>3, <2>1, <2>6 DEF FilterOK
    <3>2. fnow' = Inc(fnow) /\ fnext' = fnext /\ my_ticket' = my_ticket
      BY <1>2, <2>6
    <3>3. fnext = IF HighWants THEN Inc(Inc(fnow)) ELSE Inc(fnow)
      BY <2>1, <3>1 DEF FilterOK
    <3>4. \A u \in Threads : pc'[u] = "h_filter" => my_ticket[u] = Inc(fnow)
      BY <2>1, <2>2, <3>1 DEF FilterOK
    <3>5. \A u \in Threads : pc'[u] # "l_filter"
      BY <1>2, <1>3, <2>2, <2>6
    <3> QED
      BY <1>3, <1>4, <3>1, <3>2, <3>3, <3>4, <3>5 DEF FilterOK
  <2> QED
    BY <1>2, <2>4, <2>5, <2>6
<1> QED
  BY <1>3, <1>5, <1>6, <1>7 DEF IInv

LEMMA StepInv == IInv /\ [Next]_vars => IInv'
<1> SUFFICES ASSUME IInv, [Next]_vars PROVE IInv'
  OBVIOUS
<1>1. ASSUME NEW t \in Threads, HighEnter(t) \/ LowEnter(t) PROVE IInv'
  BY <1>1, LocksInv
<1>2. ASSUME NEW t \in Threads, Acquire(t) PROVE IInv'
  <2>1. CASE HighGrant(t) \/ LowGrant(t)
    BY <2>1, LocksInv
  <2>2. ASSUME HighTest(t) \/ HighSet(t) PROVE IInv'
    BY <1>1, <2>2, HighQuietInv
  <2>3. CASE LowSet(t)
    BY <2>3, LowQuietInv
  <2>4. CASE HighDraw(t) \/ HighServed(t)
    BY <2>4, HighTicketInv
  <2>5. CASE LowDraw(t) \/ LowServed(t)
    BY <2>5, LowTicketInv
  <2> QED
    BY <1>2, <2>1, <2>2, <2>3, <2>4, <2>5 DEF Acquire
<1>3. ASSUME NEW t \in Threads, Release(t) PROVE IInv'
  <2>1. /\ RelTest(t) => pc[t] \in {"h_cs", "l_cs"}
        /\ RelTicket(t) => pc[t] \in {"rh_ticket", "rl_ticket"}
    BY DEF RelTest, RelTicket, At
  <2> QED
    BY <1>3, <2>1, LocksInv, HighQuietInv, LowQuietInv, HighTicketInv, LowTicketInv
    DEF Release
<1>4. CASE UNCHANGED vars
  BY <1>4 DEF IInv, TypeOK, OwnersOK, FlagsOK, FilterOK, HighHas, LowHas, HighWants,
     LowWants, vars, locks, filter, flags
<1> QED
  BY <1>1, <1>2, <1>3, <1>4 DEF Next
-----------------------------------------------------------------------------
(* The inductive invariant holds of every behaviour of the lock.           *)
THEOREM Invariance == Spec => []IInv
BY InitInv, StepInv, PTL DEF Spec

(* Two threads never own the lock at once, of whichever priority, whoever  *)
(* drew the ticket that the relay keeps the filter with.                   *)
THEOREM Exclusion == Spec => []MutualExclusion
<1>1. IInv => MutualExclusion
  BY DEF IInv, OwnersOK, FlagsOK, FilterOK, HighHas, LowHas, MutualExclusion,
         HighOwner, LowOwner, HighLabels, LowLabels
<1> QED
  BY <1>1, Invariance, PTL

(* go_straight and low_p_acq need not be atomic, and every variable keeps  *)
(* its type.                                                               *)
THEOREM NoRaceOnFlags == Spec => []FlagsProtected
<1>1. IInv => FlagsProtected
  <2> SUFFICES ASSUME IInv PROVE FlagsProtected
    OBVIOUS
  <2>1. \A s, t \in Threads : s # t /\ pc[s] \in {"h_set", "rh_clear"} =>
          pc[t] \notin {"h_test", "h_set", "rh_clear"}
    BY DEF IInv, OwnersOK, HighOwner, HighLabels
  <2>2. \A s, t \in Threads : s # t /\ pc[s] \in {"l_set", "rl_clear"} =>
          pc[t] \notin {"h_cs", "l_cs", "l_set", "rl_clear"}
    BY DEF IInv, OwnersOK, FlagsOK, FilterOK, HighHas, LowHas, LowOwner, LowLabels
  <2> QED
    BY <2>1, <2>2 DEF IInv, FlagsProtected
<1> QED
  BY <1>1, Invariance, PTL

(* The owner of one side waits for at most one critical section of the     *)
(* other before it gets the filter.                                        *)
THEOREM OneAhead == Spec => []AtMostOneAhead
<1>1. IInv => AtMostOneAhead
  <2> SUFFICES ASSUME IInv, NEW t \in Threads, pc[t] \in {"h_filter", "l_filter"}
               PROVE  (my_ticket[t] - fnow) % M <= 1
    BY DEF AtMostOneAhead
  <2>1. my_ticket[t] \in {fnow, Inc(fnow)}
    BY DEF IInv, FilterOK
  <2>2. (fnow - fnow) % M = 0 /\ (Inc(fnow) - fnow) % M = 1
    BY Counters DEF IInv, TypeOK
  <2>3. (my_ticket[t] - fnow) % M \in {0, 1}
    BY <2>1, <2>2, Zenon
  <2> QED
    BY <2>3
<1> QED
  BY <1>1, Invariance, PTL

(* While the filter is kept for the relay, no low-priority thread is       *)
(* served.                                                                 *)
THEOREM RelayExcludesLow == Spec => []ChainExcludesLow
<1>1. IInv => ChainExcludesLow
  BY DEF IInv, FilterOK, HighHas, LowHas, ChainExcludesLow
<1> QED
  BY <1>1, Invariance, PTL
=============================================================================
