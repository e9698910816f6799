------------------------------ MODULE MPBQueue ------------------------------
(***************************************************************************)
(* The bucket queue of queue/zm_mpbqueue.c: swap queues, the buckets, each *)
(* with a byte that says whether the consumer found it nonempty.  Buckets  *)
(* come in sets, whose bytes are read at once.  Producers know nothing of  *)
(* the bytes: the consumer finds their elements by looking into the        *)
(* buckets of a set, but of a set that looks empty only every so many      *)
(* calls, a number that doubles up to MaxBackoff while there is nothing.   *)
(*                                                                         *)
(* A bucket is what SWPQueue shows to its one consumer: the elements in    *)
(* the order of the exchanges, of which the first is there when its        *)
(* producer has linked it.  The consumer alone removes elements, so a      *)
(* dequeue that follows a test for emptiness is one step with it.          *)
(*                                                                         *)
(* missed is a history variable: the dequeues in a row that returned       *)
(* nothing although an element was there when they were called (avail), up *)
(* to MaxBackoff of them.                                                  *)
(***************************************************************************)
EXTENDS Naturals, Sequences

CONSTANTS
  Producers, NULL,
  NSets, SetSize,  \* nbucket_sets and bucket_setsz, which is 8
  MaxBackoff,      \* MAX_BACKOFF, 1024
  InCounts,        \* values of in_count
  FirstSets,       \* what last_bucket_set may hold before its first store
  MaxSent          \* bound: the elements of each producer

(* The pauses that divide MaxBackoff, a power of 2: a pause that doubles   *)
(* never leaps over it.                                                    *)
Pauses == {b \in 1..MaxBackoff : MaxBackoff % b = 0}

ASSUME MPBQueueAssumption ==
  /\ NSets \in Nat \ {0} /\ SetSize \in Nat \ {0} /\ MaxBackoff \in Nat \ {0}
  /\ \A b \in Pauses : b < MaxBackoff => 2 * b \in Pauses
  /\ InCounts \subseteq Nat \ {0} /\ FirstSets \subseteq Nat
  /\ MaxSent \in Nat /\ NULL \notin Nat

VARIABLES
  bucket, states,            \* buckets and bucket_states
  counters, bounds,          \* backoff_counters, backoff_bounds
  last,                      \* last_bucket_set
  into, sent,                \* producers: the bucket while they are between
                             \* exchange and link, how many they exchanged
  cpc, i, j, stop,           \* consumer: place, locals; stop of dequeue_range
  in_count, stored,          \* the bulk calls: an argument, data[] in use
  avail, missed              \* history

producerVars == <<into, sent>>
backoffVars == <<counters, bounds>>
bulkVars == <<stop, in_count, stored>>
historyVars == <<avail, missed>>
vars == <<bucket, states, backoffVars, last, producerVars, cpc, i, j, bulkVars,
          historyVars>>

Buckets == 0..NSets * SetSize - 1

(* zm_mpbqueue_init, which leaves last_bucket_set uninitialised.  A        *)
(* negative number there would be an index before the first set.           *)
Init ==
  /\ bucket = [b \in Buckets |-> << >>]
  /\ states = [b \in Buckets |-> 0]
  /\ counters = [s \in 0..NSets - 1 |-> 0]
  /\ bounds = [s \in 0..NSets - 1 |-> 1]
  /\ last \in FirstSets
  /\ into = [p \in Producers |-> NULL]
  /\ sent = [p \in Producers |-> 0]
  /\ cpc = "idle" /\ i = 0 /\ j = 0 /\ stop = 0
  /\ in_count = 0 /\ stored = 0
  /\ avail = FALSE /\ missed = 0

(* zm_mpbqueue_enqueue: the exchange of zm_swpqueue_enqueue, and its link. *)
EnqSwap(p, b) ==
  /\ into[p] = NULL /\ sent[p] < MaxSent
  /\ into' = [into EXCEPT ![p] = b]
  /\ sent' = [sent EXCEPT ![p] = @ + 1]
  /\ bucket' = [bucket EXCEPT ![b] = Append(@, <<p, sent'[p]>>)]
  /\ UNCHANGED <<states, backoffVars, last, cpc, i, j, bulkVars, historyVars>>

EnqLink(p) ==
  /\ into[p] # NULL
  /\ into' = [into EXCEPT ![p] = NULL]
  /\ UNCHANGED <<bucket, states, backoffVars, last, sent, cpc, i, j, bulkVars, historyVars>>
-----------------------------------------------------------------------------
Linked(item) == into[item[1]] = NULL \/ item[2] < sent[item[1]]

(* zm_swpqueue_isempty_weak *)
EmptyWeak(b) == bucket[b] # << >> => ~ Linked(Head(bucket[b]))

(* zm_swpqueue_dequeue: the content after it. *)
Dequeued(b) == [bucket EXCEPT ![b] = IF EmptyWeak(b) THEN @ ELSE Tail(@)]

(* The loop that looks at the set of the last call only. *)
OffsetLast == last % NSets

(* The set at hand, and the bucket. *)
Offset == (last + i) % NSets

This == Offset * SetSize + j
InSet(s) == s * SetSize .. (s + 1) * SetSize - 1

(* A set of bytes that is greater than 0, of bytes that are 0 or 1. *)
LooksNonempty(s) == \E b \in InSet(s) : states[b] = 1

(* The loop over the sets, and the return behind it, where i is NSets. *)
NextSet(label) ==
  /\ j' = 0
  /\ IF i + 1 < NSets THEN i' = i + 1 /\ cpc' = label /\ UNCHANGED last
     ELSE i' = 0 /\ cpc' = "idle" /\ last' = (last + NSets) % NSets

(* The return from within set i. *)
ReturnHere ==
  /\ i' = 0 /\ j' = 0 /\ cpc' = "idle"
  /\ last' = Offset
-----------------------------------------------------------------------------
(* zm_mpbqueue_dequeue *)
DeqBegin ==
  /\ cpc = "idle"
  /\ cpc' = "look"
  /\ avail' = \E b \in Buckets : ~ EmptyWeak(b)
  /\ UNCHANGED <<bucket, states, backoffVars, last, producerVars, i, j,
                 bulkVars, missed>>

(* What a return means for the history: empty-handed, or not. *)
NextSetOrMiss ==
  /\ NextSet("look")
  /\ IF i + 1 < NSets THEN UNCHANGED historyVars
     ELSE /\ avail' = FALSE
          /\ missed' = IF ~ avail THEN 0
                       ELSE IF missed < MaxBackoff THEN missed + 1 ELSE missed

Found == avail' = FALSE /\ missed' = 0

(* get_set_state: the bytes of the set, or the count of calls.  A counter  *)
(* that is not reset grows on; beyond MaxBackoff all values act alike.     *)
Look ==
  /\ cpc = "look"
  /\ \/ /\ LooksNonempty(Offset)
        /\ cpc' = "scan"
        /\ UNCHANGED <<counters, last, i, j, historyVars>>
     \/ /\ ~ LooksNonempty(Offset)
        /\ counters' = [counters EXCEPT ![Offset] = IF @ < MaxBackoff THEN @ + 1 ELSE @]
        /\ \/ /\ counters'[Offset] >= bounds[Offset]
              /\ cpc' = "probe"
              /\ UNCHANGED <<last, i, j, historyVars>>
           \/ /\ counters'[Offset] < bounds[Offset]
              /\ NextSetOrMiss
  /\ UNCHANGED <<bucket, states, bounds, producerVars, bulkVars>>

(* The bound that doubles without an end. *)
DoubledForever(bound) == bound * 2

Doubled(bound) == IF bound < MaxBackoff THEN bound * 2 ELSE bound

(* A look that goes on behind the first nonempty bucket. *)
ProbeOn ==
  /\ cpc = "probe"
  /\ states' = [states EXCEPT ![This] = IF EmptyWeak(This) THEN @ ELSE 1]
  /\ IF j + 1 < SetSize THEN j' = j + 1 /\ UNCHANGED cpc ELSE j' = 0 /\ cpc' = "scan"
  /\ UNCHANGED <<bucket, backoffVars, last, i, producerVars, bulkVars, historyVars>>

(* ...its look into a bucket: nonempty, which it notes, or the next, or    *)
(* the end of the set, with a longer pause.                                *)
Probe ==
  /\ cpc = "probe"
  /\ \/ /\ ~ EmptyWeak(This)
        /\ states' = [states EXCEPT ![This] = 1]
        /\ cpc' = "scan" /\ j' = 0
        /\ UNCHANGED <<backoffVars, last, i, historyVars>>
     \/ /\ EmptyWeak(This) /\ j + 1 < SetSize
        /\ j' = j + 1
        /\ UNCHANGED <<states, backoffVars, last, cpc, i, historyVars>>
     \/ /\ EmptyWeak(This) /\ j + 1 = SetSize
        /\ counters' = [counters EXCEPT ![Offset] = 0]
        /\ bounds' = [bounds EXCEPT ![Offset] = Doubled(@)]
        /\ NextSetOrMiss
        /\ UNCHANGED states
  /\ UNCHANGED <<bucket, producerVars, bulkVars>>

(* The loop over the buckets of a set. *)
Scan ==
  /\ cpc = "scan"
  /\ \/ /\ ~ EmptyWeak(This)
        /\ bucket' = Dequeued(This)
        /\ ReturnHere
        /\ Found
        /\ UNCHANGED states
     \/ /\ EmptyWeak(This)
        /\ states' = [states EXCEPT ![This] = 0]
        /\ IF j + 1 < SetSize
           THEN j' = j + 1 /\ UNCHANGED <<last, cpc, i, historyVars>>
           ELSE NextSetOrMiss
        /\ UNCHANGED bucket
  /\ UNCHANGED <<backoffVars, producerVars, bulkVars>>
-----------------------------------------------------------------------------
(* zm_mpbqueue_dequeue_bulk, which trusts the bytes.  What it reports in   *)
(* *out_count is stored + 1.                                               *)
BulkBegin(n) ==
  /\ cpc = "idle"
  /\ cpc' = "b_set"
  /\ in_count' = n /\ stored' = 0
  /\ UNCHANGED <<bucket, states, backoffVars, last, producerVars, i, j, stop,
                 historyVars>>

(* The arguments and locals of a call end with it. *)
LocalsEnd == stop' = 0 /\ in_count' = 0 /\ stored' = 0

BulkNextSet ==
  /\ NextSet("b_set")
  /\ IF i + 1 < NSets THEN UNCHANGED bulkVars ELSE LocalsEnd

BulkSet ==
  /\ cpc = "b_set"
  /\ \/ LooksNonempty(Offset) /\ cpc' = "b_scan" /\ UNCHANGED <<last, i, j, bulkVars>>
     \/ ~ LooksNonempty(Offset) /\ BulkNextSet
  /\ UNCHANGED <<bucket, states, backoffVars, producerVars, historyVars>>

(* The next bucket, or the next set. *)
BulkNext ==
  \/ j + 1 < SetSize /\ j' = j + 1 /\ cpc' = "b_scan" /\ UNCHANGED <<last, i, bulkVars>>
  \/ j + 1 = SetSize /\ BulkNextSet

(* A dequeue that finds nothing stores a NULL, which counts. *)
BulkScan ==
  /\ cpc = "b_scan"
  /\ \/ /\ states[This] = 1
        /\ bucket' = Dequeued(This)
        /\ stored' = stored + 1
        /\ missed' = IF EmptyWeak(This) THEN missed ELSE 0
        /\ cpc' = "b_weak"
        /\ UNCHANGED <<last, i, j, stop, in_count>>
     \/ /\ states[This] = 0
        /\ BulkNext
        /\ UNCHANGED <<bucket, missed>>
  /\ UNCHANGED <<states, backoffVars, producerVars, avail>>

BulkLimit ==
  \/ stored >= in_count - 1 /\ ReturnHere /\ LocalsEnd
  \/ stored < in_count - 1 /\ BulkNext

BulkWeak ==
  /\ cpc = "b_weak"
  /\ \/ EmptyWeak(This) /\ cpc' = "b_strong" /\ UNCHANGED <<last, i, j, bulkVars>>
     \/ ~ EmptyWeak(This) /\ BulkLimit
  /\ UNCHANGED <<bucket, states, backoffVars, producerVars, historyVars>>

(* zm_swpqueue_isempty_strong: head and tail are the same...              *)
BulkStrong ==
  /\ cpc = "b_strong"
  /\ \/ bucket[This] = << >> /\ cpc' = "b_next" /\ UNCHANGED <<last, i, j, bulkVars>>
     \/ bucket[This] # << >> /\ BulkLimit
  /\ UNCHANGED <<bucket, states, backoffVars, producerVars, historyVars>>

(* ...and nobody has linked anything to it meanwhile. *)
BulkMark ==
  /\ cpc = "b_next"
  /\ states' = IF EmptyWeak(This) THEN [states EXCEPT ![This] = 0] ELSE states
  /\ BulkLimit
  /\ UNCHANGED <<bucket, backoffVars, producerVars, historyVars>>
-----------------------------------------------------------------------------
(* zm_mpbqueue_dequeue_range of [first, end[, which reports stored *)
RangeBegin(first, end, n) ==
  /\ cpc = "idle"
  /\ first < end
  /\ cpc' = "range" /\ j' = first /\ stop' = end
  /\ in_count' = n /\ stored' = 0
  /\ UNCHANGED <<bucket, states, backoffVars, last, producerVars, i,
                 historyVars>>

(* A bucket of it: one element, if there is any. *)
Range ==
  /\ cpc = "range"
  /\ bucket' = Dequeued(j)
  /\ LET takes == ~ EmptyWeak(j)
         count == IF takes THEN stored + 1 ELSE stored
     IN  /\ missed' = IF takes THEN 0 ELSE missed
         /\ \/ /\ (takes /\ count >= in_count) \/ j + 1 = stop
               /\ cpc' = "idle" /\ j' = 0 /\ LocalsEnd
            \/ /\ ~ (takes /\ count >= in_count) /\ j + 1 < stop
               /\ j' = j + 1 /\ stored' = count /\ UNCHANGED <<cpc, stop, in_count>>
  /\ UNCHANGED <<states, backoffVars, last, producerVars, i, avail>>
-----------------------------------------------------------------------------
Dequeue == DeqBegin \/ Look \/ Probe \/ Scan

Bulk ==
  \/ \E n \in InCounts : BulkBegin(n)
  \/ BulkSet \/ BulkScan \/ BulkWeak \/ BulkStrong \/ BulkMark

DequeueRange ==
  \/ \E first \in Buckets, end \in 1..NSets * SetSize, n \in InCounts :
       RangeBegin(first, end, n)
  \/ Range

Produce == \E p \in Producers : EnqLink(p) \/ \E b \in Buckets : EnqSwap(p, b)

(* A consumer that mixes the three calls... *)
Next == Produce \/ Dequeue \/ Bulk \/ DequeueRange
Spec == Init /\ [][Next]_vars

(* ...and that goes on with zm_mpbqueue_dequeue again and again, beside    *)
(* producers that keep running inside zm_mpbqueue_enqueue.                 *)
FairSpec ==
  /\ Spec
  /\ SF_vars(DeqBegin) /\ WF_vars(Look \/ Probe \/ Scan)
  /\ WF_vars(BulkSet \/ BulkScan \/ BulkWeak \/ BulkStrong \/ BulkMark \/ Range)
  /\ \A p \in Producers : WF_vars(EnqLink(p))
-----------------------------------------------------------------------------
TypeOK ==
  /\ \A b \in Buckets : \A k \in 1..Len(bucket[b]) :
       bucket[b][k] \in Producers \X (1..MaxSent)
  /\ states \in [Buckets -> {0, 1}]
  /\ counters \in [0..NSets - 1 -> 0..MaxBackoff]
  /\ bounds \in [0..NSets - 1 -> Nat \ {0}]
  /\ into \in [Producers -> Buckets \cup {NULL}] /\ sent \in [Producers -> 0..MaxSent]
  /\ last \in Nat /\ i \in 0..NSets - 1 /\ j \in Buckets
  /\ stop \in Nat /\ in_count \in Nat /\ stored \in Nat
  /\ avail \in BOOLEAN /\ missed \in Nat
  /\ cpc \in {"idle", "look", "probe", "scan", "b_set", "b_scan", "b_weak",
              "b_strong", "b_next", "range"}

(* Fewer than MAX_BACKOFF calls of zm_mpbqueue_dequeue in a row come back  *)
(* with nothing although an element waited when they began, whatever the   *)
(* bytes say, wherever the counters are, and whichever other calls come in *)
(* between: the pauses never grow over all that waits.  This is no bound   *)
(* for a given element, since a call that finds another one starts the     *)
(* count again (Delivered says that each gets its turn).                   *)
BackoffBounded == TypeOK /\ missed < MaxBackoff

(* At most one byte of all says that its bucket is nonempty, and it is one *)
(* of the set that the next call begins with: so zm_mpbqueue_dequeue_bulk, *)
(* however large its array, never stores more than one element.            *)
OneByte ==
  /\ \A b, c \in Buckets : states[b] = 1 /\ states[c] = 1 => b = c
  /\ cpc = "idle" => \A b \in Buckets : states[b] = 1 => b \in InSet(last % NSets)
  /\ cpc \in {"b_set", "b_scan", "b_weak", "b_strong", "b_next"} => stored <= 1

(* With producers that stop, a consumer that goes on polling gets every    *)
(* element, whatever the bulk calls in between do to the bytes.            *)
Delivered == \A b \in Buckets : bucket[b] # << >> ~> bucket[b] = << >>
-----------------------------------------------------------------------------
(* The inductive invariant.  A producer's elements are numbered, the last  *)
(* one is perhaps not linked, and no place is outside its set...           *)
ItemsOK ==
  /\ bucket \in [Buckets -> Seq(Producers \X (1..MaxSent))]
  /\ \A b \in Buckets : \A k \in 1..Len(bucket[b]) :
       bucket[b][k][2] <= sent[bucket[b][k][1]]

Polls == {"look", "probe", "scan"}
InBucket == {"b_weak", "b_strong", "b_next"}

PlacesOK ==
  /\ \A s \in 0..NSets - 1 : bounds[s] \in Pauses
  /\ cpc \in {"idle", "range"} => i = 0
  /\ cpc \in {"idle", "look", "b_set"} => j = 0
  /\ cpc = "range" => j < stop /\ stop <= NSets * SetSize
  /\ cpc # "range" => j < SetSize
  /\ avail => cpc \in Polls

(* ...a byte that is set is one of the first set, where a loop has still   *)
(* to come to it, and a bulk call counts it once...                        *)
Byte(b) == b \in Buckets /\ states[b] = 1

BytesOK ==
  /\ \A b, c \in Buckets : Byte(b) /\ Byte(c) => b = c
  /\ cpc \in {"idle", "look", "range", "b_set", "b_scan"} \cup InBucket =>
       \A b \in Buckets : Byte(b) => b \in InSet(OffsetLast)
  /\ cpc = "look" /\ i > 0 => \A b \in Buckets : ~ Byte(b)
  /\ cpc = "probe" => \A b \in Buckets : ~ Byte(b)
  /\ cpc = "scan" => \A b \in Buckets : Byte(b) => b \in InSet(Offset) /\ b >= This
  /\ cpc = "b_set" => stored <= 1 /\ (i = 0 => stored = 0)
  /\ cpc \in {"b_scan"} \cup InBucket => i = 0
  /\ cpc = "b_scan" =>
       \/ stored = 0
       \/ stored = 1 /\ \A b \in Buckets : Byte(b) => b < This
  /\ cpc \in InBucket => stored = 1 /\ Byte(This)

(* ...and while dequeues miss, some element waits in a set that has        *)
(* counted all of them, the call under way included once it has passed.    *)
Passed(s) == cpc \in Polls /\ \E k \in 0..NSets - 1 : k < i /\ s = (last + k) % NSets

Waiting(s, b) ==
  /\ b \in InSet(s) /\ ~ EmptyWeak(b)
  /\ cpc \in {"probe", "scan"} /\ s = Offset => b >= This
  /\ missed <= counters[s]
  /\ Passed(s) => missed + 1 <= counters[s] /\ counters[s] < bounds[s]

MissesOK ==
  missed > 0 \/ avail =>
    \E s \in 0..NSets - 1 : \E b \in Buckets : Waiting(s, b)

IInv ==
  /\ BackoffBounded /\ ItemsOK /\ PlacesOK /\ BytesOK /\ MissesOK
=============================================================================
