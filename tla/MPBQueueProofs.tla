-------------------------- MODULE MPBQueueProofs ---------------------------
(***************************************************************************)
(* The proofs about the bucket queue, for every number of producers, sets  *)
(* and buckets in a set: a dequeue overlooks a waiting element less than   *)
(* MaxBackoff times in a row, and at most one byte says nonempty.          *)
(***************************************************************************)
EXTENDS MPBQueue, TLAPS

SetNumbers == 0..NSets - 1

(* The loops over the sets: once around, each set once.                    *)
LEMMA Remainder ==
  ASSUME NEW a \in Nat
  PROVE  /\ a % NSets \in SetNumbers
         /\ \A k \in 0..NSets :
              (a + k) % NSets = IF (a % NSets) + k < NSets
                                THEN (a % NSets) + k ELSE (a % NSets) + k - NSets
<1>1. NSets \in Nat \ {0}
  BY MPBQueueAssumption
<1> DEFINE q == a \div NSets
           r == a % NSets
<1>2. q \in Nat /\ r \in 0..NSets - 1
  BY <1>1
<1>3. ASSUME NEW c \in Nat, NEW p \in Nat, NEW d \in 0..NSets - 1, c = NSets * p + d
      PROVE  c % NSets = d
  BY <1>1, <1>3
<1>4. q = a \div NSets /\ r = a % NSets
  OBVIOUS
<1> HIDE DEF q, r
<1>5. PICK x \in Nat : x = NSets * q
  BY <1>1, <1>2
<1>6. a = x + r
  BY <1>1, <1>4, <1>5
<1>7. ASSUME NEW k \in 0..NSets
      PROVE  (a + k) % NSets = IF r + k < NSets THEN r + k ELSE r + k - NSets
  <2>1. a + k \in Nat
    BY <1>1
  <2>2. CASE r + k < NSets
    <3>1. r + k \in 0..NSets - 1 /\ a + k = x + (r + k)
      BY <1>1, <1>2, <1>6, <2>2
    <3>2. a + k = NSets * q + (r + k)
      BY <1>5, <3>1
    <3> QED
      BY <1>2, <1>3, <2>1, <2>2, <3>1, <3>2
  <2>3. CASE ~ (r + k < NSets)
    <3>1. r + k - NSets \in 0..NSets - 1 /\ a + k = x + NSets + (r + k - NSets)
      BY <1>1, <1>2, <1>6, <2>3
    <3>2. NSets * (q + 1) = x + NSets /\ q + 1 \in Nat
      BY <1>1, <1>2, <1>5
    <3>3. a + k = NSets * (q + 1) + (r + k - NSets)
      BY <3>1, <3>2
    <3> QED
      BY <1>3, <2>1, <2>3, <3>1, <3>2, <3>3
  <2> QED
    BY <2>2, <2>3
<1> QED
  BY <1>2, <1>4, <1>7 DEF SetNumbers

LEMMA Around ==
  ASSUME NEW a \in Nat
  PROVE  /\ \A k \in SetNumbers : (a + k) % NSets \in SetNumbers
         /\ \A k, m \in SetNumbers : (a + k) % NSets = (a + m) % NSets => k = m
         /\ \A s \in SetNumbers : \E k \in SetNumbers : s = (a + k) % NSets
         /\ \A k \in {0, NSets} : (a + k) % NSets = a % NSets
         /\ \A s \in SetNumbers : s % NSets = s
<1> DEFINE r == a % NSets
<1>1. /\ NSets \in Nat \ {0} /\ r \in SetNumbers
      /\ \A k \in 0..NSets : (a + k) % NSets = IF r + k < NSets THEN r + k ELSE r + k - NSets
  BY MPBQueueAssumption, Remainder
<1> HIDE DEF r
<1>2. \A k \in SetNumbers : (a + k) % NSets \in SetNumbers
  BY <1>1 DEF SetNumbers
<1>3. \A k, m \in SetNumbers : (a + k) % NSets = (a + m) % NSets => k = m
  BY <1>1 DEF SetNumbers
<1>4. ASSUME NEW s \in SetNumbers PROVE \E k \in SetNumbers : s = (a + k) % NSets
  <2> DEFINE k == IF s >= r THEN s - r ELSE s + NSets - r
  <2>1. k \in SetNumbers /\ s = IF r + k < NSets THEN r + k ELSE r + k - NSets
    BY <1>1 DEF SetNumbers
  <2>2. k \in 0..NSets
    BY <1>1, <2>1 DEF SetNumbers
  <2> HIDE DEF k
  <2> QED
    BY <1>1, <2>1, <2>2
<1>5. ASSUME NEW k \in {0, NSets} PROVE (a + k) % NSets = r
  <2>1. k \in 0..NSets
    BY <1>1
  <2>2. (a + k) % NSets = IF r + k < NSets THEN r + k ELSE r + k - NSets
    BY <1>1, <2>1
  <2> QED
    BY <1>1, <2>2 DEF SetNumbers
<1>6. \A s \in SetNumbers : s % NSets = s
  <2>1. ASSUME NEW s \in SetNumbers PROVE s % NSets = s
    <3>1. 0 % NSets = 0 /\ 0 \in Nat
      BY <1>1
    <3>2. s \in 0..NSets /\ s < NSets
      BY <1>1 DEF SetNumbers
    <3>3. (0 + s) % NSets = IF (0 % NSets) + s < NSets
                            THEN (0 % NSets) + s ELSE (0 % NSets) + s - NSets
      BY <3>1, <3>2, Remainder
    <3> QED
      BY <3>1, <3>2, <3>3
  <2> QED
    BY <2>1
<1>7. \A k \in {0, NSets} : (a + k) % NSets = a % NSets
  BY <1>5, Zenon DEF r
<1> QED
  BY <1>2, <1>3, <1>4, <1>6, <1>7, Zenon

(* The buckets of the sets: consecutive ones, each in one set.             *)
LEMMA Times ==
  ASSUME NEW p \in Nat, NEW q \in Nat, p < q
  PROVE  p * SetSize + SetSize <= q * SetSize
<1>1. SetSize \in Nat \ {0}
  BY MPBQueueAssumption
<1>2. PICK d \in Nat : q = p + 1 + d
  <2>1. q - p - 1 \in Nat /\ q = p + 1 + (q - p - 1)
    OBVIOUS
  <2> QED
    BY <2>1
<1> DEFINE x == p * SetSize
           y == q * SetSize
<1>3. PICK z \in Nat : z = d * SetSize
  BY <1>1
<1>4. y = x + SetSize + z
  BY <1>1, <1>2, <1>3
<1>5. x \in Nat
  BY <1>1
<1> HIDE DEF x, y
<1>6. x + SetSize <= y
  BY <1>1, <1>3, <1>4, <1>5
<1> QED
  BY <1>6 DEF x, y

LEMMA SetFacts ==
  ASSUME NEW s \in SetNumbers
  PROVE  /\ s * SetSize \in Nat /\ SetSize \in Nat \ {0} /\ NSets * SetSize \in Nat
         /\ InSet(s) = s * SetSize .. s * SetSize + SetSize - 1
         /\ s * SetSize + SetSize <= NSets * SetSize
         /\ InSet(s) \subseteq Buckets
         /\ \A b \in InSet(s) : b \in Nat
<1>1. SetSize \in Nat \ {0} /\ NSets \in Nat \ {0} /\ s \in Nat /\ s < NSets
  BY MPBQueueAssumption DEF SetNumbers
<1>2. s * SetSize \in Nat /\ NSets * SetSize \in Nat
  BY <1>1
<1>3. (s + 1) * SetSize = s * SetSize + SetSize
  BY <1>1
<1>4. s * SetSize + SetSize <= NSets * SetSize
  BY <1>1, Times
<1>5. InSet(s) = s * SetSize .. s * SetSize + SetSize - 1
  <2> DEFINE x == s * SetSize
             y == (s + 1) * SetSize
  <2>1. InSet(s) = x .. y - 1 /\ y = x + SetSize
    BY <1>3, Zenon DEF InSet
  <2>2. x \in Nat /\ y \in Nat /\ SetSize \in Nat
    BY <1>1, <1>2
  <2> HIDE DEF x, y
  <2>3. InSet(s) = x .. x + SetSize - 1
    BY <2>1, <2>2
  <2> QED
    BY <2>3 DEF x
<1> DEFINE x == s * SetSize
           y == NSets * SetSize
<1> HIDE DEF x, y
<1>6. x \in Nat /\ y \in Nat /\ x + SetSize <= y /\ InSet(s) = x .. x + SetSize - 1
  BY <1>2, <1>4, <1>5, Zenon DEF x, y
<1>7. \A b \in InSet(s) : b \in Nat /\ b \in 0..y - 1
  BY <1>1, <1>6
<1> QED
  BY <1>1, <1>2, <1>4, <1>5, <1>7 DEF Buckets, y

LEMMA OneSet ==
  ASSUME NEW s \in SetNumbers, NEW t \in SetNumbers, NEW b \in InSet(s), b \in InSet(t)
  PROVE  s = t
<1>1. ASSUME NEW p \in SetNumbers, NEW q \in SetNumbers, b \in InSet(p), b \in InSet(q), p < q
      PROVE  FALSE
  <2> DEFINE x == p * SetSize
             y == q * SetSize
  <2>1. /\ x \in Nat /\ y \in Nat /\ SetSize \in Nat
        /\ b \in x .. x + SetSize - 1 /\ b \in y .. y + SetSize - 1
    BY <1>1, SetFacts
  <2>2. x + SetSize <= y
    BY <1>1, Times DEF SetNumbers
  <2> HIDE DEF x, y
  <2> QED
    BY <2>1, <2>2
<1>2. s < t \/ t < s \/ s = t
  BY DEF SetNumbers
<1> QED
  BY <1>1, <1>2

LEMMA SomeSet ==
  ASSUME NEW b \in Buckets
  PROVE  \E s \in SetNumbers : b \in InSet(s)
<1>1. SetSize \in Nat \ {0} /\ NSets \in Nat \ {0} /\ b \in Nat
  BY MPBQueueAssumption DEF Buckets
<1> DEFINE q == b \div SetSize
           r == b % SetSize
<1>2. q \in Nat /\ r \in 0..SetSize - 1
  BY <1>1
<1>3. q = b \div SetSize /\ r = b % SetSize
  OBVIOUS
<1> HIDE DEF q, r
<1>4. PICK x \in Nat : x = q * SetSize
  BY <1>1, <1>2
<1>5. b = x + r
  <2>1. x = SetSize * q
    BY <1>1, <1>2, <1>4
  <2> QED
    BY <1>1, <1>3, <2>1
<1>6. q < NSets
  <2>1. NSets < q + 1 => NSets * SetSize + SetSize <= (q + 1) * SetSize
    BY <1>1, <1>2, Times
  <2>2. (q + 1) * SetSize = x + SetSize
    BY <1>1, <1>2, <1>4
  <2>3. PICK y \in Nat : y = NSets * SetSize
    BY <1>1
  <2>4. b < y
    BY <2>3 DEF Buckets
  <2>5. NSets < q + 1 => y + SetSize <= x + SetSize
    BY <2>1, <2>2, <2>3
  <2>6. ~ (NSets < q + 1)
    BY <1>1, <1>2, <1>4, <1>5, <2>3, <2>4, <2>5
  <2> QED
    BY <1>1, <1>2, <2>6
<1>7. q \in SetNumbers
  BY <1>1, <1>2, <1>6 DEF SetNumbers
<1>8. q * SetSize \in Nat /\ InSet(q) = q * SetSize .. q * SetSize + SetSize - 1
  BY <1>7, SetFacts
<1>9. b \in InSet(q)
  BY <1>1, <1>2, <1>4, <1>5, <1>8
<1> QED
  BY <1>7, <1>9

-----------------------------------------------------------------------------
(* The pauses: they double up to MaxBackoff and not over it.               *)
LEMMA PauseFacts ==
  /\ 1 \in Pauses
  /\ \A b \in Pauses : b \in Nat \ {0} /\ b <= MaxBackoff /\ Doubled(b) \in Pauses
<1>1. MaxBackoff \in Nat \ {0}
  BY MPBQueueAssumption
<1>2. 1 \in Pauses
  BY <1>1 DEF Pauses
<1>3. \A b \in Pauses : b \in Nat \ {0} /\ b <= MaxBackoff
  BY <1>1 DEF Pauses
<1>4. \A b \in Pauses : b < MaxBackoff => b * 2 \in Pauses
  <2>1. ASSUME NEW b \in Pauses, b < MaxBackoff PROVE b * 2 \in Pauses
    <3>1. 2 * b \in Pauses
      BY <2>1, MPBQueueAssumption
    <3>2. 2 * b = b * 2
      BY <1>3, <2>1
    <3> QED
      BY <3>1, <3>2
  <2> QED
    BY <2>1
<1> QED
  BY <1>2, <1>3, <1>4 DEF Doubled

(* The set and the bucket at hand.                                         *)
LEMMA Here ==
  ASSUME IInv
  PROVE  /\ Offset \in SetNumbers /\ OffsetLast \in SetNumbers
         /\ i = 0 => Offset = OffsetLast
         /\ \A k \in SetNumbers : (last + k) % NSets = Offset => k = i
         /\ i \in Nat /\ i < NSets /\ NSets \in Nat
         /\ SetSize \in Nat \ {0} /\ \A k \in Nat : k < SetSize => k \in Buckets
<1>1. NSets \in Nat \ {0} /\ i \in SetNumbers /\ last \in Nat
  BY MPBQueueAssumption DEF IInv, BackoffBounded, TypeOK, SetNumbers
<1>2. Offset \in SetNumbers /\ OffsetLast \in SetNumbers
  BY <1>1, Around, Remainder DEF Offset, OffsetLast
<1>3. i = 0 => Offset = OffsetLast
  BY <1>1, Around DEF Offset, OffsetLast
<1>4. \A k \in SetNumbers : (last + k) % NSets = Offset => k = i
  BY <1>1, Around DEF Offset
<1>5. SetSize \in Nat \ {0} /\ \A k \in Nat : k < SetSize => k \in Buckets
  <2>1. /\ 0 \in SetNumbers /\ 0 * SetSize \in Nat /\ SetSize \in Nat \ {0}
        /\ InSet(0) = 0 * SetSize .. 0 * SetSize + SetSize - 1 /\ InSet(0) \subseteq Buckets
    BY <1>1, SetFacts DEF SetNumbers
  <2>2. 0 * SetSize = 0
    BY <2>1
  <2> QED
    BY <2>1, <2>2
<1> QED
  BY <1>1, <1>2, <1>3, <1>4, <1>5 DEF SetNumbers

LEMMA ThisBucket ==
  ASSUME IInv, cpc # "range"
  PROVE  /\ This \in InSet(Offset) /\ This \in Buckets /\ This \in Nat
         /\ j \in Nat /\ SetSize \in Nat \ {0}
         /\ j = 0 => \A b \in InSet(Offset) : b >= This
         /\ j + 1 = SetSize => \A b \in InSet(Offset) : b <= This
         /\ Offset * SetSize + (j + 1) = This + 1
         /\ Offset * SetSize \in Nat /\ Offset * SetSize + 0 = Offset * SetSize
         /\ This >= Offset * SetSize /\ \A b \in InSet(Offset) : b >= Offset * SetSize
         /\ \A b \in InSet(Offset) : b \in Buckets /\ b \in Nat
<1>1. Offset \in SetNumbers
  BY Here
<1> DEFINE x == Offset * SetSize
<1>2. x \in Nat /\ SetSize \in Nat \ {0} /\ InSet(Offset) \subseteq Buckets
  BY <1>1, SetFacts
<1>3. InSet(Offset) = x .. x + SetSize - 1
  BY <1>1, SetFacts
<1>4. j \in Nat /\ j < SetSize
  BY DEF IInv, BackoffBounded, TypeOK, PlacesOK, Buckets
<1>5. This = x + j
  BY Zenon DEF This
<1> HIDE DEF x
<1>6. This \in InSet(Offset) /\ This \in Nat /\ x + (j + 1) = This + 1
  BY <1>2, <1>3, <1>4, <1>5
<1>7. j = 0 => \A b \in InSet(Offset) : b >= This
  BY <1>2, <1>3, <1>5
<1>8. j + 1 = SetSize => \A b \in InSet(Offset) : b <= This
  BY <1>2, <1>3, <1>4, <1>5
<1>9. This >= x /\ x + 0 = x /\ \A b \in InSet(Offset) : b >= x
  BY <1>2, <1>3, <1>4, <1>5
<1>10. \A b \in InSet(Offset) : b \in Buckets /\ b \in Nat
  BY <1>2 DEF Buckets
<1> QED
  BY <1>2, <1>4, <1>6, <1>7, <1>8, <1>9, <1>10, Zenon DEF x

LEMMA InitInv == Init => IInv
<1> SUFFICES ASSUME Init PROVE IInv
  OBVIOUS
<1>1. /\ NSets \in Nat \ {0} /\ MaxBackoff \in Nat \ {0} /\ SetSize \in Nat \ {0}
      /\ MaxSent \in Nat /\ FirstSets \subseteq Nat
  BY MPBQueueAssumption
<1>2. 0 \in Buckets /\ 0 < SetSize
  <2>1. /\ 0 \in SetNumbers /\ 0 * SetSize \in Nat /\ SetSize \in Nat \ {0}
        /\ InSet(0) = 0 * SetSize .. 0 * SetSize + SetSize - 1 /\ InSet(0) \subseteq Buckets
    BY <1>1, SetFacts DEF SetNumbers
  <2>2. 0 * SetSize = 0
    BY <2>1
  <2> QED
    BY <2>1, <2>2
<1>3. BackoffBounded
  <2>1. \A b \in Buckets : Len(bucket[b]) = 0
    BY DEF Init
  <2>2. \A b \in Buckets : \A k \in 1..Len(bucket[b]) :
          bucket[b][k] \in Producers \X (1..MaxSent)
    BY <2>1
  <2>3. /\ states \in [Buckets -> {0, 1}]
        /\ into \in [Producers -> Buckets \cup {NULL}] /\ sent \in [Producers -> 0..MaxSent]
    BY <1>1 DEF Init
  <2>4. counters \in [0..NSets - 1 -> 0..MaxBackoff] /\ bounds \in [0..NSets - 1 -> Nat \ {0}]
    BY <1>1 DEF Init
  <2>5. /\ last \in Nat /\ i \in 0..NSets - 1 /\ j \in Buckets /\ stop \in Nat
        /\ in_count \in Nat /\ stored \in Nat /\ missed \in Nat
        /\ missed < MaxBackoff /\ cpc = "idle"
    BY <1>1, <1>2 DEF Init
  <2>6. avail \in BOOLEAN
    BY DEF Init
  <2> QED
    BY <2>2, <2>3, <2>4, <2>5, <2>6 DEF BackoffBounded, TypeOK
<1>4. ItemsOK
  BY DEF Init, ItemsOK
<1>5. PlacesOK
  BY <1>1, <1>2, PauseFacts DEF Init, PlacesOK
<1>6. BytesOK
  BY DEF Init, BytesOK, Byte, InBucket
<1>7. MissesOK
  BY DEF Init, MissesOK
<1> QED
  BY <1>3, <1>4, <1>5, <1>6, <1>7 DEF IInv
-----------------------------------------------------------------------------
(* What a step does not touch keeps its part of the invariant.             *)
LEMMA BytesFrame ==
  ASSUME IInv, UNCHANGED <<states, cpc, last, i, j, stored>>
  PROVE  BytesOK'
<1>1. /\ \A b : Byte(b)' <=> Byte(b)
      /\ OffsetLast' = OffsetLast /\ Offset' = Offset /\ This' = This
  BY DEF Byte, OffsetLast, Offset, This
<1> QED
  BY <1>1 DEF IInv, BytesOK

LEMMA WaitingFrame ==
  ASSUME UNCHANGED <<counters, bounds, cpc, last, i, j, missed>>,
         NEW s, NEW b, Waiting(s, b), ~ EmptyWeak(b)'
  PROVE  Waiting(s, b)'
<1>1. (Passed(s)' <=> Passed(s)) /\ Offset' = Offset /\ This' = This
  BY DEF Passed, Offset, This
<1> QED
  BY <1>1 DEF Waiting

(* An element that the consumer can see stays where it is while the        *)
(* producers go on.                                                        *)
LEMMA EnqSwapInv ==
  ASSUME IInv, NEW p \in Producers, NEW d \in Buckets, EnqSwap(p, d)
  PROVE  IInv'
<1> BackoffBounded /\ TypeOK /\ ItemsOK
  BY DEF IInv, BackoffBounded
<1>1. /\ into[p] = NULL /\ sent[p] < MaxSent /\ into' = [into EXCEPT ![p] = d]
      /\ sent' = [sent EXCEPT ![p] = sent[p] + 1]
      /\ bucket' = [bucket EXCEPT ![d] = Append(bucket[d], <<p, sent[p] + 1>>)]
      /\ UNCHANGED <<states, counters, bounds, last, cpc, i, j, stop, in_count, stored,
                     avail, missed>>
  BY DEF EnqSwap, backoffVars, bulkVars, historyVars, TypeOK
<1>2. /\ MaxSent \in Nat /\ sent[p] \in 0..MaxSent /\ sent[p] + 1 \in 1..MaxSent
      /\ sent'[p] = sent[p] + 1 /\ \A q \in Producers : q # p => sent'[q] = sent[q]
      /\ sent' \in [Producers -> 0..MaxSent] /\ into' \in [Producers -> Buckets \cup {NULL}]
      /\ into'[p] = d /\ \A q \in Producers : q # p => into'[q] = into[q]
  BY <1>1, MPBQueueAssumption DEF TypeOK
<1> DEFINE e == <<p, sent[p] + 1>>
<1>3. e \in Producers \X (1..MaxSent) /\ e[1] = p /\ e[2] = sent[p] + 1
  BY <1>2
<1> HIDE DEF e
<1>4. /\ bucket' \in [Buckets -> Seq(Producers \X (1..MaxSent))]
      /\ bucket'[d] = Append(bucket[d], e) /\ \A b \in Buckets : b # d => bucket'[b] = bucket[b]
  BY <1>1, <1>3 DEF ItemsOK, e
<1>5. ASSUME NEW b \in Buckets, NEW k \in 1..Len(bucket'[b])
      PROVE  /\ bucket'[b][k] \in Producers \X (1..MaxSent)
             /\ bucket'[b][k][2] <= sent'[bucket'[b][k][1]]
  <2>1. bucket'[b][k] \in Producers \X (1..MaxSent)
    BY <1>4
  <2>2. ASSUME k \in 1..Len(bucket[b]), bucket'[b][k] = bucket[b][k]
        PROVE  bucket'[b][k][2] <= sent'[bucket'[b][k][1]]
    <3>1. bucket[b][k][2] <= sent[bucket[b][k][1]] /\ bucket[b][k] \in Producers \X (1..MaxSent)
      BY <2>2 DEF ItemsOK
    <3>2. \A q \in Producers : sent[q] \in Nat /\ sent'[q] \in Nat /\ sent[q] <= sent'[q]
      <4>1. sent \in [Producers -> 0..MaxSent]
        BY DEF TypeOK
      <4>2. ASSUME NEW q \in Producers
            PROVE  sent[q] \in Nat /\ sent'[q] \in Nat /\ sent[q] <= sent'[q]
        <5>1. sent[q] \in 0..MaxSent /\ (sent'[q] = sent[q] \/ sent'[q] = sent[q] + 1)
          BY <1>2, <4>1
        <5> QED
          BY <1>2, <5>1
      <4> QED
        BY <4>2
    <3> DEFINE q == bucket[b][k][1]
               n == bucket[b][k][2]
    <3>3. q \in Producers /\ n \in Nat /\ n <= sent[q]
      BY <1>2, <3>1
    <3> HIDE DEF q, n
    <3>4. n <= sent'[q]
      BY <3>2, <3>3
    <3> QED
      BY <2>2, <3>4 DEF q, n
  <2>3. CASE b # d
    BY <1>4, <2>1, <2>2, <2>3
  <2>4. CASE b = d
    <3>1. bucket[d] \in Seq(Producers \X (1..MaxSent)) /\ Len(bucket[d]) \in Nat
      BY DEF ItemsOK
    <3>2. k \in 1..Len(bucket[d]) + 1
      BY <1>4, <2>4, <3>1
    <3>3. CASE k = Len(bucket[d]) + 1
      <4>1. bucket'[b][k] = e
        BY <1>4, <2>4, <3>1, <3>3
      <4> QED
        BY <1>2, <1>3, <2>1, <4>1
    <3>4. CASE k # Len(bucket[d]) + 1
      <4>1. k \in 1..Len(bucket[b]) /\ bucket'[b][k] = bucket[b][k]
        <5>1. k \in 1..Len(bucket[d])
          BY <3>1, <3>2, <3>4
        <5>2. Append(bucket[d], e)[k] = bucket[d][k]
          BY <1>3, <3>1, <5>1
        <5> QED
          BY <1>4, <2>4, <5>1, <5>2
      <4> QED
        BY <2>1, <2>2, <4>1
    <3> QED
      BY <3>3, <3>4
  <2> QED
    BY <2>3, <2>4
<1>6. BackoffBounded' /\ ItemsOK' /\ PlacesOK'
  BY <1>1, <1>2, <1>4, <1>5 DEF IInv, BackoffBounded, TypeOK, ItemsOK, PlacesOK
<1>7. BytesOK'
  BY <1>1, BytesFrame
<1>8. ASSUME NEW b \in Buckets, ~ EmptyWeak(b) PROVE ~ EmptyWeak(b)'
  <2>1. bucket[b] # << >> /\ Linked(Head(bucket[b]))
    BY <1>8 DEF EmptyWeak
  <2>2. bucket[b] \in Seq(Producers \X (1..MaxSent)) /\ Len(bucket[b]) > 0
    BY <2>1 DEF ItemsOK
  <2>3. Head(bucket'[b]) = Head(bucket[b]) /\ bucket'[b] # << >>
    <3>1. CASE b = d
      <4>1. /\ bucket'[b] = Append(bucket[b], e)
            /\ Head(Append(bucket[b], e)) = Append(bucket[b], e)[1]
        BY <1>4, <3>1
      <4>2. Append(bucket[b], e)[1] = bucket[b][1] /\ Len(Append(bucket[b], e)) > 0
        BY <1>3, <2>2
      <4>3. bucket[b][1] = Head(bucket[b])
        BY <2>2
      <4> QED
        BY <4>1, <4>2, <4>3
    <3>2. CASE b # d
      BY <1>4, <2>1, <3>2
    <3> QED
      BY <3>1, <3>2
  <2> DEFINE h == Head(bucket[b])
  <2>4. h \in Producers \X (1..MaxSent) /\ h[2] <= sent[h[1]]
    BY <2>2 DEF ItemsOK
  <2>5. h[1] = p => h[2] < sent'[p]
    BY <1>2, <2>4
  <2>6. h[1] # p => into'[h[1]] = into[h[1]] /\ sent'[h[1]] = sent[h[1]]
    BY <1>2, <2>4
  <2>7. into'[h[1]] = NULL \/ h[2] < sent'[h[1]]
    BY <2>1, <2>5, <2>6 DEF Linked
  <2> QED
    BY <2>3, <2>7 DEF EmptyWeak, Linked
<1>9. MissesOK'
  <2>1. ASSUME NEW s \in 0..NSets - 1, NEW b \in Buckets, Waiting(s, b) PROVE Waiting(s, b)'
    BY <1>1, <1>8, <2>1, WaitingFrame DEF Waiting
  <2> QED
    BY <1>1, <2>1 DEF IInv, MissesOK
<1> QED
  BY <1>6, <1>7, <1>9 DEF IInv

LEMMA EnqLinkInv ==
  ASSUME IInv, NEW p \in Producers, EnqLink(p)
  PROVE  IInv'
<1> BackoffBounded /\ TypeOK /\ ItemsOK
  BY DEF IInv, BackoffBounded
<1>1. /\ into' = [into EXCEPT ![p] = NULL]
      /\ UNCHANGED <<bucket, sent, states, counters, bounds, last, cpc, i, j, stop, in_count,
                     stored, avail, missed>>
  BY DEF EnqLink, backoffVars, bulkVars, historyVars
<1>2. BackoffBounded' /\ ItemsOK' /\ PlacesOK'
  BY <1>1 DEF IInv, BackoffBounded, TypeOK, ItemsOK, PlacesOK
<1>3. BytesOK'
  BY <1>1, BytesFrame
<1>4. ASSUME NEW b \in Buckets, ~ EmptyWeak(b) PROVE ~ EmptyWeak(b)'
  <2>1. bucket[b] # << >> /\ Linked(Head(bucket[b]))
    BY <1>4 DEF EmptyWeak
  <2>2. Head(bucket[b])[1] \in Producers
    BY <2>1 DEF ItemsOK
  <2> QED
    BY <1>1, <2>1, <2>2 DEF EmptyWeak, Linked, TypeOK
<1>5. MissesOK'
  <2>1. ASSUME NEW s \in 0..NSets - 1, NEW b \in Buckets, Waiting(s, b) PROVE Waiting(s, b)'
    BY <1>1, <1>4, <2>1, WaitingFrame DEF Waiting
  <2> QED
    BY <1>1, <2>1 DEF IInv, MissesOK
<1> QED
  BY <1>2, <1>3, <1>5 DEF IInv

-----------------------------------------------------------------------------
(* The ends of the loops: the next set, the last one, a return in between. *)
LEMMA NextSetFacts ==
  ASSUME IInv, NEW label, NextSet(label)
  PROVE  /\ i' \in 0..NSets - 1 /\ j' = 0 /\ last' \in Nat
         /\ OffsetLast' = OffsetLast
         /\ i + 1 < NSets => i' = i + 1 /\ cpc' = label /\ last' = last
         /\ ~ (i + 1 < NSets) => i' = 0 /\ cpc' = "idle" /\ i + 1 = NSets
<1>1. i \in Nat /\ i < NSets /\ NSets \in Nat /\ last \in Nat
  BY Here DEF IInv, BackoffBounded, TypeOK
<1>2. CASE i + 1 < NSets
  BY <1>1, <1>2 DEF NextSet, OffsetLast
<1>3. CASE ~ (i + 1 < NSets)
  <2>1. i' = 0 /\ j' = 0 /\ cpc' = "idle" /\ last' = (last + NSets) % NSets /\ i + 1 = NSets
    BY <1>1, <1>3 DEF NextSet
  <2>2. last' = OffsetLast
    <3>1. (last + NSets) % NSets = last % NSets
      BY <1>1, Around
    <3> QED
      BY <2>1, <3>1 DEF OffsetLast
  <2>3. OffsetLast \in SetNumbers /\ OffsetLast % NSets = OffsetLast
    BY <1>1, Here, Around
  <2>4. OffsetLast' = last' % NSets
    BY DEF OffsetLast
  <2> QED
    BY <1>1, <1>3, <2>1, <2>2, <2>3, <2>4 DEF SetNumbers
<1> QED
  BY <1>2, <1>3

LEMMA ReturnFacts ==
  ASSUME IInv, ReturnHere
  PROVE  /\ i' = 0 /\ j' = 0 /\ cpc' = "idle" /\ last' \in Nat
         /\ OffsetLast' = Offset /\ i' \in 0..NSets - 1
<1>1. i' = 0 /\ j' = 0 /\ cpc' = "idle" /\ last' = Offset
  BY DEF ReturnHere
<1>2. Offset \in SetNumbers /\ NSets \in Nat /\ last \in Nat
  BY Here DEF IInv, BackoffBounded, TypeOK
<1>3. Offset % NSets = Offset
  BY <1>2, Around
<1>4. OffsetLast' = last' % NSets
  BY DEF OffsetLast
<1> QED
  BY <1>1, <1>2, <1>3, <1>4 DEF SetNumbers

LEMMA NoBytes ==
  ASSUME cpc' \in {"look", "idle"}, \A b \in Buckets : ~ Byte(b)'
  PROVE  BytesOK'
BY DEF BytesOK, InBucket

(* The end of a set, or of the call, where something waits that the call   *)
(* has not found: its set has counted the call, or it is still ahead.      *)
LEMMA MissStep ==
  ASSUME IInv, cpc \in Polls, NextSetOrMiss, UNCHANGED <<bucket, into, sent>>,
         counters' \in [SetNumbers -> 0..MaxBackoff], \A s \in SetNumbers : bounds'[s] \in Pauses,
         missed > 0 \/ avail =>
           \E s \in SetNumbers : \E b \in Buckets :
             /\ b \in InSet(s) /\ ~ EmptyWeak(b) /\ missed <= counters'[s]
             /\ Passed(s) \/ s = Offset => missed + 1 <= counters'[s] /\ counters'[s] < bounds'[s]
  PROVE  /\ MissesOK' /\ missed' \in Nat /\ missed' < MaxBackoff
         /\ avail' \in BOOLEAN /\ (avail' => cpc' \in Polls)
<1>1. /\ i \in Nat /\ i < NSets /\ NSets \in Nat /\ last \in Nat /\ missed \in Nat
      /\ missed < MaxBackoff /\ avail \in BOOLEAN /\ MaxBackoff \in Nat \ {0}
  BY Here, MPBQueueAssumption DEF IInv, BackoffBounded, TypeOK
<1>2. /\ i + 1 < NSets => i' = i + 1 /\ cpc' = "look" /\ last' = last
      /\ ~ (i + 1 < NSets) => i' = 0 /\ cpc' = "idle" /\ i + 1 = NSets
  BY NextSetFacts DEF NextSetOrMiss
<1>3. \A b : EmptyWeak(b)' <=> EmptyWeak(b)
  BY DEF EmptyWeak, Linked
<1>4. CASE i + 1 < NSets
  <2>1. UNCHANGED <<avail, missed>>
    BY <1>4 DEF NextSetOrMiss, historyVars
  <2>2. ASSUME NEW s \in SetNumbers, Passed(s)' PROVE Passed(s) \/ s = Offset
    <3>1. PICK k \in 0..NSets - 1 : k < i + 1 /\ s = (last + k) % NSets
      BY <1>2, <1>4, <2>2 DEF Passed
    <3>2. k < i \/ k = i
      BY <1>1, <3>1
    <3> QED
      BY <3>1, <3>2 DEF Passed, Offset
  <2>3. MissesOK'
    <3>1. SUFFICES ASSUME (missed > 0 \/ avail)'
                   PROVE  \E s \in 0..NSets - 1 : \E b \in Buckets : Waiting(s, b)'
      BY DEF MissesOK
    <3>2. PICK s \in SetNumbers, b \in Buckets :
             /\ b \in InSet(s) /\ ~ EmptyWeak(b) /\ missed <= counters'[s]
             /\ Passed(s) \/ s = Offset => missed + 1 <= counters'[s] /\ counters'[s] < bounds'[s]
      BY <2>1, <3>1
    <3>3. Waiting(s, b)'
      BY <1>2, <1>3, <1>4, <2>1, <2>2, <3>2 DEF Waiting
    <3> QED
      BY <3>3 DEF SetNumbers
  <2> QED
    BY <1>1, <1>2, <1>4, <2>1, <2>3 DEF Polls
<1>5. CASE ~ (i + 1 < NSets)
  <2>1. /\ avail' = FALSE
        /\ missed' = IF ~ avail THEN 0 ELSE missed + 1
    BY <1>1, <1>5 DEF NextSetOrMiss
  <2>2. CASE ~ avail
    <3>1. missed' = 0 /\ 0 \in Nat /\ ~ (0 > 0) /\ 0 < MaxBackoff
      BY <1>1, <2>1, <2>2
    <3>2. ~ avail' /\ avail' \in BOOLEAN
      BY <2>1, Zenon
    <3>3. ~ (missed' > 0)
      BY <3>1
    <3>4. MissesOK'
      BY <3>2, <3>3, Zenon DEF MissesOK
    <3> QED
      BY <3>1, <3>2, <3>4
  <2>3. CASE avail
    <3>1. PICK s \in SetNumbers, b \in Buckets :
             /\ b \in InSet(s) /\ ~ EmptyWeak(b) /\ missed <= counters'[s]
             /\ Passed(s) \/ s = Offset => missed + 1 <= counters'[s] /\ counters'[s] < bounds'[s]
      BY <2>3
    <3>2. Passed(s) \/ s = Offset
      <4>1. PICK k \in SetNumbers : s = (last + k) % NSets
        BY <1>1, Around
      <4>2. k < i \/ k = i
        BY <1>1, <1>2, <1>5, <4>1 DEF SetNumbers
      <4> QED
        BY <4>1, <4>2 DEF Passed, Offset, SetNumbers
    <3>3. missed' \in Nat /\ missed' <= counters'[s] /\ counters'[s] < bounds'[s]
      BY <1>1, <2>1, <2>3, <3>1, <3>2
    <3>4. bounds'[s] <= MaxBackoff /\ bounds'[s] \in Nat /\ counters'[s] \in Nat
      BY <1>1, <3>1, PauseFacts
    <3>5. missed' < MaxBackoff
      BY <1>1, <3>3, <3>4
    <3>6. Waiting(s, b)'
      BY <1>2, <1>3, <1>5, <3>1, <3>3 DEF Waiting, Passed, Polls
    <3>7. MissesOK'
      BY <3>6 DEF MissesOK, SetNumbers
    <3> QED
      BY <2>1, <3>3, <3>5, <3>7
  <2> QED
    BY <2>2, <2>3
<1> QED
  BY <1>4, <1>5

(* What the consumer takes is the first element of a bucket, if any.       *)
LEMMA TakeFacts ==
  ASSUME IInv, NEW d \in Buckets, bucket' = Dequeued(d), UNCHANGED <<into, sent>>
  PROVE  /\ ItemsOK'
         /\ \A b \in Buckets : \A k \in 1..Len(bucket'[b]) :
              bucket'[b][k] \in Producers \X (1..MaxSent)
         /\ EmptyWeak(d) => bucket' = bucket
<1>1. ItemsOK
  BY DEF IInv
<1>2. EmptyWeak(d) => bucket' = bucket
  BY <1>1 DEF Dequeued, ItemsOK
<1>3. CASE EmptyWeak(d)
  BY <1>1, <1>2, <1>3 DEF ItemsOK
<1>4. CASE ~ EmptyWeak(d)
  <2>1. bucket[d] # << >> /\ bucket' = [bucket EXCEPT ![d] = Tail(bucket[d])]
    BY <1>1, <1>4 DEF Dequeued, EmptyWeak
  <2>2. bucket[d] \in Seq(Producers \X (1..MaxSent))
    BY <1>1 DEF ItemsOK
  <2>3. /\ Tail(bucket[d]) \in Seq(Producers \X (1..MaxSent))
        /\ Len(Tail(bucket[d])) = Len(bucket[d]) - 1 /\ Len(bucket[d]) \in Nat
        /\ \A k \in 1..Len(bucket[d]) - 1 : Tail(bucket[d])[k] = bucket[d][k + 1]
    BY <2>1, <2>2
  <2>4. bucket' \in [Buckets -> Seq(Producers \X (1..MaxSent))]
    BY <1>1, <2>1, <2>3 DEF ItemsOK
  <2>5. ASSUME NEW b \in Buckets, NEW k \in 1..Len(bucket'[b])
        PROVE  /\ bucket'[b][k] \in Producers \X (1..MaxSent)
               /\ bucket'[b][k][2] <= sent[bucket'[b][k][1]]
    <3>1. \E m \in 1..Len(bucket[b]) : bucket'[b][k] = bucket[b][m]
      <4>1. CASE b = d
        <5>1. bucket'[b] = Tail(bucket[d])
          BY <1>1, <2>1, <4>1 DEF ItemsOK
        <5>2. k \in 1..Len(bucket[d]) - 1 /\ k + 1 \in 1..Len(bucket[d])
          BY <2>3, <5>1
        <5> QED
          BY <2>3, <4>1, <5>1, <5>2
      <4>2. CASE b # d
        BY <1>1, <2>1, <4>2 DEF ItemsOK
      <4> QED
        BY <4>1, <4>2
    <3>2. bucket'[b][k] \in Producers \X (1..MaxSent)
      BY <2>4
    <3> QED
      BY <1>1, <3>1, <3>2 DEF ItemsOK
  <2>6. ItemsOK'
    BY <2>4, <2>5 DEF ItemsOK
  <2> QED
    BY <1>4, <2>5, <2>6
<1> QED
  BY <1>2, <1>3, <1>4

-----------------------------------------------------------------------------
(* zm_mpbqueue_dequeue *)
LEMMA Known ==
  ASSUME IInv
  PROVE  /\ TypeOK /\ ItemsOK /\ missed < MaxBackoff /\ missed \in Nat
         /\ last \in Nat /\ i \in Nat /\ j \in Nat /\ stored \in Nat /\ stop \in Nat
         /\ counters \in [SetNumbers -> 0..MaxBackoff] /\ MaxBackoff \in Nat \ {0}
         /\ bounds \in [SetNumbers -> Nat \ {0}] /\ \A s \in SetNumbers : bounds[s] \in Pauses
         /\ states \in [Buckets -> {0, 1}] /\ avail \in BOOLEAN /\ j \in Buckets
         /\ SetNumbers = 0..NSets - 1
         /\ \A b \in Buckets : b \in Nat
BY MPBQueueAssumption DEF IInv, BackoffBounded, TypeOK, PlacesOK, SetNumbers, Buckets

LEMMA EndOfSet ==
  ASSUME IInv, cpc \in Polls, NextSetOrMiss,
         UNCHANGED <<bucket, into, sent, stop, in_count, stored>>,
         counters' \in [SetNumbers -> 0..MaxBackoff], bounds' \in [SetNumbers -> Nat \ {0}],
         \A s \in SetNumbers : bounds'[s] \in Pauses,
         states' \in [Buckets -> {0, 1}], \A b \in Buckets : ~ Byte(b)',
         missed > 0 \/ avail =>
           \E s \in SetNumbers : \E b \in Buckets :
             /\ b \in InSet(s) /\ ~ EmptyWeak(b) /\ missed <= counters'[s]
             /\ Passed(s) \/ s = Offset => missed + 1 <= counters'[s] /\ counters'[s] < bounds'[s]
  PROVE  IInv'
<1>1. UNCHANGED <<bucket, into, sent>>
  OBVIOUS
<1>2. MissesOK' /\ missed' \in Nat /\ missed' < MaxBackoff /\ avail' \in BOOLEAN /\ (avail' => cpc' \in Polls)
  BY <1>1, MissStep, Zenon
<1>3. /\ i' \in 0..NSets - 1 /\ j' = 0 /\ last' \in Nat
      /\ cpc' = "look" \/ (cpc' = "idle" /\ i' = 0)
  BY NextSetFacts DEF NextSetOrMiss
<1>4. 0 \in Buckets /\ 0 < SetSize
  BY Here
<1>5. TypeOK'
  BY <1>2, <1>3, <1>4, Known DEF TypeOK
<1>6. ItemsOK'
  BY Known DEF ItemsOK
<1>7. PlacesOK'
  BY <1>2, <1>3, <1>4, Known DEF PlacesOK
<1>8. BytesOK'
  BY <1>3, NoBytes
<1> QED
  BY <1>2, <1>5, <1>6, <1>7, <1>8 DEF IInv, BackoffBounded

LEMMA DeqBeginInv ==
  ASSUME IInv, DeqBegin
  PROVE  IInv'
<1>1. /\ cpc = "idle" /\ cpc' = "look"
      /\ UNCHANGED <<bucket, states, counters, bounds, last, into, sent, i, j, stop, in_count,
                     stored, missed>>
  BY DEF DeqBegin, backoffVars, bulkVars, producerVars
<1>2. (avail' <=> \E b \in Buckets : ~ EmptyWeak(b)) /\ avail' \in BOOLEAN
  BY DEF DeqBegin
<1>3. i = 0 /\ j = 0
  BY <1>1 DEF IInv, PlacesOK
<1>4. BackoffBounded' /\ ItemsOK' /\ PlacesOK'
  <2>1. TypeOK'
    BY <1>1, <1>2, Known DEF TypeOK
  <2>2. missed' < MaxBackoff /\ ItemsOK'
    BY <1>1, Known DEF ItemsOK
  <2>3. PlacesOK'
    BY <1>1, <1>3 DEF IInv, PlacesOK, Polls
  <2> QED
    BY <2>1, <2>2, <2>3 DEF BackoffBounded
<1>5. BytesOK'
  <2>1. (\A b : Byte(b)' <=> Byte(b)) /\ OffsetLast' = OffsetLast
    BY <1>1 DEF Byte, OffsetLast
  <2> QED
    BY <1>1, <1>3, <2>1 DEF IInv, BytesOK, InBucket
<1>6. MissesOK'
  <2>1. (\A b : EmptyWeak(b)' <=> EmptyWeak(b)) /\ \A s : ~ Passed(s)'
    BY <1>1, <1>3 DEF EmptyWeak, Linked, Passed
  <2>2. CASE missed > 0
    <3>1. PICK s \in 0..NSets - 1, b \in Buckets : Waiting(s, b)
      BY <2>2 DEF IInv, MissesOK
    <3>2. Waiting(s, b)'
      BY <1>1, <2>1, <3>1 DEF Waiting
    <3> QED
      BY <3>2 DEF MissesOK
  <2>3. CASE ~ (missed > 0)
    <3>1. SUFFICES ASSUME avail' PROVE MissesOK'
      BY <1>1, <2>3 DEF MissesOK
    <3>2. PICK b \in Buckets : ~ EmptyWeak(b)
      BY <1>2, <3>1
    <3>3. PICK s \in SetNumbers : b \in InSet(s)
      BY SomeSet
    <3>4. missed' <= counters'[s]
      BY <1>1, <2>3, Known
    <3>5. Waiting(s, b)'
      BY <1>1, <2>1, <3>2, <3>3, <3>4 DEF Waiting
    <3> QED
      BY <3>5, Known DEF MissesOK
  <2> QED
    BY <2>2, <2>3
<1> QED
  BY <1>4, <1>5, <1>6 DEF IInv

LEMMA LookInv ==
  ASSUME IInv, Look
  PROVE  IInv'
<1>1. /\ cpc = "look" /\ j = 0
      /\ UNCHANGED <<bucket, states, bounds, into, sent, stop, in_count, stored>>
  BY DEF Look, bulkVars, producerVars, IInv, PlacesOK
<1>2. /\ Offset \in SetNumbers /\ This \in Buckets /\ SetSize \in Nat \ {0}
      /\ \A b \in InSet(Offset) : b >= This
  BY <1>1, Here, ThisBucket
<1>3. (\A b : Byte(b)' <=> Byte(b)) /\ (\A b : EmptyWeak(b)' <=> EmptyWeak(b))
  BY <1>1 DEF Byte, EmptyWeak, Linked
<1>4. CASE LooksNonempty(Offset) /\ cpc' = "scan" /\ UNCHANGED <<counters, last, i, j, historyVars>>
  <2>1. UNCHANGED <<counters, last, i, j, avail, missed>> /\ Offset' = Offset /\ This' = This
    BY <1>4 DEF historyVars, Offset, This
  <2>2. BackoffBounded' /\ ItemsOK' /\ PlacesOK'
    <3>1. TypeOK' /\ missed' < MaxBackoff
      BY <1>1, <1>4, <2>1, Known DEF TypeOK
    <3>2. ItemsOK'
      BY <1>1, Known DEF ItemsOK
    <3>3. PlacesOK'
      BY <1>1, <1>4, <2>1 DEF IInv, PlacesOK, Polls
    <3> QED
      BY <3>1, <3>2, <3>3 DEF BackoffBounded
  <2>3. BytesOK'
    <3>1. PICK c \in InSet(Offset) : states[c] = 1
      BY <1>4 DEF LooksNonempty
    <3>2. Byte(c)
      BY <1>2, <3>1, SetFacts DEF Byte
    <3>3. \A b, d \in Buckets : Byte(b) /\ Byte(d) => b = d
      BY DEF IInv, BytesOK
    <3>4. \A b \in Buckets : Byte(b) => b \in InSet(Offset) /\ b >= This
      BY <1>2, <3>1, <3>2, <3>3 DEF Byte
    <3> QED
      BY <1>3, <1>4, <2>1, <3>3, <3>4 DEF BytesOK, InBucket
  <2>4. MissesOK'
    <3>1. ASSUME NEW s, NEW b, Waiting(s, b) PROVE Waiting(s, b)'
      <4>1. Passed(s)' <=> Passed(s)
        BY <1>1, <1>4, <2>1 DEF Passed, Polls
      <4> QED
        BY <1>1, <1>2, <1>3, <2>1, <3>1, <4>1 DEF Waiting
    <3> QED
      BY <2>1, <3>1 DEF IInv, MissesOK
  <2> QED
    BY <2>2, <2>3, <2>4 DEF IInv
<1>5. CASE ~ LooksNonempty(Offset)
  <2>1. counters' = [counters EXCEPT ![Offset] = IF counters[Offset] < MaxBackoff
                                                 THEN counters[Offset] + 1 ELSE counters[Offset]]
    BY <1>5 DEF Look
  <2>2. \/ counters'[Offset] >= bounds[Offset] /\ cpc' = "probe" /\ UNCHANGED <<last, i, j, avail, missed>>
        \/ counters'[Offset] < bounds[Offset] /\ NextSetOrMiss
    BY <1>5 DEF Look, historyVars
  <2>3. \A b \in Buckets : ~ Byte(b)
    <3>1. CASE i > 0
      BY <1>1, <3>1 DEF IInv, BytesOK
    <3>2. CASE ~ (i > 0)
      <4>1. i = 0 /\ Offset = OffsetLast
        BY <3>2, Here
      <4> QED
        BY <1>1, <1>5, <4>1 DEF IInv, BytesOK, LooksNonempty, Byte
    <3> QED
      BY <3>1, <3>2
  <2>4. /\ counters' \in [SetNumbers -> 0..MaxBackoff]
        /\ \A s \in SetNumbers : s # Offset => counters'[s] = counters[s]
        /\ \A s \in SetNumbers : counters[s] \in Nat /\ counters'[s] \in Nat
        /\ counters[Offset] <= counters'[Offset]
        /\ counters[Offset] < MaxBackoff => counters'[Offset] = counters[Offset] + 1
        /\ ~ (counters[Offset] < MaxBackoff) => counters'[Offset] = counters[Offset]
    BY <1>2, <2>1, Known
  <2>5. ASSUME NEW s \in SetNumbers, Passed(s) PROVE s # Offset
    BY <2>5, Here DEF Passed, SetNumbers
  <2>6. CASE counters'[Offset] >= bounds[Offset] /\ cpc' = "probe" /\ UNCHANGED <<last, i, j, avail, missed>>
    <3>1. Offset' = Offset /\ This' = This
      BY <2>6 DEF Offset, This
    <3>2. BackoffBounded' /\ ItemsOK' /\ PlacesOK'
      <4>1. TypeOK' /\ missed' < MaxBackoff
        BY <1>1, <2>4, <2>6, Known DEF TypeOK
      <4>2. ItemsOK'
        BY <1>1, Known DEF ItemsOK
      <4>3. PlacesOK'
        BY <1>1, <2>6 DEF IInv, PlacesOK, Polls
      <4> QED
        BY <4>1, <4>2, <4>3 DEF BackoffBounded
    <3>3. BytesOK'
      BY <1>3, <2>3, <2>6 DEF BytesOK, InBucket
    <3>4. MissesOK'
      <4>1. ASSUME NEW s \in 0..NSets - 1, NEW b, Waiting(s, b) PROVE Waiting(s, b)'
        <5>1. Passed(s)' <=> Passed(s)
          BY <1>1, <2>6 DEF Passed, Polls
        <5>2. missed' <= counters'[s]
          BY <2>4, <2>6, <4>1, Known DEF Waiting
        <5>3. Passed(s) => counters'[s] = counters[s]
          BY <2>4, <2>5, Known
        <5> QED
          BY <1>1, <1>2, <1>3, <2>6, <3>1, <4>1, <5>1, <5>2, <5>3 DEF Waiting
      <4> QED
        BY <2>6, <4>1 DEF IInv, MissesOK
    <3> QED
      BY <3>2, <3>3, <3>4 DEF IInv
  <2>7. CASE counters'[Offset] < bounds[Offset] /\ NextSetOrMiss
    <3>1. counters'[Offset] = counters[Offset] + 1
      <4>1. bounds[Offset] <= MaxBackoff /\ bounds[Offset] \in Nat
        BY <1>2, Known, PauseFacts
      <4> QED
        BY <1>2, <2>4, <2>7, <4>1, Known
    <3>2. missed > 0 \/ avail =>
           \E s \in SetNumbers : \E b \in Buckets :
             /\ b \in InSet(s) /\ ~ EmptyWeak(b) /\ missed <= counters'[s]
             /\ Passed(s) \/ s = Offset => missed + 1 <= counters'[s] /\ counters'[s] < bounds'[s]
      <4>1. SUFFICES ASSUME NEW s \in SetNumbers, NEW b \in Buckets, Waiting(s, b)
            PROVE  /\ b \in InSet(s) /\ ~ EmptyWeak(b) /\ missed <= counters'[s]
                   /\ Passed(s) \/ s = Offset => missed + 1 <= counters'[s] /\ counters'[s] < bounds'[s]
        BY Known DEF IInv, MissesOK
      <4>2. b \in InSet(s) /\ ~ EmptyWeak(b) /\ missed <= counters[s]
        BY <4>1 DEF Waiting
      <4>3. CASE s = Offset
        BY <1>1, <2>4, <2>7, <3>1, <4>2, <4>3, Known
      <4>4. CASE s # Offset
        BY <1>1, <2>4, <4>1, <4>2, <4>4, Known DEF Waiting
      <4> QED
        BY <4>3, <4>4
    <3>3. /\ cpc \in Polls /\ bounds' \in [SetNumbers -> Nat \ {0}]
          /\ \A s \in SetNumbers : bounds'[s] \in Pauses
          /\ states' \in [Buckets -> {0, 1}] /\ \A b \in Buckets : ~ Byte(b)'
      BY <1>1, <1>3, <2>3, Known DEF Polls
    <3>4. NextSetOrMiss /\ UNCHANGED <<bucket, into, sent, stop, in_count, stored>>
      BY <1>1, <2>7
    <3> QED
      BY <2>4, <3>2, <3>3, <3>4, EndOfSet, Zenon
  <2> QED
    BY <2>2, <2>6, <2>7
<1> QED
  BY <1>4, <1>5 DEF Look

LEMMA ProbeInv ==
  ASSUME IInv, Probe
  PROVE  IInv'
<1>1. cpc = "probe" /\ UNCHANGED <<bucket, into, sent, stop, in_count, stored>>
  BY DEF Probe, bulkVars, producerVars
<1>2. /\ Offset \in SetNumbers /\ This \in InSet(Offset) /\ This \in Buckets /\ This \in Nat
      /\ SetSize \in Nat \ {0} /\ Offset * SetSize + (j + 1) = This + 1
      /\ Offset * SetSize \in Nat /\ Offset * SetSize + 0 = Offset * SetSize
      /\ This >= Offset * SetSize
      /\ \A b \in InSet(Offset) : b >= Offset * SetSize /\ b \in Nat
      /\ j + 1 = SetSize => \A b \in InSet(Offset) : b <= This
      /\ \A k \in Nat : k < SetSize => k \in Buckets
  BY <1>1, Here, ThisBucket
<1>3. \A b : EmptyWeak(b)' <=> EmptyWeak(b)
  BY <1>1 DEF EmptyWeak, Linked
<1>4. \A b \in Buckets : ~ Byte(b)
  BY <1>1 DEF IInv, BytesOK
<1>5. CASE /\ ~ EmptyWeak(This) /\ states' = [states EXCEPT ![This] = 1]
           /\ cpc' = "scan" /\ j' = 0 /\ UNCHANGED <<backoffVars, last, i, historyVars>>
  <2>1. UNCHANGED <<counters, bounds, last, i, avail, missed>>
    BY <1>5 DEF backoffVars, historyVars
  <2>2. Offset' = Offset /\ This' = Offset * SetSize
    BY <1>2, <1>5, <2>1 DEF Offset, This
  <2>3. BackoffBounded' /\ ItemsOK' /\ PlacesOK'
    <3>1. states' \in [Buckets -> {0, 1}] /\ j' \in Buckets /\ 0 < SetSize
      BY <1>2, <1>5, Known
    <3>2. TypeOK' /\ missed' < MaxBackoff
      BY <1>1, <1>5, <2>1, <3>1, Known DEF TypeOK
    <3>3. ItemsOK'
      BY <1>1, Known DEF ItemsOK
    <3>4. PlacesOK'
      BY <1>1, <1>5, <2>1, <3>1 DEF IInv, PlacesOK, Polls
    <3> QED
      BY <3>2, <3>3, <3>4 DEF BackoffBounded
  <2>4. BytesOK'
    <3>1. ASSUME NEW b \in Buckets, Byte(b)' PROVE b = This
      BY <1>2, <1>4, <1>5, <3>1, Known DEF Byte
    <3> QED
      BY <1>2, <1>5, <2>2, <3>1 DEF BytesOK, InBucket
  <2>5. MissesOK'
    <3>1. ASSUME NEW s, NEW b, Waiting(s, b) PROVE Waiting(s, b)'
      <4>1. Passed(s)' <=> Passed(s)
        BY <1>1, <1>5, <2>1 DEF Passed, Polls
      <4>2. s = Offset => b >= This'
        BY <1>2, <2>2, <3>1 DEF Waiting
      <4> QED
        BY <1>1, <1>3, <2>1, <2>2, <3>1, <4>1, <4>2 DEF Waiting
    <3> QED
      BY <2>1, <3>1 DEF IInv, MissesOK
  <2> QED
    BY <2>3, <2>4, <2>5 DEF IInv
<1>6. CASE /\ EmptyWeak(This) /\ j + 1 < SetSize /\ j' = j + 1
           /\ UNCHANGED <<states, backoffVars, last, cpc, i, historyVars>>
  <2>1. UNCHANGED <<states, counters, bounds, last, cpc, i, avail, missed>>
    BY <1>6 DEF backoffVars, historyVars
  <2>2. Offset' = Offset /\ This' = This + 1
    BY <1>2, <1>6, <2>1 DEF Offset, This
  <2>3. BackoffBounded' /\ ItemsOK' /\ PlacesOK'
    <3>1. j' \in Buckets /\ j' < SetSize
      BY <1>2, <1>6, Known
    <3>2. TypeOK' /\ missed' < MaxBackoff
      BY <1>1, <1>6, <2>1, <3>1, Known DEF TypeOK
    <3>3. ItemsOK'
      BY <1>1, Known DEF ItemsOK
    <3>4. PlacesOK'
      BY <1>1, <1>6, <2>1, <3>1 DEF IInv, PlacesOK, Polls
    <3> QED
      BY <3>2, <3>3, <3>4 DEF BackoffBounded
  <2>4. BytesOK'
    <3>1. \A b \in Buckets : ~ Byte(b)'
      BY <1>4, <2>1 DEF Byte
    <3> QED
      BY <1>1, <2>1, <3>1 DEF BytesOK, InBucket
  <2>5. MissesOK'
    <3>1. ASSUME NEW s, NEW b, Waiting(s, b) PROVE Waiting(s, b)'
      <4>1. Passed(s)' <=> Passed(s)
        BY <1>1, <1>6, <2>1 DEF Passed, Polls
      <4>2. s = Offset => b >= This'
        <5>1. b # This
          BY <1>6, <3>1 DEF Waiting
        <5>2. s = Offset => b \in Nat /\ b >= This
          BY <1>1, <1>2, <3>1 DEF Waiting
        <5> QED
          BY <1>2, <2>2, <5>1, <5>2
      <4> QED
        BY <1>1, <1>3, <2>1, <2>2, <3>1, <4>1, <4>2 DEF Waiting
    <3> QED
      BY <2>1, <3>1 DEF IInv, MissesOK
  <2> QED
    BY <2>3, <2>4, <2>5 DEF IInv
<1>7. CASE /\ EmptyWeak(This) /\ j + 1 = SetSize
           /\ counters' = [counters EXCEPT ![Offset] = 0]
           /\ bounds' = [bounds EXCEPT ![Offset] = Doubled(bounds[Offset])]
           /\ NextSetOrMiss /\ UNCHANGED states
  <2>1. /\ counters' \in [SetNumbers -> 0..MaxBackoff] /\ bounds' \in [SetNumbers -> Nat \ {0}]
        /\ \A s \in SetNumbers : bounds'[s] \in Pauses
        /\ \A s \in SetNumbers : s # Offset => counters'[s] = counters[s] /\ bounds'[s] = bounds[s]
    <3>1. Doubled(bounds[Offset]) \in Pauses /\ Doubled(bounds[Offset]) \in Nat \ {0}
      BY <1>2, Known, PauseFacts
    <3>2. counters' \in [SetNumbers -> 0..MaxBackoff] /\ bounds' \in [SetNumbers -> Nat \ {0}]
      <4>1. counters \in [SetNumbers -> 0..MaxBackoff] /\ bounds \in [SetNumbers -> Nat \ {0}]
        BY Known
      <4>2. 0 \in 0..MaxBackoff
        BY Known
      <4>3. /\ counters' = [counters EXCEPT ![Offset] = 0]
            /\ bounds' = [bounds EXCEPT ![Offset] = Doubled(bounds[Offset])]
        BY <1>7
      <4> QED
        BY <3>1, <4>1, <4>2, <4>3, Zenon
    <3> QED
      BY <1>2, <1>7, <3>1, <3>2, Known
  <2>2. missed > 0 \/ avail =>
           \E s \in SetNumbers : \E b \in Buckets :
             /\ b \in InSet(s) /\ ~ EmptyWeak(b) /\ missed <= counters'[s]
             /\ Passed(s) \/ s = Offset => missed + 1 <= counters'[s] /\ counters'[s] < bounds'[s]
    <3>1. SUFFICES ASSUME NEW s \in SetNumbers, NEW b \in Buckets, Waiting(s, b)
          PROVE  /\ b \in InSet(s) /\ ~ EmptyWeak(b) /\ missed <= counters'[s]
                 /\ Passed(s) \/ s = Offset => missed + 1 <= counters'[s] /\ counters'[s] < bounds'[s]
      BY Known DEF IInv, MissesOK
    <3>2. s # Offset
      <4>1. b # This
        BY <1>7, <3>1 DEF Waiting
      <4>2. s = Offset => b \in Nat /\ b >= This /\ b <= This
        BY <1>1, <1>2, <1>7, <3>1 DEF Waiting
      <4> QED
        BY <1>2, <4>1, <4>2
    <3> QED
      BY <2>1, <3>1, <3>2 DEF Waiting
  <2>3. /\ cpc \in Polls /\ NextSetOrMiss /\ UNCHANGED <<bucket, into, sent, stop, in_count, stored>>
        /\ states' \in [Buckets -> {0, 1}] /\ \A b \in Buckets : ~ Byte(b)'
    BY <1>1, <1>4, <1>7, Known DEF Polls, Byte
  <2> QED
    BY <2>1, <2>2, <2>3, EndOfSet, Zenon
<1> QED
  BY <1>5, <1>6, <1>7 DEF Probe

LEMMA ScanInv ==
  ASSUME IInv, Scan
  PROVE  IInv'
<1>1. cpc = "scan" /\ UNCHANGED <<counters, bounds, into, sent, stop, in_count, stored>>
  BY DEF Scan, bulkVars, producerVars, backoffVars
<1>2. /\ Offset \in SetNumbers /\ This \in InSet(Offset) /\ This \in Buckets /\ This \in Nat
      /\ SetSize \in Nat \ {0} /\ Offset * SetSize + (j + 1) = This + 1
      /\ \A b \in InSet(Offset) : b \in Nat
      /\ j + 1 = SetSize => \A b \in InSet(Offset) : b <= This
      /\ \A k \in Nat : k < SetSize => k \in Buckets
      /\ 0 < SetSize
  BY <1>1, Here, ThisBucket
<1>3. /\ \A b, c \in Buckets : Byte(b) /\ Byte(c) => b = c
      /\ \A b \in Buckets : Byte(b) => b \in InSet(Offset) /\ b >= This
  BY <1>1 DEF IInv, BytesOK
<1>4. CASE ~ EmptyWeak(This) /\ bucket' = Dequeued(This) /\ ReturnHere /\ Found /\ UNCHANGED states
  <2>1. /\ i' = 0 /\ j' = 0 /\ cpc' = "idle" /\ last' \in Nat
        /\ OffsetLast' = Offset /\ i' \in 0..NSets - 1
    BY <1>4, ReturnFacts
  <2>2. ~ avail' /\ avail' \in BOOLEAN
    BY <1>4, Zenon DEF Found
  <2>3. missed' = 0
    BY <1>4 DEF Found
  <2>4. /\ ItemsOK'
        /\ \A b \in Buckets : \A k \in 1..Len(bucket'[b]) :
             bucket'[b][k] \in Producers \X (1..MaxSent)
    BY <1>1, <1>2, <1>4, TakeFacts
  <2>5. BackoffBounded' /\ PlacesOK'
    <3>1. j' \in Buckets
      BY <1>2, <2>1
    <3>2. TypeOK' /\ missed' < MaxBackoff
      <4>1. missed' < MaxBackoff /\ missed' \in Nat
        BY <2>3, Known
      <4>2. /\ states' \in [Buckets -> {0, 1}]
            /\ counters' \in [0..NSets - 1 -> 0..MaxBackoff]
            /\ bounds' \in [0..NSets - 1 -> Nat \ {0}]
            /\ into' \in [Producers -> Buckets \cup {NULL}] /\ sent' \in [Producers -> 0..MaxSent]
            /\ stop' \in Nat /\ in_count' \in Nat /\ stored' \in Nat
        BY <1>1, <1>4, Known DEF TypeOK
      <4> QED
        BY <2>1, <2>2, <2>4, <3>1, <4>1, <4>2 DEF TypeOK
    <3>3. PlacesOK'
      BY <1>1, <1>2, <2>1, <2>2, Known DEF PlacesOK
    <3> QED
      BY <3>2, <3>3 DEF BackoffBounded
  <2>6. BytesOK'
    <3>1. \A b : Byte(b)' <=> Byte(b)
      BY <1>4 DEF Byte
    <3> QED
      BY <1>3, <2>1, <3>1 DEF BytesOK, InBucket
  <2>7. MissesOK'
    <3>1. ~ (missed' > 0)
      BY <2>3
    <3> QED
      BY <2>2, <3>1, Zenon DEF MissesOK
  <2> QED
    BY <2>4, <2>5, <2>6, <2>7 DEF IInv
<1>5. CASE /\ EmptyWeak(This) /\ states' = [states EXCEPT ![This] = 0] /\ UNCHANGED bucket
  <2>1. /\ states' \in [Buckets -> {0, 1}] /\ \A b \in Buckets : Byte(b)' => Byte(b) /\ b # This
        /\ \A b : EmptyWeak(b)' <=> EmptyWeak(b)
    <3>1. states' \in [Buckets -> {0, 1}]
      BY <1>5, Known
    <3>2. \A b \in Buckets : Byte(b)' => Byte(b) /\ b # This
      BY <1>2, <1>5, Known DEF Byte
    <3> QED
      BY <1>1, <1>5, <3>1, <3>2 DEF EmptyWeak, Linked
  <2>2. CASE j + 1 < SetSize /\ j' = j + 1 /\ UNCHANGED <<last, cpc, i, historyVars>>
    <3>1. UNCHANGED <<last, cpc, i, avail, missed>>
      BY <2>2 DEF historyVars
    <3>2. Offset' = Offset /\ This' = This + 1
      BY <1>2, <2>2, <3>1 DEF Offset, This
    <3>3. BackoffBounded' /\ ItemsOK' /\ PlacesOK'
      <4>1. j' \in Buckets /\ j' < SetSize
        BY <1>2, <2>2, Known
      <4>2. TypeOK' /\ missed' < MaxBackoff
        BY <1>1, <1>5, <2>1, <3>1, <4>1, Known DEF TypeOK
      <4>3. ItemsOK'
        BY <1>1, <1>5, Known DEF ItemsOK
      <4>4. PlacesOK'
        BY <1>1, <2>2, <3>1, <4>1 DEF IInv, PlacesOK, Polls
      <4> QED
        BY <4>2, <4>3, <4>4 DEF BackoffBounded
    <3>4. BytesOK'
      <4>1. ASSUME NEW b \in Buckets, Byte(b)' PROVE b \in InSet(Offset) /\ b >= This + 1
        <5>1. b \in InSet(Offset) /\ b >= This /\ b # This /\ b \in Nat
          BY <1>2, <1>3, <2>1, <4>1
        <5> QED
          BY <1>2, <5>1
      <4> QED
        BY <1>1, <1>3, <2>1, <3>1, <3>2, <4>1 DEF BytesOK, InBucket
    <3>5. MissesOK'
      <4>1. ASSUME NEW s, NEW b, Waiting(s, b) PROVE Waiting(s, b)'
        <5>1. Passed(s)' <=> Passed(s)
          BY <1>1, <3>1 DEF Passed, Polls
        <5>2. s = Offset => b >= This'
          <6>1. b # This
            BY <1>5, <4>1 DEF Waiting
          <6>2. s = Offset => b \in Nat /\ b >= This
            BY <1>1, <1>2, <4>1 DEF Waiting
          <6> QED
            BY <1>2, <3>2, <6>1, <6>2
        <5> QED
          BY <1>1, <2>1, <3>1, <3>2, <4>1, <5>1, <5>2 DEF Waiting
      <4> QED
        BY <3>1, <4>1 DEF IInv, MissesOK
    <3> QED
      BY <3>3, <3>4, <3>5 DEF IInv
  <2>3. CASE ~ (j + 1 < SetSize) /\ NextSetOrMiss
    <3>1. j + 1 = SetSize
      BY <1>1, <1>2, <2>3, Known DEF IInv, PlacesOK
    <3>2. \A b \in Buckets : ~ Byte(b)'
      <4>1. ASSUME NEW b \in Buckets, Byte(b)' PROVE FALSE
        <5>1. b \in Nat /\ b <= This /\ b >= This /\ b # This
          BY <1>2, <1>3, <2>1, <3>1, <4>1
        <5> QED
          BY <1>2, <5>1
      <4> QED
        BY <4>1
    <3>3. missed > 0 \/ avail =>
           \E s \in SetNumbers : \E b \in Buckets :
             /\ b \in InSet(s) /\ ~ EmptyWeak(b) /\ missed <= counters'[s]
             /\ Passed(s) \/ s = Offset => missed + 1 <= counters'[s] /\ counters'[s] < bounds'[s]
      <4>1. SUFFICES ASSUME NEW s \in SetNumbers, NEW b \in Buckets, Waiting(s, b)
            PROVE  /\ b \in InSet(s) /\ ~ EmptyWeak(b) /\ missed <= counters'[s]
                   /\ Passed(s) \/ s = Offset => missed + 1 <= counters'[s] /\ counters'[s] < bounds'[s]
        BY Known DEF IInv, MissesOK
      <4>2. s # Offset
        <5>1. b # This
          BY <1>5, <4>1 DEF Waiting
        <5>2. s = Offset => b \in Nat /\ b >= This /\ b <= This
          BY <1>1, <1>2, <3>1, <4>1 DEF Waiting
        <5> QED
          BY <1>2, <5>1, <5>2
      <4> QED
        BY <1>1, <4>1, <4>2 DEF Waiting
    <3>4. /\ cpc \in Polls /\ NextSetOrMiss /\ UNCHANGED <<bucket, into, sent, stop, in_count, stored>>
          /\ counters' \in [SetNumbers -> 0..MaxBackoff] /\ bounds' \in [SetNumbers -> Nat \ {0}]
          /\ \A s \in SetNumbers : bounds'[s] \in Pauses
      BY <1>1, <1>5, <2>3, Known DEF Polls
    <3> QED
      BY <2>1, <3>2, <3>3, <3>4, EndOfSet, Zenon
  <2> QED
    BY <1>1, <1>5, <2>2, <2>3, <1>4 DEF Scan
<1> QED
  BY <1>4, <1>5 DEF Scan

-----------------------------------------------------------------------------
(* zm_mpbqueue_dequeue_bulk and zm_mpbqueue_dequeue_range: no dequeue is   *)
(* under way, and an element they take ends the row of misses.             *)
LEMMA OtherCalls ==
  ASSUME IInv, cpc \notin Polls, cpc' \notin Polls,
         UNCHANGED <<counters, bounds, into, sent, avail>>,
         (bucket' = bucket /\ missed' = missed) \/ missed' = 0
  PROVE  /\ MissesOK' /\ missed' \in Nat /\ missed' < MaxBackoff
         /\ avail' \in BOOLEAN /\ (avail' => cpc' \in Polls)
<1>1. ~ avail
  BY DEF IInv, PlacesOK
<1>2. ~ avail' /\ avail' \in BOOLEAN
  <2>1. avail' = avail
    OBVIOUS
  <2>2. avail \in BOOLEAN
    BY Known
  <2>3. ~ avail'
    BY <1>1, <2>1, <2>2, SMT
  <2>4. avail' \in BOOLEAN
    BY <2>1, <2>2, Zenon
  <2> QED
    BY <2>3, <2>4
<1>3. missed' \in Nat /\ missed' < MaxBackoff
  BY Known
<1>4. MissesOK'
  <2>1. CASE missed' = 0
    <3>1. ~ (missed' > 0)
      BY <2>1
    <3> QED
      BY <1>2, <3>1, Zenon DEF MissesOK
  <2>2. CASE missed' # 0
    <3>1. bucket' = bucket /\ missed' = missed /\ missed > 0
      BY <2>2, Known
    <3>2. PICK s \in 0..NSets - 1, b \in Buckets : Waiting(s, b)
      BY <3>1 DEF IInv, MissesOK
    <3>3. EmptyWeak(b)' <=> EmptyWeak(b)
      BY <3>1 DEF EmptyWeak, Linked
    <3>4. ~ Passed(s)' /\ cpc' \notin {"probe", "scan"}
      BY DEF Passed, Polls
    <3>5. Waiting(s, b)'
      BY <3>1, <3>2, <3>3, <3>4 DEF Waiting
    <3> QED
      BY <3>5 DEF MissesOK
  <2> QED
    BY <2>1, <2>2
<1> QED
  BY <1>2, <1>3, <1>4, Zenon

BulkPlaces == {"b_set", "b_scan"} \cup InBucket

(* The bytes at the end of a turn of the bulk loop: only those that are    *)
(* left behind it when it has stored an element.                           *)
LEMMA NextSetBytes ==
  ASSUME IInv, cpc \in BulkPlaces, BulkNextSet, \A b \in Buckets : Byte(b)' => Byte(b)
  PROVE  /\ BytesOK' /\ cpc' \in {"b_set", "idle"} /\ j' = 0 /\ i' \in 0..NSets - 1
         /\ (cpc' = "idle" => i' = 0) /\ last' \in Nat
         /\ stop' \in Nat /\ in_count' \in Nat /\ stored' \in Nat
<1>1. i \in Nat /\ stored \in Nat /\ stop \in Nat /\ in_count \in Nat
  BY Known DEF TypeOK
<1>2. /\ i' \in 0..NSets - 1 /\ j' = 0 /\ last' \in Nat /\ OffsetLast' = OffsetLast
      /\ i + 1 < NSets => i' = i + 1 /\ cpc' = "b_set" /\ last' = last
      /\ ~ (i + 1 < NSets) => i' = 0 /\ cpc' = "idle"
  BY NextSetFacts DEF BulkNextSet
<1>3. i + 1 < NSets => UNCHANGED <<stop, in_count, stored>>
  BY DEF BulkNextSet, bulkVars
<1>4. ~ (i + 1 < NSets) => stop' = 0 /\ in_count' = 0 /\ stored' = 0
  BY DEF BulkNextSet, LocalsEnd
<1>5. /\ \A b, c \in Buckets : Byte(b) /\ Byte(c) => b = c
      /\ \A b \in Buckets : Byte(b) => b \in InSet(OffsetLast)
      /\ stored <= 1
  BY <1>1 DEF IInv, BytesOK, BulkPlaces, InBucket
<1>6. BytesOK'
  <2>1. \A b, c \in Buckets : Byte(b)' /\ Byte(c)' => b = c
    BY <1>5
  <2>2. \A b \in Buckets : Byte(b)' => b \in InSet(OffsetLast)'
    BY <1>2, <1>5 DEF InSet
  <2>3. CASE i + 1 < NSets
    <3>1. i' # 0 /\ stored' <= 1 /\ cpc' = "b_set"
      BY <1>1, <1>2, <1>3, <1>5, <2>3
    <3> QED
      BY <2>1, <2>2, <3>1 DEF BytesOK, InBucket
  <2>4. CASE ~ (i + 1 < NSets)
    BY <1>2, <2>1, <2>2, <2>4 DEF BytesOK, InBucket
  <2> QED
    BY <2>3, <2>4
<1> QED
  BY <1>1, <1>2, <1>3, <1>4, <1>6

LEMMA NextBytes ==
  ASSUME IInv, cpc \in {"b_scan"} \cup InBucket, BulkNext, \A b \in Buckets : Byte(b)' => Byte(b),
         stored = 0 \/ (stored = 1 /\ \A b \in Buckets : Byte(b)' => b <= This)
  PROVE  /\ BytesOK' /\ cpc' \in {"b_set", "b_scan", "idle"} /\ j' \in Buckets /\ j' < SetSize
         /\ i' \in 0..NSets - 1 /\ (cpc' = "idle" => i' = 0) /\ last' \in Nat
         /\ (cpc' \in {"idle", "b_set"} => j' = 0)
         /\ stop' \in Nat /\ in_count' \in Nat /\ stored' \in Nat
<1>1. /\ SetSize \in Nat \ {0} /\ \A k \in Nat : k < SetSize => k \in Buckets
      /\ Offset * SetSize + (j + 1) = This + 1 /\ This \in Nat /\ j \in Nat
      /\ \A b \in Buckets : b \in Nat
  BY Here, ThisBucket, Known DEF InBucket
<1>2. i = 0 /\ i \in 0..NSets - 1
  BY Known DEF IInv, BytesOK, TypeOK
<1>3. CASE j + 1 < SetSize /\ j' = j + 1 /\ cpc' = "b_scan" /\ UNCHANGED <<last, i, bulkVars>>
  <2>1. UNCHANGED <<last, i, stop, in_count, stored>>
    BY <1>3 DEF bulkVars
  <2>2. OffsetLast' = OffsetLast /\ This' = This + 1
    BY <1>1, <1>3, <2>1 DEF OffsetLast, Offset, This
  <2>3. /\ \A b, c \in Buckets : Byte(b)' /\ Byte(c)' => b = c
        /\ \A b \in Buckets : Byte(b)' => b \in InSet(OffsetLast)'
    BY <2>2 DEF IInv, BytesOK, InBucket, InSet
  <2>4. stored' = 0 \/ (stored' = 1 /\ \A b \in Buckets : Byte(b)' => b < This')
    <3>1. \A b \in Buckets : b <= This => b < This + 1
      BY <1>1
    <3> QED
      BY <2>1, <2>2, <3>1
  <2>5. BytesOK'
    BY <1>2, <1>3, <2>1, <2>3, <2>4 DEF BytesOK, InBucket
  <2> QED
    BY <1>1, <1>2, <1>3, <2>1, <2>5, Known DEF TypeOK
<1>4. CASE j + 1 = SetSize /\ BulkNextSet
  <2>1. cpc \in BulkPlaces /\ 0 < SetSize /\ 0 \in Buckets
    BY <1>1 DEF BulkPlaces
  <2>2. /\ BytesOK' /\ cpc' \in {"b_set", "idle"} /\ j' = 0 /\ i' \in 0..NSets - 1
        /\ (cpc' = "idle" => i' = 0) /\ last' \in Nat
        /\ stop' \in Nat /\ in_count' \in Nat /\ stored' \in Nat
    BY <1>4, <2>1, NextSetBytes
  <2> QED
    BY <2>1, <2>2
<1> QED
  BY <1>3, <1>4 DEF BulkNext

LEMMA LimitBytes ==
  ASSUME IInv, cpc \in InBucket, BulkLimit, \A b \in Buckets : Byte(b)' => Byte(b)
  PROVE  /\ BytesOK' /\ cpc' \in {"b_set", "b_scan", "idle"} /\ j' \in Buckets /\ j' < SetSize
         /\ i' \in 0..NSets - 1 /\ (cpc' = "idle" => i' = 0) /\ last' \in Nat
         /\ (cpc' \in {"idle", "b_set"} => j' = 0)
         /\ stop' \in Nat /\ in_count' \in Nat /\ stored' \in Nat
<1>1. /\ stored = 1 /\ Byte(This) /\ i = 0
      /\ \A b, c \in Buckets : Byte(b) /\ Byte(c) => b = c
      /\ \A b \in Buckets : Byte(b) => b \in InSet(OffsetLast)
  BY DEF IInv, BytesOK
<1>2. This \in Nat /\ This \in Buckets
  BY ThisBucket DEF InBucket
<1>3. CASE ReturnHere /\ LocalsEnd
  <2>1. /\ i' = 0 /\ j' = 0 /\ cpc' = "idle" /\ last' \in Nat
        /\ OffsetLast' = Offset /\ i' \in 0..NSets - 1
    BY <1>3, ReturnFacts
  <2>2. Offset = OffsetLast /\ 0 < SetSize /\ 0 \in Buckets
    BY <1>1, Here
  <2>3. /\ \A b, c \in Buckets : Byte(b)' /\ Byte(c)' => b = c
        /\ \A b \in Buckets : Byte(b)' => b \in InSet(OffsetLast)'
    BY <1>1, <2>1, <2>2 DEF InSet
  <2>4. BytesOK'
    BY <2>1, <2>3 DEF BytesOK, InBucket
  <2>5. stop' \in Nat /\ in_count' \in Nat /\ stored' \in Nat
    BY <1>3 DEF LocalsEnd
  <2> QED
    BY <2>1, <2>2, <2>4, <2>5
<1>4. CASE BulkNext
  <2>1. cpc \in {"b_scan"} \cup InBucket
    OBVIOUS
  <2>2. \A b \in Buckets : Byte(b)' => b <= This
    <3>1. This <= This
      BY <1>2
    <3> QED
      BY <1>1, <1>2, <3>1
  <2> QED
    BY <1>1, <1>4, <2>1, <2>2, NextBytes
<1> QED
  BY <1>3, <1>4 DEF BulkLimit

(* What is left of the invariant when the bytes and the misses are right.  *)
LEMMA BulkFrame ==
  ASSUME IInv, UNCHANGED <<counters, bounds, into, sent, avail>>,
         cpc \notin Polls, cpc' \in BulkPlaces \cup {"idle"},
         (bucket' = bucket /\ missed' = missed) \/ missed' = 0,
         bucket' = bucket \/ \E d \in Buckets : bucket' = Dequeued(d),
         states' \in [Buckets -> {0, 1}], BytesOK',
         j' \in Buckets, j' < SetSize, i' \in 0..NSets - 1, last' \in Nat,
         cpc' = "idle" => i' = 0, cpc' \in {"idle", "b_set"} => j' = 0,
         stop' \in Nat, in_count' \in Nat, stored' \in Nat
  PROVE  IInv'
<1>1. /\ ItemsOK'
      /\ \A b \in Buckets : \A k \in 1..Len(bucket'[b]) :
           bucket'[b][k] \in Producers \X (1..MaxSent)
  <2>1. CASE bucket' = bucket
    BY <2>1, Known DEF TypeOK, ItemsOK
  <2>2. ASSUME NEW d \in Buckets, bucket' = Dequeued(d) PROVE <1>1!1 /\ <1>1!2
    BY <2>2, TakeFacts
  <2> QED
    BY <2>1, <2>2
<1>2. cpc' \notin Polls
  BY DEF BulkPlaces, InBucket, Polls
<1>3. /\ MissesOK' /\ missed' \in Nat /\ missed' < MaxBackoff
      /\ avail' \in BOOLEAN /\ (avail' => cpc' \in Polls)
  BY <1>2, OtherCalls
<1>4. TypeOK'
  <2>1. cpc' \in {"idle", "look", "probe", "scan", "b_set", "b_scan", "b_weak",
                  "b_strong", "b_next", "range"}
    BY DEF BulkPlaces, InBucket
  <2> QED
    BY <1>1, <1>3, <2>1, Known DEF TypeOK
<1>5. PlacesOK'
  BY <1>3, Known DEF PlacesOK, BulkPlaces, InBucket
<1> QED
  BY <1>1, <1>3, <1>4, <1>5 DEF IInv, BackoffBounded

LEMMA BulkBeginInv ==
  ASSUME IInv, NEW n \in InCounts, BulkBegin(n)
  PROVE  IInv'
<1>1. /\ cpc = "idle" /\ cpc' = "b_set" /\ in_count' = n /\ stored' = 0
      /\ UNCHANGED <<bucket, states, counters, bounds, last, into, sent, i, j, stop, avail, missed>>
  BY DEF BulkBegin, backoffVars, producerVars, historyVars
<1>2. n \in Nat /\ 0 < SetSize /\ j = 0 /\ i = 0 /\ i \in 0..NSets - 1
  BY <1>1, MPBQueueAssumption DEF IInv, PlacesOK, BackoffBounded, TypeOK
<1>3. (\A b : Byte(b)' <=> Byte(b)) /\ OffsetLast' = OffsetLast
  BY <1>1 DEF Byte, OffsetLast
<1>4. BytesOK'
  BY <1>1, <1>3 DEF IInv, BytesOK, InBucket
<1> QED
  BY <1>1, <1>2, <1>4, BulkFrame, Known DEF BulkPlaces, Polls

LEMMA BulkSetInv ==
  ASSUME IInv, BulkSet
  PROVE  IInv'
<1>1. /\ cpc = "b_set" /\ UNCHANGED <<bucket, states, counters, bounds, into, sent, avail, missed>>
  BY DEF BulkSet, backoffVars, producerVars, historyVars
<1>2. /\ cpc \in BulkPlaces /\ cpc \notin Polls /\ j = 0 /\ 0 < SetSize /\ 0 \in Buckets
      /\ states' \in [Buckets -> {0, 1}] /\ i \in 0..NSets - 1
  BY <1>1, Here, Known DEF BulkPlaces, Polls, IInv, PlacesOK, TypeOK
<1>3. \A b : Byte(b)' <=> Byte(b)
  BY <1>1 DEF Byte
<1>4. CASE LooksNonempty(Offset) /\ cpc' = "b_scan" /\ UNCHANGED <<last, i, j, bulkVars>>
  <2>1. UNCHANGED <<last, i, j, stop, in_count, stored>>
    BY <1>4 DEF bulkVars
  <2>2. /\ \A b, c \in Buckets : Byte(b) /\ Byte(c) => b = c
        /\ \A b \in Buckets : Byte(b) => b \in InSet(OffsetLast)
        /\ i = 0 => stored = 0
    BY <1>1 DEF IInv, BytesOK
  <2>3. i = 0
    <3>1. PICK c \in InSet(Offset) : states[c] = 1
      BY <1>4 DEF LooksNonempty
    <3>2. Offset \in SetNumbers /\ OffsetLast \in SetNumbers /\ last \in Nat
      BY Here, Known
    <3>3. c \in InSet(OffsetLast)
      BY <2>2, <3>1, <3>2, SetFacts DEF Byte
    <3>4. Offset = OffsetLast
      BY <3>1, <3>2, <3>3, OneSet
    <3>5. 0 \in SetNumbers /\ (last + 0) % NSets = Offset
      BY <3>2, <3>4, Around, Here DEF OffsetLast, SetNumbers
    <3> QED
      BY <3>5, Here
  <2>4. BytesOK'
    <3>1. OffsetLast' = OffsetLast
      BY <2>1 DEF OffsetLast
    <3> QED
      BY <1>3, <1>4, <2>1, <2>2, <2>3, <3>1 DEF BytesOK, InBucket
  <2>5. cpc' \in BulkPlaces \cup {"idle"} /\ cpc' \notin {"idle", "b_set"}
    BY <1>4 DEF BulkPlaces
  <2> QED
    BY <1>1, <1>2, <2>1, <2>4, <2>5, BulkFrame, Known DEF TypeOK
<1>5. CASE BulkNextSet
  <2>1. /\ BytesOK' /\ cpc' \in {"b_set", "idle"} /\ j' = 0 /\ i' \in 0..NSets - 1
        /\ (cpc' = "idle" => i' = 0) /\ last' \in Nat
        /\ stop' \in Nat /\ in_count' \in Nat /\ stored' \in Nat
    BY <1>2, <1>3, <1>5, NextSetBytes
  <2>2. cpc' \in BulkPlaces \cup {"idle"}
    BY <2>1 DEF BulkPlaces
  <2> QED
    BY <1>1, <1>2, <2>1, <2>2, BulkFrame
<1> QED
  BY <1>4, <1>5 DEF BulkSet

LEMMA BulkScanInv ==
  ASSUME IInv, BulkScan
  PROVE  IInv'
<1>1. cpc = "b_scan" /\ UNCHANGED <<states, counters, bounds, into, sent, avail>>
  BY DEF BulkScan, backoffVars, producerVars
<1>2. /\ cpc \in BulkPlaces /\ cpc \notin Polls /\ This \in Buckets /\ This \in Nat
      /\ states' \in [Buckets -> {0, 1}] /\ i = 0 /\ i \in 0..NSets - 1 /\ j < SetSize
      /\ \A b \in Buckets : b \in Nat
  BY <1>1, ThisBucket, Known DEF BulkPlaces, Polls, IInv, PlacesOK, BytesOK, TypeOK
<1>3. \A b : Byte(b)' <=> Byte(b)
  BY <1>1 DEF Byte
<1>4. /\ \A b, c \in Buckets : Byte(b) /\ Byte(c) => b = c
      /\ \A b \in Buckets : Byte(b) => b \in InSet(OffsetLast)
      /\ stored = 0 \/ (stored = 1 /\ \A b \in Buckets : Byte(b) => b < This)
  BY <1>1 DEF IInv, BytesOK
<1>5. CASE /\ states[This] = 1 /\ bucket' = Dequeued(This) /\ stored' = stored + 1
           /\ missed' = IF EmptyWeak(This) THEN missed ELSE 0
           /\ cpc' = "b_weak" /\ UNCHANGED <<last, i, j, stop, in_count>>
  <2>1. (bucket' = bucket /\ missed' = missed) \/ missed' = 0
    BY <1>1, <1>2, <1>5, TakeFacts
  <2>2. Byte(This)
    BY <1>2, <1>5 DEF Byte
  <2>3. stored = 0
    <3>1. ~ (This < This)
      BY <1>2
    <3> QED
      BY <1>2, <1>4, <2>2, <3>1
  <2>4. BytesOK'
    <3>1. OffsetLast' = OffsetLast /\ This' = This
      BY <1>5 DEF OffsetLast, This, Offset
    <3>2. stored' = 1 /\ Byte(This)'
      BY <1>3, <1>5, <2>2, <2>3, <3>1 DEF Byte
    <3>3. /\ \A b, c \in Buckets : Byte(b)' /\ Byte(c)' => b = c
          /\ \A b \in Buckets : Byte(b)' => b \in InSet(OffsetLast)'
      BY <1>3, <1>4, <3>1 DEF InSet
    <3> QED
      BY <1>2, <1>5, <3>2, <3>3 DEF BytesOK, InBucket
  <2>5. cpc' \in BulkPlaces \cup {"idle"} /\ cpc' \notin {"idle", "b_set"} /\ stored' \in Nat
    BY <1>5, <2>3 DEF BulkPlaces, InBucket
  <2>6. /\ j' \in Buckets /\ j' < SetSize /\ i' \in 0..NSets - 1 /\ last' \in Nat
        /\ stop' \in Nat /\ in_count' \in Nat
    BY <1>2, <1>5, Known DEF TypeOK
  <2>7. \E d \in Buckets : bucket' = Dequeued(d)
    BY <1>2, <1>5
  <2> QED
    BY <1>1, <1>2, <2>1, <2>4, <2>5, <2>6, <2>7, BulkFrame
<1>6. CASE states[This] = 0 /\ BulkNext /\ UNCHANGED <<bucket, missed>>
  <2>1. stored = 0 \/ (stored = 1 /\ \A b \in Buckets : Byte(b)' => b <= This)
    <3>1. \A b \in Buckets : b < This => b <= This
      BY <1>2
    <3> QED
      BY <1>3, <1>4, <3>1
  <2>2. cpc \in {"b_scan"} \cup InBucket
    BY <1>1
  <2>3. /\ BytesOK' /\ cpc' \in {"b_set", "b_scan", "idle"} /\ j' \in Buckets /\ j' < SetSize
        /\ i' \in 0..NSets - 1 /\ (cpc' = "idle" => i' = 0) /\ last' \in Nat
        /\ (cpc' \in {"idle", "b_set"} => j' = 0)
        /\ stop' \in Nat /\ in_count' \in Nat /\ stored' \in Nat
    BY <1>3, <1>6, <2>1, <2>2, NextBytes
  <2>4. cpc' \in BulkPlaces \cup {"idle"}
    BY <2>3 DEF BulkPlaces
  <2> QED
    BY <1>1, <1>2, <1>6, <2>3, <2>4, BulkFrame
<1> QED
  BY <1>5, <1>6 DEF BulkScan

(* The end of a turn of the bulk loop, which the next three share.         *)
LEMMA LimitInv ==
  ASSUME IInv, cpc \in InBucket, BulkLimit, \A b \in Buckets : Byte(b)' => Byte(b),
         states' \in [Buckets -> {0, 1}],
         UNCHANGED <<bucket, counters, bounds, into, sent, avail, missed>>
  PROVE  IInv'
<1>1. /\ BytesOK' /\ cpc' \in {"b_set", "b_scan", "idle"} /\ j' \in Buckets /\ j' < SetSize
      /\ i' \in 0..NSets - 1 /\ (cpc' = "idle" => i' = 0) /\ last' \in Nat
      /\ (cpc' \in {"idle", "b_set"} => j' = 0)
      /\ stop' \in Nat /\ in_count' \in Nat /\ stored' \in Nat
  BY LimitBytes
<1>2. cpc' \in BulkPlaces \cup {"idle"} /\ cpc \notin Polls
  BY <1>1 DEF BulkPlaces, Polls, InBucket
<1> QED
  BY <1>1, <1>2, BulkFrame

LEMMA AnotherLook ==
  ASSUME IInv, cpc \in InBucket, cpc' \in InBucket,
         UNCHANGED <<bucket, states, counters, bounds, into, sent, last, i, j, stop, in_count,
                     stored, avail, missed>>
  PROVE  IInv'
<1>1. /\ j \in Buckets /\ j < SetSize /\ i \in 0..NSets - 1 /\ last \in Nat
      /\ stop \in Nat /\ in_count \in Nat /\ stored \in Nat /\ states \in [Buckets -> {0, 1}]
  BY Known DEF TypeOK, IInv, PlacesOK, InBucket
<1>2. cpc' \in BulkPlaces \cup {"idle"} /\ cpc' \notin {"idle", "b_set"} /\ cpc \notin Polls
  BY DEF BulkPlaces, Polls, InBucket
<1>3. BytesOK'
  <2>1. (\A b : Byte(b)' <=> Byte(b)) /\ OffsetLast' = OffsetLast /\ This' = This
    BY DEF Byte, OffsetLast, Offset, This
  <2> QED
    BY <2>1 DEF IInv, BytesOK, InBucket
<1> QED
  BY <1>1, <1>2, <1>3, BulkFrame

LEMMA BulkWeakInv ==
  ASSUME IInv, BulkWeak \/ BulkStrong
  PROVE  IInv'
<1>1. /\ cpc \in InBucket
      /\ UNCHANGED <<bucket, states, counters, bounds, into, sent, avail, missed>>
  BY DEF BulkWeak, BulkStrong, InBucket, backoffVars, producerVars, historyVars
<1>2. (\A b \in Buckets : Byte(b)' => Byte(b)) /\ states' \in [Buckets -> {0, 1}]
  BY <1>1, Known DEF Byte
<1>3. CASE cpc' \in {"b_strong", "b_next"} /\ UNCHANGED <<last, i, j, bulkVars>>
  BY <1>1, <1>3, AnotherLook DEF InBucket, bulkVars
<1>4. CASE BulkLimit
  BY <1>1, <1>2, <1>4, LimitInv
<1> QED
  BY <1>3, <1>4 DEF BulkWeak, BulkStrong

LEMMA BulkMarkInv ==
  ASSUME IInv, BulkMark
  PROVE  IInv'
<1>1. /\ cpc \in InBucket /\ BulkLimit
      /\ UNCHANGED <<bucket, counters, bounds, into, sent, avail, missed>>
      /\ states' = IF EmptyWeak(This) THEN [states EXCEPT ![This] = 0] ELSE states
  BY DEF BulkMark, InBucket, backoffVars, producerVars, historyVars
<1>2. This \in Buckets
  BY <1>1, ThisBucket DEF InBucket
<1>3. (\A b \in Buckets : Byte(b)' => Byte(b)) /\ states' \in [Buckets -> {0, 1}]
  <2>1. CASE states' = states
    BY <2>1, Known DEF Byte
  <2>2. CASE states' = [states EXCEPT ![This] = 0]
    BY <1>2, <2>2, Known DEF Byte
  <2> QED
    BY <1>1, <2>1, <2>2
<1> QED
  BY <1>1, <1>3, LimitInv

(* The calls over a range touch neither bytes nor counters.                *)
LEMMA RangeFrame ==
  ASSUME IInv, UNCHANGED <<states, counters, bounds, into, sent, last, i, avail>>,
         cpc \in {"idle", "range"}, cpc' \in {"idle", "range"},
         (bucket' = bucket /\ missed' = missed) \/ missed' = 0,
         bucket' = bucket \/ \E d \in Buckets : bucket' = Dequeued(d),
         j' \in Buckets, cpc' = "idle" => j' = 0,
         cpc' = "range" => j' < stop' /\ stop' <= NSets * SetSize,
         stop' \in Nat, in_count' \in Nat, stored' \in Nat
  PROVE  IInv'
<1>1. /\ ItemsOK'
      /\ \A b \in Buckets : \A k \in 1..Len(bucket'[b]) :
           bucket'[b][k] \in Producers \X (1..MaxSent)
  <2>1. CASE bucket' = bucket
    BY <2>1, Known DEF TypeOK, ItemsOK
  <2>2. ASSUME NEW d \in Buckets, bucket' = Dequeued(d) PROVE <1>1!1 /\ <1>1!2
    BY <2>2, TakeFacts
  <2> QED
    BY <2>1, <2>2
<1>2. cpc \notin Polls /\ cpc' \notin Polls
  BY DEF Polls
<1>3. /\ MissesOK' /\ missed' \in Nat /\ missed' < MaxBackoff
      /\ avail' \in BOOLEAN /\ (avail' => cpc' \in Polls)
  BY <1>2, OtherCalls
<1>4. i = 0 /\ 0 < SetSize
  BY Here DEF IInv, PlacesOK
<1>5. TypeOK'
  BY <1>1, <1>3, Known DEF TypeOK
<1>6. PlacesOK'
  BY <1>3, <1>4, Known DEF PlacesOK
<1>7. BytesOK'
  <2>1. (\A b : Byte(b)' <=> Byte(b)) /\ OffsetLast' = OffsetLast
    BY DEF Byte, OffsetLast
  <2> QED
    BY <2>1 DEF IInv, BytesOK, InBucket
<1> QED
  BY <1>1, <1>3, <1>5, <1>6, <1>7 DEF IInv, BackoffBounded

LEMMA RangeInv ==
  ASSUME IInv, DequeueRange
  PROVE  IInv'
<1>1. NSets * SetSize \in Nat /\ \A b : b \in Buckets <=> b \in Nat /\ b < NSets * SetSize
  <2>1. NSets * SetSize \in Nat
    BY MPBQueueAssumption
  <2> DEFINE x == NSets * SetSize
  <2> HIDE DEF x
  <2>2. x \in Nat
    BY <2>1 DEF x
  <2>3. \A b : b \in 0..x - 1 <=> b \in Nat /\ b < x
    BY <2>2
  <2> QED
    BY <2>1, <2>3, Zenon DEF Buckets, x
<1>2. CASE \E first \in Buckets, end \in 1..NSets * SetSize, n \in InCounts : RangeBegin(first, end, n)
  <2>1. PICK first \in Buckets, end \in 1..NSets * SetSize, n \in InCounts : RangeBegin(first, end, n)
    BY <1>2
  <2>2. /\ cpc = "idle" /\ cpc' = "range" /\ j' = first /\ stop' = end /\ first < end
        /\ in_count' = n /\ stored' = 0
        /\ UNCHANGED <<bucket, states, counters, bounds, last, into, sent, i, avail, missed>>
    BY <2>1 DEF RangeBegin, backoffVars, producerVars, historyVars
  <2>3. n \in Nat /\ end \in Nat /\ end <= NSets * SetSize
    BY <1>1, MPBQueueAssumption
  <2>4. stop' \in Nat /\ in_count' \in Nat /\ stored' \in Nat /\ j' \in Buckets
    BY <2>2, <2>3
  <2> QED
    BY <2>2, <2>3, <2>4, RangeFrame
<1>3. CASE Range
  <2>1. /\ cpc = "range" /\ bucket' = Dequeued(j)
        /\ missed' = IF ~ EmptyWeak(j) THEN 0 ELSE missed
        /\ UNCHANGED <<states, counters, bounds, last, into, sent, i, avail>>
        /\ \/ cpc' = "idle" /\ j' = 0 /\ stop' = 0 /\ in_count' = 0 /\ stored' = 0
           \/ /\ j + 1 < stop /\ j' = j + 1 /\ UNCHANGED <<cpc, stop, in_count>>
              /\ stored' = IF ~ EmptyWeak(j) THEN stored + 1 ELSE stored
    BY <1>3 DEF Range, LocalsEnd, backoffVars, producerVars
  <2>2. j \in Buckets /\ j \in Nat /\ stop \in Nat /\ stored \in Nat /\ in_count \in Nat /\ stop <= NSets * SetSize
    BY <2>1, Known DEF IInv, PlacesOK, TypeOK
  <2>3. (bucket' = bucket /\ missed' = missed) \/ missed' = 0
    BY <2>1, <2>2, TakeFacts
  <2>4. \E d \in Buckets : bucket' = Dequeued(d)
    BY <2>1, <2>2
  <2>5. 0 \in Buckets
    BY Here
  <2>6. /\ j' \in Buckets /\ (cpc' = "idle" => j' = 0) /\ cpc' \in {"idle", "range"}
        /\ cpc' = "range" => j' < stop' /\ stop' <= NSets * SetSize
        /\ stop' \in Nat /\ in_count' \in Nat /\ stored' \in Nat
    <3>1. CASE cpc' = "idle" /\ j' = 0 /\ stop' = 0 /\ in_count' = 0 /\ stored' = 0
      BY <2>5, <3>1
    <3>2. CASE /\ j + 1 < stop /\ j' = j + 1 /\ UNCHANGED <<cpc, stop, in_count>>
               /\ stored' = IF ~ EmptyWeak(j) THEN stored + 1 ELSE stored
      <4> DEFINE x == NSets * SetSize
      <4>1. x \in Nat /\ stop <= x
        BY <1>1, <2>2
      <4> HIDE DEF x
      <4>2. j + 1 \in Nat /\ j + 1 < x
        BY <2>2, <3>2, <4>1
      <4>3. j + 1 \in Buckets
        BY <1>1, <4>2 DEF x
      <4>4. stored' \in Nat
        BY <2>2, <3>2
      <4> QED
        BY <2>1, <2>2, <3>2, <4>3, <4>4
    <3> QED
      BY <2>1, <3>1, <3>2
  <2>7. cpc \in {"idle", "range"}
    BY <2>1
  <2> QED
    BY <2>1, <2>3, <2>4, <2>6, <2>7, RangeFrame
<1> QED
  BY <1>2, <1>3 DEF DequeueRange
-----------------------------------------------------------------------------
LEMMA StepInv == IInv /\ [Next]_vars => IInv'
<1> SUFFICES ASSUME IInv, [Next]_vars PROVE IInv'
  OBVIOUS
<1>1. CASE Produce
  BY <1>1, EnqSwapInv, EnqLinkInv DEF Produce
<1>2. CASE Dequeue
  BY <1>2, DeqBeginInv, LookInv, ProbeInv, ScanInv DEF Dequeue
<1>3. CASE Bulk
  BY <1>3, BulkBeginInv, BulkSetInv, BulkScanInv, BulkWeakInv, BulkMarkInv DEF Bulk
<1>4. CASE DequeueRange
  BY <1>4, RangeInv
<1>5. CASE UNCHANGED vars
  <2>1. UNCHANGED <<bucket, states, counters, bounds, last, into, sent, cpc, i, j, stop,
                    in_count, stored, avail, missed>>
    BY <1>5 DEF vars, backoffVars, producerVars, bulkVars, historyVars
  <2>2. BackoffBounded' /\ ItemsOK' /\ PlacesOK'
    BY <2>1 DEF IInv, BackoffBounded, TypeOK, ItemsOK, PlacesOK
  <2>3. BytesOK'
    BY <2>1, BytesFrame
  <2>4. \A b : EmptyWeak(b)' <=> EmptyWeak(b)
    BY <2>1 DEF EmptyWeak, Linked
  <2>5. ASSUME NEW s \in 0..NSets - 1, NEW b \in Buckets, Waiting(s, b) PROVE Waiting(s, b)'
    BY <2>1, <2>4, <2>5, WaitingFrame DEF Waiting
  <2>6. MissesOK'
    BY <2>1, <2>5 DEF IInv, MissesOK
  <2> QED
    BY <2>2, <2>3, <2>6 DEF IInv
<1> QED
  BY <1>1, <1>2, <1>3, <1>4, <1>5 DEF Next

(* The inductive invariant: the numbers of the elements, the places of the *)
(* loops of zm_mpbqueue_dequeue, _bulk and _range, the bytes, and the set  *)
(* that has counted every miss in get_set_state.                           *)
THEOREM Invariance == Spec => []IInv
<1>1. Init => IInv
  BY InitInv
<1>2. IInv /\ [Next]_vars => IInv'
  BY StepInv
<1> QED
  BY <1>1, <1>2, PTL DEF Spec

(* get_set_state skips a set whose bytes are 0 for backoff_bounds calls,   *)
(* and doubles that number while it finds nothing: yet less than           *)
(* MAX_BACKOFF calls of zm_mpbqueue_dequeue in a row return nothing while  *)
(* an element waits that was there when they were called, whichever bulk   *)
(* and range calls come in between.                                        *)
THEOREM MissesAreBounded == Spec => []BackoffBounded
<1>1. IInv => BackoffBounded
  BY DEF IInv
<1> QED
  BY <1>1, Invariance, PTL

(* get_set_state stops at the first bucket that is not empty, and          *)
(* zm_mpbqueue_dequeue clears the bytes it passes: at most one byte is set *)
(* when zm_mpbqueue_dequeue_bulk looks, in the set it begins with, and so  *)
(* it stores one element at most.                                          *)
THEOREM BulkStoresOne == Spec => []OneByte
<1>1. IInv => OneByte
  <2> SUFFICES ASSUME IInv PROVE OneByte
    OBVIOUS
  <2>1. \A b, c \in Buckets : states[b] = 1 /\ states[c] = 1 => b = c
    BY DEF IInv, BytesOK, Byte
  <2>2. cpc = "idle" => \A b \in Buckets : states[b] = 1 => b \in InSet(last % NSets)
    BY DEF IInv, BytesOK, Byte, OffsetLast
  <2>3. cpc \in {"b_set", "b_scan", "b_weak", "b_strong", "b_next"} => stored <= 1
    BY Known DEF IInv, BytesOK, InBucket
  <2> QED
    BY <2>1, <2>2, <2>3 DEF OneByte
<1> QED
  BY <1>1, Invariance, PTL
=============================================================================
