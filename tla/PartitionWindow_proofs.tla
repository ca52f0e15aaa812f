----------------------- MODULE PartitionWindow_proofs ------------------------
(***************************************************************************)
(* Theorems about PartitionWindow, for any messages, windows, bounds and   *)
(* any time that hash values are kept for.                                 *)
(***************************************************************************)
EXTENDS PartitionWindow, SequenceTheorems, FiniteSetTheorems, TLAPS

-----------------------------------------------------------------------------
(* What the operators on sequences give.                                   *)

LEMMA PrefixSize ==
    ASSUME NEW n \in Nat, NEW S \in SUBSET (1..n)
    PROVE  IsFiniteSet(S) /\ Cardinality(S) \in 0..n
<1>1. IsFiniteSet(1..n) /\ Cardinality(1..n) = n
  BY FS_Interval
<1>2. IsFiniteSet(S) /\ Cardinality(S) <= Cardinality(1..n)
  BY <1>1, FS_Subset
<1> QED BY <1>1, <1>2, FS_CardinalityType

(* The newest n elements are the last ones.                                *)
LEMMA NewestFacts ==
    ASSUME NEW S, NEW s \in Seq(S), NEW n \in Nat
    PROVE  LET r == Newest(n, s)
           IN  /\ r \in Seq(S) /\ Len(r) <= Len(s) /\ Len(r) <= n
               /\ \A i \in 1..Len(r) : r[i] = s[Len(s) - Len(r) + i]
<1>1. CASE Len(s) <= n
  BY <1>1 DEF Newest
<1>2. CASE Len(s) > n
  <2>1. Newest(n, s) = SubSeq(s, Len(s) - n + 1, Len(s))
    BY <1>2 DEF Newest
  <2>2. /\ Len(s) - n + 1 \in 1..Len(s) + 1 /\ Len(s) \in 0..Len(s)
    BY <1>2
  <2>3. /\ Newest(n, s) \in Seq(S) /\ Len(Newest(n, s)) = n
        /\ \A i \in 1..n : Newest(n, s)[i] = s[(Len(s) - n + 1) + i - 1]
    BY <2>1, <2>2, <1>2, SubSeqProperties
  <2> QED BY <1>2, <2>3
<1> QED BY <1>1, <1>2

LEMMA ReverseFacts ==
    ASSUME NEW S, NEW s \in Seq(S)
    PROVE  /\ Reverse(s) \in Seq(S) /\ Len(Reverse(s)) = Len(s)
           /\ \A i \in 1..Len(s) : Reverse(s)[i] = s[Len(s) - i + 1]
  BY DEF Reverse

Sorted(q) == \A i, j \in 1..Len(q) : i <= j => q[i].recv <= q[j].recv

(* A tuple set is the last tuples of the queue, the newest first, and all  *)
(* of them came after lastRecvTime.                                        *)
LEMMA TupleSetFacts ==
    ASSUME window \in Window, lastRecvTime \in Nat, NEW q \in Seq(Tuples), Sorted(q)
    PROVE  LET b == TupleSet(q)
           IN  /\ b \in Seq(Tuples) /\ Len(b) <= Len(q)
               /\ \A i \in 1..Len(b) : /\ b[i] = q[Len(q) + 1 - i]
                                       /\ b[i].recv > lastRecvTime
<1> DEFINE old == {i \in 1..Len(q) : q[i].recv <= lastRecvTime}
           p == Seen(q)
           new == SubSeq(q, p + 1, Len(q))
<1>0. Len(q) \in Nat /\ old \in SUBSET (1..Len(q)) /\ \A i \in 1..Len(q) : q[i].recv \in Nat
  <2>1. \A i \in 1..Len(q) : q[i] \in Tuples
    OBVIOUS
  <2>2. 1..MaxTuples + MaxTriggers \subseteq Nat
    OBVIOUS
  <2> QED BY <2>1, <2>2 DEF Tuples
<1>s. IsFiniteSet(old) /\ Cardinality(old) \in 0..Len(q)
  <2> HIDE DEF old
  <2> QED BY <1>0, PrefixSize
<1>1. p = Cardinality(old) /\ p \in 0..Len(q)
  BY <1>s DEF Seen
<1>2. ASSUME NEW i \in p + 1..Len(q) PROVE q[i].recv > lastRecvTime
  <2> SUFFICES ASSUME q[i].recv <= lastRecvTime PROVE FALSE
    BY <1>0, <1>1
  <2>1. i \in 1..Len(q)
    <3> HIDE DEF p
    <3> QED BY <1>0, <1>1
  <2>2. ASSUME NEW j \in 1..i PROVE j \in old
    <3>1. j \in 1..Len(q) /\ j <= i
      BY <2>1
    <3>2. q[j].recv <= q[i].recv /\ q[j].recv \in Int /\ q[i].recv \in Int
      BY <1>0, <2>1, <3>1 DEF Sorted
    <3> QED BY <3>1, <3>2
  <2>3. 1..i \in SUBSET old
    BY <2>2
  <2>4. i \in Nat /\ 1 \in Int /\ Cardinality(1..i) = i
    BY <2>1, FS_Interval
  <2> HIDE DEF old, p
  <2>5. Cardinality(1..i) <= Cardinality(old)
    BY <1>s, <2>3, FS_Subset
  <2> QED BY <1>0, <1>1, <2>1, <2>4, <2>5
<1>3. /\ new \in Seq(Tuples) /\ Len(new) = Len(q) - p
      /\ \A i \in 1..Len(new) : new[i] = q[p + i]
  <2>1. p + 1 \in 1..Len(q) + 1 /\ Len(q) \in 0..Len(q)
    BY <1>1
  <2>2. /\ new \in Seq(Tuples)
        /\ Len(new) = IF p + 1 <= Len(q) THEN Len(q) - (p + 1) + 1 ELSE 0
        /\ \A i \in 1..Len(new) : new[i] = q[(p + 1) + i - 1]
    BY <2>1, SubSeqProperties
  <2> HIDE DEF p, new
  <2>3. \A i \in 1..Len(new) : (p + 1) + i - 1 = p + i
    BY <1>0, <1>1
  <2>4. Len(new) = Len(q) - p
    BY <1>0, <1>1, <2>2
  <2> QED BY <2>2, <2>3, <2>4, Zenon
<1>4. ASSUME NEW r \in Seq(Tuples), Len(r) <= Len(new),
             \A i \in 1..Len(r) : r[i] = new[Len(new) - Len(r) + i]
      PROVE  /\ Reverse(r) \in Seq(Tuples) /\ Len(Reverse(r)) <= Len(q)
             /\ \A i \in 1..Len(Reverse(r)) : /\ Reverse(r)[i] = q[Len(q) + 1 - i]
                                              /\ Reverse(r)[i].recv > lastRecvTime
  <2>1. /\ Reverse(r) \in Seq(Tuples) /\ Len(Reverse(r)) = Len(r)
        /\ \A i \in 1..Len(r) : Reverse(r)[i] = r[Len(r) - i + 1]
    BY ReverseFacts
  <2>2. ASSUME NEW i \in 1..Len(r)
        PROVE  Reverse(r)[i] = q[Len(q) + 1 - i] /\ Len(q) + 1 - i \in p + 1..Len(q)
    <3>1. Len(r) - i + 1 \in 1..Len(r)
      OBVIOUS
    <3>2. r[Len(r) - i + 1] = new[Len(new) - Len(r) + (Len(r) - i + 1)]
      BY <1>4, <3>1
    <3>3. Len(new) - Len(r) + (Len(r) - i + 1) = Len(new) - i + 1
      BY <1>3, <1>4
    <3>4. Len(new) - i + 1 \in 1..Len(new)
      BY <1>3, <1>4
    <3>5. new[Len(new) - i + 1] = q[p + (Len(new) - i + 1)]
      BY <1>3, <3>4
    <3>6. p + (Len(new) - i + 1) = Len(q) + 1 - i
      BY <1>1, <1>3
    <3>7. Len(q) + 1 - i \in p + 1..Len(q)
      BY <1>1, <3>4, <3>6, <1>3
    <3> HIDE DEF new, p
    <3> QED BY <2>1, <3>2, <3>3, <3>5, <3>6, <3>7
  <2> HIDE DEF new, p
  <2>3. Len(r) <= Len(q)
    BY <1>0, <1>1, <1>3, <1>4
  <2> QED BY <1>2, <2>1, <2>2, <2>3
<1>5. /\ \A i \in 1..Len(new) : new[i] = new[Len(new) - Len(new) + i]
      /\ Len(new) <= Len(new)
  BY <1>3
<1>6. window.rows \in Nat
  BY DEF Window
<1>7. /\ Newest(window.rows, new) \in Seq(Tuples) /\ Len(Newest(window.rows, new)) <= Len(new)
      /\ \A i \in 1..Len(Newest(window.rows, new)) :
            Newest(window.rows, new)[i] = new[Len(new) - Len(Newest(window.rows, new)) + i]
  BY <1>3, <1>6, NewestFacts
<1>8. TupleSet(q) = Reverse(IF window.partition THEN new ELSE Newest(window.rows, new))
  BY DEF TupleSet
<1> HIDE DEF new, p
<1>9. CASE window.partition
  BY <1>3, <1>4, <1>5, <1>8, <1>9
<1>10. CASE ~window.partition
  BY <1>4, <1>7, <1>8, <1>10
<1> QED BY <1>9, <1>10

LEMMA InOrderFacts ==
    ASSUME NEW dq \in Seq(Tuples), NEW t \in Tuples
    PROVE  LET w == InOrder(dq, t)
           IN  /\ w \in Seq(Tuples) /\ Len(w) = Len(dq) + 1
               /\ \E n \in 0..Len(dq) :
                    /\ n = Cardinality({i \in 1..Len(dq) : Time[dq[i].msg] <= Time[t.msg]})
                    /\ \A i \in 1..Len(w) :
                         w[i] = IF i <= n THEN dq[i] ELSE IF i = n + 1 THEN t ELSE dq[i - 1]
<1> DEFINE n == Cardinality({i \in 1..Len(dq) : Time[dq[i].msg] <= Time[t.msg]})
           front == SubSeq(dq, 1, n)
           back == SubSeq(dq, n + 1, Len(dq))
<1>1. n \in 0..Len(dq)
  BY PrefixSize
<1>2. /\ front \in Seq(Tuples) /\ Len(front) = n /\ \A i \in 1..n : front[i] = dq[i]
  <2> HIDE DEF n
  <2>1. 1 \in 1..Len(dq) + 1 /\ n \in 0..Len(dq)
    BY <1>1
  <2>2. /\ front \in Seq(Tuples) /\ Len(front) = IF 1 <= n THEN n - 1 + 1 ELSE 0
        /\ \A i \in 1..Len(front) : front[i] = dq[1 + i - 1]
    BY <2>1, SubSeqProperties
  <2> QED BY <1>1, <2>2
<1>3. /\ back \in Seq(Tuples) /\ Len(back) = Len(dq) - n
      /\ \A i \in 1..Len(back) : back[i] = dq[n + i]
  <2> HIDE DEF n
  <2>1. n + 1 \in 1..Len(dq) + 1 /\ Len(dq) \in 0..Len(dq)
    BY <1>1
  <2>2. /\ back \in Seq(Tuples)
        /\ Len(back) = IF n + 1 <= Len(dq) THEN Len(dq) - (n + 1) + 1 ELSE 0
        /\ \A i \in 1..Len(back) : back[i] = dq[(n + 1) + i - 1]
    BY <2>1, SubSeqProperties
  <2> QED BY <1>1, <2>2
<1>4. InOrder(dq, t) = front \o <<t>> \o back
  BY DEF InOrder
<1> HIDE DEF n, front, back
<1>5. /\ front \o <<t>> \in Seq(Tuples) /\ Len(front \o <<t>>) = n + 1
      /\ \A i \in 1..n : (front \o <<t>>)[i] = front[i]
      /\ (front \o <<t>>)[n + 1] = t
  BY <1>1, <1>2
<1>6. /\ InOrder(dq, t) \in Seq(Tuples) /\ Len(InOrder(dq, t)) = Len(dq) + 1
      /\ \A i \in 1..n + 1 : InOrder(dq, t)[i] = (front \o <<t>>)[i]
      /\ \A i \in n + 2..Len(dq) + 1 : InOrder(dq, t)[i] = back[i - (n + 1)]
  BY <1>1, <1>3, <1>4, <1>5
<1>7. ASSUME NEW i \in 1..Len(dq) + 1
      PROVE  InOrder(dq, t)[i] = IF i <= n THEN dq[i] ELSE IF i = n + 1 THEN t ELSE dq[i - 1]
  <2>1. CASE i <= n
    BY <1>1, <1>2, <1>5, <1>6, <2>1
  <2>2. CASE i = n + 1
    BY <1>1, <1>5, <1>6, <2>2
  <2>3. CASE i > n + 1
    <3>1. i \in n + 2..Len(dq) + 1 /\ i - (n + 1) \in 1..Len(back) /\ n + (i - (n + 1)) = i - 1
      BY <1>1, <1>3, <2>3
    <3> QED BY <1>1, <1>3, <1>6, <2>3, <3>1
  <2> QED BY <1>1, <2>1, <2>2, <2>3
<1>8. n = Cardinality({i \in 1..Len(dq) : Time[dq[i].msg] <= Time[t.msg]})
  BY DEF n
<1> QED BY <1>1, <1>6, <1>7, <1>8

Distinct(s) == \A i, j \in 1..Len(s) : s[i].id = s[j].id => i = j

(* A kept tuple was kept before or is the one that was just inserted, and  *)
(* no tuple is kept at two places.                                         *)
LEMMA InsertFacts ==
    ASSUME window \in Window, NEW dq \in Seq(Tuples), NEW t \in Tuples, Len(dq) <= window.rows
    PROVE  LET r == Insert(dq, t)
           IN  /\ r \in Seq(Tuples) /\ Len(r) <= window.rows
               /\ \A i \in 1..Len(r) : r[i] = t \/ \E j \in 1..Len(dq) : r[i] = dq[j]
               /\ Distinct(dq) /\ (\A j \in 1..Len(dq) : dq[j].id # t.id) => Distinct(r)
<1>1. window.rows \in Nat /\ window.rows >= 1
  BY DEF Window
<1>2. CASE window.rows = 1
  BY <1>2 DEF Insert, Distinct
<1>3. CASE window.rows # 1
  <2> DEFINE w == InOrder(dq, t)
             r == Insert(dq, t)
  <2>1. w \in Seq(Tuples) /\ Len(w) = Len(dq) + 1
    BY InOrderFacts
  <2>2. PICK n \in 0..Len(dq) : \A i \in 1..Len(w) :
           w[i] = IF i <= n THEN dq[i] ELSE IF i = n + 1 THEN t ELSE dq[i - 1]
    BY InOrderFacts
  <2>3. r = Newest(window.rows, w)
    BY <1>3 DEF Insert
  <2>4. /\ r \in Seq(Tuples) /\ Len(r) <= Len(w) /\ Len(r) <= window.rows
        /\ \A i \in 1..Len(r) : r[i] = w[Len(w) - Len(r) + i]
    BY <1>1, <2>1, <2>3, NewestFacts
  <2>5. ASSUME NEW i \in 1..Len(w) PROVE w[i] = t \/ \E j \in 1..Len(dq) : w[i] = dq[j]
    <3>1. CASE i <= n
      BY <2>1, <2>2, <3>1
    <3>2. CASE i = n + 1
      BY <2>1, <2>2, <3>2
    <3>3. CASE i > n + 1
      <4>1. i - 1 \in 1..Len(dq) /\ w[i] = dq[i - 1]
        BY <2>1, <2>2, <3>3
      <4> QED BY <4>1
    <3> QED BY <2>1, <3>1, <3>2, <3>3
  <2>6. ASSUME Distinct(dq), \A j \in 1..Len(dq) : dq[j].id # t.id PROVE Distinct(w)
    <3> SUFFICES ASSUME NEW i \in 1..Len(w), NEW j \in 1..Len(w), i < j, w[i].id = w[j].id
                 PROVE  FALSE
      BY <2>1 DEF Distinct
    <3>1. CASE j <= n
      BY <2>1, <2>2, <2>6, <3>1 DEF Distinct
    <3>2. CASE j = n + 1
      <4>1. w[j] = t /\ w[i] = dq[i] /\ i \in 1..Len(dq)
        BY <2>1, <2>2, <3>2
      <4> QED BY <2>6, <4>1
    <3>3. CASE j > n + 1
      <4>1. w[j] = dq[j - 1] /\ j - 1 \in 1..Len(dq)
        BY <2>1, <2>2, <3>3
      <4>2. CASE i <= n
        BY <2>1, <2>2, <2>6, <3>3, <4>1, <4>2 DEF Distinct
      <4>3. CASE i = n + 1
        <5>1. w[i] = t
          BY <2>1, <2>2, <4>3
        <5> QED BY <2>6, <4>1, <5>1
      <4>4. CASE i > n + 1
        <5>1. w[i] = dq[i - 1] /\ i - 1 \in 1..Len(dq)
          BY <2>1, <2>2, <4>4
        <5> QED BY <2>6, <4>1, <5>1 DEF Distinct
      <4> QED BY <2>1, <4>2, <4>3, <4>4
    <3> QED BY <2>1, <3>1, <3>2, <3>3
  <2> HIDE DEF w, r
  <2>7. ASSUME Distinct(w) PROVE Distinct(r)
    <3> SUFFICES ASSUME NEW i \in 1..Len(r), NEW j \in 1..Len(r), r[i].id = r[j].id PROVE i = j
      BY DEF Distinct
    <3>1. /\ Len(w) - Len(r) + i \in 1..Len(w) /\ Len(w) - Len(r) + j \in 1..Len(w)
          /\ r[i] = w[Len(w) - Len(r) + i] /\ r[j] = w[Len(w) - Len(r) + j]
      BY <2>1, <2>4
    <3>2. Len(w) - Len(r) + i = Len(w) - Len(r) + j
      BY <2>7, <3>1 DEF Distinct
    <3> QED BY <2>1, <2>4, <3>2
  <2>8. ASSUME NEW i \in 1..Len(r) PROVE r[i] = t \/ \E j \in 1..Len(dq) : r[i] = dq[j]
    <3>1. Len(w) - Len(r) + i \in 1..Len(w)
      BY <2>1, <2>4
    <3> QED BY <2>4, <2>5, <3>1
  <2>9. Insert(dq, t) = r
    BY DEF r
  <2> QED BY <2>4, <2>6, <2>7, <2>8, <2>9
<1> QED BY <1>2, <1>3

-----------------------------------------------------------------------------
(* The parts of the invariant that say what a state is.  The number of a   *)
(* tuple is its place in the queue, which is in the order of receive times.*)
Ordered == /\ \A i \in 1..Len(queue) : queue[i].id = i /\ queue[i].recv <= stamp
           /\ Sorted(queue)

Known(t, q) == t.id \in 1..Len(q) /\ q[t.id] = t

(* What waits, is gone through or is kept came from the queue; what is     *)
(* kept for a key has that key.                                            *)
BufferKnown == \A k \in 1..Len(buffer) : \A i \in 1..Len(buffer[k]) : Known(buffer[k][i], queue)
InputKnown == \A i \in 1..Len(input) : Known(input[i], queue) /\ input[i].id \in taken
LatestKnown == \A k \in Keys : \A i \in 1..Len(latest[k]) :
                  Known(latest[k][i], queue) /\ Key[latest[k][i].msg] = k
HeldKnown == BufferKnown /\ InputKnown /\ LatestKnown

(* What the operator has in hand at its steps.                             *)
InHand ==
    /\ step = "idle" => taken = {} /\ input = <<>> /\ output = <<>>
    /\ step # "send" => todo = {} /\ (window.partition => output = <<>>)
    /\ step = "send" => input = <<>>
    /\ ~window.partition => todo = {} /\ \A k \in Keys : latest[k] = <<>>

Base == TypeOK /\ Ordered /\ HeldKnown /\ InHand

LEMMA Constants ==
    /\ Life \in Nat /\ MaxTuples \in Nat /\ MaxBatch \in Nat
    /\ MaxTriggers \in Nat /\ MaxTime \in Nat
    /\ \A m \in Messages : Key[m] \in Keys /\ Time[m] \in Nat
    /\ WindowKinds \subseteq Window
    /\ NoEntry \in Int /\ NoEntry < 0
  BY MessageAssumption, WindowAssumption, BoundAssumption DEF Keys, NoEntry

LEMMA BaseInit == Init => Base
<1> SUFFICES ASSUME Init PROVE Base
  OBVIOUS
<1> USE Constants DEF Init
<1>1. TypeOK
  <2>1. latest \in [Keys -> Seq(Tuples)] /\ \A k \in Keys : Len(latest[k]) <= window.rows
    BY DEF Window
  <2>2. /\ queue \in Seq(Tuples) /\ Len(queue) = 0 /\ buffer \in Seq(Seq(Tuples))
        /\ input \in Seq(Tuples) /\ output \in Seq(Tuples) /\ passed \in Seq(Passed)
    BY EmptySeq, Zenon
  <2>3. hashMap \in [Messages -> 0..MaxTime \cup {NoEntry}] /\ sent \in [1..MaxTuples -> Nat]
    OBVIOUS
  <2>4. clock \in 0..MaxTime /\ triggers \in 0..MaxTriggers /\ stamp \in 0..Len(queue) + triggers
    BY <2>2
  <2>5. /\ Len(queue) <= MaxTuples /\ reading \in 0..stamp /\ lastRecvTime \in 0..stamp
        /\ preLastRecvTime \in 0..stamp
    BY <2>2
  <2>6. /\ window \in WindowKinds /\ listening \in BOOLEAN /\ step \in {"idle", "fold", "send"}
        /\ todo \subseteq Kept /\ delTime \in 0..MaxTime \cup {NoEntry}
        /\ taken \subseteq 1..MaxTuples /\ overtaken \subseteq 1..MaxTuples
    OBVIOUS
  <2> QED BY <2>1, <2>2, <2>3, <2>4, <2>5, <2>6, Zenon DEF TypeOK
<1>2. Ordered
  BY DEF Ordered, Sorted
<1>3. HeldKnown
  BY DEF HeldKnown, BufferKnown, InputKnown, LatestKnown
<1>4. InHand
  BY DEF InHand
<1> QED BY <1>1, <1>2, <1>3, <1>4 DEF Base

(* addTuple leaves the tuples of the queue where they are.                 *)
LEMMA QueueGrown ==
    ASSUME Base, NEW n \in 1..MaxBatch, NEW batch \in [1..n -> Messages], AddTuple(batch)
    PROVE  /\ queue' \in Seq(Tuples) /\ Len(queue') = Len(queue) + n /\ Len(queue') <= MaxTuples
           /\ stamp' = stamp + 1 /\ stamp' \in 0..Len(queue') + triggers
           /\ \A i \in 1..Len(queue) : queue'[i] = queue[i]
           /\ Ordered'
<1> USE Constants
<1>1. /\ queue \in Seq(Tuples) /\ stamp \in 0..Len(queue) + triggers /\ triggers \in 0..MaxTriggers
      /\ Ordered
  BY DEF Base, TypeOK
<1>2. Len(batch) = n /\ n \in Nat /\ n >= 1
  OBVIOUS
<1> DEFINE more == [k \in 1..n |-> [id |-> Len(queue) + k, msg |-> batch[k], recv |-> stamp + 1]]
<1>3. Len(queue) + n <= MaxTuples /\ stamp' = stamp + 1 /\ queue' = queue \o more
  BY <1>2 DEF AddTuple
<1>4. stamp + 1 \in 1..MaxTuples + MaxTriggers
  BY <1>1, <1>2, <1>3
<1>5. more \in Seq(Tuples) /\ Len(more) = n
  <2>1. ASSUME NEW k \in 1..n PROVE more[k] \in Tuples
    BY <1>1, <1>2, <1>3, <1>4 DEF Tuples
  <2>2. more \in [1..n -> Tuples]
    BY <2>1
  <2> QED BY <1>2, <2>2
<1>6. \A k \in 1..n : more[k].id = Len(queue) + k /\ more[k].recv = stamp + 1
  OBVIOUS
<1> HIDE DEF more
<1>7. /\ queue' \in Seq(Tuples) /\ Len(queue') = Len(queue) + n
      /\ \A i \in 1..Len(queue) : queue'[i] = queue[i]
      /\ \A i \in Len(queue) + 1..Len(queue) + n : queue'[i] = more[i - Len(queue)]
  <2>1. /\ queue \o more \in Seq(Tuples) /\ Len(queue \o more) = Len(queue) + Len(more)
        /\ \A i \in 1..Len(queue) + Len(more) :
              (queue \o more)[i] = IF i <= Len(queue) THEN queue[i] ELSE more[i - Len(queue)]
    BY <1>1, <1>5, ConcatProperties
  <2>2. Len(queue) \in Nat /\ Len(more) = n
    BY <1>1, <1>5
  <2> QED BY <1>2, <1>3, <2>1, <2>2
<1>8. ASSUME NEW i \in 1..Len(queue') PROVE queue'[i].id = i /\ queue'[i].recv <= stamp'
  <2>1. CASE i <= Len(queue)
    <3>1. queue'[i] = queue[i] /\ queue[i].id = i /\ queue[i].recv <= stamp /\ queue[i].recv \in Int
      <4>1. i \in 1..Len(queue) /\ queue[i] \in Tuples
        BY <1>1, <2>1
      <4>2. queue[i].recv \in 1..MaxTuples + MaxTriggers
        BY <4>1 DEF Tuples
      <4> QED BY <1>1, <1>7, <4>1, <4>2 DEF Ordered
    <3> QED BY <1>1, <1>3, <3>1
  <2>2. CASE i > Len(queue)
    BY <1>1, <1>2, <1>3, <1>6, <1>7, <2>2
  <2> QED BY <1>1, <1>7, <2>1, <2>2
<1>9. Sorted(queue')
  <2> SUFFICES ASSUME NEW i \in 1..Len(queue'), NEW j \in 1..Len(queue'), i <= j
               PROVE  queue'[i].recv <= queue'[j].recv
    BY DEF Sorted
  <2>1. CASE j <= Len(queue)
    <3>1. i \in 1..Len(queue) /\ j \in 1..Len(queue)
      BY <1>1, <2>1
    <3> QED BY <1>1, <1>7, <3>1 DEF Ordered, Sorted
  <2>2. CASE j > Len(queue)
    <3>1. queue'[j].recv = stamp'
      BY <1>1, <1>2, <1>3, <1>6, <1>7, <2>2
    <3> QED BY <1>8, <3>1
  <2> QED BY <1>1, <1>7, <2>1, <2>2
<1> QED BY <1>1, <1>2, <1>3, <1>7, <1>8, <1>9 DEF Ordered

(* The tuple set that is handed over.                                      *)
Handed(b) ==
    /\ b \in Seq(Tuples) /\ buffer' = Append(buffer, b)
    /\ \A i \in 1..Len(b) : /\ b[i].id = Len(queue') + 1 - i /\ b[i].id \in 1..Len(queue')
                            /\ queue'[b[i].id] = b[i] /\ b[i].recv > lastRecvTime
    /\ preLastRecvTime' = lastRecvTime
    /\ overtaken' = overtaken \cup Waiting

LEMMA HandedOver ==
    ASSUME Base, NEW r, queue' \in Seq(Tuples), Ordered', HandOver(queue', r)
    PROVE  \E b : Handed(b) /\ lastRecvTime' = r
<1> DEFINE b == TupleSet(queue')
<1>1. window \in Window /\ lastRecvTime \in Nat
  BY Constants DEF Base, TypeOK
<1>2. Sorted(queue') /\ \A i \in 1..Len(queue') : queue'[i].id = i
  BY DEF Ordered, Sorted
<1>3. /\ b \in Seq(Tuples) /\ Len(b) <= Len(queue')
      /\ \A i \in 1..Len(b) : b[i] = queue'[Len(queue') + 1 - i] /\ b[i].recv > lastRecvTime
  BY <1>1, <1>2, TupleSetFacts
<1>4. buffer' = Append(buffer, b) /\ preLastRecvTime' = lastRecvTime /\ lastRecvTime' = r
      /\ overtaken' = overtaken \cup Waiting
  BY DEF HandOver, SetLastRecvTime
<1> HIDE DEF b
<1>5. \A i \in 1..Len(b) : Len(queue') + 1 - i \in 1..Len(queue')
  BY <1>3
<1>6. Handed(b)
  BY <1>2, <1>3, <1>4, <1>5 DEF Handed
<1> QED BY <1>4, <1>6

(* A step of the stream: nothing the window holds moves, and a tuple set   *)
(* is handed over or not.                                                  *)
StreamStep ==
    /\ queue' \in Seq(Tuples) /\ Len(queue) <= Len(queue') /\ Len(queue') <= MaxTuples
    /\ \A i \in 1..Len(queue) : queue'[i] = queue[i]
    /\ Ordered'
    /\ stamp <= stamp' /\ stamp' \in 0..Len(queue') + triggers
    /\ reading' \in 0..stamp'
    /\ UNCHANGED <<window, listening, triggers, operatorVars, hashVars, clock>>
    /\ \/ UNCHANGED <<lastRecvTime, preLastRecvTime, buffer, overtaken>>
       \/ lastRecvTime' \in 0..stamp' /\ \E b : Handed(b)

LEMMA StreamSteps ==
    ASSUME Base,
           \/ \E n \in 1..MaxBatch : \E batch \in [1..n -> Messages] : AddTuple(batch)
           \/ Read
    PROVE  StreamStep
<1> USE Constants
<1>1. /\ queue \in Seq(Tuples) /\ Len(queue) <= MaxTuples /\ Len(queue) \in Nat
      /\ stamp \in 0..Len(queue) + triggers /\ triggers \in 0..MaxTriggers /\ reading \in 0..stamp
      /\ stamp \in Nat /\ Ordered
  BY DEF Base, TypeOK
<1>2. CASE Read
  <2>1. queue' = queue /\ stamp' = stamp /\ HandOver(queue', reading) /\ reading' = 0
        /\ UNCHANGED <<window, listening, triggers, operatorVars, hashVars, clock>>
    BY <1>2 DEF Read
  <2>2. Ordered'
    BY <1>1, <2>1 DEF Ordered, Sorted
  <2>3. \E b : Handed(b) /\ lastRecvTime' = reading
    BY <1>1, <2>1, <2>2, HandedOver
  <2>4. stamp <= stamp' /\ stamp' \in 0..Len(queue') + triggers /\ reading' \in 0..stamp'
        /\ reading \in 0..stamp'
    BY <1>1, <2>1
  <2> QED BY <1>1, <2>1, <2>2, <2>3, <2>4 DEF StreamStep
<1>3. ASSUME NEW n \in 1..MaxBatch, NEW batch \in [1..n -> Messages], AddTuple(batch)
      PROVE  StreamStep
  <2>1. /\ queue' \in Seq(Tuples) /\ Len(queue') = Len(queue) + n /\ Len(queue') <= MaxTuples
        /\ stamp' = stamp + 1 /\ stamp' \in 0..Len(queue') + triggers
        /\ \A i \in 1..Len(queue) : queue'[i] = queue[i]
        /\ Ordered'
    BY <1>3, QueueGrown
  <2>2. /\ UNCHANGED <<window, listening, triggers, reading, operatorVars, hashVars, clock>>
        /\ IF listening /\ window.own THEN HandOver(queue', stamp')
           ELSE UNCHANGED <<lastRecvTime, preLastRecvTime, buffer, overtaken>>
    BY <1>3 DEF AddTuple
  <2>3. ASSUME HandOver(queue', stamp') PROVE \E b : Handed(b) /\ lastRecvTime' = stamp'
    BY <2>1, <2>3, HandedOver
  <2>4. /\ stamp <= stamp' /\ reading' \in 0..stamp' /\ stamp' \in 0..stamp'
        /\ Len(queue) <= Len(queue')
    BY <1>1, <2>1, <2>2
  <2>5. UNCHANGED <<window, listening, triggers, operatorVars, hashVars, clock>>
    BY <2>2
  <2>6. \/ UNCHANGED <<lastRecvTime, preLastRecvTime, buffer, overtaken>>
        \/ lastRecvTime' \in 0..stamp' /\ \E b : Handed(b)
    BY <2>2, <2>3, <2>4
  <2> QED BY <2>1, <2>4, <2>5, <2>6 DEF StreamStep
<1> QED BY <1>2, <1>3

(* What came from the queue is still there.                                *)
LEMMA StillKnown ==
    ASSUME Base, StreamStep PROVE \A t : Known(t, queue) => Known(t, queue')
<1>1. Len(queue) \in Nat /\ Len(queue') \in Nat /\ Len(queue) <= Len(queue')
  BY DEF StreamStep, Base, TypeOK
<1>2. \A i \in 1..Len(queue) : i \in 1..Len(queue') /\ queue'[i] = queue[i]
  BY <1>1 DEF StreamStep
<1> QED BY <1>2 DEF Known

LEMMA WaitingType == ASSUME TypeOK PROVE Waiting \subseteq 1..MaxTuples
<1>1. ASSUME NEW k \in 1..Len(buffer) PROVE Ids(buffer[k]) \subseteq 1..MaxTuples
  <2>1. buffer[k] \in Seq(Tuples)
    BY DEF TypeOK
  <2>2. \A i \in 1..Len(buffer[k]) : buffer[k][i] \in Tuples
    BY <2>1
  <2> QED BY <2>2 DEF Ids, Tuples
<1> QED BY <1>1 DEF Waiting, TypeOK

LEMMA BaseStream == ASSUME Base, StreamStep PROVE Base'
<1> USE Constants
<1>1. TypeOK /\ Ordered /\ BufferKnown /\ InputKnown /\ LatestKnown /\ InHand
  BY DEF Base, HeldKnown
<1>2. UNCHANGED <<window, listening, triggers, step, input, todo, output, latest, taken, sent,
                  passed, hashMap, delTime, clock>>
  BY DEF StreamStep, operatorVars, hashVars
<1>3. Kept' = Kept
  BY <1>2 DEF Kept
<1>4. stamp \in Nat /\ stamp' \in Nat /\ stamp <= stamp'
  BY <1>1 DEF TypeOK, StreamStep
<1>5. Waiting \subseteq 1..MaxTuples
  BY <1>1, WaitingType
<1>6. \A t : Known(t, queue) => Known(t, queue')
  BY StillKnown
<1>7. \A k \in 1..Len(buffer) : \A i \in 1..Len(buffer[k]) : Known(buffer[k][i], queue')
  BY <1>1, <1>6 DEF BufferKnown
<1> DEFINE Goal == /\ buffer' \in Seq(Seq(Tuples)) /\ overtaken' \subseteq 1..MaxTuples
                   /\ lastRecvTime' \in 0..stamp' /\ preLastRecvTime' \in 0..stamp'
                   /\ BufferKnown'
<1>8. ASSUME UNCHANGED <<lastRecvTime, preLastRecvTime, buffer, overtaken>> PROVE Goal
  <2>1. BufferKnown'
    BY <1>7, <1>8 DEF BufferKnown
  <2>2. lastRecvTime \in 0..stamp' /\ preLastRecvTime \in 0..stamp'
    BY <1>1, <1>4 DEF TypeOK
  <2> QED BY <1>1, <1>8, <2>1, <2>2 DEF TypeOK
<1>9. ASSUME NEW b, Handed(b), lastRecvTime' \in 0..stamp' PROVE Goal
  <2>1. /\ b \in Seq(Tuples) /\ buffer' = Append(buffer, b) /\ preLastRecvTime' = lastRecvTime
        /\ overtaken' = overtaken \cup Waiting
        /\ \A i \in 1..Len(b) : Known(b[i], queue')
    BY <1>9 DEF Handed, Known
  <2>2. /\ buffer \in Seq(Seq(Tuples)) /\ buffer' \in Seq(Seq(Tuples))
        /\ Len(buffer') = Len(buffer) + 1 /\ buffer'[Len(buffer) + 1] = b
        /\ \A k \in 1..Len(buffer) : buffer'[k] = buffer[k]
    BY <1>1, <2>1 DEF TypeOK
  <2>3. \A k \in 1..Len(buffer') : k \in 1..Len(buffer) \/ k = Len(buffer) + 1
    BY <2>2
  <2>4. BufferKnown'
    BY <1>7, <2>1, <2>2, <2>3, Zenon DEF BufferKnown
  <2>5. overtaken' \subseteq 1..MaxTuples /\ preLastRecvTime' \in 0..stamp'
    BY <1>1, <1>4, <1>5, <2>1 DEF TypeOK
  <2> QED BY <1>9, <2>2, <2>4, <2>5
<1>10. Goal
  BY <1>8, <1>9 DEF StreamStep
<1>11. TypeOK'
  BY <1>1, <1>2, <1>3, <1>4, <1>10 DEF TypeOK, StreamStep
<1>12. InputKnown' /\ LatestKnown'
  BY <1>1, <1>2, <1>6, Zenon DEF InputKnown, LatestKnown
<1>13. InHand'
  BY <1>1, <1>2 DEF InHand
<1>14. Ordered'
  BY DEF StreamStep
<1> QED BY <1>10, <1>11, <1>12, <1>13, <1>14 DEF Base, HeldKnown

(* Steps that leave the tuples where they are.                             *)
LEMMA BaseQuiet ==
    ASSUME Base,
           \/ Trigger \/ AddQueueListener \/ DeleteHashmapStart \/ DeleteHashmap \/ Tick
           \/ UNCHANGED vars
    PROVE  Base'
<1> USE Constants
<1>1. TypeOK /\ Ordered /\ BufferKnown /\ InputKnown /\ LatestKnown /\ InHand
  BY DEF Base, HeldKnown
<1>2. UNCHANGED <<window, queue, lastRecvTime, preLastRecvTime, buffer, step, input, todo, output,
                  latest, taken, sent, passed, overtaken>>
  BY DEF Trigger, AddQueueListener, DeleteHashmapStart, DeleteHashmap, Tick, vars, streamVars,
         operatorVars
<1>3. Kept' = Kept
  BY <1>2 DEF Kept
<1>4. BufferKnown' /\ InputKnown' /\ LatestKnown' /\ InHand'
  BY <1>1, <1>2, Zenon DEF BufferKnown, InputKnown, LatestKnown, InHand
<1> DEFINE Rest == /\ listening' \in BOOLEAN /\ triggers' \in 0..MaxTriggers
                   /\ stamp' \in 0..Len(queue) + triggers' /\ reading' \in 0..stamp'
                   /\ stamp <= stamp'
                   /\ hashMap' \in [Messages -> 0..MaxTime \cup {NoEntry}]
                   /\ delTime' \in 0..MaxTime \cup {NoEntry} /\ clock' \in 0..MaxTime
<1>5. /\ listening \in BOOLEAN /\ triggers \in 0..MaxTriggers /\ Len(queue) \in Nat
      /\ stamp \in 0..Len(queue) + triggers /\ reading \in 0..stamp /\ clock \in 0..MaxTime
      /\ hashMap \in [Messages -> 0..MaxTime \cup {NoEntry}]
      /\ delTime \in 0..MaxTime \cup {NoEntry}
  BY <1>1 DEF TypeOK
<1>6. ASSUME Trigger PROVE Rest
  <2>1. /\ triggers < MaxTriggers /\ triggers' = triggers + 1 /\ stamp' = stamp + 1
        /\ reading' = stamp' /\ UNCHANGED <<listening, hashMap, delTime, clock>>
    BY <1>6 DEF Trigger, hashVars
  <2> QED BY <1>5, <2>1
<1>7. ASSUME AddQueueListener PROVE Rest
  BY <1>5, <1>7 DEF AddQueueListener, hashVars
<1>8. ASSUME DeleteHashmapStart PROVE Rest
  <2>1. PICK m \in Messages : hashMap[m] # NoEntry /\ hashMap[m] < clock - Life
    BY <1>8 DEF DeleteHashmapStart, CleanedFrom
  <2>2. hashMap[m] \in 0..MaxTime
    BY <1>5, <2>1
  <2>3. delTime' = clock - Life /\ clock - Life \in 0..MaxTime
    BY <1>5, <1>8, <2>1, <2>2 DEF DeleteHashmapStart, CleanedFrom
  <2>4. UNCHANGED <<listening, triggers, stamp, reading, hashMap, clock>>
    BY <1>8 DEF DeleteHashmapStart, streamVars
  <2> QED BY <1>5, <2>3, <2>4
<1>9. ASSUME DeleteHashmap PROVE Rest
  <2>1. hashMap' = [m \in Messages |-> IF hashMap[m] < delTime THEN NoEntry ELSE hashMap[m]]
    BY <1>9 DEF DeleteHashmap
  <2>2. hashMap' \in [Messages -> 0..MaxTime \cup {NoEntry}]
    BY <1>5, <2>1
  <2>3. delTime' = NoEntry /\ UNCHANGED <<listening, triggers, stamp, reading, clock>>
    BY <1>9 DEF DeleteHashmap, streamVars
  <2> QED BY <1>5, <2>2, <2>3
<1>10. ASSUME Tick PROVE Rest
  <2>1. clock < MaxTime /\ clock' = clock + 1
        /\ UNCHANGED <<listening, triggers, stamp, reading, hashMap, delTime>>
    BY <1>10 DEF Tick, streamVars, hashVars
  <2> QED BY <1>5, <2>1
<1>11. ASSUME UNCHANGED vars PROVE Rest
  BY <1>5, <1>11 DEF vars
<1>12. Rest
  BY <1>6, <1>7, <1>8, <1>9, <1>10, <1>11
<1>13. Ordered'
  <2>1. \A i \in 1..Len(queue) : queue[i].recv \in Int
    <3>1. \A i \in 1..Len(queue) : queue[i] \in Tuples
      BY <1>1 DEF TypeOK
    <3> QED BY <3>1 DEF Tuples
  <2>2. \A i \in 1..Len(queue) : queue[i].id = i /\ queue[i].recv <= stamp'
    BY <1>1, <1>5, <1>12, <2>1 DEF Ordered
  <2> QED BY <1>1, <1>2, <2>2 DEF Ordered, Sorted
<1>14. lastRecvTime \in 0..stamp' /\ preLastRecvTime \in 0..stamp'
  BY <1>1, <1>5, <1>12 DEF TypeOK
<1>15. TypeOK'
  BY <1>1, <1>2, <1>3, <1>12, <1>14 DEF TypeOK
<1> QED BY <1>4, <1>13, <1>15 DEF Base, HeldKnown

LEMMA RestFacts ==
    ASSUME NEW S, NEW s \in Seq(S), s # <<>>
    PROVE  /\ Head(s) = s[1] /\ Head(s) \in S /\ Len(s) >= 1
           /\ Tail(s) \in Seq(S) /\ Len(Tail(s)) = Len(s) - 1
           /\ \A i \in 1..Len(Tail(s)) : Tail(s)[i] = s[i + 1] /\ i + 1 \in 1..Len(s)
  BY HeadTailProperties

(* The operator takes a tuple set.                                         *)
LEMMA BaseTake == ASSUME Base, Take PROVE Base'
<1> USE Constants
<1>1. TypeOK /\ Ordered /\ BufferKnown /\ InputKnown /\ LatestKnown /\ InHand
  BY DEF Base, HeldKnown
<1>2. /\ step = "idle" /\ buffer # <<>> /\ step' = "fold" /\ input' = Head(buffer)
      /\ taken' = Ids(Head(buffer)) /\ buffer' = Tail(buffer)
      /\ UNCHANGED <<window, listening, queue, stamp, triggers, reading, lastRecvTime,
                     preLastRecvTime, overtaken, todo, output, latest, sent, passed, hashMap,
                     delTime, clock>>
  BY DEF Take, streamVars, hashVars
<1>3. /\ input' = buffer[1] /\ input' \in Seq(Tuples) /\ Len(buffer) >= 1
      /\ buffer' \in Seq(Seq(Tuples)) /\ Len(buffer') = Len(buffer) - 1
      /\ \A k \in 1..Len(buffer') : buffer'[k] = buffer[k + 1] /\ k + 1 \in 1..Len(buffer)
  BY <1>1, <1>2, RestFacts DEF TypeOK
<1>4. taken' \subseteq 1..MaxTuples
  <2>1. \A i \in 1..Len(input') : input'[i] \in Tuples
    BY <1>3
  <2> QED BY <1>2, <2>1 DEF Ids, Tuples
<1>5. TypeOK'
  <2>1. Kept' = Kept
    BY <1>2 DEF Kept
  <2> QED BY <1>1, <1>2, <1>3, <1>4, <2>1 DEF TypeOK
<1>6. BufferKnown'
  BY <1>1, <1>2, <1>3 DEF BufferKnown
<1>7. InputKnown'
  <2>1. 1 \in 1..Len(buffer)
    BY <1>1, <1>3 DEF TypeOK
  <2>2. \A i \in 1..Len(input') : Known(input'[i], queue)
    BY <1>1, <1>3, <2>1, Zenon DEF BufferKnown
  <2>3. \A i \in 1..Len(input') : input'[i].id \in taken'
    BY <1>2 DEF Ids
  <2> QED BY <1>2, <2>2, <2>3 DEF InputKnown
<1>8. LatestKnown' /\ Ordered' /\ InHand'
  BY <1>1, <1>2 DEF LatestKnown, Ordered, Sorted, InHand
<1> QED BY <1>5, <1>6, <1>7, <1>8 DEF Base, HeldKnown

LEMMA KeptFacts ==
    \A k, i : <<k, i>> \in Kept <=> k \in Keys /\ i \in 1..Len(latest[k])
  BY DEF Kept

(* What Fold does with the tuple in front.                                 *)
Passes(t) ==
    /\ ~Match(t.msg)
    /\ passed' = Append(passed, [id |-> t.id, msg |-> t.msg, at |-> clock])
    /\ hashMap' = IF window.dup THEN hashMap ELSE [hashMap EXCEPT ![t.msg] = clock]
    /\ \/ /\ window.partition
          /\ latest' = [latest EXCEPT ![Key[t.msg]] = Insert(@, t)]
          /\ UNCHANGED output
       \/ /\ ~window.partition
          /\ output' = Append(output, t)
          /\ UNCHANGED latest

LEMMA FoldStep ==
    ASSUME Base, Fold
    PROVE  /\ step = "fold" /\ input # <<>> /\ Head(input) = input[1] /\ 1 \in 1..Len(input)
           /\ Head(input) \in Tuples /\ Head(input).msg \in Messages
           /\ Known(Head(input), queue) /\ Head(input).id \in taken
           /\ input' = Tail(input)
           /\ UNCHANGED <<window, listening, queue, stamp, triggers, reading, lastRecvTime,
                          preLastRecvTime, overtaken, buffer, step, todo, taken, sent, delTime,
                          clock>>
           /\ \/ UNCHANGED <<hashMap, latest, output, passed>>
              \/ Passes(Head(input))
<1>1. step = "fold" /\ input # <<>> /\ input' = Tail(input)
  BY DEF Fold
<1>2. input \in Seq(Tuples) /\ InputKnown
  BY DEF Base, TypeOK, HeldKnown
<1>3. Head(input) = input[1] /\ 1 \in 1..Len(input) /\ Head(input) \in Tuples
  BY <1>1, <1>2, RestFacts
<1>4. Known(Head(input), queue) /\ Head(input).id \in taken
  BY <1>2, <1>3 DEF InputKnown
<1>5. Head(input).msg \in Messages
  BY <1>3 DEF Tuples
<1>6. UNCHANGED <<window, listening, queue, stamp, triggers, reading, lastRecvTime,
                  preLastRecvTime, overtaken, buffer, step, todo, taken, sent, delTime, clock>>
  BY DEF Fold, streamVars
<1>7. UNCHANGED <<hashMap, latest, output, passed>> \/ Passes(Head(input))
  BY DEF Fold, Passes
<1> QED BY <1>1, <1>3, <1>4, <1>5, <1>6, <1>7

LEMMA BaseFold == ASSUME Base, Fold PROVE Base'
<1> USE Constants
<1> DEFINE t == Head(input)
<1>1. TypeOK /\ Ordered /\ BufferKnown /\ InputKnown /\ LatestKnown /\ InHand
  BY DEF Base, HeldKnown
<1>2. /\ step = "fold" /\ input # <<>> /\ t \in Tuples /\ t.msg \in Messages
      /\ Known(t, queue) /\ input' = Tail(input)
      /\ UNCHANGED <<window, listening, queue, stamp, triggers, reading, lastRecvTime,
                     preLastRecvTime, overtaken, buffer, step, todo, taken, sent, delTime, clock>>
      /\ UNCHANGED <<hashMap, latest, output, passed>> \/ Passes(t)
  BY FoldStep
<1>3. /\ input' \in Seq(Tuples) /\ Len(input') = Len(input) - 1
      /\ \A i \in 1..Len(input') : input'[i] = input[i + 1] /\ i + 1 \in 1..Len(input)
  BY <1>1, <1>2, RestFacts DEF TypeOK
<1> HIDE DEF t
<1> DEFINE Moved == /\ output' \in Seq(Tuples) /\ passed' \in Seq(Passed)
                    /\ hashMap' \in [Messages -> 0..MaxTime \cup {NoEntry}]
                    /\ latest' \in [Keys -> Seq(Tuples)]
                    /\ \A k \in Keys : Len(latest'[k]) <= window.rows
                    /\ LatestKnown'
                    /\ window.partition => output' = output
                    /\ ~window.partition => latest' = latest
<1>4. /\ output \in Seq(Tuples) /\ passed \in Seq(Passed) /\ clock \in 0..MaxTime
      /\ hashMap \in [Messages -> 0..MaxTime \cup {NoEntry}]
      /\ latest \in [Keys -> Seq(Tuples)] /\ \A k \in Keys : Len(latest[k]) <= window.rows
      /\ window \in Window
  BY <1>1 DEF TypeOK
<1>5. ASSUME UNCHANGED <<hashMap, latest, output, passed>> PROVE Moved
  BY <1>1, <1>2, <1>4, <1>5 DEF LatestKnown
<1>6. ASSUME Passes(t) PROVE Moved
  <2>1. passed' \in Seq(Passed)
    <3>1. [id |-> t.id, msg |-> t.msg, at |-> clock] \in Passed
      BY <1>2, <1>4 DEF Tuples, Passed
    <3> QED BY <1>4, <1>6, <3>1, AppendProperties DEF Passes
  <2>2. hashMap' \in [Messages -> 0..MaxTime \cup {NoEntry}]
    BY <1>2, <1>4, <1>6 DEF Passes
  <2>3. ASSUME window.partition PROVE Moved
    <3> DEFINE key == Key[t.msg]
               r == Insert(latest[key], t)
    <3>1. key \in Keys /\ latest' = [latest EXCEPT ![key] = r] /\ output' = output
      BY <1>2, <1>6, <2>3 DEF Passes
    <3>2. /\ r \in Seq(Tuples) /\ Len(r) <= window.rows
          /\ \A i \in 1..Len(r) : r[i] = t \/ \E j \in 1..Len(latest[key]) : r[i] = latest[key][j]
      <4>1. latest[key] \in Seq(Tuples) /\ Len(latest[key]) <= window.rows
        BY <1>4, <3>1
      <4> QED BY <1>2, <1>4, <4>1, InsertFacts
    <3>3. \A i \in 1..Len(r) : Known(r[i], queue) /\ Key[r[i].msg] = key
      BY <1>1, <1>2, <3>1, <3>2 DEF LatestKnown
    <3> HIDE DEF r, key
    <3>4. latest' \in [Keys -> Seq(Tuples)] /\ \A k \in Keys : Len(latest'[k]) <= window.rows
      BY <1>4, <3>1, <3>2
    <3>5. ASSUME NEW k \in Keys, NEW i \in 1..Len(latest'[k])
          PROVE  Known(latest'[k][i], queue) /\ Key[latest'[k][i].msg] = k
      <4>1. CASE k = key
        BY <1>4, <3>1, <3>3, <3>5, <4>1
      <4>2. CASE k # key
        <5>1. latest'[k] = latest[k]
          BY <1>4, <3>1, <4>2
        <5> QED BY <1>1, <3>5, <5>1 DEF LatestKnown
      <4> QED BY <4>1, <4>2
    <3>6. LatestKnown'
      BY <1>2, <3>5 DEF LatestKnown
    <3> QED BY <1>4, <2>1, <2>2, <2>3, <3>1, <3>4, <3>6
  <2>4. ASSUME ~window.partition PROVE Moved
    <3>1. output' = Append(output, t) /\ latest' = latest
      BY <1>6, <2>4 DEF Passes
    <3>2. output' \in Seq(Tuples)
      BY <1>2, <1>4, <3>1, AppendProperties
    <3>3. LatestKnown'
      BY <1>1, <1>2, <3>1 DEF LatestKnown
    <3> QED BY <1>4, <2>1, <2>2, <2>4, <3>1, <3>2, <3>3
  <2> QED BY <2>3, <2>4
<1>7. Moved
  BY <1>2, <1>5, <1>6
<1>8. TypeOK'
  <2>1. todo' = {}
    BY <1>1, <1>2 DEF InHand
  <2>2. todo' \subseteq Kept'
    BY <2>1
  <2> QED BY <1>1, <1>2, <1>3, <1>7, <2>2 DEF TypeOK
<1>9. BufferKnown' /\ Ordered'
  BY <1>1, <1>2 DEF BufferKnown, Ordered, Sorted
<1>10. InputKnown'
  BY <1>1, <1>2, <1>3 DEF InputKnown
<1>11. InHand'
  BY <1>1, <1>2, <1>7 DEF InHand
<1> QED BY <1>7, <1>8, <1>9, <1>10, <1>11 DEF Base, HeldKnown

LEMMA BaseFolded == ASSUME Base, Folded PROVE Base'
<1> USE Constants
<1>1. TypeOK /\ Ordered /\ BufferKnown /\ InputKnown /\ LatestKnown /\ InHand
  BY DEF Base, HeldKnown
<1>2. /\ step = "fold" /\ input = <<>> /\ step' = "send"
      /\ todo' = IF window.partition THEN Kept ELSE {}
      /\ UNCHANGED <<window, listening, queue, stamp, triggers, reading, lastRecvTime,
                     preLastRecvTime, overtaken, buffer, input, output, latest, taken, sent,
                     passed, hashMap, delTime, clock>>
  BY DEF Folded, streamVars, hashVars
<1>3. Kept' = Kept
  BY <1>2 DEF Kept
<1>4. TypeOK'
  BY <1>1, <1>2, <1>3 DEF TypeOK
<1>5. BufferKnown' /\ InputKnown' /\ LatestKnown' /\ Ordered' /\ InHand'
  BY <1>1, <1>2 DEF BufferKnown, InputKnown, LatestKnown, Ordered, Sorted, InHand
<1> QED BY <1>4, <1>5 DEF Base, HeldKnown

(* The operator looks at a kept tuple.                                     *)
LEMMA LookStep ==
    ASSUME Base, NEW k, NEW i, Look(k, i)
    PROVE  /\ step = "send" /\ <<k, i>> \in todo /\ todo' = todo \ {<<k, i>>}
           /\ k \in Keys /\ i \in 1..Len(latest[k]) /\ latest[k][i] \in Tuples
           /\ output' = IF window.dup \/ latest[k][i].recv > preLastRecvTime
                        THEN Append(output, latest[k][i]) ELSE output
           /\ UNCHANGED <<window, listening, queue, stamp, triggers, reading, lastRecvTime,
                          preLastRecvTime, overtaken, buffer, step, input, latest, taken, sent,
                          passed, hashMap, delTime, clock>>
<1>1. TypeOK /\ InHand
  BY DEF Base
<1>2. <<k, i>> \in todo /\ step = "send"
  BY <1>1 DEF Look, InHand
<1>3. k \in Keys /\ i \in 1..Len(latest[k])
  BY <1>1, <1>2, KeptFacts DEF TypeOK
<1>4. latest[k][i] \in Tuples
  <2>1. latest[k] \in Seq(Tuples)
    BY <1>1, <1>3 DEF TypeOK
  <2> QED BY <1>3, <2>1
<1> QED BY <1>2, <1>3, <1>4 DEF Look, streamVars, hashVars

LEMMA BaseLook == ASSUME Base, NEW k, NEW i, Look(k, i) PROVE Base'
<1> USE Constants
<1>1. TypeOK /\ Ordered /\ BufferKnown /\ InputKnown /\ LatestKnown /\ InHand
  BY DEF Base, HeldKnown
<1>2. /\ step = "send" /\ <<k, i>> \in todo /\ todo' = todo \ {<<k, i>>}
      /\ latest[k][i] \in Tuples
      /\ output' = IF window.dup \/ latest[k][i].recv > preLastRecvTime
                   THEN Append(output, latest[k][i]) ELSE output
      /\ UNCHANGED <<window, listening, queue, stamp, triggers, reading, lastRecvTime,
                     preLastRecvTime, overtaken, buffer, step, input, latest, taken, sent,
                     passed, hashMap, delTime, clock>>
  BY LookStep
<1>3. output' \in Seq(Tuples)
  BY <1>1, <1>2, AppendProperties DEF TypeOK
<1>4. Kept' = Kept
  BY <1>2 DEF Kept
<1>5. TypeOK'
  BY <1>1, <1>2, <1>3, <1>4 DEF TypeOK
<1>6. BufferKnown' /\ InputKnown' /\ LatestKnown' /\ Ordered'
  BY <1>1, <1>2 DEF BufferKnown, InputKnown, LatestKnown, Ordered, Sorted
<1>7. InHand'
  BY <1>1, <1>2 DEF InHand
<1> QED BY <1>5, <1>6, <1>7 DEF Base, HeldKnown

Out(k) == {i \in 1..Len(output) : output[i].id = k}

LEMMA OutSize ==
    ASSUME TypeOK, NEW k
    PROVE  Cardinality(Out(k)) \in Nat /\ (k \in Ids(output) => Cardinality(Out(k)) > 0)
<1>1. Len(output) \in Nat /\ Out(k) \in SUBSET (1..Len(output))
  BY DEF TypeOK, Out
<1>2. IsFiniteSet(Out(k)) /\ Cardinality(Out(k)) \in 0..Len(output)
  BY <1>1, PrefixSize
<1>3. Cardinality(Out(k)) = 0 => Out(k) = {}
  BY <1>2, FS_EmptySet
<1>4. k \in Ids(output) => Out(k) # {}
  BY DEF Ids, Out
<1> QED BY <1>1, <1>2, <1>3, <1>4

LEMMA SendStep ==
    ASSUME Base, Send
    PROVE  /\ step = "send" /\ todo = {} /\ step' = "idle" /\ output' = <<>> /\ taken' = {}
           /\ sent' = [k \in 1..MaxTuples |-> sent[k] + Cardinality(Out(k))]
           /\ sent' \in [1..MaxTuples -> Nat]
           /\ UNCHANGED <<window, listening, queue, stamp, triggers, reading, lastRecvTime,
                          preLastRecvTime, overtaken, buffer, input, todo, latest, passed,
                          hashMap, delTime, clock>>
<1>1. TypeOK
  BY DEF Base
<1>2. sent' = [k \in 1..MaxTuples |-> sent[k] + Cardinality(Out(k))]
  BY DEF Send, Out
<1>3. ASSUME NEW k \in 1..MaxTuples PROVE sent[k] + Cardinality(Out(k)) \in Nat
  <2>1. Cardinality(Out(k)) \in Nat
    BY <1>1, OutSize
  <2>2. sent[k] \in Nat
    BY <1>1 DEF TypeOK
  <2> QED BY <2>1, <2>2
<1>4. sent' \in [1..MaxTuples -> Nat]
  BY <1>2, <1>3
<1> QED BY <1>2, <1>4 DEF Send, streamVars, hashVars

LEMMA BaseSend == ASSUME Base, Send PROVE Base'
<1> USE Constants
<1>1. TypeOK /\ Ordered /\ BufferKnown /\ InputKnown /\ LatestKnown /\ InHand
  BY DEF Base, HeldKnown
<1>2. /\ step = "send" /\ todo = {} /\ step' = "idle" /\ output' = <<>> /\ taken' = {}
      /\ sent' \in [1..MaxTuples -> Nat]
      /\ UNCHANGED <<window, listening, queue, stamp, triggers, reading, lastRecvTime,
                     preLastRecvTime, overtaken, buffer, input, todo, latest, passed,
                     hashMap, delTime, clock>>
  BY SendStep
<1>3. output' \in Seq(Tuples) /\ Kept' = Kept
  BY <1>2, EmptySeq DEF Kept
<1>4. TypeOK'
  BY <1>1, <1>2, <1>3 DEF TypeOK
<1>5. input = <<>>
  BY <1>1, <1>2 DEF InHand
<1>6. BufferKnown' /\ InputKnown' /\ LatestKnown' /\ Ordered'
  BY <1>1, <1>2, <1>5 DEF BufferKnown, InputKnown, LatestKnown, Ordered, Sorted
<1>7. InHand'
  BY <1>1, <1>2, <1>5 DEF InHand
<1> QED BY <1>4, <1>6, <1>7 DEF Base, HeldKnown

(* The steps, by what they do.                                             *)
Steps ==
    \/ StreamStep
    \/ Trigger \/ AddQueueListener \/ Tick \/ UNCHANGED vars
    \/ DeleteHashmapStart \/ DeleteHashmap
    \/ Take \/ Fold \/ Folded \/ Send
    \/ \E k, i : Look(k, i)

LEMMA EveryStep == ASSUME Base, [Next]_vars PROVE Steps
<1>1. \/ \E n \in 1..MaxBatch : \E batch \in [1..n -> Messages] : AddTuple(batch)
      \/ Read
      => StreamStep
  BY StreamSteps
<1> QED BY <1>1 DEF Next, Steps

LEMMA BaseNext == ASSUME Base, [Next]_vars PROVE Base'
<1>1. Steps
  BY EveryStep
<1> QED BY <1>1, BaseStream, BaseQuiet, BaseTake, BaseFold, BaseFolded, BaseLook, BaseSend
        DEF Steps

(* Type correctness, for any messages, windows and bounds; with it what    *)
(* the operator holds came from the queue, under its key.                  *)
THEOREM TypeCorrect == Spec => []TypeOK
<1>1. Spec => []Base
  BY BaseInit, BaseNext, PTL DEF Spec
<1>2. Base => TypeOK
  BY DEF Base
<1> QED BY <1>1, <1>2, PTL

-----------------------------------------------------------------------------
(* The filter.  A cleaning under way has a limit that is old enough, and a *)
(* tuple that passed is in the map, since then or later, or is old.        *)
Cleaning == delTime # NoEntry => delTime <= clock - Life

Old(p) == p.at + Life < clock
InMap(p) == hashMap[p.msg] # NoEntry /\ p.at <= hashMap[p.msg]

Remembered ==
    ~window.dup =>
      \A i \in 1..Len(passed) : passed[i].at <= clock /\ (Old(passed[i]) \/ InMap(passed[i]))

Filtered == Cleaning /\ Remembered /\ CopiesApart

LEMMA PassedType ==
    ASSUME Base
    PROVE  /\ clock \in Int /\ Life \in Nat /\ Len(passed) \in Nat
           /\ delTime \in Int /\ hashMap \in [Messages -> Int] /\ NoEntry = -1
           /\ \A m \in Messages : hashMap[m] <= clock \/ hashMap[m] \in Int
           /\ \A i \in 1..Len(passed) : passed[i].at \in Int /\ passed[i].msg \in Messages
<1>1. passed \in Seq(Passed)
  BY DEF Base, TypeOK
<1>2. \A i \in 1..Len(passed) : passed[i] \in Passed
  BY <1>1
<1>3. clock \in Int /\ delTime \in Int /\ hashMap \in [Messages -> Int]
  <2>1. 0..MaxTime \subseteq Int /\ NoEntry \in Int
    BY Constants
  <2> QED BY <2>1 DEF Base, TypeOK
<1> QED BY <1>1, <1>2, <1>3, Constants DEF Passed, NoEntry

LEMMA FilteredInit == Init => Filtered
  BY Constants DEF Init, Filtered, Cleaning, Remembered, CopiesApart

LEMMA FilteredSame ==
    ASSUME Filtered, UNCHANGED <<window, hashMap, delTime, clock, passed>>
    PROVE  Filtered'
  BY DEF Filtered, Cleaning, Remembered, CopiesApart, Old, InMap

LEMMA FilteredTick == ASSUME Base, Filtered, Tick PROVE Filtered'
<1>1. clock' = clock + 1 /\ UNCHANGED <<window, hashMap, delTime, passed>>
  BY DEF Tick, streamVars, operatorVars, hashVars
<1>2. Cleaning'
  BY <1>1, PassedType DEF Filtered, Cleaning
<1>3. Remembered'
  BY <1>1, PassedType DEF Filtered, Remembered, Old, InMap
<1>4. CopiesApart'
  BY <1>1 DEF Filtered, CopiesApart
<1> QED BY <1>2, <1>3, <1>4 DEF Filtered

LEMMA FilteredStart == ASSUME Base, Filtered, DeleteHashmapStart PROVE Filtered'
<1>1. delTime' = clock - Life /\ UNCHANGED <<window, hashMap, clock, passed>>
  BY DEF DeleteHashmapStart, CleanedFrom, streamVars, operatorVars
<1>2. Cleaning'
  BY <1>1, PassedType DEF Cleaning
<1>3. Remembered' /\ CopiesApart'
  BY <1>1 DEF Filtered, Remembered, CopiesApart, Old, InMap
<1> QED BY <1>2, <1>3 DEF Filtered

(* What is deleted was put there before the limit, and so is old by now.   *)
LEMMA FilteredDelete == ASSUME Base, Filtered, DeleteHashmap PROVE Filtered'
<1>1. /\ delTime # NoEntry /\ delTime' = NoEntry /\ UNCHANGED <<window, clock, passed>>
      /\ hashMap' = [m \in Messages |-> IF hashMap[m] < delTime THEN NoEntry ELSE hashMap[m]]
  BY DEF DeleteHashmap, streamVars, operatorVars
<1>2. delTime <= clock - Life
  BY <1>1 DEF Filtered, Cleaning
<1>3. Cleaning' /\ CopiesApart'
  BY <1>1 DEF Filtered, Cleaning, CopiesApart
<1>4. ASSUME ~window.dup, NEW i \in 1..Len(passed)
      PROVE  passed[i].at <= clock /\ (Old(passed[i]) \/ InMap(passed[i])')
  <2>1. passed[i].at <= clock /\ (Old(passed[i]) \/ InMap(passed[i]))
    BY <1>4 DEF Filtered, Remembered
  <2>2. passed[i].msg \in Messages /\ passed[i].at \in Int /\ hashMap[passed[i].msg] \in Int
    BY PassedType
  <2>3. CASE Old(passed[i])
    BY <2>1, <2>3
  <2>4. CASE InMap(passed[i]) /\ hashMap[passed[i].msg] < delTime
    BY <1>2, <2>1, <2>2, <2>4, PassedType DEF InMap, Old
  <2>5. CASE InMap(passed[i]) /\ ~(hashMap[passed[i].msg] < delTime)
    BY <1>1, <2>1, <2>2, <2>5 DEF InMap
  <2> QED BY <2>1, <2>3, <2>4, <2>5
<1>5. Remembered'
  BY <1>1, <1>4 DEF Remembered, Old, InMap
<1> QED BY <1>3, <1>5 DEF Filtered

LEMMA FilteredFold == ASSUME Base, Filtered, Fold PROVE Filtered'
<1> DEFINE t == Head(input)
           new == [id |-> t.id, msg |-> t.msg, at |-> clock]
<1>1. /\ t \in Tuples /\ t.msg \in Messages /\ UNCHANGED <<window, delTime, clock>>
      /\ UNCHANGED <<hashMap, latest, output, passed>> \/ Passes(t)
  BY FoldStep
<1>2. CASE UNCHANGED <<hashMap, latest, output, passed>>
  BY <1>1, <1>2, FilteredSame
<1>3. CASE Passes(t)
  <2>1. passed' = Append(passed, new) /\ ~Match(t.msg)
        /\ hashMap' = IF window.dup THEN hashMap ELSE [hashMap EXCEPT ![t.msg] = clock]
    BY <1>3 DEF Passes
  <2>2. /\ passed \in Seq(Passed) /\ clock \in 0..MaxTime /\ new \in Passed
        /\ hashMap \in [Messages -> 0..MaxTime \cup {NoEntry}]
    BY <1>1 DEF Base, TypeOK, Passed, Tuples
  <2>3. /\ Len(passed') = Len(passed) + 1 /\ passed'[Len(passed) + 1] = new
        /\ \A i \in 1..Len(passed) : passed'[i] = passed[i]
    BY <2>1, <2>2, AppendProperties
  <2>4. new.msg = t.msg /\ new.at = clock
    OBVIOUS
  <2> HIDE DEF new, t
  <2>5. Cleaning'
    BY <1>1 DEF Filtered, Cleaning
  <2>6. CASE window.dup
    BY <1>1, <2>5, <2>6 DEF Filtered, Remembered, CopiesApart
  <2>7. CASE ~window.dup
    <3>1. hashMap' = [hashMap EXCEPT ![t.msg] = clock] /\ hashMap[t.msg] = NoEntry
      BY <2>1, <2>7 DEF Match
    <3>2. ASSUME NEW i \in 1..Len(passed)
          PROVE  /\ passed[i].at <= clock /\ passed[i].at \in Int /\ passed[i].msg \in Messages
                 /\ Old(passed[i]) \/ InMap(passed[i])
      BY <2>7, PassedType DEF Filtered, Remembered
    <3>3. ASSUME NEW i \in 1..Len(passed)
          PROVE  \/ Old(passed[i])
                 \/ hashMap'[passed[i].msg] # NoEntry /\ passed[i].at <= hashMap'[passed[i].msg]
      <4>1. CASE passed[i].msg = t.msg
        BY <1>1, <2>2, <3>1, <3>2, <4>1, Constants DEF InMap
      <4>2. CASE passed[i].msg # t.msg
        BY <1>1, <2>2, <3>1, <3>2, <4>2 DEF InMap
      <4> QED BY <4>1, <4>2
    <3>4. \A i \in 1..Len(passed') : i \in 1..Len(passed) \/ i = Len(passed) + 1
      BY <2>2, <2>3
    <3>5. hashMap'[new.msg] = clock /\ clock # NoEntry
      BY <1>1, <2>2, <2>4, <3>1, Constants
    <3>6. Remembered'
      <4>1. ASSUME NEW i \in 1..Len(passed')
            PROVE  /\ passed'[i].at <= clock
                   /\ \/ passed'[i].at + Life < clock
                      \/ /\ hashMap'[passed'[i].msg] # NoEntry
                         /\ passed'[i].at <= hashMap'[passed'[i].msg]
        <5>1. CASE i \in 1..Len(passed)
          BY <2>3, <3>2, <3>3, <5>1 DEF Old
        <5>2. CASE i = Len(passed) + 1
          BY <2>2, <2>3, <2>4, <3>5, <5>2
        <5> QED BY <3>4, <5>1, <5>2
      <4> QED BY <1>1, <4>1 DEF Remembered, Old, InMap
    <3>7. CopiesApart'
      <4>1. ASSUME NEW i \in 1..Len(passed'), NEW j \in 1..Len(passed'), i < j,
                   passed'[i].msg = passed'[j].msg
            PROVE  passed'[j].at - passed'[i].at > Life
        <5>1. i \in 1..Len(passed)
          BY <2>2, <2>3, <4>1
        <5>2. CASE j \in 1..Len(passed)
          BY <2>3, <2>7, <4>1, <5>1, <5>2 DEF Filtered, CopiesApart
        <5>3. CASE j = Len(passed) + 1
          <6>1. passed[i].msg = t.msg /\ passed'[j].at = clock /\ passed'[i] = passed[i]
            BY <2>3, <2>4, <4>1, <5>1, <5>3
          <6>2. Old(passed[i])
            BY <3>1, <3>2, <5>1, <6>1 DEF InMap
          <6> QED BY <2>2, <3>2, <5>1, <6>1, <6>2, Constants DEF Old
        <5> QED BY <3>4, <5>2, <5>3
      <4> QED BY <4>1 DEF CopiesApart
    <3> QED BY <2>5, <3>6, <3>7 DEF Filtered
  <2> QED BY <2>6, <2>7
<1> QED BY <1>1, <1>2, <1>3

LEMMA FilteredNext == ASSUME Base, Filtered, [Next]_vars PROVE Filtered'
<1>1. Steps
  BY EveryStep
<1>2. CASE StreamStep \/ Trigger \/ AddQueueListener \/ Take \/ Folded \/ UNCHANGED vars
  BY <1>2, FilteredSame DEF StreamStep, Trigger, AddQueueListener, Take, Folded, vars, streamVars,
     operatorVars, hashVars
<1>3. CASE Send \/ \E k, i : Look(k, i)
  BY <1>3, FilteredSame DEF Send, Look, streamVars, hashVars
<1> QED BY <1>1, <1>2, <1>3, FilteredTick, FilteredStart, FilteredDelete, FilteredFold DEF Steps

(* A message passes the filter again only when more than Life is between,  *)
(* whatever time hash values are kept for, however a cleaning meets the    *)
(* operator.                                                               *)
THEOREM CopiesKeptApart == Spec => []CopiesApart
<1>1. Init => Base /\ Filtered
  BY BaseInit, FilteredInit
<1>2. Base /\ Filtered /\ [Next]_vars => (Base /\ Filtered)'
  BY BaseNext, FilteredNext
<1>3. Base /\ Filtered => CopiesApart
  BY DEF Filtered
<1> QED BY <1>1, <1>2, <1>3, PTL DEF Spec

-----------------------------------------------------------------------------
(* What is hidden.  A tuple that waits or is in hand, and that no later    *)
(* batch overtook, came after preLastRecvTime ...                          *)
Ahead ==
    /\ Waiting \subseteq 1..Len(queue)
    /\ \A id \in Waiting \ overtaken : queue[id].recv > preLastRecvTime

(* ... so the operator sends it on when it looks at it.                    *)
Pending ==
    \A k \in Keys : \A i \in 1..Len(latest[k]) :
      latest[k][i].id \in taken \cup overtaken \/ sent[latest[k][i].id] > 0

Looked ==
    step = "send" =>
      \A k \in Keys : \A i \in 1..Len(latest[k]) :
        <<k, i>> \notin todo /\ latest[k][i].id \in taken \ overtaken
          => latest[k][i].id \in Ids(output)

Shown == Ahead /\ Pending /\ Looked

LEMMA KeptId ==
    ASSUME Base, NEW k \in Keys, NEW i \in 1..Len(latest[k])
    PROVE  /\ latest[k][i] \in Tuples /\ latest[k][i].id \in 1..MaxTuples
           /\ Known(latest[k][i], queue)
<1>1. latest[k] \in Seq(Tuples)
  BY DEF Base, TypeOK
<1>2. latest[k][i] \in Tuples
  BY <1>1
<1> QED BY <1>2 DEF Base, HeldKnown, LatestKnown, Tuples

LEMMA ShownInit == Init => Shown
  BY DEF Init, Shown, Ahead, Pending, Looked, Waiting

LEMMA ShownSame ==
    ASSUME Shown, UNCHANGED <<queue, preLastRecvTime, buffer, taken, overtaken, latest, sent,
                              step, todo, output>>
    PROVE  Shown'
  BY DEF Shown, Ahead, Pending, Looked, Waiting

LEMMA ShownStream == ASSUME Base, Shown, StreamStep PROVE Shown'
<1>1. UNCHANGED <<step, todo, output, latest, taken, sent>>
  BY DEF StreamStep, operatorVars
<1>2. /\ Len(queue) \in Nat /\ Len(queue') \in Nat /\ Len(queue) <= Len(queue')
      /\ \A id \in 1..Len(queue) : queue'[id] = queue[id]
  BY DEF StreamStep, Base, TypeOK
<1>3. Waiting \subseteq 1..Len(queue')
  BY <1>2 DEF Shown, Ahead
<1> DEFINE Goal == Ahead' /\ overtaken \subseteq overtaken'
<1>4. ASSUME UNCHANGED <<lastRecvTime, preLastRecvTime, buffer, overtaken>> PROVE Goal
  <2>1. Waiting' = Waiting
    BY <1>1, <1>4 DEF Waiting
  <2> QED BY <1>2, <1>3, <1>4, <2>1 DEF Shown, Ahead
<1>5. ASSUME NEW b, Handed(b) PROVE Goal
  <2>1. /\ b \in Seq(Tuples) /\ buffer' = Append(buffer, b) /\ preLastRecvTime' = lastRecvTime
        /\ overtaken' = overtaken \cup Waiting
        /\ \A i \in 1..Len(b) : /\ b[i].id \in 1..Len(queue') /\ queue'[b[i].id] = b[i]
                                /\ b[i].recv > lastRecvTime
    BY <1>5 DEF Handed
  <2>2. /\ buffer \in Seq(Seq(Tuples)) /\ Len(buffer') = Len(buffer) + 1
        /\ buffer'[Len(buffer) + 1] = b
        /\ \A k \in 1..Len(buffer) : buffer'[k] = buffer[k]
    BY <2>1, AppendProperties DEF Base, TypeOK
  <2>3. \A k \in 1..Len(buffer') : k \in 1..Len(buffer) \/ k = Len(buffer) + 1
    BY <2>2
  <2>4. \A k \in 1..Len(buffer') : Ids(buffer'[k]) \subseteq Waiting \cup Ids(b)
    BY <2>2, <2>3 DEF Waiting
  <2>5. Waiting' \subseteq Waiting \cup Ids(b)
    BY <1>1, <2>4 DEF Waiting
  <2>6. \A id \in Ids(b) : id \in 1..Len(queue') /\ queue'[id].recv > lastRecvTime
    BY <2>1 DEF Ids
  <2>7. Waiting' \subseteq 1..Len(queue')
    BY <1>3, <2>5, <2>6
  <2>8. \A id \in Waiting' \ overtaken' : queue'[id].recv > preLastRecvTime'
    BY <2>1, <2>5, <2>6
  <2> QED BY <2>1, <2>7, <2>8 DEF Ahead
<1>6. Goal
  BY <1>4, <1>5 DEF StreamStep
<1>7. Pending' /\ Looked'
  BY <1>1, <1>6 DEF Shown, Pending, Looked
<1> QED BY <1>6, <1>7 DEF Shown

LEMMA ShownTake == ASSUME Base, Shown, Take PROVE Shown'
<1>1. /\ step = "idle" /\ buffer # <<>> /\ step' = "fold" /\ taken' = Ids(Head(buffer))
      /\ buffer' = Tail(buffer) /\ taken = {}
      /\ UNCHANGED <<queue, preLastRecvTime, overtaken, latest, sent>>
  BY DEF Take, streamVars, Base, InHand
<1>2. /\ Head(buffer) = buffer[1] /\ 1 \in 1..Len(buffer)
      /\ \A k \in 1..Len(buffer') : buffer'[k] = buffer[k + 1] /\ k + 1 \in 1..Len(buffer)
  <2>1. buffer \in Seq(Seq(Tuples))
    BY DEF Base, TypeOK
  <2> QED BY <1>1, <2>1, RestFacts
<1>3. Waiting' \subseteq Waiting
  <2>1. \A k \in 1..Len(buffer') : Ids(buffer'[k]) \subseteq Waiting
    BY <1>2 DEF Waiting
  <2>2. taken' \subseteq Waiting
    BY <1>1, <1>2 DEF Waiting
  <2> QED BY <2>1, <2>2 DEF Waiting
<1>4. Ahead'
  BY <1>1, <1>3 DEF Shown, Ahead
<1>5. Pending' /\ Looked'
  BY <1>1 DEF Shown, Pending, Looked
<1> QED BY <1>4, <1>5 DEF Shown

LEMMA ShownFold == ASSUME Base, Shown, Fold PROVE Shown'
<1> USE Constants
<1> DEFINE t == Head(input)
<1>1. /\ step = "fold" /\ t \in Tuples /\ t.msg \in Messages /\ t.id \in taken
      /\ UNCHANGED <<window, queue, preLastRecvTime, overtaken, buffer, step, todo, taken, sent>>
      /\ UNCHANGED <<hashMap, latest, output, passed>> \/ Passes(t)
  BY FoldStep
<1> HIDE DEF t
<1>2. Ahead' /\ Looked'
  BY <1>1 DEF Shown, Ahead, Looked, Waiting
<1>3. CASE UNCHANGED <<hashMap, latest, output, passed>>
  BY <1>1, <1>2, <1>3 DEF Shown, Pending
<1>4. CASE Passes(t) /\ ~window.partition
  <2>1. latest' = latest
    BY <1>4 DEF Passes
  <2> QED BY <1>1, <1>2, <2>1 DEF Shown, Pending
<1>5. CASE Passes(t) /\ window.partition
  <2> DEFINE key == Key[t.msg]
             r == Insert(latest[key], t)
  <2>1. key \in Keys /\ latest' = [latest EXCEPT ![key] = r]
    BY <1>1, <1>5 DEF Passes
  <2>2. /\ latest \in [Keys -> Seq(Tuples)]
        /\ \A i \in 1..Len(r) : r[i] = t \/ \E j \in 1..Len(latest[key]) : r[i] = latest[key][j]
    <3>1. latest \in [Keys -> Seq(Tuples)] /\ window \in Window
      BY DEF Base, TypeOK
    <3>2. latest[key] \in Seq(Tuples) /\ Len(latest[key]) <= window.rows
      BY <2>1 DEF Base, TypeOK
    <3> QED BY <1>1, <3>1, <3>2, InsertFacts
  <2> HIDE DEF r, key
  <2>3. ASSUME NEW k \in Keys, NEW i \in 1..Len(latest'[k])
        PROVE  latest'[k][i].id \in taken \cup overtaken \/ sent[latest'[k][i].id] > 0
    <3>1. CASE k = key
      <4>1. latest'[k] = r
        BY <2>1, <2>2, <3>1
      <4>2. r[i] = t \/ \E j \in 1..Len(latest[key]) : r[i] = latest[key][j]
        BY <2>2, <2>3, <4>1
      <4> QED BY <1>1, <2>1, <4>1, <4>2 DEF Shown, Pending
    <3>2. CASE k # key
      <4>1. latest'[k] = latest[k]
        BY <2>1, <2>2, <3>2
      <4> QED BY <2>3, <4>1 DEF Shown, Pending
    <3> QED BY <3>1, <3>2
  <2>4. Pending'
    BY <1>1, <2>3 DEF Pending
  <2> QED BY <1>2, <2>4 DEF Shown
<1> QED BY <1>1, <1>3, <1>4, <1>5

LEMMA ShownFolded == ASSUME Base, Shown, Folded PROVE Shown'
<1>1. /\ step' = "send" /\ todo' = IF window.partition THEN Kept ELSE {}
      /\ UNCHANGED <<window, queue, preLastRecvTime, overtaken, buffer, latest, taken, sent>>
  BY DEF Folded, streamVars
<1>2. Ahead' /\ Pending'
  BY <1>1 DEF Shown, Ahead, Pending, Waiting
<1>3. CASE window.partition
  <2>1. Looked'
    BY <1>1, <1>3, KeptFacts DEF Looked
  <2> QED BY <1>2, <2>1 DEF Shown
<1>4. CASE ~window.partition
  <2>1. \A k \in Keys : latest[k] = <<>>
    BY <1>4 DEF Base, InHand
  <2>2. Looked'
    BY <1>1, <2>1 DEF Looked
  <2> QED BY <1>2, <2>2 DEF Shown
<1> QED BY <1>3, <1>4

LEMMA ShownLook == ASSUME Base, Shown, NEW k, NEW i, Look(k, i) PROVE Shown'
<1>1. /\ step = "send" /\ todo' = todo \ {<<k, i>>}
      /\ k \in Keys /\ i \in 1..Len(latest[k]) /\ latest[k][i] \in Tuples
      /\ output' = IF window.dup \/ latest[k][i].recv > preLastRecvTime
                   THEN Append(output, latest[k][i]) ELSE output
      /\ UNCHANGED <<window, queue, preLastRecvTime, overtaken, buffer, step, latest, taken, sent>>
  BY LookStep
<1>2. Ahead' /\ Pending'
  BY <1>1 DEF Shown, Ahead, Pending, Waiting
<1>3. output \in Seq(Tuples)
  BY DEF Base, TypeOK
<1>4. Ids(output) \subseteq Ids(output')
  <2>1. CASE output' = output
    BY <2>1
  <2>2. CASE output' = Append(output, latest[k][i])
    <3>1. /\ Len(output') = Len(output) + 1 /\ \A j \in 1..Len(output) : output'[j] = output[j]
          /\ \A j \in 1..Len(output) : j \in 1..Len(output')
      BY <1>1, <1>3, <2>2, AppendProperties
    <3> QED BY <3>1 DEF Ids
  <2> QED BY <1>1, <2>1, <2>2
<1>5. ASSUME latest[k][i].id \in taken \ overtaken PROVE latest[k][i].id \in Ids(output')
  <2>1. queue[latest[k][i].id] = latest[k][i]
    BY <1>1, KeptId DEF Known
  <2>2. latest[k][i].recv > preLastRecvTime
    BY <1>5, <2>1 DEF Shown, Ahead, Waiting
  <2>3. output' = Append(output, latest[k][i])
    BY <1>1, <2>2
  <2>4. Len(output) + 1 \in 1..Len(output') /\ output'[Len(output) + 1] = latest[k][i]
    BY <1>1, <1>3, <2>3, AppendProperties
  <2> QED BY <2>4 DEF Ids
<1>6. ASSUME NEW l \in Keys, NEW j \in 1..Len(latest[l]), <<l, j>> \notin todo',
             latest[l][j].id \in taken \ overtaken
      PROVE  latest[l][j].id \in Ids(output')
  <2>1. CASE <<l, j>> = <<k, i>>
    BY <1>5, <1>6, <2>1
  <2>2. CASE <<l, j>> # <<k, i>>
    <3>1. <<l, j>> \notin todo
      BY <1>1, <1>6, <2>2
    <3> QED BY <1>1, <1>4, <1>6, <3>1 DEF Shown, Looked
  <2> QED BY <2>1, <2>2
<1>7. Looked'
  BY <1>1, <1>6 DEF Looked
<1> QED BY <1>2, <1>7 DEF Shown

LEMMA ShownSend == ASSUME Base, Shown, Send PROVE Shown'
<1>1. /\ step = "send" /\ todo = {} /\ step' = "idle" /\ taken' = {}
      /\ sent' = [k \in 1..MaxTuples |-> sent[k] + Cardinality(Out(k))]
      /\ UNCHANGED <<queue, preLastRecvTime, overtaken, buffer, latest>>
  BY SendStep
<1>2. Waiting' \subseteq Waiting
  BY <1>1 DEF Waiting
<1>3. Ahead' /\ Looked'
  BY <1>1, <1>2 DEF Shown, Ahead, Looked
<1>4. ASSUME NEW k \in Keys, NEW i \in 1..Len(latest[k])
      PROVE  latest[k][i].id \in overtaken \/ sent'[latest[k][i].id] > 0
  <2> DEFINE id == latest[k][i].id
  <2>1. id \in 1..MaxTuples
    BY KeptId
  <2> HIDE DEF id
  <2>2. sent[id] \in Nat /\ sent'[id] = sent[id] + Cardinality(Out(id))
    BY <1>1, <2>1 DEF Base, TypeOK
  <2>3. Cardinality(Out(id)) \in Nat /\ (id \in Ids(output) => Cardinality(Out(id)) > 0)
    BY OutSize DEF Base
  <2>4. id \in taken \cup overtaken \/ sent[id] > 0
    BY DEF Shown, Pending, id
  <2>5. id \in taken \ overtaken => id \in Ids(output)
    BY <1>1 DEF Shown, Looked, id
  <2>6. id \in overtaken \/ sent'[id] > 0
    BY <2>2, <2>3, <2>4, <2>5
  <2> QED BY <2>6 DEF id
<1>5. Pending'
  BY <1>1, <1>4 DEF Pending
<1> QED BY <1>3, <1>5 DEF Shown

LEMMA ShownNext == ASSUME Base, Shown, [Next]_vars PROVE Shown'
<1>1. Steps
  BY EveryStep
<1>2. CASE \/ Trigger \/ AddQueueListener \/ Tick \/ UNCHANGED vars
           \/ DeleteHashmapStart \/ DeleteHashmap
  BY <1>2, ShownSame DEF Trigger, AddQueueListener, Tick, vars, DeleteHashmapStart, DeleteHashmap,
     streamVars, operatorVars
<1> QED BY <1>1, <1>2, ShownStream, ShownTake, ShownFold, ShownFolded, ShownLook, ShownSend DEF Steps

(* Only a batch that comes before the operator is done with a tuple set    *)
(* hides one of its tuples: for any windows, messages and bounds.          *)
THEOREM OnlyOvertakenHidden == Spec => []HiddenOnlyIfOvertaken
<1>1. Init => Base /\ Shown
  BY BaseInit, ShownInit
<1>2. Base /\ Shown /\ [Next]_vars => (Base /\ Shown)'
  BY BaseNext, ShownNext
<1>3. Base /\ Shown => HiddenOnlyIfOvertaken
  BY DEF Base, InHand, Shown, Pending, HiddenOnlyIfOvertaken
<1> QED BY <1>1, <1>2, <1>3, PTL DEF Spec

-----------------------------------------------------------------------------
(* How often a tuple is in a sequence, and in how many tuple sets.         *)
Once(holds) == IF holds THEN 1 ELSE 0
Places(s, k) == {i \in 1..Len(s) : s[i].id = k}
Holding(b, k) == {j \in 1..Len(b) : k \in Ids(b[j])}

LEMMA InjectionSize ==
    ASSUME NEW S, NEW T, IsFiniteSet(T), NEW f \in [S -> T], \A x, y \in S : f[x] = f[y] => x = y
    PROVE  IsFiniteSet(S) /\ Cardinality(S) <= Cardinality(T)
<1>1. f \in Injection(S, T)
  BY DEF Injection, IsInjective
<1> QED BY <1>1, FS_Injection

LEMMA PlacesSize ==
    ASSUME NEW s \in Seq(Tuples), NEW k
    PROVE  /\ IsFiniteSet(Places(s, k)) /\ Cardinality(Places(s, k)) \in 0..Len(s)
           /\ k \notin Ids(s) => Cardinality(Places(s, k)) = 0
           /\ Len(s) \in Nat
<1>1. Len(s) \in Nat /\ Places(s, k) \in SUBSET (1..Len(s))
  BY DEF Places
<1>2. k \notin Ids(s) => Places(s, k) = {}
  BY DEF Places, Ids
<1> QED BY <1>1, <1>2, PrefixSize, FS_EmptySet

LEMMA PlacesAppend ==
    ASSUME NEW s \in Seq(Tuples), NEW t \in Tuples, NEW k
    PROVE  Cardinality(Places(Append(s, t), k)) = Cardinality(Places(s, k)) + Once(t.id = k)
<1>1. /\ Len(s) \in Nat /\ Len(Append(s, t)) = Len(s) + 1 /\ Append(s, t)[Len(s) + 1] = t
      /\ \A i \in 1..Len(s) : Append(s, t)[i] = s[i]
  BY AppendProperties
<1>2. IsFiniteSet(Places(s, k)) /\ Cardinality(Places(s, k)) \in Nat
  BY PlacesSize
<1>3. CASE t.id = k
  <2>1. Places(Append(s, t), k) = Places(s, k) \cup {Len(s) + 1}
    BY <1>1, <1>3 DEF Places
  <2>2. Len(s) + 1 \notin Places(s, k)
    BY <1>1 DEF Places
  <2> QED BY <1>2, <1>3, <2>1, <2>2, FS_AddElement DEF Once
<1>4. CASE t.id # k
  <2>1. Places(Append(s, t), k) = Places(s, k)
    BY <1>1, <1>4 DEF Places
  <2> QED BY <1>2, <1>4, <2>1 DEF Once
<1> QED BY <1>3, <1>4

LEMMA HoldingSize ==
    ASSUME NEW b \in Seq(Seq(Tuples)), NEW k
    PROVE  /\ IsFiniteSet(Holding(b, k)) /\ Cardinality(Holding(b, k)) \in Nat
           /\ (\A j \in 1..Len(b) : k \notin Ids(b[j])) => Cardinality(Holding(b, k)) = 0
<1>1. Len(b) \in Nat /\ Holding(b, k) \in SUBSET (1..Len(b))
  BY DEF Holding
<1>2. (\A j \in 1..Len(b) : k \notin Ids(b[j])) => Holding(b, k) = {}
  BY DEF Holding
<1> QED BY <1>1, <1>2, PrefixSize, FS_EmptySet

LEMMA HoldingAppend ==
    ASSUME NEW b \in Seq(Seq(Tuples)), NEW s \in Seq(Tuples), NEW k
    PROVE  Cardinality(Holding(Append(b, s), k)) = Cardinality(Holding(b, k)) + Once(k \in Ids(s))
<1>1. /\ Len(b) \in Nat /\ Len(Append(b, s)) = Len(b) + 1 /\ Append(b, s)[Len(b) + 1] = s
      /\ \A i \in 1..Len(b) : Append(b, s)[i] = b[i]
  BY AppendProperties
<1>2. IsFiniteSet(Holding(b, k)) /\ Cardinality(Holding(b, k)) \in Nat
  BY HoldingSize
<1>3. CASE k \in Ids(s)
  <2>1. Holding(Append(b, s), k) = Holding(b, k) \cup {Len(b) + 1}
    <3>1. Holding(b, k) \cup {Len(b) + 1} \subseteq Holding(Append(b, s), k)
      BY <1>1, <1>3 DEF Holding
    <3>2. ASSUME NEW j \in Holding(Append(b, s), k) PROVE j \in Holding(b, k) \cup {Len(b) + 1}
      <4>1. j \in 1..Len(b) \/ j = Len(b) + 1
        BY <1>1, <3>2 DEF Holding
      <4> QED BY <1>1, <3>2, <4>1 DEF Holding
    <3> QED BY <3>1, <3>2
  <2>2. Len(b) + 1 \notin Holding(b, k)
    BY <1>1 DEF Holding
  <2> QED BY <1>2, <1>3, <2>1, <2>2, FS_AddElement DEF Once
<1>4. CASE k \notin Ids(s)
  <2>1. Holding(Append(b, s), k) = Holding(b, k)
    <3>1. Holding(b, k) \subseteq Holding(Append(b, s), k)
      BY <1>1 DEF Holding
    <3>2. ASSUME NEW j \in Holding(Append(b, s), k) PROVE j \in Holding(b, k)
      <4>1. j \in 1..Len(b) \/ j = Len(b) + 1
        BY <1>1, <3>2 DEF Holding
      <4> QED BY <1>1, <1>4, <3>2, <4>1 DEF Holding
    <3> QED BY <3>1, <3>2
  <2> QED BY <1>2, <1>4, <2>1 DEF Once
<1> QED BY <1>3, <1>4

LEMMA HoldingTail ==
    ASSUME NEW b \in Seq(Seq(Tuples)), b # <<>>, NEW k
    PROVE  /\ Cardinality(Holding(Tail(b), k)) \in Nat
           /\ Cardinality(Holding(Tail(b), k)) + Once(k \in Ids(Head(b)))
                 <= Cardinality(Holding(b, k))
<1>1. /\ Head(b) = b[1] /\ Len(b) >= 1 /\ Tail(b) \in Seq(Seq(Tuples)) /\ Len(b) \in Nat
      /\ \A i \in 1..Len(Tail(b)) : Tail(b)[i] = b[i + 1] /\ i + 1 \in 1..Len(b)
  BY RestFacts
<1> DEFINE S == Holding(Tail(b), k)
           T == Holding(b, k) \ {1}
           f == [j \in S |-> j + 1]
<1>2. IsFiniteSet(Holding(b, k)) /\ Cardinality(Holding(b, k)) \in Nat /\ Cardinality(S) \in Nat
  BY <1>1, HoldingSize
<1>3. /\ IsFiniteSet(T)
      /\ Cardinality(T) = Cardinality(Holding(b, k)) - Once(k \in Ids(Head(b)))
  <2>1. 1 \in Holding(b, k) <=> k \in Ids(Head(b))
    BY <1>1 DEF Holding
  <2> QED BY <1>2, <2>1, FS_RemoveElement DEF Once
<1>4. ASSUME NEW j \in S PROVE j \in Nat /\ j >= 1 /\ j + 1 \in T
  BY <1>1 DEF Holding
<1>5. f \in [S -> T] /\ \A i, j \in S : f[i] = f[j] => i = j
  <2> HIDE DEF S, T
  <2> QED BY <1>4
<1>6. Cardinality(S) <= Cardinality(T)
  <2> HIDE DEF S, T, f
  <2> QED BY <1>3, <1>5, InjectionSize
<1> QED BY <1>2, <1>3, <1>6 DEF Once

(* Inserting a tuple adds it once at most, and no other.                   *)
LEMMA PlacesInsert ==
    ASSUME window \in Window, NEW dq \in Seq(Tuples), NEW t \in Tuples, NEW k
    PROVE  /\ Cardinality(Places(Insert(dq, t), k)) \in Nat
           /\ Cardinality(Places(Insert(dq, t), k)) <= Cardinality(Places(dq, k)) + Once(t.id = k)
<1>1. window.rows \in Nat /\ window.rows >= 1
  BY DEF Window
<1>2. IsFiniteSet(Places(dq, k)) /\ Cardinality(Places(dq, k)) \in Nat /\ Once(t.id = k) \in {0, 1}
  BY PlacesSize DEF Once
<1>3. CASE window.rows = 1
  <2>1. CASE Insert(dq, t) = dq
    BY <1>2, <2>1
  <2>2. CASE Insert(dq, t) = <<t>>
    <3>1. <<t>> \in Seq(Tuples) /\ Len(<<t>>) = 1 /\ <<t>>[1] = t
      OBVIOUS
    <3>2. Cardinality(Places(<<t>>, k)) \in 0..1
      BY <3>1, PlacesSize
    <3>3. t.id # k => k \notin Ids(<<t>>)
      BY <3>1 DEF Ids
    <3>4. t.id # k => Cardinality(Places(<<t>>, k)) = 0
      BY <3>1, <3>3, PlacesSize
    <3> QED BY <1>2, <2>2, <3>2, <3>4 DEF Once
  <2> QED BY <1>3, <2>1, <2>2 DEF Insert
<1>4. CASE window.rows # 1
  <2> DEFINE w == InOrder(dq, t)
             r == Insert(dq, t)
             S == Places(r, k)
             T == Places(dq, k) \cup (IF t.id = k THEN {Len(dq) + 1} ELSE {})
  <2>1. w \in Seq(Tuples) /\ Len(w) = Len(dq) + 1 /\ Len(dq) \in Nat
    BY InOrderFacts
  <2>2. PICK n \in 0..Len(dq) : \A i \in 1..Len(w) :
           w[i] = IF i <= n THEN dq[i] ELSE IF i = n + 1 THEN t ELSE dq[i - 1]
    BY InOrderFacts
  <2>3. r = Newest(window.rows, w)
    BY <1>4 DEF Insert
  <2>4. /\ r \in Seq(Tuples) /\ Len(r) <= Len(w) /\ Len(r) \in Nat
        /\ \A i \in 1..Len(r) : r[i] = w[Len(w) - Len(r) + i]
    <3> HIDE DEF w, r
    <3>1. /\ r \in Seq(Tuples) /\ Len(r) <= Len(w)
          /\ \A i \in 1..Len(r) : r[i] = w[Len(w) - Len(r) + i]
      BY <1>1, <2>1, <2>3, NewestFacts
    <3> QED BY <3>1
  <2>5. IsFiniteSet(T) /\ Cardinality(T) = Cardinality(Places(dq, k)) + Once(t.id = k)
    <3>1. Len(dq) + 1 \notin Places(dq, k)
      BY <2>1 DEF Places
    <3>2. CASE t.id = k
      BY <1>2, <3>1, <3>2, FS_AddElement DEF Once
    <3>3. CASE t.id # k
      BY <1>2, <3>3 DEF Once
    <3> QED BY <3>2, <3>3
  <2> DEFINE at(i) == Len(w) - Len(r) + i
             g(i) == IF i <= n THEN i ELSE IF i = n + 1 THEN Len(dq) + 1 ELSE i - 1
             f == [i \in S |-> g(at(i))]
  <2> HIDE DEF w, r
  <2>6. ASSUME NEW i \in S
        PROVE  i \in 1..Len(r) /\ at(i) \in 1..Len(w) /\ w[at(i)].id = k
    <3>1. i \in 1..Len(r) /\ r[i].id = k
      BY DEF Places
    <3> QED BY <2>1, <2>4, <3>1
  <2>7. ASSUME NEW i \in S PROVE g(at(i)) \in T
    <3>1. PICK a : a = at(i)
      OBVIOUS
    <3>2. a \in 1..Len(w) /\ w[a].id = k
      BY <2>6, <3>1
    <3> SUFFICES g(a) \in T
      BY <3>1
    <3>3. CASE a <= n
      BY <2>1, <2>2, <3>2, <3>3 DEF Places
    <3>4. CASE a = n + 1
      BY <2>1, <2>2, <3>2, <3>4 DEF Places
    <3>5. CASE a > n + 1
      <4>1. a - 1 \in 1..Len(dq) /\ w[a] = dq[a - 1] /\ g(a) = a - 1
        BY <2>1, <2>2, <3>2, <3>5
      <4> QED BY <3>2, <4>1 DEF Places
    <3> QED BY <2>1, <3>2, <3>3, <3>4, <3>5
  <2>8. ASSUME NEW i \in S, NEW j \in S, g(at(i)) = g(at(j)) PROVE i = j
    <3>1. at(i) \in 1..Len(dq) + 1 /\ at(j) \in 1..Len(dq) + 1 /\ i \in Int /\ j \in Int
      BY <2>1, <2>6
    <3>2. at(i) = at(j)
      BY <2>1, <2>8, <3>1
    <3> QED BY <2>1, <2>4, <3>1, <3>2
  <2> HIDE DEF S, T, at, g
  <2>9. f \in [S -> T] /\ \A i, j \in S : f[i] = f[j] => i = j
    BY <2>7, <2>8
  <2> HIDE DEF f
  <2>10. Cardinality(S) <= Cardinality(T) /\ IsFiniteSet(S)
    BY <2>5, <2>9, InjectionSize
  <2>11. Cardinality(S) \in Nat
    BY <2>10, FS_CardinalityType
  <2> QED BY <2>5, <2>10, <2>11 DEF S, r
<1> QED BY <1>3, <1>4

-----------------------------------------------------------------------------
(* What is handed over of a partitioned window is all that came after      *)
(* lastRecvTime.                                                           *)
LEMMA TupleSetWhole ==
    ASSUME window.partition, lastRecvTime \in Nat, NEW q \in Seq(Tuples), Sorted(q),
           \A i \in 1..Len(q) : q[i].id = i,
           NEW k \in 1..Len(q), q[k].recv > lastRecvTime
    PROVE  k \in Ids(TupleSet(q))
<1> DEFINE old == {i \in 1..Len(q) : q[i].recv <= lastRecvTime}
           p == Seen(q)
           new == SubSeq(q, p + 1, Len(q))
<1>1. Len(q) \in Nat /\ k \in Nat /\ k >= 1 /\ k <= Len(q) /\ \A i \in 1..Len(q) : q[i].recv \in Int
  <2>1. \A i \in 1..Len(q) : q[i] \in Tuples
    OBVIOUS
  <2> QED BY <2>1 DEF Tuples
<1>2. old \in SUBSET (1..k - 1)
  <2>1. ASSUME NEW i \in old, i >= k PROVE FALSE
    <3>1. i \in 1..Len(q) /\ q[i].recv <= lastRecvTime /\ q[k].recv <= q[i].recv
      BY <1>1, <2>1 DEF Sorted
    <3> QED BY <1>1, <3>1
  <2> QED BY <1>1, <2>1
<1>3. p \in 0..k - 1
  <2>1. k - 1 \in Nat
    BY <1>1
  <2> HIDE DEF old
  <2>2. Cardinality(old) \in 0..k - 1
    BY <1>2, <2>1, PrefixSize
  <2> QED BY <2>2 DEF Seen, old
<1>4. /\ new \in Seq(Tuples) /\ Len(new) = Len(q) - p
      /\ \A i \in 1..Len(new) : new[i] = q[(p + 1) + i - 1]
  <2> HIDE DEF p
  <2>1. p + 1 \in 1..Len(q) + 1 /\ Len(q) \in 0..Len(q)
    BY <1>1, <1>3
  <2>2. /\ new \in Seq(Tuples)
        /\ Len(new) = IF p + 1 <= Len(q) THEN Len(q) - (p + 1) + 1 ELSE 0
        /\ \A i \in 1..Len(new) : new[i] = q[(p + 1) + i - 1]
    BY <2>1, SubSeqProperties
  <2> QED BY <1>1, <1>3, <2>2
<1>5. TupleSet(q) = Reverse(new)
  BY DEF TupleSet
<1> HIDE DEF new, p
<1>6. PICK i : i = k - p
  OBVIOUS
<1>7. i \in 1..Len(new) /\ new[i] = q[k]
  <2>1. i \in 1..Len(new) /\ (p + 1) + i - 1 = k
    BY <1>1, <1>3, <1>4, <1>6
  <2> QED BY <1>4, <2>1
<1>8. /\ Len(Reverse(new)) = Len(new)
      /\ \A j \in 1..Len(new) : Reverse(new)[j] = new[Len(new) - j + 1]
  BY <1>4, ReverseFacts
<1>9. PICK j : j = Len(new) - i + 1
  OBVIOUS
<1>10. j \in 1..Len(new) /\ Len(new) - j + 1 = i
  BY <1>4, <1>7, <1>9
<1>11. Reverse(new)[j].id = k
  BY <1>7, <1>8, <1>10
<1> QED BY <1>5, <1>8, <1>10, <1>11 DEF Ids

(* A tuple set that is handed over has no tuple twice.                     *)
Whole(b) ==
    /\ Handed(b) /\ Distinct(b)
    /\ window.partition => \A k \in 1..Len(queue') : queue'[k].recv > lastRecvTime => k \in Ids(b)

LEMMA HandedWhole ==
    ASSUME Base, NEW r, queue' \in Seq(Tuples), Ordered', HandOver(queue', r)
    PROVE  \E b : Whole(b) /\ lastRecvTime' = r
<1>1. PICK b : Handed(b) /\ lastRecvTime' = r
  BY HandedOver
<1>2. b = TupleSet(queue')
  <2>1. /\ buffer \in Seq(Seq(Tuples)) /\ b \in Seq(Tuples) /\ buffer' = Append(buffer, b)
        /\ buffer' = Append(buffer, TupleSet(queue'))
    BY <1>1 DEF Handed, HandOver, Base, TypeOK
  <2>2. window \in Window /\ lastRecvTime \in Nat /\ Sorted(queue')
    BY Constants DEF Base, TypeOK, Ordered
  <2>3. TupleSet(queue') \in Seq(Tuples)
    BY <2>2, TupleSetFacts
  <2>4. /\ Append(buffer, b)[Len(buffer) + 1] = b
        /\ Append(buffer, TupleSet(queue'))[Len(buffer) + 1] = TupleSet(queue')
    BY <2>1, <2>3, AppendProperties, Zenon
  <2> QED BY <2>1, <2>4, Zenon
<1>3. Distinct(b)
  <2>1. Len(b) \in Nat /\ Len(queue') \in Int /\ \A i \in 1..Len(b) : b[i].id = Len(queue') + 1 - i
    BY <1>1 DEF Handed
  <2> QED BY <2>1 DEF Distinct
<1>4. ASSUME window.partition, NEW k \in 1..Len(queue'), queue'[k].recv > lastRecvTime
      PROVE  k \in Ids(b)
  <2>1. Sorted(queue') /\ \A i \in 1..Len(queue') : queue'[i].id = i
    BY DEF Ordered, Sorted
  <2>2. lastRecvTime \in Nat
    BY DEF Base, TypeOK
  <2> QED BY <1>2, <1>4, <2>1, <2>2, TupleSetWhole
<1> QED BY <1>1, <1>3, <1>4 DEF Whole

(* The two steps of the stream that may hand over.                         *)
Same == UNCHANGED <<window, operatorVars, hashMap>>

Arrival ==
    /\ Same /\ UNCHANGED reading
    /\ stamp' = stamp + 1
    /\ queue' \in Seq(Tuples) /\ Len(queue) <= Len(queue')
    /\ \A k \in 1..Len(queue) : queue'[k] = queue[k]
    /\ \A k \in Len(queue) + 1..Len(queue') : queue'[k].recv = stamp'
    /\ \/ UNCHANGED <<lastRecvTime, preLastRecvTime, buffer>>
       \/ window.own /\ lastRecvTime' = stamp' /\ \E b : Whole(b)

Reading ==
    /\ Same /\ UNCHANGED <<queue, stamp>>
    /\ reading # 0 /\ reading' = 0 /\ lastRecvTime' = reading
    /\ \E b : Whole(b)

LEMMA Arrivals ==
    ASSUME Base, NEW n \in 1..MaxBatch, NEW batch \in [1..n -> Messages], AddTuple(batch)
    PROVE  Arrival
<1>1. /\ queue' \in Seq(Tuples) /\ Len(queue') = Len(queue) + n /\ stamp' = stamp + 1
      /\ \A i \in 1..Len(queue) : queue'[i] = queue[i]
      /\ Ordered'
  BY QueueGrown
<1>2. Len(queue) \in Nat /\ n \in Nat /\ Len(batch) = n
  BY Constants DEF Base, TypeOK
<1>3. ASSUME NEW k \in Len(queue) + 1..Len(queue') PROVE queue'[k].recv = stamp'
  <2> DEFINE more == [i \in 1..Len(batch) |-> [id |-> Len(queue) + i, msg |-> batch[i], recv |-> stamp']]
  <2>1. queue' = queue \o more
    BY DEF AddTuple
  <2>2. k - Len(queue) \in 1..Len(batch)
    BY <1>1, <1>2
  <2>3. more[k - Len(queue)].recv = stamp'
    BY <2>2
  <2>4. queue \in Seq(Tuples) /\ Len(more) = n
    BY <1>2 DEF Base, TypeOK
  <2> HIDE DEF more
  <2>5. queue'[k] = more[k - Len(queue)]
    BY <1>1, <1>2, <2>1, <2>2, <2>4
  <2> QED BY <2>3, <2>5
<1>4. /\ Same /\ UNCHANGED reading
      /\ IF listening /\ window.own THEN HandOver(queue', stamp')
         ELSE UNCHANGED <<lastRecvTime, preLastRecvTime, buffer, overtaken>>
  BY DEF AddTuple, Same, hashVars
<1>5. ASSUME HandOver(queue', stamp') PROVE \E b : Whole(b) /\ lastRecvTime' = stamp'
  BY <1>1, <1>5, HandedWhole
<1>6. \/ UNCHANGED <<lastRecvTime, preLastRecvTime, buffer>>
      \/ window.own /\ lastRecvTime' = stamp' /\ \E b : Whole(b)
  BY <1>4, <1>5
<1>7. Len(queue) <= Len(queue')
  BY <1>1, <1>2
<1> QED BY <1>1, <1>3, <1>4, <1>6, <1>7 DEF Arrival

LEMMA Readings == ASSUME Base, Read PROVE Reading
<1>1. /\ queue' = queue /\ stamp' = stamp /\ reading # 0 /\ reading' = 0 /\ Same
      /\ HandOver(queue', reading)
  BY DEF Read, Same, hashVars
<1>2. queue' \in Seq(Tuples) /\ Ordered'
  BY <1>1 DEF Base, TypeOK, Ordered, Sorted
<1> QED BY <1>1, <1>2, HandedWhole DEF Reading

(* The other steps: the stamp of a batch of another master, and what is    *)
(* nothing to the tuples on their way.                                     *)
Triggered ==
    /\ UNCHANGED <<window, queue, lastRecvTime, preLastRecvTime, buffer, operatorVars>>
    /\ ~window.own /\ reading = 0 /\ stamp' = stamp + 1 /\ reading' = stamp'

Elsewhere ==
    UNCHANGED <<window, queue, stamp, reading, lastRecvTime, preLastRecvTime, buffer, operatorVars>>

Moves ==
    \/ Arrival \/ Reading \/ Triggered \/ Elsewhere
    \/ Take \/ Fold \/ Folded \/ Send \/ \E k, i : Look(k, i)

LEMMA EveryMove == ASSUME Base, [Next]_vars PROVE Moves
<1>1. ASSUME NEW n \in 1..MaxBatch, NEW batch \in [1..n -> Messages], AddTuple(batch) PROVE Moves
  BY <1>1, Arrivals DEF Moves
<1>2. CASE Read
  BY <1>2, Readings DEF Moves
<1>3. CASE Trigger
  BY <1>3 DEF Moves, Trigger, Triggered
<1>4. CASE AddQueueListener \/ DeleteHashmapStart \/ DeleteHashmap \/ Tick \/ UNCHANGED vars
  BY <1>4 DEF Moves, Elsewhere, AddQueueListener, DeleteHashmapStart, DeleteHashmap, Tick, vars, streamVars,
              operatorVars
<1>5. CASE Take \/ Fold \/ Folded \/ Send \/ \E place \in todo : Look(place[1], place[2])
  BY <1>5 DEF Moves
<1> QED BY <1>1, <1>2, <1>3, <1>4, <1>5 DEF Next

-----------------------------------------------------------------------------
(* How tuples travel.  The two times and the stamp of a read rise.         *)
TimesRise ==
    /\ preLastRecvTime <= lastRecvTime
    /\ reading # 0 => ~window.own /\ lastRecvTime <= reading

SetsDistinct == Distinct(input) /\ \A j \in 1..Len(buffer) : Distinct(buffer[j])

(* A partitioned window is handed every tuple again that came after        *)
(* lastRecvTime.  So a tuple that was handed over and is not in a later    *)
(* tuple set is not sent on with that one: it is too old by then.          *)
Past(k) == queue[k].recv <= preLastRecvTime
InLatest(k) == \E key \in Keys : k \in Ids(latest[key])
Earlier(k, j) == InLatest(k) \/ k \in taken \/ \E i \in 1..j - 1 : k \in Ids(buffer[i])

Without ==
    window.partition =>
      \A k \in 1..Len(queue) :
        /\ InLatest(k) /\ step # "idle" /\ k \notin taken => Past(k)
        /\ \A j \in 1..Len(buffer) : k \notin Ids(buffer[j]) /\ Earlier(k, j) => Past(k)

(* What is sent on is in the tuple set that was taken.                     *)
FromTaken ==
    ~window.dup =>
      /\ Ids(output) \subseteq taken
      /\ \A k \in 1..MaxTuples : k > Len(queue) => sent[k] = 0

Travel == TimesRise /\ SetsDistinct /\ Without /\ FromTaken

LEMMA TravelInit == Init => Travel
  BY DEF Init, Travel, TimesRise, SetsDistinct, Distinct, Without, FromTaken, Ids

LEMMA TravelType ==
    ASSUME Base
    PROVE  /\ window \in Window /\ Len(queue) \in Nat /\ Len(queue) <= MaxTuples
           /\ stamp \in Nat /\ reading \in Nat /\ reading <= stamp
           /\ lastRecvTime \in Nat /\ lastRecvTime <= stamp /\ preLastRecvTime \in Nat
           /\ \A k \in 1..Len(queue) : queue[k].id = k /\ queue[k] \in Tuples
                 /\ queue[k].recv \in Nat /\ queue[k].recv > 0 /\ queue[k].recv <= stamp
           /\ buffer \in Seq(Seq(Tuples)) /\ input \in Seq(Tuples) /\ output \in Seq(Tuples)
           /\ latest \in [Keys -> Seq(Tuples)] /\ sent \in [1..MaxTuples -> Nat]
<1> USE Constants
<1>1. TypeOK /\ Ordered
  BY DEF Base
<1>2. \A k \in 1..Len(queue) : queue[k] \in Tuples
  BY <1>1 DEF TypeOK
<1>3. \A k \in 1..Len(queue) : queue[k].recv \in Nat /\ queue[k].recv > 0
  BY <1>2 DEF Tuples
<1>4. \A k \in 1..Len(queue) : queue[k].id = k /\ queue[k].recv <= stamp
  BY <1>1 DEF Ordered
<1> QED BY <1>1, <1>2, <1>3, <1>4 DEF TypeOK

(* Whatever the window holds has arrived.                                  *)
LEMMA Arrived ==
    ASSUME Base, Shown
    PROVE  \A k : /\ InLatest(k) => k \in 1..Len(queue)
                  /\ k \in taken => k \in 1..Len(queue)
                  /\ \A j \in 1..Len(buffer) : k \in Ids(buffer[j]) => k \in 1..Len(queue)
<1>1. ASSUME NEW k, InLatest(k) PROVE k \in 1..Len(queue)
  BY <1>1 DEF InLatest, Ids, Base, HeldKnown, LatestKnown, Known
<1>2. Waiting \subseteq 1..Len(queue)
  BY DEF Shown, Ahead
<1> QED BY <1>1, <1>2 DEF Waiting

LEMMA TravelSame ==
    ASSUME Travel, UNCHANGED <<window, queue, reading, lastRecvTime, preLastRecvTime, buffer,
                               operatorVars>>
    PROVE  Travel'
<1>1. UNCHANGED <<step, input, output, latest, taken, sent>>
  BY DEF operatorVars
<1> QED BY <1>1 DEF Travel, TimesRise, SetsDistinct, Without, FromTaken, Past, InLatest, Earlier

LEMMA TravelTriggered == ASSUME Base, Travel, Triggered PROVE Travel'
<1>1. UNCHANGED <<step, input, output, latest, taken, sent>>
  BY DEF Triggered, operatorVars
<1>2. SetsDistinct' /\ Without' /\ FromTaken'
  BY <1>1 DEF Triggered, Travel, SetsDistinct, Without, FromTaken, Past, InLatest, Earlier
<1>3. TimesRise'
  BY TravelType DEF Triggered, Travel, TimesRise
<1> QED BY <1>2, <1>3 DEF Travel

(* A tuple set handed over, as the buffer gets it.                         *)
LEMMA Appended ==
    ASSUME Base, NEW b, Whole(b)
    PROVE  /\ b \in Seq(Tuples) /\ buffer' = Append(buffer, b) /\ preLastRecvTime' = lastRecvTime
           /\ Distinct(b) /\ Len(buffer) \in Nat
           /\ Len(buffer') = Len(buffer) + 1 /\ buffer'[Len(buffer) + 1] = b
           /\ \A j \in 1..Len(buffer) : buffer'[j] = buffer[j]
           /\ \A j \in 1..Len(buffer') : j \in 1..Len(buffer) \/ j = Len(buffer) + 1
           /\ \A k \in Ids(b) : k \in 1..Len(queue') /\ queue'[k].recv > lastRecvTime
<1>1. /\ b \in Seq(Tuples) /\ buffer' = Append(buffer, b) /\ preLastRecvTime' = lastRecvTime
      /\ Distinct(b)
      /\ \A i \in 1..Len(b) : /\ b[i].id \in 1..Len(queue') /\ queue'[b[i].id] = b[i]
                              /\ b[i].recv > lastRecvTime
  BY DEF Whole, Handed
<1>2. /\ Len(buffer) \in Nat /\ Len(buffer') = Len(buffer) + 1 /\ buffer'[Len(buffer) + 1] = b
      /\ \A j \in 1..Len(buffer) : buffer'[j] = buffer[j]
  BY <1>1, TravelType, AppendProperties
<1>3. \A j \in 1..Len(buffer') : j \in 1..Len(buffer) \/ j = Len(buffer) + 1
  BY <1>2
<1>4. \A k \in Ids(b) : k \in 1..Len(queue') /\ queue'[k].recv > lastRecvTime
  BY <1>1 DEF Ids
<1> QED BY <1>1, <1>2, <1>3, <1>4

LEMMA TravelStream ==
    ASSUME Base, Shown, Travel, Arrival \/ Reading
    PROVE  Travel'
<1>1. UNCHANGED <<window, step, input, output, latest, taken, sent>>
  BY DEF Arrival, Reading, Same, operatorVars
<1>2. /\ Len(queue) <= Len(queue') /\ \A k \in 1..Len(queue) : queue'[k] = queue[k]
      /\ Len(queue') \in Nat
  BY TravelType DEF Arrival, Reading
<1>3. \/ UNCHANGED <<lastRecvTime, preLastRecvTime, buffer>>
      \/ \E b : Whole(b)
  BY DEF Arrival, Reading
<1>4. TimesRise'
  <2>1. CASE Arrival /\ UNCHANGED <<lastRecvTime, preLastRecvTime, buffer>>
    BY <1>1, <2>1 DEF Arrival, Travel, TimesRise
  <2>2. CASE Arrival /\ window.own /\ lastRecvTime' = stamp' /\ \E b : Whole(b)
    <3>1. preLastRecvTime' = lastRecvTime /\ stamp' = stamp + 1 /\ reading' = reading
      BY <2>2, Appended DEF Arrival
    <3> QED BY <1>1, <2>2, <3>1, TravelType DEF Travel, TimesRise
  <2>3. CASE Reading
    <3>1. preLastRecvTime' = lastRecvTime
      BY <2>3, Appended DEF Reading
    <3> QED BY <2>3, <3>1 DEF Reading, Travel, TimesRise
  <2> QED BY <2>1, <2>2, <2>3 DEF Arrival
<1>5. SetsDistinct'
  <2>1. ASSUME NEW b, Whole(b) PROVE SetsDistinct'
    BY <1>1, <2>1, Appended DEF Travel, SetsDistinct
  <2> QED BY <1>1, <1>3, <2>1 DEF Travel, SetsDistinct
<1>6. FromTaken'
  BY <1>1, <1>2, TravelType DEF Travel, FromTaken
<1>7. ASSUME window.partition, NEW k \in 1..Len(queue), Past(k) PROVE Past(k)'
  <2>1. preLastRecvTime <= preLastRecvTime' /\ preLastRecvTime' \in Nat
    <3>1. ASSUME NEW b, Whole(b) PROVE preLastRecvTime' = lastRecvTime
      BY <3>1, Appended
    <3> QED BY <1>3, <3>1, TravelType DEF Travel, TimesRise
  <2> QED BY <1>2, <1>7, <2>1, TravelType DEF Past
<1>8. ASSUME window.partition, NEW k \in 1..Len(queue'),
             InLatest(k), step # "idle", k \notin taken
      PROVE  Past(k)'
  <2>1. k \in 1..Len(queue)
    BY <1>8, Arrived
  <2> QED BY <1>7, <1>8, <2>1 DEF Travel, Without
<1>9. ASSUME window.partition, NEW k \in 1..Len(queue'), NEW j \in 1..Len(buffer'),
              k \notin Ids(buffer'[j]), Earlier(k, j)'
       PROVE  Past(k)'
  <2>1. InLatest(k)' <=> InLatest(k)
    BY <1>1 DEF InLatest
  <2>2. CASE UNCHANGED <<lastRecvTime, preLastRecvTime, buffer>>
    <3>1. Earlier(k, j) /\ j \in 1..Len(buffer) /\ k \notin Ids(buffer[j])
      BY <1>1, <1>9, <2>1, <2>2 DEF Earlier
    <3>2. k \in 1..Len(queue)
      BY <3>1, Arrived, TravelType DEF Earlier
    <3> QED BY <1>7, <1>9, <3>1, <3>2 DEF Travel, Without
  <2>3. ASSUME NEW b, Whole(b) PROVE Past(k)'
    <3>1. Earlier(k, j)
      <4>1. \A i \in 1..j - 1 : i \in 1..Len(buffer) /\ buffer'[i] = buffer[i]
        BY <2>3, Appended
      <4> QED BY <1>1, <1>9, <2>1, <4>1 DEF Earlier
    <3>2. k \in 1..Len(queue)
      <4>1. \A i \in 1..j - 1 : i \in 1..Len(buffer)
        BY <2>3, Appended
      <4> QED BY <3>1, <4>1, Arrived DEF Earlier
    <3>3. CASE j \in 1..Len(buffer)
      <4>1. k \notin Ids(buffer[j])
        BY <1>9, <2>3, <3>3, Appended
      <4> QED BY <1>7, <1>9, <3>1, <3>2, <3>3, <4>1 DEF Travel, Without
    <3>4. CASE j = Len(buffer) + 1
      <4>1. buffer'[j] = b /\ preLastRecvTime' = lastRecvTime
        BY <2>3, <3>4, Appended
      <4>2. ~(queue'[k].recv > lastRecvTime)
        BY <1>9, <2>3, <4>1 DEF Whole
      <4>3. queue'[k].recv \in Nat /\ lastRecvTime \in Nat
        BY <1>2, <3>2, TravelType
      <4> QED BY <4>1, <4>2, <4>3 DEF Past
    <3> QED BY <2>3, <3>3, <3>4, Appended
  <2> QED BY <1>3, <2>2, <2>3
<1>10. Without'
  <2>1. \A k : InLatest(k)' <=> InLatest(k)
    BY <1>1 DEF InLatest
  <2> QED BY <1>1, <1>8, <1>9, <2>1 DEF Without
<1> QED BY <1>4, <1>5, <1>6, <1>10 DEF Travel

LEMMA TravelTake == ASSUME Base, Travel, Take PROVE Travel'
<1>1. /\ step = "idle" /\ buffer # <<>> /\ input' = Head(buffer) /\ taken' = Ids(Head(buffer))
      /\ buffer' = Tail(buffer) /\ taken = {} /\ output = <<>>
      /\ UNCHANGED <<window, queue, reading, lastRecvTime, preLastRecvTime, output, latest, sent>>
  BY DEF Take, streamVars, Base, InHand
<1>2. /\ Head(buffer) = buffer[1] /\ 1 \in 1..Len(buffer) /\ Len(buffer) \in Nat
      /\ Len(buffer') = Len(buffer) - 1
      /\ \A j \in 1..Len(buffer') : buffer'[j] = buffer[j + 1] /\ j + 1 \in 1..Len(buffer)
  BY <1>1, TravelType, RestFacts
<1>3. TimesRise'
  BY <1>1 DEF Travel, TimesRise
<1>4. SetsDistinct'
  BY <1>1, <1>2 DEF Travel, SetsDistinct
<1>5. FromTaken'
  BY <1>1 DEF Travel, FromTaken, Ids
<1>6. ASSUME window.partition, NEW k \in 1..Len(queue), InLatest(k), k \notin taken'
      PROVE  Past(k)
  BY <1>1, <1>2, <1>6 DEF Travel, Without, Earlier
<1>7. ASSUME window.partition, NEW k \in 1..Len(queue), NEW j \in 1..Len(buffer'),
             k \notin Ids(buffer'[j]), Earlier(k, j)'
      PROVE  Past(k)
  <2>1. j + 1 \in 1..Len(buffer) /\ k \notin Ids(buffer[j + 1])
    BY <1>2, <1>7
  <2>2. CASE InLatest(k)'
    BY <1>1, <1>7, <2>1, <2>2 DEF Travel, Without, Earlier, InLatest
  <2>3. CASE k \in taken'
    <3>1. k \in Ids(buffer[1]) /\ 1 \in 1..(j + 1) - 1
      BY <1>1, <1>2, <2>3
    <3> QED BY <1>7, <2>1, <3>1 DEF Travel, Without, Earlier
  <2>4. CASE \E i \in 1..j - 1 : k \in Ids(buffer'[i])
    <3>1. PICK i \in 1..j - 1 : k \in Ids(buffer'[i])
      BY <2>4
    <3>2. i \in 1..Len(buffer') /\ i + 1 \in 1..(j + 1) - 1
      BY <1>2
    <3>3. k \in Ids(buffer[i + 1])
      BY <1>2, <3>1, <3>2
    <3> QED BY <1>7, <2>1, <3>2, <3>3 DEF Travel, Without, Earlier
  <2> QED BY <1>7, <2>2, <2>3, <2>4 DEF Earlier
<1>8. Without'
  <2>1. \A k : (InLatest(k)' <=> InLatest(k)) /\ (Past(k)' <=> Past(k))
    BY <1>1 DEF InLatest, Past
  <2> QED BY <1>1, <1>6, <1>7, <2>1 DEF Without
<1> QED BY <1>3, <1>4, <1>5, <1>8 DEF Travel

LEMMA TravelFold == ASSUME Base, Travel, Fold PROVE Travel'
<1> USE Constants
<1> DEFINE t == Head(input)
<1>1. /\ step = "fold" /\ input # <<>> /\ t \in Tuples /\ t.msg \in Messages /\ t.id \in taken
      /\ input' = Tail(input)
      /\ UNCHANGED <<window, queue, reading, lastRecvTime, preLastRecvTime, buffer, step, taken, sent>>
      /\ UNCHANGED <<hashMap, latest, output, passed>> \/ Passes(t)
  BY FoldStep
<1> HIDE DEF t
<1>2. TimesRise'
  BY <1>1 DEF Travel, TimesRise
<1>3. SetsDistinct'
  <2>1. \A i \in 1..Len(input') : input'[i] = input[i + 1] /\ i + 1 \in 1..Len(input)
    BY <1>1, TravelType, RestFacts
  <2>2. Distinct(input')
    <3>1. Len(input') \in Nat
      BY <1>1, TravelType, RestFacts
    <3> QED BY <2>1, <3>1 DEF Travel, SetsDistinct, Distinct
  <2> QED BY <1>1, <2>2 DEF Travel, SetsDistinct
<1>4. FromTaken'
  <2>1. CASE output' = output
    BY <1>1, <2>1 DEF Travel, FromTaken
  <2>2. CASE output' = Append(output, t)
    <3>1. Ids(output') \subseteq Ids(output) \cup {t.id}
      <4>1. /\ Len(output) \in Nat /\ Len(output') = Len(output) + 1
            /\ output'[Len(output) + 1] = t
            /\ \A i \in 1..Len(output) : output'[i] = output[i]
        BY <1>1, <2>2, TravelType, AppendProperties
      <4> QED BY <4>1 DEF Ids
    <3> QED BY <1>1, <3>1 DEF Travel, FromTaken
  <2> QED BY <1>1, <2>1, <2>2 DEF Passes
<1>5. \A k : InLatest(k)' => InLatest(k) \/ k \in taken
  <2>1. CASE latest' = latest
    BY <2>1 DEF InLatest
  <2>2. CASE window.partition /\ latest' = [latest EXCEPT ![Key[t.msg]] = Insert(@, t)]
    <3> DEFINE key == Key[t.msg]
               r == Insert(latest[key], t)
    <3>1. key \in Keys /\ latest' = [latest EXCEPT ![key] = r]
      BY <1>1, <2>2
    <3>2. \A i \in 1..Len(r) : r[i] = t \/ \E j \in 1..Len(latest[key]) : r[i] = latest[key][j]
      <4>1. latest[key] \in Seq(Tuples) /\ Len(latest[key]) <= window.rows
        BY <3>1 DEF Base, TypeOK
      <4> QED BY <1>1, <4>1, TravelType, InsertFacts
    <3> HIDE DEF r, key
    <3>3. ASSUME NEW l \in Keys, NEW k \in Ids(latest'[l]) PROVE InLatest(k) \/ k \in taken
      <4>1. CASE l = key
        <5>1. latest'[l] = r
          BY <3>1, <4>1, TravelType
        <5>2. PICK i \in 1..Len(r) : r[i].id = k
          BY <3>3, <5>1 DEF Ids
        <5> QED BY <1>1, <3>1, <3>2, <5>2 DEF InLatest, Ids
      <4>2. CASE l # key
        <5>1. latest'[l] = latest[l]
          BY <3>1, <4>2, TravelType
        <5> QED BY <3>3, <5>1 DEF InLatest
      <4> QED BY <4>1, <4>2
    <3> QED BY <3>3 DEF InLatest
  <2> QED BY <1>1, <2>1, <2>2 DEF Passes
<1>6. Without'
  <2>1. \A k : (Past(k)' <=> Past(k))
    BY <1>1 DEF Past
  <2>2. \A k, j : Earlier(k, j)' => Earlier(k, j)
    BY <1>1, <1>5 DEF Earlier
  <2> QED BY <1>1, <1>5, <2>1, <2>2 DEF Travel, Without
<1> QED BY <1>2, <1>3, <1>4, <1>6 DEF Travel

LEMMA TravelFolded == ASSUME Base, Travel, Folded PROVE Travel'
<1>1. /\ step = "fold"
      /\ UNCHANGED <<window, queue, reading, lastRecvTime, preLastRecvTime, buffer, input, output,
                     latest, taken, sent>>
  BY DEF Folded, streamVars
<1> QED BY <1>1 DEF Travel, TimesRise, SetsDistinct, Without, FromTaken, Past, InLatest, Earlier

(* A kept tuple that is not in the tuple set taken is hidden.              *)
LEMMA TravelLook == ASSUME Base, Travel, NEW l, NEW i, Look(l, i) PROVE Travel'
<1>1. /\ step = "send" /\ l \in Keys /\ i \in 1..Len(latest[l]) /\ latest[l][i] \in Tuples
      /\ output' = IF window.dup \/ latest[l][i].recv > preLastRecvTime
                   THEN Append(output, latest[l][i]) ELSE output
      /\ UNCHANGED <<window, queue, reading, lastRecvTime, preLastRecvTime, buffer, step, input,
                     latest, taken, sent>>
  BY LookStep
<1>2. TimesRise' /\ SetsDistinct' /\ Without'
  BY <1>1 DEF Travel, TimesRise, SetsDistinct, Without, Past, InLatest, Earlier
<1>3. FromTaken'
  <2>1. CASE output' = output \/ window.dup
    BY <1>1, <2>1 DEF Travel, FromTaken
  <2>2. CASE output' # output /\ ~window.dup
    <3>1. output' = Append(output, latest[l][i]) /\ latest[l][i].recv > preLastRecvTime
      BY <1>1, <2>2
    <3>2. latest[l][i].id \in taken
      <4>1. Known(latest[l][i], queue) /\ latest[l][i].recv \in Nat /\ preLastRecvTime \in Nat
        BY <1>1, KeptId, TravelType DEF Known
      <4>2. InLatest(latest[l][i].id) /\ window.partition
        BY <1>1 DEF InLatest, Ids, Base, InHand
      <4>3. ~Past(latest[l][i].id)
        BY <3>1, <4>1 DEF Past, Known
      <4> QED BY <1>1, <4>1, <4>2, <4>3 DEF Travel, Without, Known
    <3>3. Ids(output') \subseteq Ids(output) \cup {latest[l][i].id}
      <4>1. /\ Len(output) \in Nat /\ Len(output') = Len(output) + 1
            /\ output'[Len(output) + 1] = latest[l][i]
            /\ \A j \in 1..Len(output) : output'[j] = output[j]
        BY <1>1, <3>1, TravelType, AppendProperties
      <4> QED BY <4>1 DEF Ids
    <3> QED BY <1>1, <3>2, <3>3 DEF Travel, FromTaken
  <2> QED BY <2>1, <2>2
<1> QED BY <1>2, <1>3 DEF Travel

LEMMA TravelSend == ASSUME Base, Shown, Travel, Send PROVE Travel'
<1>1. /\ step' = "idle" /\ output' = <<>> /\ taken' = {}
      /\ sent' = [k \in 1..MaxTuples |-> sent[k] + Cardinality(Out(k))]
      /\ UNCHANGED <<window, queue, reading, lastRecvTime, preLastRecvTime, buffer, input, latest>>
  BY SendStep
<1>2. TimesRise' /\ SetsDistinct'
  BY <1>1 DEF Travel, TimesRise, SetsDistinct
<1>3. Without'
  BY <1>1 DEF Travel, Without, Past, InLatest, Earlier
<1>4. FromTaken'
  <2>1. ASSUME ~window.dup, NEW k \in 1..MaxTuples, k > Len(queue) PROVE sent'[k] = 0
    <3>1. k \notin Ids(output)
      <4>1. k \notin 1..Len(queue)
        BY <2>1, TravelType
      <4> QED BY <2>1, <4>1, Arrived DEF Travel, FromTaken
    <3>2. Out(k) = {} /\ sent[k] = 0
      BY <2>1, <3>1 DEF Out, Ids, Travel, FromTaken
    <3>3. Cardinality(Out(k)) = 0
      BY <3>2, FS_EmptySet
    <3>4. sent'[k] = sent[k] + Cardinality(Out(k))
      BY <1>1
    <3> QED BY <3>2, <3>3, <3>4
  <2> QED BY <1>1, <2>1 DEF FromTaken, Ids
<1> QED BY <1>2, <1>3, <1>4 DEF Travel

LEMMA TravelNext == ASSUME Base, Shown, Travel, [Next]_vars PROVE Travel'
<1>1. Moves
  BY EveryMove
<1>2. CASE Elsewhere
  BY <1>2, TravelSame DEF Elsewhere
<1> QED BY <1>1, <1>2, TravelStream, TravelTriggered, TravelTake, TravelFold, TravelFolded,
           TravelLook, TravelSend DEF Moves

-----------------------------------------------------------------------------
(* How often a tuple may be sent on.  A window of its own stream is handed *)
(* it once, one of another master twice: again when it came after the      *)
(* stamp of the batch it was read for.  Chances(k) is how often that may   *)
(* have been so far.                                                       *)
Chances(k) ==
    IF queue[k].recv <= lastRecvTime THEN IF window.own THEN 1 ELSE 2
    ELSE IF window.own \/ (reading # 0 /\ queue[k].recv > reading) THEN 0 ELSE 1

KeyOf(k) == Key[queue[k].msg]
KeptAt(k) == Places(latest[KeyOf(k)], k)
Left(k) == {i \in KeptAt(k) : <<KeyOf(k), i>> \in todo}

(* With d tuple sets of it done with, a tuple is kept at d places at most, *)
(* at one with ROWS 1, and each set sends it on from each place once.      *)
Most(d) == IF window.rows > 1 /\ d = 2 THEN 3 ELSE d

Shared(k, d) ==
    Cardinality(Holding(buffer, k)) + Once(k \in taken) + d <= Chances(k)

KeptOnce(k, d) ==
    /\ Cardinality(KeptAt(k)) + Once(k \in Ids(input)) <= d + Once(k \in taken)
    /\ sent[k] <= Most(d)
    /\ step = "send" /\ k \in taken =>
          Cardinality(Places(output, k)) + Cardinality(Left(k)) <= Cardinality(KeptAt(k))

Passing(k, d) ==
    sent[k] + Cardinality(Places(output, k)) + Once(k \in Ids(input)) <= d + Once(k \in taken)

Spent(k, d) ==
    /\ Shared(k, d)
    /\ window.partition => KeptOnce(k, d)
    /\ ~window.partition => Passing(k, d)

Budget == ~window.dup => \A k \in 1..Len(queue) : \E d \in 0..2 : Spent(k, d)

LEMMA BudgetInit == Init => Budget
  BY DEF Init, Budget

LEMMA SpentType ==
    ASSUME Base, NEW k \in 1..Len(queue)
    PROVE  /\ k \in 1..MaxTuples /\ KeyOf(k) \in Keys /\ latest[KeyOf(k)] \in Seq(Tuples)
           /\ Cardinality(Holding(buffer, k)) \in Nat
           /\ IsFiniteSet(KeptAt(k)) /\ Cardinality(KeptAt(k)) \in Nat
           /\ Cardinality(KeptAt(k)) <= window.rows /\ window.rows \in Nat /\ window.rows >= 1
           /\ IsFiniteSet(Left(k)) /\ Cardinality(Left(k)) \in Nat
           /\ Cardinality(Places(output, k)) \in Nat
           /\ sent[k] \in Nat /\ Chances(k) \in 0..2
<1> USE Constants
<1>1. k \in 1..MaxTuples /\ sent[k] \in Nat
  BY TravelType
<1>2. KeyOf(k) \in Keys /\ latest[KeyOf(k)] \in Seq(Tuples)
  <2>1. queue[k].msg \in Messages
    BY TravelType DEF Tuples
  <2>2. KeyOf(k) \in Keys
    BY <2>1 DEF KeyOf
  <2> QED BY <2>2, TravelType
<1>3. Cardinality(Holding(buffer, k)) \in Nat
  BY TravelType, HoldingSize
<1>4. IsFiniteSet(KeptAt(k)) /\ Cardinality(KeptAt(k)) \in 0..Len(latest[KeyOf(k)])
      /\ Len(latest[KeyOf(k)]) \in Nat
  BY <1>2, PlacesSize DEF KeptAt
<1>5. window.rows \in Nat /\ window.rows >= 1 /\ Len(latest[KeyOf(k)]) <= window.rows
  BY <1>2, TravelType DEF Window, Base, TypeOK
<1>6. IsFiniteSet(Left(k)) /\ Cardinality(Left(k)) \in Nat
  <2>1. Left(k) \in SUBSET KeptAt(k)
    BY DEF Left
  <2> QED BY <1>4, <2>1, FS_Subset, FS_CardinalityType
<1>7. Cardinality(Places(output, k)) \in Nat
  BY TravelType, PlacesSize
<1>8. Chances(k) \in 0..2
  BY DEF Chances
<1> QED BY <1>1, <1>2, <1>3, <1>4, <1>5, <1>6, <1>7, <1>8

LEMMA OnceType == \A x : Once(x) \in 0..1 /\ (x <=> TRUE => Once(x) = 1) /\ (~x => Once(x) = 0)
  BY DEF Once

(* What a step that leaves these alone leaves of the budget of a tuple.    *)
LEMMA KeptSame ==
    ASSUME NEW k, NEW d, queue'[k] = queue[k],
           UNCHANGED <<window, step, input, todo, output, latest, taken, sent>>
    PROVE  /\ KeptOnce(k, d)' <=> KeptOnce(k, d)
           /\ Passing(k, d)' <=> Passing(k, d)
<1>1. KeyOf(k)' = KeyOf(k)
  BY DEF KeyOf
<1>2. KeptAt(k)' = KeptAt(k)
  BY <1>1 DEF KeptAt
<1>3. Left(k)' = Left(k)
  BY <1>1, <1>2 DEF Left
<1> QED BY <1>2, <1>3 DEF KeptOnce, Passing, Most

LEMMA BudgetSame ==
    ASSUME Budget, UNCHANGED <<window, queue, reading, lastRecvTime, buffer, operatorVars>>
    PROVE  Budget'
<1>1. UNCHANGED <<step, input, todo, output, latest, taken, sent>>
  BY DEF operatorVars
<1>2. ASSUME NEW k, NEW d, Spent(k, d) PROVE Spent(k, d)'
  <2>1. KeptOnce(k, d)' <=> KeptOnce(k, d)
    BY <1>1, KeptSame
  <2>2. Passing(k, d)' <=> Passing(k, d)
    BY <1>1, KeptSame
  <2>3. Shared(k, d)' <=> Shared(k, d)
    BY <1>1 DEF Shared, Chances
  <2> QED BY <1>2, <2>1, <2>2, <2>3 DEF Spent
<1> QED BY <1>2 DEF Budget

LEMMA BudgetTriggered == ASSUME Base, Budget, Triggered PROVE Budget'
<1>1. UNCHANGED <<window, queue, lastRecvTime, buffer, step, input, todo, output, latest, taken, sent>>
  BY DEF Triggered, operatorVars
<1>2. ASSUME NEW k \in 1..Len(queue) PROVE Chances(k)' = Chances(k)
  BY <1>1, TravelType DEF Triggered, Chances
<1>3. ASSUME NEW k \in 1..Len(queue), NEW d, Spent(k, d) PROVE Spent(k, d)'
  <2>1. KeptOnce(k, d)' <=> KeptOnce(k, d)
    BY <1>1, KeptSame
  <2>2. Passing(k, d)' <=> Passing(k, d)
    BY <1>1, KeptSame
  <2>3. Shared(k, d)' <=> Shared(k, d)
    BY <1>1, <1>2 DEF Shared
  <2> QED BY <1>1, <1>3, <2>1, <2>2, <2>3 DEF Spent
<1> QED BY <1>1, <1>3 DEF Budget

(* A hand-over takes one of the chances.                                   *)
LEMMA ChanceTaken ==
    ASSUME Base, Travel, NEW k \in 1..Len(queue), NEW b, Whole(b),
           (Arrival /\ window.own /\ lastRecvTime' = stamp') \/ Reading
    PROVE  Chances(k) + Once(k \in Ids(b)) <= Chances(k)'
<1>1. /\ queue'[k] = queue[k] /\ UNCHANGED window
      /\ queue[k].recv \in Nat /\ queue[k].recv <= stamp /\ stamp \in Nat
      /\ lastRecvTime \in Nat /\ lastRecvTime <= stamp /\ reading \in Nat
  BY TravelType DEF Arrival, Reading, Same
<1>2. k \in Ids(b) => queue[k].recv > lastRecvTime
  BY <1>1, Appended
<1>3. CASE Arrival /\ window.own /\ lastRecvTime' = stamp'
  <2>1. window.own /\ lastRecvTime' = stamp + 1
    BY <1>3 DEF Arrival
  <2>2. Chances(k)' = 1
    BY <1>1, <2>1 DEF Chances
  <2>3. Chances(k) = IF queue[k].recv <= lastRecvTime THEN 1 ELSE 0
    BY <2>1 DEF Chances
  <2> QED BY <1>1, <1>2, <2>2, <2>3 DEF Once
<1>4. CASE Reading
  <2>1. ~window.own /\ reading # 0 /\ reading' = 0 /\ lastRecvTime' = reading
        /\ lastRecvTime <= reading
    BY <1>4 DEF Reading, Travel, TimesRise
  <2>2. Chances(k)' = IF queue[k].recv <= reading THEN 2 ELSE 1
    BY <1>1, <2>1 DEF Chances
  <2>3. Chances(k) = IF queue[k].recv <= lastRecvTime THEN 2
                     ELSE IF queue[k].recv > reading THEN 0 ELSE 1
    BY <2>1 DEF Chances
  <2> QED BY <1>1, <1>2, <2>1, <2>2, <2>3 DEF Once
<1> QED BY <1>3, <1>4

LEMMA SharedStream ==
    ASSUME Base, Travel, Arrival \/ Reading, NEW k \in 1..Len(queue), NEW d \in 0..2, Shared(k, d)
    PROVE  Shared(k, d)'
<1>1. taken' = taken /\ queue'[k] = queue[k] /\ UNCHANGED window
  BY DEF Arrival, Reading, Same, operatorVars
<1>2. CASE UNCHANGED <<lastRecvTime, preLastRecvTime, buffer>> /\ Arrival
  BY <1>1, <1>2 DEF Arrival, Shared, Chances
<1>3. ASSUME NEW b, Whole(b), (Arrival /\ window.own /\ lastRecvTime' = stamp') \/ Reading
      PROVE  Shared(k, d)'
  <2>1. Chances(k) + Once(k \in Ids(b)) <= Chances(k)'
    BY <1>3, ChanceTaken
  <2>2. Cardinality(Holding(buffer', k)) = Cardinality(Holding(buffer, k)) + Once(k \in Ids(b))
    <3>1. b \in Seq(Tuples) /\ buffer' = Append(buffer, b) /\ buffer \in Seq(Seq(Tuples))
      BY <1>3, TravelType, Appended
    <3> QED BY <3>1, HoldingAppend
  <2>3. /\ Cardinality(Holding(buffer, k)) \in Nat /\ Chances(k) \in 0..2
        /\ Once(k \in Ids(b)) \in 0..1 /\ Once(k \in taken) \in 0..1
    BY SpentType, OnceType
  <2>4. Chances(k)' \in 0..2
    BY DEF Chances
  <2> QED BY <1>1, <2>1, <2>2, <2>3, <2>4 DEF Shared
<1> QED BY <1>2, <1>3 DEF Arrival, Reading

(* A tuple that arrives: nothing is spent on it.                           *)
LEMMA SpentNew ==
    ASSUME Base, Shown, Travel, ~window.dup, Arrival, NEW k \in 1..Len(queue'), k > Len(queue),
           Len(queue') <= MaxTuples, Base'
    PROVE  Spent(k, 0)'
<1>1. /\ UNCHANGED <<window, step, input, todo, output, latest, taken, sent>>
      /\ queue'[k].recv = stamp' /\ stamp' = stamp + 1
  BY TravelType DEF Arrival, Same, operatorVars
<1>2. k \notin 1..Len(queue) /\ k \in 1..MaxTuples
  BY TravelType, Constants DEF Arrival
<1>3. ~InLatest(k) /\ k \notin taken /\ \A j \in 1..Len(buffer) : k \notin Ids(buffer[j])
  BY <1>2, Arrived
<1>4. Cardinality(Holding(buffer, k)) = 0
  BY <1>3, TravelType, HoldingSize
<1>5. Once(k \in taken) = 0
  BY <1>3, OnceType
<1>6. Shared(k, 0)'
  <2>1. Chances(k)' \in 0..2
    BY DEF Chances
  <2>2. CASE buffer' = buffer
    BY <1>1, <1>4, <1>5, <2>1, <2>2 DEF Shared
  <2>3. ASSUME NEW b, Whole(b), window.own, lastRecvTime' = stamp' PROVE Shared(k, 0)'
    <3>1. Cardinality(Holding(buffer', k)) = 0 + Once(k \in Ids(b))
      <4>1. b \in Seq(Tuples) /\ buffer' = Append(buffer, b) /\ buffer \in Seq(Seq(Tuples))
        BY <2>3, TravelType, Appended
      <4> QED BY <1>4, <4>1, HoldingAppend
    <3>2. Chances(k)' = 1
      BY <1>1, <2>3, TravelType DEF Chances
    <3>3. Once(k \in Ids(b)) \in 0..1
      BY OnceType
    <3> QED BY <1>1, <1>5, <3>1, <3>2, <3>3 DEF Shared
  <2>4. \/ buffer' = buffer
        \/ window.own /\ lastRecvTime' = stamp' /\ \E b : Whole(b)
    BY Zenon DEF Arrival
  <2>5. CASE window.own /\ lastRecvTime' = stamp' /\ \E b : Whole(b)
    <3>1. PICK b : Whole(b)
      BY <2>5
    <3> QED BY <2>3, <2>5, <3>1
  <2> QED BY <2>2, <2>4, <2>5
<1>7. Cardinality(KeptAt(k)') = 0
  <2>1. KeyOf(k)' \in Keys
    <3>1. queue'[k] \in Tuples
      BY DEF Arrival
    <3> QED BY <3>1, Constants DEF Tuples, KeyOf
  <2>2. k \notin Ids(latest[KeyOf(k)']) /\ latest[KeyOf(k)'] \in Seq(Tuples)
    BY <1>3, <2>1, TravelType DEF InLatest
  <2>3. KeptAt(k)' = Places(latest[KeyOf(k)'], k)
    BY <1>1 DEF KeptAt
  <2> QED BY <2>2, <2>3, PlacesSize
<1>8. Once(k \in Ids(input)) = 0
  <2>1. k \notin Ids(input)
    BY <1>3 DEF Ids, Base, HeldKnown, InputKnown
  <2> QED BY <2>1, OnceType
<1>9. sent[k] = 0 /\ Cardinality(Places(output, k)) = 0
  <2>1. k \notin Ids(output) /\ sent[k] = 0
    BY <1>2, <1>3, TravelType DEF Travel, FromTaken
  <2> QED BY <2>1, TravelType, PlacesSize
<1>10. KeptOnce(k, 0)'
  BY <1>1, <1>3, <1>5, <1>7, <1>8, <1>9 DEF KeptOnce, Most
<1>11. Passing(k, 0)'
  BY <1>1, <1>5, <1>8, <1>9 DEF Passing
<1> QED BY <1>6, <1>10, <1>11 DEF Spent

LEMMA BudgetStream ==
    ASSUME Base, Shown, Travel, Budget, Arrival \/ Reading, Base' PROVE Budget'
<1>1. UNCHANGED <<window, step, input, todo, output, latest, taken, sent>>
  BY DEF Arrival, Reading, Same, operatorVars
<1>2. SUFFICES ASSUME ~window.dup, NEW k \in 1..Len(queue') PROVE \E d \in 0..2 : Spent(k, d)'
  BY <1>1 DEF Budget
<1>3. CASE k \in 1..Len(queue)
  <2>1. PICK d \in 0..2 : Spent(k, d)
    BY <1>2, <1>3 DEF Budget
  <2>2. queue'[k] = queue[k]
    BY <1>3 DEF Arrival, Reading
  <2>3. Shared(k, d)'
    BY <1>3, <2>1, SharedStream DEF Spent
  <2>4. KeptOnce(k, d)' <=> KeptOnce(k, d)
    BY <1>1, <2>2, KeptSame
  <2>5. Passing(k, d)' <=> Passing(k, d)
    BY <1>1, <2>2, KeptSame
  <2>6. Spent(k, d)'
    BY <1>1, <2>1, <2>3, <2>4, <2>5 DEF Spent
  <2> QED BY <2>6
<1>4. CASE k \notin 1..Len(queue)
  <2>1. k > Len(queue) /\ Arrival
    BY <1>4, TravelType DEF Reading
  <2>2. Len(queue') <= MaxTuples
    BY DEF Base, TypeOK
  <2>3. Spent(k, 0)'
    BY <1>2, <2>1, <2>2, SpentNew
  <2> QED BY <2>3
<1> QED BY <1>3, <1>4

-----------------------------------------------------------------------------
(* The steps of the operator: what is spent.                               *)
LEMMA BudgetTake == ASSUME Base, Budget, Take PROVE Budget'
<1>1. /\ step = "idle" /\ step' = "fold" /\ buffer # <<>> /\ buffer' = Tail(buffer)
      /\ input' = Head(buffer) /\ taken' = Ids(Head(buffer))
      /\ taken = {} /\ input = <<>> /\ output = <<>>
      /\ UNCHANGED <<window, queue, reading, lastRecvTime, todo, output, latest, sent>>
  BY DEF Take, streamVars, Base, InHand
<1>2. SUFFICES ASSUME ~window.dup, NEW k \in 1..Len(queue), NEW d \in 0..2, Spent(k, d)
               PROVE  Spent(k, d)'
  BY <1>1 DEF Budget
<1>3. Once(k \in taken) = 0 /\ Once(k \in Ids(input)) = 0
  <2>1. k \notin taken /\ k \notin Ids(input)
    BY <1>1 DEF Ids
  <2> QED BY <2>1, OnceType
<1>4. Once(k \in taken)' = Once(k \in Ids(Head(buffer)))
      /\ Once(k \in Ids(input))' = Once(k \in Ids(Head(buffer)))
  BY <1>1
<1>5. Once(k \in Ids(Head(buffer))) \in 0..1
  BY OnceType
<1>6. KeyOf(k)' = KeyOf(k) /\ KeptAt(k)' = KeptAt(k) /\ Chances(k)' = Chances(k)
  BY <1>1 DEF KeyOf, KeptAt, Chances
<1>7. Shared(k, d)'
  <2>1. /\ Cardinality(Holding(Tail(buffer), k)) \in Nat
        /\ Cardinality(Holding(Tail(buffer), k)) + Once(k \in Ids(Head(buffer)))
              <= Cardinality(Holding(buffer, k))
    BY <1>1, TravelType, HoldingTail
  <2>2. Cardinality(Holding(buffer, k)) \in Nat /\ Chances(k) \in 0..2
    BY SpentType
  <2>3. Cardinality(Holding(buffer, k)) + 0 + d <= Chances(k)
    BY <1>2, <1>3 DEF Spent, Shared
  <2>4. Cardinality(Holding(Tail(buffer), k)) + Once(k \in Ids(Head(buffer))) + d <= Chances(k)
    BY <1>5, <2>1, <2>2, <2>3
  <2> QED BY <1>1, <1>4, <1>6, <2>4 DEF Shared
<1>8. ASSUME window.partition PROVE KeptOnce(k, d)'
  <2>1. Cardinality(KeptAt(k)) \in Nat
    BY SpentType
  <2>2. Cardinality(KeptAt(k)) + 0 <= d + 0 /\ sent[k] <= Most(d)
    BY <1>2, <1>3, <1>8 DEF Spent, KeptOnce
  <2>3. Cardinality(KeptAt(k)) + Once(k \in Ids(Head(buffer)))
           <= d + Once(k \in Ids(Head(buffer)))
    BY <1>5, <2>1, <2>2
  <2>4. Most(d)' = Most(d)
    BY <1>1 DEF Most
  <2> QED BY <1>1, <1>4, <1>6, <2>2, <2>3, <2>4 DEF KeptOnce
<1>9. ASSUME ~window.partition PROVE Passing(k, d)'
  <2>1. sent[k] \in Nat /\ Cardinality(Places(output, k)) \in Nat
    BY SpentType
  <2>2. sent[k] + Cardinality(Places(output, k)) + 0 <= d + 0
    BY <1>2, <1>3, <1>9 DEF Spent, Passing
  <2>3. sent[k] + Cardinality(Places(output, k)) + Once(k \in Ids(Head(buffer)))
           <= d + Once(k \in Ids(Head(buffer)))
    BY <1>5, <2>1, <2>2
  <2> QED BY <1>1, <1>4, <2>3 DEF Passing
<1> QED BY <1>1, <1>7, <1>8, <1>9 DEF Spent

LEMMA BudgetFold == ASSUME Base, Travel, Budget, Fold PROVE Budget'
<1> USE Constants
<1> DEFINE t == Head(input)
<1>1. /\ step = "fold" /\ input # <<>> /\ t \in Tuples /\ t.msg \in Messages /\ t = input[1]
      /\ Known(t, queue) /\ 1 \in 1..Len(input)
      /\ input' = Tail(input)
      /\ UNCHANGED <<window, queue, reading, lastRecvTime, buffer, step, todo, taken, sent>>
      /\ UNCHANGED <<hashMap, latest, output, passed>> \/ Passes(t)
  BY FoldStep
<1> HIDE DEF t
<1>2. SUFFICES ASSUME ~window.dup, NEW k \in 1..Len(queue), NEW d \in 0..2, Spent(k, d)
               PROVE  Spent(k, d)'
  BY <1>1 DEF Budget
<1>3. Once(k \in Ids(Tail(input))) + Once(t.id = k) <= Once(k \in Ids(input))
  <2>1. /\ Len(Tail(input)) \in Nat
        /\ \A i \in 1..Len(Tail(input)) :
             Tail(input)[i] = input[i + 1] /\ i + 1 \in 1..Len(input)
    BY <1>1, TravelType, RestFacts
  <2>2. k \in Ids(Tail(input)) => k \in Ids(input)
    BY <2>1 DEF Ids
  <2>3. t.id = k => k \in Ids(input)
    BY <1>1 DEF Ids
  <2>4. t.id = k => k \notin Ids(Tail(input))
    <3>1. ASSUME t.id = k, NEW i \in 1..Len(Tail(input)), Tail(input)[i].id = k PROVE FALSE
      <4>1. i + 1 = 1
        BY <1>1, <2>1, <3>1 DEF Travel, SetsDistinct, Distinct
      <4> QED BY <2>1, <4>1
    <3> QED BY <3>1 DEF Ids
  <2> QED BY <2>2, <2>3, <2>4 DEF Once
<1>4. /\ Once(k \in Ids(Tail(input))) \in 0..1 /\ Once(t.id = k) \in 0..1
      /\ Once(k \in Ids(input)) \in 0..1 /\ Once(k \in taken) \in 0..1
  BY OnceType
<1>5. /\ Once(k \in taken)' = Once(k \in taken)
      /\ Once(k \in Ids(input))' = Once(k \in Ids(Tail(input)))
      /\ KeyOf(k)' = KeyOf(k) /\ KeptAt(k)' = Places(latest'[KeyOf(k)], k)
      /\ Most(d)' = Most(d)
  BY <1>1 DEF KeyOf, KeptAt, Most
<1>6. Shared(k, d)'
  BY <1>1, <1>2 DEF Spent, Shared, Chances
<1>7. ASSUME window.partition PROVE KeptOnce(k, d)'
  <2>1. /\ Cardinality(Places(latest'[KeyOf(k)], k)) \in Nat
        /\ Cardinality(Places(latest'[KeyOf(k)], k)) <= Cardinality(KeptAt(k)) + Once(t.id = k)
    <3>1. /\ Cardinality(KeptAt(k)) \in Nat /\ KeyOf(k) \in Keys
          /\ latest[KeyOf(k)] \in Seq(Tuples)
      BY SpentType
    <3>2. CASE latest'[KeyOf(k)] = latest[KeyOf(k)]
      BY <1>4, <3>1, <3>2 DEF KeptAt
    <3>3. CASE latest' = [latest EXCEPT ![Key[t.msg]] = Insert(@, t)]
      <4>1. CASE KeyOf(k) = Key[t.msg]
        <5>1. latest'[KeyOf(k)] = Insert(latest[KeyOf(k)], t)
          BY <3>1, <3>3, <4>1, TravelType
        <5> QED BY <1>1, <3>1, <5>1, TravelType, PlacesInsert DEF KeptAt
      <4>2. CASE KeyOf(k) # Key[t.msg]
        <5>1. latest'[KeyOf(k)] = latest[KeyOf(k)]
          BY <3>1, <3>3, <4>2, TravelType
        <5> QED BY <3>2, <5>1
      <4> QED BY <4>1, <4>2
    <3> QED BY <1>1, <1>7, <3>2, <3>3 DEF Passes
  <2>2. Cardinality(KeptAt(k)) + Once(k \in Ids(input)) <= d + Once(k \in taken)
        /\ sent[k] <= Most(d)
    BY <1>2, <1>7 DEF Spent, KeptOnce
  <2>3. Cardinality(KeptAt(k)) \in Nat
    BY SpentType
  <2>4. Cardinality(Places(latest'[KeyOf(k)], k)) + Once(k \in Ids(Tail(input)))
           <= d + Once(k \in taken)
    BY <1>3, <1>4, <2>1, <2>2, <2>3
  <2> QED BY <1>1, <1>5, <2>2, <2>4 DEF KeptOnce
<1>8. ASSUME ~window.partition PROVE Passing(k, d)'
  <2>1. sent[k] \in Nat /\ Cardinality(Places(output, k)) \in Nat
    BY SpentType
  <2>2. Cardinality(Places(output', k)) \in Nat
        /\ Cardinality(Places(output', k)) <= Cardinality(Places(output, k)) + Once(t.id = k)
    <3>1. CASE output' = output
      BY <1>4, <2>1, <3>1
    <3>2. CASE output' = Append(output, t)
      <4>1. Cardinality(Places(output', k)) = Cardinality(Places(output, k)) + Once(t.id = k)
        BY <1>1, <3>2, TravelType, PlacesAppend
      <4> QED BY <1>4, <2>1, <4>1
    <3> QED BY <1>1, <1>8, <3>1, <3>2 DEF Passes
  <2>3. sent[k] + Cardinality(Places(output, k)) + Once(k \in Ids(input)) <= d + Once(k \in taken)
    BY <1>2, <1>8 DEF Spent, Passing
  <2>4. sent[k] + Cardinality(Places(output', k)) + Once(k \in Ids(Tail(input)))
           <= d + Once(k \in taken)
    BY <1>3, <1>4, <2>1, <2>2, <2>3
  <2> QED BY <1>1, <1>5, <2>4 DEF Passing
<1> QED BY <1>1, <1>6, <1>7, <1>8 DEF Spent

LEMMA BudgetFolded == ASSUME Base, Budget, Folded PROVE Budget'
<1>1. /\ step = "fold" /\ input = <<>> /\ todo' = IF window.partition THEN Kept ELSE {}
      /\ UNCHANGED <<window, queue, reading, lastRecvTime, buffer, input, output, latest, taken, sent>>
      /\ window.partition => output = <<>>
  BY DEF Folded, streamVars, Base, InHand
<1>2. SUFFICES ASSUME ~window.dup, NEW k \in 1..Len(queue), NEW d \in 0..2, Spent(k, d)
               PROVE  Spent(k, d)'
  BY <1>1 DEF Budget
<1>3. KeyOf(k)' = KeyOf(k) /\ KeptAt(k)' = KeptAt(k) /\ Most(d)' = Most(d)
  BY <1>1 DEF KeyOf, KeptAt, Most
<1>4. Shared(k, d)'
  BY <1>1, <1>2 DEF Spent, Shared, Chances
<1>5. ASSUME window.partition PROVE KeptOnce(k, d)'
  <2>1. Left(k)' = KeptAt(k)
    <3>1. KeyOf(k) \in Keys
      BY SpentType
    <3>2. todo' = Kept
      BY <1>1, <1>5
    <3>3. \A i \in KeptAt(k) : <<KeyOf(k), i>> \in todo'
      BY <3>1, <3>2, KeptFacts DEF KeptAt, Places
    <3> QED BY <1>3, <3>3 DEF Left
  <2>2. Cardinality(Places(output, k)) = 0
    <3>1. k \notin Ids(output)
      BY <1>1, <1>5 DEF Ids
    <3> QED BY <3>1, TravelType, PlacesSize
  <2>3. Cardinality(KeptAt(k)) \in Nat
    BY SpentType
  <2>4. Cardinality(KeptAt(k)) + Once(k \in Ids(input)) <= d + Once(k \in taken)
        /\ sent[k] <= Most(d)
    BY <1>2, <1>5 DEF Spent, KeptOnce
  <2>5. Cardinality(Places(output', k)) + Cardinality(Left(k)') <= Cardinality(KeptAt(k)')
    BY <1>1, <1>3, <2>1, <2>2, <2>3
  <2> QED BY <1>1, <1>3, <2>4, <2>5 DEF KeptOnce
<1>6. ASSUME ~window.partition PROVE Passing(k, d)'
  BY <1>1, <1>2, <1>6 DEF Spent, Passing
<1> QED BY <1>1, <1>4, <1>5, <1>6 DEF Spent

LEMMA BudgetLook == ASSUME Base, Budget, NEW l, NEW i, Look(l, i) PROVE Budget'
<1> USE Constants
<1>1. /\ step = "send" /\ <<l, i>> \in todo /\ todo' = todo \ {<<l, i>>}
      /\ l \in Keys /\ i \in 1..Len(latest[l]) /\ latest[l][i] \in Tuples
      /\ output' = IF window.dup \/ latest[l][i].recv > preLastRecvTime
                   THEN Append(output, latest[l][i]) ELSE output
      /\ UNCHANGED <<window, queue, reading, lastRecvTime, buffer, step, input, latest, taken, sent>>
      /\ window.partition
  BY LookStep DEF Base, InHand
<1>2. SUFFICES ASSUME ~window.dup, NEW k \in 1..Len(queue), NEW d \in 0..2, Spent(k, d)
               PROVE  Spent(k, d)'
  BY <1>1 DEF Budget
<1>3. KeyOf(k)' = KeyOf(k) /\ KeptAt(k)' = KeptAt(k) /\ Most(d)' = Most(d)
  BY <1>1 DEF KeyOf, KeptAt, Most
<1>4. Shared(k, d)'
  BY <1>1, <1>2 DEF Spent, Shared, Chances
<1>5. latest[l][i].id = k <=> l = KeyOf(k) /\ i \in KeptAt(k)
  <2>1. Known(latest[l][i], queue) /\ Key[latest[l][i].msg] = l
    BY <1>1 DEF Base, HeldKnown, LatestKnown
  <2>2. latest[l][i].id = k => l = KeyOf(k) /\ i \in KeptAt(k)
    BY <1>1, <2>1 DEF Known, KeyOf, KeptAt, Places
  <2>3. l = KeyOf(k) /\ i \in KeptAt(k) => latest[l][i].id = k
    BY DEF KeptAt, Places
  <2> QED BY <2>2, <2>3
<1>6. /\ Cardinality(Places(output, k)) \in Nat /\ IsFiniteSet(Left(k))
      /\ Cardinality(Left(k)) \in Nat /\ Cardinality(KeptAt(k)) \in Nat
  BY SpentType
<1>7. /\ Cardinality(Places(output', k)) \in Nat
      /\ Cardinality(Places(output', k)) + Cardinality(Left(k)')
            <= Cardinality(Places(output, k)) + Cardinality(Left(k))
  <2>1. /\ Cardinality(Places(output', k)) \in Nat
        /\ Cardinality(Places(output', k))
              <= Cardinality(Places(output, k)) + Once(latest[l][i].id = k)
    <3>1. Once(latest[l][i].id = k) \in 0..1
      BY OnceType
    <3>2. CASE output' = output
      BY <1>6, <3>1, <3>2
    <3>3. CASE output' = Append(output, latest[l][i])
      <4>1. Cardinality(Places(output', k))
               = Cardinality(Places(output, k)) + Once(latest[l][i].id = k)
        BY <1>1, <3>3, TravelType, PlacesAppend
      <4> QED BY <1>6, <3>1, <4>1
    <3> QED BY <1>1, <3>2, <3>3
  <2>2. CASE latest[l][i].id = k
    <3>1. i \in Left(k) /\ Left(k)' = Left(k) \ {i}
      <4>1. l = KeyOf(k) /\ i \in KeptAt(k)
        BY <1>5, <2>2
      <4>2. i \in Left(k)
        BY <1>1, <4>1 DEF Left
      <4>3. Left(k)' = {j \in KeptAt(k) : <<KeyOf(k), j>> \in todo'}
        BY <1>3 DEF Left
      <4>4. \A j : <<KeyOf(k), j>> \in todo' <=> <<KeyOf(k), j>> \in todo /\ j # i
        BY <1>1, <4>1
      <4> QED BY <4>2, <4>3, <4>4 DEF Left
    <3>2. Cardinality(Left(k)') = Cardinality(Left(k)) - 1
      <4> DEFINE L == Left(k)
      <4>1. IsFiniteSet(L) /\ i \in L
        BY <1>6, <3>1
      <4> HIDE DEF L
      <4>2. Cardinality(L \ {i}) = Cardinality(L) - 1
        BY <4>1, FS_RemoveElement
      <4> QED BY <3>1, <4>2 DEF L
    <3>3. Once(latest[l][i].id = k) = 1
      BY <2>2, OnceType
    <3> QED BY <1>6, <2>1, <3>2, <3>3
  <2>3. CASE latest[l][i].id # k
    <3>1. Left(k)' = Left(k)
      <4>1. Left(k)' = {j \in KeptAt(k) : <<KeyOf(k), j>> \in todo'}
        BY <1>3 DEF Left
      <4>2. \A j \in KeptAt(k) : <<KeyOf(k), j>> \in todo' <=> <<KeyOf(k), j>> \in todo
        BY <1>1, <1>5, <2>3
      <4> QED BY <4>1, <4>2 DEF Left
    <3>2. Once(latest[l][i].id = k) = 0
      BY <2>3, OnceType
    <3> QED BY <1>6, <2>1, <3>1, <3>2
  <2> QED BY <2>2, <2>3
<1>8. KeptOnce(k, d)'
  <2>1. KeptOnce(k, d)
    BY <1>1, <1>2 DEF Spent
  <2>2. Cardinality(Left(k)') \in Nat
    <3>1. Left(k)' \in SUBSET KeptAt(k)
      BY <1>3 DEF Left
    <3>2. IsFiniteSet(KeptAt(k))
      BY SpentType
    <3> QED BY <3>1, <3>2, FS_Subset, FS_CardinalityType
  <2>3. k \in taken => Cardinality(Places(output', k)) + Cardinality(Left(k)')
                          <= Cardinality(KeptAt(k))
    <3>1. k \in taken => Cardinality(Places(output, k)) + Cardinality(Left(k))
                            <= Cardinality(KeptAt(k))
      BY <1>1, <2>1 DEF KeptOnce
    <3> QED BY <1>6, <1>7, <2>2, <3>1
  <2> QED BY <1>1, <1>3, <2>1, <2>3 DEF KeptOnce
<1> QED BY <1>1, <1>4, <1>8 DEF Spent

LEMMA BudgetSend == ASSUME Base, Travel, Budget, Send PROVE Budget'
<1>1. /\ step = "send" /\ step' = "idle" /\ todo = {} /\ output' = <<>> /\ taken' = {}
      /\ sent' = [k \in 1..MaxTuples |-> sent[k] + Cardinality(Out(k))]
      /\ UNCHANGED <<window, queue, reading, lastRecvTime, buffer, input, latest>>
      /\ input = <<>>
  BY SendStep DEF Base, InHand
<1>2. SUFFICES ASSUME ~window.dup, NEW k \in 1..Len(queue), NEW d \in 0..2, Spent(k, d)
               PROVE  \E e \in 0..2 : Spent(k, e)'
  BY <1>1 DEF Budget
<1>3. PICK o : o = Once(k \in taken)
  OBVIOUS
<1>4. o \in 0..1 /\ (k \in taken => o = 1) /\ (k \notin taken => o = 0)
  BY <1>3, OnceType
<1>5. /\ Cardinality(Holding(buffer, k)) \in Nat /\ Chances(k) \in 0..2 /\ sent[k] \in Nat
      /\ Cardinality(Places(output, k)) \in Nat /\ Cardinality(KeptAt(k)) \in Nat
      /\ Cardinality(KeptAt(k)) <= window.rows /\ window.rows \in Nat /\ window.rows >= 1
  BY SpentType
<1>6. Once(k \in Ids(input)) = 0 /\ Once(k \in taken)' = 0 /\ Once(k \in Ids(input))' = 0
  <2>1. k \notin Ids(input) /\ k \notin taken' /\ k \notin Ids(input')
    BY <1>1 DEF Ids
  <2> QED BY <2>1, OnceType
<1>7. Cardinality(Holding(buffer, k)) + o + d <= Chances(k)
  BY <1>2, <1>3 DEF Spent, Shared
<1>8. PICK e : e = d + o
  OBVIOUS
<1>9. e \in 0..2
  BY <1>4, <1>5, <1>7, <1>8
<1>10. KeyOf(k)' = KeyOf(k) /\ KeptAt(k)' = KeptAt(k) /\ Most(e)' = Most(e)
       /\ Chances(k)' = Chances(k)
  BY <1>1 DEF KeyOf, KeptAt, Most, Chances
<1>11. Shared(k, e)'
  <2>1. Cardinality(Holding(buffer, k)) + 0 + e <= Chances(k)
    BY <1>4, <1>5, <1>7, <1>8
  <2> QED BY <1>1, <1>6, <1>10, <2>1 DEF Shared
<1>12. sent'[k] = sent[k] + Cardinality(Places(output, k))
  <2>1. k \in 1..MaxTuples
    BY SpentType
  <2>2. sent'[k] = sent[k] + Cardinality(Out(k))
    BY <1>1, <2>1
  <2>3. Out(k) = Places(output, k)
    BY DEF Out, Places
  <2> QED BY <2>2, <2>3
<1>13. ASSUME window.partition PROVE KeptOnce(k, e)'
  <2>1. Cardinality(KeptAt(k)) + 0 <= d + o /\ sent[k] <= Most(d)
    BY <1>2, <1>3, <1>6, <1>13 DEF Spent, KeptOnce
  <2>2. /\ Most(d) = IF window.rows > 1 /\ d = 2 THEN 3 ELSE d
        /\ Most(e) = IF window.rows > 1 /\ e = 2 THEN 3 ELSE e
    BY DEF Most
  <2>3. sent'[k] <= Most(e)
    <3>1. CASE k \in taken
      <4>1. Cardinality(Left(k)) = 0
        <5>1. Left(k) = {}
          BY <1>1 DEF Left
        <5> QED BY <5>1, FS_EmptySet
      <4>2. Cardinality(Places(output, k)) + Cardinality(Left(k)) <= Cardinality(KeptAt(k))
        BY <1>1, <1>2, <1>13, <3>1 DEF Spent, KeptOnce
      <4>3. Cardinality(Places(output, k)) <= Cardinality(KeptAt(k))
        BY <1>5, <4>1, <4>2
      <4>4. o = 1 /\ d \in 0..1
        BY <1>4, <1>8, <1>9, <3>1
      <4> QED BY <1>5, <1>8, <1>12, <2>1, <2>2, <4>3, <4>4
    <3>2. CASE k \notin taken
      <4>1. k \notin Ids(output)
        BY <1>2, <3>2 DEF Travel, FromTaken
      <4>2. Cardinality(Places(output, k)) = 0
        BY <4>1, TravelType, PlacesSize
      <4>3. o = 0
        BY <1>4, <3>2
      <4> QED BY <1>5, <1>8, <1>12, <2>1, <2>2, <4>2, <4>3
    <3> QED BY <3>1, <3>2
  <2>4. Cardinality(KeptAt(k)) + 0 <= e + 0
    BY <1>4, <1>5, <1>8, <2>1
  <2> QED BY <1>1, <1>6, <1>10, <2>3, <2>4 DEF KeptOnce
<1>14. ASSUME ~window.partition PROVE Passing(k, e)'
  <2>1. sent[k] + Cardinality(Places(output, k)) + 0 <= d + o
    BY <1>2, <1>3, <1>6, <1>14 DEF Spent, Passing
  <2>2. Cardinality(Places(output', k)) = 0
    <3>1. <<>> \in Seq(Tuples) /\ k \notin Ids(<<>>)
      BY DEF Ids
    <3> QED BY <1>1, <3>1, PlacesSize
  <2>3. sent'[k] + 0 + 0 <= e + 0
    BY <1>4, <1>5, <1>8, <1>12, <2>1
  <2> QED BY <1>6, <2>2, <2>3 DEF Passing
<1>15. Spent(k, e)'
  BY <1>1, <1>11, <1>13, <1>14 DEF Spent
<1> QED BY <1>9, <1>15

LEMMA BudgetNext == ASSUME Base, Shown, Travel, Budget, [Next]_vars PROVE Budget'
<1>1. Moves
  BY EveryMove
<1>2. CASE Elsewhere
  BY <1>2, BudgetSame DEF Elsewhere
<1>3. Base'
  BY BaseNext
<1> QED BY <1>1, <1>2, <1>3, BudgetStream, BudgetTriggered, BudgetTake, BudgetFold, BudgetFolded,
           BudgetLook, BudgetSend DEF Moves

LEMMA WithinBudget == ASSUME Base, Travel, Budget PROVE SentOnce
<1> SUFFICES ASSUME ~window.dup, NEW k \in 1..MaxTuples
             PROVE  sent[k] <= IF window.own THEN 1
                               ELSE IF window.partition /\ window.rows > 1 THEN 3 ELSE 2
  BY DEF SentOnce
<1>1. CASE k \in 1..Len(queue)
  <2>1. PICK d \in 0..2 : Spent(k, d)
    BY <1>1 DEF Budget
  <2>2. /\ Cardinality(Holding(buffer, k)) \in Nat /\ sent[k] \in Nat
        /\ Cardinality(Places(output, k)) \in Nat /\ window.rows \in Nat
    BY <1>1, SpentType
  <2>3. Once(k \in taken) \in 0..1 /\ Once(k \in Ids(input)) \in 0..1
    BY OnceType
  <2>4. Chances(k) \in 0..IF window.own THEN 1 ELSE 2
    BY DEF Chances
  <2>5. Cardinality(Holding(buffer, k)) + Once(k \in taken) + d <= Chances(k)
    BY <2>1 DEF Spent, Shared
  <2>6. d + Once(k \in taken) <= IF window.own THEN 1 ELSE 2
    BY <2>2, <2>3, <2>4, <2>5
  <2>7. CASE window.partition
    <3>1. sent[k] <= IF window.rows > 1 /\ d = 2 THEN 3 ELSE d
      BY <2>1, <2>7 DEF Spent, KeptOnce, Most
    <3> QED BY <2>2, <2>3, <2>6, <2>7, <3>1
  <2>8. CASE ~window.partition
    <3>1. sent[k] + Cardinality(Places(output, k)) + Once(k \in Ids(input))
             <= d + Once(k \in taken)
      BY <2>1, <2>8 DEF Spent, Passing
    <3> QED BY <2>2, <2>3, <2>6, <2>8, <3>1
  <2> QED BY <2>7, <2>8
<1>2. CASE k \notin 1..Len(queue)
  <2>1. sent[k] = 0
    BY <1>2, TravelType, Constants DEF Travel, FromTaken
  <2> QED BY <2>1
<1> QED BY <1>1, <1>2

(* A tuple is sent on once by a window of its own stream, and by one of    *)
(* another master twice, or three times when ROWS n keeps it at two places *)
(* (WindowOperator::process): for any messages, windows and bounds.        *)
THEOREM SentOnceEach == Spec => []SentOnce
<1>1. Init => Base /\ Shown /\ Travel /\ Budget
  BY BaseInit, ShownInit, TravelInit, BudgetInit
<1>2. Base /\ Shown /\ Travel /\ Budget /\ [Next]_vars => (Base /\ Shown /\ Travel /\ Budget)'
  BY BaseNext, ShownNext, TravelNext, BudgetNext
<1>3. Base /\ Shown /\ Travel /\ Budget => SentOnce
  BY WithinBudget
<1> QED BY <1>1, <1>2, <1>3, PTL DEF Spec

-----------------------------------------------------------------------------
(* What is kept.  The tuples of a key that passed the filter, as places in *)
(* passed, and a deque as places among them: in the order of Before, the   *)
(* best last, and before every tuple of the key that it does not hold.     *)
OfKey(p, k) == {i \in 1..Len(p) : Key[p[i].msg] = k}

Ranked(p, dq, k, f) ==
    /\ f \in [1..Len(dq) -> OfKey(p, k)]
    /\ \A i \in 1..Len(dq) : p[f[i]].id = dq[i].id /\ p[f[i]].msg = dq[i].msg
    /\ \A i, j \in 1..Len(dq) : i < j => Before(p, f[j], f[i])
    /\ \A j \in OfKey(p, k) :
         (\A i \in 1..Len(dq) : f[i] # j) =>
           Len(dq) = window.rows /\ \A i \in 1..Len(dq) : Before(p, f[i], j)

Rank == window.partition => \A k \in Keys : \E f : Ranked(passed, latest[k], k, f)

(* Before is a strict order of the tuples that passed.                     *)
LEMMA BeforeOrder ==
    ASSUME NEW p \in Seq(Passed), NEW i \in 1..Len(p), NEW j \in 1..Len(p)
    PROVE  /\ ~Before(p, i, i)
           /\ Before(p, i, j) => ~Before(p, j, i)
           /\ \A l \in 1..Len(p) : Before(p, i, j) /\ Before(p, j, l) => Before(p, i, l)
<1>1. \A l \in 1..Len(p) : Time[p[l].msg] \in Nat
  <2>1. \A l \in 1..Len(p) : p[l] \in Passed
    OBVIOUS
  <2> QED BY <2>1, Constants DEF Passed
<1> QED BY <1>1 DEF Before

(* The first places of a deque that is in order.                           *)
LEMMA PrefixSet ==
    ASSUME NEW n \in Nat, NEW S \in SUBSET (1..n), \A i \in S : \A j \in 1..i : j \in S
    PROVE  \A i \in 1..n : i \in S <=> i <= Cardinality(S)
<1>1. IsFiniteSet(S) /\ Cardinality(S) \in Nat
  BY PrefixSize
<1> SUFFICES ASSUME NEW i \in 1..n PROVE i \in S <=> i <= Cardinality(S)
  OBVIOUS
<1>2. CASE i \in S
  <2>1. 1..i \in SUBSET S
    BY <1>2
  <2>2. Cardinality(1..i) = i
    <3>1. 1 \in Int /\ i \in Int /\ ~(1 > i)
      OBVIOUS
    <3>2. Cardinality(1..i) = i - 1 + 1
      BY <3>1, FS_Interval
    <3> QED BY <3>2
  <2>3. Cardinality(1..i) <= Cardinality(S)
    BY <1>1, <2>1, FS_Subset
  <2> QED BY <1>2, <2>2, <2>3
<1>3. CASE i \notin S
  <2>1. S \in SUBSET (1..i - 1)
    <3>1. ASSUME NEW j \in S, j >= i PROVE FALSE
      <4>1. i \in 1..j
        BY <3>1
      <4> QED BY <1>3, <4>1
    <3> QED BY <3>1
  <2>2. i - 1 \in Nat
    OBVIOUS
  <2>3. Cardinality(S) \in 0..i - 1
    BY <2>1, <2>2, PrefixSize
  <2> QED BY <1>3, <2>3
<1> QED BY <1>2, <1>3

(* In a deque in the order of timestamps the new tuple stands after those  *)
(* that are not younger, and before the younger ones.                      *)
LEMMA InOrderPlace ==
    ASSUME NEW dq \in Seq(Tuples), NEW t \in Tuples,
           \A i, j \in 1..Len(dq) : i < j => Time[dq[i].msg] <= Time[dq[j].msg]
    PROVE  LET w == InOrder(dq, t)
           IN  /\ w \in Seq(Tuples) /\ Len(w) = Len(dq) + 1 /\ Len(dq) \in Nat
               /\ \E n \in 0..Len(dq) :
                    /\ \A i \in 1..Len(dq) : i <= n <=> Time[dq[i].msg] <= Time[t.msg]
                    /\ \A i \in 1..Len(w) :
                         w[i] = IF i <= n THEN dq[i] ELSE IF i = n + 1 THEN t ELSE dq[i - 1]
<1> DEFINE S == {i \in 1..Len(dq) : Time[dq[i].msg] <= Time[t.msg]}
           w == InOrder(dq, t)
<1>1. /\ Len(dq) \in Nat /\ Time[t.msg] \in Nat
      /\ \A i \in 1..Len(dq) : Time[dq[i].msg] \in Nat
  <2>1. \A i \in 1..Len(dq) : dq[i] \in Tuples
    OBVIOUS
  <2> QED BY <2>1, Constants DEF Tuples
<1>2. w \in Seq(Tuples) /\ Len(w) = Len(dq) + 1
  BY InOrderFacts
<1>3. PICK n \in 0..Len(dq) :
         /\ n = Cardinality(S)
         /\ \A i \in 1..Len(w) :
              w[i] = IF i <= n THEN dq[i] ELSE IF i = n + 1 THEN t ELSE dq[i - 1]
  BY InOrderFacts
<1>4. \A i \in S : \A j \in 1..i : j \in S
  <2> SUFFICES ASSUME NEW i \in S, NEW j \in 1..i, j # i PROVE j \in S
    OBVIOUS
  <2>1. j \in 1..Len(dq) /\ i \in 1..Len(dq) /\ j < i
    BY <1>1
  <2> QED BY <1>1, <2>1
<1>5. \A i \in 1..Len(dq) : i \in S <=> i <= n
  <2>1. S \in SUBSET (1..Len(dq))
    OBVIOUS
  <2> HIDE DEF S
  <2> QED BY <1>1, <1>3, <1>4, <2>1, PrefixSet
<1> QED BY <1>1, <1>2, <1>3, <1>5

(* One more tuple that passed.                                             *)
LEMMA PassedGrown ==
    ASSUME NEW p \in Seq(Passed), NEW e \in Passed, NEW k
    PROVE  LET q == Append(p, e)
           IN  /\ q \in Seq(Passed) /\ Len(p) \in Nat /\ Len(q) = Len(p) + 1
               /\ q[Len(p) + 1] = e
               /\ \A i \in 1..Len(p) : q[i] = p[i] /\ i \in 1..Len(q)
               /\ \A i, j \in 1..Len(p) : Before(q, i, j) <=> Before(p, i, j)
               /\ \A i : i \in OfKey(q, k) <=>
                    i \in OfKey(p, k) \/ (i = Len(p) + 1 /\ Key[e.msg] = k)
<1> DEFINE q == Append(p, e)
<1>1. /\ q \in Seq(Passed) /\ Len(p) \in Nat /\ Len(q) = Len(p) + 1 /\ q[Len(p) + 1] = e
      /\ \A i \in 1..Len(p) : q[i] = p[i] /\ i \in 1..Len(q)
  BY AppendProperties
<1> HIDE DEF q
<1>2. \A i, j \in 1..Len(p) : Before(q, i, j) <=> Before(p, i, j)
  BY <1>1 DEF Before
<1>3. ASSUME NEW i
      PROVE  i \in OfKey(q, k) <=> i \in OfKey(p, k) \/ (i = Len(p) + 1 /\ Key[e.msg] = k)
  <2>1. i \in 1..Len(q) <=> i \in 1..Len(p) \/ i = Len(p) + 1
    BY <1>1
  <2>2. Len(p) + 1 \notin 1..Len(p)
    BY <1>1
  <2> QED BY <1>1, <2>1, <2>2 DEF OfKey
<1> QED BY <1>1, <1>2, <1>3, Zenon DEF q

(* A tuple of another key changes nothing for this one.                    *)
LEMMA RankedOther ==
    ASSUME NEW p \in Seq(Passed), NEW e \in Passed, NEW dq \in Seq(Tuples), NEW k, NEW f,
           Ranked(p, dq, k, f), Key[e.msg] # k
    PROVE  Ranked(Append(p, e), dq, k, f)
<1> DEFINE q == Append(p, e)
<1>1. /\ \A i \in 1..Len(p) : q[i] = p[i]
      /\ \A i, j \in 1..Len(p) : Before(q, i, j) <=> Before(p, i, j)
      /\ \A i : i \in OfKey(q, k) <=> i \in OfKey(p, k)
  <2>1. /\ q \in Seq(Passed) /\ Len(p) \in Nat /\ Len(q) = Len(p) + 1 /\ q[Len(p) + 1] = e
        /\ \A i \in 1..Len(p) : q[i] = p[i] /\ i \in 1..Len(q)
        /\ \A i, j \in 1..Len(p) : Before(q, i, j) <=> Before(p, i, j)
        /\ \A i : i \in OfKey(q, k) <=>
             i \in OfKey(p, k) \/ (i = Len(p) + 1 /\ Key[e.msg] = k)
    BY PassedGrown, Zenon
  <2> HIDE DEF q
  <2> QED BY <2>1
<1> HIDE DEF q
<1>2. OfKey(q, k) = OfKey(p, k) /\ OfKey(p, k) \subseteq 1..Len(p)
  BY <1>1 DEF OfKey
<1>3. \A i \in 1..Len(dq) : f[i] \in 1..Len(p)
  BY <1>2 DEF Ranked
<1>4. Ranked(q, dq, k, f)
  BY <1>1, <1>2, <1>3 DEF Ranked
<1> QED BY <1>4 DEF q

(* ROWS 1: the first of the newest.                                        *)
LEMMA RankedOne ==
    ASSUME window.rows = 1, NEW p \in Seq(Passed), NEW e \in Passed,
           NEW dq \in Seq(Tuples), Len(dq) <= 1, NEW t \in Tuples, e.id = t.id, e.msg = t.msg,
           NEW k, Key[t.msg] = k, NEW f, Ranked(p, dq, k, f)
    PROVE  \E g : Ranked(Append(p, e), Insert(dq, t), k, g)
<1> DEFINE q == Append(p, e)
<1>m. PICK m : m = Len(p) + 1
  OBVIOUS
<1>r. PICK r : r = Insert(dq, t)
  OBVIOUS
<1>1. /\ q \in Seq(Passed) /\ Len(p) \in Nat /\ Len(q) = m /\ q[m] = e
      /\ \A i \in 1..Len(p) : q[i] = p[i] /\ i \in 1..Len(q)
      /\ \A i, j \in 1..Len(p) : Before(q, i, j) <=> Before(p, i, j)
      /\ \A i : i \in OfKey(q, k) <=> i \in OfKey(p, k) \/ i = m
  <2>1. /\ q \in Seq(Passed) /\ Len(p) \in Nat /\ Len(q) = Len(p) + 1 /\ q[Len(p) + 1] = e
        /\ \A i \in 1..Len(p) : q[i] = p[i] /\ i \in 1..Len(q)
        /\ \A i, j \in 1..Len(p) : Before(q, i, j) <=> Before(p, i, j)
        /\ \A i : i \in OfKey(q, k) <=>
             i \in OfKey(p, k) \/ (i = Len(p) + 1 /\ Key[e.msg] = k)
    BY PassedGrown
  <2> HIDE DEF q
  <2>2. Key[e.msg] = k
    OBVIOUS
  <2> QED BY <1>m, <2>1, <2>2, Zenon
<1> HIDE DEF q
<1>2. r = IF dq = <<>> \/ Time[t.msg] > Time[dq[1].msg] THEN <<t>> ELSE dq
  BY <1>r DEF Insert
<1>3. /\ f \in [1..Len(dq) -> OfKey(p, k)]
      /\ \A i \in 1..Len(dq) : p[f[i]].id = dq[i].id /\ p[f[i]].msg = dq[i].msg
      /\ \A j \in OfKey(p, k) :
           (\A i \in 1..Len(dq) : f[i] # j) =>
             Len(dq) = 1 /\ \A i \in 1..Len(dq) : Before(p, f[i], j)
  BY DEF Ranked
<1>4. OfKey(p, k) \subseteq 1..Len(p)
  BY DEF OfKey
<1>5. Len(dq) \in Nat /\ (Len(dq) = 0 <=> dq = <<>>)
  OBVIOUS
<1>a. Len(dq) = 0 \/ Len(dq) = 1
  <2>1. \A n \in Nat : n <= 1 => n = 0 \/ n = 1
    OBVIOUS
  <2> QED BY <1>5, <2>1, Zenon
<1>6. Time[t.msg] \in Nat /\ \A i \in 1..Len(dq) : Time[dq[i].msg] \in Nat
  <2>1. \A i \in 1..Len(dq) : dq[i] \in Tuples
    OBVIOUS
  <2> QED BY <2>1, Constants DEF Tuples
<1>7. CASE dq = <<>> \/ Time[t.msg] > Time[dq[1].msg]
  <2>1. r = <<t>> /\ Len(r) = 1 /\ r[1] = t
    BY <1>2, <1>7
  <2>2. PICK g : g = [i \in 1..1 |-> m]
    OBVIOUS
  <2>3. g[1] = m /\ \A i \in 1..Len(r) : i = 1
    BY <2>1, <2>2
  <2>4. g \in [1..Len(r) -> OfKey(q, k)]
    BY <1>1, <2>1, <2>2
  <2>5. ASSUME NEW j \in OfKey(q, k), j # m PROVE Before(q, m, j)
    <3>1. j \in OfKey(p, k) /\ j \in 1..Len(p)
      BY <1>1, <1>4, <2>5
    <3>2. Len(dq) = 1 /\ dq # <<>>
      <4>1. CASE Len(dq) = 0
        <5>1. \A i \in 1..Len(dq) : f[i] # j
          BY <4>1
        <5> QED BY <1>3, <3>1, <4>1, <5>1
      <4>2. Len(dq) = 1
        BY <1>a, <4>1
      <4>3. dq # <<>>
        BY <1>5, <4>2
      <4> QED BY <4>2, <4>3
    <3>3. 1 \in 1..Len(dq) /\ \A i \in 1..Len(dq) : i = 1
      BY <3>2
    <3>4. f[1] \in 1..Len(p) /\ q[f[1]].msg = dq[1].msg
      BY <1>1, <1>3, <1>4, <3>3
    <3>5. Before(q, m, f[1])
      BY <1>1, <1>7, <3>2, <3>4 DEF Before
    <3>6. CASE f[1] = j
      BY <3>5, <3>6
    <3>7. CASE f[1] # j
      <4>1. Before(q, f[1], j)
        BY <1>1, <1>3, <3>1, <3>3, <3>4, <3>7
      <4>2. m \in 1..Len(q) /\ f[1] \in 1..Len(q) /\ j \in 1..Len(q)
        BY <1>1, <3>1, <3>4
      <4> QED BY <1>1, <3>5, <4>1, <4>2, BeforeOrder
    <3> QED BY <3>6, <3>7
  <2>6. Ranked(q, r, k, g)
    BY <1>1, <2>1, <2>3, <2>4, <2>5 DEF Ranked
  <2> QED BY <1>r, <2>6 DEF q
<1>8. CASE ~(dq = <<>> \/ Time[t.msg] > Time[dq[1].msg])
  <2>1. r = dq /\ Len(dq) = 1 /\ 1 \in 1..Len(dq) /\ \A i \in 1..Len(dq) : i = 1
    <3>1. r = dq /\ dq # <<>>
      BY <1>2, <1>8
    <3>2. Len(dq) = 1
      <4>1. Len(dq) # 0
        BY <1>5, <3>1
      <4> QED BY <1>a, <4>1
    <3> QED BY <3>1, <3>2
  <2>2. f[1] \in OfKey(p, k) /\ f[1] \in 1..Len(p) /\ q[f[1]] = p[f[1]]
    BY <1>1, <1>3, <1>4, <2>1
  <2>3. f \in [1..Len(r) -> OfKey(q, k)]
    BY <1>1, <1>3, <2>1
  <2>4. Before(q, f[1], m)
    <3>1. q[f[1]].msg = dq[1].msg /\ q[m].msg = t.msg /\ f[1] < m
      BY <1>m, <1>1, <1>3, <2>1, <2>2
    <3> QED BY <1>6, <1>8, <2>1, <3>1 DEF Before
  <2>5. ASSUME NEW j \in OfKey(q, k), f[1] # j PROVE Before(q, f[1], j)
    <3>1. CASE j = m
      BY <2>4, <3>1
    <3>2. CASE j # m
      <4>1. j \in OfKey(p, k) /\ j \in 1..Len(p)
        BY <1>1, <1>4, <3>2
      <4> QED BY <1>1, <1>3, <2>1, <2>2, <2>5, <4>1
    <3> QED BY <3>1, <3>2
  <2>6. Ranked(q, r, k, f)
    BY <1>1, <1>3, <2>1, <2>2, <2>3, <2>5 DEF Ranked
  <2> QED BY <1>r, <2>6 DEF q
<1> QED BY <1>7, <1>8

(* ROWS n: in its place, and the last of n + 1 is dropped.                 *)
LEMMA RankedWide ==
    ASSUME NEW p \in Seq(Passed), NEW e \in Passed,
           NEW dq \in Seq(Tuples), NEW t \in Tuples, e.id = t.id, e.msg = t.msg,
           window.rows # 1, NEW k, Key[t.msg] = k, NEW f, Ranked(p, dq, k, f)
    PROVE  \E h : LET q == Append(p, e)
                      w == InOrder(dq, t)
                  IN  /\ h \in [1..Len(w) -> OfKey(q, k)] /\ Len(w) = Len(dq) + 1
                      /\ w \in Seq(Tuples)
                      /\ \A i \in 1..Len(w) : q[h[i]].id = w[i].id /\ q[h[i]].msg = w[i].msg
                      /\ \A i, j \in 1..Len(w) : i < j => Before(q, h[j], h[i])
                      /\ \A j \in OfKey(q, k) :
                           (\A i \in 1..Len(w) : h[i] # j) =>
                             Len(dq) = window.rows /\ \A i \in 2..Len(w) : Before(q, h[i], j)
<1> DEFINE q == Append(p, e)
           w == InOrder(dq, t)
<1>m. PICK m : m = Len(p) + 1
  OBVIOUS
<1>1. /\ q \in Seq(Passed) /\ Len(p) \in Nat /\ Len(q) = m /\ q[m] = e
      /\ \A i \in 1..Len(p) : q[i] = p[i] /\ i \in 1..Len(q)
      /\ \A i, j \in 1..Len(p) : Before(q, i, j) <=> Before(p, i, j)
      /\ \A i : i \in OfKey(q, k) <=> i \in OfKey(p, k) \/ i = m
  <2>1. /\ q \in Seq(Passed) /\ Len(p) \in Nat /\ Len(q) = Len(p) + 1 /\ q[Len(p) + 1] = e
        /\ \A i \in 1..Len(p) : q[i] = p[i] /\ i \in 1..Len(q)
        /\ \A i, j \in 1..Len(p) : Before(q, i, j) <=> Before(p, i, j)
        /\ \A i : i \in OfKey(q, k) <=>
             i \in OfKey(p, k) \/ (i = Len(p) + 1 /\ Key[e.msg] = k)
    BY PassedGrown
  <2> HIDE DEF q
  <2>2. Key[e.msg] = k
    OBVIOUS
  <2> QED BY <1>m, <2>1, <2>2, Zenon
<1> HIDE DEF q
<1>2. /\ f \in [1..Len(dq) -> OfKey(p, k)]
      /\ \A i \in 1..Len(dq) : p[f[i]].id = dq[i].id /\ p[f[i]].msg = dq[i].msg
      /\ \A i, j \in 1..Len(dq) : i < j => Before(p, f[j], f[i])
      /\ \A j \in OfKey(p, k) :
           (\A i \in 1..Len(dq) : f[i] # j) =>
             Len(dq) = window.rows /\ \A i \in 1..Len(dq) : Before(p, f[i], j)
  BY DEF Ranked
<1>3. OfKey(p, k) \subseteq 1..Len(p)
  BY DEF OfKey
<1>4. /\ Time[t.msg] \in Nat /\ \A i \in 1..Len(dq) : Time[dq[i].msg] \in Nat
  <2>1. \A i \in 1..Len(dq) : dq[i] \in Tuples
    OBVIOUS
  <2> QED BY <2>1, Constants DEF Tuples
<1>5. \A i \in 1..Len(dq) :
        /\ f[i] \in OfKey(p, k) /\ f[i] \in 1..Len(p) /\ f[i] \in 1..Len(q) /\ f[i] < m
        /\ q[f[i]] = p[f[i]] /\ q[f[i]].id = dq[i].id /\ q[f[i]].msg = dq[i].msg
  BY <1>m, <1>1, <1>2, <1>3
<1>6. \A i, j \in 1..Len(dq) : i < j => Before(q, f[j], f[i])
  BY <1>1, <1>2, <1>5
<1>7. \A i, j \in 1..Len(dq) : i < j => Time[dq[i].msg] <= Time[dq[j].msg]
  <2> SUFFICES ASSUME NEW i \in 1..Len(dq), NEW j \in 1..Len(dq), i < j
               PROVE  Time[dq[i].msg] <= Time[dq[j].msg]
    OBVIOUS
  <2>1. Before(q, f[j], f[i]) /\ q[f[i]].msg = dq[i].msg /\ q[f[j]].msg = dq[j].msg
    BY <1>5, <1>6
  <2>2. Time[dq[i].msg] \in Nat /\ Time[dq[j].msg] \in Nat
    BY <1>4
  <2> QED BY <2>1, <2>2 DEF Before
<1>8. w \in Seq(Tuples) /\ Len(w) = Len(dq) + 1 /\ Len(dq) \in Nat
  BY <1>7, InOrderPlace
<1>9. PICK n \in 0..Len(dq) :
         /\ \A i \in 1..Len(dq) : i <= n <=> Time[dq[i].msg] <= Time[t.msg]
         /\ \A i \in 1..Len(w) :
              w[i] = IF i <= n THEN dq[i] ELSE IF i = n + 1 THEN t ELSE dq[i - 1]
  BY <1>7, InOrderPlace
<1> HIDE DEF w
<1>10. \A i \in 1..Len(dq) : IF i <= n THEN Before(q, m, f[i]) ELSE Before(q, f[i], m)
  <2> SUFFICES ASSUME NEW i \in 1..Len(dq)
               PROVE  IF i <= n THEN Before(q, m, f[i]) ELSE Before(q, f[i], m)
    OBVIOUS
  <2>1. q[m].msg = t.msg /\ q[f[i]].msg = dq[i].msg /\ f[i] < m /\ m \in Nat /\ f[i] \in Nat
    BY <1>m, <1>1, <1>5
  <2>2. i <= n <=> Time[dq[i].msg] <= Time[t.msg]
    BY <1>9
  <2>3. Time[dq[i].msg] \in Nat
    BY <1>4
  <2> QED BY <1>4, <2>1, <2>2, <2>3 DEF Before
<1>11. PICK h : h = [i \in 1..Len(w) |-> IF i <= n THEN f[i] ELSE IF i = n + 1 THEN m ELSE f[i - 1]]
  OBVIOUS
<1>12. \A i \in 1..Len(w) : h[i] = IF i <= n THEN f[i] ELSE IF i = n + 1 THEN m ELSE f[i - 1]
  BY <1>11
<1>13. \A i \in 1..Len(w) :
         \/ i <= n /\ i \in 1..Len(dq) /\ h[i] = f[i] /\ w[i] = dq[i]
         \/ i = n + 1 /\ h[i] = m /\ w[i] = t
         \/ i > n + 1 /\ i - 1 \in 1..Len(dq) /\ h[i] = f[i - 1] /\ w[i] = dq[i - 1]
  <2> SUFFICES ASSUME NEW i \in 1..Len(w)
               PROVE  \/ i <= n /\ i \in 1..Len(dq) /\ h[i] = f[i] /\ w[i] = dq[i]
                      \/ i = n + 1 /\ h[i] = m /\ w[i] = t
                      \/ i > n + 1 /\ i - 1 \in 1..Len(dq) /\ h[i] = f[i - 1] /\ w[i] = dq[i - 1]
    OBVIOUS
  <2>1. CASE i <= n
    BY <1>8, <1>9, <1>12, <2>1
  <2>2. CASE i = n + 1
    BY <1>8, <1>9, <1>12, <2>2
  <2>3. CASE i > n + 1
    BY <1>8, <1>9, <1>12, <2>3
  <2> QED BY <1>8, <2>1, <2>2, <2>3
<1>14. \A i \in 1..Len(w) : h[i] \in OfKey(q, k) /\ q[h[i]].id = w[i].id /\ q[h[i]].msg = w[i].msg
  BY <1>1, <1>5, <1>13
<1>15. h \in [1..Len(w) -> OfKey(q, k)]
  BY <1>11, <1>14
<1>16. \A i, j \in 1..Len(w) : i < j => Before(q, h[j], h[i])
  <2> SUFFICES ASSUME NEW i \in 1..Len(w), NEW j \in 1..Len(w), i < j
               PROVE  Before(q, h[j], h[i])
    OBVIOUS
  <2>1. CASE j <= n
    <3>1. i \in 1..Len(dq) /\ j \in 1..Len(dq) /\ h[i] = f[i] /\ h[j] = f[j]
      BY <1>8, <1>13, <2>1
    <3> QED BY <1>6, <3>1
  <2>2. CASE j = n + 1
    <3>1. i \in 1..Len(dq) /\ i <= n /\ h[i] = f[i] /\ h[j] = m
      BY <1>8, <1>13, <2>2
    <3> QED BY <1>10, <3>1
  <2>3. CASE j > n + 1
    <3>1. j - 1 \in 1..Len(dq) /\ ~(j - 1 <= n) /\ h[j] = f[j - 1]
      BY <1>8, <1>13, <2>3
    <3>2. CASE i <= n
      <4>1. i \in 1..Len(dq) /\ h[i] = f[i] /\ i < j - 1
        BY <1>8, <1>13, <2>3, <3>2
      <4> QED BY <1>6, <3>1, <4>1
    <3>3. CASE i = n + 1
      <4>1. h[i] = m
        BY <1>8, <1>13, <3>3
      <4> QED BY <1>10, <3>1, <4>1
    <3>4. CASE i > n + 1
      <4>1. i - 1 \in 1..Len(dq) /\ h[i] = f[i - 1] /\ i - 1 < j - 1
        BY <1>8, <1>13, <3>4
      <4> QED BY <1>6, <3>1, <4>1
    <3> QED BY <3>2, <3>3, <3>4
  <2> QED BY <2>1, <2>2, <2>3
<1>17. ASSUME NEW j \in OfKey(q, k), \A i \in 1..Len(w) : h[i] # j
       PROVE  Len(dq) = window.rows /\ \A i \in 2..Len(w) : Before(q, h[i], j)
  <2>1. n + 1 \in 1..Len(w) /\ h[n + 1] = m
    BY <1>8, <1>12
  <2>2. j \in OfKey(p, k) /\ j \in 1..Len(p) /\ j \in 1..Len(q)
    BY <1>1, <1>3, <1>17, <2>1
  <2>3. \A i \in 1..Len(dq) : f[i] # j
    <3> SUFFICES ASSUME NEW i \in 1..Len(dq) PROVE f[i] # j
      OBVIOUS
    <3>1. CASE i <= n
      <4>1. i \in 1..Len(w) /\ h[i] = f[i]
        BY <1>8, <1>12, <3>1
      <4> QED BY <1>17, <4>1
    <3>2. CASE i > n
      <4>1. i + 1 \in 1..Len(w) /\ h[i + 1] = f[(i + 1) - 1] /\ (i + 1) - 1 = i
        BY <1>8, <1>12, <3>2
      <4> QED BY <1>17, <4>1
    <3> QED BY <3>1, <3>2
  <2>4. Len(dq) = window.rows /\ \A i \in 1..Len(dq) : Before(q, f[i], j)
    BY <1>1, <1>2, <1>5, <2>2, <2>3
  <2>5. ASSUME n >= 1 PROVE Before(q, m, j)
    <3>1. n \in 1..Len(dq) /\ Before(q, m, f[n]) /\ Before(q, f[n], j)
      BY <1>8, <1>10, <2>4, <2>5
    <3>2. m \in 1..Len(q) /\ f[n] \in 1..Len(q)
      BY <1>m, <1>1, <1>5, <3>1
    <3> QED BY <1>1, <2>2, <3>1, <3>2, BeforeOrder
  <2>6. ASSUME NEW i \in 2..Len(w) PROVE Before(q, h[i], j)
    <3>1. i \in 1..Len(w)
      OBVIOUS
    <3>2. CASE i = n + 1
      <4>1. h[i] = m
        BY <1>12, <3>1, <3>2
      <4> QED BY <2>5, <3>2, <4>1
    <3>3. CASE i # n + 1
      BY <1>13, <2>4, <3>1, <3>3
    <3> QED BY <3>2, <3>3
  <2> QED BY <2>4, <2>6
<1>18. QED
  BY <1>8, <1>14, <1>15, <1>16, <1>17, Zenon DEF q, w

LEMMA RankedInsert ==
    ASSUME window \in Window, NEW p \in Seq(Passed), NEW e \in Passed,
           NEW dq \in Seq(Tuples), Len(dq) <= window.rows,
           NEW t \in Tuples, e.id = t.id, e.msg = t.msg,
           NEW k, Key[t.msg] = k, NEW f, Ranked(p, dq, k, f)
    PROVE  \E g : Ranked(Append(p, e), Insert(dq, t), k, g)
<1>1. window.rows \in Nat /\ window.rows >= 1
  BY DEF Window
<1>2. CASE window.rows = 1
  BY <1>2, RankedOne
<1>3. CASE window.rows # 1
  <2> DEFINE q == Append(p, e)
             w == InOrder(dq, t)
             r == Insert(dq, t)
  <2>1. PICK h :
          /\ h \in [1..Len(w) -> OfKey(q, k)] /\ Len(w) = Len(dq) + 1
          /\ w \in Seq(Tuples)
          /\ \A i \in 1..Len(w) : q[h[i]].id = w[i].id /\ q[h[i]].msg = w[i].msg
          /\ \A i, j \in 1..Len(w) : i < j => Before(q, h[j], h[i])
          /\ \A j \in OfKey(q, k) :
               (\A i \in 1..Len(w) : h[i] # j) =>
                 Len(dq) = window.rows /\ \A i \in 2..Len(w) : Before(q, h[i], j)
    BY <1>3, RankedWide, Zenon
  <2>2. r = Newest(window.rows, w)
    BY <1>3 DEF Insert
  <2>3. Len(dq) \in Nat /\ Len(w) \in Nat
    OBVIOUS
  <2> HIDE DEF q, w
  <2>4. /\ r \in Seq(Tuples) /\ Len(r) <= Len(w) /\ Len(r) <= window.rows /\ Len(r) \in Nat
        /\ \A i \in 1..Len(r) : r[i] = w[Len(w) - Len(r) + i]
    <3> HIDE DEF r
    <3>1. /\ Newest(window.rows, w) \in Seq(Tuples)
          /\ Len(Newest(window.rows, w)) <= Len(w) /\ Len(Newest(window.rows, w)) <= window.rows
          /\ \A i \in 1..Len(Newest(window.rows, w)) :
               Newest(window.rows, w)[i] = w[Len(w) - Len(Newest(window.rows, w)) + i]
      BY <1>1, <2>1, NewestFacts
    <3>2. Len(Newest(window.rows, w)) \in Nat
      BY <3>1
    <3> QED BY <2>2, <3>1, <3>2, Zenon
  <2>5. CASE Len(w) <= window.rows
    <3>1. r = w
      BY <2>2, <2>5 DEF Newest
    <3>2. Len(dq) # window.rows
      BY <1>1, <2>1, <2>3, <2>5
    <3> HIDE DEF r
    <3>3. Ranked(q, r, k, h)
      BY <2>1, <3>1, <3>2 DEF Ranked
    <3> QED BY <3>3 DEF q, r
  <2>6. CASE Len(w) > window.rows
    <3>1. Len(dq) = window.rows /\ Len(w) = window.rows + 1
      BY <1>1, <2>1, <2>3, <2>6
    <3>2. Len(r) = window.rows
      <4>1. r = SubSeq(w, Len(w) - window.rows + 1, Len(w))
        <5>1. ~(Len(w) <= window.rows)
          BY <1>1, <2>3, <2>6
        <5> HIDE DEF r
        <5> QED BY <2>2, <5>1 DEF Newest
      <4>2. Len(w) - window.rows + 1 = 2
        BY <1>1, <2>3, <3>1
      <4>3. r = SubSeq(w, 2, Len(w))
        BY <4>1, <4>2
      <4> HIDE DEF r
      <4>4. 2 \in 1..Len(w) + 1 /\ Len(w) \in 0..Len(w)
        BY <1>1, <2>3, <3>1
      <4>5. Len(SubSeq(w, 2, Len(w))) = IF 2 <= Len(w) THEN Len(w) - 2 + 1 ELSE 0
        BY <2>1, <4>4, SubSeqProperties
      <4> QED BY <1>1, <3>1, <4>3, <4>5
    <3> HIDE DEF r
    <3>3. \A i \in 1..Len(r) : i + 1 \in 2..Len(w) /\ i + 1 \in 1..Len(w) /\ r[i] = w[i + 1]
      <4>1. \A i \in 1..Len(r) : Len(w) - Len(r) + i = i + 1
        BY <1>1, <3>1, <3>2
      <4>2. \A i \in 1..Len(r) : i + 1 \in 2..Len(w) /\ i + 1 \in 1..Len(w)
        BY <1>1, <3>1, <3>2
      <4>3. \A i \in 1..Len(r) : r[i] = w[i + 1]
        BY <2>4, <4>1
      <4> QED BY <4>2, <4>3
    <3>4. PICK g : g = [i \in 1..Len(r) |-> h[i + 1]]
      OBVIOUS
    <3>5. \A i \in 1..Len(r) : g[i] = h[i + 1] /\ g[i] \in OfKey(q, k)
      BY <2>1, <3>3, <3>4
    <3>6. g \in [1..Len(r) -> OfKey(q, k)]
      BY <3>4, <3>5
    <3>7. \A i \in 1..Len(r) : q[g[i]].id = r[i].id /\ q[g[i]].msg = r[i].msg
      BY <2>1, <3>3, <3>5
    <3>8. \A i, j \in 1..Len(r) : i < j => Before(q, g[j], g[i])
      <4> SUFFICES ASSUME NEW i \in 1..Len(r), NEW j \in 1..Len(r), i < j
                   PROVE  Before(q, g[j], g[i])
        OBVIOUS
      <4>1. i + 1 \in 1..Len(w) /\ j + 1 \in 1..Len(w) /\ i + 1 < j + 1
        BY <3>3
      <4>2. Before(q, h[j + 1], h[i + 1])
        BY <2>1, <4>1
      <4> QED BY <3>5, <4>2
    <3>9. ASSUME NEW j \in OfKey(q, k), NEW i \in 1..Len(r), \A l \in 1..Len(r) : g[l] # j
          PROVE  Before(q, g[i], j)
      <4>1. i + 1 \in 2..Len(w) /\ g[i] = h[i + 1] /\ i + 1 \in 1..Len(w) /\ 1 < i + 1
            /\ 1 \in 1..Len(w)
        BY <2>3, <3>3, <3>5
      <4>2. CASE h[1] = j
        BY <2>1, <4>1, <4>2
      <4>3. CASE h[1] # j
        <5>1. \A l \in 1..Len(w) : h[l] # j
          <6> SUFFICES ASSUME NEW l \in 1..Len(w), l # 1 PROVE h[l] # j
            BY <4>3
          <6>1. l - 1 \in 1..Len(r) /\ (l - 1) + 1 = l
            BY <1>1, <3>1, <3>2
          <6>2. g[l - 1] = h[l]
            BY <3>5, <6>1
          <6> QED BY <3>9, <6>1, <6>2
        <5> QED BY <2>1, <4>1, <5>1
      <4> QED BY <4>2, <4>3
    <3>10. Ranked(q, r, k, g)
      BY <3>2, <3>6, <3>7, <3>8, <3>9 DEF Ranked
    <3> QED BY <3>10 DEF q, r
  <2> QED BY <1>1, <2>3, <2>5, <2>6
<1> QED BY <1>2, <1>3

(* A deque so ranked holds the best of the key.                            *)
LEMMA RankedKept ==
    ASSUME window \in Window, NEW p \in Seq(Passed), NEW dq \in Seq(Tuples),
           Len(dq) <= window.rows, NEW k, NEW f, Ranked(p, dq, k, f)
    PROVE  LET mine == OfKey(p, k)
               kept == {i \in mine : Cardinality({j \in mine : Before(p, j, i)}) < window.rows}
           IN  Len(dq) = Cardinality(kept) /\ Ids(dq) = {p[i].id : i \in kept}
<1> DEFINE mine == OfKey(p, k)
           better(i) == {j \in mine : Before(p, j, i)}
           kept == {i \in mine : Cardinality(better(i)) < window.rows}
           F == {f[i] : i \in 1..Len(dq)}
<1>1. window.rows \in Nat /\ window.rows >= 1 /\ Len(dq) \in Nat /\ Len(p) \in Nat
  BY DEF Window
<1>2. /\ f \in [1..Len(dq) -> mine]
      /\ \A i \in 1..Len(dq) : p[f[i]].id = dq[i].id
      /\ \A i, j \in 1..Len(dq) : i < j => Before(p, f[j], f[i])
      /\ \A j \in mine :
           (\A i \in 1..Len(dq) : f[i] # j) =>
             Len(dq) = window.rows /\ \A i \in 1..Len(dq) : Before(p, f[i], j)
  BY DEF Ranked
<1>3. mine \subseteq 1..Len(p) /\ IsFiniteSet(mine)
  <2>1. mine \in SUBSET (1..Len(p))
    BY DEF OfKey
  <2> QED BY <1>1, <2>1, PrefixSize
<1> HIDE DEF mine
<1>4. F \subseteq mine /\ IsFiniteSet(F)
  <2>1. F \in SUBSET mine
    BY <1>2
  <2> HIDE DEF F
  <2> QED BY <1>3, <2>1, FS_Subset
<1>5. \A i \in mine : better(i) \in SUBSET mine /\ IsFiniteSet(better(i))
  <2>1. \A i \in mine : better(i) \in SUBSET mine
    OBVIOUS
  <2> HIDE DEF better
  <2> QED BY <1>3, <2>1, FS_Subset
<1>6. Cardinality(F) = Len(dq)
  <2>1. \A i, j \in 1..Len(dq) : f[i] = f[j] => i = j
    <3> SUFFICES ASSUME NEW i \in 1..Len(dq), NEW j \in 1..Len(dq), i < j, f[i] = f[j]
                 PROVE  FALSE
      BY <1>1
    <3>1. Before(p, f[j], f[j]) /\ f[j] \in 1..Len(p)
      BY <1>2, <1>3
    <3> QED BY <3>1, BeforeOrder
  <2>2. f \in Bijection(1..Len(dq), F)
    BY <1>2, <2>1 DEF Bijection, Injection, Surjection, IsInjective
  <2>3. ExistsBijection(1..Len(dq), F)
    BY <2>2 DEF ExistsBijection
  <2> HIDE DEF F
  <2>4. 1 \in Int /\ Len(dq) \in Int
    BY <1>1
  <2>5. IsFiniteSet(1..Len(dq)) /\ Cardinality(1..Len(dq)) = IF 1 > Len(dq) THEN 0 ELSE Len(dq) - 1 + 1
    BY <2>4, FS_Interval
  <2>6. Cardinality(F) = Cardinality(1..Len(dq))
    BY <2>3, <2>5, FS_Bijection
  <2> QED BY <1>1, <2>5, <2>6
<1>7. ASSUME NEW i \in F PROVE i \in kept
  <2>1. i \in mine /\ i \in 1..Len(p)
    BY <1>3, <1>4
  <2>2. better(i) \subseteq F \ {i}
    <3> SUFFICES ASSUME NEW j \in mine, Before(p, j, i) PROVE j \in F /\ j # i
      OBVIOUS
    <3>1. j \in 1..Len(p)
      BY <1>3
    <3>2. j # i
      BY <2>1, BeforeOrder
    <3>3. ~Before(p, i, j)
      BY <2>1, <3>1, BeforeOrder
    <3>4. j \in F
      BY <1>2, <3>3
    <3> QED BY <3>2, <3>4
  <2>3. IsFiniteSet(F \ {i}) /\ Cardinality(F \ {i}) = Cardinality(F) - 1
    <3>1. i \in F
      OBVIOUS
    <3> HIDE DEF F
    <3> QED BY <1>4, <3>1, FS_RemoveElement
  <2>4. Cardinality(better(i)) <= Cardinality(F \ {i}) /\ Cardinality(better(i)) \in Nat
    <3> HIDE DEF F, better
    <3>1. better(i) \in SUBSET (F \ {i})
      BY <2>2
    <3> QED BY <1>5, <2>1, <2>3, <3>1, FS_Subset, FS_CardinalityType
  <2>5. Cardinality(better(i)) < window.rows
    <3> HIDE DEF F, better
    <3> QED BY <1>1, <1>6, <2>3, <2>4
  <2> QED BY <2>1, <2>5
<1>8. ASSUME NEW j \in mine, j \notin F PROVE j \notin kept
  <2>1. \A i \in 1..Len(dq) : f[i] # j
    BY <1>8
  <2>2. Len(dq) = window.rows /\ \A i \in 1..Len(dq) : Before(p, f[i], j)
    BY <1>2, <1>8, <2>1
  <2>3. F \in SUBSET better(j)
    BY <1>4, <2>2
  <2>4. Cardinality(F) <= Cardinality(better(j)) /\ Cardinality(better(j)) \in Nat
    <3> HIDE DEF F, better
    <3> QED BY <1>5, <1>8, <2>3, FS_Subset, FS_CardinalityType
  <2>5. ~(Cardinality(better(j)) < window.rows)
    <3> HIDE DEF F, better
    <3> QED BY <1>1, <1>6, <2>2, <2>4
  <2> QED BY <2>5
<1>9. kept = F
  <2>1. kept \subseteq mine
    OBVIOUS
  <2> HIDE DEF kept, F
  <2> QED BY <1>4, <1>7, <1>8, <2>1
<1>10. Ids(dq) = {p[i].id : i \in F}
  BY <1>2 DEF Ids
<1>11. Len(dq) = Cardinality(kept) /\ Ids(dq) = {p[i].id : i \in kept}
  <2> HIDE DEF kept, F
  <2> QED BY <1>6, <1>9, <1>10
<1> QED BY <1>11, Zenon DEF kept, better, mine

LEMMA RankInit == Init => Rank
<1> SUFFICES ASSUME Init, NEW k \in Keys PROVE \E f : Ranked(passed, latest[k], k, f)
  BY DEF Rank
<1>1. passed = <<>> /\ latest[k] = <<>>
  BY DEF Init
<1>2. PICK f : f = [i \in {} |-> 0]
  OBVIOUS
<1>3. OfKey(<<>>, k) = {} /\ 1..Len(<<>>) = {}
  BY DEF OfKey
<1>4. f \in [1..Len(<<>>) -> OfKey(<<>>, k)]
  BY <1>2, <1>3
<1>5. Ranked(<<>>, <<>>, k, f)
  BY <1>3, <1>4 DEF Ranked
<1> QED BY <1>1, <1>5

LEMMA RankedThen ==
    ASSUME window' = window, NEW k, NEW f
    PROVE  Ranked(passed, latest[k], k, f)' <=> Ranked(passed', latest'[k], k, f)
<1>1. \A i, j : Before(passed, i, j)' <=> Before(passed', i, j)
  BY DEF Before
<1>2. OfKey(passed, k)' = OfKey(passed', k)
  BY DEF OfKey
<1> QED BY <1>1, <1>2 DEF Ranked

LEMMA RankSame == ASSUME Rank, UNCHANGED <<window, latest, passed>> PROVE Rank'
<1> SUFFICES ASSUME window.partition, NEW k \in Keys
             PROVE  \E f : Ranked(passed, latest[k], k, f)'
  BY DEF Rank
<1>1. PICK f : Ranked(passed, latest[k], k, f)
  BY DEF Rank
<1>2. Ranked(passed', latest'[k], k, f)
  BY <1>1
<1> QED BY <1>2, RankedThen

LEMMA RankFold == ASSUME Base, Rank, Fold PROVE Rank'
<1> USE Constants
<1> DEFINE t == Head(input)
           e == [id |-> t.id, msg |-> t.msg, at |-> clock]
<1>1. /\ t \in Tuples /\ window' = window
      /\ UNCHANGED <<hashMap, latest, output, passed>> \/ Passes(t)
  BY FoldStep
<1>2. /\ window \in Window /\ passed \in Seq(Passed) /\ latest \in [Keys -> Seq(Tuples)]
      /\ \A k \in Keys : Len(latest[k]) <= window.rows
      /\ clock \in 0..MaxTime
  BY TravelType DEF Base, TypeOK
<1>3. CASE UNCHANGED <<latest, passed>>
  BY <1>1, <1>3, RankSame
<1>4. CASE Passes(t)
  <2> SUFFICES ASSUME window.partition, NEW k \in Keys
               PROVE  \E f : Ranked(passed, latest[k], k, f)'
    BY <1>1 DEF Rank
  <2>1. /\ e \in Passed /\ e.id = t.id /\ e.msg = t.msg /\ passed' = Append(passed, e)
        /\ Key[t.msg] \in Keys
    BY <1>1, <1>2, <1>4 DEF Passes, Tuples, Passed
  <2>2. latest' = [latest EXCEPT ![Key[t.msg]] = Insert(latest[Key[t.msg]], t)]
    BY <1>4 DEF Passes
  <2> HIDE DEF e, t
  <2>3. PICK f : Ranked(passed, latest[k], k, f)
    BY DEF Rank
  <2>4. latest[k] \in Seq(Tuples) /\ Len(latest[k]) <= window.rows
    BY <1>2
  <2>5. \E g : Ranked(passed', latest'[k], k, g)
    <3>1. CASE Key[t.msg] = k
      <4>1. latest'[k] = Insert(latest[k], t)
        BY <1>2, <2>2, <3>1
      <4>2. \E g : Ranked(Append(passed, e), Insert(latest[k], t), k, g)
        BY <1>1, <1>2, <2>1, <2>3, <2>4, <3>1, RankedInsert
      <4> QED BY <2>1, <4>1, <4>2
    <3>2. CASE Key[t.msg] # k
      <4>1. latest'[k] = latest[k]
        BY <1>2, <2>2, <3>2
      <4>2. Ranked(Append(passed, e), latest[k], k, f)
        BY <1>2, <2>1, <2>3, <2>4, <3>2, RankedOther
      <4> QED BY <2>1, <4>1, <4>2
    <3> QED BY <3>1, <3>2
  <2>6. PICK g : Ranked(passed', latest'[k], k, g)
    BY <2>5
  <2>7. Ranked(passed, latest[k], k, g)'
    BY <1>1, <2>6, RankedThen
  <2> QED BY <2>7
<1> QED BY <1>1, <1>3, <1>4

LEMMA RankNext == ASSUME Base, Rank, [Next]_vars PROVE Rank'
<1>1. Moves
  BY EveryMove
<1>2. UNCHANGED <<window, latest, passed>> \/ Fold
  <2>1. CASE Arrival \/ Reading \/ Triggered \/ Elsewhere
    BY <2>1 DEF Arrival, Reading, Same, Triggered, Elsewhere, operatorVars
  <2>2. CASE Take \/ Folded \/ Send \/ \E k, i : Look(k, i)
    BY <2>2 DEF Take, Folded, Send, Look, streamVars
  <2> QED BY <1>1, <2>1, <2>2 DEF Moves
<1> QED BY <1>2, RankSame, RankFold

(* The newest of all that passed are kept, for each key (Insert, as        *)
(* WindowOperator::process keeps its deques): for any messages, windows    *)
(* and bounds.                                                             *)
THEOREM NewestAreKept == Spec => []NewestKept
<1>1. Init => Base /\ Rank
  BY BaseInit, RankInit
<1>2. Base /\ Rank /\ [Next]_vars => (Base /\ Rank)'
  BY BaseNext, RankNext
<1>3. Base /\ Rank => NewestKept
  <2> SUFFICES ASSUME Base, Rank, window.partition, NEW k \in Keys
               PROVE  LET mine == {i \in 1..Len(passed) : Key[passed[i].msg] = k}
                          kept == {i \in mine :
                                     Cardinality({j \in mine : Before(passed, j, i)}) < window.rows}
                      IN  /\ Len(latest[k]) = Cardinality(kept)
                          /\ Ids(latest[k]) = {passed[i].id : i \in kept}
    BY DEF NewestKept
  <2>1. /\ window \in Window /\ passed \in Seq(Passed) /\ latest[k] \in Seq(Tuples)
        /\ Len(latest[k]) <= window.rows
    BY TravelType DEF Base, TypeOK
  <2>2. PICK f : Ranked(passed, latest[k], k, f)
    BY DEF Rank
  <2>3. LET mine == OfKey(passed, k)
            kept == {i \in mine :
                       Cardinality({j \in mine : Before(passed, j, i)}) < window.rows}
        IN  Len(latest[k]) = Cardinality(kept) /\ Ids(latest[k]) = {passed[i].id : i \in kept}
    BY <2>1, <2>2, RankedKept, Zenon
  <2> QED BY <2>3, Zenon DEF OfKey
<1> QED BY <1>1, <1>2, <1>3, PTL DEF Spec
=============================================================================
