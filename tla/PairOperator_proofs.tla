------------------------- MODULE PairOperator_proofs --------------------------
(***************************************************************************)
(* Theorems about PairOperator, for any operators, any tuple sets and any  *)
(* number of receive times.                                                *)
(***************************************************************************)
EXTENDS PairOperator, SequenceTheorems, FiniteSetTheorems, WellFoundedInduction, TLAPS

Entry == [side : Sides, time : 1..MaxTime]

Couple(s, t) == <<[side |-> s, time |-> t], [side |-> Other(s), time |-> t]>>

(* A sequence of couples of rising times.                                  *)
Coupled(p) ==
    /\ p \in Seq(Entry)
    /\ Len(p) % 2 = 0
    /\ \A k \in 1..Len(p) : k % 2 = 1 =>
          k + 1 \in 1..Len(p) /\ p[k + 1] = [side |-> Other(p[k].side), time |-> p[k].time]
    /\ \A j, k \in 1..Len(p) : j < k /\ k % 2 = 1 => p[j].time < p[k].time

LEMMA CoupledTimes ==
    ASSUME NEW p, Coupled(p)
    PROVE  /\ \A j, k \in 1..Len(p) : k = j + 1 /\ j % 2 = 1 => p[k].time = p[j].time
           /\ \A j, k \in 1..Len(p) : j < k /\ k % 2 = 1 => p[j].time < p[k].time
           /\ \A k \in 1..Len(p) : p[k].time \in 1..MaxTime
<1>1. \A k \in 1..Len(p) : p[k] \in Entry
  BY DEF Coupled
<1>2. ASSUME NEW k \in 1..Len(p) PROVE p[k].time \in 1..MaxTime
  <2>1. p[k] \in Entry
    BY <1>1
  <2> QED BY <2>1 DEF Entry
<1>3. ASSUME NEW j \in 1..Len(p), NEW k \in 1..Len(p), k = j + 1, j % 2 = 1
      PROVE  p[k].time = p[j].time
  <2>1. p[j + 1] = [side |-> Other(p[j].side), time |-> p[j].time]
    BY <1>3 DEF Coupled
  <2> QED BY <1>3, <2>1
<1>4. \A j, k \in 1..Len(p) : j < k /\ k % 2 = 1 => p[j].time < p[k].time
  BY DEF Coupled
<1> QED BY <1>2, <1>3, <1>4

LEMMA Sided == /\ Other("left") = "right" /\ Other("right") = "left"
               /\ \A s \in Sides : Other(s) \in Sides /\ Other(Other(s)) = s
  BY DEF Sides, Other

(* q is p with a couple behind it that is newer than all others.           *)
Extended(p, q, s, t) ==
    /\ Len(q) = Len(p) + 2
    /\ \A k \in 1..Len(p) : q[k] = p[k] /\ p[k].time < t
    /\ q[Len(p) + 1] = [side |-> s, time |-> t]
    /\ q[Len(p) + 2] = [side |-> Other(s), time |-> t]

LEMMA CoupledExtended ==
    ASSUME NEW p \in Seq(Entry), NEW q \in Seq(Entry), NEW s \in Sides, NEW t \in 1..MaxTime,
           Coupled(p), Extended(p, q, s, t)
    PROVE  Coupled(q)
<1> DEFINE n == Len(p)
<1>1. n \in Nat /\ Len(q) \in Nat
  OBVIOUS
<1>2. n % 2 = 0 /\ Len(q) = n + 2 /\ Len(q) % 2 = 0
  BY <1>1 DEF Coupled, Extended
<1>3. \A k \in 1..Len(q) : k % 2 = 1 => k \in 1..n \/ k = n + 1
  BY <1>1, <1>2
<1>4. ASSUME NEW k \in 1..Len(q), k % 2 = 1
      PROVE  k + 1 \in 1..Len(q) /\ q[k + 1] = [side |-> Other(q[k].side), time |-> q[k].time]
  <2>1. CASE k \in 1..n
    <3>1. k + 1 \in 1..n /\ p[k + 1] = [side |-> Other(p[k].side), time |-> p[k].time]
      BY <1>4, <2>1 DEF Coupled
    <3>2. q[k] = p[k] /\ q[k + 1] = p[k + 1]
      BY <2>1, <3>1 DEF Extended
    <3> QED BY <1>1, <1>2, <3>1, <3>2
  <2>2. CASE k = n + 1
    BY <1>1, <1>2, <2>2 DEF Extended
  <2> QED BY <1>3, <1>4, <2>1, <2>2
<1>5. ASSUME NEW j \in 1..Len(q), NEW k \in 1..Len(q), j < k, k % 2 = 1
      PROVE  q[j].time < q[k].time
  <2>1. CASE k \in 1..n
    <3>1. j \in 1..n
      BY <1>1, <1>5, <2>1
    <3>2. p[j].time < p[k].time
      BY <1>5, <2>1, <3>1 DEF Coupled
    <3>3. q[j] = p[j] /\ q[k] = p[k]
      BY <2>1, <3>1 DEF Extended
    <3> QED BY <3>2, <3>3
  <2>2. CASE k = n + 1
    <3>1. j \in 1..n
      BY <1>1, <1>5, <2>2
    <3> QED BY <2>2, <3>1 DEF Extended
  <2> QED BY <1>3, <1>5, <2>1, <2>2
<1> QED BY <1>2, <1>4, <1>5 DEF Coupled

LEMMA CoupleBehind ==
    ASSUME NEW p \in Seq(Entry), NEW s \in Sides, NEW t \in 1..MaxTime,
           \A k \in 1..Len(p) : p[k].time < t
    PROVE  p \o Couple(s, t) \in Seq(Entry) /\ Extended(p, p \o Couple(s, t), s, t)
<1> DEFINE c == Couple(s, t)
<1>1. /\ c \in Seq(Entry) /\ Len(c) = 2
      /\ c[1] = [side |-> s, time |-> t] /\ c[2] = [side |-> Other(s), time |-> t]
  BY Sided DEF Couple, Entry
<1> HIDE DEF c
<1>2. /\ p \o c \in Seq(Entry) /\ Len(p \o c) = Len(p) + 2
      /\ \A i \in 1..Len(p) : (p \o c)[i] = p[i]
      /\ (p \o c)[Len(p) + 1] = c[1] /\ (p \o c)[Len(p) + 2] = c[2]
  <2>1. /\ p \o c \in Seq(Entry) /\ Len(p \o c) = Len(p) + Len(c)
        /\ \A i \in 1..Len(p) + Len(c) : (p \o c)[i] = IF i <= Len(p) THEN p[i] ELSE c[i - Len(p)]
    BY <1>1, ConcatProperties, Zenon
  <2>2. Len(p) \in Nat
    OBVIOUS
  <2> DEFINE q == p \o c
  <2> HIDE DEF q
  <2>3. /\ q \in Seq(Entry) /\ Len(q) = Len(p) + 2
        /\ \A i \in 1..Len(p) + 2 : q[i] = IF i <= Len(p) THEN p[i] ELSE c[i - Len(p)]
    BY <1>1, <2>1, Zenon DEF q
  <2>4. /\ \A i \in 1..Len(p) : q[i] = p[i]
        /\ q[Len(p) + 1] = c[1] /\ q[Len(p) + 2] = c[2]
    BY <2>2, <2>3
  <2> QED BY <2>3, <2>4, Zenon DEF q
<1>3. p \o c \in Seq(Entry) /\ Extended(p, p \o c, s, t)
  BY <1>1, <1>2 DEF Extended
<1> QED BY <1>3 DEF c

(* Taking away the first couple.                                           *)
LEMMA CoupledDrop ==
    ASSUME NEW p \in Seq(Entry), NEW q, Coupled(p), q \in Seq(Entry),
           Len(p) = Len(q) + 2, \A k \in 1..Len(q) : q[k] = p[k + 2]
    PROVE  Coupled(q)
<1>1. Len(q) \in Nat /\ Len(q) % 2 = 0
  BY DEF Coupled
<1>2. \A k \in 1..Len(q) : k % 2 = 1 =>
          /\ k + 1 \in 1..Len(q)
          /\ q[k + 1] = [side |-> Other(q[k].side), time |-> q[k].time]
  <2> SUFFICES ASSUME NEW k \in 1..Len(q), k % 2 = 1
               PROVE  /\ k + 1 \in 1..Len(q)
                      /\ q[k + 1] = [side |-> Other(q[k].side), time |-> q[k].time]
    OBVIOUS
  <2>1. k + 2 \in 1..Len(p) /\ (k + 2) % 2 = 1
    BY <1>1
  <2>2. /\ k + 3 \in 1..Len(p)
        /\ p[k + 3] = [side |-> Other(p[k + 2].side), time |-> p[k + 2].time]
    BY <2>1 DEF Coupled
  <2>3. k + 1 \in 1..Len(q) /\ q[k + 1] = p[k + 3]
    BY <1>1, <2>2
  <2> QED BY <2>2, <2>3
<1>3. \A j, k \in 1..Len(q) : j < k /\ k % 2 = 1 => q[j].time < q[k].time
  <2> SUFFICES ASSUME NEW j \in 1..Len(q), NEW k \in 1..Len(q), j < k, k % 2 = 1
               PROVE  q[j].time < q[k].time
    OBVIOUS
  <2>1. j + 2 \in 1..Len(p) /\ k + 2 \in 1..Len(p) /\ (k + 2) % 2 = 1 /\ j + 2 < k + 2
    BY <1>1
  <2>2. p[j + 2].time < p[k + 2].time
    BY <2>1 DEF Coupled
  <2> QED BY <2>2
<1> QED BY <1>1, <1>2, <1>3 DEF Coupled

-----------------------------------------------------------------------------
(* The variables the theorems speak of have their types, and a result is   *)
(* only there while its pair is.                                           *)
Types ==
    /\ op \in Operators
    /\ brought \in [Sides -> SUBSET (1..MaxTime)]
    /\ waitQMap \in [DOMAIN waitQMap -> Sides] /\ DOMAIN waitQMap \subseteq 1..MaxTime
    /\ buffer \in Seq(Entry)
    /\ ts \in Seq(Entry) /\ Len(ts) \in {0, 2}
    /\ processed \in Seq(1..MaxTime)
    /\ out # <<>> => ts # <<>>

Waits ==
    \A t \in 1..MaxTime, s \in Sides :
        t \in brought[s] \ brought[Other(s)] <=> t \in DOMAIN waitQMap /\ waitQMap[t] = s

LeftFirst ==
    op.tie \/ \A k \in 1..Len(Pending) : Pending[k].side = IF k % 2 = 1 THEN "left" ELSE "right"

(* How much of Pending is processed already.                               *)
Skip == IF out = <<>> THEN 0 ELSE 2

(* What both sides brought is processed or pending, the newer behind the   *)
(* older.                                                                  *)
Books ==
    /\ \A i \in 1..Len(processed) : processed[i] \in Complete
    /\ \A k \in 1..Len(Pending) : Pending[k].time \in Complete
    /\ \A t \in Complete :
          \/ \E i \in 1..Len(processed) : processed[i] = t
          \/ \E k \in 1..Len(Pending) : k > Skip /\ k % 2 = 1 /\ Pending[k].time = t
    /\ \A i \in 1..Len(processed), k \in 1..Len(Pending) :
          k > Skip => processed[i] < Pending[k].time
    /\ \A i, j \in 1..Len(processed) : i < j => processed[i] < processed[j]

PairInv == Types /\ Coupled(Pending) /\ Waits /\ LeftFirst /\ Books

LEMMA CompleteOf == \A s \in Sides : Complete = brought[s] \cap brought[Other(s)]
  BY Sided DEF Complete, Sides

LEMMA PendingParts ==
    ASSUME Types
    PROVE  /\ Pending \in Seq(Entry)
           /\ ts = <<>> => Pending = buffer
           /\ ts # <<>> => /\ Len(ts) = 2 /\ Len(Pending) = Len(buffer) + 2
                          /\ Pending[1] = ts[1] /\ Pending[2] = ts[2]
                          /\ \A k \in 1..Len(buffer) : Pending[k + 2] = buffer[k]
<1>1. ts \in Seq(Entry) /\ buffer \in Seq(Entry) /\ Len(ts) \in {0, 2} /\ Len(buffer) \in Nat
  BY DEF Types
<1>2. /\ Pending \in Seq(Entry) /\ Len(Pending) = Len(ts) + Len(buffer)
      /\ \A i \in 1..Len(ts) + Len(buffer) :
            Pending[i] = IF i <= Len(ts) THEN ts[i] ELSE buffer[i - Len(ts)]
  BY <1>1, ConcatProperties, Zenon DEF Pending
<1>3. ts = <<>> => Pending = buffer
  BY <1>1, ConcatEmptySeq DEF Pending
<1>4. ts # <<>> => Len(ts) = 2
  BY <1>1
<1> QED BY <1>1, <1>2, <1>3, <1>4

(* receiveTupleSet of a tuple set whose counterpart is not there.          *)
LEMMA WaitStep ==
    ASSUME PairInv, NEW s \in Sides, NEW t \in 1..MaxTime, ReceiveTupleSet(s, t), Wait(s, t)
    PROVE  PairInv'
<1>1. /\ \A u \in brought[s] : u < t
      /\ brought' = [brought EXCEPT ![s] = @ \cup {t}]
      /\ UNCHANGED <<op, ts, processed, out, buffer>>
      /\ t \notin DOMAIN waitQMap
      /\ waitQMap' = [u \in DOMAIN waitQMap \cup {t} |-> IF u = t THEN s ELSE waitQMap[u]]
  BY DEF ReceiveTupleSet, Wait
<1>2. Types /\ Waits /\ Other(s) \in Sides /\ Other(s) # s /\ brought[s] \subseteq 1..MaxTime
  BY Sided DEF PairInv, Types, Sides
<1>3. t \notin brought[s]
  BY <1>1, <1>2
<1>4. t \notin brought[Other(s)]
  BY <1>1, <1>2, <1>3, Sided DEF Waits
<1>5. Pending' = Pending /\ Skip' = Skip
  BY <1>1 DEF Pending, Skip
<1>6. Complete' = Complete
  <2>1. Complete = brought[s] \cap brought[Other(s)] /\ Complete' = brought'[s] \cap brought'[Other(s)]
    BY CompleteOf, <1>2, Sided DEF Complete, Sides
  <2> QED BY <1>1, <1>2, <1>4, <2>1 DEF Types
<1>7. Types'
  BY <1>1, <1>2 DEF Types
<1>8. Waits'
  BY <1>1, <1>2, <1>3, <1>4, Sided DEF Waits, Types, Sides
<1> QED
  BY <1>1, <1>5, <1>6, <1>7, <1>8 DEF PairInv, LeftFirst, Books

(* receiveTupleSet of a tuple set whose counterpart waits: a couple newer  *)
(* than all the others.                                                    *)
LEMMA PairStep ==
    ASSUME PairInv, NEW s \in Sides, NEW t \in 1..MaxTime, ReceiveTupleSet(s, t), Pair(s, t)
    PROVE  /\ PairInv'
           /\ Complete' = Complete \cup {t} /\ \A u \in Complete : u < t
<1> DEFINE f == FirstOf(s, t)
<1>1. /\ \A u \in brought[s] : u < t
      /\ brought' = [brought EXCEPT ![s] = @ \cup {t}]
      /\ UNCHANGED <<op, ts, processed, out>>
      /\ t \in DOMAIN waitQMap
      /\ waitQMap' = [u \in DOMAIN waitQMap \ {t} |-> waitQMap[u]]
      /\ buffer' = buffer \o Couple(f, t)
  BY DEF ReceiveTupleSet, Pair, Couple
<1>2. Types /\ Waits /\ Other(s) \in Sides /\ Other(s) # s /\ brought[s] \subseteq 1..MaxTime
  BY Sided DEF PairInv, Types, Sides
<1>3. t \notin brought[s]
  BY <1>1, <1>2
<1>4. waitQMap[t] = Other(s) /\ t \in brought[Other(s)]
  BY <1>1, <1>2, <1>3, Sided DEF Waits, Types, Sides
<1>5. f \in Sides /\ (op.tie \/ f = "left")
  BY <1>2, <1>4 DEF FirstOf, Sides
<1>6. Complete' = Complete \cup {t} /\ \A u \in Complete : u < t
  <2>1. Complete = brought[s] \cap brought[Other(s)] /\ Complete' = brought'[s] \cap brought'[Other(s)]
    BY CompleteOf, <1>2, Sided DEF Complete, Sides
  <2> QED BY <1>1, <1>2, <1>4, <2>1 DEF Types
<1>7. Pending \in Seq(Entry) /\ Couple(f, t) \in Seq(Entry)
  BY <1>2, <1>5, PendingParts, Sided DEF Couple, Entry
<1>8. Pending' = Pending \o Couple(f, t)
  <2>1. (ts \o buffer) \o Couple(f, t) = ts \o (buffer \o Couple(f, t))
    <3>1. ts \in Seq(Entry) /\ buffer \in Seq(Entry)
      BY <1>2 DEF Types
    <3>2. Couple(f, t) \in Seq(Entry)
      BY <1>7
    <3>3. \A p, q, r \in Seq(Entry) : (p \o q) \o r = p \o (q \o r)
      BY ConcatAssociative
    <3> QED BY <3>1, <3>2, <3>3, Zenon
  <2> QED BY <1>1, <2>1, Zenon DEF Pending
<1>9. \A k \in 1..Len(Pending) : Pending[k].time < t
  BY <1>6 DEF PairInv, Books
<1>10. Pending' \in Seq(Entry) /\ Extended(Pending, Pending', f, t)
  BY <1>5, <1>7, <1>8, <1>9, CoupleBehind, Zenon
<1>11. Coupled(Pending)'
  BY <1>5, <1>7, <1>10, CoupledExtended, Zenon DEF PairInv
<1>12. Types'
  <2>1. buffer' \in Seq(Entry)
    BY <1>1, <1>2, <1>7, ConcatProperties, Zenon DEF Types
  <2> QED BY <1>1, <1>2, <2>1 DEF Types
<1>13. Waits'
  BY <1>1, <1>2, <1>3, <1>4, Sided DEF Waits, Types, Sides
<1> DEFINE n == Len(Pending)
<1>14. n \in Nat /\ n % 2 = 0 /\ (n + 1) % 2 = 1 /\ (n + 2) % 2 = 0 /\ Skip \in {0, 2} /\ Skip <= n
  <2>1. n \in Nat /\ n % 2 = 0
    BY <1>7 DEF PairInv, Coupled
  <2>2. Skip = 0 \/ n >= 2
    BY <1>2, PendingParts DEF Skip, Types
  <2> QED BY <2>1, <2>2 DEF Skip
<1>15. /\ Len(Pending') = n + 2
       /\ \A k \in 1..n : Pending'[k] = Pending[k]
       /\ Pending'[n + 1] = [side |-> f, time |-> t]
       /\ Pending'[n + 2] = [side |-> Other(f), time |-> t]
       /\ \A k \in 1..n + 2 : k \in 1..n \/ k = n + 1 \/ k = n + 2
  BY <1>10, <1>14 DEF Extended
<1>16. LeftFirst'
  <2>1. CASE op.tie
    BY <1>1, <2>1 DEF LeftFirst
  <2>2. CASE ~op.tie
    <3>1. f = "left" /\ Other(f) = "right"
      BY <1>5, <2>2, Sided
    <3>2. \A k \in 1..n : Pending[k].side = IF k % 2 = 1 THEN "left" ELSE "right"
      BY <2>2 DEF LeftFirst, PairInv
    <3>3. \A k \in 1..n + 2 : Pending'[k].side = IF k % 2 = 1 THEN "left" ELSE "right"
      BY <1>14, <1>15, <3>1, <3>2
    <3> QED BY <1>15, <3>3 DEF LeftFirst
  <2> QED BY <2>1, <2>2
<1>17. Books'
  <2>1. Books /\ processed' = processed /\ Skip' = Skip
    BY <1>1 DEF PairInv, Skip
  <2>2. \A i \in 1..Len(processed) : processed[i] \in Complete' /\ processed[i] < t
    BY <1>6, <2>1 DEF Books
  <2>3. \A k \in 1..n + 2 : Pending'[k].time \in Complete'
    BY <1>6, <1>15, <2>1 DEF Books
  <2>4. \A u \in Complete' :
          \/ \E i \in 1..Len(processed) : processed[i] = u
          \/ \E k \in 1..n + 2 : k > Skip /\ k % 2 = 1 /\ Pending'[k].time = u
    <3> SUFFICES ASSUME NEW u \in Complete'
                 PROVE  \/ \E i \in 1..Len(processed) : processed[i] = u
                        \/ \E k \in 1..n + 2 : k > Skip /\ k % 2 = 1 /\ Pending'[k].time = u
      OBVIOUS
    <3>1. CASE u = t
      <4>1. n + 1 \in 1..n + 2 /\ n + 1 > Skip /\ Pending'[n + 1].time = u
        BY <1>14, <1>15, <3>1
      <4> QED BY <1>14, <4>1
    <3>2. CASE u \in Complete
      <4>1. \/ \E i \in 1..Len(processed) : processed[i] = u
            \/ \E k \in 1..n : k > Skip /\ k % 2 = 1 /\ Pending[k].time = u
        BY <2>1, <3>2 DEF Books
      <4> QED BY <1>14, <1>15, <4>1
    <3> QED BY <1>6, <3>1, <3>2
  <2>5. \A i \in 1..Len(processed), k \in 1..n + 2 : k > Skip => processed[i] < Pending'[k].time
    BY <1>15, <2>1, <2>2 DEF Books
  <2> QED BY <1>15, <2>1, <2>2, <2>3, <2>4, <2>5 DEF Books
<1> QED
  BY <1>6, <1>11, <1>12, <1>13, <1>16, <1>17 DEF PairInv

(* getTupleSet finds whole pairs only, and takes the first.                *)
LEMMA TakeStep ==
    ASSUME PairInv, GetTupleSet
    PROVE  PairInv'
<1>1. Types /\ ts = <<>> /\ out = <<>> /\ buffer # <<>> /\ Pending = buffer /\ Coupled(buffer)
  BY PendingParts DEF PairInv, GetTupleSet, Types
<1>2. buffer \in Seq(Entry) /\ Len(buffer) \in Nat /\ Len(buffer) >= 2
  BY <1>1 DEF Types, Coupled
<1>3. /\ ts' = SubSeq(buffer, 1, 2) /\ Len(ts') = 2 /\ ts' \in Seq(Entry)
      /\ UNCHANGED <<op, brought, waitQMap, processed, prep, out>>
  BY <1>2 DEF GetTupleSet
<1>4. buffer' = SubSeq(buffer, 2 + 1, Len(buffer)) /\ buffer' \in Seq(Entry)
  <2>1. buffer' = SubSeq(buffer, 2 + 1, Len(buffer))
    BY <1>3 DEF GetTupleSet
  <2>2. \A i \in 2 + 1..Len(buffer) : buffer[i] \in Entry
    BY <1>2
  <2>3. 2 + 1 \in Int /\ Len(buffer) \in Int
    BY <1>2
  <2> QED BY <2>1, <2>2, <2>3, SubSeqProperties, Zenon
<1>5. Pending' = buffer
  <2>1. SubSeq(buffer, 1, 2) \o SubSeq(buffer, 2 + 1, Len(buffer)) = SubSeq(buffer, 1, Len(buffer))
    <3>1. 1 \in 1..Len(buffer) + 1 /\ 2 \in 1 - 1..Len(buffer) /\ Len(buffer) \in 2..Len(buffer)
      BY <1>2
    <3> QED BY <1>2, <3>1, ConcatAdjacentSubSeq, Zenon
  <2>2. SubSeq(buffer, 1, Len(buffer)) = buffer
    BY <1>2, SubSeqFull
  <2> QED BY <1>3, <1>4, <2>1, <2>2 DEF Pending
<1>6. Types'
  BY <1>1, <1>3, <1>4 DEF Types
<1>7. Pending' = Pending /\ Skip' = Skip /\ Complete' = Complete
  BY <1>1, <1>3, <1>5 DEF Skip, Complete
<1> QED
  BY <1>3, <1>6, <1>7 DEF PairInv, Waits, LeftFirst, Books

(* process, whatever it makes of the contents, is done with the first pair.*)
LEMMA ProcessStep ==
    ASSUME PairInv, NEW first \in TupleSets, NEW second \in TupleSets, Process(first, second)
    PROVE  /\ PairInv'
           /\ processed' = Append(processed, ts[1].time) /\ brought' = brought
           /\ ts[1].time \in Complete
           /\ \A i \in 1..Len(processed) : processed[i] # ts[1].time
           /\ \A t \in Complete : (\A i \in 1..Len(processed) : processed[i] # t) => ts[1].time <= t
<1> DEFINE now == ts[1].time
<1>1. /\ Len(ts) = 2 /\ out = <<>> /\ out' # <<>>
      /\ processed' = Append(processed, now)
      /\ UNCHANGED <<op, brought, waitQMap, buffer, ts>>
  BY DEF Process, Result, JoinRefused, NestedLoopJoin, HashJoin, UnionOther, UnionRefused, UnionMerged
<1>2. /\ Types /\ Books /\ Coupled(Pending) /\ Pending \in Seq(Entry)
      /\ Len(Pending) >= 2 /\ Len(Pending) \in Nat
      /\ Pending[1] = ts[1] /\ Pending[2] = ts[2] /\ Skip = 0 /\ Skip' = 2
      /\ ts # <<>> /\ now \in 1..MaxTime
  <2>0. Types /\ ts \in Seq(Entry)
    BY DEF PairInv, Types
  <2>x. Len(ts) = 2
    BY <1>1
  <2>1. Types /\ ts # <<>> /\ ts[1] \in Entry
    BY <2>0, <2>x
  <2> QED BY <1>1, <2>1, PendingParts DEF PairInv, Skip, Types, Entry
<1>3. Pending' = Pending /\ Complete' = Complete
  BY <1>1 DEF Pending, Complete
<1>4. /\ processed \in Seq(1..MaxTime) /\ Len(processed) \in Nat
      /\ processed' \in Seq(1..MaxTime) /\ Len(processed') = Len(processed) + 1
      /\ \A i \in 1..Len(processed) : processed'[i] = processed[i]
      /\ processed'[Len(processed) + 1] = now
  BY <1>1, <1>2 DEF Types
<1>c. /\ \A j, k \in 1..Len(Pending) : k = j + 1 /\ j % 2 = 1 => Pending[k].time = Pending[j].time
      /\ \A j, k \in 1..Len(Pending) : j < k /\ k % 2 = 1 => Pending[j].time < Pending[k].time
      /\ \A k \in 1..Len(Pending) : Pending[k].time \in 1..MaxTime
  BY <1>2, CoupledTimes
<1>5. Pending[2].time = now /\ now \in Complete
  <2>1. 1 \in 1..Len(Pending) /\ 2 \in 1..Len(Pending) /\ 2 = 1 + 1 /\ 1 % 2 = 1
    BY <1>2
  <2>2. Pending[2].time = Pending[1].time
    BY <1>c, <2>1
  <2>3. Pending[1].time \in Complete
    BY <1>2, <2>1 DEF Books
  <2> QED BY <1>2, <2>2, <2>3
<1>6. \A k \in 1..Len(Pending) : IF k > 2 THEN now < Pending[k].time ELSE Pending[k].time = now
  <2> SUFFICES ASSUME NEW k \in 1..Len(Pending), k > 2 PROVE now < Pending[k].time
    BY <1>2, <1>5
  <2>1. CASE k % 2 = 1
    BY <1>2, <1>c, <2>1
  <2>2. CASE k % 2 # 1
    <3>0. k - 1 \in 1..Len(Pending) /\ k = (k - 1) + 1 /\ (k - 1) % 2 = 1 /\ 1 < k - 1
      BY <1>2, <2>2
    <3>1. PICK j \in 1..Len(Pending) : k = j + 1 /\ j % 2 = 1 /\ 1 < j
      BY <3>0
    <3>2. Pending[k].time = Pending[j].time /\ Pending[1].time < Pending[j].time
      BY <1>2, <1>c, <3>1
    <3> QED BY <1>2, <3>2
  <2> QED BY <2>1, <2>2
<1>7. \A i \in 1..Len(processed) : processed[i] < now
  BY <1>2 DEF Books
<1>8. \A i \in 1..Len(processed) : processed[i] # now
  BY <1>2, <1>4, <1>7
<1>9. \A t \in Complete : (\A i \in 1..Len(processed) : processed[i] # t) => now <= t
  <2> SUFFICES ASSUME NEW t \in Complete, \A i \in 1..Len(processed) : processed[i] # t
               PROVE  now <= t
    OBVIOUS
  <2>1. PICK k \in 1..Len(Pending) : Pending[k].time = t
    BY <1>2 DEF Books
  <2> QED BY <1>2, <1>6, <1>c, <2>1
<1>10. Types'
  BY <1>1, <1>2, <1>4 DEF Types
<1>11. Books'
  <2>1. \A i \in 1..Len(processed) + 1 : processed'[i] \in Complete
    BY <1>2, <1>4, <1>5 DEF Books
  <2>2. \A t \in Complete :
          \/ \E i \in 1..Len(processed) + 1 : processed'[i] = t
          \/ \E k \in 1..Len(Pending) : k > 2 /\ k % 2 = 1 /\ Pending[k].time = t
    <3> SUFFICES ASSUME NEW t \in Complete
                 PROVE  \/ \E i \in 1..Len(processed) + 1 : processed'[i] = t
                        \/ \E k \in 1..Len(Pending) : k > 2 /\ k % 2 = 1 /\ Pending[k].time = t
      OBVIOUS
    <3>1. CASE \E i \in 1..Len(processed) : processed[i] = t
      BY <1>4, <3>1
    <3>2. CASE \E k \in 1..Len(Pending) : k % 2 = 1 /\ Pending[k].time = t
      <4>1. PICK k \in 1..Len(Pending) : k % 2 = 1 /\ Pending[k].time = t
        BY <3>2
      <4>2. CASE k > 2
        BY <4>1, <4>2
      <4>3. CASE ~(k > 2)
        BY <1>4, <1>6, <4>1, <4>3
      <4> QED BY <4>2, <4>3
    <3> QED BY <1>2, <3>1, <3>2 DEF Books
  <2>3. \A i \in 1..Len(processed) + 1, k \in 1..Len(Pending) : k > 2 => processed'[i] < Pending[k].time
    <3> SUFFICES ASSUME NEW i \in 1..Len(processed) + 1, NEW k \in 1..Len(Pending), k > 2
                 PROVE  processed'[i] < Pending[k].time
      OBVIOUS
    <3>1. CASE i \in 1..Len(processed)
      BY <1>2, <1>4, <3>1 DEF Books
    <3>2. CASE i = Len(processed) + 1
      BY <1>4, <1>6, <3>2
    <3> QED BY <1>4, <3>1, <3>2
  <2>4. \A i, j \in 1..Len(processed) + 1 : i < j => processed'[i] < processed'[j]
    <3> SUFFICES ASSUME NEW i \in 1..Len(processed) + 1, NEW j \in 1..Len(processed) + 1, i < j
                 PROVE  processed'[i] < processed'[j]
      OBVIOUS
    <3>1. CASE j \in 1..Len(processed)
      BY <1>2, <1>4, <3>1 DEF Books
    <3>2. CASE j = Len(processed) + 1
      BY <1>4, <1>7, <3>2
    <3> QED BY <1>4, <3>1, <3>2
  <2>5. \A k \in 1..Len(Pending) : Pending[k].time \in Complete
    BY <1>2 DEF Books
  <2> QED BY <1>2, <1>3, <1>4, <2>1, <2>2, <2>3, <2>4, <2>5 DEF Books
<1>12. Waits' /\ LeftFirst' /\ Coupled(Pending)'
  BY <1>1, <1>3 DEF PairInv, Waits, LeftFirst
<1> QED
  BY <1>1, <1>5, <1>8, <1>9, <1>10, <1>11, <1>12 DEF PairInv

(* The end of a round takes the processed pair away.                       *)
LEMMA FinishStep ==
    ASSUME PairInv, Finish
    PROVE  PairInv'
<1>1. /\ out # <<>> /\ ts' = <<>> /\ out' = <<>>
      /\ UNCHANGED <<op, brought, waitQMap, buffer, processed, prep>>
  BY DEF Finish
<1>2. Types /\ Books /\ LeftFirst /\ Coupled(Pending) /\ buffer \in Seq(Entry)
  BY DEF PairInv, Types
<1>3. Types'
  BY <1>1, <1>2 DEF Types
<1>4. Pending' = buffer
  <2>1. Pending' = <<>> \o buffer
    BY <1>1 DEF Pending
  <2> QED BY <1>2, <2>1, ConcatEmptySeq
<1>5. /\ Pending \in Seq(Entry) /\ Len(Pending) = Len(buffer) + 2
      /\ \A k \in 1..Len(buffer) : Pending[k + 2] = buffer[k]
  BY <1>1, <1>2, PendingParts DEF Types
<1>6. Coupled(buffer)
  BY <1>2, <1>5, CoupledDrop
<1>7. Skip = 2 /\ Skip' = 0 /\ Complete' = Complete /\ Len(buffer) \in Nat
  BY <1>1, <1>2 DEF Skip, Complete
<1>8. \A k \in 1..Len(buffer) : k + 2 \in 1..Len(Pending) /\ k + 2 > 2 /\ (k + 2) % 2 = k % 2
  BY <1>5, <1>7
<1>9. LeftFirst'
  <2>1. CASE op.tie
    BY <1>1, <2>1 DEF LeftFirst
  <2>2. CASE ~op.tie
    <3>1. \A k \in 1..Len(Pending) : Pending[k].side = IF k % 2 = 1 THEN "left" ELSE "right"
      BY <1>2, <2>2 DEF LeftFirst
    <3>2. ASSUME NEW k \in 1..Len(buffer)
          PROVE  buffer[k].side = IF k % 2 = 1 THEN "left" ELSE "right"
      <4>1. Pending[k + 2].side = IF (k + 2) % 2 = 1 THEN "left" ELSE "right"
        BY <1>8, <3>1
      <4> QED BY <1>5, <1>8, <4>1
    <3> QED BY <1>4, <3>2 DEF LeftFirst
  <2> QED BY <2>1, <2>2
<1>10. Books'
  <2>1. ASSUME NEW k \in 1..Len(buffer)
        PROVE  /\ buffer[k].time \in Complete
               /\ \A i \in 1..Len(processed) : processed[i] < buffer[k].time
    <3>1. Pending[k + 2].time \in Complete
      BY <1>2, <1>8 DEF Books
    <3>2. \A i \in 1..Len(processed) : processed[i] < Pending[k + 2].time
      BY <1>2, <1>7, <1>8 DEF Books
    <3> QED BY <1>5, <3>1, <3>2
  <2>2. ASSUME NEW t \in Complete, \A i \in 1..Len(processed) : processed[i] # t
        PROVE  \E k \in 1..Len(buffer) : k > 0 /\ k % 2 = 1 /\ buffer[k].time = t
    <3>1. PICK k \in 1..Len(Pending) : k > 2 /\ k % 2 = 1 /\ Pending[k].time = t
      BY <1>2, <1>7, <2>2 DEF Books
    <3>2. k - 2 \in 1..Len(buffer) /\ k - 2 > 0 /\ (k - 2) % 2 = 1 /\ (k - 2) + 2 = k
      BY <1>5, <1>7, <3>1
    <3>3. buffer[k - 2] = Pending[k]
      BY <1>5, <3>2
    <3> QED BY <3>1, <3>2, <3>3
  <2>3. \A t \in Complete :
          \/ \E i \in 1..Len(processed) : processed[i] = t
          \/ \E k \in 1..Len(buffer) : k > 0 /\ k % 2 = 1 /\ buffer[k].time = t
    BY <2>2
  <2>4. \A i \in 1..Len(processed) : processed[i] \in Complete
    BY <1>2 DEF Books
  <2>5. \A i, j \in 1..Len(processed) : i < j => processed[i] < processed[j]
    BY <1>2 DEF Books
  <2> QED BY <1>1, <1>4, <1>7, <2>1, <2>3, <2>4, <2>5 DEF Books
<1>11. Waits'
  BY <1>1 DEF PairInv, Waits
<1> QED
  BY <1>3, <1>4, <1>6, <1>9, <1>10, <1>11 DEF PairInv

LEMMA PairInvInit == Init => PairInv
<1> SUFFICES ASSUME Init PROVE PairInv
  OBVIOUS
<1>1. /\ op \in Operators /\ brought = [s \in Sides |-> {}] /\ waitQMap = <<>> /\ buffer = <<>>
      /\ ts = <<>> /\ processed = <<>> /\ out = <<>>
  BY DEF Init
<1>2. Types
  BY <1>1 DEF Types
<1>3. Pending = <<>>
  BY <1>1, <1>2, PendingParts
<1>4. Complete = {}
  BY <1>1 DEF Complete, Sides
<1>5. Coupled(<<>>)
  BY DEF Coupled
<1>6. Waits
  BY <1>1, Sided DEF Waits
<1>7. LeftFirst /\ Books
  BY <1>1, <1>3, <1>4 DEF LeftFirst, Books
<1> QED
  BY <1>2, <1>3, <1>5, <1>6, <1>7 DEF PairInv

LEMMA PairInvStep == PairInv /\ [Next]_vars => PairInv'
<1> SUFFICES ASSUME PairInv, [Next]_vars PROVE PairInv'
  OBVIOUS
<1>1. ASSUME NEW s \in Sides, NEW t \in 1..MaxTime, ReceiveTupleSet(s, t) PROVE PairInv'
  <2>1. Wait(s, t) \/ Pair(s, t)
    BY <1>1 DEF ReceiveTupleSet
  <2> QED BY <1>1, <2>1, WaitStep, PairStep
<1>2. CASE GetTupleSet
  BY <1>2, TakeStep
<1>3. ASSUME NEW first \in TupleSets, NEW second \in TupleSets, Process(first, second) PROVE PairInv'
  BY <1>3, ProcessStep
<1>4. CASE Finish
  BY <1>4, FinishStep
<1>5. CASE UNCHANGED vars
  BY <1>5 DEF vars, PairInv, Types, Waits, LeftFirst, Books, Pending, Complete, Skip
<1> QED
  BY <1>1, <1>2, <1>3, <1>4, <1>5 DEF Next

LEMMA PairInvAlways == Spec => []PairInv
  BY PairInvInit, PairInvStep, PTL DEF Spec

-----------------------------------------------------------------------------
(* In the buffer and with the operator are whole pairs of one receive      *)
(* time, the table with more attributes first, whatever the two sides do.  *)
THEOREM WholePairs == Spec => []PairsWhole
<1>1. ASSUME PairInv PROVE PairsWhole
  <2>1. Coupled(Pending) /\ LeftFirst /\ Pending \in Seq(Entry) /\ Len(Pending) \in Nat
    BY <1>1 DEF PairInv, Coupled
  <2>2. ASSUME NEW k \in 1..Len(Pending)
        PROVE  \E j \in 1..Len(Pending) :
                   /\ j = IF k % 2 = 1 THEN k + 1 ELSE k - 1
                   /\ Pending[j] = [side |-> Other(Pending[k].side), time |-> Pending[k].time]
    <3>1. CASE k % 2 = 1
      BY <2>1, <3>1 DEF Coupled
    <3>2. CASE k % 2 # 1
      <4>1. k - 1 \in 1..Len(Pending) /\ (k - 1) % 2 = 1 /\ (k - 1) + 1 = k
        BY <2>1, <3>2
      <4> DEFINE j == k - 1
      <4>2. Pending[j] \in Entry
        BY <2>1, <4>1
      <4>3. Pending[k] = [side |-> Other(Pending[j].side), time |-> Pending[j].time]
        BY <2>1, <4>1 DEF Coupled
      <4>4. Pending[j] = [side |-> Other(Pending[k].side), time |-> Pending[k].time]
        BY <4>2, <4>3, Sided DEF Entry
      <4> QED BY <3>2, <4>1, <4>4
    <3> QED BY <3>1, <3>2
  <2> QED BY <2>1, <2>2 DEF PairsWhole, LeftFirst
<1> QED
  BY <1>1, PairInvAlways, PTL

(* A tuple set waits exactly while its counterpart is not there, and what  *)
(* both sides brought is in one place, once.                               *)
THEOREM NoneLost == Spec => []NothingLost
<1>1. ASSUME PairInv, NEW t \in Complete
      PROVE  Cardinality({i \in 1..Len(processed) : processed[i] = t})
               + Cardinality({k \in 1..Len(Unprocessed) : Unprocessed[k].side = "left"
                                                             /\ Unprocessed[k].time = t}) = 1
  <2> DEFINE A == {i \in 1..Len(processed) : processed[i] = t}
             B == {k \in 1..Len(Unprocessed) : Unprocessed[k].side = "left" /\ Unprocessed[k].time = t}
  <2>1. /\ Types /\ Books /\ Coupled(Pending) /\ Pending \in Seq(Entry) /\ Len(Pending) \in Nat
        /\ processed \in Seq(1..MaxTime) /\ Len(processed) \in Nat
    <3>1. Types /\ Books /\ Coupled(Pending)
      BY <1>1 DEF PairInv
    <3>2. Pending \in Seq(Entry) /\ Len(Pending) \in Nat
      BY <3>1 DEF Coupled
    <3>3. processed \in Seq(1..MaxTime) /\ Len(processed) \in Nat
      BY <3>1 DEF Types
    <3> QED BY <3>1, <3>2, <3>3
  <2>2. /\ Skip \in {0, 2} /\ Skip % 2 = 0 /\ Len(Unprocessed) \in Nat
        /\ Len(Pending) = Len(Unprocessed) + Skip
        /\ \A k \in 1..Len(Unprocessed) : Unprocessed[k] = Pending[k + Skip]
    <3>1. CASE out = <<>>
      BY <2>1, <3>1 DEF Unprocessed, Skip
    <3>2. CASE out # <<>>
      BY <2>1, <3>2, PendingParts DEF Unprocessed, Skip, Types
    <3> QED BY <3>1, <3>2
  <2>3. CASE \E i \in 1..Len(processed) : processed[i] = t
    <3>1. PICK i \in 1..Len(processed) : processed[i] = t
      BY <2>3
    <3>2. A = {i}
      <4>1. ASSUME NEW j \in 1..Len(processed), processed[j] = t PROVE j = i
        <5>1. \A g, h \in 1..Len(processed) : g < h => processed[g] < processed[h]
          BY <2>1 DEF Books
        <5>2. t \in 1..MaxTime
          <6>1. processed \in Seq(1..MaxTime)
            BY <2>1
          <6>2. processed[i] \in 1..MaxTime
            BY <6>1, ElementOfSeq, Zenon
          <6> QED BY <3>1, <6>2
        <5>3. i < j \/ j < i => t < t
          BY <3>1, <4>1, <5>1
        <5> QED BY <5>2, <5>3
      <4> QED BY <3>1, <4>1
    <3>3. ASSUME NEW k \in 1..Len(Unprocessed) PROVE Unprocessed[k].time # t
      <4>1. k + Skip \in 1..Len(Pending) /\ k + Skip > Skip
        BY <2>2
      <4>2. processed[i] < Pending[k + Skip].time /\ Pending[k + Skip].time \in 1..MaxTime
        BY <2>1, <3>1, <4>1, CoupledTimes DEF Books
      <4> QED BY <2>1, <2>2, <3>1, <4>2
    <3>4. B = {}
      BY <3>3
    <3> HIDE DEF A, B
    <3>5. Cardinality(A) = 1 /\ Cardinality(B) = 0
      BY <3>2, <3>4, FS_Singleton, FS_EmptySet
    <3> QED BY <3>5 DEF A, B
  <2>4. CASE \A i \in 1..Len(processed) : processed[i] # t
    <3>1. PICK k \in 1..Len(Pending) : k > Skip /\ k % 2 = 1 /\ Pending[k].time = t
      BY <2>1, <2>4 DEF Books
    <3>2. k + 1 \in 1..Len(Pending) /\ Pending[k + 1] = [side |-> Other(Pending[k].side), time |-> t]
      BY <2>1, <3>1 DEF Coupled
    <3>3. Pending[k] \in Entry /\ Pending[k].side \in Sides
      <4>1. Pending[k] \in Entry
        BY <2>1, <3>1
      <4> QED BY <4>1 DEF Entry
    <3>4. ASSUME NEW j \in 1..Len(Pending), Pending[j].time = t PROVE j = k \/ j = k + 1
      <4>1. \A i \in 1..Len(Pending) : Pending[i].time \in 1..MaxTime
        BY <2>1, CoupledTimes
      <4>0. \A g, h \in 1..Len(Pending) : g < h /\ h % 2 = 1 => Pending[g].time < Pending[h].time
        BY <2>1, CoupledTimes
      <4>2. CASE j < k
        <5>1. Pending[j].time < Pending[k].time
          BY <3>1, <4>0, <4>2
        <5> QED BY <3>1, <3>4, <4>1, <5>1
      <4>3. CASE j > k + 1 /\ j % 2 = 1
        <5>1. Pending[k].time < Pending[j].time
          BY <3>1, <4>0, <4>3
        <5> QED BY <3>1, <3>4, <4>1, <5>1
      <4>4. CASE j > k + 1 /\ j % 2 # 1
        <5>1. PICK i \in 1..Len(Pending) : j = i + 1 /\ i % 2 = 1 /\ k < i
          <6>1. j - 1 \in 1..Len(Pending) /\ j = (j - 1) + 1 /\ (j - 1) % 2 = 1 /\ k < j - 1
            BY <2>1, <3>1, <4>4
          <6> QED BY <6>1
        <5>2. Pending[j].time = Pending[i].time /\ Pending[k].time < Pending[i].time
          BY <2>1, <3>1, <5>1, CoupledTimes
        <5> QED BY <3>1, <3>4, <4>1, <5>1, <5>2
      <4> QED BY <2>1, <3>1, <4>2, <4>3, <4>4
    <3>5. PICK m \in {k, k + 1} : \A j \in {k, k + 1} : Pending[j].side = "left" <=> j = m
      <4>1. CASE Pending[k].side = "left"
        BY <2>1, <3>1, <3>2, <4>1, Sided
      <4>2. CASE Pending[k].side = "right"
        BY <2>1, <3>1, <3>2, <4>2, Sided
      <4> QED BY <3>3, <4>1, <4>2 DEF Sides
    <3>6. Pending[m].time = t /\ m - Skip \in 1..Len(Unprocessed) /\ (m - Skip) + Skip = m
      BY <2>2, <3>1, <3>2, <3>5
    <3>7. B = {m - Skip}
      <4>1. Unprocessed[m - Skip] = Pending[m]
        BY <2>2, <3>6
      <4>2. m - Skip \in B
        BY <3>5, <3>6, <4>1
      <4>3. ASSUME NEW j \in 1..Len(Unprocessed), Unprocessed[j].side = "left", Unprocessed[j].time = t
            PROVE  j = m - Skip
        <5>1. j + Skip \in 1..Len(Pending) /\ Pending[j + Skip] = Unprocessed[j]
          BY <2>2
        <5>2. j + Skip = m
          BY <3>4, <3>5, <4>3, <5>1
        <5> QED BY <2>2, <5>2
      <4> QED BY <4>2, <4>3
    <3>8. A = {}
      BY <2>4
    <3> HIDE DEF A, B
    <3>9. Cardinality(A) = 0 /\ Cardinality(B) = 1
      BY <3>7, <3>8, FS_Singleton, FS_EmptySet
    <3> QED BY <3>9 DEF A, B
  <2> QED BY <2>3, <2>4
<1>2. ASSUME PairInv PROVE NothingLost
  BY <1>1, <1>2 DEF NothingLost, PairInv, Waits
<1> QED
  BY <1>2, PairInvAlways, PTL

(* The operator implements OrderedPairs: waitQMap and the buffer neither   *)
(* lose nor repeat nor reorder what both sides have brought.               *)
THEOREM RefinesOrderedPairs == Spec => ImplementsOrderedPairs
<1>1. Init => Promise!PairsInit
  BY DEF Init, Promise!PairsInit
<1>2. ASSUME PairInv, [Next]_vars PROVE [Promise!PairsNext]_<<brought, processed>>
  <2>1. ASSUME NEW s \in Sides, NEW t \in 1..MaxTime, ReceiveTupleSet(s, t)
        PROVE  Promise!PairsNext
    <3>1. Promise!Bring(s, t)
      BY <2>1 DEF ReceiveTupleSet, Promise!Bring
    <3> QED BY <3>1 DEF Promise!PairsNext
  <2>2. ASSUME NEW first \in TupleSets, NEW second \in TupleSets, Process(first, second)
        PROVE  Promise!PairsNext
    <3> DEFINE now == ts[1].time
    <3>1. /\ processed' = Append(processed, now) /\ brought' = brought /\ now \in Complete
          /\ \A i \in 1..Len(processed) : processed[i] # now
          /\ \A t \in Complete : (\A i \in 1..Len(processed) : processed[i] # t) => now <= t
      BY <1>2, <2>2, ProcessStep
    <3>2. \A t : t \in Promise!Due <=> t \in Complete /\ \A i \in 1..Len(processed) : processed[i] # t
      BY DEF Promise!Due, Complete, Sides
    <3>3. now \in Promise!Due /\ Promise!ProcessOldest(now)
      BY <3>1, <3>2 DEF Promise!ProcessOldest
    <3> QED BY <3>3 DEF Promise!PairsNext
  <2>3. CASE GetTupleSet \/ Finish \/ UNCHANGED vars
    BY <2>3 DEF GetTupleSet, Finish, vars
  <2> QED BY <1>2, <2>1, <2>2, <2>3 DEF Next
<1> QED
  BY <1>1, <1>2, PairInvAlways, PTL DEF Spec, ImplementsOrderedPairs, Promise!PairsSpec
-----------------------------------------------------------------------------
(* Induction over numbers, as the least of a set.                          *)
LEMMA Least == ASSUME NEW S, S \subseteq Nat, S # {} PROVE \E x \in S : \A y \in S : x <= y
<1> DEFINE R == OpToRel(<, Nat)
<1>1. IsWellFoundedOn(R, Nat)
  BY NatLessThanWellFounded, Zenon
<1>2. \A x, y \in Nat : x < y => <<x, y>> \in R
  BY DEF OpToRel
<1> HIDE DEF R
<1>3. PICK x \in S : \A y \in S : ~(<<y, x>> \in R)
  BY <1>1, WFMin, Zenon
<1>4. \A y \in S : ~(y < x)
  BY <1>2, <1>3, Zenon
<1> QED BY <1>4

Condition == [left : Nat, right : Nat, rel : Rels]

LEMMA ArgumentType ==
    ASSUME op \in Operators
    PROVE  /\ op.argument \in Seq(Condition) /\ Len(op.argument) \in Nat
           /\ op.kind \in {"join", "union"} /\ op.fits \in BOOLEAN
<1>1. op.argument \in Seq(Condition) /\ op.kind \in {"join", "union"} /\ op.fits \in BOOLEAN
  BY OperatorAssumption, Zenon DEF Condition
<1> QED BY <1>1

(* What is understood is the argument up to an unknown name, all of it if  *)
(* there is none.                                                          *)
LEMMA ParsedFacts ==
    ASSUME op \in Operators
    PROVE  /\ Parsed \in Seq(Condition) /\ Len(Parsed) \in Nat /\ Len(Parsed) <= Len(op.argument)
           /\ WellFormed(op) => Parsed = op.argument
<1> DEFINE a == op.argument
           bad == {k \in 1..Len(a) : a[k].left = 0}
           first == CHOOSE k \in bad : \A j \in bad : k <= j
           n == IF bad = {} THEN Len(a) ELSE first - 1
<1>1. a \in Seq(Condition) /\ Len(a) \in Nat
  BY ArgumentType
<1>2. n \in 0..Len(a)
  <2>1. CASE bad = {}
    BY <1>1, <2>1
  <2>2. CASE bad # {}
    <3>1. \E k \in bad : \A j \in bad : k <= j
      <4>1. bad \subseteq Nat
        BY <1>1
      <4> HIDE DEF bad
      <4> QED BY <2>2, <4>1, Least, Zenon
    <3>2. first \in bad
      BY <3>1
    <3>3. n = first - 1
      BY <2>2
    <3> HIDE DEF first, n
    <3> QED BY <1>1, <3>2, <3>3
  <2> QED BY <2>1, <2>2
<1>3. Parsed = SubSeq(a, 1, n)
  BY DEF Parsed
<1> HIDE DEF n, a
<1>4. /\ SubSeq(a, 1, n) \in Seq(Condition) /\ Len(SubSeq(a, 1, n)) = n
      /\ \A i \in 1..n : SubSeq(a, 1, n)[i] = a[i]
  BY <1>1, <1>2
<1>5. ASSUME WellFormed(op) PROVE Parsed = a
  <2>1. n = Len(a)
    BY <1>5 DEF WellFormed, n, a
  <2> QED BY <1>1, <1>3, <1>4, <2>1, SeqEqual
<1> QED BY <1>1, <1>2, <1>3, <1>4, <1>5 DEF a

LEMMA KeyColumns ==
    ASSUME NEW c \in Seq(Condition)
    PROVE  /\ Lefts(c) \in Seq(Nat) /\ Len(Lefts(c)) = Len(c)
           /\ Rights(c) \in Seq(Nat) /\ Len(Rights(c)) = Len(c)
           /\ \A k \in 1..Len(c) : Lefts(c)[k] = c[k].left /\ Rights(c)[k] = c[k].right
<1>1. \A k \in 1..Len(c) : c[k] \in Condition
  BY ElementOfSeq
<1>2. \A k \in 1..Len(c) : c[k].left \in Nat /\ c[k].right \in Nat
  BY <1>1 DEF Condition
<1> QED BY <1>2 DEF Lefts, Rights

(* What process keeps: once the schema is set, the conditions that were    *)
(* understood, and the key columns of the smaller and the larger side.     *)
Prep == [schema : BOOLEAN, conditions : Seq(Condition), isUseHashJoin : BOOLEAN,
         small : Seq(Nat), large : Seq(Nat), isReverse : BOOLEAN, checked : BOOLEAN]

Hashable == op.argument # <<>> /\ \A k \in 1..Len(Parsed) : Parsed[k].rel = "="

Assigned(p) ==
    /\ p.small = IF p.isReverse THEN Rights(Parsed) ELSE Lefts(Parsed)
    /\ p.large = IF p.isReverse THEN Lefts(Parsed) ELSE Rights(Parsed)

Understood(p) ==
    /\ p \in Prep
    /\ p.schema => p.conditions = Parsed /\ p.isUseHashJoin = Hashable
    /\ (p.small = <<>> /\ p.large = <<>>) \/ (p.schema /\ Assigned(p))

PrepInv == Types /\ Understood(prep) /\ (out # <<>> => Len(out) = 1 /\ out[1].next \in BOOLEAN)

LEMMA PrepInvInit == Init => PrepInv
<1> SUFFICES ASSUME Init PROVE PrepInv
  OBVIOUS
<1>1. Types /\ out = <<>>
  BY PairInvInit DEF PairInv, Init
<1>2. Unprepared \in Prep
  <2>1. <<>> \in Seq(Condition) /\ <<>> \in Seq(Nat)
    BY EmptySeq, Zenon
  <2> QED BY <2>1 DEF Unprepared, Prep
<1>3. Understood(prep)
  BY <1>2 DEF Init, Understood, Unprepared
<1> QED BY <1>1, <1>3 DEF PrepInv

LEMMA PreparedJoin ==
    ASSUME Types, Understood(prep)
    PROVE  /\ Understood(PrepareJoin) /\ PrepareJoin.schema
           /\ PrepareJoin.conditions = Parsed /\ PrepareJoin.isUseHashJoin = Hashable
<1>1. Parsed \in Seq(Condition) /\ Hashable \in BOOLEAN
  BY ParsedFacts DEF Types, Hashable
<1>2. CASE prep.schema
  BY <1>2 DEF PrepareJoin, Understood
<1>3. CASE ~prep.schema
  <2>1. PrepareJoin = [prep EXCEPT !.schema = TRUE, !.conditions = Parsed, !.isUseHashJoin = Hashable]
    BY <1>3 DEF PrepareJoin, Hashable
  <2> HIDE DEF Hashable
  <2> QED BY <1>1, <1>3, <2>1 DEF Understood, Prep, Assigned
<1> QED BY <1>2, <1>3

(* Whatever was hashed before, the lists of columns belong to the roles.   *)
LEMMA KeyListsRight ==
    ASSUME Types, Understood(prep), NEW isReverse \in BOOLEAN
    PROVE  /\ Understood(KeyLists(isReverse)) /\ Assigned(KeyLists(isReverse))
           /\ KeyLists(isReverse).isReverse = isReverse
<1> DEFINE p == IF prep.schema THEN Roles(isReverse) ELSE PrepareJoin
           l == Lefts(Parsed)
           r == Rights(Parsed)
<1>1. /\ Parsed \in Seq(Condition) /\ l \in Seq(Nat) /\ r \in Seq(Nat)
      /\ Len(l) = Len(Parsed) /\ Len(r) = Len(Parsed) /\ Len(Parsed) \in Nat
  BY ParsedFacts, KeyColumns DEF Types
<1>2. KeyLists(isReverse) =
         IF p.small # <<>> THEN [p EXCEPT !.isReverse = isReverse]
         ELSE [p EXCEPT !.isReverse = isReverse, !.small = IF isReverse THEN r ELSE l,
                        !.large = IF isReverse THEN l ELSE r]
  BY DEF KeyLists
<1>3. /\ p \in Prep /\ p.schema /\ p.conditions = Parsed /\ p.isUseHashJoin = Hashable
      /\ p.small # <<>> =>
            p.small = (IF isReverse THEN r ELSE l) /\ p.large = (IF isReverse THEN l ELSE r)
  <2>1. CASE ~prep.schema
    BY <2>1, PreparedJoin DEF Understood, PrepareJoin, Prep
  <2>2. CASE prep.schema /\ prep.small = <<>>
    BY <2>2 DEF Understood, Roles
  <2>3. CASE prep.schema /\ prep.small # <<>>
    <3>1. Assigned(prep) /\ prep \in Prep
      BY <2>3 DEF Understood
    <3>2. p = IF prep.isReverse # isReverse THEN [prep EXCEPT !.small = prep.large, !.large = prep.small]
              ELSE prep
      BY <2>3 DEF Roles
    <3> QED BY <2>3, <3>1, <3>2 DEF Understood, Assigned, Prep
  <2> QED BY <2>1, <2>2, <2>3
<1> HIDE DEF p, l, r
<1>4. /\ KeyLists(isReverse) \in Prep /\ KeyLists(isReverse).schema
      /\ KeyLists(isReverse).conditions = Parsed /\ KeyLists(isReverse).isUseHashJoin = Hashable
      /\ KeyLists(isReverse).isReverse = isReverse
      /\ KeyLists(isReverse).small = IF isReverse THEN r ELSE l
      /\ KeyLists(isReverse).large = IF isReverse THEN l ELSE r
  BY <1>1, <1>2, <1>3 DEF Prep
<1> QED BY <1>4 DEF Understood, Assigned, l, r

(* The keys of rows that agree in the columns of the lists are the same.   *)
LEMMA JoinKeyBuilt ==
    ASSUME NEW row, NEW idx, Len(idx) \in Nat
    PROVE  \E key :
             /\ key = [k \in 0..Len(idx) |->
                          IF k = 0 THEN <<>>
                          ELSE (IF key[k - 1] = <<>> THEN <<>> ELSE Append(key[k - 1], Underscore))
                                 \o row[idx[k]]]
             /\ JoinKey(row, idx) = key[Len(idx)]
<1> DEFINE n == Len(idx)
           Next1(p, k) == (IF p = <<>> THEN <<>> ELSE Append(p, Underscore)) \o row[idx[k]]
           Built(f, m) == f = [k \in 0..m |-> IF k = 0 THEN <<>> ELSE Next1(f[k - 1], k)]
           bad == {m \in 0..n : ~(\E f : Built(f, m))}
<1> HIDE DEF Next1
<1>1. bad = {}
  <2> SUFFICES ASSUME bad # {} PROVE FALSE
    OBVIOUS
  <2>1. PICK m \in bad : \A y \in bad : m <= y
    <3>1. bad \subseteq Nat /\ bad # {}
      OBVIOUS
    <3> HIDE DEF bad
    <3> QED BY <3>1, Least, Zenon
  <2>2. m \in 0..n /\ ~(\E f : Built(f, m))
    OBVIOUS
  <2>3. CASE m = 0
    <3>1. Built([k \in 0..0 |-> <<>>], 0)
      OBVIOUS
    <3> QED BY <2>2, <2>3, <3>1
  <2>4. CASE m # 0
    <3>1. m - 1 \in 0..n /\ m - 1 \notin bad
      BY <2>1, <2>2, <2>4
    <3>2. PICK f : Built(f, m - 1)
      BY <3>1
    <3> DEFINE g == [k \in 0..m |-> IF k = m THEN Next1(f[m - 1], m) ELSE f[k]]
    <3>3. ASSUME NEW k \in 0..m PROVE g[k] = IF k = 0 THEN <<>> ELSE Next1(g[k - 1], k)
      <4>1. CASE k = m
        BY <2>2, <2>4, <4>1
      <4>2. CASE k # m
        <5>1. k \in 0..m - 1 /\ g[k] = f[k]
          BY <2>2, <4>2
        <5>2. f[k] = IF k = 0 THEN <<>> ELSE Next1(f[k - 1], k)
          BY <3>2, <5>1
        <5>3. k # 0 => g[k - 1] = f[k - 1]
          BY <2>2, <5>1
        <5> QED BY <5>1, <5>2, <5>3
      <4> QED BY <4>1, <4>2
    <3>4. Built(g, m)
      BY <3>3
    <3> QED BY <2>2, <3>4
  <2> QED BY <2>3, <2>4
<1>2. \E f : Built(f, n)
  BY <1>1
<1> DEFINE key == CHOOSE f : Built(f, n)
<1>3. Built(key, n)
  BY <1>2
<1>4. JoinKey(row, idx) = key[n]
  BY DEF JoinKey, Next1
<1> QED BY <1>3, <1>4 DEF Next1

LEMMA SameColumnsSameKey ==
    ASSUME NEW row1, NEW row2, NEW idx1, NEW idx2, Len(idx1) \in Nat, Len(idx2) = Len(idx1),
           \A k \in 1..Len(idx1) : row1[idx1[k]] = row2[idx2[k]]
    PROVE  JoinKey(row1, idx1) = JoinKey(row2, idx2)
<1> DEFINE n == Len(idx1)
<1>1. PICK key1 :
             /\ key1 = [k \in 0..n |->
                          IF k = 0 THEN <<>>
                          ELSE (IF key1[k - 1] = <<>> THEN <<>> ELSE Append(key1[k - 1], Underscore))
                                 \o row1[idx1[k]]]
             /\ JoinKey(row1, idx1) = key1[n]
  BY JoinKeyBuilt
<1>2. PICK key2 :
             /\ key2 = [k \in 0..Len(idx2) |->
                          IF k = 0 THEN <<>>
                          ELSE (IF key2[k - 1] = <<>> THEN <<>> ELSE Append(key2[k - 1], Underscore))
                                 \o row2[idx2[k]]]
             /\ JoinKey(row2, idx2) = key2[Len(idx2)]
  BY JoinKeyBuilt
<1> DEFINE bad == {k \in 0..n : key1[k] # key2[k]}
<1>3. bad = {}
  <2> SUFFICES ASSUME bad # {} PROVE FALSE
    OBVIOUS
  <2>1. PICK k \in bad : \A y \in bad : k <= y
    <3>1. bad \subseteq Nat /\ bad # {}
      OBVIOUS
    <3> HIDE DEF bad
    <3> QED BY <3>1, Least, Zenon
  <2>2. CASE k = 0
    BY <1>1, <1>2, <2>1, <2>2
  <2>3. CASE k # 0
    <3>1. k \in 1..n /\ k - 1 \in 0..n /\ k - 1 \notin bad
      BY <2>1, <2>3
    <3>2. key1[k - 1] = key2[k - 1] /\ row1[idx1[k]] = row2[idx2[k]]
      BY <3>1
    <3>3. /\ key1[k] = (IF key1[k - 1] = <<>> THEN <<>> ELSE Append(key1[k - 1], Underscore))
                           \o row1[idx1[k]]
          /\ key2[k] = (IF key2[k - 1] = <<>> THEN <<>> ELSE Append(key2[k - 1], Underscore))
                           \o row2[idx2[k]]
      BY <1>1, <1>2, <3>1
    <3>4. key1[k] = key2[k]
      BY <3>2, <3>3, Zenon
    <3> QED BY <2>1, <3>4
  <2> QED BY <2>2, <2>3
<1>4. key1[n] = key2[n]
  BY <1>3
<1> QED BY <1>1, <1>2, <1>4

-----------------------------------------------------------------------------
LEMMA ProcessKeepsPrep ==
    ASSUME PrepInv, NEW first \in TupleSets, NEW second \in TupleSets, Process(first, second)
    PROVE  /\ Understood(prep')
           /\ Len(out') = 1 /\ out'[1].next \in BOOLEAN
<1>1. Types /\ Understood(prep)
  BY DEF PrepInv
<1>2. CASE JoinRefused(first, second)
  BY <1>1, <1>2, PreparedJoin DEF JoinRefused, Result
<1>3. CASE NestedLoopJoin(first, second)
  BY <1>1, <1>3, PreparedJoin DEF NestedLoopJoin, Result
<1>4. CASE HashJoin(first, second)
  <2> DEFINE isReverse == Len(first) >= Len(second)
             understood == Roles(isReverse).small # <<>> \/ Parsed = op.argument
  <2>1. isReverse \in BOOLEAN /\ understood \in BOOLEAN
    OBVIOUS
  <2>2. prep' = KeyLists(isReverse) /\ \E rows : Result(understood, first, second, rows)
    BY <1>4 DEF HashJoin
  <2> HIDE DEF isReverse, understood
  <2>3. PICK rows : Result(understood, first, second, rows)
    BY <2>2
  <2>4. Len(out') = 1 /\ out'[1].next = understood
    BY <2>3 DEF Result
  <2> QED BY <1>1, <2>1, <2>2, <2>4, KeyListsRight
<1>5. CASE UnionOther(first, second)
  BY <1>1, <1>5 DEF UnionOther, Result
<1>6. ASSUME prep' = [prep EXCEPT !.checked = TRUE] PROVE Understood(prep')
  BY <1>1, <1>6 DEF Understood, Prep, Assigned
<1>7. CASE UnionRefused(first, second)
  BY <1>6, <1>7 DEF UnionRefused, Result
<1>8. CASE UnionMerged(first, second)
  BY <1>6, <1>8 DEF UnionMerged, Result
<1> QED BY <1>2, <1>3, <1>4, <1>5, <1>7, <1>8 DEF Process

LEMMA PrepInvStep == PairInv /\ PrepInv /\ [Next]_vars => PrepInv'
<1> SUFFICES ASSUME PairInv, PrepInv, [Next]_vars PROVE PrepInv'
  OBVIOUS
<1>1. Types'
  <2>1. PairInv'
    BY PairInvStep
  <2> QED BY <2>1 DEF PairInv
<1>2. ASSUME UNCHANGED <<op, prep>> PROVE Understood(prep)'
  <2>1. Understood(prep) /\ prep' = prep /\ op' = op
    BY <1>2 DEF PrepInv
  <2>2. Parsed' = Parsed /\ Hashable' = Hashable
    BY <2>1 DEF Hashable, Parsed
  <2> QED BY <2>1, <2>2 DEF Understood, Assigned
<1>3. ASSUME NEW s \in Sides, NEW t \in 1..MaxTime, ReceiveTupleSet(s, t) PROVE PrepInv'
  BY <1>1, <1>2, <1>3 DEF ReceiveTupleSet, PrepInv
<1>4. CASE GetTupleSet
  BY <1>1, <1>2, <1>4 DEF GetTupleSet, PrepInv
<1>5. ASSUME NEW first \in TupleSets, NEW second \in TupleSets, Process(first, second) PROVE PrepInv'
  <2>1. Understood(prep') /\ Len(out') = 1 /\ out'[1].next \in BOOLEAN
    BY <1>5, ProcessKeepsPrep
  <2>2. op' = op
    BY <1>5 DEF Process, JoinRefused, NestedLoopJoin, HashJoin, UnionOther, UnionRefused,
                UnionMerged, Result
  <2>3. Understood(prep)'
    BY <2>1, <2>2 DEF Understood, Assigned, Hashable, Parsed
  <2> QED BY <1>1, <2>1, <2>3 DEF PrepInv
<1>6. CASE Finish
  BY <1>1, <1>2, <1>6 DEF Finish, PrepInv
<1>7. CASE UNCHANGED vars
  BY <1>1, <1>2, <1>7 DEF vars, PrepInv
<1> QED BY <1>3, <1>4, <1>5, <1>6, <1>7 DEF Next

(* Type correctness: what waits, what is in hand and what process keeps    *)
(* from one pair to the next have their types, for any argument.           *)
THEOREM TypeCorrect == Spec => []TypeOK
<1>1. ASSUME PrepInv PROVE TypeOK
  <2>1. /\ prep.schema \in BOOLEAN /\ prep.checked \in BOOLEAN
        /\ Len(prep.small) = Len(prep.large) /\ Len(prep.small) <= Len(op.argument)
    <3>1. /\ Len(Parsed) <= Len(op.argument) /\ Parsed \in Seq(Condition) /\ Len(Parsed) \in Nat
          /\ Len(op.argument) \in Nat
      BY <1>1, ParsedFacts, ArgumentType DEF PrepInv, Types
    <3> QED BY <1>1, <3>1, KeyColumns DEF PrepInv, Understood, Assigned, Prep
  <2> QED BY <1>1, <2>1 DEF PrepInv, Types, TypeOK, Entry
<1>2. Init => PairInv /\ PrepInv
  BY PairInvInit, PrepInvInit
<1>3. PairInv /\ PrepInv /\ [Next]_vars => (PairInv /\ PrepInv)'
  BY PairInvStep, PrepInvStep
<1> QED BY <1>1, <1>2, <1>3, PTL DEF Spec

-----------------------------------------------------------------------------
(* One row of each side: they have one key if and only if they satisfy all *)
(* conditions of the argument.                                             *)
LEMMA KeysRight ==
    ASSUME Types, KeysTell, Hashable, WellFormed(op),
           NEW first \in TupleSets, NEW second \in TupleSets,
           NEW i \in 1..Len(first), NEW j \in 1..Len(second)
    PROVE  JoinKey(first[i], Lefts(op.argument)) = JoinKey(second[j], Rights(op.argument))
             <=> \A k \in 1..Len(op.argument) : Satisfies(op.argument[k], first[i], second[j])
<1> DEFINE c == op.argument
<1>1. /\ op \in Operators /\ c \in Seq(Condition) /\ Len(c) \in Nat /\ Parsed = c
      /\ \A k \in 1..Len(c) : c[k].rel = "="
  BY ParsedFacts, ArgumentType DEF Types, Hashable
<1>2. /\ Len(Lefts(c)) = Len(c) /\ Len(Rights(c)) = Len(c)
      /\ \A k \in 1..Len(c) : Lefts(c)[k] = c[k].left /\ Rights(c)[k] = c[k].right
  BY <1>1, KeyColumns
<1>3. ASSUME \A k \in 1..Len(c) : Satisfies(c[k], first[i], second[j])
      PROVE  JoinKey(first[i], Lefts(c)) = JoinKey(second[j], Rights(c))
  <2>1. \A k \in 1..Len(c) : first[i][Lefts(c)[k]] = second[j][Rights(c)[k]]
    BY <1>1, <1>2, <1>3 DEF Satisfies
  <2> HIDE DEF c
  <2> QED BY <1>1, <1>2, <2>1, SameColumnsSameKey
<1>4. ASSUME JoinKey(first[i], Lefts(c)) = JoinKey(second[j], Rights(c))
      PROVE  \A k \in 1..Len(c) : Satisfies(c[k], first[i], second[j])
  BY <1>1, <1>4 DEF KeysTell
<1> QED BY <1>3, <1>4

LEMMA ProcessRight ==
    ASSUME PrepInv, KeysTell, NEW first \in TupleSets, NEW second \in TupleSets,
           Process(first, second)
    PROVE  ResultRight'
<1> DEFINE asked == IF op.kind = "union" THEN Rows(first, second)
                    ELSE {p \in (1..Len(first)) \X (1..Len(second)) :
                            \A c \in 1..Len(op.argument) :
                                Satisfies(op.argument[c], first[p[1]], second[p[2]])}
<1>1. ASSUME NEW next, NEW rows, Result(next, first, second, rows),
             WellFormed(op) => next /\ rows = asked
      PROVE  ResultRight'
  <2> DEFINE r == [next |-> next, first |-> first, second |-> second, rows |-> rows]
  <2>1. op' = op /\ out' = <<r>>
    BY <1>1 DEF Result
  <2>2. r.next = next /\ r.first = first /\ r.second = second /\ r.rows = rows
    OBVIOUS
  <2> HIDE DEF r
  <2>3. \A k \in 1..Len(out') : out'[k] = r
    BY <2>1
  <2>4. WellFormed(op)' = WellFormed(op)
    BY <2>1 DEF WellFormed
  <2>5. WellFormed(op)' =>
          r.next /\ r.rows = IF op'.kind = "union" THEN Rows(r.first, r.second)
                             ELSE {p \in (1..Len(r.first)) \X (1..Len(r.second)) :
                                     \A c \in 1..Len(op'.argument) :
                                         Satisfies(op'.argument[c], r.first[p[1]], r.second[p[2]])}
    BY <1>1, <2>1, <2>2, <2>4, Zenon
  <2> QED BY <2>3, <2>5, Zenon DEF ResultRight
<1>2. /\ Types /\ Understood(prep) /\ op \in Operators /\ op.kind \in {"join", "union"}
      /\ WellFormed(op) => Parsed = op.argument /\ op.fits
  BY ParsedFacts, ArgumentType DEF PrepInv, Types, WellFormed
<1>3. CASE op.kind = "join" /\ JoinRefused(first, second)
  BY <1>1, <1>2, <1>3 DEF JoinRefused
<1>4. CASE op.kind = "join" /\ NestedLoopJoin(first, second)
  <2> DEFINE rows == {p \in (1..Len(first)) \X (1..Len(second)) :
                        \A k \in 1..Len(prep'.conditions) :
                            Satisfies(prep'.conditions[k], first[p[1]], second[p[2]])}
  <2>1. Result(TRUE, first, second, rows) /\ prep' = PrepareJoin
    BY <1>4 DEF NestedLoopJoin
  <2>2. WellFormed(op) => rows = asked
    BY <1>2, <1>4, <2>1, PreparedJoin
  <2> QED BY <1>1, <2>1, <2>2
<1>5. CASE op.kind = "join" /\ HashJoin(first, second)
  <2> DEFINE isReverse == Len(first) >= Len(second)
             firstKeys == IF isReverse THEN prep'.large ELSE prep'.small
             secondKeys == IF isReverse THEN prep'.small ELSE prep'.large
             understood == Roles(isReverse).small # <<>> \/ Parsed = op.argument
             rows == {p \in (1..Len(first)) \X (1..Len(second)) :
                         /\ understood
                         /\ JoinKey(first[p[1]], firstKeys) = JoinKey(second[p[2]], secondKeys)}
  <2>1. /\ Result(understood, first, second, rows) /\ prep' = KeyLists(isReverse)
        /\ PrepareJoin.isUseHashJoin /\ isReverse \in BOOLEAN
    BY <1>5 DEF HashJoin
  <2>2. Hashable /\ Assigned(prep') /\ prep'.isReverse = isReverse
    BY <1>2, <2>1, KeyListsRight, PreparedJoin
  <2>3. firstKeys = Lefts(Parsed) /\ secondKeys = Rights(Parsed)
    BY <2>2 DEF Assigned
  <2>4. ASSUME WellFormed(op) PROVE understood /\ rows = asked
    <3>1. Parsed = op.argument /\ understood
      BY <1>2, <2>4
    <3>2. \A p \in (1..Len(first)) \X (1..Len(second)) :
             JoinKey(first[p[1]], firstKeys) = JoinKey(second[p[2]], secondKeys)
               <=> \A k \in 1..Len(op.argument) :
                      Satisfies(op.argument[k], first[p[1]], second[p[2]])
      <4> HIDE DEF firstKeys, secondKeys
      <4>1. \A i \in 1..Len(first), j \in 1..Len(second) :
               JoinKey(first[i], firstKeys) = JoinKey(second[j], secondKeys)
                 <=> \A k \in 1..Len(op.argument) : Satisfies(op.argument[k], first[i], second[j])
        BY <1>2, <2>2, <2>3, <2>4, <3>1, KeysRight
      <4> QED BY <4>1
    <3> HIDE DEF firstKeys, secondKeys, understood
    <3> QED BY <1>5, <3>1, <3>2
  <2> HIDE DEF rows, understood
  <2> QED BY <1>1, <2>1, <2>4
<1>6. CASE op.kind = "union" /\ UnionOther(first, second)
  BY <1>1, <1>6 DEF UnionOther
<1>7. CASE op.kind = "union" /\ UnionRefused(first, second)
  BY <1>1, <1>2, <1>7 DEF UnionRefused
<1>8. CASE op.kind = "union" /\ UnionMerged(first, second)
  BY <1>1, <1>8 DEF UnionMerged
<1> HIDE DEF asked
<1> QED BY <1>3, <1>4, <1>5, <1>6, <1>7, <1>8 DEF Process

(* If keys tell rows apart, every result is what the argument asks for,    *)
(* whichever side was hashed before and however often they changed places. *)
THEOREM AskedResult == ASSUME KeysTell PROVE Spec => []ResultRight
<1>1. ASSUME Init PROVE ResultRight
  BY <1>1 DEF Init, ResultRight
<1>2. ASSUME PrepInv, ResultRight, [Next]_vars PROVE ResultRight'
  <2>1. ASSUME UNCHANGED <<op, out>> PROVE ResultRight'
    BY <1>2, <2>1 DEF ResultRight, WellFormed
  <2>2. ASSUME NEW s \in Sides, NEW t \in 1..MaxTime, ReceiveTupleSet(s, t) PROVE ResultRight'
    BY <2>1, <2>2 DEF ReceiveTupleSet
  <2>3. CASE GetTupleSet
    BY <2>1, <2>3 DEF GetTupleSet
  <2>4. ASSUME NEW first \in TupleSets, NEW second \in TupleSets, Process(first, second)
        PROVE  ResultRight'
    BY <1>2, <2>4, ProcessRight
  <2>5. CASE Finish
    BY <2>5 DEF Finish, ResultRight
  <2>6. CASE UNCHANGED vars
    BY <2>1, <2>6 DEF vars
  <2> QED BY <1>2, <2>2, <2>3, <2>4, <2>5, <2>6 DEF Next
<1>3. Init => PairInv /\ PrepInv /\ ResultRight
  BY <1>1, PairInvInit, PrepInvInit
<1>4. PairInv /\ PrepInv /\ ResultRight /\ [Next]_vars => (PairInv /\ PrepInv /\ ResultRight)'
  BY <1>2, PairInvStep, PrepInvStep
<1> QED BY <1>3, <1>4, PTL DEF Spec
=============================================================================
