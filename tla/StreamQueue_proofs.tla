-------------------------- MODULE StreamQueue_proofs ---------------------------
(***************************************************************************)
(* Theorems about StreamQueue, for any windows, sizes, defaults and bounds. *)
(***************************************************************************)
EXTENDS StreamQueue, SequenceTheorems, FiniteSetTheorems, WellFoundedInduction, TLAPS

LEMMA Constants ==
    /\ IsFiniteSet(Windows) /\ Deployments \subseteq SUBSET Windows
    /\ DefaultNum \in Nat /\ DefaultMsec \in Nat
    /\ MaxTuples \in Nat /\ MaxBatch \in Nat /\ MaxTriggers \in Nat
    /\ MaxTime \in Nat /\ MaxLag \in Nat
    /\ \A w \in Windows : /\ Win[w].kind \in {"rows", "range", "all"} /\ Win[w].size \in Nat
                          /\ Win[w].own \in BOOLEAN /\ Win[w].dup \in BOOLEAN
  BY WindowAssumption, LimitAssumption

-----------------------------------------------------------------------------
(* Every non-empty set of naturals has a least element, so every non-empty *)
(* finite set of integers has a greatest one.                              *)
LEMMA Least == ASSUME NEW S, S \subseteq Nat, S # {} PROVE \E x \in S : \A y \in S : x <= y
<1> DEFINE R == OpToRel(<, Nat)
<1>1. IsWellFoundedOn(R, Nat)
  BY NatLessThanWellFounded, Zenon
<1>2. \A x, y \in Nat : x < y => <<x, y>> \in R
  BY DEF OpToRel
<1> HIDE DEF R
<1>3. PICK x \in S : \A y \in S : ~(<<y, x>> \in R)
  BY <1>1, WFMin, Zenon
<1>4. \A y \in S : ~(y < x)
  BY <1>2, <1>3, Zenon
<1> QED BY <1>4

HasMax(T) == \E x \in T : \A y \in T : x >= y

LEMMA FiniteHasMax == ASSUME NEW S, IsFiniteSet(S), S \subseteq Int, S # {} PROVE HasMax(S)
<1> SUFFICES ASSUME ~HasMax(S) PROVE FALSE
  OBVIOUS
<1> DEFINE Bad == {T \in SUBSET S : T # {} /\ ~HasMax(T)}
           Sizes == {Cardinality(T) : T \in Bad}
<1>1. \A T \in SUBSET S : IsFiniteSet(T) /\ Cardinality(T) \in Nat
  BY FS_Subset, FS_CardinalityType
<1>2. Sizes \subseteq Nat /\ Cardinality(S) \in Sizes
  BY <1>1
<1>3. PICK c \in Sizes : \A d \in Sizes : c <= d
  BY <1>2, Least, Zenon
<1>4. PICK T \in Bad : c = Cardinality(T)
  BY <1>3
<1>5. PICK x : x \in T
  BY <1>4
<1> DEFINE U == T \ {x}
<1>6. IsFiniteSet(U) /\ Cardinality(U) = Cardinality(T) - 1 /\ Cardinality(T) \in Nat
  BY <1>1, <1>4, <1>5, FS_RemoveElement
<1>7. U \notin Bad
  <2>1. U \in Bad => Cardinality(U) \in Sizes
    OBVIOUS
  <2> HIDE DEF U
  <2> QED BY <1>3, <1>4, <1>6, <2>1
<1>8. CASE U = {}
  <2>1. T = {x} /\ x \in Int
    BY <1>4, <1>5, <1>8
  <2> QED BY <1>4, <2>1 DEF HasMax
<1>9. CASE U # {}
  <2>1. HasMax(U)
    BY <1>4, <1>7, <1>9
  <2>2. PICK y \in U : \A z \in U : y >= z
    BY <2>1 DEF HasMax
  <2>3. x \in Int /\ y \in Int /\ y \in T /\ \A z \in T : z \in Int
    BY <1>4, <1>5, <2>2
  <2>4. CASE x >= y
    BY <1>4, <1>5, <2>2, <2>3, <2>4 DEF HasMax
  <2>5. CASE ~(x >= y)
    BY <1>4, <1>5, <2>2, <2>3, <2>5 DEF HasMax
  <2> QED BY <2>4, <2>5
<1> QED BY <1>8, <1>9

LEMMA FiniteMax ==
    ASSUME NEW S, IsFiniteSet(S), S \subseteq Int, S # {}
    PROVE  Max(S) \in S /\ \A y \in S : Max(S) >= y
  BY FiniteHasMax DEF HasMax, Max

LEMMA PlacesMax ==
    ASSUME NEW n \in Nat, NEW S, S \subseteq 1..n, S # {}
    PROVE  Max(S) \in S /\ \A y \in S : Max(S) >= y
<1>1. IsFiniteSet(1..n)
  BY FS_Interval
<1>2. IsFiniteSet(S)
  BY <1>1, FS_Subset
<1>3. S \subseteq Int
  OBVIOUS
<1> QED BY <1>2, <1>3, FiniteMax

-----------------------------------------------------------------------------
(* Types.                                                                  *)
Times == (0 - MaxLag)..MaxTime
TupleSet == [id : 1..MaxTuples, time : Times, recv : 1..MaxTuples + MaxTriggers]
Limits == [num : Nat, msec : Nat, blind : SUBSET Windows]
Readings == [recv : 0..MaxTuples + MaxTriggers, ref : Times, num : 0..MaxBatch]

QueueOK == queue \in Seq(TupleSet)
ListOK ==
    /\ deleteReservationList \in [DOMAIN deleteReservationList -> Int]
    /\ DOMAIN deleteReservationList \subseteq 1..arrived
CountersOK ==
    /\ clock \in 0..MaxTime /\ triggers \in 0..MaxTriggers /\ arrived \in 0..MaxTuples
    /\ stamp \in Nat /\ stamp <= arrived + triggers
WindowsOK ==
    /\ deployed \in Deployments
    /\ state \in [Windows -> {"gone", "listening", "referring"}]
    /\ lastRecvTime \in [Windows -> Nat] /\ \A w \in Windows : lastRecvTime[w] <= stamp
    /\ notifiedTime \in [Windows -> Times]
    /\ reading \in [Windows -> Readings] /\ \A w \in Windows : reading[w].recv <= stamp
    /\ \A w \in Windows : Win[w].own => reading[w] = NoTrigger
    /\ times \in [Windows -> [1..MaxTuples -> Nat]]
    /\ due \in [Windows -> SUBSET (1..MaxTuples)] /\ \A w \in Windows : due[w] \subseteq 1..arrived

(* The tuples of the queue are the last ones that arrived, in the order of *)
(* their numbers and of their receive times.                               *)
Gone == arrived - Len(queue)
InOrder ==
    /\ Gone >= 0
    /\ \A k \in 1..Len(queue) : queue[k].id = Gone + k /\ queue[k].recv <= stamp
    /\ \A j, k \in 1..Len(queue) : j <= k => queue[j].recv <= queue[k].recv

(* What was searched is counted by deleteSearchIdx, and it lies in front.  *)
Searched ==
    /\ deleteSearchIdx \in Nat /\ deleteSearchIdx <= arrived
    /\ IsFiniteSet(DOMAIN deleteReservationList)
    /\ Cardinality(DOMAIN deleteReservationList) <= deleteSearchIdx
    /\ \A k \in DOMAIN deleteReservationList : k <= Gone + deleteSearchIdx

(* A round of deleteQueue knows the sizes of the windows it saw.           *)
Limited ==
    /\ limits \in Limits
    /\ limits # NoRound =>
          \A w \in Windows \ limits.blind :
              state[w] = "referring" /\ Win[w].kind = "rows" => Win[w].size <= limits.num

(* What is due to a window is in the queue, and younger than its last read. *)
DueIn(w) ==
    /\ due[w] # {} => state[w] = "referring" /\ Win[w].kind = "rows" /\ ~Win[w].own
    /\ \A k \in due[w] :
          /\ k > arrived - Win[w].size /\ k > Gone
          /\ queue[k - Gone].recv > lastRecvTime[w]

(* How often a window was handed the tuples.                               *)
OnceRange(w) ==
    /\ \A k \in 1..MaxTuples : times[w][k] <= 1
    /\ \E l \in 0..arrived :
          /\ \A k \in 1..MaxTuples : k > l => times[w][k] = 0
          /\ l > Gone => queue[l - Gone].time = notifiedTime[w]

OnceRows(w) ==
    /\ \A k \in 1..MaxTuples : times[w][k] <= 1
    /\ \A k \in 1..Len(queue) : queue[k].recv > lastRecvTime[w] => times[w][Gone + k] = 0

TwiceRows(w) ==
    /\ \A k \in 1..MaxTuples : times[w][k] <= 2
    /\ \A k \in 1..Len(queue) : queue[k].recv > lastRecvTime[w] => times[w][Gone + k] <= 1
    /\ reading[w] # NoTrigger =>
          \A k \in 1..Len(queue) : queue[k].recv > reading[w].recv => times[w][Gone + k] = 0

OnceAll(w) == \A k \in 1..MaxTuples : times[w][k] <= 1

Handed(w) ==
    /\ \A k \in 1..MaxTuples : k > arrived => times[w][k] = 0
    /\ ~Win[w].dup =>
          /\ Win[w].kind = "range" => OnceRange(w)
          /\ Win[w].kind = "rows" /\ Win[w].own => OnceRows(w)
          /\ Win[w].kind = "rows" /\ ~Win[w].own => TwiceRows(w)
          /\ Win[w].kind = "all" /\ Win[w].own => OnceAll(w)

PerWindow == \A w \in Windows : DueIn(w) /\ Handed(w)

Base == QueueOK /\ ListOK /\ CountersOK /\ WindowsOK /\ InOrder /\ Searched /\ Limited
IInv == Base /\ PerWindow

-----------------------------------------------------------------------------
(* Places and numbers of the tuples in the queue.                          *)
LEMMA QueueFacts ==
    ASSUME Base
    PROVE  /\ Len(queue) \in Nat /\ Gone \in Nat /\ arrived \in Nat /\ arrived = Gone + Len(queue)
           /\ stamp \in Nat /\ arrived <= MaxTuples /\ MaxTuples \in Nat
           /\ \A k \in 1..Len(queue) :
                 /\ queue[k] \in TupleSet /\ queue[k].recv \in Int /\ queue[k].time \in Int
                 /\ queue[k].id = Gone + k /\ queue[k].recv <= stamp
           /\ \A w \in Windows : /\ times[w] \in [1..MaxTuples -> Nat] /\ notifiedTime[w] \in Int
                                 /\ lastRecvTime[w] \in Nat /\ lastRecvTime[w] <= stamp
                                 /\ reading[w] \in Readings
<1>1. queue \in Seq(TupleSet) /\ InOrder /\ CountersOK /\ WindowsOK
  BY DEF Base, QueueOK
<1>2. Len(queue) \in Nat /\ \A k \in 1..Len(queue) : queue[k] \in TupleSet
  BY <1>1, ElementOfSeq, LenProperties
<1>3. arrived \in Nat /\ stamp \in Nat /\ arrived <= MaxTuples /\ MaxTuples \in Nat
  BY <1>1, Constants DEF CountersOK
<1>4. Gone \in Nat /\ arrived = Gone + Len(queue)
  BY <1>1, <1>2, <1>3 DEF InOrder, Gone
<1>5. \A k \in 1..Len(queue) : queue[k].recv \in Int /\ queue[k].time \in Int
  BY <1>2 DEF TupleSet, Times
<1>6. \A k \in 1..Len(queue) : queue[k].id = Gone + k /\ queue[k].recv <= stamp
  BY <1>1 DEF InOrder
<1>7. \A w \in Windows : /\ times[w] \in [1..MaxTuples -> Nat] /\ notifiedTime[w] \in Int
                         /\ lastRecvTime[w] \in Nat /\ lastRecvTime[w] <= stamp
                         /\ reading[w] \in Readings
  BY <1>1 DEF WindowsOK, Times
<1> QED BY <1>2, <1>3, <1>4, <1>5, <1>6, <1>7

(* A queue is the same but for what was appended with a new stamp.         *)
Grown ==
    /\ QueueOK' /\ CountersOK' /\ InOrder'
    /\ Gone' = Gone /\ Len(queue) <= Len(queue') /\ arrived <= arrived' /\ stamp <= stamp'
    /\ \A k \in 1..Len(queue) : queue'[k] = queue[k]
    /\ \A k \in 1..Len(queue') : k > Len(queue) => queue'[k].recv > stamp

LEMMA GrownFacts ==
    ASSUME Base, Grown
    PROVE  /\ Len(queue') \in Nat /\ arrived' \in Nat /\ arrived' = Gone + Len(queue')
           /\ arrived' <= MaxTuples /\ stamp' \in Nat
           /\ \A k \in 1..Len(queue') :
                 /\ queue'[k] \in TupleSet /\ queue'[k].recv \in Int /\ queue'[k].time \in Int
                 /\ queue'[k].id = Gone + k /\ queue'[k].recv <= stamp'
<1>1. queue' \in Seq(TupleSet)
  BY DEF Grown, QueueOK
<1>2. Len(queue') \in Nat /\ \A k \in 1..Len(queue') : queue'[k] \in TupleSet
  BY <1>1, ElementOfSeq, LenProperties
<1>3. arrived' \in Nat /\ arrived' <= MaxTuples /\ stamp' \in Nat
  BY Constants DEF Grown, CountersOK
<1>4. Gone' = Gone /\ Gone' = arrived' - Len(queue')
  BY DEF Grown, Gone
<1>5. \A k \in 1..Len(queue') : queue'[k].id = Gone' + k /\ queue'[k].recv <= stamp'
  BY DEF Grown, InOrder
<1>6. \A k \in 1..Len(queue') : queue'[k].recv \in Int /\ queue'[k].time \in Int
  BY <1>2 DEF TupleSet, Times
<1> QED BY <1>2, <1>3, <1>4, <1>5, <1>6

(* The places handed to a window are of the queue.                         *)
LEMMA HandedPlaces ==
    ASSUME NEW w \in Windows, NEW s, NEW ref, NEW n
    PROVE  HandedTo(w, s, ref, n) \subseteq 1..Len(s)
<1>1. \A m, last, range, notified : /\ RowsSince(s, m, last) \subseteq 1..Len(s)
                                    /\ InRange(s, range, notified, ref) \subseteq 1..Len(s)
                                    /\ Newest(m, s) \subseteq 1..Len(s)
  BY DEF RowsSince, InRange, Newest
<1> QED BY <1>1, Constants DEF HandedTo

LEMMA HandedKinds ==
    ASSUME NEW w \in Windows, NEW s, NEW ref, NEW n
    PROVE  /\ Win[w].kind = "rows" => HandedTo(w, s, ref, n) = RowsSince(s, Win[w].size, lastRecvTime[w])
           /\ Win[w].kind = "range" => HandedTo(w, s, ref, n) = InRange(s, Win[w].size, notifiedTime[w], ref)
           /\ Win[w].kind = "all" => HandedTo(w, s, ref, n) = Newest(n, s)
  BY DEF HandedTo

LEMMA CountedFacts ==
    ASSUME Base, Grown, NEW w \in Windows, NEW places \in SUBSET (1..Len(queue')),
           times'[w] = Counted(w, Ids(queue', places))
    PROVE  /\ times'[w] \in [1..MaxTuples -> Nat]
           /\ \A i \in 1..MaxTuples :
                 times'[w][i] = IF i - Gone \in places THEN times[w][i] + 1 ELSE times[w][i]
<1>1. \A i \in 1..MaxTuples : i \in Ids(queue', places) <=> i - Gone \in places
  <2>1. \A k \in places : queue'[k].id = Gone + k /\ k \in Int
    BY GrownFacts
  <2>2. Gone \in Nat /\ MaxTuples \in Nat
    BY QueueFacts
  <2>3. \A i \in 1..MaxTuples : i \in Ids(queue', places) => i - Gone \in places
    BY <2>1, <2>2 DEF Ids
  <2>4. ASSUME NEW i \in 1..MaxTuples, i - Gone \in places PROVE i \in Ids(queue', places)
    <3>1. queue'[i - Gone].id = Gone + (i - Gone)
      BY <2>1, <2>4
    <3>2. queue'[i - Gone].id = i
      BY <2>2, <3>1
    <3> QED BY <2>4, <3>2 DEF Ids
  <2> QED BY <2>3, <2>4
<1>2. times[w] \in [1..MaxTuples -> Nat]
  BY QueueFacts
<1>3. times'[w] = [i \in 1..MaxTuples |-> times[w][i] + IF i \in Ids(queue', places) THEN 1 ELSE 0]
  BY DEF Counted
<1>4. ASSUME NEW i \in 1..MaxTuples
      PROVE  /\ times'[w][i] = IF i - Gone \in places THEN times[w][i] + 1 ELSE times[w][i]
             /\ times'[w][i] \in Nat
  <2>1. times[w][i] \in Nat
    BY <1>2
  <2>2. times'[w][i] = times[w][i] + IF i \in Ids(queue', places) THEN 1 ELSE 0
    BY <1>3
  <2> QED BY <1>1, <2>1, <2>2
<1>5. times'[w] = [i \in 1..MaxTuples |-> times'[w][i]]
  BY <1>3
<1> QED BY <1>4, <1>5

-----------------------------------------------------------------------------
(* What a window is handed was not handed to it before.                    *)
LEMMA HandRange ==
    ASSUME Base, Grown, NEW w \in Windows, OnceRange(w),
           Win[w].kind = "range", ~Win[w].dup, NEW ref \in Int,
           NEW places, places = InRange(queue', Win[w].size, notifiedTime[w], ref),
           times'[w] = Counted(w, Ids(queue', places)),
           notifiedTime'[w] = NotifiedAfter(w, queue', places)
    PROVE  OnceRange(w)'
<1>1. PICK l \in 0..arrived :
          /\ \A k \in 1..MaxTuples : k > l => times[w][k] = 0
          /\ l > Gone => queue[l - Gone].time = notifiedTime[w]
  BY DEF OnceRange
<1>2. /\ places \subseteq 1..Len(queue')
      /\ \A k \in places : /\ queue'[k].time <= ref
                           /\ \A j \in k..Len(queue') :
                                 queue'[j].time <= ref => queue'[j].time > notifiedTime[w]
  BY DEF InRange
<1>3. /\ Gone \in Nat /\ Len(queue) \in Nat /\ Len(queue') \in Nat /\ MaxTuples \in Nat
      /\ arrived = Gone + Len(queue) /\ arrived' = Gone + Len(queue') /\ arrived' <= MaxTuples
      /\ Len(queue) <= Len(queue') /\ notifiedTime[w] \in Int
      /\ \A k \in 1..Len(queue') : queue'[k].time \in Int
      /\ \A k \in 1..Len(queue) : queue'[k] = queue[k]
      /\ Gone' = Gone
  BY QueueFacts, GrownFacts DEF Grown
<1>4. ASSUME NEW k \in places PROVE Gone + k > l
  <2> SUFFICES ASSUME Gone + k <= l PROVE FALSE
    BY <1>1, <1>2, <1>3
  <2>1. k \in 1..Len(queue') /\ k \in Int
    BY <1>2
  <2>2. l - Gone \in 1..Len(queue) /\ l > Gone /\ l - Gone \in k..Len(queue')
    BY <1>1, <1>3, <2>1
  <2>3. queue'[l - Gone].time = notifiedTime[w]
    BY <1>1, <1>3, <2>2
  <2>4. queue'[k].time > notifiedTime[w] /\ queue'[k].time <= ref
    BY <1>2, <2>1
  <2>5. ~(queue'[l - Gone].time <= ref)
    BY <1>2, <1>3, <2>2, <2>3
  <2> QED BY <1>3, <2>1, <2>3, <2>4, <2>5
<1>5. /\ \A i \in 1..MaxTuples :
            times'[w][i] = IF i - Gone \in places THEN times[w][i] + 1 ELSE times[w][i]
      /\ times[w] \in [1..MaxTuples -> Nat]
  <2>1. places \in SUBSET (1..Len(queue'))
    BY <1>2
  <2>2. times[w] \in [1..MaxTuples -> Nat]
    BY QueueFacts
  <2>3. times'[w] = Counted(w, Ids(queue', places))
    OBVIOUS
  <2> HIDE DEF Counted, Ids
  <2>4. \A i \in 1..MaxTuples :
            times'[w][i] = IF i - Gone \in places THEN times[w][i] + 1 ELSE times[w][i]
    BY <2>1, <2>3, CountedFacts, Zenon
  <2> QED BY <2>2, <2>4
<1>6. ASSUME NEW i \in 1..MaxTuples PROVE times'[w][i] <= 1
  <2>1. i - Gone \in places => i > l
    <3>1. i - Gone \in places => Gone + (i - Gone) > l
      BY <1>4
    <3> QED BY <1>3, <3>1
  <2>2. times[w][i] <= 1 /\ times[w][i] \in Nat
    BY <1>5 DEF OnceRange
  <2> QED BY <1>1, <1>5, <2>1, <2>2
<1>7. CASE places = {}
  <2>1. notifiedTime'[w] = notifiedTime[w] /\ \A i \in 1..MaxTuples : times'[w][i] = times[w][i]
    BY <1>5, <1>7 DEF NotifiedAfter
  <2>2. l > Gone => queue'[l - Gone].time = notifiedTime'[w]
    BY <1>1, <1>3, <2>1
  <2>3. l \in 0..arrived'
    BY <1>1, <1>3
  <2> QED BY <1>1, <1>3, <1>6, <2>1, <2>2, <2>3 DEF OnceRange
<1>8. CASE places # {}
  <2> DEFINE top == Max(places)
  <2>1. top \in places /\ \A k \in places : top >= k
    BY <1>2, <1>3, <1>8, PlacesMax
  <2>2. notifiedTime'[w] = queue'[top].time
    BY <1>8 DEF NotifiedAfter
  <2> HIDE DEF top
  <2>3. top \in 1..Len(queue') /\ Gone + top > l
    BY <1>2, <1>4, <2>1
  <2>4. PICK m : m = Gone + top
    OBVIOUS
  <2>5. m \in 0..arrived' /\ m > l /\ m - Gone = top /\ m \in Int
    BY <1>3, <2>3, <2>4
  <2>6. ASSUME NEW i \in 1..MaxTuples, i > m PROVE times'[w][i] = 0
    <3>1. i - Gone \notin places
      BY <1>3, <2>1, <2>3, <2>4, <2>6
    <3>2. i > l
      BY <1>1, <2>5, <2>6
    <3> QED BY <1>1, <1>5, <3>1, <3>2
  <2>7. m > Gone => queue'[m - Gone].time = notifiedTime'[w]
    BY <2>2, <2>5
  <2> QED BY <1>3, <1>6, <2>5, <2>6, <2>7 DEF OnceRange
<1> QED BY <1>7, <1>8

LEMMA HandRows ==
    ASSUME Base, Grown, NEW w \in Windows, OnceRows(w),
           \A k \in 1..MaxTuples : k > arrived => times[w][k] = 0,
           NEW places, places = RowsSince(queue', Win[w].size, lastRecvTime[w]),
           times'[w] = Counted(w, Ids(queue', places)), lastRecvTime'[w] = stamp'
    PROVE  OnceRows(w)'
<1>1. places \subseteq 1..Len(queue') /\ \A k \in places : queue'[k].recv > lastRecvTime[w]
  BY DEF RowsSince, Newest
<1>2. /\ \A i \in 1..MaxTuples :
            times'[w][i] = IF i - Gone \in places THEN times[w][i] + 1 ELSE times[w][i]
      /\ times[w] \in [1..MaxTuples -> Nat]
  BY <1>1, CountedFacts, QueueFacts
<1>3. /\ Gone \in Nat /\ Len(queue) \in Nat /\ Len(queue') \in Nat /\ MaxTuples \in Nat
      /\ arrived = Gone + Len(queue) /\ arrived' = Gone + Len(queue')
      /\ \A k \in 1..Len(queue) : queue'[k] = queue[k]
      /\ \A k \in 1..Len(queue') : queue'[k].recv <= stamp' /\ queue'[k].recv \in Int
      /\ stamp' \in Nat
  BY QueueFacts, GrownFacts DEF Grown
<1>4. ASSUME NEW i \in 1..MaxTuples PROVE times'[w][i] <= 1
  <2>1. ASSUME i - Gone \in places PROVE times[w][i] = 0
    <3>1. CASE i - Gone \in 1..Len(queue)
      <4>1. queue[i - Gone].recv > lastRecvTime[w]
        BY <1>1, <1>3, <2>1, <3>1
      <4>2. times[w][Gone + (i - Gone)] = 0
        BY <3>1, <4>1 DEF OnceRows
      <4> QED BY <1>3, <4>2
    <3>2. CASE i - Gone \notin 1..Len(queue)
      <4>1. i > arrived
        BY <1>1, <1>3, <2>1, <3>2
      <4> QED BY <4>1
    <3> QED BY <3>1, <3>2
  <2>2. times[w][i] <= 1 /\ times[w][i] \in Nat
    BY <1>2 DEF OnceRows
  <2> QED BY <1>2, <2>1, <2>2
<1>5. \A k \in 1..Len(queue') : ~(queue'[k].recv > lastRecvTime'[w])
  BY <1>3
<1> QED BY <1>4, <1>5 DEF OnceRows

LEMMA HandAll ==
    ASSUME Base, Grown, NEW w \in Windows, OnceAll(w),
           \A k \in 1..MaxTuples : k > arrived => times[w][k] = 0,
           NEW places, places = Newest(Len(queue') - Len(queue), queue'),
           times'[w] = Counted(w, Ids(queue', places))
    PROVE  OnceAll(w)'
<1>1. /\ Gone \in Nat /\ Len(queue) \in Nat /\ Len(queue') \in Nat /\ MaxTuples \in Nat
      /\ arrived = Gone + Len(queue)
  BY QueueFacts, GrownFacts
<1>2. places \subseteq 1..Len(queue') /\ \A k \in places : k > Len(queue)
  BY <1>1 DEF Newest
<1>3. /\ \A i \in 1..MaxTuples :
            times'[w][i] = IF i - Gone \in places THEN times[w][i] + 1 ELSE times[w][i]
      /\ times[w] \in [1..MaxTuples -> Nat]
  BY <1>2, CountedFacts, QueueFacts
<1>4. ASSUME NEW i \in 1..MaxTuples PROVE times'[w][i] <= 1
  <2>1. i - Gone \in places => i > arrived
    BY <1>1, <1>2
  <2>2. times[w][i] <= 1 /\ times[w][i] \in Nat
    BY <1>3 DEF OnceAll
  <2> QED BY <1>3, <2>1, <2>2
<1> QED BY <1>4 DEF OnceAll

(* Nothing that has not arrived is counted.                                *)
LEMMA HandFresh ==
    ASSUME Base, Grown, NEW w \in Windows, \A k \in 1..MaxTuples : k > arrived => times[w][k] = 0,
           NEW places \in SUBSET (1..Len(queue')), times'[w] = Counted(w, Ids(queue', places))
    PROVE  (\A k \in 1..MaxTuples : k > arrived => times[w][k] = 0)'
<1>1. /\ Gone \in Nat /\ Len(queue') \in Nat /\ MaxTuples \in Nat /\ arrived \in Nat /\ arrived' \in Nat
      /\ arrived' = Gone + Len(queue') /\ arrived <= arrived'
  BY QueueFacts, GrownFacts DEF Grown
<1>2. /\ \A i \in 1..MaxTuples :
            times'[w][i] = IF i - Gone \in places THEN times[w][i] + 1 ELSE times[w][i]
  BY CountedFacts
<1>3. ASSUME NEW i \in 1..MaxTuples, i > arrived' PROVE times'[w][i] = 0
  <2>1. i - Gone \notin places /\ i > arrived
    BY <1>1, <1>3
  <2> QED BY <1>2, <2>1
<1> QED BY <1>3

-----------------------------------------------------------------------------
(* addTuple.                                                               *)
LEMMA BatchFacts ==
    ASSUME NEW batch \in Batches
    PROVE  /\ Len(batch) \in Nat /\ Len(batch) >= 1 /\ Len(batch) <= MaxBatch
           /\ \A k \in 1..Len(batch) : batch[k] \in RecentTimes
<1>1. PICK n \in 1..MaxBatch : batch \in [1..n -> RecentTimes]
  BY DEF Batches
<1>2. n \in Nat /\ n >= 1 /\ n <= MaxBatch
  BY Constants
<1>3. batch \in Seq(RecentTimes) /\ Len(batch) = n
  BY <1>1, <1>2
<1> QED BY <1>1, <1>2, <1>3

LEMMA RecentFacts == ASSUME Base PROVE RecentTimes \subseteq Times /\ \A t \in Times : t \in Int
  BY Constants DEF Base, CountersOK, RecentTimes, Times

LEMMA AddTupleGrown ==
    ASSUME Base, NEW batch \in Batches, AddTuple(batch)
    PROVE  /\ Grown /\ Len(queue') = Len(queue) + Len(batch) /\ arrived' = arrived + Len(batch)
           /\ stamp' = stamp + 1 /\ batch[1] \in Int
<1> DEFINE n == Len(batch)
           new == [k \in 1..n |-> [id |-> arrived + k, time |-> batch[k], recv |-> stamp']]
<1>1. /\ arrived + n <= MaxTuples /\ stamp' = stamp + 1 /\ arrived' = arrived + n
      /\ queue' = queue \o new /\ clock' = clock /\ triggers' = triggers
  BY DEF AddTuple
<1>2. n \in Nat /\ n >= 1 /\ \A k \in 1..n : batch[k] \in Times
  BY BatchFacts, RecentFacts
<1>3. /\ Len(queue) \in Nat /\ Gone \in Nat /\ arrived \in Nat /\ arrived = Gone + Len(queue)
      /\ stamp \in Nat /\ MaxTuples \in Nat
      /\ \A k \in 1..Len(queue) : queue[k].id = Gone + k /\ queue[k].recv <= stamp /\ queue[k].recv \in Int
  BY QueueFacts
<1>4. /\ clock \in 0..MaxTime /\ triggers \in 0..MaxTriggers /\ stamp <= arrived + triggers
      /\ MaxTriggers \in Nat /\ InOrder /\ queue \in Seq(TupleSet)
  BY Constants DEF Base, CountersOK, QueueOK
<1> HIDE DEF n
<1>5. new \in Seq(TupleSet) /\ Len(new) = n
  <2>1. ASSUME NEW k \in 1..n
        PROVE  [id |-> arrived + k, time |-> batch[k], recv |-> stamp'] \in TupleSet
    <3>1. arrived + k \in 1..MaxTuples /\ stamp' \in 1..MaxTuples + MaxTriggers
      BY <1>1, <1>2, <1>3, <1>4
    <3> QED BY <1>2, <3>1 DEF TupleSet
  <2>2. new \in [1..n -> TupleSet]
    BY <2>1
  <2> QED BY <1>2, <2>2
<1>6. \A k \in 1..n : new[k].id = arrived + k /\ new[k].recv = stamp'
  OBVIOUS
<1> HIDE DEF new
<1>7. /\ queue' \in Seq(TupleSet) /\ Len(queue') = Len(queue) + n
      /\ \A k \in 1..Len(queue) + n :
            queue'[k] = IF k <= Len(queue) THEN queue[k] ELSE new[k - Len(queue)]
  BY <1>1, <1>4, <1>5, ConcatProperties
<1>8. Gone' = Gone
  BY <1>1, <1>2, <1>3, <1>7 DEF Gone
<1>9. ASSUME NEW k \in 1..Len(queue')
      PROVE  /\ queue'[k].id = Gone + k /\ queue'[k].recv <= stamp' /\ queue'[k].recv \in Int
             /\ k <= Len(queue) => queue'[k] = queue[k]
             /\ k > Len(queue) => queue'[k].recv = stamp'
  <2>1. CASE k <= Len(queue)
    BY <1>1, <1>2, <1>3, <1>7, <2>1
  <2>2. CASE k > Len(queue)
    <3>1. k - Len(queue) \in 1..n
      BY <1>2, <1>3, <1>7, <2>2
    <3>2. queue'[k] = new[k - Len(queue)]
      BY <1>2, <1>3, <1>7, <2>2
    <3>3. queue'[k].id = arrived + (k - Len(queue)) /\ queue'[k].recv = stamp'
      BY <1>6, <3>1, <3>2
    <3> QED BY <1>1, <1>3, <2>2, <3>3
  <2> QED BY <1>3, <1>7, <2>1, <2>2
<1>10. InOrder'
  <2>1. ASSUME NEW j \in 1..Len(queue'), NEW k \in 1..Len(queue'), j <= k
        PROVE  queue'[j].recv <= queue'[k].recv
    <3>1. CASE k > Len(queue)
      BY <1>9, <2>1, <3>1
    <3>2. CASE k <= Len(queue)
      <4>1. j \in 1..Len(queue) /\ k \in 1..Len(queue)
        BY <1>3, <1>7, <2>1, <3>2
      <4> QED BY <1>4, <1>9, <2>1, <4>1 DEF InOrder
    <3> QED BY <1>3, <3>1, <3>2
  <2>2. Gone' >= 0
    BY <1>3, <1>8
  <2> QED BY <1>8, <1>9, <2>1, <2>2 DEF InOrder
<1>11. CountersOK' /\ QueueOK'
  <2>1. arrived + n \in 0..MaxTuples /\ stamp + 1 \in Nat /\ stamp + 1 <= (arrived + n) + triggers
    BY <1>1, <1>2, <1>3, <1>4
  <2> QED BY <1>1, <1>4, <1>7, <2>1 DEF CountersOK, QueueOK
<1>12. Grown
  <2>1. \A k \in 1..Len(queue') : k > Len(queue) => queue'[k].recv > stamp
    BY <1>1, <1>3, <1>9
  <2>2. \A k \in 1..Len(queue) : queue'[k] = queue[k]
    BY <1>2, <1>3, <1>7
  <2>3. Len(queue) <= Len(queue') /\ arrived <= arrived' /\ stamp <= stamp'
    BY <1>1, <1>2, <1>3, <1>7
  <2> QED BY <1>8, <1>10, <1>11, <2>1, <2>2, <2>3 DEF Grown
<1>13. batch[1] \in Int
  BY <1>2, RecentFacts
<1> QED BY <1>1, <1>7, <1>12, <1>13 DEF n

LEMMA AddTupleWindow ==
    ASSUME NEW batch, AddTuple(batch), NEW w \in Windows
    PROVE  /\ Win[w].own /\ state[w] # "gone" =>
                 /\ lastRecvTime'[w] = IF Win[w].kind = "rows" THEN stamp' ELSE lastRecvTime[w]
                 /\ notifiedTime'[w] = NotifiedAfter(w, queue', HandedTo(w, queue', batch[1], Len(batch)))
                 /\ times'[w] = Counted(w, Ids(queue', HandedTo(w, queue', batch[1], Len(batch))))
           /\ ~(Win[w].own /\ state[w] # "gone") =>
                 /\ lastRecvTime'[w] = lastRecvTime[w] /\ notifiedTime'[w] = notifiedTime[w]
                 /\ times'[w] = times[w]
           /\ due'[w] = IF ~Win[w].own /\ Win[w].kind = "rows" /\ state[w] = "referring"
                        THEN {k \in due[w] \cup arrived + 1..arrived' : k > arrived' - Win[w].size}
                        ELSE due[w]
<1> DEFINE own == {v \in Windows : Win[v].own /\ state[v] # "gone"}
           handed == [v \in own |-> HandedTo(v, queue', batch[1], Len(batch))]
<1>1. /\ lastRecvTime' = [v \in Windows |-> IF v \in own /\ Win[v].kind = "rows"
                                            THEN stamp' ELSE lastRecvTime[v]]
      /\ notifiedTime' = [v \in Windows |-> IF v \in own THEN NotifiedAfter(v, queue', handed[v])
                                            ELSE notifiedTime[v]]
      /\ times' = [v \in Windows |-> IF v \in own THEN Counted(v, Ids(queue', handed[v])) ELSE times[v]]
      /\ due' = [v \in Windows |->
                   IF ~Win[v].own /\ Win[v].kind = "rows" /\ state[v] = "referring"
                   THEN {k \in due[v] \cup arrived + 1..arrived' : k > arrived' - Win[v].size}
                   ELSE due[v]]
  BY DEF AddTuple
<1>2. w \in own <=> Win[w].own /\ state[w] # "gone"
  OBVIOUS
<1>3. w \in own => handed[w] = HandedTo(w, queue', batch[1], Len(batch))
  OBVIOUS
<1> HIDE DEF own, handed
<1> QED BY <1>1, <1>2, <1>3

-----------------------------------------------------------------------------
(* Steps that leave a window alone.                                        *)
LEMMA KeptHanded ==
    ASSUME Base, Grown, NEW w \in Windows, Handed(w), times'[w] = times[w],
           lastRecvTime'[w] = lastRecvTime[w], notifiedTime'[w] = notifiedTime[w],
           reading'[w] = reading[w]
    PROVE  Handed(w)'
<1>1. /\ Gone \in Nat /\ Len(queue) \in Nat /\ Len(queue') \in Nat /\ MaxTuples \in Nat
      /\ arrived = Gone + Len(queue) /\ arrived' = Gone + Len(queue') /\ arrived' <= MaxTuples
      /\ \A k \in 1..Len(queue) : queue'[k] = queue[k]
      /\ Gone' = Gone /\ Len(queue) <= Len(queue')
  BY QueueFacts, GrownFacts DEF Grown
<1>2. \A k \in 1..MaxTuples : k > arrived => times[w][k] = 0
  BY DEF Handed
<1>3. (\A k \in 1..MaxTuples : k > arrived => times[w][k] = 0)'
  BY <1>1, <1>2
<1>4. \A k \in 1..Len(queue') : k \in 1..Len(queue) \/ times[w][Gone + k] = 0
  <2>1. ASSUME NEW k \in 1..Len(queue'), k \notin 1..Len(queue) PROVE times[w][Gone + k] = 0
    <3>1. Gone + k \in 1..MaxTuples /\ Gone + k > arrived
      BY <1>1, <2>1
    <3> QED BY <1>2, <3>1
  <2> QED BY <2>1
<1>5. OnceRange(w) => OnceRange(w)'
  <2>1. ASSUME NEW l \in 0..arrived, l > Gone PROVE queue'[l - Gone] = queue[l - Gone]
    BY <1>1, <2>1
  <2>2. 0..arrived \subseteq 0..arrived'
    BY <1>1
  <2>3. ASSUME OnceRange(w) PROVE OnceRange(w)'
    <3>1. PICK l \in 0..arrived :
              /\ \A k \in 1..MaxTuples : k > l => times[w][k] = 0
              /\ l > Gone => queue[l - Gone].time = notifiedTime[w]
      BY <2>3 DEF OnceRange
    <3>2. l > Gone => queue'[l - Gone].time = notifiedTime[w]
      BY <2>1, <3>1
    <3> QED BY <1>1, <2>2, <2>3, <3>1, <3>2 DEF OnceRange
  <2> QED BY <2>3
<1>6. OnceRows(w) => OnceRows(w)'
  BY <1>1, <1>4 DEF OnceRows
<1>7. TwiceRows(w) => TwiceRows(w)'
  BY <1>1, <1>4 DEF TwiceRows
<1>8. OnceAll(w) => OnceAll(w)'
  BY DEF OnceAll
<1> HIDE DEF OnceAll, OnceRows, OnceRange, TwiceRows
<1> QED BY <1>3, <1>5, <1>6, <1>7, <1>8 DEF Handed

LEMMA SameWindow ==
    ASSUME Base, NEW w \in Windows, DueIn(w), Handed(w), queue' = queue, arrived' = arrived,
           times'[w] = times[w], lastRecvTime'[w] = lastRecvTime[w],
           notifiedTime'[w] = notifiedTime[w], reading'[w] = reading[w],
           due'[w] = due[w], due[w] = {} \/ state'[w] = state[w]
    PROVE  DueIn(w)' /\ Handed(w)'
<1>1. Gone' = Gone
  BY DEF Gone
<1>2. DueIn(w)'
  BY <1>1 DEF DueIn
<1>3. /\ OnceRange(w) => OnceRange(w)'
      /\ OnceRows(w) => OnceRows(w)'
      /\ TwiceRows(w) => TwiceRows(w)'
      /\ OnceAll(w) => OnceAll(w)'
  BY <1>1 DEF OnceRange, OnceRows, TwiceRows, OnceAll
<1>4. (\A k \in 1..MaxTuples : k > arrived => times[w][k] = 0)'
  BY DEF Handed
<1> HIDE DEF OnceAll, OnceRows, OnceRange, TwiceRows
<1> QED BY <1>2, <1>3, <1>4 DEF Handed

LEMMA AddTuplePerWindow ==
    ASSUME IInv, NEW batch \in Batches, AddTuple(batch), NEW w \in Windows
    PROVE  DueIn(w)' /\ Handed(w)'
<1> DEFINE n == Len(batch)
           handed == HandedTo(w, queue', batch[1], n)
<1>1. Base /\ DueIn(w) /\ Handed(w)
  BY DEF IInv, PerWindow
<1>2. /\ Grown /\ Len(queue') = Len(queue) + n /\ arrived' = arrived + n
      /\ stamp' = stamp + 1 /\ batch[1] \in Int /\ n \in Nat
  BY <1>1, AddTupleGrown, BatchFacts
<1>3. reading' = reading /\ state' = state
  BY DEF AddTuple
<1>4. /\ Gone \in Nat /\ Len(queue) \in Nat /\ Len(queue') \in Nat /\ MaxTuples \in Nat
      /\ arrived = Gone + Len(queue) /\ arrived' = Gone + Len(queue')
      /\ \A k \in 1..Len(queue) : queue'[k] = queue[k]
      /\ \A k \in 1..Len(queue') : k > Len(queue) => queue'[k].recv > stamp
      /\ \A k \in 1..Len(queue') : queue'[k].recv \in Int
      /\ Gone' = Gone /\ lastRecvTime[w] <= stamp /\ lastRecvTime[w] \in Nat /\ stamp \in Nat
      /\ Win[w].size \in Nat
  BY <1>1, <1>2, QueueFacts, GrownFacts, Constants DEF Grown
<1>5. DueIn(w)'
  <2>1. CASE ~Win[w].own /\ Win[w].kind = "rows" /\ state[w] = "referring"
    <3>1. due'[w] = {k \in due[w] \cup arrived + 1..arrived' : k > arrived' - Win[w].size}
      BY <2>1, AddTupleWindow
    <3>2. lastRecvTime'[w] = lastRecvTime[w]
      BY <2>1, AddTupleWindow
    <3>3. ASSUME NEW k \in due[w], k > arrived' - Win[w].size
          PROVE  k > Gone /\ queue'[k - Gone].recv > lastRecvTime[w]
      <4>1. k > Gone /\ queue[k - Gone].recv > lastRecvTime[w] /\ k \in 1..arrived
        BY <1>1 DEF DueIn, Base, WindowsOK
      <4>2. k - Gone \in 1..Len(queue)
        BY <1>4, <4>1
      <4> QED BY <1>4, <4>1, <4>2
    <3>4. ASSUME NEW k \in arrived + 1..arrived'
          PROVE  k > Gone /\ queue'[k - Gone].recv > lastRecvTime[w]
      <4>1. k - Gone \in 1..Len(queue') /\ k - Gone > Len(queue) /\ k > Gone
        BY <1>4
      <4> QED BY <1>4, <4>1
    <3> QED BY <1>3, <1>4, <2>1, <3>1, <3>2, <3>3, <3>4 DEF DueIn
  <2>2. CASE ~(~Win[w].own /\ Win[w].kind = "rows" /\ state[w] = "referring")
    <3>1. due'[w] = due[w]
      BY <2>2, AddTupleWindow
    <3>2. due[w] = {}
      BY <1>1, <2>2 DEF DueIn
    <3> QED BY <3>1, <3>2 DEF DueIn
  <2> QED BY <2>1, <2>2
<1>6. CASE ~(Win[w].own /\ state[w] # "gone")
  <2>1. lastRecvTime'[w] = lastRecvTime[w] /\ notifiedTime'[w] = notifiedTime[w] /\ times'[w] = times[w]
    BY <1>6, AddTupleWindow
  <2>2. Handed(w)'
    BY <1>1, <1>2, <1>3, <2>1, KeptHanded
  <2> QED BY <1>5, <2>2
<1>7. CASE Win[w].own /\ state[w] # "gone"
  <2>1. /\ lastRecvTime'[w] = IF Win[w].kind = "rows" THEN stamp' ELSE lastRecvTime[w]
        /\ notifiedTime'[w] = NotifiedAfter(w, queue', handed)
        /\ times'[w] = Counted(w, Ids(queue', handed))
    BY <1>7, AddTupleWindow
  <2>2. handed \in SUBSET (1..Len(queue'))
    BY HandedPlaces
  <2>3. /\ Win[w].kind = "rows" => handed = RowsSince(queue', Win[w].size, lastRecvTime[w])
        /\ Win[w].kind = "range" => handed = InRange(queue', Win[w].size, notifiedTime[w], batch[1])
        /\ Win[w].kind = "all" => handed = Newest(n, queue')
    BY HandedKinds
  <2>4. \A k \in 1..MaxTuples : k > arrived => times[w][k] = 0
    BY <1>1 DEF Handed
  <2> HIDE DEF handed, n
  <2>5. (\A k \in 1..MaxTuples : k > arrived => times[w][k] = 0)'
    BY <1>1, <1>2, <2>1, <2>2, <2>4, HandFresh
  <2>6. ASSUME ~Win[w].dup, Win[w].kind = "range" PROVE OnceRange(w)'
    <3>1. OnceRange(w)
      BY <1>1, <2>6 DEF Handed
    <3> QED BY <1>1, <1>2, <2>1, <2>3, <2>6, <3>1, HandRange
  <2>7. ASSUME ~Win[w].dup, Win[w].kind = "rows" PROVE OnceRows(w)'
    <3>1. OnceRows(w)
      BY <1>1, <1>7, <2>7 DEF Handed
    <3>2. lastRecvTime'[w] = stamp' /\ handed = RowsSince(queue', Win[w].size, lastRecvTime[w])
      BY <2>1, <2>3, <2>7
    <3> QED BY <1>1, <1>2, <2>1, <2>4, <3>1, <3>2, HandRows
  <2>8. ASSUME ~Win[w].dup, Win[w].kind = "all" PROVE OnceAll(w)'
    <3>1. OnceAll(w)
      BY <1>1, <1>7, <2>8 DEF Handed
    <3>2. n = Len(queue') - Len(queue)
      BY <1>2, <1>4
    <3>3. handed = Newest(Len(queue') - Len(queue), queue')
      BY <2>3, <2>8, <3>2
    <3> QED BY <1>1, <1>2, <2>1, <2>4, <3>1, <3>3, HandAll
  <2>9. Handed(w)'
    BY <1>7, <2>5, <2>6, <2>7, <2>8 DEF Handed
  <2> QED BY <1>5, <2>9
<1> QED BY <1>6, <1>7

LEMMA NotifiedTime ==
    ASSUME NEW w \in Windows, NEW s \in Seq(TupleSet), NEW places \in SUBSET (1..Len(s)),
           notifiedTime[w] \in Times
    PROVE  NotifiedAfter(w, s, places) \in Times
<1>1. CASE places = {} \/ Win[w].kind # "range" \/ Win[w].dup
  BY <1>1 DEF NotifiedAfter
<1>2. CASE ~(places = {} \/ Win[w].kind # "range" \/ Win[w].dup)
  <2>1. Len(s) \in Nat /\ \A k \in 1..Len(s) : s[k] \in TupleSet
    BY ElementOfSeq, LenProperties
  <2>2. Max(places) \in places
    BY <1>2, <2>1, PlacesMax
  <2>3. s[Max(places)].time \in Times
    BY <2>1, <2>2 DEF TupleSet
  <2> QED BY <1>2, <2>3 DEF NotifiedAfter
<1> QED BY <1>1, <1>2

(* What the reservations and the limits need of a step that leaves them be *)
LEMMA SameDeletion ==
    ASSUME Base, arrived <= arrived', arrived' \in Int, Gone' = Gone, UNCHANGED deleteVars,
           UNCHANGED state
    PROVE  ListOK' /\ Searched' /\ Limited'
<1>1. ListOK /\ Searched /\ Limited /\ arrived \in Int
  BY QueueFacts DEF Base
<1>2. deleteSearchIdx' = deleteSearchIdx /\ deleteReservationList' = deleteReservationList
      /\ limits' = limits
  BY DEF deleteVars
<1>3. 1..arrived \subseteq 1..arrived'
  BY <1>1
<1>4. ListOK'
  BY <1>1, <1>2, <1>3 DEF ListOK
<1>5. Searched'
  BY <1>1, <1>2 DEF Searched
<1>6. Limited'
  BY <1>1, <1>2 DEF Limited
<1> QED BY <1>4, <1>5, <1>6

LEMMA AddTupleBase ==
    ASSUME IInv, NEW batch \in Batches, AddTuple(batch)
    PROVE  Base'
<1>1. Base
  BY DEF IInv
<1>2. /\ Grown /\ arrived' = arrived + Len(batch) /\ stamp' = stamp + 1
  BY <1>1, AddTupleGrown
<1>3. QueueOK' /\ CountersOK' /\ InOrder' /\ Gone' = Gone /\ arrived <= arrived' /\ arrived' \in Nat
      /\ stamp \in Nat /\ arrived \in Nat /\ arrived' <= MaxTuples /\ MaxTuples \in Nat
  BY <1>1, <1>2, QueueFacts, GrownFacts DEF Grown
<1>4. /\ UNCHANGED deleteVars /\ state' = state /\ reading' = reading /\ deployed' = deployed
      /\ DOMAIN lastRecvTime' = Windows
  BY DEF AddTuple
<1>5. ListOK' /\ Searched' /\ Limited'
  BY <1>1, <1>3, <1>4, SameDeletion
<1>6. /\ lastRecvTime' = [v \in Windows |-> lastRecvTime'[v]]
      /\ notifiedTime' = [v \in Windows |-> notifiedTime'[v]]
      /\ times' = [v \in Windows |-> times'[v]]
      /\ due' = [v \in Windows |-> due'[v]]
  BY DEF AddTuple
<1>7. WindowsOK
  BY <1>1 DEF Base
<1>8. ASSUME NEW w \in Windows
      PROVE  /\ lastRecvTime'[w] \in Nat /\ lastRecvTime'[w] <= stamp' /\ notifiedTime'[w] \in Times
             /\ times'[w] \in [1..MaxTuples -> Nat]
             /\ due'[w] \subseteq 1..arrived' /\ reading'[w].recv <= stamp'
  <2> DEFINE handed == HandedTo(w, queue', batch[1], Len(batch))
  <2>1. /\ lastRecvTime[w] \in Nat /\ lastRecvTime[w] <= stamp /\ notifiedTime[w] \in Times
        /\ times[w] \in [1..MaxTuples -> Nat] /\ due[w] \subseteq 1..arrived
        /\ reading[w].recv <= stamp /\ reading[w].recv \in Nat
    BY <1>7, Constants DEF WindowsOK, Readings
  <2>2. due'[w] \subseteq 1..arrived'
    <3>1. due[w] \subseteq 1..arrived' /\ arrived + 1..arrived' \subseteq 1..arrived'
      BY <1>3, <2>1
    <3> QED BY <3>1, AddTupleWindow
  <2>3. handed \in SUBSET (1..Len(queue'))
    BY HandedPlaces
  <2>4. NotifiedAfter(w, queue', handed) \in Times
    BY <1>3, <2>1, <2>3, NotifiedTime DEF QueueOK
  <2>5. lastRecvTime'[w] \in {stamp', lastRecvTime[w]}
    BY AddTupleWindow
  <2>6. notifiedTime'[w] \in Times
    BY <2>1, <2>4, AddTupleWindow
  <2>7. times'[w] \in [1..MaxTuples -> Nat]
    <3>1. CASE Win[w].own /\ state[w] # "gone"
      <4>1. times'[w] = Counted(w, Ids(queue', handed))
        BY <3>1, AddTupleWindow
      <4> HIDE DEF handed
      <4> QED BY <1>1, <1>2, <2>3, <4>1, CountedFacts
    <3>2. CASE ~(Win[w].own /\ state[w] # "gone")
      BY <2>1, <3>2, AddTupleWindow
    <3> QED BY <3>1, <3>2
  <2> HIDE DEF handed
  <2> QED BY <1>2, <1>3, <1>4, <2>1, <2>2, <2>5, <2>6, <2>7
<1>9. WindowsOK'
  <2>1. 1..arrived' \subseteq 1..MaxTuples
    BY <1>3
  <2> QED BY <1>4, <1>6, <1>7, <1>8, <2>1 DEF WindowsOK
<1> QED BY <1>3, <1>5, <1>9 DEF Base

-----------------------------------------------------------------------------
(* Tick, Trigger and Read.                                                 *)
LEMMA TickStep == ASSUME IInv, Tick PROVE IInv'
<1>1. /\ Base /\ PerWindow /\ clock' \in 0..MaxTime
  BY Constants DEF IInv, Tick, Base, CountersOK
<1>2. UNCHANGED <<queue, deleteVars, stamp, triggers, arrived, windowVars>>
  BY DEF Tick
<1>3. Base'
  BY <1>1, <1>2 DEF Base, QueueOK, ListOK, CountersOK, WindowsOK, InOrder, Searched, Limited, Gone,
                    deleteVars, windowVars
<1>4. PerWindow'
  BY <1>1, <1>2, SameWindow DEF PerWindow, windowVars
<1> QED BY <1>3, <1>4 DEF IInv

LEMMA SameQueue ==
    ASSUME Base, UNCHANGED <<queue, arrived, clock>>, stamp' \in Nat, triggers' \in 0..MaxTriggers,
           stamp <= stamp', stamp' <= arrived' + triggers'
    PROVE  QueueOK' /\ CountersOK' /\ InOrder' /\ Gone' = Gone
<1>1. Gone' = Gone
  BY DEF Gone
<1>2. InOrder'
  <2>1. \A k \in 1..Len(queue) : queue[k].recv <= stamp'
    BY QueueFacts
  <2> QED BY <1>1, <2>1 DEF InOrder, Base
<1> QED BY <1>1, <1>2 DEF QueueOK, CountersOK, Base

LEMMA TriggerStep ==
    ASSUME IInv, NEW u \in Windows, NEW ref \in RecentTimes, NEW n \in 1..MaxBatch, Trigger(u, ref, n)
    PROVE  IInv'
<1>1. Base /\ PerWindow /\ WindowsOK /\ CountersOK
  BY DEF IInv, Base
<1>2. /\ ~Win[u].own /\ state[u] # "gone" /\ triggers < MaxTriggers /\ triggers' = triggers + 1
      /\ stamp' = stamp + 1 /\ reading[u] = NoTrigger
      /\ reading' = [reading EXCEPT ![u] = [recv |-> stamp', ref |-> ref, num |-> n]]
      /\ UNCHANGED <<deployed, queue, deleteVars, clock, arrived, state, lastRecvTime,
                     notifiedTime, times, due>>
  BY DEF Trigger
<1>3. /\ stamp \in Nat /\ stamp <= arrived + triggers /\ arrived \in Nat /\ arrived <= MaxTuples
      /\ triggers \in Nat /\ MaxTriggers \in Nat /\ MaxTuples \in Nat
  BY <1>1, Constants DEF CountersOK
<1>4. /\ triggers + 1 \in 0..MaxTriggers /\ stamp + 1 \in 0..MaxTuples + MaxTriggers
      /\ stamp + 1 <= arrived + (triggers + 1)
  BY <1>2, <1>3
<1>5. QueueOK' /\ CountersOK' /\ InOrder' /\ Gone' = Gone
  BY <1>1, <1>2, <1>3, <1>4, SameQueue
<1>6. ListOK' /\ Searched' /\ Limited'
  BY <1>1, <1>2, <1>3, <1>5, SameDeletion
<1>7. [recv |-> stamp', ref |-> ref, num |-> n] \in Readings
  BY <1>1, <1>2, <1>4, RecentFacts, Constants DEF Readings
<1>8. WindowsOK'
  <2>1. ASSUME NEW w \in Windows PROVE reading[w].recv <= stamp + 1 /\ lastRecvTime[w] <= stamp + 1
    <3>1. reading[w].recv <= stamp /\ reading[w].recv \in Int /\ lastRecvTime[w] <= stamp
          /\ lastRecvTime[w] \in Nat
      BY <1>1, <1>3 DEF WindowsOK, Readings
    <3> QED BY <1>3, <3>1
  <2>2. ASSUME NEW w \in Windows
        PROVE  reading'[w].recv <= stamp' /\ (Win[w].own => reading'[w] = NoTrigger)
    <3>1. CASE w = u
      BY <1>1, <1>2, <1>3, <3>1 DEF WindowsOK
    <3>2. CASE w # u
      BY <1>1, <1>2, <2>1, <3>2 DEF WindowsOK
    <3> QED BY <3>1, <3>2
  <2>3. reading' \in [Windows -> Readings]
    BY <1>1, <1>2, <1>7 DEF WindowsOK
  <2> QED BY <1>1, <1>2, <2>1, <2>2, <2>3 DEF WindowsOK
<1>9. ASSUME NEW w \in Windows PROVE DueIn(w)' /\ Handed(w)'
  <2>1. DueIn(w) /\ Handed(w)
    BY <1>1 DEF PerWindow
  <2>2. CASE w # u
    <3>1. reading'[w] = reading[w]
      BY <1>1, <1>2, <2>2 DEF WindowsOK
    <3> QED BY <1>1, <1>2, <2>1, <3>1, SameWindow
  <2>3. CASE w = u
    <3>1. reading'[w].recv = stamp + 1
      BY <1>1, <1>2, <2>3 DEF WindowsOK
    <3>2. \A k \in 1..Len(queue) : ~(queue[k].recv > stamp + 1)
      BY <1>1, QueueFacts
    <3>3. DueIn(w)'
      BY <1>2, <1>5, <2>1 DEF DueIn
    <3>4. /\ OnceRange(w) => OnceRange(w)'
          /\ OnceRows(w) => OnceRows(w)'
          /\ OnceAll(w) => OnceAll(w)'
      BY <1>2, <1>5 DEF OnceRange, OnceRows, OnceAll
    <3>5. TwiceRows(w) => TwiceRows(w)'
      BY <1>2, <1>5, <3>1, <3>2 DEF TwiceRows
    <3>6. (\A k \in 1..MaxTuples : k > arrived => times[w][k] = 0)'
      BY <1>2, <2>1 DEF Handed
    <3> HIDE DEF OnceAll, OnceRows, OnceRange, TwiceRows
    <3> QED BY <2>1, <3>3, <3>4, <3>5, <3>6 DEF Handed
  <2> QED BY <2>2, <2>3
<1> QED BY <1>5, <1>6, <1>8, <1>9 DEF IInv, Base, PerWindow

LEMMA ReadStep == ASSUME IInv, NEW u \in Windows, Read(u) PROVE IInv'
<1> DEFINE handed == HandedTo(u, queue, reading[u].ref, reading[u].num)
<1>1. Base /\ PerWindow /\ WindowsOK /\ CountersOK
  BY DEF IInv, Base
<1>2. /\ reading[u] # NoTrigger
      /\ notifiedTime' = [notifiedTime EXCEPT ![u] = NotifiedAfter(u, queue, handed)]
      /\ times' = [times EXCEPT ![u] = Counted(u, Ids(queue, handed))]
      /\ lastRecvTime' = [lastRecvTime EXCEPT
                            ![u] = IF Win[u].kind = "rows" THEN reading[u].recv ELSE lastRecvTime[u]]
      /\ reading' = [reading EXCEPT ![u] = NoTrigger]
      /\ due' = [due EXCEPT ![u] = {}]
      /\ UNCHANGED <<deployed, queue, deleteVars, clock, stamp, triggers, arrived, state>>
  BY DEF Read
<1>3. handed \in SUBSET (1..Len(queue))
  BY HandedPlaces
<1>4. /\ Win[u].kind = "rows" => handed = RowsSince(queue, Win[u].size, lastRecvTime[u])
      /\ Win[u].kind = "range" => handed = InRange(queue, Win[u].size, notifiedTime[u], reading[u].ref)
  BY HandedKinds
<1> HIDE DEF handed
<1>5. /\ stamp \in Nat /\ arrived \in Nat /\ triggers \in 0..MaxTriggers /\ stamp <= arrived + triggers
      /\ Len(queue) \in Nat
  BY <1>1, QueueFacts DEF CountersOK
<1>6. QueueOK' /\ CountersOK' /\ InOrder' /\ Gone' = Gone
  BY <1>1, <1>2, <1>5, SameQueue
<1>7. ListOK' /\ Searched' /\ Limited'
  BY <1>1, <1>2, <1>5, <1>6, SameDeletion
<1>8. Grown
  BY <1>2, <1>5, <1>6 DEF Grown
<1>9. /\ times'[u] = Counted(u, Ids(queue', handed)) /\ lastRecvTime'[u] \in {reading[u].recv, lastRecvTime[u]}
      /\ Win[u].kind = "rows" => lastRecvTime'[u] = reading[u].recv
      /\ notifiedTime'[u] = NotifiedAfter(u, queue', handed) /\ reading'[u] = NoTrigger /\ due'[u] = {}
  <2>1. /\ u \in DOMAIN times /\ u \in DOMAIN lastRecvTime /\ u \in DOMAIN notifiedTime
        /\ u \in DOMAIN reading /\ u \in DOMAIN due
    BY <1>1 DEF WindowsOK
  <2>2. queue' = queue
    BY <1>2
  <2>3. times'[u] = Counted(u, Ids(queue, handed)) /\ notifiedTime'[u] = NotifiedAfter(u, queue, handed)
    BY <1>2, <2>1, Zenon
  <2> QED BY <1>2, <2>1, <2>2, <2>3
<1>10. \A w \in Windows \ {u} :
          /\ times'[w] = times[w] /\ lastRecvTime'[w] = lastRecvTime[w] /\ due'[w] = due[w]
          /\ notifiedTime'[w] = notifiedTime[w] /\ reading'[w] = reading[w] /\ state'[w] = state[w]
  BY <1>1, <1>2 DEF WindowsOK
<1>11. /\ times'[u] \in [1..MaxTuples -> Nat]
       /\ \A i \in 1..MaxTuples :
             times'[u][i] = IF i - Gone \in handed THEN times[u][i] + 1 ELSE times[u][i]
  <2>1. handed \in SUBSET (1..Len(queue'))
    BY <1>2, <1>3
  <2>2. times'[u] = Counted(u, Ids(queue', handed))
    BY <1>9
  <2> HIDE DEF Counted, Ids
  <2> QED BY <1>1, <1>8, <2>1, <2>2, CountedFacts
<1>12. WindowsOK'
  <2>1. NotifiedAfter(u, queue, handed) \in Times
    BY <1>1, <1>3, NotifiedTime DEF WindowsOK, Base, QueueOK
  <2>2. NoTrigger \in Readings
    BY Constants DEF NoTrigger, Readings, Times
  <2>3. reading[u].recv \in Nat /\ reading[u].recv <= stamp
    BY <1>1, Constants DEF WindowsOK, Readings
  <2>4. /\ times' \in [Windows -> [1..MaxTuples -> Nat]]
    <3>1. times' = [w \in Windows |-> times'[w]]
      BY <1>1, <1>2 DEF WindowsOK
    <3>2. \A w \in Windows : times'[w] \in [1..MaxTuples -> Nat]
      BY <1>1, <1>10, <1>11 DEF WindowsOK
    <3> QED BY <3>1, <3>2
  <2>5. notifiedTime' \in [Windows -> Times]
    BY <1>1, <1>2, <2>1 DEF WindowsOK
  <2>6. lastRecvTime' \in [Windows -> Nat] /\ \A w \in Windows : lastRecvTime'[w] <= stamp
    BY <1>1, <1>2, <2>3 DEF WindowsOK
  <2>7. /\ reading' \in [Windows -> Readings] /\ \A w \in Windows : reading'[w].recv <= stamp
        /\ \A w \in Windows : Win[w].own => reading'[w] = NoTrigger
    BY <1>1, <1>2, <1>5, <2>2 DEF WindowsOK, NoTrigger
  <2>8. due' \in [Windows -> SUBSET (1..MaxTuples)] /\ \A w \in Windows : due'[w] \subseteq 1..arrived
    BY <1>1, <1>2 DEF WindowsOK
  <2> QED BY <1>1, <1>2, <2>4, <2>5, <2>6, <2>7, <2>8 DEF WindowsOK
<1>13. DueIn(u)'
  BY <1>9 DEF DueIn
<1>14. Handed(u)'
  <2>1. Handed(u) /\ ~Win[u].own
    BY <1>1, <1>2 DEF PerWindow, WindowsOK
  <2>2. \A k \in 1..MaxTuples : k > arrived => times[u][k] = 0
    BY <2>1 DEF Handed
  <2>3. (\A k \in 1..MaxTuples : k > arrived => times[u][k] = 0)'
    <3>1. handed \in SUBSET (1..Len(queue'))
      BY <1>2, <1>3
    <3> QED BY <1>1, <1>8, <1>9, <2>2, <3>1, HandFresh
  <2>4. ASSUME ~Win[u].dup, Win[u].kind = "range" PROVE OnceRange(u)'
    <3>1. OnceRange(u)
      BY <2>1, <2>4 DEF Handed
    <3>2. handed = InRange(queue', Win[u].size, notifiedTime[u], reading[u].ref)
      BY <1>2, <1>4, <2>4
    <3>3. reading[u].ref \in Int
      BY <1>1, RecentFacts DEF WindowsOK, Readings
    <3> QED BY <1>1, <1>8, <1>9, <2>4, <3>1, <3>2, <3>3, HandRange
  <2>5. ASSUME ~Win[u].dup, Win[u].kind = "rows" PROVE TwiceRows(u)'
    <3>1. TwiceRows(u)
      BY <2>1, <2>5 DEF Handed
    <3>2. \A k \in handed : queue[k].recv > lastRecvTime[u]
      BY <1>4, <1>5, <2>5 DEF RowsSince, Newest
    <3>3. Gone \in Nat /\ MaxTuples \in Nat /\ arrived = Gone + Len(queue) /\ arrived <= MaxTuples
          /\ times[u] \in [1..MaxTuples -> Nat]
      BY <1>1, QueueFacts
    <3>4. lastRecvTime'[u] = reading[u].recv /\ queue' = queue /\ Gone' = Gone
      BY <1>2, <1>6, <1>9, <2>5
    <3>5. ASSUME NEW i \in 1..MaxTuples PROVE times'[u][i] <= 2
      <4>1. ASSUME i - Gone \in handed PROVE times[u][i] <= 1
        <5>1. i - Gone \in 1..Len(queue) /\ queue[i - Gone].recv > lastRecvTime[u]
          BY <1>3, <3>2, <4>1
        <5>2. times[u][Gone + (i - Gone)] <= 1
          BY <3>1, <5>1 DEF TwiceRows
        <5> QED BY <3>3, <5>2
      <4>2. times[u][i] <= 2 /\ times[u][i] \in Nat
        BY <3>1, <3>3 DEF TwiceRows
      <4> QED BY <1>11, <4>1, <4>2
    <3>6. ASSUME NEW k \in 1..Len(queue), queue[k].recv > reading[u].recv PROVE times'[u][Gone + k] <= 1
      <4>1. times[u][Gone + k] = 0
        BY <1>2, <3>1, <3>6 DEF TwiceRows
      <4>2. Gone + k \in 1..MaxTuples
        BY <1>5, <3>3
      <4>3. times'[u][Gone + k] \in {times[u][Gone + k] + 1, times[u][Gone + k]}
        BY <1>11, <4>2
      <4> QED BY <4>1, <4>3
    <3> QED BY <1>9, <3>4, <3>5, <3>6 DEF TwiceRows
  <2> QED BY <2>1, <2>3, <2>4, <2>5 DEF Handed
<1>15. ASSUME NEW w \in Windows PROVE DueIn(w)' /\ Handed(w)'
  <2>1. CASE w = u
    BY <1>13, <1>14, <2>1
  <2>2. CASE w # u
    <3>1. DueIn(w) /\ Handed(w)
      BY <1>1 DEF PerWindow
    <3> QED BY <1>1, <1>2, <1>10, <2>2, <3>1, SameWindow
  <2> QED BY <2>1, <2>2
<1> QED BY <1>6, <1>7, <1>12, <1>15 DEF IInv, Base, PerWindow

-----------------------------------------------------------------------------
(* Windows register and go.                                                *)
LEMMA RegisterStep ==
    ASSUME IInv, NEW u \in Windows, state[u] # "referring", NEW s \in {"listening", "referring"},
           state' = [state EXCEPT ![u] = s],
           UNCHANGED <<deployed, queue, deleteSearchIdx, deleteReservationList, clock, stamp,
                       triggers, arrived, lastRecvTime, notifiedTime, reading, times, due>>,
           Limited'
    PROVE  IInv'
<1>1. Base /\ PerWindow
  BY DEF IInv
<1>2. Gone' = Gone
  BY DEF Gone
<1>3. WindowsOK'
  BY <1>1 DEF Base, WindowsOK
<1>4. QueueOK' /\ ListOK' /\ CountersOK' /\ InOrder' /\ Searched'
  BY <1>1, <1>2 DEF Base, QueueOK, ListOK, CountersOK, InOrder, Searched
<1>5. ASSUME NEW w \in Windows PROVE DueIn(w)' /\ Handed(w)'
  <2>1. DueIn(w) /\ Handed(w)
    BY <1>1 DEF PerWindow
  <2>2. due[w] = {} \/ state'[w] = state[w]
    BY <1>1, <2>1 DEF DueIn, Base, WindowsOK
  <2> QED BY <1>1, <2>1, <2>2, SameWindow
<1> QED BY <1>3, <1>4, <1>5 DEF IInv, Base, PerWindow

LEMMA AddQueueListenerStep == ASSUME IInv, NEW u \in Windows, AddQueueListener(u) PROVE IInv'
<1>1. /\ state[u] # "referring" /\ state' = [state EXCEPT ![u] = "listening"]
      /\ UNCHANGED <<deployed, queue, deleteSearchIdx, deleteReservationList, limits, clock, stamp,
                     triggers, arrived, lastRecvTime, notifiedTime, reading, times, due>>
  BY DEF AddQueueListener, deleteVars
<1>2. Limited'
  BY <1>1 DEF IInv, Base, Limited, WindowsOK
<1> QED BY <1>1, <1>2, RegisterStep

LEMMA AddQueueReferrerStep == ASSUME IInv, NEW u \in Windows, AddQueueReferrer(u) PROVE IInv'
<1>1. /\ state[u] # "referring" /\ state' = [state EXCEPT ![u] = "referring"]
      /\ limits' = IF limits = NoRound THEN limits ELSE [limits EXCEPT !.blind = limits.blind \cup {u}]
      /\ UNCHANGED <<deployed, queue, deleteSearchIdx, deleteReservationList, clock, stamp,
                     triggers, arrived, lastRecvTime, notifiedTime, reading, times, due>>
  BY DEF AddQueueReferrer
<1>2. Limited'
  <2>1. Limited /\ WindowsOK
    BY DEF IInv, Base
  <2>2. CASE limits = NoRound
    BY <1>1, <2>1, <2>2 DEF Limited
  <2>3. CASE limits # NoRound
    <3>1. limits' \in Limits /\ limits'.blind = limits.blind \cup {u} /\ limits'.num = limits.num
      BY <1>1, <2>1, <2>3 DEF Limited, Limits
    <3>2. \A w \in Windows \ limits'.blind : state'[w] = state[w] /\ w \notin limits.blind
      BY <1>1, <2>1, <3>1 DEF WindowsOK
    <3> QED BY <2>1, <2>3, <3>1, <3>2 DEF Limited
  <2> QED BY <2>2, <2>3
<1> QED BY <1>1, <1>2, RegisterStep

LEMMA RemoveWindowStep == ASSUME IInv, NEW u \in Windows, RemoveWindow(u) PROVE IInv'
<1>1. Base /\ PerWindow /\ WindowsOK
  BY DEF IInv, Base
<1>2. /\ state' = [state EXCEPT ![u] = "gone"]
      /\ lastRecvTime' = [lastRecvTime EXCEPT ![u] = 0]
      /\ notifiedTime' = [notifiedTime EXCEPT ![u] = 0]
      /\ times' = [times EXCEPT ![u] = [k \in 1..MaxTuples |-> 0]]
      /\ due' = [due EXCEPT ![u] = {}]
      /\ UNCHANGED <<deployed, queue, deleteVars, clock, stamp, triggers, arrived, reading>>
      /\ reading[u] = NoTrigger
  BY DEF RemoveWindow
<1>3. Gone' = Gone /\ Gone \in Nat /\ stamp \in Nat
  BY <1>1, <1>2, QueueFacts DEF Gone
<1>4. QueueOK' /\ ListOK' /\ CountersOK' /\ InOrder' /\ Searched'
  BY <1>1, <1>2, <1>3 DEF Base, QueueOK, ListOK, CountersOK, InOrder, Searched, deleteVars
<1>5. Limited'
  BY <1>1, <1>2 DEF Base, Limited, WindowsOK, deleteVars
<1>6. WindowsOK'
  <2>1. 0 \in Times /\ [k \in 1..MaxTuples |-> 0] \in [1..MaxTuples -> Nat]
    BY Constants DEF Times
  <2>2. times' \in [Windows -> [1..MaxTuples -> Nat]]
    BY <1>1, <1>2, <2>1 DEF WindowsOK
  <2>3. lastRecvTime' \in [Windows -> Nat] /\ \A w \in Windows : lastRecvTime'[w] <= stamp
    BY <1>1, <1>2, <1>3 DEF WindowsOK
  <2>4. notifiedTime' \in [Windows -> Times]
    BY <1>1, <1>2, <2>1 DEF WindowsOK
  <2>5. due' \in [Windows -> SUBSET (1..MaxTuples)] /\ \A w \in Windows : due'[w] \subseteq 1..arrived
    BY <1>1, <1>2 DEF WindowsOK
  <2>6. state' \in [Windows -> {"gone", "listening", "referring"}]
    BY <1>1, <1>2 DEF WindowsOK
  <2> QED BY <1>1, <1>2, <2>2, <2>3, <2>4, <2>5, <2>6 DEF WindowsOK
<1>7. ASSUME NEW w \in Windows PROVE DueIn(w)' /\ Handed(w)'
  <2>1. DueIn(w) /\ Handed(w)
    BY <1>1 DEF PerWindow
  <2>2. CASE w # u
    <3>1. /\ times'[w] = times[w] /\ lastRecvTime'[w] = lastRecvTime[w] /\ due'[w] = due[w]
          /\ notifiedTime'[w] = notifiedTime[w] /\ state'[w] = state[w]
      BY <1>1, <1>2, <2>2 DEF WindowsOK
    <3> QED BY <1>1, <1>2, <2>1, <3>1, SameWindow
  <2>3. CASE w = u
    <3>1. due'[w] = {} /\ reading'[w] = NoTrigger /\ times'[w] = [k \in 1..MaxTuples |-> 0]
      BY <1>1, <1>2, <2>3 DEF WindowsOK
    <3>2. \A k \in 1..MaxTuples : times'[w][k] = 0
      BY <3>1
    <3>3. /\ Gone \in Nat /\ Len(queue) \in Nat /\ arrived = Gone + Len(queue) /\ arrived <= MaxTuples
          /\ MaxTuples \in Nat
      BY <1>1, QueueFacts
    <3>4. \A k \in 1..Len(queue) : times'[w][Gone + k] = 0
      BY <3>2, <3>3
    <3>5. DueIn(w)'
      BY <3>1 DEF DueIn
    <3>6. OnceRange(w)'
      <4>1. 0 \in 0..arrived /\ ~(0 > Gone)
        BY <3>3
      <4> QED BY <1>2, <1>3, <3>2, <4>1 DEF OnceRange
    <3>7. OnceRows(w)' /\ TwiceRows(w)' /\ OnceAll(w)'
      <4>1. OnceRows(w)'
        <5>1. \A k \in 1..MaxTuples : times'[w][k] <= 1
          BY <3>2
        <5>2. Len(queue') = Len(queue) /\ Gone' = Gone
          BY <1>2, <1>3
        <5> QED BY <3>4, <5>1, <5>2 DEF OnceRows
      <4>2. TwiceRows(w)'
        <5>1. \A k \in 1..MaxTuples : times'[w][k] <= 2
          BY <3>2
        <5>2. \A k \in 1..Len(queue) : times'[w][Gone + k] <= 1
          BY <3>4
        <5> QED BY <1>2, <1>3, <3>1, <5>1, <5>2 DEF TwiceRows, NoTrigger
      <4>3. OnceAll(w)'
        BY <3>2 DEF OnceAll
      <4> QED BY <4>1, <4>2, <4>3
    <3> QED BY <3>2, <3>5, <3>6, <3>7 DEF Handed
  <2> QED BY <2>2, <2>3
<1> QED BY <1>4, <1>5, <1>6, <1>7 DEF IInv, Base, PerWindow

-----------------------------------------------------------------------------
(* The first half of deleteQueue.                                          *)
LEMMA ImageFinite ==
    ASSUME NEW S, IsFiniteSet(S), NEW f, DOMAIN f = S, f = [x \in S |-> f[x]]
    PROVE  /\ IsFiniteSet({f[x] : x \in S})
           /\ Cardinality({f[x] : x \in S}) <= Cardinality(S)
<1> DEFINE T == {f[x] : x \in S}
<1>1. f \in Surjection(S, T)
  <2>1. f \in [S -> T]
    OBVIOUS
  <2>2. \A t \in T : \E x \in S : f[x] = t
    OBVIOUS
  <2> HIDE DEF T
  <2> QED BY <2>1, <2>2 DEF Surjection
<1> HIDE DEF T
<1>2. IsFiniteSet(T) /\ Cardinality(T) <= Cardinality(S)
  BY <1>1, FS_Surjection
<1> QED BY <1>2 DEF T

LEMMA Sizes ==
    ASSUME NEW T \in SUBSET Windows
    PROVE  IsFiniteSet({Win[w].size : w \in T}) /\ {Win[w].size : w \in T} \subseteq Nat
<1>1. IsFiniteSet(T)
  BY Constants, FS_Subset
<1>2. {Win[w].size : w \in T} \subseteq Nat
  BY Constants
<1> DEFINE f == [w \in T |-> Win[w].size]
<1>3. DOMAIN f = T /\ f = [x \in T |-> f[x]] /\ {f[x] : x \in T} = {Win[w].size : w \in T}
  OBVIOUS
<1> HIDE DEF f
<1>4. IsFiniteSet({f[x] : x \in T})
  BY <1>1, <1>3, ImageFinite
<1> QED BY <1>2, <1>3, <1>4

LEMMA LimitFacts ==
    /\ MaxNum \in Nat /\ MaxMsec \in Nat
    /\ \A w \in Referring("rows") : Win[w].size <= MaxNum
<1>1. Referring("rows") \in SUBSET Windows /\ Referring("range") \in SUBSET Windows
  BY DEF Referring
<1> HIDE DEF Referring
<1>2. MaxNum \in Nat /\ \A w \in Referring("rows") : Win[w].size <= MaxNum
  <2>1. CASE Referring("rows") = {}
    BY <2>1, Constants DEF MaxNum
  <2>2. CASE Referring("rows") # {}
    <3> DEFINE S == {Win[w].size : w \in Referring("rows")}
    <3>1. IsFiniteSet(S) /\ S \subseteq Nat /\ S # {} /\ S \subseteq Int
      <4>1. IsFiniteSet(S) /\ S \subseteq Nat
        BY <1>1, Sizes
      <4>2. S # {}
        BY <2>2
      <4> QED BY <4>1, <4>2
    <3>2. \A w \in Referring("rows") : Win[w].size \in S
      OBVIOUS
    <3>3. MaxNum = Max(S)
      BY <2>2 DEF MaxNum
    <3> HIDE DEF S
    <3>4. Max(S) \in S /\ \A y \in S : Max(S) >= y
      BY <3>1, FiniteMax
    <3> QED BY <3>1, <3>2, <3>3, <3>4
  <2> QED BY <2>1, <2>2
<1>3. MaxMsec \in Nat
  <2> DEFINE S == {Win[w].size : w \in Referring("range")}
             T == S \cup {DefaultMsec}
  <2>1. IsFiniteSet(S) /\ S \subseteq Nat
    BY <1>1, Sizes
  <2>2. MaxMsec = Max(T)
    BY DEF MaxMsec
  <2> HIDE DEF S
  <2>3. IsFiniteSet(T)
    BY <2>1, FS_AddElement
  <2>4. T # {} /\ T \subseteq Nat /\ T \subseteq Int
    BY <2>1, Constants
  <2> HIDE DEF T
  <2> QED BY <2>2, <2>3, <2>4, FiniteMax
<1> QED BY <1>2, <1>3

LEMMA DeleteLimitsStep == ASSUME IInv, DeleteLimits PROVE IInv'
<1>1. Base /\ PerWindow
  BY DEF IInv
<1>2. /\ limits' = [num |-> MaxNum, msec |-> MaxMsec, blind |-> {}]
      /\ UNCHANGED <<queue, deleteSearchIdx, deleteReservationList, clock, stamp, triggers, arrived>>
      /\ UNCHANGED <<deployed, state, lastRecvTime, notifiedTime, reading, times, due>>
  BY DEF DeleteLimits, windowVars
<1>3. Gone' = Gone
  BY <1>2 DEF Gone
<1>4. QueueOK' /\ ListOK' /\ CountersOK' /\ InOrder' /\ Searched' /\ WindowsOK'
  BY <1>1, <1>2, <1>3 DEF Base, QueueOK, ListOK, CountersOK, InOrder, Searched, WindowsOK
<1>5. Limited'
  <2>1. limits' \in Limits
    BY <1>2, LimitFacts DEF Limits
  <2>2. ASSUME NEW w \in Windows, state'[w] = "referring" /\ Win[w].kind = "rows"
        PROVE  Win[w].size <= limits'.num
    <3>1. w \in Referring("rows")
      BY <1>2, <2>2 DEF Referring
    <3> QED BY <1>2, <3>1, LimitFacts
  <2> QED BY <2>1, <2>2 DEF Limited
<1>6. ASSUME NEW w \in Windows PROVE DueIn(w)' /\ Handed(w)'
  <2>1. DueIn(w) /\ Handed(w)
    BY <1>1 DEF PerWindow
  <2> QED BY <1>1, <1>2, <2>1, SameWindow
<1> QED BY <1>4, <1>5, <1>6 DEF IInv, Base, PerWindow

-----------------------------------------------------------------------------
(* The second half of deleteQueue: what is reserved, ...                   *)
LEMMA UnsearchedFacts ==
    ASSUME Base
    PROVE  /\ Unsearched \subseteq 1..Len(queue) /\ IsFiniteSet(Unsearched)
           /\ Cardinality(Unsearched) \in Nat /\ deleteSearchIdx \in Nat
           /\ Len(queue) <= deleteSearchIdx + Cardinality(Unsearched)
           /\ deleteSearchIdx + Cardinality(Unsearched) <= arrived
           /\ \A k \in Unsearched : k > deleteSearchIdx
<1>1. /\ Len(queue) \in Nat /\ deleteSearchIdx \in Nat /\ deleteSearchIdx <= arrived /\ arrived \in Nat
      /\ Gone \in Nat /\ arrived = Gone + Len(queue)
  BY QueueFacts DEF Base, Searched
<1>2. PICK i : i = deleteSearchIdx + 1
  OBVIOUS
<1>3. Unsearched = i..Len(queue) /\ i \in Int /\ i \in Nat \ {0}
  BY <1>1, <1>2 DEF Unsearched
<1>4. IsFiniteSet(Unsearched) /\ Cardinality(Unsearched) = IF i > Len(queue) THEN 0 ELSE Len(queue) - i + 1
  <2>1. \A a, b \in Int : /\ IsFiniteSet(a..b)
                          /\ Cardinality(a..b) = IF a > b THEN 0 ELSE b - a + 1
    BY FS_Interval
  <2>2. Len(queue) \in Int
    BY <1>1
  <2> QED BY <1>3, <2>1, <2>2, Zenon
<1> QED BY <1>1, <1>2, <1>3, <1>4

LEMMA ReservedFacts ==
    ASSUME Base
    PROVE  /\ Reserved \in [DOMAIN Reserved -> Int]
           /\ DOMAIN Reserved = DOMAIN deleteReservationList \cup Ids(queue, Unsearched)
           /\ DOMAIN Reserved \subseteq 1..arrived /\ IsFiniteSet(DOMAIN Reserved)
           /\ Cardinality(DOMAIN Reserved) \in Nat
           /\ Cardinality(DOMAIN Reserved) <= deleteSearchIdx + Cardinality(Unsearched)
           /\ \A k \in DOMAIN Reserved : k <= Gone + deleteSearchIdx + Cardinality(Unsearched)
<1> DEFINE D == DOMAIN deleteReservationList
           found == Ids(queue, Unsearched)
           stamps == {queue[k].time : k \in Unsearched}
           newestTime == Max({0} \cup stamps)
<1>1. /\ Gone \in Nat /\ Len(queue) \in Nat /\ arrived \in Nat /\ arrived = Gone + Len(queue)
      /\ \A k \in 1..Len(queue) : queue[k].id = Gone + k /\ queue[k].time \in Int
  BY QueueFacts
<1>2. /\ Unsearched \subseteq 1..Len(queue) /\ IsFiniteSet(Unsearched)
      /\ Cardinality(Unsearched) \in Nat /\ deleteSearchIdx \in Nat
      /\ Len(queue) <= deleteSearchIdx + Cardinality(Unsearched)
  BY UnsearchedFacts
<1>3. ListOK /\ Searched /\ limits \in Limits
  BY DEF Base, Limited
<1>4. IsFiniteSet(D) /\ Cardinality(D) \in Nat /\ Cardinality(D) <= deleteSearchIdx /\ D \subseteq 1..arrived
      /\ deleteReservationList \in [D -> Int]
  <2>1. IsFiniteSet(D) /\ Cardinality(D) <= deleteSearchIdx /\ D \subseteq 1..arrived
    BY <1>3 DEF Searched, ListOK
  <2>2. deleteReservationList \in [D -> Int]
    BY <1>3 DEF ListOK
  <2> QED BY <2>1, <2>2, FS_CardinalityType
<1>5. IsFiniteSet(found) /\ Cardinality(found) <= Cardinality(Unsearched)
  <2> DEFINE f == [k \in Unsearched |-> queue[k].id]
  <2>1. DOMAIN f = Unsearched /\ f = [k \in Unsearched |-> f[k]] /\ found = {f[k] : k \in Unsearched}
    BY DEF Ids
  <2> HIDE DEF f, found
  <2> QED BY <1>2, <2>1, ImageFinite
<1>6. \A k \in found : k \in 1..arrived /\ k <= Gone + Len(queue)
  BY <1>1, <1>2 DEF Ids
<1>7. newestTime \in Int
  <2> DEFINE f == [k \in Unsearched |-> queue[k].time]
  <2>1. DOMAIN f = Unsearched /\ f = [k \in Unsearched |-> f[k]] /\ stamps = {f[k] : k \in Unsearched}
    OBVIOUS
  <2>2. stamps \subseteq Int
    BY <1>1, <1>2
  <2> HIDE DEF f, stamps
  <2>3. IsFiniteSet(stamps)
    BY <1>2, <2>1, ImageFinite
  <2>4. IsFiniteSet(stamps \cup {0})
    BY <2>3, FS_AddElement
  <2> DEFINE T == {0} \cup stamps
  <2>5. T = stamps \cup {0} /\ T \subseteq Int /\ T # {}
    BY <2>2
  <2>6. newestTime = Max(T)
    OBVIOUS
  <2> HIDE DEF T, newestTime
  <2>7. Max(T) \in T
    BY <2>4, <2>5, FiniteMax
  <2> QED BY <2>5, <2>6, <2>7
<1>8. limits.msec \in Nat
  BY <1>3 DEF Limits
<1>9. Reserved = [k \in D \cup found |->
                    IF k \in found THEN newestTime + limits.msec ELSE deleteReservationList[k]]
  BY DEF Reserved
<1> HIDE DEF D, found, newestTime
<1>10. DOMAIN Reserved = D \cup found
  BY <1>9
<1>11. Reserved \in [D \cup found -> Int]
  <2>1. \A k \in D \cup found :
            (IF k \in found THEN newestTime + limits.msec ELSE deleteReservationList[k]) \in Int
    BY <1>4, <1>7, <1>8
  <2> QED BY <1>9, <2>1
<1>12. IsFiniteSet(D \cup found) /\ Cardinality(D \cup found) <= deleteSearchIdx + Cardinality(Unsearched)
  <2>1. IsFiniteSet(D \cup found) /\ Cardinality(D \cup found) = Cardinality(D) + Cardinality(found) - Cardinality(D \cap found)
    BY <1>4, <1>5, FS_Union
  <2>2. IsFiniteSet(D \cap found)
    BY <1>4, FS_Intersection
  <2>3. Cardinality(D \cap found) \in Nat /\ Cardinality(found) \in Nat
    BY <1>5, <2>2, FS_CardinalityType
  <2> QED BY <1>2, <1>4, <1>5, <2>1, <2>3
<1>13. Cardinality(D \cup found) \in Nat
  BY <1>12, FS_CardinalityType
<1>14. \A k \in D \cup found : k <= Gone + deleteSearchIdx + Cardinality(Unsearched)
  <2>1. \A k \in D : k <= Gone + deleteSearchIdx /\ k \in Nat
    BY <1>3, <1>4 DEF Searched, D
  <2> QED BY <1>1, <1>2, <1>6, <2>1
<1> QED BY <1>4, <1>6, <1>10, <1>11, <1>12, <1>13, <1>14 DEF D, found

(* ... the tuples that go, ...                                             *)
LEMMA Dropped ==
    ASSUME Base, NEW n \in 0..Len(queue), DropFront(n), UNCHANGED <<arrived, stamp, clock, triggers>>
    PROVE  /\ QueueOK' /\ CountersOK' /\ InOrder' /\ Gone' = Gone + n /\ Len(queue') = Len(queue) - n
           /\ \A k \in 1..Len(queue') : queue'[k] = queue[k + n]
<1>1. /\ Gone \in Nat /\ Len(queue) \in Nat /\ arrived \in Nat /\ arrived = Gone + Len(queue)
      /\ \A k \in 1..Len(queue) : queue[k].id = Gone + k
      /\ queue \in Seq(TupleSet) /\ InOrder
  BY QueueFacts DEF Base, QueueOK
<1>2. PICK m : m = n + 1
  OBVIOUS
<1>3. m \in 1..Len(queue) + 1 /\ queue' = SubSeq(queue, m, Len(queue))
  BY <1>1, <1>2 DEF DropFront
<1>4. /\ queue' \in Seq(TupleSet) /\ Len(queue') = Len(queue) - n
      /\ \A k \in 1..Len(queue') : queue'[k] = queue[k + n]
  BY <1>1, <1>2, <1>3, SubSeqProperties
<1>5. Gone' = Gone + n
  BY <1>1, <1>4 DEF Gone
<1>6. \A k \in 1..Len(queue') : k + n \in 1..Len(queue) /\ k \in Int
  BY <1>1, <1>4
<1>7. InOrder'
  <2>1. ASSUME NEW k \in 1..Len(queue') PROVE queue'[k].id = Gone' + k /\ queue'[k].recv <= stamp
    <3>1. queue[k + n].id = Gone + (k + n) /\ queue[k + n].recv <= stamp
      BY <1>1, <1>6 DEF InOrder
    <3> QED BY <1>1, <1>4, <1>5, <1>6, <3>1
  <2>2. ASSUME NEW j \in 1..Len(queue'), NEW k \in 1..Len(queue'), j <= k
        PROVE  queue'[j].recv <= queue'[k].recv
    <3>1. j + n <= k + n
      BY <1>6, <2>2
    <3> QED BY <1>1, <1>4, <1>6, <3>1 DEF InOrder
  <2>3. Gone' >= 0
    BY <1>1, <1>5
  <2> QED BY <2>1, <2>2, <2>3 DEF InOrder
<1>8. QueueOK' /\ CountersOK'
  BY <1>4 DEF QueueOK, CountersOK, Base
<1> QED BY <1>4, <1>5, <1>7, <1>8

LEMMA DroppedNone == ASSUME Base, UNCHANGED queue PROVE DropFront(0)
<1>1. queue \in Seq(TupleSet) /\ Len(queue) \in Nat
  BY QueueFacts DEF Base, QueueOK
<1>2. SubSeq(queue, 1, Len(queue)) = queue
  <2>1. /\ SubSeq(queue, 1, Len(queue)) \in Seq(TupleSet)
        /\ Len(SubSeq(queue, 1, Len(queue))) = Len(queue)
        /\ \A k \in 1..Len(queue) : SubSeq(queue, 1, Len(queue))[k] = queue[k]
    BY <1>1, SubSeqProperties
  <2> QED BY <1>1, <2>1, SeqEqual
<1> QED BY <1>2 DEF DropFront

(* ... and the reservations that are left, whichever branch is taken.      *)
Shortened(n) ==
    /\ DropFront(n)
    /\ n = 0 \/ n <= Len(queue) - limits.num
    /\ DOMAIN deleteReservationList' \subseteq DOMAIN Reserved
    /\ deleteReservationList' \in [DOMAIN deleteReservationList' -> Int]
    /\ deleteSearchIdx' \in Nat /\ deleteSearchIdx' <= deleteSearchIdx + Cardinality(Unsearched)
    /\ Cardinality(DOMAIN deleteReservationList') <= deleteSearchIdx'
    /\ deleteSearchIdx + Cardinality(Unsearched) <= n + deleteSearchIdx'

LEMMA RestrictFacts ==
    ASSUME NEW f, NEW S, S \subseteq DOMAIN f, f \in [DOMAIN f -> Int]
    PROVE  DOMAIN Restrict(f, S) = S /\ Restrict(f, S) \in [S -> Int]
  BY DEF Restrict

LEMMA DeleteByNumShortened ==
    ASSUME Base, UNCHANGED arrived, DeleteByNum PROVE \E n \in 0..Len(queue) : Shortened(n)
<1> DEFINE searched == deleteSearchIdx + Cardinality(Unsearched)
<1>1. /\ Reserved \in [DOMAIN Reserved -> Int] /\ IsFiniteSet(DOMAIN Reserved)
      /\ Cardinality(DOMAIN Reserved) \in Nat /\ Cardinality(DOMAIN Reserved) <= searched
  BY ReservedFacts
<1>2. searched \in Nat
  BY UnsearchedFacts
<1>3. Len(queue) \in Nat /\ limits.num \in Nat
  BY QueueFacts DEF Base, Limited, Limits
<1>4. deleteSearchIdx' = searched
  BY DEF DeleteByNum
<1> HIDE DEF searched
<1>5. CASE ByNum > 0
  <2> DEFINE kept == {k \in DOMAIN Reserved : Reserved[k] >= queue[ByNum + 1].time}
  <2>1. DropFront(ByNum) /\ deleteReservationList' = Restrict(Reserved, kept)
    BY <1>5 DEF DeleteByNum, Since
  <2>2. ByNum \in 0..Len(queue) /\ ByNum <= Len(queue) - limits.num
    BY <1>3, <1>5 DEF ByNum
  <2>3. kept \subseteq DOMAIN Reserved
    OBVIOUS
  <2> HIDE DEF kept
  <2>4. DOMAIN deleteReservationList' = kept /\ deleteReservationList' \in [kept -> Int]
    BY <1>1, <2>1, <2>3, RestrictFacts
  <2>5. Cardinality(kept) <= Cardinality(DOMAIN Reserved) /\ Cardinality(kept) \in Nat
    BY <1>1, <2>3, FS_Subset, FS_CardinalityType
  <2>6. Cardinality(kept) <= searched /\ searched <= ByNum + searched
    BY <1>1, <1>2, <2>2, <2>5
  <2>7. Shortened(ByNum)
    BY <1>2, <1>4, <2>1, <2>2, <2>3, <2>4, <2>6 DEF Shortened, searched
  <2> QED BY <2>2, <2>7
<1>6. CASE ~(ByNum > 0)
  <2>1. queue' = queue /\ deleteReservationList' = Reserved
    BY <1>6 DEF DeleteByNum
  <2>2. DropFront(0)
    BY <2>1, DroppedNone
  <2>3. searched <= 0 + searched /\ searched <= searched
    BY <1>2
  <2>4. Shortened(0)
    BY <1>1, <1>2, <1>4, <2>1, <2>2, <2>3 DEF Shortened, searched
  <2> QED BY <1>3, <2>4
<1> QED BY <1>5, <1>6

LEMMA DeleteByTimeShortened ==
    ASSUME Base, UNCHANGED arrived, DeleteByTime PROVE \E n \in 0..Len(queue) : Shortened(n)
<1> DEFINE searched == deleteSearchIdx + Cardinality(Unsearched)
           kept == DOMAIN Reserved \ Expired
<1>1. /\ Reserved \in [DOMAIN Reserved -> Int] /\ IsFiniteSet(DOMAIN Reserved)
      /\ Cardinality(DOMAIN Reserved) \in Nat /\ Cardinality(DOMAIN Reserved) <= searched
  BY ReservedFacts
<1>2. searched \in Nat
  BY UnsearchedFacts
<1>3. Len(queue) \in Nat /\ limits.num \in Nat
  BY QueueFacts DEF Base, Limited, Limits
<1>4. ByTime <= ByNum /\ DropFront(ByTime) /\ deleteReservationList' = Restrict(Reserved, kept)
  BY DEF DeleteByTime, Unexpired
<1>5. Expired \subseteq DOMAIN Reserved
  BY DEF Expired
<1>6. ByTime = Cardinality(Expired) /\ ByTime \in Nat /\ ByTime <= Cardinality(DOMAIN Reserved)
  BY <1>1, <1>5, FS_Subset, FS_CardinalityType DEF ByTime
<1>7. deleteSearchIdx' = searched - ByTime
  <2>1. deleteSearchIdx \in Nat /\ Cardinality(Unsearched) \in Nat
    BY UnsearchedFacts
  <2> QED BY <1>6, <2>1 DEF DeleteByTime
<1>8. ByTime \in 0..Len(queue) /\ ByTime <= Len(queue) - limits.num
  BY <1>3, <1>4, <1>6 DEF ByNum
<1>9. Cardinality(kept) = Cardinality(DOMAIN Reserved) - ByTime
  <2>1. Cardinality(kept) = Cardinality(DOMAIN Reserved) - Cardinality(DOMAIN Reserved \cap Expired)
    BY <1>1, FS_Difference
  <2>2. DOMAIN Reserved \cap Expired = Expired
    BY <1>5
  <2> QED BY <1>6, <2>1, <2>2
<1>10. kept \subseteq DOMAIN Reserved
  OBVIOUS
<1> HIDE DEF kept, searched
<1>11. DOMAIN deleteReservationList' = kept /\ deleteReservationList' \in [kept -> Int]
  BY <1>1, <1>4, <1>10, RestrictFacts
<1>12. /\ searched - ByTime \in Nat /\ searched - ByTime <= searched
       /\ Cardinality(kept) <= searched - ByTime /\ searched <= ByTime + (searched - ByTime)
  BY <1>1, <1>2, <1>6, <1>9
<1>13. Shortened(ByTime)
  BY <1>4, <1>8, <1>10, <1>11, <1>12, <1>7 DEF Shortened, searched
<1> QED BY <1>8, <1>13

(* A window keeps what is due to it and what it was handed.                *)
LEMMA DroppedWindow ==
    ASSUME Base, NEW n \in 0..Len(queue), DropFront(n), n = 0 \/ n <= Len(queue) - limits.num,
           UNCHANGED <<arrived, stamp, clock, triggers, state, lastRecvTime, notifiedTime,
                       reading, times>>,
           limits # NoRound, NEW w \in Windows, DueIn(w), Handed(w),
           due'[w] = IF w \in limits.blind THEN due[w] \cap Ids(queue', 1..Len(queue')) ELSE due[w]
    PROVE  DueIn(w)' /\ Handed(w)'
<1>1. /\ InOrder' /\ Gone' = Gone + n /\ Len(queue') = Len(queue) - n
      /\ \A k \in 1..Len(queue') : queue'[k] = queue[k + n]
  BY Dropped
<1>2. /\ Gone \in Nat /\ Len(queue) \in Nat /\ arrived \in Nat /\ arrived = Gone + Len(queue)
      /\ limits.num \in Nat /\ Win[w].size \in Nat /\ n \in Nat /\ due[w] \subseteq 1..arrived
  <2>1. limits.num \in Nat /\ due[w] \subseteq 1..arrived
    BY DEF Base, Limited, Limits, WindowsOK
  <2>2. Win[w].size \in Nat
    BY Constants
  <2>3. Len(queue) \in Nat
    BY QueueFacts
  <2> QED BY QueueFacts, <2>1, <2>2, <2>3
<1>3. ASSUME NEW k \in due'[w]
      PROVE  k > arrived' - Win[w].size /\ k > Gone' /\ queue'[k - Gone'].recv > lastRecvTime'[w]
  <2>1. k \in due[w] /\ k > arrived - Win[w].size /\ k > Gone /\ queue[k - Gone].recv > lastRecvTime[w]
        /\ k \in 1..arrived
    BY <1>2, <1>3 DEF DueIn
  <2>2. k > Gone'
    <3>1. CASE w \in limits.blind
      <4>1. \A j \in 1..Len(queue') : queue'[j].id > Gone'
        BY <1>1, <1>2 DEF InOrder
      <4> QED BY <1>3, <3>1, <4>1 DEF Ids
    <3>2. CASE w \notin limits.blind
      <4>1. state[w] = "referring" /\ Win[w].kind = "rows"
        BY <2>1 DEF DueIn
      <4>2. Win[w].size <= limits.num
        BY <3>2, <4>1 DEF Base, Limited
      <4> QED BY <1>1, <1>2, <2>1, <4>2
    <3> QED BY <3>1, <3>2
  <2>3. k - Gone' \in 1..Len(queue') /\ (k - Gone') + n = k - Gone
    BY <1>1, <1>2, <2>1, <2>2
  <2> QED BY <1>1, <2>1, <2>2, <2>3
<1>4. DueIn(w)'
  <2>1. due'[w] # {} => due[w] # {}
    OBVIOUS
  <2> QED BY <1>3, <2>1 DEF DueIn
<1>5. \A k \in 1..Len(queue') : k + n \in 1..Len(queue) /\ Gone' + k = Gone + (k + n)
  BY <1>1, <1>2
<1>6. OnceRange(w) => OnceRange(w)'
  <2>1. ASSUME OnceRange(w) PROVE OnceRange(w)'
    <3>1. PICK l \in 0..arrived :
              /\ \A k \in 1..MaxTuples : k > l => times[w][k] = 0
              /\ l > Gone => queue[l - Gone].time = notifiedTime[w]
      BY <2>1 DEF OnceRange
    <3>2. ASSUME l > Gone' PROVE queue'[l - Gone'].time = notifiedTime[w]
      <4>1. l > Gone /\ l - Gone' \in 1..Len(queue') /\ (l - Gone') + n = l - Gone
        BY <1>1, <1>2, <3>2
      <4> QED BY <1>1, <3>1, <4>1
    <3> QED BY <2>1, <3>1, <3>2 DEF OnceRange
  <2> QED BY <2>1
<1>7. OnceRows(w) => OnceRows(w)'
  BY <1>1, <1>5 DEF OnceRows
<1>8. TwiceRows(w) => TwiceRows(w)'
  BY <1>1, <1>5 DEF TwiceRows
<1>9. OnceAll(w) => OnceAll(w)'
  BY DEF OnceAll
<1>10. (\A k \in 1..MaxTuples : k > arrived => times[w][k] = 0)'
  BY DEF Handed
<1> HIDE DEF OnceAll, OnceRows, OnceRange, TwiceRows
<1> QED BY <1>4, <1>6, <1>7, <1>8, <1>9, <1>10 DEF Handed

LEMMA DeleteQueueStep == ASSUME IInv, DeleteQueue PROVE IInv'
<1>1. Base /\ PerWindow
  BY DEF IInv
<1>2. /\ limits # NoRound /\ limits' = NoRound
      /\ due' = [w \in Windows |->
                   IF w \in limits.blind THEN due[w] \cap Ids(queue', 1..Len(queue')) ELSE due[w]]
      /\ UNCHANGED <<deployed, clock, stamp, triggers, arrived, state, lastRecvTime, notifiedTime,
                     reading, times>>
      /\ DeleteByNum \/ DeleteByTime
  BY DEF DeleteQueue
<1>3. PICK n \in 0..Len(queue) : Shortened(n)
  BY <1>1, <1>2, DeleteByNumShortened, DeleteByTimeShortened
<1>4. DropFront(n) /\ (n = 0 \/ n <= Len(queue) - limits.num)
  BY <1>3 DEF Shortened
<1>5. QueueOK' /\ CountersOK' /\ InOrder' /\ Gone' = Gone + n
  BY <1>1, <1>2, <1>4, Dropped
<1>6. ASSUME NEW w \in Windows PROVE DueIn(w)' /\ Handed(w)'
  <2>1. DueIn(w) /\ Handed(w)
    BY <1>1 DEF PerWindow
  <2>2. due'[w] = IF w \in limits.blind THEN due[w] \cap Ids(queue', 1..Len(queue')) ELSE due[w]
    BY <1>2
  <2> QED BY <1>1, <1>2, <1>4, <2>1, <2>2, DroppedWindow
<1>7. /\ Gone \in Nat /\ n \in Nat /\ DOMAIN Reserved \subseteq 1..arrived /\ IsFiniteSet(DOMAIN Reserved)
      /\ deleteSearchIdx \in Nat /\ Cardinality(Unsearched) \in Nat /\ arrived \in Nat
      /\ deleteSearchIdx + Cardinality(Unsearched) <= arrived
      /\ \A k \in DOMAIN Reserved : k <= Gone + deleteSearchIdx + Cardinality(Unsearched)
  BY <1>1, QueueFacts, ReservedFacts, UnsearchedFacts
<1>8. ListOK' /\ Searched'
  <2>1. /\ DOMAIN deleteReservationList' \subseteq DOMAIN Reserved
        /\ deleteReservationList' \in [DOMAIN deleteReservationList' -> Int]
        /\ deleteSearchIdx' \in Nat /\ deleteSearchIdx' <= deleteSearchIdx + Cardinality(Unsearched)
        /\ Cardinality(DOMAIN deleteReservationList') <= deleteSearchIdx'
        /\ deleteSearchIdx + Cardinality(Unsearched) <= n + deleteSearchIdx'
    BY <1>3 DEF Shortened
  <2>2. IsFiniteSet(DOMAIN deleteReservationList')
    BY <1>7, <2>1, FS_Subset
  <2>3. \A k \in DOMAIN deleteReservationList' : k <= Gone' + deleteSearchIdx'
    <3>1. ASSUME NEW k \in DOMAIN deleteReservationList' PROVE k <= Gone' + deleteSearchIdx'
      <4>1. k \in Int /\ k <= Gone + deleteSearchIdx + Cardinality(Unsearched)
        BY <1>7, <2>1
      <4> QED BY <1>5, <1>7, <2>1, <4>1
    <3> QED BY <3>1
  <2>4. deleteSearchIdx' <= arrived'
    BY <1>2, <1>7, <2>1
  <2>5. DOMAIN deleteReservationList' \subseteq 1..arrived'
    BY <1>2, <1>7, <2>1
  <2> QED BY <2>1, <2>2, <2>3, <2>4, <2>5 DEF ListOK, Searched
<1>9. Limited'
  BY <1>2 DEF Limited, NoRound, Limits
<1>10. WindowsOK'
  BY <1>1, <1>2 DEF Base, WindowsOK
<1> QED BY <1>5, <1>6, <1>8, <1>9, <1>10 DEF IInv, Base, PerWindow

-----------------------------------------------------------------------------
(* The inductive invariant and what follows from it.                       *)
LEMMA InitIInv == Init => IInv
<1> SUFFICES ASSUME Init PROVE IInv
  OBVIOUS
<1>1. /\ deployed \in Deployments /\ queue = <<>> /\ deleteSearchIdx = 0 /\ deleteReservationList = <<>>
      /\ limits = NoRound /\ clock = 0 /\ stamp = 0 /\ triggers = 0 /\ arrived = 0
      /\ state = [w \in Windows |-> "gone"] /\ lastRecvTime = [w \in Windows |-> 0]
      /\ notifiedTime = [w \in Windows |-> 0] /\ reading = [w \in Windows |-> NoTrigger]
      /\ times = [w \in Windows |-> [k \in 1..MaxTuples |-> 0]] /\ due = [w \in Windows |-> {}]
  BY DEF Init
<1>2. Len(queue) = 0 /\ Gone = 0
  <2>1. queue = <<>> /\ arrived = 0
    BY <1>1
  <2>2. Len(queue) = 0
    BY <2>1
  <2>3. Gone = arrived - Len(queue)
    BY DEF Gone
  <2>4. arrived = 0
    BY <2>1
  <2> QED BY <2>2, <2>3, <2>4
<1>3. QueueOK
  BY <1>1 DEF QueueOK
<1>4. DOMAIN deleteReservationList = {}
  BY <1>1
<1>5. ListOK
  BY <1>1, <1>4 DEF ListOK
<1>6. Searched
  BY <1>1, <1>2, <1>4, FS_EmptySet DEF Searched
<1>7. CountersOK
  BY <1>1, Constants DEF CountersOK
<1>8. Limited
  BY <1>1 DEF Limited, NoRound, Limits
<1>9. InOrder
  BY <1>1, <1>2 DEF InOrder
<1>10. WindowsOK
  <2>1. 0 \in Times /\ [k \in 1..MaxTuples |-> 0] \in [1..MaxTuples -> Nat]
        /\ NoTrigger \in Readings /\ NoTrigger.recv = 0
    BY Constants DEF Times, NoTrigger, Readings
  <2> QED BY <1>1, <2>1 DEF WindowsOK
<1>11. ASSUME NEW w \in Windows PROVE DueIn(w) /\ Handed(w)
  <2>1. \A k \in 1..MaxTuples : times[w][k] = 0
    BY <1>1
  <2>2. due[w] = {} /\ reading[w] = NoTrigger
    BY <1>1
  <2>3. OnceRange(w) /\ OnceRows(w) /\ TwiceRows(w) /\ OnceAll(w)
    <3>1. 0 \in 0..arrived /\ ~(0 > Gone) /\ 1..Len(queue) = {}
      BY <1>1, <1>2
    <3>2. OnceRange(w) /\ OnceAll(w)
      BY <2>1, <3>1 DEF OnceRange, OnceAll
    <3>3. OnceRows(w) /\ TwiceRows(w)
      BY <2>1, <2>2, <3>1 DEF OnceRows, TwiceRows
    <3> QED BY <3>2, <3>3
  <2> QED BY <2>1, <2>2, <2>3 DEF DueIn, Handed
<1> QED BY <1>3, <1>5, <1>6, <1>7, <1>8, <1>9, <1>10, <1>11 DEF IInv, Base, PerWindow

LEMMA NextIInv == IInv /\ [Next]_vars => IInv'
<1> SUFFICES ASSUME IInv, [Next]_vars PROVE IInv'
  OBVIOUS
<1>1. CASE Tick
  BY <1>1, TickStep
<1>2. ASSUME NEW batch \in Batches, AddTuple(batch) PROVE IInv'
  BY <1>2, AddTupleBase, AddTuplePerWindow DEF IInv, PerWindow
<1>3. ASSUME NEW w \in Windows, NEW ref \in RecentTimes, NEW n \in 1..MaxBatch, Trigger(w, ref, n)
      PROVE  IInv'
  BY <1>3, TriggerStep
<1>4. ASSUME NEW w \in Windows, Read(w) PROVE IInv'
  BY <1>4, ReadStep
<1>5. ASSUME NEW w \in Windows, AddQueueListener(w) PROVE IInv'
  BY <1>5, AddQueueListenerStep
<1>6. ASSUME NEW w \in Windows, AddQueueReferrer(w) PROVE IInv'
  BY <1>6, AddQueueReferrerStep
<1>7. ASSUME NEW w \in Windows, RemoveWindow(w) PROVE IInv'
  BY <1>7, RemoveWindowStep
<1>8. CASE DeleteLimits
  BY <1>8, DeleteLimitsStep
<1>9. CASE DeleteQueue
  BY <1>9, DeleteQueueStep
<1>10. CASE UNCHANGED vars
  <2>1. UNCHANGED <<queue, deleteVars, stamp, triggers, arrived, clock, windowVars>>
    BY <1>10 DEF vars, deleteVars, windowVars
  <2>2. Base /\ PerWindow
    BY DEF IInv
  <2>3. Base'
    BY <2>1, <2>2 DEF Base, QueueOK, ListOK, CountersOK, WindowsOK, InOrder, Searched, Limited, Gone,
                      deleteVars, windowVars
  <2>4. PerWindow'
    BY <2>1, <2>2, SameWindow DEF PerWindow, windowVars
  <2> QED BY <2>3, <2>4 DEF IInv
<1> QED BY <1>1, <1>2, <1>3, <1>4, <1>5, <1>6, <1>7, <1>8, <1>9, <1>10 DEF Next

LEMMA AlwaysIInv == Spec => []IInv
  BY InitIInv, NextIInv, PTL DEF Spec

(* The tuples of the queue, the reservations and the times of the windows  *)
(* stay what addTuple, deleteQueue and the windows take them for.          *)
THEOREM TypeCorrect == Spec => []TypeOK
<1>1. IInv => TypeOK
  <2> SUFFICES ASSUME IInv PROVE TypeOK
    OBVIOUS
  <2>1. QueueOK /\ ListOK /\ CountersOK /\ WindowsOK /\ Searched /\ Limited
    BY DEF IInv, Base
  <2>2. /\ stamp \in 0..MaxTuples + MaxTriggers /\ deleteSearchIdx \in 0..MaxTuples
    BY <2>1, Constants DEF CountersOK, Searched
  <2>3. lastRecvTime \in [Windows -> 0..stamp]
    BY <2>1, <2>2 DEF WindowsOK
  <2>4. reading \in [Windows -> [recv : 0..stamp, ref : Times, num : 0..MaxBatch]]
    <3>1. ASSUME NEW w \in Windows PROVE reading[w] \in [recv : 0..stamp, ref : Times, num : 0..MaxBatch]
      <4>1. reading[w] \in Readings /\ reading[w].recv <= stamp
        BY <2>1 DEF WindowsOK
      <4> QED BY <2>2, <4>1, Constants DEF Readings
    <3> QED BY <2>1, <3>1 DEF WindowsOK
  <2> QED BY <2>1, <2>2, <2>3, <2>4 DEF TypeOK, QueueOK, ListOK, CountersOK, WindowsOK, Limited,
                                        Limits, TupleSet, Times
<1> QED BY <1>1, AlwaysIInv, PTL

(* deleteQueue: the reservations together never count more tuples than     *)
(* deleteSearchIdx has gone through, and none that is searched again.      *)
THEOREM ReservationsInside == Spec => []ReservationsSearched
<1>1. IInv => ReservationsSearched
  <2> SUFFICES ASSUME IInv PROVE ReservationsSearched
    OBVIOUS
  <2>1. Base /\ Searched
    BY DEF IInv, Base
  <2>2. ASSUME NEW k \in Unsearched PROVE queue[k].id \notin DOMAIN deleteReservationList
    <3>1. queue[k].id = Gone + k /\ k > deleteSearchIdx /\ k \in Int /\ Gone \in Nat /\ deleteSearchIdx \in Nat
      BY <2>1, QueueFacts, UnsearchedFacts
    <3>2. ~(queue[k].id <= Gone + deleteSearchIdx)
      BY <3>1
    <3> QED BY <2>1, <3>2 DEF Searched
  <2> QED BY <2>1, <2>2 DEF Searched, ReservationsSearched, Total
<1> QED BY <1>1, AlwaysIInv, PTL

(* getTupleSet in its three forms: no window is handed a tuple again that  *)
(* it was handed before, a row window of another master stream not a third *)
(* time.                                                                   *)
THEOREM HandedOnlyOnce == Spec => []HandedOnce
<1>1. IInv => HandedOnce
  <2> SUFFICES ASSUME IInv, NEW w \in Windows, NEW k \in 1..MaxTuples, ~Win[w].dup
               PROVE  /\ Win[w].kind = "range" => times[w][k] <= 1
                      /\ Win[w].kind = "rows"  => times[w][k] <= IF Win[w].own THEN 1 ELSE 2
                      /\ Win[w].kind = "all" /\ Win[w].own => times[w][k] <= 1
    BY DEF HandedOnce
  <2>1. Handed(w)
    BY DEF IInv, PerWindow
  <2> QED BY <2>1 DEF Handed, OnceRange, OnceRows, TwiceRows, OnceAll
<1> QED BY <1>1, AlwaysIInv, PTL

(* deleteQueue against the row windows of other master streams: what a     *)
(* window is still to be handed is in the queue, and the next read of the  *)
(* window finds it.                                                        *)
THEOREM DueRowsKept == Spec => []RowsDueKept
<1>1. IInv => RowsDueKept
  <2> SUFFICES ASSUME IInv, NEW w \in Windows, NEW i \in due[w]
               PROVE  i \in Ids(queue, RowsSince(queue, Win[w].size, lastRecvTime[w]))
    BY DEF RowsDueKept
  <2>1. Base /\ DueIn(w)
    BY DEF IInv, PerWindow
  <2>2. /\ Gone \in Nat /\ Len(queue) \in Nat /\ arrived = Gone + Len(queue) /\ Win[w].size \in Nat
        /\ \A k \in 1..Len(queue) : queue[k].id = Gone + k /\ queue[k].recv \in Int
        /\ lastRecvTime[w] \in Nat
    BY <2>1, QueueFacts, Constants
  <2>3. i > arrived - Win[w].size /\ i > Gone /\ queue[i - Gone].recv > lastRecvTime[w] /\ i \in 1..arrived
    BY <2>1 DEF DueIn, Base, WindowsOK
  <2>4. PICK k : k = i - Gone
    OBVIOUS
  <2>5. /\ k \in 1..Len(queue) /\ k > Len(queue) - Win[w].size /\ queue[k].id = i
        /\ queue[k].recv > lastRecvTime[w]
    BY <2>2, <2>3, <2>4
  <2>6. \A j \in k..Len(queue) : queue[j].recv > lastRecvTime[w]
    <3>1. ASSUME NEW j \in k..Len(queue) PROVE queue[j].recv > lastRecvTime[w]
      <4>1. j \in 1..Len(queue) /\ k <= j
        BY <2>2, <2>5
      <4>2. queue[k].recv <= queue[j].recv
        BY <2>1, <2>5, <4>1 DEF Base, InOrder
      <4>3. queue[k].recv \in Int /\ queue[j].recv \in Int /\ lastRecvTime[w] \in Int
        BY <2>2, <2>5, <4>1
      <4> QED BY <2>5, <4>2, <4>3
    <3> QED BY <3>1
  <2>7. k \in RowsSince(queue, Win[w].size, lastRecvTime[w])
    BY <2>5, <2>6 DEF RowsSince, Newest
  <2> QED BY <2>5, <2>7 DEF Ids
<1> QED BY <1>1, AlwaysIInv, PTL
=============================================================================
