-------------------------- MODULE TupleQueue_proofs --------------------------
(***************************************************************************)
(* Theorems about TupleQueue, for every number of receivers and workers    *)
(* and every capacity.                                                     *)
(***************************************************************************)
EXTENDS TupleQueue, FiniteSetTheorems, TLAPS

-----------------------------------------------------------------------------
(* No step breaks type correctness.                                        *)
LEMMA TypeStep == TypeOK /\ [Next]_vars => TypeOK'
<1> SUFFICES ASSUME TypeOK, [Next]_vars PROVE TypeOK'
  OBVIOUS
<1> USE QueueAssumption DEF TypeOK, Threads
<1>1. CASE UNCHANGED vars
  BY <1>1 DEF vars
<1>2. ASSUME NEW p \in Producers, NEW b \in Batch, PushWait(p, b) PROVE TypeOK'
  BY <1>2 DEF PushWait
<1>3. ASSUME NEW p \in Producers, NEW b \in Batch, PushDone(p, b) PROVE TypeOK'
  <2>1. Len(q_) < Capacity
    BY <1>3 DEF PushDone, Full
  <2>2. q_' \in Seq(Batch) /\ Len(q_') = Len(q_) + 1
    BY <1>3 DEF PushDone
  <2>3. waitSet' \subseteq waitSet
    BY <1>3 DEF PushDone, NotifyOne
  <2>4. pushing' \in [Producers -> Batch \cup {NoBatch}]
    BY <1>3 DEF PushDone
  <2>5. \A r \in Producers \cap waitSet' : pushing'[r] # NoBatch
    BY <1>3, <2>3 DEF PushDone
  <2> QED BY <2>1, <2>2, <2>3, <2>4, <2>5
<1>4. ASSUME NEW c \in Consumers, PopWait(c) PROVE TypeOK'
  BY <1>4 DEF PopWait
<1>5. ASSUME NEW c \in Consumers, PopDone(c) PROVE TypeOK'
  <2>1. q_' \in Seq(Batch) /\ Len(q_') = Len(q_) - 1
    BY <1>5 DEF PopDone
  <2>2. waitSet' \subseteq waitSet /\ pushing' = pushing
    BY <1>5 DEF PopDone, NotifyOne
  <2> QED BY <2>1, <2>2
<1>6. ASSUME NEW t \in Threads, SpuriousWakeup(t) PROVE TypeOK'
  BY <1>6 DEF SpuriousWakeup
<1> QED
  BY <1>1, <1>2, <1>3, <1>4, <1>5, <1>6 DEF Next, Push, Pop

(* Type correctness: the queue never holds more than Capacity batches, and *)
(* a parked receiver is always inside a Push it has not finished.          *)
THEOREM TypeCorrect == Spec => []TypeOK
<1>1. Init => TypeOK
  BY QueueAssumption DEF Init, TypeOK
<1> QED
  BY <1>1, TypeStep, PTL DEF Spec

-----------------------------------------------------------------------------
(* What a step does to the three numbers the invariants speak of.          *)
n == Len(q_)
nP == Cardinality(Producers)
nC == Cardinality(Consumers)

Numbers ==
    /\ n \in 0..Capacity
    /\ waitingProducers \in 0..nP
    /\ waitingConsumers \in 0..nC
    /\ nP \in Nat \ {0}
    /\ nC \in Nat \ {0}
    /\ Capacity \in Nat \ {0}

OneWakes ==
    \/ /\ waitingProducers' = waitingProducers - 1
       /\ waitingConsumers' = waitingConsumers
    \/ /\ waitingProducers' = waitingProducers
       /\ waitingConsumers' = waitingConsumers - 1

NobodyMoves ==
    /\ waitingProducers' = waitingProducers
    /\ waitingConsumers' = waitingConsumers

Notified ==
    \/ OneWakes
    \/ (waitingProducers = 0 /\ waitingConsumers = 0 /\ NobodyMoves)

Effect ==
    \/ n' = n /\ NobodyMoves
    \/ n' = n /\ OneWakes
    \/ /\ n = Capacity /\ n' = n
       /\ waitingProducers' = waitingProducers + 1
       /\ waitingConsumers' = waitingConsumers
    \/ /\ n = 0 /\ n' = n
       /\ waitingProducers' = waitingProducers
       /\ waitingConsumers' = waitingConsumers + 1
    \/ n < Capacity /\ n' = n + 1 /\ Notified
    \/ n > 0 /\ n' = n - 1 /\ Notified

(* How many of a finite set wait is a number of at most its size.          *)
LEMMA CountBound ==
    ASSUME NEW S, IsFiniteSet(S), NEW W
    PROVE  /\ IsFiniteSet(S \cap W)
           /\ Cardinality(S) \in Nat
           /\ Cardinality(S \cap W) \in 0..Cardinality(S)
           /\ Cardinality(S \cap W) = Cardinality(S) <=> S \subseteq W
<1>1. IsFiniteSet(S \cap W) /\ Cardinality(S \cap W) <= Cardinality(S)
  BY FS_Subset, S \cap W \subseteq S
<1>2. Cardinality(S) \in Nat /\ Cardinality(S \cap W) \in Nat
  BY <1>1, FS_CardinalityType
<1>3. Cardinality(S \cap W) = Cardinality(S) => S \cap W = S
  BY FS_Subset, S \cap W \subseteq S
<1>4. S \subseteq W => S \cap W = S
  OBVIOUS
<1>5. S \cap W = S => S \subseteq W
  OBVIOUS
<1> QED
  BY <1>1, <1>2, <1>3, <1>4, <1>5

(* When a thread starts to wait, only the count of its own side grows.     *)
LEMMA CountAdd ==
    ASSUME NEW S, IsFiniteSet(S), NEW W, NEW t, t \notin W
    PROVE  Cardinality(S \cap (W \cup {t})) =
              IF t \in S THEN Cardinality(S \cap W) + 1 ELSE Cardinality(S \cap W)
<1>1. IsFiniteSet(S \cap W)
  BY CountBound
<1>2. CASE t \in S
  <2>1. S \cap (W \cup {t}) = (S \cap W) \cup {t}
    BY <1>2
  <2> QED BY <1>1, <1>2, <2>1, FS_AddElement
<1>3. CASE t \notin S
  <2>1. S \cap (W \cup {t}) = S \cap W
    BY <1>3
  <2> QED BY <1>3, <2>1
<1> QED BY <1>2, <1>3

(* When a thread is woken, only the count of its own side shrinks.         *)
LEMMA CountRemove ==
    ASSUME NEW S, IsFiniteSet(S), NEW W, NEW t \in W
    PROVE  Cardinality(S \cap (W \ {t})) =
              IF t \in S THEN Cardinality(S \cap W) - 1 ELSE Cardinality(S \cap W)
<1>1. IsFiniteSet(S \cap W)
  BY CountBound
<1>2. S \cap (W \ {t}) = (S \cap W) \ {t}
  OBVIOUS
<1> QED
  BY <1>1, <1>2, FS_RemoveElement

(* The counters of the two sides and of the queue are in their ranges.     *)
LEMMA NumbersOK == TypeOK => Numbers
<1> SUFFICES ASSUME TypeOK PROVE Numbers
  OBVIOUS
<1>1. n \in 0..Capacity /\ Capacity \in Nat \ {0}
  BY QueueAssumption DEF TypeOK, n
<1>2. /\ waitingProducers \in 0..nP /\ nP \in Nat
      /\ waitingConsumers \in 0..nC /\ nC \in Nat
  BY QueueAssumption, CountBound
     DEF waitingProducers, waitingConsumers, nP, nC
<1>3. nP # 0 /\ nC # 0
  BY QueueAssumption, FS_EmptySet DEF nP, nC
<1> QED
  BY <1>1, <1>2, <1>3 DEF Numbers

(* Waking one thread takes one from the count of one side.                 *)
LEMMA WakeEffect ==
    ASSUME TypeOK, NEW t \in waitSet, waitSet' = waitSet \ {t}
    PROVE  OneWakes
<1>1. /\ waitingProducers' = IF t \in Producers THEN waitingProducers - 1 ELSE waitingProducers
      /\ waitingConsumers' = IF t \in Consumers THEN waitingConsumers - 1 ELSE waitingConsumers
  BY QueueAssumption, CountRemove DEF waitingProducers, waitingConsumers
<1>2. (t \in Producers /\ t \notin Consumers) \/ (t \notin Producers /\ t \in Consumers)
  BY QueueAssumption DEF TypeOK, Threads
<1> QED
  BY <1>1, <1>2 DEF OneWakes

(* notify_one of Push and Pop wakes one thread of either side, or, when    *)
(* none waits, nobody.                                                     *)
LEMMA NotifyEffect ==
    ASSUME TypeOK, NotifyOne
    PROVE  Notified
<1>1. CASE waitSet = {}
  <2>1. waitSet' = waitSet
    BY <1>1 DEF NotifyOne
  <2>2. NobodyMoves
    BY <2>1 DEF NobodyMoves, waitingProducers, waitingConsumers
  <2>3. waitingProducers = 0 /\ waitingConsumers = 0
    <3>1. Producers \cap waitSet = {} /\ Consumers \cap waitSet = {}
      BY <1>1
    <3> QED BY <3>1, FS_EmptySet DEF waitingProducers, waitingConsumers
  <2> QED BY <2>2, <2>3 DEF Notified
<1>2. CASE waitSet # {}
  BY <1>2, WakeEffect DEF NotifyOne, Notified
<1> QED BY <1>1, <1>2

(* Every step of Push, Pop or a spurious wakeup, seen through the counters.*)
LEMMA StepEffect == TypeOK /\ [Next]_vars => Effect
<1> SUFFICES ASSUME TypeOK, [Next]_vars PROVE Effect
  OBVIOUS
<1>1. CASE UNCHANGED vars
  BY <1>1 DEF vars, Effect, NobodyMoves, n, waitingProducers, waitingConsumers
<1>2. ASSUME NEW p \in Producers, NEW b \in Batch, PushWait(p, b) PROVE Effect
  <2>1. p \notin Consumers /\ p \notin waitSet /\ waitSet' = waitSet \cup {p}
    BY <1>2, QueueAssumption DEF PushWait
  <2>2. waitingProducers' = waitingProducers + 1 /\ waitingConsumers' = waitingConsumers
    BY <2>1, QueueAssumption, CountAdd DEF waitingProducers, waitingConsumers
  <2>3. n = Capacity /\ n' = n
    BY <1>2 DEF PushWait, Full, n
  <2> QED BY <2>2, <2>3 DEF Effect
<1>3. ASSUME NEW p \in Producers, NEW b \in Batch, PushDone(p, b) PROVE Effect
  <2>1. Notified
    BY <1>3, NotifyEffect DEF PushDone
  <2>2. n < Capacity /\ n' = n + 1
    BY <1>3, QueueAssumption DEF PushDone, Full, n, TypeOK
  <2> QED BY <2>1, <2>2 DEF Effect
<1>4. ASSUME NEW c \in Consumers, PopWait(c) PROVE Effect
  <2>1. c \notin Producers /\ c \notin waitSet /\ waitSet' = waitSet \cup {c}
    BY <1>4, QueueAssumption DEF PopWait
  <2>2. waitingConsumers' = waitingConsumers + 1 /\ waitingProducers' = waitingProducers
    BY <2>1, QueueAssumption, CountAdd DEF waitingProducers, waitingConsumers
  <2>3. n = 0 /\ n' = n
    BY <1>4 DEF PopWait, n
  <2> QED BY <2>2, <2>3 DEF Effect
<1>5. ASSUME NEW c \in Consumers, PopDone(c) PROVE Effect
  <2>1. Notified
    BY <1>5, NotifyEffect DEF PopDone
  <2>2. n > 0 /\ n' = n - 1
    BY <1>5 DEF PopDone, n, TypeOK
  <2> QED BY <2>1, <2>2 DEF Effect
<1>6. ASSUME NEW t \in Threads, SpuriousWakeup(t) PROVE Effect
  <2>1. OneWakes
    BY <1>6, WakeEffect DEF SpuriousWakeup
  <2>2. n' = n
    BY <1>6 DEF SpuriousWakeup, n
  <2> QED BY <2>1, <2>2 DEF Effect
<1> QED
  BY <1>1, <1>2, <1>3, <1>4, <1>5, <1>6 DEF Next, Push, Pop

-----------------------------------------------------------------------------
(* With no more receivers and no more workers than places in the queue,    *)
(* receivers and workers never wait at the same time.                      *)
THEOREM OneSideWaitsAlways == ASSUME EnoughRoom PROVE Spec => []OneSideWaits
<1>1. Init => OneSideWaits
  <2> SUFFICES ASSUME Init PROVE Draining
    BY DEF OneSideWaits
  <2>1. Producers \cap waitSet = {} /\ Consumers \cap waitSet = {}
    BY DEF Init
  <2> QED BY <2>1, FS_EmptySet DEF Draining, waitingProducers, waitingConsumers
<1>2. TypeOK /\ OneSideWaits /\ [Next]_vars => OneSideWaits'
  <2> SUFFICES ASSUME TypeOK, OneSideWaits, [Next]_vars PROVE OneSideWaits'
    OBVIOUS
  <2>1. Effect /\ Numbers /\ nP <= Capacity /\ nC <= Capacity
    BY StepEffect, NumbersOK, EnoughRoom DEF EnoughRoom, nP, nC
  <2>2. OneSideWaits <=>
          \/ waitingProducers = 0 /\ (waitingConsumers = 0 \/ waitingConsumers + n <= nC)
          \/ waitingConsumers = 0 /\ (waitingProducers = 0 \/ waitingProducers + Capacity <= nP + n)
    BY DEF OneSideWaits, Draining, Filling, n, nP, nC
  <2>3. OneSideWaits' <=>
          \/ waitingProducers' = 0 /\ (waitingConsumers' = 0 \/ waitingConsumers' + n' <= nC)
          \/ waitingConsumers' = 0 /\ (waitingProducers' = 0 \/ waitingProducers' + Capacity <= nP + n')
    BY DEF OneSideWaits, Draining, Filling, n, nP, nC
  <2>4. waitingProducers' \in Nat /\ waitingConsumers' \in Nat /\ waitingConsumers' <= nC
        /\ waitingProducers' <= nP
    <3>1. TypeOK'
      BY TypeStep
    <3>2. waitingProducers' \in 0..nP /\ waitingConsumers' \in 0..nC
      BY <3>1, QueueAssumption, CountBound
         DEF waitingProducers, waitingConsumers, nP, nC
    <3> QED BY <2>1, <3>2 DEF Numbers
  <2> HIDE DEF n, nP, nC
  <2> QED
    BY <2>1, <2>2, <2>3, <2>4 DEF Effect, Numbers, Notified, OneWakes, NobodyMoves
<1> QED
  BY <1>1, <1>2, TypeCorrect, PTL DEF Spec

(* Hence no batch is stranded while all workers are parked, and no room is *)
(* wasted while all receivers are.                                         *)
THEOREM NobodyParkedInVainAlways == ASSUME EnoughRoom PROVE Spec => []NobodyParkedInVain
<1>1. TypeOK /\ OneSideWaits => NobodyParkedInVain
  <2> SUFFICES ASSUME TypeOK, OneSideWaits PROVE NobodyParkedInVain
    OBVIOUS
  <2>1. Numbers /\ nP <= Capacity /\ nC <= Capacity
    BY NumbersOK, EnoughRoom DEF EnoughRoom, nP, nC
  <2>2. ASSUME n # 0 PROVE waitingConsumers # nC
    BY <2>1, <2>2 DEF OneSideWaits, Draining, Filling, Numbers, n, nP, nC
  <2>3. ASSUME n # Capacity PROVE waitingProducers # nP
    BY <2>1, <2>3 DEF OneSideWaits, Draining, Filling, Numbers, n, nP, nC
  <2>4. q_ # <<>> => n # 0
    BY DEF TypeOK, n
  <2> QED
    BY <2>2, <2>3, <2>4, QueueAssumption, CountBound
       DEF NobodyParkedInVain, Full, n, nP, nC, waitingProducers, waitingConsumers
<1> QED
  BY <1>1, OneSideWaitsAlways, TypeCorrect, PTL

-----------------------------------------------------------------------------
(* The arithmetic of one step: a receivers and b workers are parked and k  *)
(* batches queued, a1, b1 and k1 afterwards.                               *)
InPhase(MP, MC, a, b, k) ==
    \/ a + Capacity <= MP /\ a + b + k <= MC
    \/ b + Capacity <= MC /\ a + b + Capacity <= MP + k

Moves(a, b, k, a1, b1, k1) ==
    \/ k1 = k /\ a1 = a /\ b1 = b
    \/ k1 = k /\ a1 = a - 1 /\ b1 = b
    \/ k1 = k /\ a1 = a /\ b1 = b - 1
    \/ k = Capacity /\ k1 = k /\ a1 = a + 1 /\ b1 = b
    \/ k = 0 /\ k1 = k /\ a1 = a /\ b1 = b + 1
    \/ k < Capacity /\ k1 = k + 1 /\ a1 = a - 1 /\ b1 = b
    \/ k < Capacity /\ k1 = k + 1 /\ a1 = a /\ b1 = b - 1
    \/ k < Capacity /\ k1 = k + 1 /\ a = 0 /\ b = 0 /\ a1 = a /\ b1 = b
    \/ k > 0 /\ k1 = k - 1 /\ a1 = a - 1 /\ b1 = b
    \/ k > 0 /\ k1 = k - 1 /\ a1 = a /\ b1 = b - 1
    \/ k > 0 /\ k1 = k - 1 /\ a = 0 /\ b = 0 /\ a1 = a /\ b1 = b

(* The arithmetic of a step: whatever a Push or Pop does to the counters,  *)
(* one of the two wide phases still holds.                                 *)
LEMMA PhaseStep ==
    ASSUME NEW MP \in Nat, NEW MC \in Nat, Capacity \in Nat, nP \in Nat, nC \in Nat,
           (nP > Capacity /\ MP = nP) \/ (nP <= Capacity /\ MP = Capacity),
           (nC > Capacity /\ MC = nC) \/ (nC <= Capacity /\ MC = Capacity),
           nP + nC <= 2 * Capacity,
           NEW a \in Nat, NEW b \in Nat, NEW k \in Nat, k <= Capacity,
           NEW a1 \in Nat, a1 <= nP, NEW b1 \in Nat, b1 <= nC, NEW k1 \in Nat,
           InPhase(MP, MC, a, b, k), Moves(a, b, k, a1, b1, k1)
    PROVE  InPhase(MP, MC, a1, b1, k1)
<1> HIDE DEF nP, nC
<1>1. CASE a + Capacity <= MP /\ a + b + k <= MC
  BY <1>1 DEF InPhase, Moves
<1>2. CASE b + Capacity <= MC /\ a + b + Capacity <= MP + k
  BY <1>2 DEF InPhase, Moves
<1> QED
  BY <1>1, <1>2 DEF InPhase

(* However the threads are split between the two sides, as long as they    *)
(* are at most twice the capacity, each phase leaves only the surplus of   *)
(* the other side parked.                                                  *)
THEOREM OnlySurplusWaitsAlways == ASSUME FewThreads PROVE Spec => []OnlySurplusWaits
<1>1. Init => OnlySurplusWaits
  <2> SUFFICES ASSUME Init PROVE WideDraining
    BY DEF OnlySurplusWaits
  <2>1. waitingProducers = 0 /\ waitingConsumers = 0 /\ n = 0
    <3>1. Producers \cap waitSet = {} /\ Consumers \cap waitSet = {}
      BY DEF Init
    <3> QED BY <3>1, FS_EmptySet DEF waitingProducers, waitingConsumers, Init, n
  <2>2. nP \in Nat /\ nC \in Nat /\ Capacity \in Nat
    BY QueueAssumption, FS_CardinalityType DEF nP, nC
  <2> QED BY <2>1, <2>2 DEF WideDraining, OrCapacity, n, nP, nC
<1>2. TypeOK /\ OnlySurplusWaits /\ [Next]_vars => OnlySurplusWaits'
  <2> SUFFICES ASSUME TypeOK, OnlySurplusWaits, [Next]_vars PROVE OnlySurplusWaits'
    OBVIOUS
  <2> DEFINE MP == OrCapacity(nP)
             MC == OrCapacity(nC)
  <2>1. Effect /\ Numbers /\ nP + nC <= 2 * Capacity
    BY StepEffect, NumbersOK, FewThreads DEF FewThreads, nP, nC
  <2>2. InPhase(MP, MC, waitingProducers, waitingConsumers, n)
    BY DEF OnlySurplusWaits, WideDraining, WideFilling, InPhase, n, nP, nC
  <2>3. InPhase(MP, MC, waitingProducers', waitingConsumers', n') => OnlySurplusWaits'
    BY DEF OnlySurplusWaits, WideDraining, WideFilling, InPhase, n, nP, nC, OrCapacity
  <2>4. /\ waitingProducers' \in Nat /\ waitingProducers' <= nP
        /\ waitingConsumers' \in Nat /\ waitingConsumers' <= nC
    <3>1. TypeOK'
      BY TypeStep
    <3>2. waitingProducers' \in 0..nP /\ waitingConsumers' \in 0..nC
      BY <3>1, QueueAssumption, CountBound
         DEF waitingProducers, waitingConsumers, nP, nC
    <3> QED BY <2>1, <3>2 DEF Numbers
  <2>5. /\ MP \in Nat /\ MC \in Nat
        /\ (nP > Capacity /\ MP = nP) \/ (nP <= Capacity /\ MP = Capacity)
        /\ (nC > Capacity /\ MC = nC) \/ (nC <= Capacity /\ MC = Capacity)
    BY <2>1 DEF Numbers, OrCapacity
  <2>6. waitingProducers \in Nat /\ waitingConsumers \in Nat /\ n \in 0..Capacity
        /\ nP \in Nat \ {0} /\ nC \in Nat \ {0} /\ Capacity \in Nat \ {0}
    BY <2>1 DEF Numbers
  <2> HIDE DEF n, nP, nC, MP, MC
  <2>7. n' \in Nat
    BY <2>1, <2>6 DEF Effect
  <2>8. Moves(waitingProducers, waitingConsumers, n,
              waitingProducers', waitingConsumers', n')
    BY <2>1 DEF Effect, Moves, Notified, OneWakes, NobodyMoves
  <2> QED
    BY <2>1, <2>2, <2>3, <2>4, <2>5, <2>6, <2>7, <2>8, PhaseStep
<1> QED
  BY <1>1, <1>2, TypeCorrect, PTL DEF Spec

(* Hence receivers and workers never all wait for each other: one shared   *)
(* condition variable with notify_one cannot deadlock the stream.          *)
THEOREM NotEveryoneWaitsAlways == ASSUME FewThreads PROVE Spec => []NotEveryoneWaits
<1>1. TypeOK /\ OnlySurplusWaits => NotEveryoneWaits
  <2> SUFFICES ASSUME TypeOK, OnlySurplusWaits, Threads \subseteq waitSet PROVE FALSE
    BY DEF NotEveryoneWaits
  <2>1. Numbers
    BY NumbersOK
  <2>2. waitingProducers = nP /\ waitingConsumers = nC
    BY QueueAssumption, CountBound
       DEF Threads, waitingProducers, waitingConsumers, nP, nC
  <2> QED
    BY <2>1, <2>2 DEF OnlySurplusWaits, WideDraining, WideFilling, OrCapacity, Numbers, n, nP, nC
<1> QED
  BY <1>1, OnlySurplusWaitsAlways, TypeCorrect, PTL

-----------------------------------------------------------------------------
(* Seen without its threads, every run of TupleQueue is a run of the       *)
(* bounded FIFO: a step accepts a batch at the end, takes the first one,   *)
(* or leaves the queue alone.                                              *)
THEOREM FifoSafety == Spec => Fifo!FifoInit /\ [][Fifo!FifoNext]_q_
<1>1. Init => Fifo!FifoInit
  BY DEF Init, Fifo!FifoInit
<1>2. TypeOK /\ [Next]_vars => [Fifo!FifoNext]_q_
  <2> SUFFICES ASSUME TypeOK, [Next]_vars PROVE [Fifo!FifoNext]_q_
    OBVIOUS
  <2>1. ASSUME NEW p \in Producers, NEW b \in Batch, PushDone(p, b) PROVE Fifo!Accept(b)
    BY <2>1, QueueAssumption DEF PushDone, Full, Fifo!Accept, TypeOK
  <2>2. ASSUME NEW c \in Consumers, PopDone(c) PROVE Fifo!Take
    BY <2>2 DEF PopDone, Fifo!Take
  <2>3. \/ q_' = q_
        \/ \E p \in Producers, b \in Batch : PushDone(p, b)
        \/ \E c \in Consumers : PopDone(c)
    BY DEF Next, Push, Pop, PushWait, PopWait, SpuriousWakeup, vars
  <2> QED
    BY <2>1, <2>2, <2>3 DEF Fifo!FifoNext
<1> QED
  BY <1>1, <1>2, TypeCorrect, PTL DEF Spec
=============================================================================
