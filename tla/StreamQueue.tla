----------------------------- MODULE StreamQueue ------------------------------
(***************************************************************************)
(* One stream of dm2/is (class Queue): tuples arrive in batches, windows   *)
(* take what is new to them, and deleteQueue, once a second, drops what no *)
(* window can still ask for.                                               *)
(*                                                                         *)
(* A window of this stream's own queries is handed tuples inside addTuple, *)
(* under queue_mtx.  A window whose master clause names another stream is  *)
(* triggered by addTuple of that stream: the receive time is stamped there *)
(* and queue_mtx of this stream is taken later (Trigger, then Read).       *)
(*                                                                         *)
(* A tuple is its number of arrival, its timestamp and its receive time.   *)
(* Receive times come from the system's microsecond clock; they are taken  *)
(* to be different for any two calls of addTuple and never to go back.     *)
(***************************************************************************)
EXTENDS Integers, Sequences, FiniteSets, FiniteSetsExt, Functions

CONSTANTS
    Windows,      \* window operators that may refer to this stream
    Win,          \* Win[w]: [kind, size, own, dup], see WindowAssumption
    DefaultNum,   \* QUEUE_DELETE_DEFAULT_RANGE_NUM
    DefaultMsec,  \* QUEUE_DELETE_DEFAULT_RANGE_SEC
    Deployments,  \* sets of windows that are looked at together
    MaxTuples,    \* bound: tuples that ever arrive
    MaxBatch,     \* bound: tuples in one batch
    MaxTriggers,  \* bound: batches of other streams that trigger a window
    MaxTime,      \* bound: the millisecond clock
    MaxLag        \* bound: how old the timestamp of an arriving tuple is

ASSUME WindowAssumption ==
    /\ IsFiniteSet(Windows)
    /\ Win \in [Windows -> [kind : {"rows", "range", "all"}, size : Nat,
                            own : BOOLEAN, dup : BOOLEAN]]
    /\ \A w \in Windows : Win[w].kind # "all" => Win[w].size > 0
    /\ Deployments \subseteq SUBSET Windows

ASSUME LimitAssumption ==
    /\ DefaultNum \in Nat \ {0}
    /\ DefaultMsec \in Nat
    /\ MaxTuples \in Nat /\ MaxBatch \in Nat \ {0}
    /\ MaxTriggers \in Nat /\ MaxTime \in Nat /\ MaxLag \in Nat

VARIABLES
    deployed,               \* the windows whose queries may be registered
    queue,                  \* the deque, oldest arrival first
    deleteSearchIdx,        \* tuples the reservations have gone through
    deleteReservationList,  \* [k]: deleteMsec of the reservation that counts k
    limits,                 \* deleteQueue between its two mutexes, or NoRound
    clock,                  \* milliseconds
    stamp,                  \* the last receive time handed out
    triggers,               \* batches of other streams so far
    arrived,                \* number of the last tuple that arrived
    state,                  \* state[w]: "gone", "listening", "referring"
    lastRecvTime,           \* lastRecvTime[w] of a row window
    notifiedTime,           \* notifiedTime[w] of a range window
    reading,                \* reading[w]: the trigger w is to read for
    times,                  \* history: how often w was handed each tuple
    due                     \* history: newest arrivals w is to be handed yet

vars == <<deployed, queue, deleteSearchIdx, deleteReservationList, limits, clock, stamp,
          triggers, arrived, state, lastRecvTime, notifiedTime, reading, times, due>>

deleteVars == <<deleteSearchIdx, deleteReservationList, limits>>
windowVars == <<deployed, state, lastRecvTime, notifiedTime, reading, times, due>>

NoRound == [num |-> 0, msec |-> 0, blind |-> {}]
NoTrigger == [recv |-> 0, ref |-> 0, num |-> 0]

(* A DeleteReservation {deleteMsec, num} stands for num tuples that were   *)
(* counted together: num is how many of them the list takes to deleteMsec. *)
Total(reservations) == Cardinality(DOMAIN reservations)

TypeOK ==
    /\ deployed \in Deployments
    /\ queue \in Seq([id : 1..MaxTuples, time : (0 - MaxLag)..MaxTime,
                      recv : 1..MaxTuples + MaxTriggers])
    /\ deleteSearchIdx \in 0..MaxTuples
    /\ deleteReservationList \in [DOMAIN deleteReservationList -> Int]
    /\ DOMAIN deleteReservationList \subseteq 1..arrived
    /\ limits.num \in Nat /\ limits.msec \in Nat /\ limits.blind \subseteq Windows
    /\ clock \in 0..MaxTime
    /\ stamp \in 0..MaxTuples + MaxTriggers
    /\ triggers \in 0..MaxTriggers
    /\ arrived \in 0..MaxTuples
    /\ state \in [Windows -> {"gone", "listening", "referring"}]
    /\ lastRecvTime \in [Windows -> 0..stamp]
    /\ notifiedTime \in [Windows -> (0 - MaxLag)..MaxTime]
    /\ reading \in [Windows -> [recv : 0..stamp, ref : (0 - MaxLag)..MaxTime,
                                num : 0..MaxBatch]]
    /\ times \in [Windows -> [1..MaxTuples -> Nat]]
    /\ \A w \in Windows : due[w] \subseteq 1..arrived

Init ==
    /\ deployed \in Deployments
    /\ queue = <<>>
    /\ deleteSearchIdx = 0
    /\ deleteReservationList = <<>>
    /\ limits = NoRound
    /\ clock = 0
    /\ stamp = 0
    /\ triggers = 0
    /\ arrived = 0
    /\ state = [w \in Windows |-> "gone"]
    /\ lastRecvTime = [w \in Windows |-> 0]
    /\ notifiedTime = [w \in Windows |-> 0]
    /\ reading = [w \in Windows |-> NoTrigger]
    /\ times = [w \in Windows |-> [k \in 1..MaxTuples |-> 0]]
    /\ due = [w \in Windows |-> {}]

Newest(n, s) == {k \in 1..Len(s) : k > Len(s) - n}
Ids(s, places) == {s[k].id : k \in places}

-----------------------------------------------------------------------------
(* What a window is handed: getTupleSet in its three forms, as places in   *)
(* the queue.                                                              *)

(* The newest n tuples, up to the first that was not received after last.  *)
(* With several workers the search goes on for a second's worth of older   *)
(* ones; as receive times are stamped under queue_mtx the queue is in      *)
(* their order and both find the same tuples.                              *)
RowsSince(s, n, last) == {k \in Newest(n, s) : \A j \in k..Len(s) : s[j].recv > last}

(* Deliberate fault, see "mutants" in PROJECT.json. *)
InRangeAnew(s, range, notified, ref) ==
    {k \in 1..Len(s) : /\ s[k].time <= ref
                       /\ \A j \in k..Len(s) : s[j].time <= ref => s[j].time > ref - range}

(* From the back, passing over what is newer than ref, up to the first     *)
(* tuple that is not newer than the range and what was notified before.    *)
InRange(s, range, notified, ref) ==
    {k \in 1..Len(s) :
        /\ s[k].time <= ref
        /\ \A j \in k..Len(s) : s[j].time <= ref => s[j].time > ref - range /\ s[j].time > notified}

(* s: the queue; ref and n: first timestamp and size of the batch.  The    *)
(* form with all tuples of the batch passes a time in milliseconds where a *)
(* receive time in microseconds is meant, which every tuple is newer than. *)
HandedTo(w, s, ref, n) ==
    CASE Win[w].kind = "rows"  -> RowsSince(s, Win[w].size, lastRecvTime[w])
      [] Win[w].kind = "range" -> InRange(s, Win[w].size, notifiedTime[w], ref)
      [] Win[w].kind = "all"   -> Newest(n, s)

(* notifiedTime after being handed these places of s: the time of the      *)
(* first tuple of the tuple set, which is the last one in the queue.       *)
NotifiedAfter(w, s, places) ==
    IF places = {} \/ Win[w].kind # "range" \/ Win[w].dup THEN notifiedTime[w]
    ELSE s[Max(places)].time

Counted(w, ids) == [k \in 1..MaxTuples |-> times[w][k] + IF k \in ids THEN 1 ELSE 0]

-----------------------------------------------------------------------------
Tick == /\ clock < MaxTime
        /\ clock' = clock + 1
        /\ UNCHANGED <<queue, deleteVars, stamp, triggers, arrived, windowVars>>

(* Queue::addTuple: stamp, append, and hand the batch to every window that *)
(* listens here, all in the critical section of queue_mtx.                 *)
AddTuple(batch) ==
    /\ arrived + Len(batch) <= MaxTuples
    /\ stamp' = stamp + 1
    /\ arrived' = arrived + Len(batch)
    /\ queue' = queue \o [k \in 1..Len(batch) |->
                             [id |-> arrived + k, time |-> batch[k], recv |-> stamp']]
    /\ LET own == {w \in Windows : Win[w].own /\ state[w] # "gone"}
           handed == [w \in own |-> HandedTo(w, queue', batch[1], Len(batch))]
       IN  /\ lastRecvTime' = [w \in Windows |-> IF w \in own /\ Win[w].kind = "rows"
                                                 THEN stamp' ELSE lastRecvTime[w]]
           /\ notifiedTime' = [w \in Windows |-> IF w \in own
                                                 THEN NotifiedAfter(w, queue', handed[w])
                                                 ELSE notifiedTime[w]]
           /\ times' = [w \in Windows |-> IF w \in own THEN Counted(w, Ids(queue', handed[w]))
                                         ELSE times[w]]
    /\ due' = [w \in Windows |->
                 IF ~Win[w].own /\ Win[w].kind = "rows" /\ state[w] = "referring"
                 THEN {k \in due[w] \cup arrived + 1..arrived' : k > arrived' - Win[w].size}
                 ELSE due[w]]
    /\ UNCHANGED <<deployed, deleteVars, clock, triggers, state, reading>>

(* addTuple of the master stream of w stamps a batch of n tuples ...       *)
Trigger(w, ref, n) ==
    /\ ~Win[w].own /\ state[w] # "gone"
    /\ reading[w] = NoTrigger
    /\ Win[w].kind # "range" => ref = clock
    /\ Win[w].kind # "all" => n = 1
    /\ triggers < MaxTriggers
    /\ triggers' = triggers + 1
    /\ stamp' = stamp + 1
    /\ reading' = [reading EXCEPT ![w] = [recv |-> stamp', ref |-> ref, num |-> n]]
    /\ UNCHANGED <<deployed, queue, deleteVars, clock, arrived, state, lastRecvTime,
                   notifiedTime, times, due>>

(* ... and reads this stream through QueueManager::getTupleSet.            *)
Read(w) ==
    /\ reading[w] # NoTrigger
    /\ LET handed == HandedTo(w, queue, reading[w].ref, reading[w].num)
       IN  /\ notifiedTime' = [notifiedTime EXCEPT ![w] = NotifiedAfter(w, queue, handed)]
           /\ times' = [times EXCEPT ![w] = Counted(w, Ids(queue, handed))]
    /\ lastRecvTime' = [lastRecvTime EXCEPT
                          ![w] = IF Win[w].kind = "rows" THEN reading[w].recv ELSE @]
    /\ reading' = [reading EXCEPT ![w] = NoTrigger]
    /\ due' = [due EXCEPT ![w] = {}]
    /\ UNCHANGED <<deployed, queue, deleteVars, clock, stamp, triggers, arrived, state>>

-----------------------------------------------------------------------------
(* WindowOperator's constructor: listener of the master, then referrer of  *)
(* the stream; its destructor takes both back, under listener_mtx of the   *)
(* master, so not while that stream hands it something.  The next window   *)
(* in its place is a new object, with its times at 0.                      *)
AddQueueListener(w) ==
    /\ state[w] = "gone"
    /\ w \in deployed
    /\ state' = [state EXCEPT ![w] = "listening"]
    /\ UNCHANGED <<deployed, queue, deleteVars, clock, stamp, triggers, arrived, lastRecvTime,
                   notifiedTime, reading, times, due>>

AddQueueReferrer(w) ==
    /\ state[w] = "listening"
    /\ state' = [state EXCEPT ![w] = "referring"]
    /\ limits' = IF limits = NoRound THEN limits ELSE [limits EXCEPT !.blind = @ \cup {w}]
    /\ UNCHANGED <<deployed, queue, deleteSearchIdx, deleteReservationList, clock, stamp,
                   triggers, arrived, lastRecvTime, notifiedTime, reading, times, due>>

RemoveWindow(w) ==
    /\ state[w] = "referring"
    /\ reading[w] = NoTrigger
    /\ state' = [state EXCEPT ![w] = "gone"]
    /\ lastRecvTime' = [lastRecvTime EXCEPT ![w] = 0]
    /\ notifiedTime' = [notifiedTime EXCEPT ![w] = 0]
    /\ times' = [times EXCEPT ![w] = [k \in 1..MaxTuples |-> 0]]
    /\ due' = [due EXCEPT ![w] = {}]
    /\ UNCHANGED <<deployed, queue, deleteVars, clock, stamp, triggers, arrived, reading>>

-----------------------------------------------------------------------------
(* Queue::deleteQueue, called by one TimerWorker.  First the limits, from  *)
(* the referrers, under referrer_mtx ...                                   *)
Referring(kind) == {w \in Windows : state[w] = "referring" /\ Win[w].kind = kind}

MaxNum ==
    IF Referring("rows") = {} THEN DefaultNum ELSE Max({Win[w].size : w \in Referring("rows")})

MaxMsec == Max({Win[w].size : w \in Referring("range")} \cup {DefaultMsec})

DeleteLimits ==
    /\ limits = NoRound
    /\ queue # <<>>
    /\ limits' = [num |-> MaxNum, msec |-> MaxMsec, blind |-> {}]
    /\ UNCHANGED <<queue, deleteSearchIdx, deleteReservationList, clock, stamp,
                   triggers, arrived, windowVars>>

(* ... then, under queue_mtx: reserve the deletion of the tuples beyond    *)
(* deleteSearchIdx, ...                                                    *)
Unsearched == deleteSearchIdx + 1..Len(queue)

Reserved ==
    LET found == Ids(queue, Unsearched)
        newestTime == Max({0} \cup {queue[k].time : k \in Unsearched})
    IN  [k \in DOMAIN deleteReservationList \cup found |->
            IF k \in found THEN newestTime + limits.msec ELSE deleteReservationList[k]]

Expired == {k \in DOMAIN Reserved : Reserved[k] < clock}
Unexpired == Restrict(Reserved, DOMAIN Reserved \ Expired)

(* ... count what each limit allows to delete, and delete the lesser: n    *)
(* tuples from the front, with the bookkeeping of the one branch or the    *)
(* other.  Deleting by number leaves deleteSearchIdx as it is and takes    *)
(* back the reservations that end before the oldest tuple that is left.    *)
ByTime == Cardinality(Expired)
ByNum  == Len(queue) - limits.num

Since(time) == Restrict(Reserved, {k \in DOMAIN Reserved : Reserved[k] >= time})

DropFront(n) == queue' = SubSeq(queue, n + 1, Len(queue))

(* Deliberate faults, see "mutants" in PROJECT.json. *)
DeleteByTimeAnyway ==
    /\ DropFront(ByTime)
    /\ deleteReservationList' = Unexpired
    /\ deleteSearchIdx' = deleteSearchIdx + Cardinality(Unsearched) - ByTime

DeleteByTimeUnsearched ==
    /\ ByTime <= ByNum
    /\ DropFront(ByTime)
    /\ deleteReservationList' = Unexpired
    /\ deleteSearchIdx' = deleteSearchIdx - ByTime

DeleteByNumRestarting ==
    /\ ByTime > ByNum
    /\ IF ByNum > 0
       THEN /\ DropFront(ByNum)
            /\ deleteReservationList' = Since(queue[ByNum + 1].time)
       ELSE /\ deleteReservationList' = Reserved
            /\ UNCHANGED queue
    /\ deleteSearchIdx' = IF ByNum > 0 THEN 0 ELSE deleteSearchIdx + Cardinality(Unsearched)

DeleteByNum ==
    /\ ByTime > ByNum
    /\ IF ByNum > 0
       THEN /\ DropFront(ByNum)
            /\ deleteReservationList' = Since(queue[ByNum + 1].time)
       ELSE /\ deleteReservationList' = Reserved
            /\ UNCHANGED queue
    /\ deleteSearchIdx' = deleteSearchIdx + Cardinality(Unsearched)

DeleteByTime ==
    /\ ByTime <= ByNum
    /\ DropFront(ByTime)
    /\ deleteReservationList' = Unexpired
    /\ deleteSearchIdx' = deleteSearchIdx + Cardinality(Unsearched) - ByTime

DeleteQueue ==
    /\ limits # NoRound
    /\ DeleteByNum \/ DeleteByTime
    /\ limits' = NoRound
    /\ due' = [w \in Windows |->
                 IF w \in limits.blind THEN due[w] \cap Ids(queue', 1..Len(queue')) ELSE due[w]]
    /\ UNCHANGED <<deployed, clock, stamp, triggers, arrived, state, lastRecvTime, notifiedTime,
                   reading, times>>

-----------------------------------------------------------------------------
RecentTimes == (clock - MaxLag)..clock
Batches == UNION {[1..n -> RecentTimes] : n \in 1..MaxBatch}

Next ==
    \/ Tick
    \/ \E batch \in Batches : AddTuple(batch)
    \/ \E w \in Windows, ref \in RecentTimes, n \in 1..MaxBatch : Trigger(w, ref, n)
    \/ \E w \in Windows :
          Read(w) \/ AddQueueListener(w) \/ AddQueueReferrer(w) \/ RemoveWindow(w)
    \/ DeleteLimits
    \/ DeleteQueue

Spec == Init /\ [][Next]_vars

-----------------------------------------------------------------------------
(* No window is handed a tuple it was handed before: notifiedTime keeps    *)
(* range windows from it whatever the order of timestamps, lastRecvTime    *)
(* row windows.  A row window of another master may see a tuple twice, not *)
(* more often: one that arrives between the stamp and the read is handed   *)
(* over, and again for the next stamp.                                     *)
HandedOnce ==
    \A w \in Windows : \A k \in 1..MaxTuples : ~Win[w].dup =>
        /\ Win[w].kind = "range" => times[w][k] <= 1
        /\ Win[w].kind = "rows"  => times[w][k] <= IF Win[w].own THEN 1 ELSE 2
        /\ Win[w].kind = "all" /\ Win[w].own => times[w][k] <= 1

(* Deletion cannot be seen through a row window: the newest tuples a       *)
(* window has not been handed yet, as many as it may take, are what it     *)
(* will be handed next, whichever of addTuple, the trigger, the read and   *)
(* deleteQueue comes first.  A round that had read its limits before the   *)
(* window registered is the one exception.                                 *)
RowsDueKept ==
    \A w \in Windows :
        due[w] \subseteq Ids(queue, RowsSince(queue, Win[w].size, lastRecvTime[w]))

(* The reservations never speak of more tuples than were searched, so that *)
(* deleteSearchIdx cannot become negative when they are redeemed, and what *)
(* one of them counts is not searched again.                               *)
ReservationsSearched ==
    /\ Total(deleteReservationList) <= deleteSearchIdx
    /\ \A k \in Unsearched : queue[k].id \notin DOMAIN deleteReservationList

(* The comment of deleteQueue: of the time window and the number window    *)
(* the one that deletes less decides, so nothing in the range of time goes.*)
RangeKept ==
    [][\A k \in 1..Len(queue) - Len(queue') : queue[k].time + limits.msec < clock]_vars
=============================================================================
