--------------------------- MODULE PartitionWindow ---------------------------
(***************************************************************************)
(* What a window with ROWS does with the tuples its stream hands it        *)
(* (WindowOperator::process of dm2/is): the filter by hash value, and for  *)
(* PARTITION BY the newest tuples of each key, of which those are sent on  *)
(* that came since the previous call of addTuple.                          *)
(*                                                                         *)
(* "The previous call" is preLastRecvTime, which addTuple of the stream    *)
(* (or of the master stream) moves for every batch, without a lock, while  *)
(* the thread of the operator goes through the tuple sets in its buffer.   *)
(* The map of hash values is shared with a timer, under hashmap_mtx.       *)
(*                                                                         *)
(* A message is what the hash value is taken of; a tuple is one arrival of *)
(* a message, with its number and its receive time.  Receive times count   *)
(* the calls of addTuple, the clock counts what Life is measured in.       *)
(***************************************************************************)
EXTENDS Integers, Sequences, FiniteSets, SequencesExt

CONSTANTS
    Messages,     \* contents of tuples
    Key,          \* Key[m]: the PARTITION BY columns of m
    Time,         \* Time[m]: the timestamp of m
    WindowKinds,  \* the windows to look at, see Window
    Life,         \* defaultDeleteHashSec
    MaxTuples,    \* bound: tuples that ever arrive
    MaxBatch,     \* bound: tuples in one batch
    MaxTriggers,  \* bound: batches of another master stream
    MaxTime       \* bound: the clock

Window == [partition : BOOLEAN, rows : Nat \ {0}, own : BOOLEAN, dup : BOOLEAN]

ASSUME MessageAssumption ==
    /\ Time \in [Messages -> Nat]
    /\ DOMAIN Key = Messages

ASSUME WindowAssumption == WindowKinds \subseteq Window

ASSUME BoundAssumption ==
    /\ Life \in Nat /\ MaxTuples \in Nat /\ MaxBatch \in Nat
    /\ MaxTriggers \in Nat /\ MaxTime \in Nat

VARIABLES
    window,           \* the window: partitioned?, ROWS, own master?, DUPLICATION?
    listening,        \* the stream knows the window
    queue,            \* the tuples of the stream, oldest first
    stamp,            \* the last receive time handed out
    triggers,         \* batches of another master stream so far
    reading,          \* receive time of the batch the window is to read for, or 0
    lastRecvTime,     \* of the window
    preLastRecvTime,  \* of the window
    buffer,           \* tuple sets that wait for the operator
    step,             \* the operator: "idle", "fold" or "send"
    input,            \* tuples of the set it took, still to go through
    todo,             \* places of kept tuples still to look at
    output,           \* the tuples to send on
    latest,           \* latestTuple1 or latestTupleN: a deque for each key
    hashMap,          \* tupleHashMap: when a message was first seen, or NoEntry
    delTime,          \* the limit of a cleaning under way, or NoEntry
    clock,
    taken,            \* history: the numbers of the tuples in the set it took
    sent,             \* history: how often each tuple was sent on
    passed,           \* history: the tuples that passed the filter, and when
    overtaken         \* history: handed over, and a batch came before the end

vars == <<window, listening, queue, stamp, triggers, reading, lastRecvTime,
          preLastRecvTime, buffer, step, input, todo, output, latest, hashMap,
          delTime, clock, taken, sent, passed, overtaken>>

streamVars == <<window, listening, queue, stamp, triggers, reading, lastRecvTime,
                preLastRecvTime, overtaken>>
operatorVars == <<step, input, todo, output, latest, taken, sent, passed>>
hashVars == <<hashMap, delTime>>

NoEntry == -1
Keys == {Key[m] : m \in Messages}
Tuples == [id : 1..MaxTuples, msg : Messages, recv : 1..MaxTuples + MaxTriggers]
Passed == [id : 1..MaxTuples, msg : Messages, at : 0..MaxTime]
Ids(s) == {s[k].id : k \in 1..Len(s)}
Kept == UNION {{k} \X (1..Len(latest[k])) : k \in Keys}

TypeOK ==
    /\ window \in WindowKinds
    /\ listening \in BOOLEAN
    /\ queue \in Seq(Tuples) /\ Len(queue) <= MaxTuples
    /\ triggers \in 0..MaxTriggers
    /\ stamp \in 0..Len(queue) + triggers
    /\ reading \in 0..stamp
    /\ lastRecvTime \in 0..stamp
    /\ preLastRecvTime \in 0..stamp
    /\ buffer \in Seq(Seq(Tuples))
    /\ step \in {"idle", "fold", "send"}
    /\ input \in Seq(Tuples)
    /\ todo \subseteq Kept
    /\ output \in Seq(Tuples)
    /\ latest \in [Keys -> Seq(Tuples)] /\ \A k \in Keys : Len(latest[k]) <= window.rows
    /\ hashMap \in [Messages -> 0..MaxTime \cup {NoEntry}]
    /\ delTime \in 0..MaxTime \cup {NoEntry}
    /\ clock \in 0..MaxTime
    /\ taken \subseteq 1..MaxTuples
    /\ sent \in [1..MaxTuples -> Nat]
    /\ passed \in Seq(Passed)
    /\ overtaken \subseteq 1..MaxTuples

Init ==
    /\ window \in WindowKinds
    /\ listening = FALSE
    /\ queue = <<>>
    /\ stamp = 0
    /\ triggers = 0
    /\ reading = 0
    /\ lastRecvTime = 0
    /\ preLastRecvTime = 0
    /\ buffer = <<>>
    /\ step = "idle"
    /\ input = <<>>
    /\ todo = {}
    /\ output = <<>>
    /\ latest = [k \in Keys |-> <<>>]
    /\ hashMap = [m \in Messages |-> NoEntry]
    /\ delTime = NoEntry
    /\ clock = 0
    /\ taken = {}
    /\ sent = [k \in 1..MaxTuples |-> 0]
    /\ passed = <<>>
    /\ overtaken = {}

Newest(n, s) == IF Len(s) <= n THEN s ELSE SubSeq(s, Len(s) - n + 1, Len(s))

-----------------------------------------------------------------------------
(* addTuple of the stream, or of the master: getTupleSet of what came      *)
(* after lastRecvTime, newest first (all of it for PARTITION BY, as many   *)
(* as ROWS says otherwise), setLastRecvTime, and receiveTupleSet.  The     *)
(* queue is in the order of receive times, so what came before is in front.*)
Seen(q) == Cardinality({i \in 1..Len(q) : q[i].recv <= lastRecvTime})

TupleSet(q) ==
    LET new == SubSeq(q, Seen(q) + 1, Len(q))
    IN  Reverse(IF window.partition THEN new ELSE Newest(window.rows, new))

(* Deliberate faults, see "mutants" in PROJECT.json. *)
SetLastRecvTimeOnly(recvTime) ==
    /\ UNCHANGED preLastRecvTime
    /\ lastRecvTime' = recvTime

SetBothRecvTimes(recvTime) ==
    /\ preLastRecvTime' = recvTime
    /\ lastRecvTime' = recvTime

SetLastRecvTime(recvTime) ==
    /\ preLastRecvTime' = lastRecvTime
    /\ lastRecvTime' = recvTime

Waiting == taken \cup UNION {Ids(buffer[k]) : k \in 1..Len(buffer)}

HandOver(q, recvTime) ==
    /\ SetLastRecvTime(recvTime)
    /\ buffer' = Append(buffer, TupleSet(q))
    /\ overtaken' = overtaken \cup Waiting

(* Queue::addTuple of the window's stream.                                 *)
AddTuple(batch) ==
    /\ Len(queue) + Len(batch) <= MaxTuples
    /\ stamp' = stamp + 1
    /\ queue' = queue \o [k \in 1..Len(batch) |->
                             [id |-> Len(queue) + k, msg |-> batch[k], recv |-> stamp']]
    /\ IF listening /\ window.own THEN HandOver(queue', stamp')
       ELSE UNCHANGED <<lastRecvTime, preLastRecvTime, buffer, overtaken>>
    /\ UNCHANGED <<window, listening, triggers, reading, operatorVars, hashVars, clock>>

(* Queue::addTuple of another master: a receive time of that stream, and   *)
(* then, with the mutex of the window's own stream, the tuples.            *)
Trigger ==
    /\ listening /\ ~window.own
    /\ reading = 0
    /\ triggers < MaxTriggers
    /\ triggers' = triggers + 1
    /\ stamp' = stamp + 1
    /\ reading' = stamp'
    /\ UNCHANGED <<window, listening, queue, lastRecvTime, preLastRecvTime, buffer,
                   overtaken, operatorVars, hashVars, clock>>

Read ==
    /\ reading # 0
    /\ HandOver(queue, reading)
    /\ reading' = 0
    /\ UNCHANGED <<window, listening, queue, stamp, triggers, operatorVars, hashVars, clock>>

AddQueueListener ==
    /\ ~listening
    /\ listening' = TRUE
    /\ UNCHANGED <<window, queue, stamp, triggers, reading, lastRecvTime, preLastRecvTime,
                   overtaken, buffer, operatorVars, hashVars, clock>>

-----------------------------------------------------------------------------
(* WindowOperator::process, in the thread of the operator.                 *)
Take ==
    /\ step = "idle"
    /\ buffer # <<>>
    /\ step' = "fold"
    /\ input' = Head(buffer)
    /\ taken' = Ids(Head(buffer))
    /\ buffer' = Tail(buffer)
    /\ UNCHANGED <<streamVars, todo, output, latest, sent, passed, hashVars, clock>>

(* A deque in the order of timestamps, with t after its equals.            *)
InOrder(dq, t) ==
    LET n == Cardinality({i \in 1..Len(dq) : Time[dq[i].msg] <= Time[t.msg]})
    IN  SubSeq(dq, 1, n) \o <<t>> \o SubSeq(dq, n + 1, Len(dq))

(* Deliberate fault, see "mutants" in PROJECT.json. *)
InsertUnsorted(dq, t) == Newest(window.rows, Append(dq, t))

(* ROWS 1 keeps one tuple until a newer one comes.  ROWS n sorts the       *)
(* deque by timestamp after each tuple, and drops the oldest.  (std::sort  *)
(* leaves equal timestamps in their order up to 16 elements, which is      *)
(* where ROWS is taken to be.)                                             *)
Insert(dq, t) ==
    IF window.rows = 1
    THEN IF dq = <<>> \/ Time[t.msg] > Time[dq[1].msg] THEN <<t>> ELSE dq
    ELSE Newest(window.rows, InOrder(dq, t))

(* matchHash, which stores the message when it is not there, and what is   *)
(* done with a tuple that passes.                                          *)
Match(m) == ~window.dup /\ hashMap[m] # NoEntry

Fold ==
    /\ step = "fold"
    /\ input # <<>>
    /\ LET t == Head(input)
       IN  IF Match(t.msg) THEN UNCHANGED <<hashMap, latest, output, passed>>
           ELSE /\ hashMap' = IF window.dup THEN hashMap
                              ELSE [hashMap EXCEPT ![t.msg] = clock]
                /\ IF window.partition
                   THEN /\ latest' = [latest EXCEPT ![Key[t.msg]] = Insert(@, t)]
                        /\ UNCHANGED output
                   ELSE /\ output' = Append(output, t)
                        /\ UNCHANGED latest
                /\ passed' = Append(passed, [id |-> t.id, msg |-> t.msg, at |-> clock])
    /\ input' = Tail(input)
    /\ UNCHANGED <<streamVars, buffer, step, todo, taken, sent, delTime, clock>>

Folded ==
    /\ step = "fold"
    /\ input = <<>>
    /\ step' = "send"
    /\ todo' = IF window.partition THEN Kept ELSE {}
    /\ UNCHANGED <<streamVars, buffer, input, output, latest, taken, sent, passed,
                   hashVars, clock>>

(* The kept tuples in the order of an unordered_map; preLastRecvTime is    *)
(* read for each of them.                                                  *)
Look(k, i) ==
    /\ <<k, i>> \in todo
    /\ todo' = todo \ {<<k, i>>}
    /\ output' = IF window.dup \/ latest[k][i].recv > preLastRecvTime
                 THEN Append(output, latest[k][i]) ELSE output
    /\ UNCHANGED <<streamVars, buffer, step, input, latest, taken, sent, passed,
                   hashVars, clock>>

Send ==
    /\ step = "send"
    /\ todo = {}
    /\ step' = "idle"
    /\ sent' = [k \in 1..MaxTuples |->
                  sent[k] + Cardinality({i \in 1..Len(output) : output[i].id = k})]
    /\ output' = <<>>
    /\ taken' = {}
    /\ UNCHANGED <<streamVars, buffer, input, todo, latest, passed, hashVars, clock>>

-----------------------------------------------------------------------------
(* Deliberate fault, see "mutants" in PROJECT.json. *)
CleanedFromNow == clock

CleanedFrom == clock - Life

(* deleteHashmap: the limit first, the mutex and the loop after.  A round  *)
(* that starts with nothing to delete finds nothing later and is left out. *)
DeleteHashmapStart ==
    /\ delTime = NoEntry
    /\ \E m \in Messages : hashMap[m] # NoEntry /\ hashMap[m] < CleanedFrom
    /\ delTime' = CleanedFrom
    /\ UNCHANGED <<streamVars, buffer, operatorVars, hashMap, clock>>

DeleteHashmap ==
    /\ delTime # NoEntry
    /\ hashMap' = [m \in Messages |-> IF hashMap[m] < delTime THEN NoEntry ELSE hashMap[m]]
    /\ delTime' = NoEntry
    /\ UNCHANGED <<streamVars, buffer, operatorVars, clock>>

Tick ==
    /\ clock < MaxTime
    /\ clock' = clock + 1
    /\ UNCHANGED <<streamVars, buffer, operatorVars, hashVars>>

Next ==
    \/ \E n \in 1..MaxBatch : \E batch \in [1..n -> Messages] : AddTuple(batch)
    \/ Trigger \/ Read \/ AddQueueListener
    \/ Take \/ Fold \/ Folded \/ Send
    \/ \E place \in todo : Look(place[1], place[2])
    \/ DeleteHashmapStart \/ DeleteHashmap
    \/ Tick

Spec == Init /\ [][Next]_vars

-----------------------------------------------------------------------------
(* For each key the newest of all the tuples that ever passed the filter   *)
(* are kept, whatever the order they came in: of two with one timestamp    *)
(* ROWS 1 prefers the first and ROWS n the last.                           *)
Before(p, i, j) ==
    \/ Time[p[i].msg] > Time[p[j].msg]
    \/ /\ Time[p[i].msg] = Time[p[j].msg]
       /\ IF window.rows = 1 THEN i < j ELSE i > j

NewestKept ==
    window.partition =>
      \A k \in Keys :
        LET mine == {i \in 1..Len(passed) : Key[passed[i].msg] = k}
            kept == {i \in mine :
                       Cardinality({j \in mine : Before(passed, j, i)}) < window.rows}
        IN  /\ Len(latest[k]) = Cardinality(kept)
            /\ Ids(latest[k]) = {passed[i].id : i \in kept}

(* Kept tuples stay for many calls of process, and still a window of its   *)
(* own stream sends each on only once.  A batch of another master may be   *)
(* stamped before and read after a tuple arrived: that tuple is looked at  *)
(* now and, as it is kept, sent on with the next batch again; ROWS n does  *)
(* so once more when the hash value expired and it is kept at two places.  *)
SentOnce ==
    ~window.dup =>
      \A k \in 1..MaxTuples :
        sent[k] <= IF window.own THEN 1 ELSE IF window.partition /\ window.rows > 1 THEN 3 ELSE 2

(* Only a batch that overtakes the operator hides a tuple: the newest of   *)
(* a key that was not sent on when its tuple set was done with had another *)
(* call of addTuple come before that.                                      *)
HiddenOnlyIfOvertaken ==
    step = "idle" =>
      \A k \in Keys : \A i \in 1..Len(latest[k]) :
        sent[latest[k][i].id] > 0 \/ latest[k][i].id \in overtaken

(* A message passes the filter twice only when more than Life is between,  *)
(* however a cleaning meets the operator.                                  *)
CopiesApart ==
    ~window.dup =>
      \A i, j \in 1..Len(passed) :
        i < j /\ passed[i].msg = passed[j].msg => passed[j].at - passed[i].at > Life
=============================================================================
