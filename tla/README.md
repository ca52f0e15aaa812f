# A verification project for dm20

dm20 is a data stream management system for dynamic maps: information servers
(`src/dm2/is`) keep streams of tuples sent by vehicles and road-side stations,
run continuous and one-shot queries over them, and answer applications;
communication servers (`src/dm2/cs`) carry the messages between stations, with
`src/dm2/csLib`, `tupleLib`, `commonLib`, `secLib` and `dmClientLib` as
libraries; `src/dmi` adapts applications.  This directory holds TLA+ models of
the core of the information server and of the communication server, the TLC
configurations that check them and the proofs TLAPS checks.  `PROJECT.json` lists components, runs, mutants, the
source lines of every definition, findings, hazards and theorems.

A path without a directory below is in `src/dm2/is/source`.

## 1. The system

### How a tuple and a query travel

```
 receivers --Push--> TupleQueue --Pop--> workers --addTuple--> Queue (one per stream)
                                                                |  receiveTupleSet
                                                                v
 QueryExecuter  starts / ends           WindowOperator -> Operator -> ... -> ResponseOperator
   ^ addQuery, cancelQuery              (one detached thread and one buffer each)
 QueryManager <--- NetworkSource (one thread per connection) <--- applications, cs servers
```

Receivers push vectors of tuples for a stream; workers of the stream pop them
and call `Queue::addTuple`, which keeps the tuples and hands to every window that
listens what is new to it.  A window is the first operator of a query; each
operator is a thread with a buffer that hands its results to the next.
`TimerWorker` calls `deleteQueue` once a second.  `QueryManager` starts queries
and cancels them when an application asks, a connection ends, or a query fails.
A join or a union has two operators before it and pairs their tuple sets.

```
 programs --UDP--> ProcReceiver --queue--> NwSender (UDP, all peers)  ~~network~~>
  of a station      | registration      \-> NwSender (DTLS, one per peer)
                    v                          | reads, when its flag is up
                lists on disk <----------------/
 ~~network~~> NwReceiver (one per interface) --queue--> ProcSender --UDP--> programs
                 | fragments, cleaned by a thread         | duplicates, cleaned by a thread
```

### Inventory

| Component | State | Operations | Interacts with | Hard behaviour | Correct when |
|---|---|---|---|---|---|
| stream intake: `TupleQueue.cpp`, `BufferQueue.cpp` | the queue, one mutex, one condition variable, capacity | `Push`, `Pop` | receivers push, workers pop | one condition variable and `notify_one` for both sides; full queue | no batch and no thread is stranded; FIFO |
| stream queue: `Queue.cpp` | deque of tuples, listeners, referrers, `deleteSearchIdx`, reservations | `addTuple`, `getTupleSet` (3 forms), listener and referrer registration, `deleteQueue` | workers, windows, other streams, timer | several mutexes, receive time stamped before the lock that orders it, two ways of deleting that share their bookkeeping | a window sees every tuple it is due, once; deletion is invisible to windows |
| windows: `WindowOperator.cpp` | `notifiedTime`, `lastRecvTime`, `preLastRecvTime`, newest tuples of each key, hash map of duplicates | constructor, destructor, `process`, `deleteHashmap` | stream queue, timer | registers before it is fully constructed; compares with times that arrivals move meanwhile | as above; of each key the newest are kept, and each is sent on once |
| operator threads: `Operator.cpp`, `ArrivalTupleNotifier.cpp` | buffer, `data_ready`, `exit_flag`, `operationReady`, `exitReady` | `receiveTupleSet`, `notify_one`, `execute`, `exit`, destructor | previous and next operator, executer | flags and signal outside the mutex; destruction with a timeout while the thread may run | order and completeness of results; nothing reaches a destroyed operator |
| query execution: `QueryExecuter.cpp` | `opeList`, `isExitRun` | `start`, `run`, `startOperator`, `exitExecuter` | QueryManager, operators, LocationManager | run thread outlives or precedes its registration; cancels itself | object deleted once, after its run |
| query registration: `QueryManager.cpp` | `mp`, `sockmng`, `QImapMtx`, counters | `addQuery`, `cancelQuery` (by number, user, socket, federation), preset queries, requests | connections, executers, LocationManager | polls with the mutex held; registers after starting; keys by socket number | nothing leaks, nothing is deleted twice, every cancel returns |
| connections: `NetworkSource.cpp`, `QueryReceiver.cpp` | a thread per socket | `accept`, `sockProcess`, `tcp_session` | QueryManager | use of a socket number after `close` | a closed connection ends its own queries |
| joins, unions: `JoinOperator.cpp`, `UnionOperator.cpp` | `waitQMap`, buffer, schema, conditions, lists of key columns | `receiveTupleSet`, `getTupleSet`, `process` | two operators before, one behind | two sides pair by receive time; what `process` keeps from pair to pair belongs to roles that change places | a pair is never mixed or lost; the result is what the argument asks for |
| other operators | per-operator settings | `process` | operator thread | sequential | relational semantics |
| stream registry: `QueueManager.cpp` | the map of streams | create, remove, look up | receivers, windows | changes without a lock | no use of a removed stream |
| timers: `TimerWorker.h`, `TimerThread.cpp` | flags, condition variable | start, abort, callback | `deleteQueue`, timer stream | missed ticks; callback under the mutex | abort terminates |
| federation: `LocationManager.cpp`, `RequestOperator.cpp` | tasks, requests, results | NEARBY requests, cancel across servers | other servers | lost answers, mutex left locked on a return | requests and tasks end together |
| sessions: `SessionManager.cpp` | `loginMap`, `sessionMap`, history file | create, check, rotate | connections | restart | a session key stays valid across a restart |
| receivers of tuples: `StreamReceiver.cpp`, `CsReceiver.cpp`, `CAMReceiver.cpp`, `FileSource.cpp` | a `BufferQueue` each | receive, parse, push | stream intake | as stream intake | as stream intake |
| server start and stop: `Main.cpp`, `Settings.cpp` | settings | start-up | all | fixed order | - |
| parsers and conversions | none | parse | - | text | - |
| cs receiving: `src/dm2/cs/source/NwRcv` | fragments and their times per interface, the queue of whole messages, messages seen | `NwReceiver`, `combineFragment`, `ClearUnorderedMap`, `ProcSender`, `clean_duplicate_map` | csLib, programs of the station | datagrams lost, repeated, out of order; cleaning between two operations on a map; two networks bring one message | a message that arrives in time is handed on, whole, once |
| cs sending: `src/dm2/cs/source/ProcRcv` | settings shared by all threads, lists on disk, a queue per sender | `ProcReceiver`, `sid_update_check`, `SidManagement`, `NwSender` | csLib, programs, peers | registrations while senders run, stop and are made | each listed peer is served, by one sender, at its address |
| csLib | containers with a mutex each, sockets, DTLS | one operation under the mutex | cs | two operations are not one | - |
| client library: `dmClientLib` | callbacks, sockets, session | register, cancel, receive | information server | a callback that goes while its result comes; a port probed and bound later | a result reaches its callback |
| tupleLib, commonLib, secLib | values | library calls | - | - | - |
| dmi, viewer, demo, deploy, tests, apps | - | adapters, user interface, scripts | - | - | - |

## 2. Modules

| Module | Models | Notes |
|---|---|---|
| `BoundedFifo` | what a stream promises of its batches, with no thread in it | abstract specification |
| `TupleQueue` | `TupleQueue.cpp` (and the same code in `BufferQueue.cpp`), the loop of `Queue::workerProc` | implements `BoundedFifo` with `fifo <- q_` |
| `OperatorThread` | `Operator.cpp`, `ArrivalTupleNotifier.cpp`, `startOperator` and `exitExecuter` of `QueryExecuter.cpp` | a chain of operators, one listener each |
| `StreamQueue` | `Queue.cpp`, the registration and the two times of `WindowOperator.cpp` | one stream, with windows of its own and of other masters |
| `PartitionWindow` | `process` of `WindowOperator.cpp` with its filter by hash value and the timer of that, and what `addTuple` gives a window with ROWS | one window, with PARTITION BY or without, own or other master |
| `QueryLifecycle` | registration and cancels of `QueryManager.cpp`, `start` and `run` of `QueryExecuter.cpp`, the connection threads of `NetworkSource.cpp` | |
| `OrderedPairs` | what a join or a union promises of its inputs | abstract specification |
| `PairOperator` | `JoinOperator.cpp` and `UnionOperator.cpp` | implements `OrderedPairs` |
| `CsReceive` | `NwReceiver.cpp`, `ProcSender.cpp`, `combineFragment` and `ClearUnorderedMap` of `SocketUtil.cpp`, their maps in `UnorderedMap.cpp` | the process NwRcv |
| `CsSend` | `ProcReceiver.cpp`, `NwSender.cpp`, `SidManagement.cpp`, the settings of `ProcRcv.cpp` | the process ProcRcv |
| `TupleQueue_proofs`, `OperatorThread_proofs`, `StreamQueue_proofs`, `QueryLifecycle_proofs`, `PartitionWindow_proofs`, `PairOperator_proofs`, `CsReceive_proofs`, `CsSend_proofs` | theorems about these modules | section 5 |
| `MC...` | instances for TLC | constants only |

Definitions named `...Anyway`, `...Unchecked` and so on under the comment
"Deliberate faults" are not part of the models: each is the form a plausible bug
would give the definition it stands before, and `PROJECT.json` says which
property notices it.

### How state and actions correspond to the code

**TupleQueue.** `q_` is the `std::queue`; a call of `Push` or `Pop` runs under
the only mutex from its test to its return or to `cv_.wait`, so it is one step.
`waitSet` is the set of threads in `cv_.wait`; a thread that was woken and has
not got the mutex back is outside it and takes `PushWait` or `PushDone`
(`PopWait`, `PopDone`) when it does.  `pushing` keeps the argument of a `Push`
that waits.  `NotifyOne` picks any waiter of either side.

**OperatorThread.** `pc` follows `execute`; since `notify_one` changes the flag
and signals without the mutex, the test of the loop, the test of the buffer,
the announcement `operationReady` and `cond.wait` are steps of their own, and a
delivery is three (`push` under `bufMtx`, the flag, the signal).  `exec` is
`startOperator` and `exitExecuter`.  The destructor waits for the thread and gives
up after 300 ms, so `Delete` may come at any time: an operator whose thread had left is
`deleted`, one destroyed under its thread `abandoned`.  What a thread does in an object
that is gone is undefined and not followed: an abandoned thread takes no step of
`execute` any more, and a delivery it was in stays open, which is what `NoUseAfterDelete` looks at.

**StreamQueue.** A tuple is its number of arrival, its timestamp and its
receive time.  `AddTuple` is the critical section of `queue_mtx` in `addTuple`,
with what it hands to the windows of the stream.  For a window whose master is
another stream, `Trigger` is the stamp in `addTuple` of that stream and `Read` is
the `getTupleSet` that follows; anything may come between.  `deleteQueue` is
`DeleteLimits` under `referrer_mtx` and `DeleteQueue` under `queue_mtx`.
What a window is handed is the set of places of the queue that `getTupleSet` copies.
`deleteReservationList` maps the number of a tuple to the `deleteMsec` of the
reservation that counts it; a reservation of the code is the tuples with one
`deleteMsec`, and its `num` is how many they are.
`times` and `due` are history variables: how often a window was handed each
tuple, and what it is still due; `deployed` is which windows an instance looks at
together.  Receive times are the system's microsecond
clock; two calls of `addTuple` are taken to get different ones and the clock not
to be set back (a hazard of its own, `Queue.cpp:191`).

**PartitionWindow.** What `StreamQueue` checks up to the buffer of a window, this module
follows inside it.  `HandOver` is what `addTuple` does for the window: the tuples after
`lastRecvTime`, newest first, the two times moved, the tuple set put into the buffer;
`Trigger` and `Read` are the stamp and the read of another master.  The operator goes
through a set tuple by tuple (`Fold`: filter, then the deque of the key) and then
through all that is kept (`Look`), comparing each with `preLastRecvTime`, which
nothing locks.  `latest` is `latestTuple1` or `latestTupleN`.  The sort is taken to be
stable, which `std::sort` is up to 16 elements.  `deleteHashmap` takes its limit
(`DeleteHashmapStart`) before the mutex (`DeleteHashmap`).  `taken`, `sent`, `passed` and
`overtaken` are history.  The queue loses nothing here: deletion is `StreamQueue`'s.

**QueryLifecycle.** A registration is `AddQuery` (the run thread starts),
`Insert` (`mp`, under `QImapMtx`) and `List` (`sockmng`).  The run thread builds the
operators and fails with `isErr`, which makes it cancel its own query once `isExitRun`
is set (`RunFails`, `RunCancels`), or polls in `startOperator` (`starting`) and ends
without `isErr` (`RunEnds`), which a caught exception does too, at any place.  A failed run whose
object was deleted meanwhile reads its number from freed memory: any number that was
given out.  A NEARBY query of a known task
cancels itself from inside `run`, any other becomes a task of `LocationManager` (`tasks`).
`cancelQuery` is `CancelFind`, which removes
the query or begins to poll with the mutex held (`holder`), and `CancelPoll`.  The
cancel of a cs server (`CsCancels`, `CsRemoves`) looks up the task and removes the
query without a look at `isExitRun`.
A connection ends by `Close` (the number is free), `CloseLists`, `CloseCancels`
and `CloseForgets`.  Applications cancel the queries in `Named`, each once at most.  Deletions
are one step: no other thread finds the query while the mutex is held.

**PairOperator.** Each `receiveTupleSet` runs under `bufMtx`, and so does
`getTupleSet`; a side is one operator thread, so it brings rising receive times
and may leave some out.  `prep` is what `process` keeps: whether the schema is
set, the conditions, the two lists of key columns and which side was hashed
last.  A tuple set is a sequence of tuples of strings, chosen when its pair is
processed, and a result row names the rows it was made from.  `op` is the
operator, which the instance chooses.

**CsReceive.** Every operation of `UnorderedMap` and of the queue is under a mutex
of its own and so one step: `combineFragment` is `KeyExist`, then `InsertFirst` or
`Store` and `Combine` and `ForgetTime`, and the cleaner gets in between.  `combos`
holds the count the code decrements and the parts that are there, two different
things.  Datagrams are lost (never received), overtaken and repeated.  `log` and
`handed` are history variables.  Cleaners act whenever they like, which includes
every `sleep`.

**CsSend.** `receiver` is where `ProcReceiver` is in its loop over the networks; the
list on disk, the flag and the end of a sender are separate steps.  A sender's
`at` follows the loop of `NwSender`: the test of the queue, the exit flag, `Pop`, the
test of the flag, reading the list, resetting the flag, connecting, sending.
`exit` is `exit_run_thread` together with the closed socket.  `updateSidIp` returns -1
when a list does not open or its copy cannot be renamed, and nobody looks: `WriteList`
writes or leaves the list as it was, and `stale` (history, like `born` and `sent`) is the
set of peers whose last change the DTLS list did not take.  A look-up that throws
(`CheckThrows`) and an address or a socket that cannot be used (`SocketFails`) end the
process: `ended` stops every step.  The configuration is the one the code works for: one
UDP network, and the DTLS network last.  `SendAssumption` keeps away from three things:
of an empty DTLS list the code starts one sender without a peer, which shifts all
entries behind it (`ProcRcv.cpp:326`); of more than ten senders it uses flags behind
the array (`ProcRcv.h:22`), so the registrations are no more than there are flags for; and
station numbers from 2^31 up do not come back from a list as they went in, the
documented ones do.  An `ofstream` that fails after it was opened is not modelled.

## 3. Runs

Every run finishes within three minutes.  "violation" runs check a sentence of
the code's own comments and messages that the code does not keep (section 6).

| Run | Question | Instance |
|---|---|---|
| `queue_fair` | does one condition variable for two sides strand a batch or a thread, and is the queue a live bounded FIFO? | 2 receivers, 2 workers, 2 places: all mixtures of waiters, full and empty, each side as large as `EnoughRoom` allows, both together as large as `FewThreads` does |
| `thread_chain` | is what a chain handles in order and complete, is nothing used after its deletion, does a lost wakeup only delay? | 2 operators, one taking a set at a time (`expect_data_size` 1), one taking all it has (0); one set queued and one under way, so that each test can be overtaken; numbers modulo 5, more than can be in flight |
| `windows` | does a window see a tuple more often than its kind allows, does deletion rob one that another stream triggers, and do the reservations agree with the queue? | a row and a range window of the stream together, or a notify-all window, or a row or a range window of another master; 3 tuples in batches up to 2, timestamps equal, late and out of order; 3 triggers; clock to 1, timestamps from -1, and a default range of 0: reservations are made, expire and are redeemed by both branches; a third hand-over of one tuple would be possible |
| `partition` | are the newest tuples of a key kept and sent on, once, whatever arrives meanwhile, and does the filter hold for as long as it should? | six windows: ROWS 1 and 2 with PARTITION BY of the stream itself and of another master, one that allows duplicates, one without PARTITION BY; 3 messages, two of one key and different timestamps; 3 tuples in batches up to 2, 2 triggers; clock to 2 with values kept for 1, so that they expire |
| `delete_range` | does `deleteQueue` keep what is in range? (violation) | 4 tuples, clock to 4 |
| `queries` | do registration, failure, cancel and close, in any order, leave nothing behind, delete once, and return? | one connection; an ordinary, a preset, a one-shot and a forwarded query, the last cancelled by name (`Named`) and by a cs server; the others by their connection, themselves or each other's numbers |
| `close_number` | does a closed connection cancel only its own? (violation) | two connections |
| `duplicate` | is a duplicate NEARBY query cleared? (violation) | one query |
| `joins` | are pairs whole, complete, in order, and the result right? | receive times to 3; seven operators: joins without a condition, with one and two keys (the columns in opposite order), with an inequality, with an unknown name, two unions; all tuple sets up to two tuples of two strings, empty or of one character, so that either side can be the smaller and the next pair the other way round |
| `cs_receive` | does a message that arrives get through, whole and once? | two networks; a message in two fragments on one of them, whole on the other, and one for another station; one repeated datagram; clock to 2 and clear times of 1, so that cleaning and forgetting happen |
| `cs_send` | are peers, senders and lists kept together by registrations? | one peer, two addresses, three registrations and messages together (`MaxTaken`), in any mixture: a change of address and back, a delete and a new registration, each written or not, while a sender has a message in hand and one queued; `Backlog` 0, so that clearing happens |
| `cs_backlog` | is a long queue cleared? (violation) | the same without registrations |

Why these bounds: the properties of the queue and of deliveries depend on who
overtakes whom, and two actors on a side with one item each way show every
order of two.  A deletion error needs a reservation, a deletion by number and a
later one by time.  Duplicates need one hand-over more than is permitted.  Two
messages of one sender and a registration are the least with which something
can come after a stop, three registrations those with which a failed write is followed by
a lookup and a success; larger numbers, several peers, connections that share a
socket number and other sizes of queue are covered by the theorems (section 5).

Where `CHECK_DEADLOCK FALSE` stands, the program really may stop: a query
that was cancelled has no thread left, in `QueryLifecycle`, `PairOperator`,
`PartitionWindow`, `CsReceive` and `CsSend` the outside comes a bounded number of times and nobody
has to act, and a receiver in `Pop` waits (`cs_backlog`).  The queue run checks
deadlock; `StreamQueue` always has a step left, as `deleteQueue` goes on.

### Fairness

Threads that can run do run: workers loop on `Pop` and a receiver inside `Push`
goes on (`TupleQueue`); deliveries and operators go on and the stream keeps
receiving (`OperatorThread`, for `KeepsFlowing` only); cancels, registrations and
run threads under way go on and a freed mutex is granted in the end
(`QueryLifecycle`); a fragment that was received is worked on and `ProcSender` goes
on (`CsReceive`); `ProcReceiver` finishes what it took and senders go on
(`CsSend`).  Nobody has to push, to connect, to register, to cancel, to close or to
send, no datagram has to arrive, no send to work, no cleaner to come, no peer to
accept a connection, and no wakeup is spurious for our sake.  All of it is weak fairness,
which a scheduler that runs every ready thread gives.  `AwaitReady` has none:
`startOperator` polls a flag that is up only while the operator sleeps, and
whether a poll hits it is a matter of speed; nothing is concluded from it.  For the same
reason `QueryLifecycle` has no fairness for a run that is in this poll (`Started`): the
liveness properties there say "or the mutex is held for ever by a thread that waits
for such a run, or for a duplicate that waits for itself" (`MutexStuck`), which the code
allows and no property hides.

## 4. Properties

*TupleQueue.* `NobodyParkedInVain`: no batch waits while all workers sleep, and
no room is wasted while all receivers do.  `OneSideWaits`, `OnlySurplusWaits`,
`NotEveryoneWaits`: section 5.  `ImplementsFifo`: the refinement, with liveness.

*OperatorThread.* `InOrderOnce`: taken, queued and offered sets together are
exactly the numbers between what an operator finished and what it was given.
`RawNeverForwarded`: the base class `process`, which a dying operator may run, never
yields a result.  `NoUseAfterDelete`: a destructor that gave up is the only way to a
use after delete; an operator that exited in time, and the stream, deliver nothing to what
is gone.  `KeepsFlowing`: a lost wakeup is made good
by the next set.

*StreamQueue.* `HandedOnce`: no window is handed a tuple twice, except a row
window of another master, which may be, once, for a tuple that arrives between
stamp and read.  `RowsDueKept`: deletion cannot be seen through a row window.
`ReservationsSearched`: the bookkeeping of `deleteQueue`.

*PartitionWindow.* `NewestKept`: dropping while tuples come out of order never costs one
of the newest.  `SentOnce`: a tuple that stays among the newest is sent on once by
a window of its own stream, and twice, or three times, at most with another master; the
bounds are tight (section 6).  `HiddenOnlyIfOvertaken`: a newest tuple
that is not sent on had a batch come before the operator was done with its set.  That
does happen: after two arrivals in a row the first is older than `preLastRecvTime`, and
is hidden for good.  `CopiesApart`: the filter lets a message pass again only after
its time, however a cleaning meets the operator.

*QueryLifecycle.* `MapHoldsLive`: objects are deleted once.  `RunOutlived`: where
`run` may be when its object goes: past `isExitRun`, though a failed one has yet to read its
number, or in `runForNearBy` of a query that a cs server cancels; never while it builds or starts
operators or clears a duplicate.  `ClosedLeavesNothing`: with one connection, a close ends all its
continuous queries (with two it does not: `close_number`).  `CancelReturns`,
`FailedRemoved`: liveness, unless the mutex is stuck (section 3).
The last speaks of queries that were registered when
they failed with `isErr`; one that fails before `Insert` cancels in vain, one that ends in
a caught exception does not cancel, and both stay registered until their connection
closes.

*PairOperator.* `PairsWhole`, `NothingLost`: pairing.  `ResultRight`: the hash join and
the nested loop give what the argument asks for, whatever was hashed before.
`ImplementsOrderedPairs`: the refinement.

*CsReceive.* `HolesOnlyFromRepeats`: a message lacks a part only if the network
repeated a datagram, which the count takes for another one.  `PromptCombined`,
`PromptDelivered`: cleaning costs nothing that arrives in time.  `CopiesApart`: the
copies a program gets of one message are further apart than the memory of the
duplicate check.

*CsSend.* `ListedServed`: the list and the senders agree, about every peer whose last
change could be written.  `ThrowsOnlyStale`: the lookup that nobody catches, and that ends the
process, misses no other peer.  `SentToItsPeer`, `OneAfterStop`: what
a stopped or replaced sender still sends.  `UdpDrains`: liveness, unless the process ended.

## 5. Proofs

`TupleQueue_proofs` holds for every set of receivers and workers, every set of
batches and every capacity, from `QueueAssumption` alone; the sizing a theorem
needs is its hypothesis.

* `TypeCorrect`: `Spec => []TypeOK`.
* `OneSideWaitsAlways` (under `EnoughRoom`: no side has more threads than the
  queue has places).  That not all workers sleep while a batch waits is not
  inductive: a `notify_one` could go to a receiver.  The invariant says it
  cannot: since the queue was last empty only workers wait and each batch
  pushed since woke one (`Draining`), or since it was last full only receivers
  wait and each batch popped since woke one (`Filling`).  The queue gets from
  empty to full by `Capacity` pushes, and each of them woke a worker: when
  the first receiver has to wait no worker does any more.
  `NobodyParkedInVainAlways` follows.
* `OnlySurplusWaitsAlways` (under `FewThreads`: together at most two threads per
  place).  The same two phases with a surplus: a phase begins with at most as
  many threads of the other side parked as that side has more than places.
  `NotEveryoneWaitsAlways` follows: receivers and workers never all wait.
* `FifoSafety`: `Spec => FifoInit /\ [][FifoNext]_q_`.

`StepEffect` reduces every step to its effect on three counters (queue length,
waiting receivers, waiting workers); the invariants are then arithmetic on these
counters.  TLC checks them in `queue_fair`, `NotEveryoneWaits` apart, which follows.  In the
code the capacity is 100000 (`TupleQueue.cpp:16`; the comment above it says
10000) and a stream has as many workers as configured, ten as shipped, so both
sizings hold by a wide margin.

`OperatorThread_proofs` holds for a chain of any length, any `Expect`, any bound on
buffers and enough numbers of tuple sets, from `ThreadAssumption`.

* `TypeCorrect`, `RawStaysBehind` (`RawNeverForwarded`), `DeletedUntouched`
  (`NoUseAfterDelete`) are inductive together (`Inv`).  `Carrying`: an operator is in a
  delivery exactly while it hands a result on, and has tuple sets in hand exactly
  while it processes or hands on; the last one hands nothing on.  `Exiting` says
  which operators were told to exit, are being destroyed and are gone at each
  step of `exitExecuter`: all were told before the first is destroyed, so an
  operator under destruction never hands on, and the operator before one that is gone
  is gone too, and delivers nothing if its thread had left.  `Room` keeps buffers within bounds.
* `ChainInOrder` (`InOrderOnce`): every step keeps what an operator has pending,
  appends the number the one before it counted up to, or finishes with what the
  operator had in hand (`Keeps`, `Gets`, `Finishes`); each of the three keeps the
  numbers successive (`FollowsAppend`, `FollowsRest`), by arithmetic modulo `Modulus`
  (`ModAdd`).

`StreamQueue_proofs` holds for any finite set of windows of any kind and size that
refer to one stream together, any positive default number of tuples kept and any
bounds, from `WindowAssumption` and `LimitAssumption`.

* `TypeCorrect` and `ReservationsInside` (`ReservationsSearched`) need `InOrder`: the
  tuples of the queue are the last ones that arrived, in the order of their numbers
  and receive times, so `Gone` of them were deleted and place and number differ by
  that.  `Searched` says that what the reservations count was searched, and lies in
  front: `deleteSearchIdx` may be too large, never too small.
* `DueRowsKept` (`RowsDueKept`): a round of `deleteQueue` takes its limits before it has
  `queue_mtx`.  `Limited` says that they still know the size of every row window
  that refers to the stream, `blind` apart, the windows that came since; `DueIn` that
  what a window is due is among as many of the newest tuples as it has rows, is in
  the queue, and came after its last read.
* `HandedOnlyOnce` (`HandedOnce`): a row window of the stream was not handed what came
  after `lastRecvTime` (`OnceRows`); one of another master at most once, and not at all
  what came after the stamp it is to read for (`TwiceRows`).  Of a range window the
  receive times say nothing: `OnceRange` follows the number of the last tuple
  it was handed, whose timestamp is `notifiedTime` as long as it is in the queue.

`QueryLifecycle_proofs` holds for any number of connections and queries and any
socket numbers, shared ones included, from `LifecycleAssumption`.

* `TypeCorrect`, `LiveInMap` (`MapHoldsLive`), `RunEndsFirst` (`RunOutlived`).  They
  are inductive together (`Owned`) with `RunInStep`: `addQuery`, the run thread, the flag
  `isExitRun` and the object of a query keep step, so a deleted query is never
  inserted again and no run thread is in a cancel before it asks for one.  `Tasked`: only
  a forwarded query whose run got to `runForNearBy` has a task, so that is the only run a cs
  server can be ahead of.
  `Numbered` says which connections have a socket number.
* `ClosedIsEmpty` (`ClosedLeavesNothing`): `Findable` follows a query whose connection
  has a number of its own: it is in the list of that number, then in the `todo` of
  the closing thread or in the cancel under way, until it is out of `mp`.

`PartitionWindow_proofs` holds for any messages, times, keys, hash values and windows
and any bounds, from `MessageAssumption`, `WindowAssumption` and `BoundAssumption`.

* `TypeCorrect` needs `Base`: the queue is in the order of receive times, every copy
  the operator holds (in its buffer, its input or among the latest of a key) is the
  tuple of the queue with that number, under its own key, and `InHand` says what the
  operator may hold at each of its steps.
* `CopiesKeptApart`: the limit of a cleaning under way is old enough (`Cleaning`), and a
  message that passed is in the map, stamped then or later, or is old
  (`Remembered`): only a message without an entry is stamped, and an entry stamped
  while a cleaning is under way is newer than its limit.
* `OnlyOvertakenHidden`: a tuple that waits or is in hand, and that no later batch
  overtook, came after `preLastRecvTime` (`Ahead`), so the operator sends it on when it
  looks (`Pending`, `Looked`).
* `SentOnceEach` (`SentOnce`): a tuple that was handed over and is not in a later tuple
  set is no newer than `preLastRecvTime` when that one is looked at (`Without`), so all
  that is sent on is in the set taken (`FromTaken`).  Sets of it that wait, are in hand
  or are done with are together no more than where its receive time lies with
  `lastRecvTime` and the stamp of a read allows (`Chances`), and after `d` sets it is kept
  at `d` places at most and was sent on `Most(d)` times at most (`Budget`).
* `NewestAreKept` (`NewestKept`): a deque is ranked among all tuples of its key that
  passed (`Rank`): its places in `passed`, in the order of `Before`, the best last, and
  each before every place that the deque does not hold.  `Insert` keeps this for ROWS 1
  (`RankedOne`) and ROWS n (`RankedWide`, `RankedInsert`), and a deque so ranked holds
  exactly the best (`RankedKept`).

`PairOperator_proofs` holds for every set of operators and tuple sets and every
number of receive times, from `OperatorAssumption`.

* `WholePairs`, `NoneLost`: the buffer and the pair in hand are couples of rising
  receive times, behind everything processed; a time waits, is in one couple, or
  was processed, by which sides brought it (`PairInv`).
* `RefinesOrderedPairs`: `Spec => Promise!PairsSpec`, `processed` being the history the
  abstract specification speaks of.  That the oldest complete time is the next one
  in line follows from the order of the couples and from each side bringing
  rising times: the second side of an older time cannot come later.

* `TypeCorrect` adds what `process` keeps (`PrepInv`): the conditions are those
  of the argument, and the lists of key columns are not set or are the columns of
  one side and of the other, as the side hashed last says (`Assigned`).
* `AskedResult` (`ResultRight`) has a hypothesis, `KeysTell`: two rows have the same
  key only if they agree in the columns of the conditions.  The key is made by
  recursion over the conditions, so that is a matter of the data, which
  the code leaves to them: the instance satisfies `KeysTell`, by an ASSUME of
  `MCPairOperator` that TLC evaluates (section 6).

`CsReceive_proofs` holds for any networks, messages and fragments, any clear times, with
the duplicate check or without it, from `ReceiveAssumption`.

* `TypeCorrect` needs what a receiver has in hand at each place (`Base`).
* `WholeUnlessRepeated` (`HolesOnlyFromRepeats`): unless a fragment came twice, the
  count of a message in the map is what is missing (`Counted`); everything that
  left a receiver is whole, or its network repeated something (`Delivered`).
* `PromptOnesCombined` (`PromptCombined`): a time in the map is not before the first
  fragment came, so what the cleaner has under way came longer ago than the clear
  time (`Dated`); unless it did, all that came and is not in hand is in the
  combination map until the message is whole (`Stored`).
* `CopiesKeptApart` (`CopiesApart`): a copy that passed is older than the clear time, or
  the map of duplicates holds its message since then or later (`Filtered`).

A lemma of these modules, `Least` (a set of naturals that is not empty has a least member), stands
in for induction over numbers.

`CsSend_proofs` holds for any finite set of peers, any addresses, any initial list with at
least one peer, any number of messages and as many registrations as `threadFlags` has
room for, whichever writes fail, from `SendAssumption`.

* `TypeCorrect`, `EveryListedServed`, `LookupFinds`, `RightPeer`, `StopsAfterOne`.  Between
  two steps of a registration list and senders do not agree, so the invariant
  says how far they are apart at each place of the loop (`Progress`): the peer of the
  registration is as before, or its sender was stopped and the list is about to
  get the new address or to lose the line, or the list is right and a sender is
  about to be made; or the list did not take the change and the peer is stale.
  `OthersAgree` says that list and senders agree about all other
  peers that are not stale, `ServedOnce` that no peer has two senders, and `AllOwn` and `AllSentOwn`
  what a sender has in hand and has sent.  The same invariant is why the lookup
  throws for stale peers only: any other that is served is listed whenever the loop looks.

Only model-checked: liveness, and with it that part of `ImplementsFifo` (fairness
and ENABLED are beyond the prover).  Every safety invariant of a passing run is proved.

## 6. Findings

1. `delete_range`: after a deletion by number (`Queue.cpp:862`) the reservations
   still count tuples that are gone, so a later round deletes tuples that are in
   the range of time.  `deleteSearchIdx` stays too large as well, so as many
   newcomers are never searched.
2. `close_number`: `sockProcess` closes a socket and then cancels by its number
   (`NetworkSource.cpp:1061`), which may be the next connection's.
3. `duplicate`: a duplicate NEARBY query that is already registered waits for its
   own end with `QImapMtx` held (`QueryExecuter.cpp:294`), and every later
   registration and cancel with it.
4. `cs_backlog`: the only receiver of `ProcRcv` clears a long queue with `Empty` and
   `Pop` (`ProcReceiver.cpp:77`) while its sender pops it too; when the sender takes
   the last message in between, the receiver waits in `Pop`, and takes no message
   and no registration any more.
Met on the way and not checked by a run of its own: `notify_one` (`Operator.cpp:123`)
can signal between the test of `execute` and `cond.wait` and wake nobody.  The next
set makes it good (`KeepsFlowing`), the last set before a pause is delayed until
then, and an exit costs the 300 ms of the destructor, which then destroys the object whatever its
thread does (`Operator.cpp:36`); that thread may go on to use it.  `run` reads
its number from its object after `isExitRun` lets others delete it (`QueryExecuter.cpp:249`,
`RunCancels`), and a cancel of a cs server does not wait at all (`QueryManager.cpp:537`).  Nobody
looks at the result of `updateSidIp` (`ProcReceiver.cpp:193`, `:201`): after a write that
failed, the next registration of that peer ends the process (`CheckThrows`), and so
does a message to an address that cannot be used (`UdpNwClient.cpp:119`).  A window with PARTITION BY of another
master tells what it sent on by receive times (`WindowOperator.cpp:675`); the master
stamps its batch before it reads (`Queue.cpp:191`, `:276`), so a tuple that arrives
between the two is sent on now and, as it is kept, once more with the next batch,
although duplicates are not allowed (`SentOnce` has the bound for it).  In the same
window, and in one of its own stream, a newest tuple that a second batch overtakes is
never sent on (`HiddenOnlyIfOvertaken`).  A join with several conditions joins the columns
of a key with underscores (`JoinOperator.cpp`), so columns that hold underscores
themselves can make one key of two rows that differ (`KeysTell`).

## 7. Not modelled

Left out inside modelled parts: the sort by cost and `proc_by_partition` (not called)
of windows, partitions of range windows, whose tuple sets pass through, sorts of more than 16 tuples of a key, and the timer stream; several listeners of one operator, requests
and `returnEvent` of recursive queries; stop, requests,
preset files and history in `QueryManager`; SSL and UDP, the second socket of
`tcp_session`; reads of `sockmng` without its mutex, which have no finite set of
outcomes; conditions on constants and functions, and the naming of columns, in
joins; several UDP networks, priorities, fragmentation at the sender, the map of
programs, an empty DTLS list at the start, more senders than flags, and encryption in `cs`.  Values of tuples are left out except in
`PairOperator`, and in `PartitionWindow` the key and the hash value: no other
operation modelled looks at them.

Not modelled, and why:

* Federation (`LocationManager`, `RequestOperator`) is switched off at this commit:
  the call of `updateLaneId` is commented out (`Queue.cpp:336`) and so is the
  loading of the map of edge servers (`LocationManager.cpp:67`), so
  `getNearEdgeSID` never names a server to ask.  What is left of it, the tasks, the cancel of
  a duplicate and that by a cs server, is in `QueryLifecycle`.
* Sessions: two maps and a file.  `createSession` does not fill `loginMap`, so a
  second login of the same user, address and process gets the same key only
  after a restart; the maps are used without a mutex, whose torn reads have no
  finite set of outcomes.
* Timers: `TimerWorker` runs a callback under its mutex, `TimerThread` misses ticks;
  `deleteQueue` may come at any time in `StreamQueue`, which covers both.
* The client library: one socket for requests and answers without a mutex, and
  a receive thread that ends only when data comes.  Its answers depend on
  callbacks of applications.
* The lock order of streams that are each other's master, and the map of
  streams, which is changed without a mutex.
* Parsers (SQL, Protobuf, GraphML), string conversion, operators on one tuple set,
  user interface, adapters and deployment are sequential, or pure input and
  output; they are most of the lines of the repository.

## 8. Plan

Done: `TupleQueue`, `OperatorThread`, `StreamQueue`, `QueryLifecycle`, `PartitionWindow`,
`PairOperator`, `CsReceive` and `CsSend`, with their proofs.  What could follow:

1. `StreamLocks`: `listener_mtx`, `queue_mtx` and `referrer_mtx` of several streams
   that are each other's master (`Queue.cpp:276`), with creation and removal of
   streams (`QueueManager.cpp:247`).
2. The client library, with results that arrive while a registration ends.
3. Federation, should it be switched on.

Modules to be proved about keep to functions and folds instead of RECURSIVE
operators, constants with named assumptions, and one action per operation.
