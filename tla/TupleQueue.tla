----------------------------- MODULE TupleQueue ------------------------------
(***************************************************************************)
(* dm2/is TupleQueue: the bounded queue between the threads that receive   *)
(* tuples for a stream (Push) and the worker threads of that stream (Pop,  *)
(* called in a loop by Queue::workerProc).                                 *)
(*                                                                         *)
(* One mutex and ONE condition variable serve both sides.  A call runs     *)
(* entirely under the mutex, so it is one step; a thread in cv_.wait is a  *)
(* member of waitSet, and one that was woken but does not have the mutex   *)
(* back is simply outside waitSet, about to test its condition again.      *)
(***************************************************************************)
EXTENDS Naturals, Sequences, FiniteSets

CONSTANTS
    Producers,  \* threads that call pushTuple
    Consumers,  \* the max_worker_thread workers of the stream
    Batch,      \* the vectors of tuples that may be pushed
    NoBatch,    \* "this thread is not inside Push"
    Capacity    \* capacity, 100000 in the code

ASSUME QueueAssumption ==
    /\ Capacity \in Nat \ {0}
    /\ IsFiniteSet(Producers) /\ Producers # {}
    /\ IsFiniteSet(Consumers) /\ Consumers # {}
    /\ Producers \cap Consumers = {}
    /\ NoBatch \notin Batch

VARIABLES
    q_,       \* the std::queue
    waitSet,  \* the threads blocked in cv_.wait
    pushing   \* pushing[p]: the argument of the Push that p is in

vars == <<q_, waitSet, pushing>>

Threads == Producers \cup Consumers

Full == Len(q_) = Capacity

TypeOK ==
    /\ q_ \in Seq(Batch)
    /\ Len(q_) <= Capacity
    /\ waitSet \subseteq Threads
    /\ pushing \in [Producers -> Batch \cup {NoBatch}]
    /\ \A p \in Producers \cap waitSet : pushing[p] # NoBatch

Init ==
    /\ q_ = <<>>
    /\ waitSet = {}
    /\ pushing = [p \in Producers |-> NoBatch]

-----------------------------------------------------------------------------
(* Deliberate faults, one per property; see "mutants" in PROJECT.json.     *)

NotifyNobody == waitSet' = waitSet

PushDoneOnTop(p, b) ==
    /\ p \notin waitSet
    /\ pushing[p] \in {NoBatch, b}
    /\ ~Full
    /\ q_' = <<b>> \o q_
    /\ pushing' = [pushing EXCEPT ![p] = NoBatch]
    /\ IF waitSet = {} THEN waitSet' = {} ELSE \E t \in waitSet : waitSet' = waitSet \ {t}

PushDoneUnchecked(p, b) ==
    /\ p \notin waitSet
    /\ pushing[p] \in {NoBatch, b}
    /\ q_' = Append(q_, b)
    /\ pushing' = [pushing EXCEPT ![p] = NoBatch]
    /\ IF waitSet = {} THEN waitSet' = {} ELSE \E t \in waitSet : waitSet' = waitSet \ {t}

-----------------------------------------------------------------------------
\* notify_one on the only condition variable: it may wake a thread of
\* either side, and does nothing when no thread waits.
NotifyOne ==
    IF waitSet = {} THEN waitSet' = {}
    ELSE \E t \in waitSet : waitSet' = waitSet \ {t}

\* Push finds the queue full: wait (for the first time or again).
PushWait(p, b) ==
    /\ p \notin waitSet
    /\ pushing[p] \in {NoBatch, b}
    /\ Full
    /\ waitSet' = waitSet \cup {p}
    /\ pushing' = [pushing EXCEPT ![p] = b]
    /\ UNCHANGED q_

\* Push finds room: enqueue, notify_one, return.
PushDone(p, b) ==
    /\ p \notin waitSet
    /\ pushing[p] \in {NoBatch, b}
    /\ ~Full
    /\ q_' = Append(q_, b)
    /\ pushing' = [pushing EXCEPT ![p] = NoBatch]
    /\ NotifyOne

\* Pop finds the queue empty: wait (for the first time or again).
PopWait(c) ==
    /\ c \notin waitSet
    /\ q_ = <<>>
    /\ waitSet' = waitSet \cup {c}
    /\ UNCHANGED <<q_, pushing>>

\* Pop finds a batch: dequeue, notify_one, return.
PopDone(c) ==
    /\ c \notin waitSet
    /\ q_ # <<>>
    /\ q_' = Tail(q_)
    /\ NotifyOne
    /\ UNCHANGED pushing

\* A condition variable may wake a waiter that nobody notified.
SpuriousWakeup(t) ==
    /\ t \in waitSet
    /\ waitSet' = waitSet \ {t}
    /\ UNCHANGED <<q_, pushing>>

Push(p) == \E b \in Batch : PushWait(p, b) \/ PushDone(p, b)

Pop(c) == PopWait(c) \/ PopDone(c)

Next ==
    \/ \E p \in Producers : Push(p)
    \/ \E c \in Consumers : Pop(c)
    \/ \E t \in Threads : SpuriousWakeup(t)

(* A worker loops on Pop and a Push under way is retried when its thread   *)
(* runs; a receiver need not call Push again, and nothing has to wake      *)
(* spuriously.                                                             *)
Fairness ==
    /\ \A c \in Consumers : WF_vars(Pop(c))
    /\ \A p \in Producers : WF_vars(pushing[p] # NoBatch /\ Push(p))

Spec == Init /\ [][Next]_vars /\ Fairness

-----------------------------------------------------------------------------
waitingProducers == Cardinality(Producers \cap waitSet)
waitingConsumers == Cardinality(Consumers \cap waitSet)

(* With a single condition variable a wakeup meant for one side can go to  *)
(* the other.  EnoughRoom is the sizing under which that is harmless: no   *)
(* more receivers, and no more workers, than the queue has places.         *)
EnoughRoom ==
    /\ Cardinality(Producers) <= Capacity
    /\ Cardinality(Consumers) <= Capacity

(* A batch never sits in the queue while every worker of the stream is     *)
(* parked, and no set of receivers is parked to the last one while there   *)
(* is room: the notify_one of TupleQueue.cpp never goes to waste.          *)
NobodyParkedInVain ==
    /\ q_ # <<>> => ~(Consumers \subseteq waitSet)
    /\ ~Full => ~(Producers \subseteq waitSet)

(* Its inductive strengthening.  Since the queue was last empty only       *)
(* workers wait, and every batch pushed since has woken one of them        *)
(* (Draining); since it was last full only receivers wait, and every batch *)
(* popped since has woken one of them (Filling).                           *)
Draining ==
    /\ waitingProducers = 0
    /\ \/ waitingConsumers = 0
       \/ waitingConsumers + Len(q_) <= Cardinality(Consumers)

Filling ==
    /\ waitingConsumers = 0
    /\ \/ waitingProducers = 0
       \/ waitingProducers + Capacity <= Cardinality(Producers) + Len(q_)

(* The queue is always in one of these two phases: the two sides never     *)
(* wait at the same time.                                                  *)
OneSideWaits == Draining \/ Filling

(* The weaker sizing: the threads, however they are split, are at most     *)
(* twice the capacity.                                                     *)
FewThreads == Cardinality(Producers) + Cardinality(Consumers) <= 2 * Capacity

(* The receivers and the workers never all wait for each other.            *)
NotEveryoneWaits == ~(Threads \subseteq waitSet)

(* Its inductive strengthening: the same two phases, in which one side may *)
(* now have more threads than the queue has places.  A phase starts with   *)
(* at most that surplus of the other side parked, and every step towards   *)
(* its end wakes a thread.                                                 *)
OrCapacity(n) == IF n > Capacity THEN n ELSE Capacity

WideDraining ==
    /\ waitingProducers + Capacity <= OrCapacity(Cardinality(Producers))
    /\ waitingProducers + waitingConsumers + Len(q_) <= OrCapacity(Cardinality(Consumers))

WideFilling ==
    /\ waitingConsumers + Capacity <= OrCapacity(Cardinality(Consumers))
    /\ waitingProducers + waitingConsumers + Capacity
          <= OrCapacity(Cardinality(Producers)) + Len(q_)

(* The queue is always in one of these two phases.                         *)
OnlySurplusWaits == WideDraining \/ WideFilling

(* The queue, seen without its threads, is a bounded FIFO whose batches    *)
(* are eventually taken: the lock, the shared condition variable and the   *)
(* lost or spurious wakeups neither reorder, drop, repeat nor strand one.  *)
Fifo == INSTANCE BoundedFifo WITH fifo <- q_
ImplementsFifo == Fifo!FifoSpec
=============================================================================
