--------------------------- MODULE OperatorThread ----------------------------
(***************************************************************************)
(* The threads of one query (dm2/is Operator, ArrivalTupleNotifier and the *)
(* start and exit of QueryExecuter): a chain of operators, each a detached *)
(* thread with its own buffer, fed by the stream its window listens to.    *)
(*                                                                         *)
(* Operator::notify_one sets data_ready and signals the condition variable *)
(* without the mutex that execute holds between its tests and cond.wait,   *)
(* so the tests of the loop and the three steps of a delivery (push under  *)
(* bufMtx, set the flag, signal) are separate steps here.                  *)
(*                                                                         *)
(* A tuple set is its number, counted modulo Modulus by whoever made it:   *)
(* the stream, or the operator upstream.                                   *)
(***************************************************************************)
EXTENDS Integers, Sequences

CONSTANTS
    NOps,       \* operators 1..NOps, in the order of opeList: 1 is the window
    Expect,     \* Expect[i]: expect_data_size of operator i
    MaxBuffer,  \* bound: a busy operator's buffer gets no longer
    Modulus     \* bound: numbers of tuple sets, more than can be in flight

Ops == 1..NOps
Stream == 0
Deliverers == {Stream} \cup Ops

ASSUME ThreadAssumption ==
    /\ NOps \in Nat \ {0}
    /\ Expect \in [Ops -> Nat]
    /\ MaxBuffer \in Nat \ {0}
    /\ Modulus \in Nat /\ Modulus > 2 * MaxBuffer + 2

VARIABLES
    pc,         \* pc[i]: where the thread of operator i is in execute()
    buffer,     \* buffer[i]: the tuple sets queued for i
    ts,         \* ts[i]: the tuple sets i has taken
    dataReady,  \* data_ready
    exitFlag,   \* exit_flag
    isReady,    \* operationReady
    phase,      \* the object: "live", "destroying" (derived part gone), "deleted",
                \* or "abandoned": destroyed while its thread was still in execute
    raw,        \* raw[i]: ts[i] went through Operator::process, unprocessed
    deliver,    \* deliver[d]: the receiveTupleSet call d is in
    made,       \* made[d]: number of the last tuple set d handed on
    got,        \* got[i]: number of the last tuple set i has finished with
    exec        \* the QueryExecuter: what it does, and to which operator

vars == <<pc, buffer, ts, dataReady, exitFlag, isReady, phase, raw, deliver,
          made, got, exec>>

objVars == <<pc, ts, dataReady, isReady, raw, got>>

NextNumber(k) == (k + 1) % Modulus

NoDelivery == [step |-> "none", set |-> 0]

TypeOK ==
    /\ pc \in [Ops -> {"new", "top", "test", "look", "sleepy", "waiting", "awake",
                       "woken", "process", "firing", "exited"}]
    /\ \A i \in Ops : /\ buffer[i] \in Seq(0..Modulus - 1)
                      /\ Len(buffer[i]) <= MaxBuffer + 1
                      /\ ts[i] \in Seq(0..Modulus - 1)
    /\ DOMAIN buffer = Ops /\ DOMAIN ts = Ops
    /\ dataReady \in [Ops -> BOOLEAN]
    /\ exitFlag \in [Ops -> BOOLEAN]
    /\ isReady \in [Ops -> BOOLEAN]
    /\ phase \in [Ops -> {"live", "destroying", "deleted", "abandoned"}]
    /\ raw \in [Ops -> BOOLEAN]
    /\ deliver \in [Deliverers -> [step : {"none", "push", "flag", "signal"},
                                   set : 0..Modulus - 1]]
    /\ made \in [Deliverers -> 0..Modulus - 1]
    /\ got \in [Ops -> 0..Modulus - 1]
    /\ exec \in [step : {"start", "await", "running", "exit", "flag", "signal", "destroy",
                         "delete", "gone"},
                 op : 1..NOps]

Init ==
    /\ pc = [i \in Ops |-> "new"]
    /\ buffer = [i \in Ops |-> <<>>]
    /\ ts = [i \in Ops |-> <<>>]
    /\ dataReady = [i \in Ops |-> FALSE]
    /\ exitFlag = [i \in Ops |-> FALSE]
    /\ isReady = [i \in Ops |-> FALSE]
    /\ phase = [i \in Ops |-> "live"]
    /\ raw = [i \in Ops |-> FALSE]
    /\ deliver = [d \in Deliverers |-> NoDelivery]
    /\ made = [d \in Deliverers |-> 0]
    /\ got = [i \in Ops |-> 0]
    /\ exec = [step |-> "start", op |-> 1]

Goto(i, label) == pc' = [pc EXCEPT ![i] = label]

(* What a thread does in an object that is gone is undefined.  The model   *)
(* follows such a thread no further; NoUseAfterDelete says when it comes   *)
(* to that.                                                                *)
Gone(i) == phase[i] \in {"deleted", "abandoned"}

(* cond.notify_one: only a thread that is in cond.wait now is woken.       *)
Woken(i) == IF pc[i] = "waiting" THEN [pc EXCEPT ![i] = "awake"] ELSE pc

-----------------------------------------------------------------------------
(* Deliveries: Queue::addTuple calls receiveTupleSet of the window under   *)
(* listener_mtx; an operator calls that of the next one in fireEvent.      *)
Offer(d, k) == deliver' = [deliver EXCEPT ![d] = [step |-> "push", set |-> k]]

(* The bound on buffers: nobody starts a delivery to an operator that has  *)
(* MaxBuffer sets queued, except one more if it sleeps, which wakes it.    *)
Schedulable(i) ==
    \/ Len(buffer[i]) < MaxBuffer
    \/ Len(buffer[i]) = MaxBuffer /\ pc[i] = "waiting"

(* A batch reached the stream; the window listens from its construction,   *)
(* before its thread runs, until its destructor removes the listener.      *)
StreamOffers ==
    /\ phase[1] = "live"
    /\ deliver[Stream].step = "none"
    /\ Schedulable(1)
    /\ Offer(Stream, NextNumber(made[Stream]))
    /\ made' = [made EXCEPT ![Stream] = NextNumber(@)]
    /\ UNCHANGED <<objVars, buffer, exitFlag, phase, exec>>

(* Deliberate fault, see "mutants" in PROJECT.json. *)
SignalOnlyOnce(d) ==
    /\ deliver[d].step = "flag"
    /\ dataReady' = [dataReady EXCEPT ![d + 1] = TRUE]
    /\ deliver' = [deliver EXCEPT ![d].step =
                     IF d = Stream /\ dataReady[d + 1] THEN "none" ELSE "signal"]
    /\ UNCHANGED <<pc, ts, isReady, raw, got, buffer, exitFlag, phase, made, exec>>

DeliverPush(d) ==
    /\ deliver[d].step = "push"
    /\ buffer' = [buffer EXCEPT ![d + 1] = Append(@, deliver[d].set)]
    /\ deliver' = [deliver EXCEPT ![d].step = "flag"]
    /\ UNCHANGED <<objVars, exitFlag, phase, made, exec>>

DeliverFlag(d) ==
    /\ deliver[d].step = "flag"
    /\ dataReady' = [dataReady EXCEPT ![d + 1] = TRUE]
    /\ deliver' = [deliver EXCEPT ![d].step = "signal"]
    /\ UNCHANGED <<pc, ts, isReady, raw, got, buffer, exitFlag, phase, made, exec>>

(* Signal and return; an operator has then finished with its tuple set.    *)
DeliverSignal(d) ==
    /\ deliver[d].step = "signal"
    /\ deliver' = [deliver EXCEPT ![d] = NoDelivery]
    /\ IF d = Stream
       THEN pc' = Woken(d + 1) /\ UNCHANGED <<ts, got>>
       ELSE /\ pc' = [Woken(d + 1) EXCEPT ![d] = "top"]
            /\ got' = [got EXCEPT ![d] = ts[d][Len(ts[d])]]
            /\ ts' = [ts EXCEPT ![d] = <<>>]
    /\ UNCHANGED <<dataReady, isReady, raw, buffer, exitFlag, phase, made, exec>>

Deliver(d) ==
    /\ d \in Ops => ~Gone(d)
    /\ d + 1 \in Ops => ~Gone(d + 1)
    /\ DeliverPush(d) \/ DeliverFlag(d) \/ DeliverSignal(d)

-----------------------------------------------------------------------------
(* Operator::execute, statement by statement where other threads can tell. *)
Enough(i) ==
    IF Expect[i] = 0 THEN buffer[i] # <<>> ELSE Len(buffer[i]) >= Expect[i]

(* Deliberate faults, see "mutants" in PROJECT.json. *)
TakeAgain(i) ==
    /\ pc[i] = "woken"
    /\ IF exitFlag[i] THEN Goto(i, "exited") /\ UNCHANGED <<ts, buffer>>
       ELSE IF buffer[i] = <<>> THEN Goto(i, "top") /\ UNCHANGED <<ts, buffer>>
       ELSE /\ ts' = [ts EXCEPT ![i] = <<buffer[i][1]>>]
            /\ buffer' = [buffer EXCEPT ![i] = IF Len(@) > 1 THEN Tail(@) ELSE @]
            /\ Goto(i, "process")
    /\ UNCHANGED <<dataReady, isReady, raw, got, exitFlag, phase, deliver, made, exec>>

FinishBlindly(i, isNext) ==
    /\ pc[i] = "process"
    /\ raw' = [raw EXCEPT ![i] = phase[i] # "live"]
    /\ IF isNext /\ i < NOps
       THEN /\ Schedulable(i + 1)
            /\ Offer(i, NextNumber(made[i]))
            /\ made' = [made EXCEPT ![i] = NextNumber(@)]
            /\ Goto(i, "firing")
            /\ UNCHANGED <<got, ts>>
       ELSE /\ got' = [got EXCEPT ![i] = ts[i][Len(ts[i])]]
            /\ ts' = [ts EXCEPT ![i] = <<>>]
            /\ Goto(i, "top")
            /\ UNCHANGED <<deliver, made>>
    /\ UNCHANGED <<dataReady, isReady, buffer, exitFlag, phase, exec>>

(* Top of the outer loop: leave on exit_flag, otherwise forget the flag.   *)
Top(i) ==
    /\ pc[i] = "top"
    /\ IF exitFlag[i] THEN Goto(i, "exited") /\ UNCHANGED dataReady
       ELSE Goto(i, "test") /\ dataReady' = [dataReady EXCEPT ![i] = FALSE]
    /\ UNCHANGED <<ts, isReady, raw, got, buffer, exitFlag, phase, deliver, made, exec>>

(* while (!data_ready && !exit_flag)                                       *)
Test(i) ==
    /\ pc[i] = "test"
    /\ Goto(i, IF dataReady[i] \/ exitFlag[i] THEN "woken" ELSE "look")
    /\ UNCHANGED <<ts, dataReady, isReady, raw, got, buffer, exitFlag, phase, deliver, made, exec>>

(* Leave the loop if the buffer already holds what process needs,          *)
(* otherwise announce that the operator is ready ...                       *)
Look(i) ==
    /\ pc[i] = "look"
    /\ IF Enough(i) THEN Goto(i, "woken") /\ UNCHANGED isReady
       ELSE Goto(i, "sleepy") /\ isReady' = [isReady EXCEPT ![i] = TRUE]
    /\ UNCHANGED <<ts, dataReady, raw, got, buffer, exitFlag, phase, deliver, made, exec>>

(* ... and wait.  A notify_one that came since Test found nobody waiting.  *)
Sleep(i) ==
    /\ pc[i] = "sleepy"
    /\ Goto(i, "waiting")
    /\ UNCHANGED <<ts, dataReady, isReady, raw, got, buffer, exitFlag, phase, deliver, made, exec>>

(* cond.wait returns: after a signal, or spuriously (SpuriousWakeup).      *)
Awake(i) ==
    /\ pc[i] = "awake"
    /\ isReady' = [isReady EXCEPT ![i] = FALSE]
    /\ Goto(i, "test")
    /\ UNCHANGED <<ts, dataReady, raw, got, buffer, exitFlag, phase, deliver, made, exec>>

SpuriousWakeup(i) ==
    /\ pc[i] = "waiting" /\ ~Gone(i)
    /\ Goto(i, "awake")
    /\ UNCHANGED <<ts, dataReady, isReady, raw, got, buffer, exitFlag, phase, deliver, made, exec>>

(* Leave on exit_flag; otherwise getTupleSet: up to expect_data_size sets, *)
(* all of them when it is 0, and back to the top when there was none.      *)
Take(i) ==
    /\ pc[i] = "woken"
    /\ IF exitFlag[i] THEN Goto(i, "exited") /\ UNCHANGED <<ts, buffer>>
       ELSE IF buffer[i] = <<>> THEN Goto(i, "top") /\ UNCHANGED <<ts, buffer>>
       ELSE LET n == IF Expect[i] = 0 \/ Len(buffer[i]) < Expect[i]
                     THEN Len(buffer[i]) ELSE Expect[i]
            IN  /\ ts' = [ts EXCEPT ![i] = SubSeq(buffer[i], 1, n)]
                /\ buffer' = [buffer EXCEPT ![i] = SubSeq(@, n + 1, Len(@))]
                /\ Goto(i, "process")
    /\ UNCHANGED <<dataReady, isReady, raw, got, exitFlag, phase, deliver, made, exec>>

(* process(ts) returns isNext.  When the derived part of the object is     *)
(* already destroyed the call lands in Operator::process, which returns    *)
(* true without doing anything ("rarely the superclass process is run").   *)
(* The result is handed on only if exit_flag is still off; the last        *)
(* operator has no listener.                                               *)
Finish(i, isNext) ==
    /\ pc[i] = "process"
    /\ phase[i] # "live" => isNext
    /\ raw' = [raw EXCEPT ![i] = phase[i] # "live"]
    /\ IF isNext /\ ~exitFlag[i] /\ i < NOps
       THEN /\ Schedulable(i + 1)
            /\ Offer(i, NextNumber(made[i]))
            /\ made' = [made EXCEPT ![i] = NextNumber(@)]
            /\ Goto(i, "firing")
            /\ UNCHANGED <<got, ts>>
       ELSE /\ got' = [got EXCEPT ![i] = ts[i][Len(ts[i])]]
            /\ ts' = [ts EXCEPT ![i] = <<>>]
            /\ Goto(i, "top")
            /\ UNCHANGED <<deliver, made>>
    /\ UNCHANGED <<dataReady, isReady, buffer, exitFlag, phase, exec>>

Execute(i) ==
    /\ ~Gone(i)
    /\ \/ Top(i) \/ Test(i) \/ Look(i) \/ Sleep(i) \/ Awake(i) \/ Take(i)
       \/ \E isNext \in BOOLEAN : Finish(i, isNext)

-----------------------------------------------------------------------------
(* Deliberate fault, see "mutants" in PROJECT.json. *)
StartOperatorPastEnd ==
    /\ exec.step = "start"
    /\ Goto(exec.op, "top")
    /\ exec' = IF exec.op <= NOps THEN [exec EXCEPT !.op = @ + 1]
               ELSE [step |-> "await", op |-> 1]
    /\ UNCHANGED <<ts, dataReady, isReady, raw, got, buffer, exitFlag, phase, deliver, made>>

(* QueryExecuter::startOperator: start every thread, then poll isReady of  *)
(* each in turn.                                                           *)
StartOperator ==
    /\ exec.step = "start"
    /\ Goto(exec.op, "top")
    /\ exec' = IF exec.op < NOps THEN [exec EXCEPT !.op = @ + 1]
               ELSE [step |-> "await", op |-> 1]
    /\ UNCHANGED <<ts, dataReady, isReady, raw, got, buffer, exitFlag, phase, deliver, made>>

AwaitReady ==
    /\ exec.step = "await"
    /\ isReady[exec.op]
    /\ exec' = IF exec.op < NOps THEN [exec EXCEPT !.op = @ + 1]
               ELSE [step |-> "running", op |-> 1]
    /\ UNCHANGED <<objVars, buffer, exitFlag, phase, deliver, made>>

(* The query is cancelled: QueryExecuter::exitExecuter.                    *)
Cancel ==
    /\ exec.step = "running"
    /\ exec' = [step |-> "exit", op |-> 1]
    /\ UNCHANGED <<objVars, buffer, exitFlag, phase, deliver, made>>

(* Operator::exit: exit_flag, then the two steps of notify_one.            *)
Exit ==
    /\ exec.step = "exit"
    /\ exitFlag' = [exitFlag EXCEPT ![exec.op] = TRUE]
    /\ exec' = [exec EXCEPT !.step = "flag"]
    /\ UNCHANGED <<objVars, buffer, phase, deliver, made>>

ExitNotifies ==
    \/ /\ exec.step = "flag"
       /\ dataReady' = [dataReady EXCEPT ![exec.op] = TRUE]
       /\ exec' = [exec EXCEPT !.step = "signal"]
       /\ UNCHANGED pc
       /\ UNCHANGED <<ts, isReady, raw, got, buffer, exitFlag, phase, deliver, made>>
    \/ /\ exec.step = "signal"
       /\ pc' = Woken(exec.op)
       /\ exec' = IF exec.op < NOps THEN [step |-> "exit", op |-> exec.op + 1]
                  ELSE [step |-> "destroy", op |-> 1]
       /\ UNCHANGED <<ts, dataReady, isReady, raw, got, buffer, exitFlag, phase, deliver, made>>

(* Deliberate fault, see "mutants" in PROJECT.json. *)
DestroyListening ==
    /\ exec.step = "destroy"
    /\ phase' = [phase EXCEPT ![exec.op] = "destroying"]
    /\ exec' = [exec EXCEPT !.step = "delete"]
    /\ UNCHANGED <<objVars, buffer, exitFlag, deliver, made>>

(* delete op: the derived destructor first (the window's removes itself    *)
(* from the stream, under the listener_mtx a delivery holds) ...           *)
Destroy ==
    /\ exec.step = "destroy"
    /\ exec.op = 1 => deliver[Stream].step = "none"
    /\ phase' = [phase EXCEPT ![exec.op] = "destroying"]
    /\ exec' = [exec EXCEPT !.step = "delete"]
    /\ UNCHANGED <<objVars, buffer, exitFlag, deliver, made>>

(* ... then ~Operator, which waits for exitReady and gives up after 300    *)
(* ms: whatever the thread does by then, the object is destroyed.          *)
Delete ==
    /\ exec.step = "delete"
    /\ phase' = [phase EXCEPT ![exec.op] =
                   IF pc[exec.op] = "exited" THEN "deleted" ELSE "abandoned"]
    /\ exec' = IF exec.op < NOps THEN [step |-> "destroy", op |-> exec.op + 1]
               ELSE [step |-> "gone", op |-> exec.op]
    /\ UNCHANGED <<objVars, buffer, exitFlag, deliver, made>>

Executer ==
    StartOperator \/ AwaitReady \/ Cancel \/ Exit \/ ExitNotifies \/ Destroy \/ Delete

Next ==
    \/ StreamOffers
    \/ \E d \in Deliverers : Deliver(d)
    \/ \E i \in Ops : Execute(i) \/ SpuriousWakeup(i)
    \/ Executer

(* The threads run, and the stream keeps receiving; nobody has to cancel   *)
(* the query and nothing has to wake spuriously.                           *)
Fairness ==
    /\ WF_vars(StreamOffers)
    /\ \A d \in Deliverers : WF_vars(Deliver(d))
    /\ \A i \in Ops : WF_vars(Execute(i))
    /\ WF_vars(StartOperator)

Spec == Init /\ [][Next]_vars /\ Fairness

-----------------------------------------------------------------------------
(* What operator i still has to do, oldest first: taken, queued, offered.  *)
Pending(i) ==
    LET d == i - 1
    IN  ts[i] \o buffer[i] \o
        (IF deliver[d].step = "push" THEN <<deliver[d].set>> ELSE <<>>)

(* A chain loses, repeats and reorders nothing: between what an operator   *)
(* has finished and what was last handed to it, the pending tuple sets are *)
(* exactly the ones in between, in order.  Unlocked reads of the buffer's  *)
(* size and of the flags never let execute take a set twice or skip one.   *)
InOrderOnce ==
    \A i \in Ops :
        /\ \A k \in 1..Len(Pending(i)) : Pending(i)[k] = (got[i] + k) % Modulus
        /\ (got[i] + Len(Pending(i))) % Modulus = made[i - 1]

(* A tuple set that reached Operator::process because the operator is      *)
(* being destroyed is never handed to the next operator as a result.       *)
RawNeverForwarded ==
    \A i \in Ops : pc[i] = "firing" => ~raw[i]

(* Only a destructor that gave up leads to a use after delete.  With       *)
(* opeList in the order of the chain, a tuple set is being handed to an    *)
(* object that is gone only by an operator that was itself destroyed under *)
(* its thread: never by the stream, and never by one that exited in time.  *)
NoUseAfterDelete ==
    \A i \in Ops : Gone(i) =>
        /\ phase[i] = "deleted" => pc[i] = "exited"
        /\ deliver[i - 1].step # "none" => i # 1 /\ phase[i - 1] = "abandoned"

(* While the stream keeps receiving, the window keeps processing, and an   *)
(* operator that is given tuple sets for ever processes for ever: a wakeup *)
(* that was lost is made good by the next one, so it can only delay.       *)
KeepsFlowing ==
    /\ exec.step = "running" ~> (pc[1] = "process" \/ exec.step # "running")
    /\ \A i \in Ops \ {1} :
          []<>(pc[i - 1] = "firing" /\ ~Gone(i - 1)) => []<>(pc[i] = "process")
=============================================================================
