---------------------------- MODULE QueryLifecycle ----------------------------
(***************************************************************************)
(* Registration and cancellation of queries (dm2/is QueryManager, the run  *)
(* thread of QueryExecuter, the connection threads of NetworkSource).      *)
(*                                                                         *)
(* addQuery starts the run thread of the new QueryExecuter and only then   *)
(* enters it in mp under QImapMtx; cancelQuery holds QImapMtx while it     *)
(* polls isExitRun.  Cancel calls come from applications, from connection  *)
(* threads whose socket was closed, and from the run thread of a query     *)
(* that failed or turned out to be a duplicate; one-shot queries ask for   *)
(* it when they have answered.  A cancel from the cs server finds its      *)
(* query through the task list of LocationManager and removes it without   *)
(* waiting for the end of run.                                             *)
(*                                                                         *)
(* A socket number is free again once close has returned, which is before  *)
(* its connection thread gets to cancel by that number.                    *)
(***************************************************************************)
EXTENDS Naturals, FiniteSets

CONSTANTS
    Conns,       \* connections, each served by a thread of its own
    Queries,     \* the queries they register; also their run threads
    Conn,        \* Conn[q]: the connection that registers q
    Continuous,  \* queries with the continuous flag; the others are one-shot
    Preset,      \* queries registered as preset queries
    FromCS,      \* NEARBY queries a cs server forwards; Conn[q] is its connection
    Named,       \* queries applications cancel by name (a bound)
    CsThreads,   \* threads of CsReceiver that handle cancels
    Fds,         \* socket numbers, lowest first
    NoFd, Free, NoCall

ASSUME LifecycleAssumption ==
    /\ Conn \in [Queries -> Conns]
    /\ Continuous \subseteq Queries /\ Preset \subseteq Queries /\ Named \subseteq Queries
    /\ FromCS \subseteq Continuous \ Preset
    /\ Conns \cap Queries = {} /\ CsThreads \cap (Conns \cup Queries) = {}
    /\ Fds \subseteq Nat /\ NoFd \notin Fds
    /\ Free \notin Conns \cup Queries \cup CsThreads /\ NoCall \notin Queries

VARIABLES
    conn,     \* conn[k]: the connection and its thread
    fd,       \* fd[k]: socket number of k, kept after close
    reg,      \* reg[q]: how far addQuery is with q
    run,      \* run[q]: the run thread of q
    isExitRun,\* isExitRun of q's QueryExecuter
    object,   \* object[q]: the QueryExecuter of q
    mp,       \* the registered queries
    sockmng,  \* sockmng[f]: queries listed under socket number f
    todo,     \* todo[k]: the list cancelQuery(data) of k still goes through
    holder,   \* the thread that holds QImapMtx across steps, or Free
    call,     \* call[t]: the query thread t is in cancelQuery for, and where
    asked,    \* queries somebody asked to cancel by name (each once)
    tasks     \* queries with a task in LocationManager

vars == <<conn, fd, reg, run, isExitRun, object, mp, sockmng, todo, holder, call,
          asked, tasks>>

Threads == Conns \cup Queries \cup CsThreads

Idle == [q |-> NoCall, step |-> "idle"]

TypeOK ==
    /\ conn \in [Conns -> {"none", "open", "closed", "cancelling", "gone"}]
    /\ fd \in [Conns -> Fds \cup {NoFd}]
    /\ reg \in [Queries -> {"none", "started", "inserted", "listed"}]
    /\ run \in [Queries -> {"none", "parsing", "starting", "near", "clearing", "failed", "done"}]
    /\ isExitRun \in [Queries -> BOOLEAN]
    /\ object \in [Queries -> {"none", "live", "deleted"}]
    /\ mp \subseteq Queries
    /\ sockmng \in [Fds -> SUBSET Queries]
    /\ todo \in [Conns -> SUBSET Queries]
    /\ holder \in Threads \cup {Free}
    /\ holder # Free => call[holder].step = "poll"
    /\ call \in [Threads -> [q : Queries \cup {NoCall},
                             step : {"idle", "check", "find", "poll", "remove"}]]
    /\ asked \subseteq Queries /\ tasks \subseteq Queries

Init ==
    /\ conn = [k \in Conns |-> "none"]
    /\ fd = [k \in Conns |-> NoFd]
    /\ reg = [q \in Queries |-> "none"]
    /\ run = [q \in Queries |-> "none"]
    /\ isExitRun = [q \in Queries |-> FALSE]
    /\ object = [q \in Queries |-> "none"]
    /\ mp = {}
    /\ sockmng = [f \in Fds |-> {}]
    /\ todo = [k \in Conns |-> {}]
    /\ holder = Free
    /\ call = [t \in Threads |-> Idle]
    /\ asked = {} /\ tasks = {}

queryVars == <<reg, run, isExitRun, object>>
connVars == <<conn, fd, sockmng, todo>>

-----------------------------------------------------------------------------
(* Connections.  accept returns the lowest socket number not in use.       *)
InUse == {fd[k] : k \in {c \in Conns : conn[c] = "open"}}

Accept(k) ==
    /\ conn[k] = "none"
    /\ \E f \in Fds \ InUse :
          /\ \A g \in Fds \ InUse : f <= g
          /\ fd' = [fd EXCEPT ![k] = f]
    /\ conn' = [conn EXCEPT ![k] = "open"]
    /\ UNCHANGED <<queryVars, mp, sockmng, todo, holder, call, asked, tasks>>

(* A connection thread handles one request after the other.                *)
Attentive(k) ==
    /\ conn[k] = "open"
    /\ call[k] = Idle
    /\ \A q \in Queries : Conn[q] = k => reg[q] \in {"none", "listed"}

(* sockProcess notices the end of the connection and closes the socket ... *)
Close(k) ==
    /\ Attentive(k)
    /\ conn' = [conn EXCEPT ![k] = "closed"]
    /\ UNCHANGED <<fd, queryVars, mp, sockmng, todo, holder, call, asked, tasks>>

(* ... and then cancels, one by one, what is listed under its number: what *)
(* is still in mp and no preset query.                                     *)
CloseLists(k) ==
    /\ conn[k] = "closed"
    /\ conn' = [conn EXCEPT ![k] = "cancelling"]
    /\ todo' = [todo EXCEPT ![k] = sockmng[fd[k]]]
    /\ UNCHANGED <<fd, queryVars, mp, sockmng, holder, call, asked, tasks>>

CloseCancels(k, q) ==
    /\ conn[k] = "cancelling" /\ call[k] = Idle
    /\ q \in todo[k]
    /\ todo' = [todo EXCEPT ![k] = @ \ {q}]
    /\ call' = IF q \in mp \ Preset THEN [call EXCEPT ![k] = [q |-> q, step |-> "find"]]
               ELSE call
    /\ UNCHANGED <<conn, fd, queryVars, mp, sockmng, holder, asked, tasks>>

CloseForgets(k) ==
    /\ conn[k] = "cancelling" /\ call[k] = Idle /\ todo[k] = {}
    /\ conn' = [conn EXCEPT ![k] = "gone"]
    /\ sockmng' = [sockmng EXCEPT ![fd[k]] = {}]
    /\ UNCHANGED <<fd, todo, queryVars, mp, holder, call, asked, tasks>>

-----------------------------------------------------------------------------
(* QueryManager::addQuery, in the thread of the connection: start the run  *)
(* thread, insert in mp, list under the socket number, unless the query is *)
(* a one-shot one or was forwarded.                                        *)
AddQuery(q) ==
    /\ reg[q] = "none"
    /\ Attentive(Conn[q])
    /\ reg' = [reg EXCEPT ![q] = "started"]
    /\ object' = [object EXCEPT ![q] = "live"]
    /\ run' = [run EXCEPT ![q] = "parsing"]
    /\ UNCHANGED <<isExitRun, mp, connVars, holder, call, asked, tasks>>

Insert(q) ==
    /\ reg[q] = "started"
    /\ holder = Free
    /\ mp' = mp \cup {q}
    /\ reg' = [reg EXCEPT ![q] = IF q \in Continuous \ FromCS THEN "inserted"
                                       ELSE "listed"]
    /\ UNCHANGED <<run, isExitRun, object, connVars, holder, call, asked, tasks>>

(* Deliberate fault, see "mutants" in PROJECT.json. *)
ListOnly(q) ==
    /\ reg[q] = "inserted"
    /\ sockmng' = [sockmng EXCEPT ![fd[Conn[q]]] = {q}]
    /\ reg' = [reg EXCEPT ![q] = "listed"]
    /\ UNCHANGED <<run, isExitRun, object, conn, fd, mp, todo, holder, call, asked, tasks>>

List(q) ==
    /\ reg[q] = "inserted"
    /\ sockmng' = [sockmng EXCEPT ![fd[Conn[q]]] = @ \cup {q}]
    /\ reg' = [reg EXCEPT ![q] = "listed"]
    /\ UNCHANGED <<run, isExitRun, object, conn, fd, mp, todo, holder, call, asked, tasks>>

-----------------------------------------------------------------------------
(* QueryExecuter::run: build the operators; an error sets isErr.           *)
RunFails(q) ==
    /\ run[q] = "parsing"
    /\ isExitRun' = [isExitRun EXCEPT ![q] = TRUE]
    /\ run' = [run EXCEPT ![q] = "failed"]
    /\ UNCHANGED <<reg, object, mp, connVars, holder, call, asked, tasks>>

RunStarts(q) ==
    /\ run[q] = "parsing"
    /\ run' = [run EXCEPT ![q] = "starting"]
    /\ UNCHANGED <<reg, isExitRun, object, mp, connVars, holder, call, asked, tasks>>

(* The poll of startOperator is over, it saw every operator ready, and     *)
(* runForNearBy finds that LocationManager has the task already: run asks  *)
(* for its own cancel.                                                     *)
RunDuplicate(q) ==
    /\ run[q] = "starting" /\ q \in FromCS
    /\ run' = [run EXCEPT ![q] = "clearing"]
    /\ call' = [call EXCEPT ![q] = [q |-> q, step |-> "find"]]
    /\ UNCHANGED <<reg, isExitRun, object, mp, connVars, holder, asked, tasks>>

(* ... or adds the task and goes on with requests to other servers.        *)
RunForNearBy(q) ==
    /\ run[q] = "starting" /\ q \in FromCS
    /\ run' = [run EXCEPT ![q] = "near"]
    /\ tasks' = tasks \cup {q}
    /\ UNCHANGED <<reg, isExitRun, object, mp, connVars, holder, call, asked>>

(* The end of run without isErr: all is done, or an exception was caught,  *)
(* which is answered with an error but leaves isErr off.                   *)
RunEnds(q, places) ==
    /\ run[q] \in places
    /\ run[q] = "clearing" => call[q] = Idle
    /\ isExitRun' = [isExitRun EXCEPT ![q] = TRUE]
    /\ run' = [run EXCEPT ![q] = "done"]
    /\ UNCHANGED <<reg, object, mp, connVars, holder, call, asked, tasks>>

(* Deliberate fault, see "mutants" in PROJECT.json. *)
RunGivesUp(q) ==
    /\ run[q] = "failed"
    /\ run' = [run EXCEPT ![q] = "done"]
    /\ UNCHANGED <<reg, isExitRun, object, mp, connVars, holder, call, asked, tasks>>

(* After isExitRun is set a failed run reads its own number and cancels    *)
(* it.  Another thread may have deleted the object by then: the number     *)
(* read is whatever the memory holds, such as that of a later query.       *)
RunCancels(q) ==
    /\ run[q] = "failed"
    /\ \E r \in IF object[q] = "live" THEN {q} ELSE {s \in Queries : reg[s] # "none"} :
          call' = [call EXCEPT ![q] = [q |-> r, step |-> "find"]]
    /\ run' = [run EXCEPT ![q] = "done"]
    /\ UNCHANGED <<reg, isExitRun, object, mp, connVars, holder, asked, tasks>>

(* ResponseOperator::terminate, in a thread of its own, once a one-shot    *)
(* query has sent its result (call[q] is then that thread's).              *)
Terminate(q) ==
    /\ q \notin Continuous
    /\ run[q] = "done" /\ call[q] = Idle /\ q \notin asked
    /\ asked' = asked \cup {q}
    /\ call' = [call EXCEPT ![q] = [q |-> q, step |-> "find"]]
    /\ UNCHANGED <<queryVars, mp, connVars, holder, tasks>>

-----------------------------------------------------------------------------
(* An application cancels a query it may cancel: cancelQuery(user, ...)    *)
(* looks it up once for the permission, lets the mutex go, and calls       *)
(* cancelQuery(mngId).                                                     *)
UserCancels(k, q) ==
    /\ Attentive(k)
    /\ q \in Named \ asked /\ reg[q] # "none"
    /\ asked' = asked \cup {q}
    /\ call' = [call EXCEPT ![k] = [q |-> q, step |-> "check"]]
    /\ UNCHANGED <<queryVars, mp, connVars, holder, tasks>>

CancelCheck(t) ==
    /\ call[t].step = "check"
    /\ holder = Free
    /\ call' = [call EXCEPT ![t].step = "find"]
    /\ UNCHANGED <<queryVars, mp, connVars, holder, asked, tasks>>

Return(t) == call' = [call EXCEPT ![t] = Idle]

(* exitExecuter, delete, erase.                                            *)
Remove(q) ==
    /\ object' = [object EXCEPT ![q] = "deleted"]
    /\ mp' = mp \ {q}
    /\ UNCHANGED <<reg, run, isExitRun>>

(* cancelQuery(mngId): nothing to find; a one-shot query, which is left    *)
(* alone; a continuous one whose run is over; or one to wait for, with the *)
(* mutex held.                                                             *)
CancelFind(t) ==
    /\ call[t].step = "find"
    /\ holder = Free
    /\ LET q == call[t].q
       IN  \/ /\ q \notin mp \cap Continuous
              /\ Return(t)
              /\ UNCHANGED <<queryVars, mp, holder>>
           \/ /\ q \in mp \cap Continuous /\ isExitRun[q]
              /\ Remove(q)
              /\ Return(t)
              /\ UNCHANGED holder
           \/ /\ q \in mp \cap Continuous /\ ~isExitRun[q]
              /\ holder' = t
              /\ call' = [call EXCEPT ![t].step = "poll"]
              /\ UNCHANGED <<queryVars, mp>>
    /\ UNCHANGED <<connVars, asked, tasks>>

(* cancelQuery(mngId, receptionSID, senderSID), in a thread of CsReceiver: *)
(* the task is looked up and dropped, and a query found in mp is removed   *)
(* at once, wherever its run is.                                           *)
CsCancels(t, q) ==
    /\ t \in CsThreads /\ call[t] = Idle
    /\ q \in tasks
    /\ call' = [call EXCEPT ![t] = [q |-> q, step |-> "remove"]]
    /\ UNCHANGED <<queryVars, mp, connVars, holder, asked, tasks>>

CsRemoves(t) ==
    /\ call[t].step = "remove"
    /\ holder = Free
    /\ tasks' = tasks \ {call[t].q}
    /\ IF call[t].q \in mp THEN Remove(call[t].q) ELSE UNCHANGED <<queryVars, mp>>
    /\ Return(t)
    /\ UNCHANGED <<connVars, holder, asked>>

(* Deliberate faults, see "mutants" in PROJECT.json. *)
CancelPollKeepsLock(t) ==
    /\ call[t].step = "poll"
    /\ isExitRun[call[t].q]
    /\ Remove(call[t].q)
    /\ Return(t)
    /\ UNCHANGED <<connVars, holder, asked, tasks>>

CancelPollUnlocked(t) ==
    /\ call[t].step = "poll"
    /\ IF holder = t THEN holder' = Free /\ UNCHANGED <<queryVars, mp, call>>
       ELSE /\ isExitRun[call[t].q]
            /\ Remove(call[t].q)
            /\ Return(t)
            /\ UNCHANGED holder
    /\ UNCHANGED <<connVars, asked, tasks>>

CancelPollImpatient(t) ==
    /\ call[t].step = "poll"
    /\ Remove(call[t].q)
    /\ Return(t)
    /\ holder' = Free
    /\ UNCHANGED <<connVars, asked, tasks>>

CancelPollJoins(t) ==
    /\ call[t].step = "poll"
    /\ run[call[t].q] = "done" /\ call[call[t].q] = Idle
    /\ Remove(call[t].q)
    /\ Return(t)
    /\ holder' = Free
    /\ UNCHANGED <<connVars, asked, tasks>>

CancelPoll(t) ==
    /\ call[t].step = "poll"
    /\ isExitRun[call[t].q]
    /\ Remove(call[t].q)
    /\ Return(t)
    /\ holder' = Free
    /\ UNCHANGED <<connVars, asked, tasks>>

-----------------------------------------------------------------------------
Cancelling(t) == CancelCheck(t) \/ CancelFind(t) \/ CancelPoll(t) \/ CsRemoves(t)

Closing(k) == CloseLists(k) \/ (\E q \in Queries : CloseCancels(k, q)) \/ CloseForgets(k)

Running(q) ==
    \/ RunFails(q) \/ RunStarts(q) \/ RunCancels(q)
    \/ RunEnds(q, {"parsing", "near", "clearing"})

(* What run does once the poll of startOperator is over.                   *)
Started(q) == RunDuplicate(q) \/ RunForNearBy(q) \/ RunEnds(q, {"starting"})

Next ==
    \/ \E k \in Conns : Accept(k) \/ Close(k) \/ Closing(k)
    \/ \E k \in Conns, q \in Queries : UserCancels(k, q)
    \/ \E q \in Queries : AddQuery(q) \/ Insert(q) \/ List(q) \/ Terminate(q)
    \/ \E q \in Queries : Running(q) \/ Started(q)
    \/ \E t \in Threads, q \in Queries : CsCancels(t, q)
    \/ \E t \in Threads : Cancelling(t)

(* Threads run and the mutex is granted: what has begun goes on.  Nobody   *)
(* has to connect, register, cancel or close, and nothing makes the poll   *)
(* of startOperator see an operator while it is ready.                     *)
Fairness ==
    /\ \A k \in Conns : WF_vars(Closing(k))
    /\ \A q \in Queries : WF_vars(Insert(q)) /\ WF_vars(List(q)) /\ WF_vars(Running(q))
    /\ \A t \in Threads : WF_vars(Cancelling(t))

Spec == Init /\ [][Next]_vars /\ Fairness

-----------------------------------------------------------------------------
(* Whoever finds a query in mp under QImapMtx may use its object, and a    *)
(* thread that waits for a query still finds it there: two cancels of the  *)
(* same query, a failing run and a closing connection never delete twice.  *)
MapHoldsLive ==
    /\ \A q \in mp : object[q] = "live"
    /\ \A t \in Threads : call[t].step = "poll" => call[t].q \in mp /\ holder = t

(* Where run may be when its QueryExecuter is deleted under it: it has set *)
(* isExitRun, though a failed one has yet to read its own number, or it    *)
(* belongs to a forwarded query that the cs server cancels while run sends *)
(* its requests.  Never before its operators are started, and never while  *)
(* it clears a duplicate.                                                  *)
RunOutlived ==
    \A q \in Queries : object[q] = "deleted" =>
        \/ isExitRun[q] /\ run[q] \in {"failed", "done"}
        \/ run[q] = "near" /\ q \in FromCS

(* When the thread of a closed connection is done, none of the continuous  *)
(* queries registered over the connection is left, whatever registered,    *)
(* failed or was cancelled meanwhile; preset and forwarded queries stay.   *)
(* Where another connection had the same socket number this is not so.     *)
ClosedLeavesNothing ==
    \A q \in Continuous \ (Preset \cup FromCS) :
        conn[Conn[q]] = "gone" /\ (\A k \in Conns \ {Conn[q]} : fd[k] # fd[Conn[q]])
            => q \notin mp

(* A thread holds the mutex of all queries and waits for the end of a run  *)
(* that polls its operators, or that waits for the cancel it asked for     *)
(* itself, see DuplicateCleared.                                           *)
MutexStuck ==
    holder # Free /\ \/ run[call[holder].q] = "starting"
                     \/ run[call[holder].q] = "clearing"

(* Every cancelQuery returns, although it holds the mutex of all queries   *)
(* while it waits for the run thread of one, which may itself be           *)
(* cancelling: two things alone can stop it, and they stop it for ever.    *)
CancelReturns ==
    \A t \in Threads : call[t] # Idle ~> call[t] = Idle \/ []MutexStuck

(* A query that fails with isErr once it is registered does not stay       *)
(* registered, unless the mutex is never free again.                       *)
FailedRemoved ==
    \A q \in Continuous : run[q] = "failed" /\ q \in mp ~> q \notin mp \/ []MutexStuck

(* The comment of cancelQuery(data): on the detection of a socket close,   *)
(* it finds the queries by the number of the socket.  Those it cancels are *)
(* queries of that connection.                                             *)
ClosesOwnOnly ==
    \A k \in Conns : conn[k] = "cancelling" /\ call[k] # Idle => Conn[call[k].q] = k

(* The message of runForNearBy: a query whose task exists already is       *)
(* answered with the number of that task, and its own number is cleared.   *)
DuplicateCleared ==
    \A q \in FromCS : run[q] = "clearing" ~> q \notin mp
=============================================================================
