------------------------ MODULE QueryLifecycle_proofs -------------------------
(***************************************************************************)
(* Theorems about QueryLifecycle, for any number of connections, queries   *)
(* and socket numbers.                                                     *)
(***************************************************************************)
EXTENDS QueryLifecycle, TLAPS

-----------------------------------------------------------------------------
(* A connection has a socket number from accept on.                        *)
Numbered == \A k \in Conns : IF conn[k] = "none" THEN fd[k] = NoFd ELSE fd[k] \in Fds

(* How far addQuery is, the run thread, the flag isExitRun and the object  *)
(* of a query keep step, and a run thread is in no cancel before it asks   *)
(* for one.                                                                *)
RunInStep ==
    /\ \A q \in Queries : reg[q] = "none" => /\ run[q] = "none"
                                             /\ object[q] = "none"
                                             /\ ~isExitRun[q]
    /\ \A q \in Queries : reg[q] = "started" => object[q] = "live"
    /\ \A q \in mp : reg[q] \in {"inserted", "listed"}
    /\ \A q \in Queries : isExitRun[q] <=> run[q] \in {"failed", "done"}
    /\ \A q \in Queries : run[q] \in {"none", "parsing", "starting", "near", "failed"} => call[q] = Idle

(* LocationManager has tasks of forwarded queries alone, and run has added *)
(* them; a cs thread cancels what it found there.                          *)
Tasked == {q \in FromCS : run[q] \in {"near", "done"}}

TasksInStep ==
    /\ tasks \subseteq Tasked
    /\ \A t \in Threads : call[t].step = "remove" => call[t].q \in Tasked

Owned == TypeOK /\ RunInStep /\ MapHoldsLive /\ RunOutlived

LEMMA OwnedInit == Init => Numbered /\ TasksInStep /\ Owned
  BY LifecycleAssumption
  DEF Init, Numbered, TasksInStep, Owned, TypeOK, RunInStep, MapHoldsLive, RunOutlived, Idle, Threads

LEMMA NumberedStep == TypeOK /\ Numbered /\ [Next]_vars => Numbered'
<1> SUFFICES ASSUME TypeOK, Numbered, [Next]_vars PROVE Numbered'
  OBVIOUS
<1> USE LifecycleAssumption DEF TypeOK, Numbered
<1>1. ASSUME NEW k \in Conns, Accept(k) PROVE Numbered'
  BY <1>1 DEF Accept
<1>2. ASSUME NEW k \in Conns, Close(k) PROVE Numbered'
  BY <1>2 DEF Close, Attentive
<1>3. ASSUME NEW k \in Conns, CloseLists(k) \/ CloseForgets(k) PROVE Numbered'
  BY <1>3 DEF CloseLists, CloseForgets
<1>4. CASE UNCHANGED <<conn, fd>>
  BY <1>4
<1> HIDE DEF TypeOK, Numbered
<1> QED
  BY <1>1, <1>2, <1>3, <1>4
  DEF Next, vars, connVars, Closing, CloseCancels, UserCancels, AddQuery, Insert, List, Running,
      Started, RunFails, RunStarts, RunDuplicate, RunForNearBy, RunEnds, RunCancels, Terminate,
      CsCancels, Cancelling, CancelCheck, CancelFind, CancelPoll, CsRemoves

LEMMA TasksStep == Owned /\ TasksInStep /\ [Next]_vars => TasksInStep'
<1> SUFFICES ASSUME Owned, TasksInStep, [Next]_vars PROVE TasksInStep'
  OBVIOUS
<1>a. /\ DOMAIN run = Queries /\ FromCS \subseteq Queries
      /\ call \in [Threads -> [q : Queries \cup {NoCall},
                              step : {"idle", "check", "find", "poll", "remove"}]]
      /\ Conns \subseteq Threads /\ Queries \subseteq Threads
      /\ \A q \in Queries : reg[q] = "none" => run[q] = "none"
      /\ Idle.step = "idle"
  BY LifecycleAssumption DEF Owned, TypeOK, RunInStep, Threads, Idle
<1> USE <1>a DEF TasksInStep, Tasked
<1>1. CASE UNCHANGED <<run, call, tasks>>
  BY <1>1
<1>2. ASSUME NEW q \in Queries, AddQuery(q) PROVE TasksInStep'
  BY <1>2 DEF AddQuery
<1>3. ASSUME NEW q \in Queries, NEW places, RunFails(q) \/ RunStarts(q) \/ RunEnds(q, places)
      PROVE  TasksInStep'
  BY <1>3 DEF RunFails, RunStarts, RunEnds
<1>4. ASSUME NEW q \in Queries, RunDuplicate(q) \/ RunForNearBy(q) \/ RunCancels(q)
      PROVE  TasksInStep'
  BY <1>4 DEF RunDuplicate, RunForNearBy, RunCancels
<1>5. ASSUME NEW q \in Queries, Terminate(q) PROVE TasksInStep'
  BY <1>5 DEF Terminate, queryVars
<1>6. ASSUME NEW k \in Conns, NEW q \in Queries, CloseCancels(k, q) \/ UserCancels(k, q)
      PROVE  TasksInStep'
  BY <1>6 DEF CloseCancels, UserCancels, queryVars
<1>7. ASSUME NEW t \in Threads, NEW q \in Queries, CsCancels(t, q) PROVE TasksInStep'
  BY <1>7 DEF CsCancels, queryVars
<1>8. ASSUME NEW t \in Threads, CancelCheck(t) \/ CancelPoll(t) \/ CsRemoves(t) PROVE TasksInStep'
  BY <1>8 DEF CancelCheck, CancelPoll, CsRemoves, Return, Remove, queryVars
<1>9. ASSUME NEW t \in Threads, CancelFind(t) PROVE TasksInStep'
  <2>1. UNCHANGED <<run, tasks>>
    BY <1>9 DEF CancelFind, Remove, queryVars
  <2>2. call' = [call EXCEPT ![t] = Idle] \/ call' = [call EXCEPT ![t].step = "poll"]
    BY <1>9 DEF CancelFind, Return
  <2> QED BY <2>1, <2>2
<1> HIDE DEF TasksInStep, Tasked
<1> QED
  BY <1>1, <1>2, <1>3, <1>4, <1>5, <1>6, <1>7, <1>8, <1>9
  DEF Next, vars, queryVars, Accept, Close, Closing, CloseLists, CloseForgets, Insert, List,
      Running, Started, Cancelling

(* Every state change of a query, and every step of a cancel, keeps the    *)
(* objects owned.                                                          *)
LEMMA OwnedStep == Numbered /\ TasksInStep /\ Owned /\ [Next]_vars => Owned'
<1> SUFFICES ASSUME Numbered, TasksInStep, Owned, [Next]_vars PROVE Owned'
  OBVIOUS
<1> USE LifecycleAssumption DEF Owned, TypeOK, RunInStep, MapHoldsLive, RunOutlived, Idle, Threads
<1>1. CASE UNCHANGED vars
  BY <1>1 DEF vars
<1>2. ASSUME NEW k \in Conns, Accept(k) PROVE Owned'
  BY <1>2 DEF Accept, queryVars
<1>3. ASSUME NEW k \in Conns, Close(k) PROVE Owned'
  BY <1>3 DEF Close, queryVars
<1>4. ASSUME NEW k \in Conns, CloseLists(k) PROVE Owned'
  BY <1>4 DEF CloseLists, queryVars, Numbered
<1>5. ASSUME NEW k \in Conns, NEW q \in Queries, CloseCancels(k, q) PROVE Owned'
  BY <1>5 DEF CloseCancels, queryVars
<1>6. ASSUME NEW k \in Conns, CloseForgets(k) PROVE Owned'
  BY <1>6 DEF CloseForgets, queryVars
<1>7. ASSUME NEW k \in Conns, NEW q \in Queries, UserCancels(k, q) PROVE Owned'
  BY <1>7 DEF UserCancels, Attentive, queryVars, connVars
<1>8. ASSUME NEW q \in Queries, AddQuery(q) PROVE Owned'
  BY <1>8 DEF AddQuery, connVars
<1>9. ASSUME NEW q \in Queries, Insert(q) PROVE Owned'
  BY <1>9 DEF Insert, connVars
<1>10. ASSUME NEW q \in Queries, List(q) PROVE Owned'
  <2>1. TypeOK'
    <3>1. reg' \in [Queries -> {"none", "started", "inserted", "listed"}]
      BY <1>10 DEF List
    <3>2. sockmng' \in [Fds -> SUBSET Queries]
      <4>1. PICK f : sockmng' = [sockmng EXCEPT ![f] = @ \cup {q}]
        BY <1>10 DEF List
      <4>2. sockmng \in [Fds -> SUBSET Queries] /\ q \in Queries
        OBVIOUS
      <4> QED BY ONLY <4>1, <4>2
    <3> QED BY <1>10, <3>1, <3>2 DEF List
  <2>2. RunInStep'
    BY <1>10 DEF List
  <2>3. MapHoldsLive' /\ RunOutlived'
    BY <1>10 DEF List
  <2> QED BY <2>1, <2>2, <2>3
<1>11. ASSUME NEW q \in Queries, RunDuplicate(q) PROVE Owned'
  BY <1>11 DEF RunDuplicate, connVars
<1>12. ASSUME NEW q \in Queries, NEW places \in SUBSET {"parsing", "starting", "near", "clearing"},
              RunEnds(q, places)
       PROVE  Owned'
  <2>1. TypeOK'
    <3>1. isExitRun' \in [Queries -> BOOLEAN]
      BY <1>12 DEF RunEnds
    <3>2. run' \in [Queries -> {"none", "parsing", "starting", "near", "clearing", "failed", "done"}]
      BY <1>12 DEF RunEnds
    <3> QED BY <1>12, <3>1, <3>2 DEF RunEnds, connVars
  <2>2. RunInStep'
    <3>1. \A r \in Queries : IF r = q THEN isExitRun'[r] /\ run'[r] = "done"
                            ELSE (isExitRun'[r] <=> isExitRun[r]) /\ run'[r] = run[r]
      BY <1>12 DEF RunEnds
    <3>2. reg[q] # "none" /\ UNCHANGED <<reg, object, mp, call>>
      <4>1. run[q] # "none" /\ (reg[q] = "none" => run[q] = "none")
        BY <1>12 DEF RunEnds
      <4> QED BY <1>12, <4>1 DEF RunEnds
    <3> QED BY <3>1, <3>2
  <2>3. MapHoldsLive' /\ RunOutlived'
    BY <1>12 DEF RunEnds, connVars
  <2> QED BY <2>1, <2>2, <2>3
<1>13. ASSUME NEW q \in Queries, RunCancels(q) PROVE Owned'
  BY <1>13 DEF RunCancels, connVars
<1>14. ASSUME NEW q \in Queries, Terminate(q) PROVE Owned'
  BY <1>14 DEF Terminate, queryVars, connVars
<1>15. ASSUME NEW t \in Threads, CancelCheck(t) PROVE Owned'
  <2>1. TypeOK'
    BY <1>15 DEF CancelCheck, queryVars, connVars
  <2>2. RunInStep'
    BY <1>15 DEF CancelCheck, queryVars, connVars
  <2>3. MapHoldsLive' /\ RunOutlived'
    BY <1>15 DEF CancelCheck, queryVars, connVars
  <2> QED BY <2>1, <2>2, <2>3
<1>16. ASSUME NEW t \in Threads, CancelFind(t) PROVE Owned'
  <2> DEFINE q == call[t].q
  <2>1. call[t].step = "find" /\ holder = Free /\ UNCHANGED <<connVars, asked, tasks>>
    BY <1>16 DEF CancelFind
  <2>2. CASE q \notin mp \cap Continuous
    <3>1. Return(t) /\ UNCHANGED <<queryVars, mp, holder>>
      BY <1>16, <2>2 DEF CancelFind
    <3>2. call' = [call EXCEPT ![t] = Idle] /\ UNCHANGED <<queryVars, connVars, mp, holder, asked, tasks>>
      BY <2>1, <3>1 DEF Return
    <3>3. call' \in [Threads -> [q : Queries \cup {NoCall}, step : {"idle", "check", "find", "poll", "remove"}]]
      BY <3>2
    <3>4. TypeOK'
      BY <2>1, <3>2, <3>3 DEF queryVars, connVars
    <3>5. RunInStep'
      BY <3>2 DEF queryVars
    <3>6. MapHoldsLive' /\ RunOutlived'
      BY <3>2 DEF queryVars
    <3> QED BY <3>4, <3>5, <3>6
  <2>3. CASE q \in mp \cap Continuous /\ isExitRun[q]
    <3>1. Remove(q) /\ Return(t) /\ UNCHANGED holder
      BY <1>16, <2>3 DEF CancelFind
    <3> QED BY <2>1, <2>3, <3>1 DEF Remove, Return, connVars
  <2>4. CASE q \in mp \cap Continuous /\ ~isExitRun[q]
    <3>1. /\ holder' = t /\ call' = [call EXCEPT ![t].step = "poll"]
          /\ UNCHANGED <<queryVars, mp>>
      BY <1>16, <2>4 DEF CancelFind
    <3> QED BY <2>1, <2>4, <3>1 DEF queryVars, connVars
  <2> QED BY <2>2, <2>3, <2>4
<1>17. ASSUME NEW t \in Threads, CancelPoll(t) PROVE Owned'
  <2>1. /\ call[t].step = "poll" /\ holder = t /\ isExitRun[call[t].q] /\ call[t].q \in mp
        /\ call' = [call EXCEPT ![t] = Idle] /\ holder' = Free
    BY <1>17 DEF CancelPoll, Return
  <2>2. call' \in [Threads -> [q : Queries \cup {NoCall}, step : {"idle", "check", "find", "poll", "remove"}]]
    BY <2>1
  <2>3. TypeOK'
    <3>1. object' \in [Queries -> {"none", "live", "deleted"}] /\ mp' \subseteq Queries
      BY <1>17 DEF CancelPoll, Remove
    <3>2. UNCHANGED <<connVars, reg, run, isExitRun, asked, tasks>>
      BY <1>17 DEF CancelPoll, Remove
    <3> QED BY <2>1, <2>2, <3>1, <3>2 DEF connVars
  <2>4. RunInStep'
    <3>1. UNCHANGED <<reg, run, isExitRun>> /\ mp' \subseteq mp
      BY <1>17 DEF CancelPoll, Remove
    <3>2. \A r \in Queries : object'[r] = IF r = call[t].q THEN "deleted" ELSE object[r]
      BY <1>17 DEF CancelPoll, Remove
    <3>3. reg[call[t].q] \in {"inserted", "listed"}
      BY <2>1
    <3> QED BY <2>1, <3>1, <3>2, <3>3
  <2>5. MapHoldsLive' /\ RunOutlived'
    BY <1>17, <2>1 DEF CancelPoll, Remove
  <2> QED BY <2>3, <2>4, <2>5
<1>18. ASSUME NEW q \in Queries, RunFails(q) PROVE Owned'
  BY <1>18 DEF RunFails, connVars
<1>19. ASSUME NEW q \in Queries, RunStarts(q) PROVE Owned'
  BY <1>19 DEF RunStarts, connVars
<1>20. ASSUME NEW q \in Queries, RunForNearBy(q) PROVE Owned'
  BY <1>20 DEF RunForNearBy, connVars
<1>21. ASSUME NEW t \in Threads, NEW q \in Queries, CsCancels(t, q) PROVE Owned'
  BY <1>21 DEF CsCancels, queryVars, connVars
<1>22. ASSUME NEW t \in Threads, CsRemoves(t) PROVE Owned'
  <2>1. /\ call[t].step = "remove" /\ holder = Free /\ call' = [call EXCEPT ![t] = Idle]
        /\ UNCHANGED <<connVars, holder, asked>> /\ tasks' \subseteq Queries
        /\ call[t].q \in Tasked /\ call[t].q \in Queries
    BY <1>22 DEF CsRemoves, Return, TasksInStep, Tasked
  <2>2. call' \in [Threads -> [q : Queries \cup {NoCall}, step : {"idle", "check", "find", "poll", "remove"}]]
    BY <2>1
  <2>3. CASE call[t].q \in mp
    <3>1. Remove(call[t].q)
      BY <1>22, <2>3 DEF CsRemoves
    <3>2. TypeOK'
      BY <2>1, <2>2, <3>1 DEF Remove, connVars
    <3>3. RunInStep'
      BY <2>1, <2>3, <3>1 DEF Remove
    <3>5. MapHoldsLive'
      BY <2>1, <2>3, <3>1 DEF Remove
    <3>4. RunOutlived'
      BY <2>1, <3>1 DEF Remove, Tasked
    <3> QED BY <3>2, <3>3, <3>4, <3>5
  <2>4. CASE call[t].q \notin mp
    <3>1. UNCHANGED <<queryVars, mp>>
      BY <1>22, <2>4 DEF CsRemoves
    <3> QED BY <2>1, <2>2, <3>1 DEF queryVars, connVars
  <2> QED BY <2>3, <2>4
<1> HIDE DEF Owned, TypeOK, RunInStep, MapHoldsLive, RunOutlived, Idle, Threads
<1> QED
  BY <1>1, <1>2, <1>3, <1>4, <1>5, <1>6, <1>7, <1>8, <1>9, <1>10, <1>11, <1>12,
     <1>13, <1>14, <1>15, <1>16, <1>17, <1>18, <1>19, <1>20, <1>21, <1>22
  DEF Next, Closing, Running, Started, Cancelling

(* Type correctness; the holder of QImapMtx across steps is polling.       *)
THEOREM TypeCorrect == Spec => []TypeOK
<1>1. Owned => TypeOK
  BY DEF Owned
<1> QED
  BY <1>1, OwnedInit, NumberedStep, TasksStep, OwnedStep, PTL DEF Spec

(* A query found in mp has a live QueryExecuter, and the one a cancel      *)
(* polls stays there until that cancel removes it: nobody deletes twice.   *)
THEOREM LiveInMap == Spec => []MapHoldsLive
<1>1. Owned => TypeOK /\ MapHoldsLive
  BY DEF Owned
<1> QED
  BY <1>1, OwnedInit, NumberedStep, TasksStep, OwnedStep, PTL DEF Spec

(* No QueryExecuter is deleted while run builds and starts its operators   *)
(* or clears a duplicate: run is past isExitRun, with nothing but the      *)
(* number of a failed query left to read, or it is in runForNearBy.        *)
THEOREM RunEndsFirst == Spec => []RunOutlived
<1>1. Owned => TypeOK /\ RunOutlived
  BY DEF Owned
<1> QED
  BY <1>1, OwnedInit, NumberedStep, TasksStep, OwnedStep, PTL DEF Spec

-----------------------------------------------------------------------------
(* The path of a query registered over a connection that no other one      *)
(* shared the number with: listed under the number, then on the list of    *)
(* the closing thread, then in its cancel, until it is out of mp.          *)
Plain == Continuous \ (Preset \cup FromCS)

OwnNumber(q) == \A k \in Conns \ {Conn[q]} : fd[k] # fd[Conn[q]]

(* A query is registered while its connection is open, and the connection  *)
(* is not closed before addQuery is through with it.                       *)
RegisteredOpen ==
    \A q \in Queries :
        /\ conn[Conn[q]] = "none" => reg[q] = "none"
        /\ conn[Conn[q]] \in {"closed", "cancelling", "gone"} => reg[q] \in {"none", "listed"}

FoundFrom(q) ==
    LET k == Conn[q] IN
    /\ reg[q] = "listed" /\ conn[k] \in {"open", "closed"} => q \in sockmng[fd[k]]
    /\ q \in mp /\ conn[k] = "cancelling" =>
          q \in todo[k] \/ (call[k].q = q /\ call[k].step \in {"find", "poll"})
    /\ q \in mp => conn[k] # "gone"

Findable == \A q \in Plain : OwnNumber(q) => FoundFrom(q)

LEMMA RegisteredStep == TypeOK /\ RegisteredOpen /\ [Next]_vars => RegisteredOpen'
<1> SUFFICES ASSUME TypeOK, RegisteredOpen, [Next]_vars PROVE RegisteredOpen'
  OBVIOUS
<1> USE LifecycleAssumption DEF TypeOK, RegisteredOpen
<1>1. ASSUME NEW k \in Conns, Accept(k) PROVE RegisteredOpen'
  BY <1>1 DEF Accept, queryVars
<1>2. ASSUME NEW k \in Conns, Close(k) PROVE RegisteredOpen'
  BY <1>2 DEF Close, Attentive, queryVars
<1>3. ASSUME NEW k \in Conns, CloseLists(k) \/ CloseForgets(k) PROVE RegisteredOpen'
  BY <1>3 DEF CloseLists, CloseForgets, queryVars
<1>4. ASSUME NEW q \in Queries, AddQuery(q) PROVE RegisteredOpen'
  BY <1>4 DEF AddQuery, Attentive, connVars
<1>5. ASSUME NEW q \in Queries, Insert(q) \/ List(q) PROVE RegisteredOpen'
  BY <1>5 DEF Insert, List, connVars
<1>6. CASE UNCHANGED <<conn, reg>>
  BY <1>6
<1> HIDE DEF TypeOK, RegisteredOpen
<1> QED
  BY <1>1, <1>2, <1>3, <1>4, <1>5, <1>6
  DEF Next, vars, queryVars, connVars, Closing, CloseCancels, UserCancels, Running, Started,
      RunFails, RunStarts, RunDuplicate, RunForNearBy, RunEnds, RunCancels, Terminate, CsCancels,
      Cancelling, CancelCheck, CancelFind, CancelPoll, CsRemoves, Remove

LEMMA FindableStep ==
    Numbered /\ Owned /\ RegisteredOpen /\ Findable /\ [Next]_vars => Findable'
<1> SUFFICES ASSUME Numbered, Owned, RegisteredOpen, Findable, [Next]_vars,
                    NEW q \in Plain, OwnNumber(q)'
             PROVE  FoundFrom(q)'
  BY DEF Findable, Plain
<1> DEFINE c == Conn[q]
<1>0. /\ TypeOK /\ c \in Conns /\ q \in Queries /\ q \in Continuous /\ c \notin Queries
      /\ q \notin Preset /\ q \notin FromCS
  BY LifecycleAssumption DEF Owned, Plain, TypeOK
<1>m. q \in mp => reg[q] \in {"inserted", "listed"}
  BY <1>0 DEF Owned, RunInStep
<1>r. /\ conn[c] = "none" => reg[q] = "none"
      /\ conn[c] \in {"closed", "cancelling", "gone"} => reg[q] \in {"none", "listed"}
  BY <1>0 DEF RegisteredOpen
<1>f. UNCHANGED fd => FoundFrom(q)
  BY <1>0 DEF Findable, OwnNumber
<1> USE <1>0, <1>m, <1>r, <1>f DEF FoundFrom, TypeOK
<1>1. CASE UNCHANGED vars
  BY <1>1 DEF vars
<1>2. ASSUME NEW k \in Conns, Accept(k) PROVE FoundFrom(q)'
  <2>1. CASE k = c
    BY <1>2, <2>1 DEF Accept, queryVars
  <2>2. CASE k # c /\ conn[c] = "none"
    BY <1>2, <2>2 DEF Accept, queryVars
  <2>3. CASE k # c /\ conn[c] # "none"
    <3>1. \A j \in Conns \ {c} : fd[j] # fd[c]
      BY <1>2, <2>3, LifecycleAssumption DEF Accept, OwnNumber, Numbered
    <3>2. FoundFrom(q)
      BY <3>1 DEF Findable, OwnNumber
    <3> QED BY <1>2, <2>3, <3>2 DEF Accept, queryVars
  <2> QED BY <2>1, <2>2, <2>3
<1>3. ASSUME NEW k \in Conns, Close(k) PROVE FoundFrom(q)'
  BY <1>3 DEF Close, Attentive, queryVars
<1>4. ASSUME NEW k \in Conns, CloseLists(k) PROVE FoundFrom(q)'
  BY <1>4 DEF CloseLists, queryVars
<1>5. ASSUME NEW k \in Conns, NEW r \in Queries, CloseCancels(k, r) PROVE FoundFrom(q)'
  BY <1>5 DEF CloseCancels, queryVars, Threads, Idle
<1>6. ASSUME NEW k \in Conns, CloseForgets(k) PROVE FoundFrom(q)'
  <2>1. CASE k = c
    BY <1>6, <2>1 DEF CloseForgets, queryVars, Idle
  <2>2. CASE k # c
    BY <1>6, <2>2 DEF CloseForgets, queryVars, OwnNumber
  <2> QED BY <2>1, <2>2
<1>7. ASSUME NEW k \in Conns, NEW r \in Queries, UserCancels(k, r) PROVE FoundFrom(q)'
  BY <1>7 DEF UserCancels, Attentive, queryVars, connVars, Threads
<1>8. ASSUME NEW r \in Queries, AddQuery(r) PROVE FoundFrom(q)'
  BY <1>8 DEF AddQuery, connVars
<1>9. ASSUME NEW r \in Queries, Insert(r) PROVE FoundFrom(q)'
  BY <1>9 DEF Insert, connVars
<1>10. ASSUME NEW r \in Queries, List(r) PROVE FoundFrom(q)'
  BY <1>10, LifecycleAssumption DEF List, RegisteredOpen, Numbered
<1>11. ASSUME NEW r \in Queries, RunDuplicate(r) \/ RunCancels(r) \/ Terminate(r) PROVE FoundFrom(q)'
  BY <1>11 DEF RunDuplicate, RunCancels, Terminate, connVars, queryVars, Threads
<1>12. ASSUME NEW r \in Queries, NEW places,
              RunFails(r) \/ RunStarts(r) \/ RunForNearBy(r) \/ RunEnds(r, places)
       PROVE  FoundFrom(q)'
  BY <1>12 DEF RunFails, RunStarts, RunForNearBy, RunEnds, connVars
<1>13. ASSUME NEW t \in Threads, CancelCheck(t) PROVE FoundFrom(q)'
  BY <1>13 DEF CancelCheck, queryVars, connVars, Threads
<1>14. ASSUME NEW t \in Threads, CancelFind(t) PROVE FoundFrom(q)'
  <2>1. UNCHANGED <<connVars, reg>> /\ call[t].step = "find" /\ c \in Threads
    BY <1>14 DEF CancelFind, Remove, queryVars, Threads
  <2>2. CASE call[t].q \notin mp \cap Continuous \/ isExitRun[call[t].q]
    <3>1. call' = [call EXCEPT ![t] = Idle] /\ (q \in mp' => q \in mp /\ call[t].q # q)
      BY <1>14, <2>2 DEF CancelFind, Return, Remove
    <3> QED BY <2>1, <3>1 DEF connVars
  <2>3. CASE call[t].q \in mp \cap Continuous /\ ~isExitRun[call[t].q]
    <3>1. call' = [call EXCEPT ![t].step = "poll"] /\ mp' = mp
      BY <1>14, <2>3 DEF CancelFind, Return, Remove
    <3> QED BY <2>1, <3>1 DEF connVars
  <2> QED BY <2>2, <2>3
<1>15. ASSUME NEW t \in Threads, CancelPoll(t) PROVE FoundFrom(q)'
  <2>1. UNCHANGED <<connVars, reg>> /\ call[t].step = "poll" /\ c \in Threads
    BY <1>15 DEF CancelPoll, Remove, Threads
  <2>2. (t # c => call'[c] = call[c]) /\ mp' = mp \ {call[t].q}
    BY <1>15, <2>1 DEF CancelPoll, Return, Remove
  <2>3. conn' = conn /\ fd' = fd /\ sockmng' = sockmng /\ todo' = todo /\ reg' = reg
    BY <2>1 DEF connVars
  <2>4. /\ reg[q] = "listed" /\ conn[c] \in {"open", "closed"} => q \in sockmng[fd[c]]
        /\ q \in mp /\ conn[c] = "cancelling" =>
              q \in todo[c] \/ (call[c].q = q /\ call[c].step \in {"find", "poll"})
        /\ q \in mp => conn[c] # "gone"
    BY <2>3
  <2> QED BY ONLY <2>2, <2>3, <2>4 DEF FoundFrom
<1>16. ASSUME NEW t \in Threads, NEW r \in Queries, CsCancels(t, r) PROVE FoundFrom(q)'
  BY <1>16, LifecycleAssumption DEF CsCancels, queryVars, connVars, Threads
<1>17. ASSUME NEW t \in Threads, CsRemoves(t) PROVE FoundFrom(q)'
  BY <1>17 DEF CsRemoves, Return, Remove, queryVars, connVars, Threads
<1> HIDE DEF FoundFrom, TypeOK
<1> QED
  BY <1>1, <1>2, <1>3, <1>4, <1>5, <1>6, <1>7, <1>8, <1>9, <1>10, <1>11, <1>12,
     <1>13, <1>14, <1>15, <1>16, <1>17 DEF Next, Closing, Running, Started, Cancelling

(* However registrations, failures and cancels meet, the thread of a       *)
(* closed connection leaves no plain continuous query of it behind, unless *)
(* another connection had the same socket number.                          *)
THEOREM ClosedIsEmpty == Spec => []ClosedLeavesNothing
<1>1. Init => RegisteredOpen /\ Findable
  BY LifecycleAssumption DEF Init, RegisteredOpen, Findable, FoundFrom, Plain
<1>2. Owned => TypeOK
  BY DEF Owned
<1>3. Findable => ClosedLeavesNothing
  BY DEF Findable, FoundFrom, ClosedLeavesNothing, Plain, OwnNumber
<1> QED
  BY <1>1, <1>2, <1>3, OwnedInit, NumberedStep, TasksStep, OwnedStep, RegisteredStep, FindableStep, PTL DEF Spec
=============================================================================
