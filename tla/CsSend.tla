-------------------------------- MODULE CsSend --------------------------------
(***************************************************************************)
(* The sending half of the communication server (dm2/cs, ProcRcv): one     *)
(* ProcReceiver thread takes messages and registrations from the programs  *)
(* of the station; one NwSender thread per network, and per peer of the    *)
(* DTLS network, sends.  They share the settings (who serves which peer,   *)
(* and a flag per sender that asks it to read its list again), the files   *)
(* that map a station number to an address, and a queue per sender.        *)
(*                                                                         *)
(* A registration that changes the address of a DTLS peer, or deletes it,  *)
(* stops the sender of that peer; a new address gets a new sender.  The    *)
(* DTLS network is the last one of the settings and has a list of its own. *)
(*                                                                         *)
(* Nobody looks at the result of updateSidIp: when a list cannot be        *)
(* written the registration goes on without it.  A look-up nobody catches  *)
(* and a socket that cannot be made end the process.                       *)
(***************************************************************************)
EXTENDS Integers, Sequences, FiniteSets

CONSTANTS
    Sids,          \* station numbers of peers, below 2^31: UnorderedMapMake
                   \* reads those of a list into an int
    Ips,           \* addresses
    NoSid, NoIp,   \* dtls_dest_sids of a sender without a peer; not connected
    InitialList,   \* the list of both networks when the server starts
    Backlog,       \* Size() above which a queue is cleared (10000 in the code)
    MaxMessages,   \* bound: messages of the programs
    MaxRegs,       \* bound: registrations
    MaxTaken       \* bound: messages and registrations together

(* A partial map from station numbers to addresses: the lines of a list.   *)
Lists == UNION {[D -> Ips] : D \in SUBSET Sids}

(* The flags of the settings, one for each sender there will ever be.      *)
ThreadFlags == 10

(* Of a DTLS network without a line in its list the code starts a sender   *)
(* that has no entry in dtls_dest_sids; of more senders than flags it sets *)
(* flags behind the array.  Both are left out.                             *)
ASSUME SendAssumption ==
    /\ NoSid \notin Sids /\ NoIp \notin Ips
    /\ InitialList \in Lists /\ DOMAIN InitialList # {} /\ IsFiniteSet(Sids)
    /\ Backlog \in Nat /\ MaxMessages \in Nat /\ MaxRegs \in Nat /\ MaxTaken \in Nat
    /\ 1 + Cardinality(DOMAIN InitialList) + MaxRegs <= ThreadFlags

Dests == Sids \cup {NoSid}
Registrations == [sid : Sids, ip : Ips, delete : BOOLEAN]

VARIABLES
    file,      \* file.udp, file.dtls: the lists on disk
    senders,   \* the NwSenders and their entries in the settings, see Sender
    receiver,  \* what ProcReceiver is about to do
    taken,     \* how many messages and registrations it took
    ended,     \* the process has exited
    sent,      \* history: [msg, via, ip, stopped] of what DTLS senders sent
    stale      \* history: peers whose last change the DTLS list did not take

vars == <<file, senders, receiver, taken, ended, sent, stale>>

NoMessage == [id |-> 0, dst |-> NoSid]

(* dest: dtls_dest_sids; exit: exit_run_thread and the closed socket;      *)
(* flag: threadFlags; list: what sidManagement read; ip: the peer it is    *)
(* connected to; born: history, whom it was made for and where, and        *)
(* whether the list says so.                                               *)
Sender(type, sid, ip, written) ==
    [type |-> type, dest |-> sid, exit |-> FALSE, flag |-> FALSE, queue |-> <<>>,
     at |-> "start", msg |-> NoMessage, list |-> <<>>, ip |-> NoIp,
     born |-> [sid |-> sid, ip |-> ip, written |-> written]]

Message == [id : 0..MaxMessages, dst : Dests]

SenderState ==
    [type : {"udp", "dtls"}, dest : Dests, exit : BOOLEAN, flag : BOOLEAN, queue : Seq(Message),
     at : {"start", "loop", "pop", "flag", "init", "reset", "connect", "send", "gone"},
     msg : Message, list : Lists, ip : Ips \cup {NoIp},
     born : [sid : Dests, ip : Ips \cup {NoIp}, written : BOOLEAN]]

(* sm: the registration, or msg: the message in hand; idx: the network the *)
(* loop is at; found: somebody served the peer; update: at another address.*)
ReceiverState ==
    [at : {"idle"}]
    \cup [at : {"check", "update", "setflag"}, sm : Registrations, idx : 1..Len(senders),
          found : BOOLEAN, update : BOOLEAN, erase : BOOLEAN]
    \cup [at : {"new"}, sm : Registrations, found : BOOLEAN]
    \cup [at : {"push", "clear", "drop"}, msg : Message, idx : 1..Len(senders)]

TypeOK ==
    /\ file \in [{"udp", "dtls"} -> Lists]
    /\ senders \in Seq(SenderState)
    /\ receiver \in ReceiverState
    /\ taken \in [messages : 0..MaxMessages, regs : 0..MaxRegs]
    /\ ended \in BOOLEAN /\ stale \subseteq Sids

(* load_dm2conf and main: one sender for the first network, one for every  *)
(* line of the DTLS list, in the order its map brings the keys.            *)
Init ==
    /\ file = [udp |-> InitialList, dtls |-> InitialList]
    /\ \E order \in [1..Cardinality(DOMAIN InitialList) -> DOMAIN InitialList] :
          /\ \A j, k \in DOMAIN order : order[j] = order[k] => j = k
          /\ senders = <<Sender("udp", NoSid, NoIp, TRUE)>>
                          \o [k \in DOMAIN order |-> Sender("dtls", order[k], InitialList[order[k]], TRUE)]
    /\ receiver = [at |-> "idle"]
    /\ taken = [messages |-> 0, regs |-> 0]
    /\ ended = FALSE
    /\ sent = {} /\ stale = {}

(* Every step needs a running process; some end it.                        *)
Alive == ~ended /\ UNCHANGED ended

ProcessEnds ==
    /\ ~ended /\ ended' = TRUE
    /\ UNCHANGED <<file, senders, receiver, taken, sent, stale>>

-----------------------------------------------------------------------------
(* ProcReceiver::receiveDataToQueue and sid_update_check.                  *)

Idle == receiver' = [at |-> "idle"]

(* The next network, and what follows the loop after the last one.         *)
AfterLoop(r) ==
    IF ~r.found \/ r.update THEN [at |-> "new", sm |-> r.sm, found |-> r.found] ELSE [at |-> "idle"]

(* Deliberate fault, see "mutants" in PROJECT.json. *)
NextNetworkPastEnd(r) ==
    receiver' = IF r.idx <= Len(senders) THEN [r EXCEPT !.at = "check", !.idx = @ + 1] ELSE AfterLoop(r)

NextNetwork(r) ==
    receiver' = IF r.idx < Len(senders) THEN [r EXCEPT !.at = "check", !.idx = @ + 1] ELSE AfterLoop(r)

More == taken.messages + taken.regs < MaxTaken

TakeRegistration ==
    /\ Alive /\ receiver.at = "idle" /\ taken.regs < MaxRegs /\ More
    /\ taken' = [taken EXCEPT !.regs = @ + 1]
    /\ \E sm \in Registrations :
          receiver' = [at |-> "check", sm |-> sm, idx |-> 1, found |-> FALSE, update |-> FALSE, erase |-> FALSE]
    /\ UNCHANGED <<file, senders, sent, stale>>

CheckUdp ==
    /\ receiver.at = "check" /\ senders[receiver.idx].type = "udp"
    /\ receiver' = [receiver EXCEPT !.at = "update", !.erase = FALSE]
    /\ UNCHANGED <<senders, file, stale>>

Serves(i, sid) == senders[i].type = "dtls" /\ senders[i].dest = sid

(* sid2ip throws for a peer that is not in the list; nobody catches it.    *)
Listed(r) == r.sm.sid \in DOMAIN file.dtls

CheckThrows ==
    /\ receiver.at = "check" /\ Serves(receiver.idx, receiver.sm.sid) /\ ~Listed(receiver)
    /\ ProcessEnds

(* Deliberate faults, see "mutants" in PROJECT.json. *)
StoppedKeepsPeer(i) == [senders EXCEPT ![i].exit = TRUE]
StoppedRunsOn(i) == [senders EXCEPT ![i].dest = NoSid]

(* onStopSender: CloseSocketOnly and setRunExitThreadFlg; then dest is 0.  *)
Stopped(i) == [senders EXCEPT ![i].exit = TRUE, ![i].dest = NoSid]

CheckServed ==
    LET sm == receiver.sm  current == file.dtls[sm.sid] IN
    /\ receiver.at = "check" /\ Serves(receiver.idx, sm.sid) /\ Listed(receiver)
    /\ \/ /\ current # sm.ip
          /\ senders' = Stopped(receiver.idx)
          /\ receiver' = [receiver EXCEPT !.at = "update", !.found = TRUE, !.update = TRUE, !.erase = FALSE]
       \/ /\ current = sm.ip /\ sm.delete
          /\ senders' = Stopped(receiver.idx)
          /\ receiver' = [receiver EXCEPT !.at = "update", !.found = TRUE, !.erase = TRUE]
       \/ /\ current = sm.ip /\ ~sm.delete
          /\ NextNetwork([receiver EXCEPT !.found = TRUE])
          /\ UNCHANGED senders
    /\ UNCHANGED <<file, stale>>

CheckOther ==
    /\ receiver.at = "check" /\ senders[receiver.idx].type = "dtls"
    /\ senders[receiver.idx].dest # receiver.sm.sid
    /\ NextNetwork(receiver)
    /\ UNCHANGED <<senders, file, stale>>

(* Deliberate fault, see "mutants" in PROJECT.json. *)
WrittenNeverErased(list, sm, erase) ==
    [s \in DOMAIN list \cup {sm.sid} |-> IF s = sm.sid THEN sm.ip ELSE list[s]]

(* SidManagement::updateSidIp: the same line again changes nothing, or     *)
(* erases it; another address, or a new peer, is written, and a delete of  *)
(* another address erases the line.                                        *)
Written(list, sm, erase) ==
    IF sm.sid \in DOMAIN list /\ erase THEN [s \in DOMAIN list \ {sm.sid} |-> list[s]]
    ELSE [s \in DOMAIN list \cup {sm.sid} |-> IF s = sm.sid THEN sm.ip ELSE list[s]]

(* What has to be written is written, or the list or its copy does not     *)
(* open, or the copy cannot be renamed, and the list stays what it was.    *)
WriteList(type, sm, erase) ==
    LET list == Written(file[type], sm, erase) IN
    \/ /\ file' = [file EXCEPT ![type] = list]
       /\ stale' = IF type = "dtls" THEN stale \ {sm.sid} ELSE stale
    \/ /\ list # file[type] /\ UNCHANGED file
       /\ stale' = IF type = "dtls" THEN stale \cup {sm.sid} ELSE stale

UpdateFile ==
    /\ receiver.at = "update"
    /\ WriteList(senders[receiver.idx].type, receiver.sm, receiver.erase)
    /\ receiver' = [receiver EXCEPT !.at = "setflag"]
    /\ UNCHANGED senders

SetFlag ==
    /\ receiver.at = "setflag"
    /\ senders' = [senders EXCEPT ![receiver.idx].flag = TRUE]
    /\ NextNetwork(receiver)
    /\ UNCHANGED <<file, stale>>

(* A peer nobody serves is added to the list, whatever the message asks    *)
(* for; set_dtls_conf_copy, network_num++ and AddNewSender.                *)
NewSender ==
    /\ receiver.at = "new"
    /\ IF receiver.found THEN UNCHANGED <<file, stale>>
       ELSE WriteList("dtls", receiver.sm, FALSE)
    /\ senders' = Append(senders, Sender("dtls", receiver.sm.sid, receiver.sm.ip,
                                        receiver.sm.sid \notin stale'))
    /\ Idle

Register ==
    /\ Alive
    /\ CheckUdp \/ CheckServed \/ CheckOther \/ UpdateFile \/ SetFlag \/ NewSender
    /\ UNCHANGED <<taken, sent>>

TakeMessage ==
    /\ Alive /\ receiver.at = "idle" /\ taken.messages < MaxMessages /\ More
    /\ taken' = [taken EXCEPT !.messages = @ + 1]
    /\ \E d \in Dests :
          receiver' = [at |-> "push", msg |-> [id |-> taken.messages + 1, dst |-> d], idx |-> 1]
    /\ UNCHANGED <<file, senders, sent, stale>>

NextQueue == IF receiver.idx < Len(senders) THEN receiver' = [receiver EXCEPT !.at = "push", !.idx = @ + 1] ELSE Idle

Queue == senders[receiver.idx].queue

(* DTLS senders of other peers are passed over.                            *)
PassOver ==
    /\ receiver.at = "push" /\ senders[receiver.idx].type = "dtls"
    /\ senders[receiver.idx].dest # receiver.msg.dst
    /\ NextQueue
    /\ UNCHANGED senders

Wanted == senders[receiver.idx].type = "udp" \/ senders[receiver.idx].dest = receiver.msg.dst

BacklogFound ==
    /\ receiver.at = "push" /\ Wanted /\ Len(Queue) > Backlog
    /\ receiver' = [receiver EXCEPT !.at = "clear"]
    /\ UNCHANGED senders

Queued(i, m) == [senders EXCEPT ![i].queue = Append(@, m)]

PushMessage ==
    /\ receiver.at = "push" /\ Wanted /\ Len(Queue) <= Backlog
    /\ senders' = Queued(receiver.idx, receiver.msg)
    /\ NextQueue

(* while (!Empty()) Pop(): two operations on a queue its sender pops, too. *)
ClearTest ==
    /\ receiver.at = "clear" /\ Queue # <<>>
    /\ receiver' = [receiver EXCEPT !.at = "drop"]
    /\ UNCHANGED senders

ClearPop ==
    /\ receiver.at = "drop" /\ Queue # <<>>
    /\ senders' = [senders EXCEPT ![receiver.idx].queue = Tail(@)]
    /\ receiver' = [receiver EXCEPT !.at = "clear"]

Cleared ==
    /\ receiver.at = "clear" /\ Queue = <<>>
    /\ senders' = Queued(receiver.idx, receiver.msg)
    /\ NextQueue

ReceiveDataToQueue ==
    /\ Alive
    /\ PassOver \/ BacklogFound \/ PushMessage \/ ClearTest \/ ClearPop \/ Cleared
    /\ UNCHANGED <<file, taken, sent, stale>>

ProcReceiver == TakeRegistration \/ Register \/ CheckThrows \/ TakeMessage \/ ReceiveDataToQueue

-----------------------------------------------------------------------------
(* NwSender::sender of sender i.                                           *)

Set(i, s) == senders' = [senders EXCEPT ![i] = s]

(* Back to the head of the loop; the message is not looked at again.       *)
Done(s) == [s EXCEPT !.at = "loop", !.msg = NoMessage]

ReadList(i) ==
    LET s == senders[i] IN
    /\ \/ s.at = "start" /\ Set(i, [s EXCEPT !.list = file[s.type], !.at = "loop"])
       \/ s.at = "init" /\ Set(i, [s EXCEPT !.list = file[s.type], !.at = "reset"])
    /\ UNCHANGED sent

(* Deliberate fault, see "mutants" in PROJECT.json. *)
LookPastExit(i) ==
    LET s == senders[i] IN
    /\ s.at = "loop" /\ s.queue # <<>>
    /\ Set(i, [s EXCEPT !.at = "pop"])
    /\ UNCHANGED sent

(* !Empty(), and the exit flag.  While the queue is empty the loop spins.  *)
Look(i) ==
    LET s == senders[i] IN
    /\ s.at = "loop" /\ s.queue # <<>>
    /\ \/ s.exit /\ Set(i, [s EXCEPT !.at = "gone"])
       \/ ~s.exit /\ Set(i, [s EXCEPT !.at = "pop"])
    /\ UNCHANGED sent

Pop(i) ==
    LET s == senders[i] IN
    /\ s.at = "pop" /\ s.queue # <<>>
    /\ Set(i, [s EXCEPT !.msg = Head(s.queue), !.queue = Tail(s.queue), !.at = "flag"])
    /\ UNCHANGED sent

(* Deliberate fault, see "mutants" in PROJECT.json. *)
LookupEnds(i, s) ==
    \/ s.msg.dst \notin DOMAIN s.list /\ Set(i, [s EXCEPT !.at = "gone"])
    \/ /\ s.msg.dst \in DOMAIN s.list
       /\ \/ s.type = "udp" /\ Set(i, [s EXCEPT !.ip = s.list[s.msg.dst], !.at = "send"])
          \/ s.type = "dtls" /\ s.ip = NoIp /\ Set(i, [s EXCEPT !.at = "connect"])
          \/ s.type = "dtls" /\ s.ip # NoIp /\ Set(i, [s EXCEPT !.at = "send"])

(* sid2ip; the message is dropped when it throws.  A DTLS sender connects  *)
(* for its first message and after a failure, a UDP socket is made anew.   *)
Lookup(i, s) ==
    \/ s.msg.dst \notin DOMAIN s.list /\ Set(i, Done(s))
    \/ /\ s.msg.dst \in DOMAIN s.list
       /\ \/ s.type = "udp" /\ Set(i, [s EXCEPT !.ip = s.list[s.msg.dst], !.at = "send"])
          \/ s.type = "dtls" /\ s.ip = NoIp /\ Set(i, [s EXCEPT !.at = "connect"])
          \/ s.type = "dtls" /\ s.ip # NoIp /\ Set(i, [s EXCEPT !.at = "send"])

TestFlag(i) ==
    LET s == senders[i] IN
    /\ s.at = "flag"
    /\ \/ s.flag /\ Set(i, [s EXCEPT !.at = "init"])
       \/ ~s.flag /\ Lookup(i, s)
    /\ UNCHANGED sent

ResetFlag(i) ==
    LET s == senders[i] IN
    /\ s.at = "reset"
    /\ Lookup(i, [s EXCEPT !.flag = FALSE])
    /\ UNCHANGED sent

(* InitServer tries until it is connected, or finds the socket closed by   *)
(* StopNewSender after a failure; then the message in hand is lost.        *)
Connect(i) ==
    LET s == senders[i] IN
    /\ s.at = "connect"
    /\ \/ Set(i, [s EXCEPT !.ip = s.list[s.msg.dst], !.at = "send"])
       \/ s.exit /\ Set(i, [s EXCEPT !.at = "gone"])
    /\ UNCHANGED sent

(* getaddrinfo fails for the address, or there is no socket: exit.         *)
SocketFails(i) ==
    LET s == senders[i] IN
    /\ \/ /\ s.type = "udp" /\ s.msg.dst \in DOMAIN s.list
          /\ s.at = "reset" \/ (s.at = "flag" /\ ~s.flag)
       \/ s.at = "connect"
    /\ ProcessEnds

SendToEdge(i) ==
    LET s == senders[i] IN
    /\ s.at = "send"
    /\ \/ /\ s.type = "udp"
          /\ Set(i, [Done(s) EXCEPT !.ip = NoIp])
          /\ UNCHANGED sent
       \/ /\ s.type = "dtls"
          /\ Set(i, Done(s))
          /\ sent' = sent \cup {[msg |-> s.msg, via |-> i, ip |-> s.ip, stopped |-> s.exit]}
       \/ /\ s.type = "dtls"
          /\ Set(i, [Done(s) EXCEPT !.ip = NoIp])
          /\ UNCHANGED sent

NwSender(i) ==
    /\ Alive
    /\ \/ ReadList(i) \/ Look(i) \/ Pop(i) \/ TestFlag(i) \/ ResetFlag(i)
       \/ Connect(i) \/ SendToEdge(i)
    /\ UNCHANGED <<file, receiver, taken, stale>>

Next == ProcReceiver \/ \E i \in 1..Len(senders) : NwSender(i) \/ SocketFails(i)

(* The threads run.  No program has to send or register anything, and a    *)
(* peer need not accept a connection.                                      *)
Senders == 1..(1 + Cardinality(DOMAIN InitialList) + MaxRegs)
Fairness ==
    /\ WF_vars(Register \/ CheckThrows \/ ReceiveDataToQueue)
    /\ \A i \in Senders : WF_vars(i <= Len(senders) /\ NwSender(i))

Spec == Init /\ [][Next]_vars /\ Fairness

-----------------------------------------------------------------------------
Running(i) == senders[i].type = "dtls" /\ ~senders[i].exit

(* Between two messages the list on disk and the senders agree: a peer     *)
(* whose last change could be written is in the DTLS list if and only if   *)
(* exactly one running sender serves it, however registrations, changes of *)
(* address, deletions and failures to write follow on one another; no peer *)
(* has two running senders, and a stopped sender serves nobody.            *)
ListedServed ==
    receiver.at = "idle" =>
        /\ \A s \in Sids :
              LET serving == {i \in 1..Len(senders) : Running(i) /\ senders[i].dest = s}
              IN  /\ Cardinality(serving) <= 1
                  /\ s \notin stale => (s \in DOMAIN file.dtls <=> serving # {})
        /\ \A i \in 1..Len(senders) : senders[i].exit => senders[i].dest = NoSid

(* sid_update_check looks up the peer of a sender in the list and catches  *)
(* nothing: it throws, and ends the process, for no other peer than one    *)
(* whose last change could not be written.                                 *)
ThrowsOnlyStale ==
    receiver.at = "check" /\ Serves(receiver.idx, receiver.sm.sid) /\ ~Listed(receiver)
        => receiver.sm.sid \in stale

(* What a DTLS sender sends goes to the peer it was made for, never to     *)
(* station number 0 which it stands for once it is stopped, and, until it  *)
(* is stopped, at the address it was made for, unless that address could   *)
(* not be written: a later change of the list is never seen by the sender  *)
(* of the old address before it has to stop.                               *)
SentToItsPeer ==
    \A p \in sent :
        LET s == senders[p.via]
        IN p.msg.dst = s.born.sid /\ (p.stopped \/ ~s.born.written \/ p.ip = s.born.ip)

(* After StopNewSender a sender finishes the message it has in hand and    *)
(* sends nothing else, whatever its queue holds.                           *)
OneAfterStop ==
    \A p, q \in sent : p # q /\ p.stopped /\ q.stopped => p.via # q.via

(* What the UDP sender is given, it takes out again: a peer without an     *)
(* address or a changed list does not hold up the messages behind it.  An  *)
(* address that cannot be used ends the process.                           *)
UdpDrains == senders[1].queue # <<>> ~> senders[1].queue = <<>> \/ ended

(* A queue that is too long is cleared, and the message that found it so   *)
(* is queued (ProcReceiver.cpp:74).                                        *)
BacklogCleared == receiver.at = "clear" ~> receiver.at \notin {"clear", "drop"} \/ ended

=============================================================================
