------------------------------ MODULE CsReceive ------------------------------
(***************************************************************************)
(* The receiving half of the communication server (dm2/cs, NwRcv): one     *)
(* NwReceiver thread per network interface puts the fragments of a message *)
(* together (SocketUtil::combineFragment) and pushes whole messages into   *)
(* one queue; ProcSender takes them out, drops those another network has   *)
(* brought already, and hands the rest to the programs of the station.     *)
(*                                                                         *)
(* Every NwReceiver has a thread that throws away what stayed incomplete   *)
(* (ClearUnorderedMap), and ProcSender one that forgets the messages it    *)
(* has seen (clean_duplicate_map).  The maps have a mutex each, held for   *)
(* one operation: every operation on a map is a step.  A network may lose, *)
(* reorder and repeat datagrams.                                           *)
(***************************************************************************)
EXTENDS Integers, Sequences, FiniteSets

CONSTANTS
    Networks,          \* receiving interfaces
    Messages,          \* src_station_id and duplication_check_id of a message
    Size,              \* Size[n][m]: fragments of m on network n, 0: not sent there
    Mine,              \* messages for this station (its number or 90000000)
    CsDuplicateCheck,  \* setting CS_DUPLICATE_CHECK = 1
    ClearTime,         \* combination_map_clear_time_
    DualClearTime,     \* setting DUAL_MAP_CLEAR_TIME
    MaxSendtoTimes,    \* setting MAX_SENDTO_TIMES
    MaxTime,           \* bound: the clock
    MaxRepeats         \* bound: MaxRepeats[n] datagrams network n repeats

ASSUME ReceiveAssumption ==
    /\ Size \in [Networks -> [Messages -> Nat]]
    /\ Mine \subseteq Messages
    /\ CsDuplicateCheck \in BOOLEAN
    /\ ClearTime \in Nat /\ DualClearTime \in Nat
    /\ MaxSendtoTimes \in Nat /\ MaxTime \in Nat /\ MaxRepeats \in [Networks -> Nat]

Parts(n, m) == 1..Size[n][m]

AllParts == UNION {Parts(n, m) : n \in Networks, m \in Messages}

Fragments(n) == {f \in Messages \X AllParts : f[2] \in Parts(n, f[1])}

VARIABLES
    now,       \* time(NULL)
    air,       \* air[n]: fragments on their way on network n
    repeats,   \* repeats[n]: datagrams network n has repeated
    receiver,  \* receiver[n]: what NwReceiver n is about to do, and its buf
    times,     \* flagment_data_receive_time_map of n
    combos,    \* flagment_data_combination_map of n
    cleaner,   \* what the ClearUnorderedMap of n is about to do
    queue,     \* p_queue
    forwarded, \* messages sent on to the station's own ProcRcv
    sender,    \* what ProcSender is about to do
    seen,      \* sid_sq_id_received_time_map
    handed,    \* history: what was handed to programs, or failed to be
    log        \* history: log[n][m], how often fragments came and when first

vars == <<now, air, repeats, receiver, times, combos, cleaner, queue, forwarded,
          sender, seen, handed, log>>

netVars == <<air, repeats, receiver, times, combos, cleaner, log>>

Without(f, k) == [x \in DOMAIN f \ {k} |-> f[x]]
With(f, k, v) == [x \in DOMAIN f \cup {k} |-> IF x = k THEN v ELSE f[x]]

(* Deliberate fault: what is exactly as old as allowed is old.             *)
OldInclusive(f, age) == {k \in DOMAIN f : f[k] <= now - age}

(* Keys of a map of times that are older than age seconds.                 *)
Old(f, age) == {k \in DOMAIN f : f[k] < now - age}

Clock == 0..MaxTime
Payload == [msg : Messages, net : Networks, parts : SUBSET AllParts]
Combo == [left : Int, parts : SUBSET AllParts]
Partial(S) == UNION {[K -> S] : K \in SUBSET Messages}

TypeOK ==
    /\ now \in Clock
    /\ \A n \in Networks : air[n] \subseteq Fragments(n)
    /\ \A n \in Networks : repeats[n] \in 0..MaxRepeats[n]
    /\ \A n \in Networks :
          /\ receiver[n].at \in {"wait", "exist", "insert", "store", "combine", "forget", "route"}
          /\ receiver[n].at # "wait" =>
                receiver[n].msg \in Messages /\ receiver[n].part \in Parts(n, receiver[n].msg)
          /\ times[n] \in Partial(Clock)
          /\ DOMAIN combos[n] \subseteq Messages
          /\ \A m \in DOMAIN combos[n] :
                /\ combos[n][m] \in Combo
                /\ combos[n][m].parts \subseteq Parts(n, m)
                /\ combos[n][m].left <= Size[n][m] - Cardinality(combos[n][m].parts)
          /\ cleaner[n].at \in {"search", "erase", "forget"}
    /\ queue \in Seq(Payload)
    /\ forwarded \subseteq Messages
    /\ sender.at \in {"pop", "check", "send"}
    /\ seen \in Partial(Clock)

Init ==
    /\ now = 0
    /\ air = [n \in Networks |-> Fragments(n)]
    /\ repeats = [n \in Networks |-> 0]
    /\ receiver = [n \in Networks |-> [at |-> "wait"]]
    /\ times = [n \in Networks |-> <<>>]
    /\ combos = [n \in Networks |-> <<>>]
    /\ cleaner = [n \in Networks |-> [at |-> "search"]]
    /\ queue = <<>>
    /\ forwarded = {}
    /\ sender = [at |-> "pop"]
    /\ seen = <<>>
    /\ handed = <<>>
    /\ log = [n \in Networks |-> [m \in Messages |-> [came |-> [i \in Parts(n, m) |-> 0], first |-> 0]]]

-----------------------------------------------------------------------------
(* NwReceiver::receiver and combineFragment.                               *)

Goto(n, place) == receiver' = [receiver EXCEPT ![n].at = place]
Wait(n) == receiver' = [receiver EXCEPT ![n] = [at |-> "wait"]]

Logged(n, m, i) ==
    LET came == log[n][m].came
    IN  [log EXCEPT ![n][m] =
            [came |-> [came EXCEPT ![i] = came[i] + 1],
             first |-> IF \A j \in Parts(n, m) : came[j] = 0 THEN now ELSE log[n][m].first]]

(* A datagram comes; the network may bring it once more.  A message of one *)
(* fragment needs no map; of any other one the receive time is noted.      *)
Receive(n) ==
    /\ receiver[n].at = "wait"
    /\ \E f \in air[n] :
          /\ \/ air' = [air EXCEPT ![n] = @ \ {f}] /\ UNCHANGED repeats
             \/ /\ repeats[n] < MaxRepeats[n]
                /\ repeats' = [repeats EXCEPT ![n] = @ + 1]
                /\ UNCHANGED air
          /\ log' = Logged(n, f[1], f[2])
          /\ \/ /\ Size[n][f[1]] = 1
                /\ receiver' = [receiver EXCEPT ![n] =
                      [at |-> "route", msg |-> f[1], part |-> f[2], parts |-> {f[2]}]]
                /\ UNCHANGED times
             \/ /\ Size[n][f[1]] > 1
                /\ receiver' = [receiver EXCEPT ![n] =
                      [at |-> "exist", msg |-> f[1], part |-> f[2], parts |-> {}]]
                /\ times' = [times EXCEPT ![n] = With(@, f[1], now)]
    /\ UNCHANGED <<now, combos, cleaner, queue, forwarded, sender, seen, handed>>

KeyExist(n) ==
    /\ receiver[n].at = "exist"
    /\ Goto(n, IF receiver[n].msg \in DOMAIN combos[n] THEN "store" ELSE "insert")
    /\ UNCHANGED <<times, combos>>

(* Deliberate fault: the fragment in hand is not counted.                  *)
InsertFirstUncounted(n) ==
    LET m == receiver[n].msg IN
    /\ receiver[n].at = "insert"
    /\ combos' = [combos EXCEPT ![n] =
                     With(@, m, [left |-> Size[n][m], parts |-> {receiver[n].part}])]
    /\ Wait(n)
    /\ UNCHANGED times

(* InsertVectorPlusSize: a fresh entry that lacks all but this fragment.   *)
InsertFirst(n) ==
    LET m == receiver[n].msg IN
    /\ receiver[n].at = "insert"
    /\ combos' = [combos EXCEPT ![n] =
                     With(@, m, [left |-> Size[n][m] - 1, parts |-> {receiver[n].part}])]
    /\ Wait(n)
    /\ UNCHANGED times

(* The entry of the message in hand, if it is one .at(0) does not throw on. *)
Usable(n) ==
    LET m == receiver[n].msg IN IF m \in DOMAIN combos[n] THEN combos[n][m].parts # {} ELSE FALSE

Together(n) == Usable(n) /\ combos[n][receiver[n].msg].left = 0

(* Deliberate fault: stored one place too early, over another fragment.    *)
StoreShifted(n) ==
    LET m == receiver[n].msg IN
    /\ receiver[n].at = "store" /\ Usable(n)
    /\ combos' = [combos EXCEPT ![n][m] =
                     [left |-> @.left - 1, parts |-> @.parts \cup ({receiver[n].part - 1} \ {0})]]
    /\ Goto(n, "combine")
    /\ UNCHANGED times

(* UpdateVectorValueThenDecrease counts down whatever the fragment is.     *)
Store(n) ==
    LET m == receiver[n].msg IN
    /\ receiver[n].at = "store" /\ Usable(n)
    /\ combos' = [combos EXCEPT ![n][m] = [left |-> @.left - 1, parts |-> @.parts \cup {receiver[n].part}]]
    /\ Goto(n, "combine")
    /\ UNCHANGED times

(* The entry went after KeyExist saw it: u_map_[key_] makes an empty one,  *)
(* .at(0) throws, and so it does for every fragment that follows.          *)
StoreThrows(n) ==
    LET m == receiver[n].msg IN
    /\ receiver[n].at = "store" /\ ~Usable(n)
    /\ combos' = [combos EXCEPT ![n] = With(@, m, [left |-> 0, parts |-> {}])]
    /\ Wait(n)
    /\ UNCHANGED times

(* VectorCombineAndDeletePlusSize: all together, once the count is 0.      *)
Combine(n) ==
    LET m == receiver[n].msg IN
    /\ receiver[n].at = "combine" /\ Together(n)
    /\ receiver' = [receiver EXCEPT ![n].at = "forget", ![n].parts = combos[n][m].parts]
    /\ combos' = [combos EXCEPT ![n] = Without(@, m)]
    /\ UNCHANGED times

StillIncomplete(n) ==
    /\ receiver[n].at = "combine" /\ ~Together(n)
    /\ Wait(n)
    /\ UNCHANGED <<combos, times>>

ForgetTime(n) ==
    /\ receiver[n].at = "forget"
    /\ times' = [times EXCEPT ![n] = Without(@, receiver[n].msg)]
    /\ Goto(n, "route")
    /\ UNCHANGED combos

CombineFragment(n) ==
    /\ \/ KeyExist(n) \/ InsertFirst(n) \/ Store(n) \/ StoreThrows(n)
       \/ Combine(n) \/ StillIncomplete(n) \/ ForgetTime(n)
    /\ UNCHANGED <<now, air, repeats, cleaner, queue, forwarded, sender, seen, handed, log>>

(* A message for this station goes into the queue.  Any other is dropped,  *)
(* if its destination is 0 or transmission_flag is used up, or sent on.    *)
Route(n) ==
    LET m == receiver[n].msg IN
    /\ receiver[n].at = "route"
    /\ Wait(n)
    /\ \/ /\ m \in Mine
          /\ queue' = Append(queue, [msg |-> m, net |-> n, parts |-> receiver[n].parts])
          /\ UNCHANGED forwarded
       \/ /\ m \notin Mine
          /\ forwarded' \in {forwarded, forwarded \cup {m}}
          /\ UNCHANGED queue
    /\ UNCHANGED <<now, air, repeats, times, combos, cleaner, sender, seen, handed, log>>

-----------------------------------------------------------------------------
(* SocketUtil::ClearUnorderedMap of one receiver.  It looks at the times   *)
(* after every sleep(ClearTime), here whenever it likes; a look that finds *)
(* nothing old changes nothing.                                            *)

Search(n) ==
    /\ cleaner[n].at = "search"
    /\ \E k \in Old(times[n], ClearTime) :
          cleaner' = [cleaner EXCEPT ![n] = [at |-> "erase", key |-> k]]
    /\ UNCHANGED <<combos, times>>

EraseCombo(n) ==
    /\ cleaner[n].at = "erase"
    /\ combos' = [combos EXCEPT ![n] = Without(@, cleaner[n].key)]
    /\ cleaner' = [cleaner EXCEPT ![n].at = "forget"]
    /\ UNCHANGED times

EraseTime(n) ==
    /\ cleaner[n].at = "forget"
    /\ times' = [times EXCEPT ![n] = Without(@, cleaner[n].key)]
    /\ cleaner' = [cleaner EXCEPT ![n] = [at |-> "search"]]
    /\ UNCHANGED combos

Clear(n) ==
    /\ Search(n) \/ EraseCombo(n) \/ EraseTime(n)
    /\ UNCHANGED <<now, air, repeats, receiver, queue, forwarded, sender, seen, handed, log>>

-----------------------------------------------------------------------------
(* ProcSender::sender, duplicate_receive_check and clean_duplicate_map.    *)

Pop ==
    /\ sender.at = "pop" /\ queue # <<>>
    /\ sender' = [at |-> IF CsDuplicateCheck THEN "check" ELSE "send",
                  data |-> Head(queue), since |-> IF CsDuplicateCheck THEN 0 ELSE now, tries |-> 0]
    /\ queue' = Tail(queue)
    /\ UNCHANGED <<seen, handed>>

Duplicate ==
    /\ sender.at = "check" /\ sender.data.msg \in DOMAIN seen
    /\ sender' = [at |-> "pop"]
    /\ UNCHANGED <<queue, seen, handed>>

(* Deliberate fault: the key is noted only if it is known already.         *)
FirstCopyUpdated ==
    /\ sender.at = "check" /\ sender.data.msg \notin DOMAIN seen
    /\ seen' = [k \in DOMAIN seen |-> IF k = sender.data.msg THEN now ELSE seen[k]]
    /\ sender' = [sender EXCEPT !.at = "send", !.since = now]
    /\ UNCHANGED <<queue, handed>>

FirstCopy ==
    /\ sender.at = "check" /\ sender.data.msg \notin DOMAIN seen
    /\ seen' = With(seen, sender.data.msg, now)
    /\ sender' = [sender EXCEPT !.at = "send", !.since = now]
    /\ UNCHANGED <<queue, handed>>

SendFails ==
    /\ sender.at = "send" /\ sender.tries < MaxSendtoTimes
    /\ sender' = [sender EXCEPT !.tries = @ + 1]
    /\ UNCHANGED <<queue, seen, handed>>

Done(result) ==
    /\ handed' = Append(handed, [msg |-> sender.data.msg, net |-> sender.data.net,
                                 parts |-> sender.data.parts, since |-> sender.since, sent |-> result])
    /\ sender' = [at |-> "pop"]
    /\ UNCHANGED <<queue, seen>>

SendWorks == sender.at = "send" /\ sender.tries < MaxSendtoTimes /\ Done(TRUE)

(* Deliberate fault: the last failure goes back to the loop of tries.      *)
GiveUpNever ==
    /\ sender.at = "send" /\ sender.tries = MaxSendtoTimes
    /\ sender' = [sender EXCEPT !.tries = 0]
    /\ UNCHANGED <<queue, seen, handed>>

GiveUp == sender.at = "send" /\ sender.tries = MaxSendtoTimes /\ Done(FALSE)

ProcSender ==
    /\ Pop \/ Duplicate \/ FirstCopy \/ SendFails \/ SendWorks \/ GiveUp
    /\ UNCHANGED <<now, forwarded, netVars>>

CleanDuplicateMap ==
    /\ Old(seen, DualClearTime) # {}
    /\ seen' = [k \in DOMAIN seen \ Old(seen, DualClearTime) |-> seen[k]]
    /\ UNCHANGED <<now, queue, forwarded, sender, handed, netVars>>

Tick ==
    /\ now < MaxTime
    /\ now' = now + 1
    /\ UNCHANGED <<queue, forwarded, sender, seen, handed, netVars>>

Next ==
    \/ \E n \in Networks : Receive(n) \/ CombineFragment(n) \/ Route(n) \/ Clear(n)
    \/ ProcSender
    \/ CleanDuplicateMap
    \/ Tick

(* The threads run; nothing makes a datagram arrive, a send fail or work,  *)
(* or the clock of the model reach its bound.                              *)
Fairness ==
    /\ \A n \in Networks : WF_vars(CombineFragment(n)) /\ WF_vars(Route(n))
    /\ WF_vars(ProcSender)

Spec == Init /\ [][Next]_vars /\ Fairness

-----------------------------------------------------------------------------
Twice(n, m) == \E i \in Parts(n, m) : log[n][m].came[i] > 1

Arrived(n, m) == Size[n][m] > 0 /\ \A i \in Parts(n, m) : log[n][m].came[i] = 1

(* A message is put together by counting fragments, not by looking which   *)
(* are there: what is queued or handed on lacks a part only if its network *)
(* brought a datagram twice, never because the cleaning of incomplete      *)
(* messages came between two steps of combineFragment.                     *)
HolesOnlyFromRepeats ==
    \A d \in {queue[k] : k \in 1..Len(queue)} \cup {handed[k] : k \in 1..Len(handed)} :
        d.parts = Parts(d.net, d.msg) \/ Twice(d.net, d.msg)

(* The cleaning takes only what has waited: once the last fragment is      *)
(* dealt with, and no more than the clear time since the first, nothing of *)
(* the message is left in the combination map, that is, it was combined.   *)
PromptCombined ==
    \A n \in Networks, m \in Messages :
        (receiver[n].at = "wait" /\ Arrived(n, m) /\ now - log[n][m].first <= ClearTime)
            => m \notin DOMAIN combos[n] \cup DOMAIN times[n]

(* With the duplicate check, the copies of one message that reach a        *)
(* program, over whatever networks, passed the check more than the clear   *)
(* time of the duplicate map apart; a copy that failed counts as well.     *)
CopiesApart ==
    CsDuplicateCheck =>
        \A j, k \in 1..Len(handed) :
            j < k /\ handed[j].msg = handed[k].msg
                => handed[k].since - handed[j].since > DualClearTime

(* What has arrived whole and in time reaches its program or is given up   *)
(* after the last try: no step of the receivers, of the cleaning or of the *)
(* duplicate check loses it for good.                                      *)
PromptDelivered ==
    \A n \in Networks, m \in Mine :
        (receiver[n].at = "wait" /\ Arrived(n, m) /\ now - log[n][m].first <= ClearTime)
            ~> \E k \in 1..Len(handed) : handed[k].msg = m

=============================================================================
