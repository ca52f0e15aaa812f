---------------------------- MODULE CsSend_proofs -----------------------------
(***************************************************************************)
(* Theorems about CsSend, for any peers and addresses, any list with a     *)
(* peer in it, any messages, and as many registrations as there are flags  *)
(* for, whichever writes of the lists fail.                                *)
(***************************************************************************)
EXTENDS CsSend, SequenceTheorems, FiniteSetTheorems, TLAPS

(* What becomes of the senders when one of them takes a step.              *)
LEMMA SenderReplaced ==
    ASSUME senders \in Seq(SenderState), NEW i \in 1..Len(senders), NEW s \in SenderState,
           senders' = [senders EXCEPT ![i] = s]
    PROVE  /\ senders' \in Seq(SenderState) /\ Len(senders') = Len(senders)
           /\ senders'[i] = s /\ \A j \in 1..Len(senders) : j # i => senders'[j] = senders[j]
  OBVIOUS

LEMMA EmptyList == <<>> \in Lists /\ DOMAIN <<>> = {}
  BY DEF Lists

LEMMA NoMessageTyped == NoMessage \in Message
  BY SendAssumption DEF NoMessage, Message, Dests

(* A sender that was just made.                                            *)
Fresh(b, type, sid, ip, written) ==
    /\ b \in SenderState /\ b.type = type /\ b.dest = sid /\ b.exit = FALSE
    /\ b.born.sid = sid /\ b.born.ip = ip /\ b.born.written = written
    /\ b.queue = <<>> /\ b.at = "start" /\ b.list = <<>> /\ b.ip = NoIp

LEMMA FreshSender ==
    ASSUME NEW type \in {"udp", "dtls"}, NEW sid \in Dests, NEW ip \in Ips \cup {NoIp},
           NEW written \in BOOLEAN
    PROVE  Fresh(Sender(type, sid, ip, written), type, sid, ip, written)
<1> DEFINE b == Sender(type, sid, ip, written)
<1>1. NoMessage \in Message
  BY NoMessageTyped
<1>2. PICK q \in Seq(Message) : q = <<>>
  BY EmptySeq, Zenon
<1>3. PICK l \in Lists : l = <<>>
  BY EmptyList, Zenon
<1>4. b = [type |-> type, dest |-> sid, exit |-> FALSE, flag |-> FALSE, queue |-> q, at |-> "start",
           msg |-> NoMessage, list |-> l, ip |-> NoIp,
           born |-> [sid |-> sid, ip |-> ip, written |-> written]]
  BY <1>2, <1>3 DEF Sender
<1>5. b \in SenderState
  BY <1>1, <1>4 DEF SenderState
<1> QED BY <1>2, <1>3, <1>4, <1>5 DEF Fresh

LEMMA WrittenList ==
    ASSUME NEW list \in Lists, NEW sm \in Registrations, NEW erase \in BOOLEAN
    PROVE  /\ Written(list, sm, erase) \in Lists
           /\ \A s \in Sids \ {sm.sid} :
                 /\ s \in DOMAIN Written(list, sm, erase) <=> s \in DOMAIN list
                 /\ s \in DOMAIN list => Written(list, sm, erase)[s] = list[s]
           /\ sm.sid \in DOMAIN Written(list, sm, erase) <=> ~(sm.sid \in DOMAIN list /\ erase)
           /\ ~(sm.sid \in DOMAIN list /\ erase) => Written(list, sm, erase)[sm.sid] = sm.ip
<1>1. PICK D \in SUBSET Sids : list \in [D -> Ips]
  BY DEF Lists
<1>2. sm.sid \in Sids /\ sm.ip \in Ips
  BY DEF Registrations
<1>3. CASE sm.sid \in DOMAIN list /\ erase
  <2>1. Written(list, sm, erase) = [s \in D \ {sm.sid} |-> list[s]]
    BY <1>1, <1>3 DEF Written
  <2>2. Written(list, sm, erase) \in [D \ {sm.sid} -> Ips]
    BY <1>1, <2>1
  <2>3. Written(list, sm, erase) \in Lists
    BY <2>2 DEF Lists
  <2> QED BY <1>1, <1>3, <2>1, <2>3
<1>4. CASE ~(sm.sid \in DOMAIN list /\ erase)
  <2>1. Written(list, sm, erase) = [s \in D \cup {sm.sid} |-> IF s = sm.sid THEN sm.ip ELSE list[s]]
    BY <1>1, <1>4 DEF Written
  <2>2. Written(list, sm, erase) \in [D \cup {sm.sid} -> Ips]
    BY <1>1, <1>2, <2>1
  <2>3. Written(list, sm, erase) \in Lists
    BY <1>2, <2>2 DEF Lists
  <2> QED BY <1>1, <1>2, <1>4, <2>1, <2>3
<1> QED BY <1>3, <1>4

LEMMA WrittenNew ==
    ASSUME NEW list \in Lists, NEW sm \in Registrations
    PROVE  /\ Written(list, sm, FALSE) \in Lists
           /\ \A s \in Sids \ {sm.sid} :
                 /\ s \in DOMAIN Written(list, sm, FALSE) <=> s \in DOMAIN list
                 /\ s \in DOMAIN list => Written(list, sm, FALSE)[s] = list[s]
           /\ sm.sid \in DOMAIN Written(list, sm, FALSE)
           /\ Written(list, sm, FALSE)[sm.sid] = sm.ip
<1>1. PICK e \in BOOLEAN : e = FALSE
  OBVIOUS
<1> QED BY <1>1, WrittenList, Zenon

-----------------------------------------------------------------------------
(* What holds of one sender.  A DTLS sender serves the peer it was made    *)
(* for until it is stopped, is given messages for it, or, once stopped,    *)
(* for station number 0, and until then, if the list took its address,     *)
(* knows no other address than the one it was made for.                    *)
Busy == {"flag", "init", "reset", "connect", "send"}

Own(s) ==
    /\ s.type = "udp" => s.dest = NoSid /\ s.exit = FALSE /\ s.at # "connect"
    /\ s.type = "dtls" =>
          /\ s.born.sid \in Sids /\ s.born.ip \in Ips
          /\ s.exit = FALSE => s.dest = s.born.sid
          /\ s.exit = TRUE => s.dest = NoSid
          /\ \A k \in 1..Len(s.queue) : s.queue[k].dst \in {s.born.sid, NoSid}
          /\ s.at \in Busy => s.msg.dst \in {s.born.sid, NoSid}
          /\ s.at \in {"connect", "send"} => s.msg.dst = s.born.sid /\ s.msg.dst \in DOMAIN s.list
          /\ s.exit = FALSE /\ s.born.written =>
                /\ s.born.sid \in DOMAIN s.list => s.list[s.born.sid] = s.born.ip
                /\ s.ip \in {NoIp, s.born.ip}
          /\ s.at = "send" => s.ip # NoIp

(* The list on disk has no other address for a peer that is served.        *)
FileOwn(s) ==
    s.type = "dtls" /\ s.exit = FALSE /\ s.born.written /\ s.born.sid \in DOMAIN file.dtls
        => file.dtls[s.born.sid] = s.born.ip

Same(r, s) == r.type = s.type /\ r.dest = s.dest /\ r.exit = s.exit /\ r.born = s.born

(* A step of a sender changes this sender, and only it, and not what the   *)
(* receiver knows of it.                                                   *)
LEMMA SenderStep ==
    ASSUME TypeOK, NEW i \in 1..Len(senders), NwSender(i), Own(senders[i]), FileOwn(senders[i])
    PROVE  \E s \in SenderState : senders' = [senders EXCEPT ![i] = s] /\ Same(senders[i], s) /\ Own(s)
<1> DEFINE s == senders[i]
           Result(b) == senders' = [senders EXCEPT ![i] = b] /\ Same(s, b) /\ Own(b)
<1>1. s \in SenderState /\ file \in [{"udp", "dtls"} -> Lists] /\ Own(s) /\ FileOwn(s)
  BY DEF TypeOK
<1>2. s.type \in {"udp", "dtls"} /\ file[s.type] \in Lists
  BY <1>1 DEF SenderState
<1>m. s.msg \in Message /\ s.msg.dst \in Dests /\ \A l \in Lists : DOMAIN l \subseteq Sids
  BY <1>1 DEF SenderState, Message, Lists
<1>n. NoSid \notin Sids /\ NoIp \notin Ips
  BY SendAssumption
<1>3. ASSUME NEW b \in SenderState, Result(b) PROVE \E a \in SenderState : Result(a)
  BY <1>3
<1>4. CASE ReadList(i)
  <2>1. CASE s.at = "start"
    <3>1. [s EXCEPT !.list = file[s.type], !.at = "loop"] \in SenderState
      BY <1>1, <1>2 DEF SenderState
    <3>2. Result([s EXCEPT !.list = file[s.type], !.at = "loop"])
      BY <1>1, <1>2, <1>4, <2>1 DEF ReadList, Set, SenderState, Same, Own, FileOwn, Busy
    <3> QED BY <3>1, <3>2
  <2>2. CASE s.at = "init"
    <3>1. [s EXCEPT !.list = file[s.type], !.at = "reset"] \in SenderState
      BY <1>1, <1>2 DEF SenderState
    <3>2. Result([s EXCEPT !.list = file[s.type], !.at = "reset"])
      BY <1>1, <1>2, <1>4, <2>2 DEF ReadList, Set, SenderState, Same, Own, FileOwn, Busy
    <3> QED BY <3>1, <3>2
  <2> QED BY <1>4, <2>1, <2>2 DEF ReadList
<1>5. CASE Look(i)
  <2>1. PICK p \in {"gone", "pop"} : senders' = [senders EXCEPT ![i] = [s EXCEPT !.at = p]]
    BY <1>5 DEF Look, Set
  <2>2. [s EXCEPT !.at = p] \in SenderState /\ Result([s EXCEPT !.at = p])
    BY <1>1, <2>1 DEF SenderState, Same, Own, Busy
  <2> QED BY <2>2
<1>6. CASE Pop(i)
  <2>1. s.queue \in Seq(Message) /\ s.queue # <<>>
    BY <1>1, <1>6 DEF Pop, SenderState
  <2>2. /\ Head(s.queue) \in Message /\ Tail(s.queue) \in Seq(Message)
        /\ Head(s.queue) = s.queue[1] /\ Len(s.queue) >= 1 /\ Len(Tail(s.queue)) = Len(s.queue) - 1
        /\ \A k \in 1..Len(s.queue) - 1 : Tail(s.queue)[k] = s.queue[k + 1]
    BY <2>1
  <2> DEFINE b == [s EXCEPT !.msg = Head(s.queue), !.queue = Tail(s.queue), !.at = "flag"]
  <2>3. b \in SenderState /\ senders' = [senders EXCEPT ![i] = b] /\ Same(s, b)
    BY <1>1, <1>6, <2>2 DEF Pop, Set, SenderState, Same
  <2>4. /\ b.msg = Head(s.queue) /\ b.queue = Tail(s.queue) /\ b.at = "flag"
        /\ b.list = s.list /\ b.ip = s.ip
    BY <1>1 DEF SenderState
  <2>5. ASSUME s.type = "dtls"
        PROVE  /\ b.msg.dst \in {s.born.sid, NoSid}
               /\ \A k \in 1..Len(b.queue) : b.queue[k].dst \in {s.born.sid, NoSid}
    <3>1. \A k \in 1..Len(s.queue) : s.queue[k].dst \in {s.born.sid, NoSid}
      BY <1>1, <2>5 DEF Own
    <3>2. \A k \in 1..Len(s.queue) - 1 : k + 1 \in 1..Len(s.queue)
      BY <2>1
    <3>3. 1 \in 1..Len(s.queue)
      BY <2>1, <2>2
    <3> HIDE DEF b
    <3> QED BY <2>2, <2>4, <3>1, <3>2, <3>3
  <2> HIDE DEF b
  <2>6. Own(b)
    BY <1>1, <2>3, <2>4, <2>5 DEF Own, Same, Busy
  <2> QED BY <2>3, <2>6
<1>7. ASSUME NEW r \in SenderState, r.at \in {"flag", "reset"}, Same(s, r), Own(r), Lookup(i, r)
      PROVE  \E b \in SenderState : Result(b)
  <2>1. r.msg \in Message /\ r.msg.dst \in Dests /\ r.list \in Lists
    BY DEF SenderState, Message
  <2>2. ASSUME r.msg.dst \in DOMAIN r.list PROVE r.list[r.msg.dst] \in Ips /\ r.msg.dst \in Sids
    BY <2>1, <2>2 DEF Lists
  <2>3. CASE r.msg.dst \notin DOMAIN r.list
    <3>1. Done(r) \in SenderState /\ Result(Done(r))
      BY <1>7, <2>3, NoMessageTyped DEF Lookup, Set, Done, SenderState, Same, Own, Busy
    <3> QED BY <3>1
  <2>4. CASE r.msg.dst \in DOMAIN r.list /\ r.type = "udp"
    <3>1. [r EXCEPT !.ip = r.list[r.msg.dst], !.at = "send"] \in SenderState
      BY <2>2, <2>4 DEF SenderState
    <3>2. Result([r EXCEPT !.ip = r.list[r.msg.dst], !.at = "send"])
      BY <1>7, <2>4 DEF Lookup, Set, SenderState, Same, Own, Busy
    <3> QED BY <3>1, <3>2
  <2>5. CASE r.msg.dst \in DOMAIN r.list /\ r.type = "dtls"
    <3>1. r.msg.dst = r.born.sid
      BY <1>7, <1>n, <2>2, <2>5 DEF Own, Busy
    <3>2. PICK p \in {"connect", "send"} :
             senders' = [senders EXCEPT ![i] = [r EXCEPT !.at = p]] /\ (p = "send" => r.ip # NoIp)
      BY <1>7, <2>5 DEF Lookup, Set
    <3>3. [r EXCEPT !.at = p] \in SenderState
      BY <3>2 DEF SenderState
    <3>4. Own([r EXCEPT !.at = p]) /\ Same(r, [r EXCEPT !.at = p])
      BY <1>7, <2>5, <3>1, <3>2 DEF Own, Same, Busy, SenderState
    <3>5. Same(s, [r EXCEPT !.at = p])
      BY <1>7, <3>4 DEF Same
    <3> QED BY <3>2, <3>3, <3>4, <3>5
  <2> QED BY <2>3, <2>4, <2>5 DEF SenderState
<1>8. CASE TestFlag(i)
  <2>1. CASE s.flag
    <3>1. [s EXCEPT !.at = "init"] \in SenderState /\ Result([s EXCEPT !.at = "init"])
      BY <1>1, <1>8, <2>1 DEF TestFlag, Set, SenderState, Same, Own, Busy
    <3> QED BY <3>1
  <2>2. CASE ~s.flag
    <3>1. s.at = "flag" /\ Lookup(i, s) /\ Same(s, s)
      BY <1>8, <2>2 DEF TestFlag, Same
    <3> QED BY <1>1, <1>7, <3>1
  <2> QED BY <2>1, <2>2
<1>9. CASE ResetFlag(i)
  <2> DEFINE r == [s EXCEPT !.flag = FALSE]
  <2>1. r \in SenderState /\ Lookup(i, r) /\ r.at \in {"flag", "reset"}
    BY <1>1, <1>9 DEF ResetFlag, SenderState
  <2>2. Same(s, r) /\ Own(r)
    BY <1>1, <1>9 DEF ResetFlag, Same, Own, Busy, SenderState
  <2> QED BY <1>7, <2>1, <2>2
<1>10. CASE Connect(i)
  <2>1. CASE senders' = [senders EXCEPT ![i] = [s EXCEPT !.ip = s.list[s.msg.dst], !.at = "send"]]
    <3> DEFINE b == [s EXCEPT !.ip = s.list[s.msg.dst], !.at = "send"]
    <3>1. s.type = "dtls" => s.list[s.msg.dst] \in Ips
      BY <1>1, <1>10 DEF Connect, Own, SenderState, Lists
    <3>2. CASE s.type = "dtls"
      <4>1. b \in SenderState
        BY <1>1, <3>1, <3>2 DEF SenderState
      <4>2. Result(b)
        BY <1>1, <1>10, <1>n, <2>1, <3>1, <3>2 DEF Connect, SenderState, Same, Own, Busy
      <4> QED BY <4>1, <4>2
    <3>3. s.type = "dtls"
      BY <1>1, <1>2, <1>10 DEF Connect, Own
    <3> QED BY <3>2, <3>3
  <2>2. CASE senders' = [senders EXCEPT ![i] = [s EXCEPT !.at = "gone"]]
    <3>1. [s EXCEPT !.at = "gone"] \in SenderState /\ Result([s EXCEPT !.at = "gone"])
      BY <1>1, <2>2 DEF SenderState, Same, Own, Busy
    <3> QED BY <3>1
  <2> QED BY <1>10, <2>1, <2>2 DEF Connect, Set
<1>11. CASE SendToEdge(i)
  <2>1. PICK b \in {[Done(s) EXCEPT !.ip = NoIp], Done(s)} :
           senders' = [senders EXCEPT ![i] = b]
    BY <1>11 DEF SendToEdge, Set
  <2>2. /\ b \in SenderState /\ b.at = "loop" /\ b.ip \in {s.ip, NoIp} /\ b.type = s.type
        /\ b.dest = s.dest /\ b.exit = s.exit /\ b.born = s.born /\ b.queue = s.queue
        /\ b.list = s.list
    BY <1>1, <2>1, NoMessageTyped DEF SenderState, Done
  <2>3. Own(b) /\ Same(s, b)
    BY <1>1, <2>2 DEF Same, Own, Busy
  <2> QED BY <2>1, <2>2, <2>3
<1> QED BY <1>4, <1>5, <1>6, <1>8, <1>9, <1>10, <1>11 DEF NwSender

-----------------------------------------------------------------------------
(* The senders and the receiver together.                                  *)

(* The first network is the UDP network, all others are DTLS networks.     *)
Kinds ==
    /\ Len(senders) >= 1
    /\ \A i \in 1..Len(senders) : senders[i].type = "udp" <=> i = 1

Vacant(sid) == \A i \in 1..Len(senders) : ~Serves(i, sid)
Agree(sid) == sid \notin stale => (sid \in DOMAIN file.dtls <=> ~Vacant(sid))

ServedOnce ==
    \A s \in Sids : \A i, j \in 1..Len(senders) : Serves(i, s) /\ Serves(j, s) => i = j

(* During a registration the list and the senders agree about all other    *)
(* peers that are not stale.  About its own peer they agree until the      *)
(* sender at another address, or the one to be deleted, is stopped; then   *)
(* nobody serves the peer, which remains in the list or is erased from it, *)
(* or is stale.                                                            *)
Unchanged(r) ==
    /\ ~r.update /\ ~r.erase /\ Agree(r.sm.sid) /\ (r.at # "check" => r.idx = 1)
    /\ r.found \/ \A i \in 1..r.idx : i = r.idx \/ ~Serves(i, r.sm.sid)

Readdressed(r) ==
    /\ r.update /\ ~r.erase /\ r.found /\ r.idx # 1
    /\ Vacant(r.sm.sid) /\ r.sm.sid \in DOMAIN file.dtls
    /\ r.at = "update" \/ r.sm.sid \in stale \/ file.dtls[r.sm.sid] = r.sm.ip

Erased(r) ==
    /\ ~r.update /\ r.erase /\ r.found /\ r.idx # 1 /\ Vacant(r.sm.sid)
    /\ IF r.at = "update" THEN r.sm.sid \in DOMAIN file.dtls
       ELSE r.sm.sid \in stale \/ r.sm.sid \notin DOMAIN file.dtls

ToBeServed(r) ==
    /\ Vacant(r.sm.sid)
    /\ r.sm.sid \notin stale /\ r.found =>
          r.sm.sid \in DOMAIN file.dtls /\ file.dtls[r.sm.sid] = r.sm.ip

Registering == receiver.at \in {"check", "update", "setflag", "new"}

OthersAgree == \A s \in Sids : (Registering => s # receiver.sm.sid) => Agree(s)

Progress ==
    /\ receiver.at \in {"check", "update", "setflag"} =>
          Unchanged(receiver) \/ Readdressed(receiver) \/ Erased(receiver)
    /\ receiver.at = "new" => ToBeServed(receiver)
    /\ receiver.at \in {"clear", "drop"} => Wanted

(* What was sent; after it was stopped, a sender that has sent is done.    *)
SentOwn(p) ==
    /\ p.via \in 1..Len(senders) /\ p.stopped \in BOOLEAN
    /\ p.msg.dst = senders[p.via].born.sid
    /\ p.stopped \/ ~senders[p.via].born.written \/ p.ip = senders[p.via].born.ip
    /\ p.stopped => senders[p.via].exit /\ senders[p.via].at \in {"loop", "gone"}

AllOwn == \A i \in 1..Len(senders) : Own(senders[i]) /\ FileOwn(senders[i])
AllSentOwn == \A p \in sent : SentOwn(p)

Inv == /\ TypeOK /\ Kinds /\ AllOwn /\ ServedOnce /\ OthersAgree /\ Progress
       /\ AllSentOwn /\ OneAfterStop

(* No sender was added and none is of another type, peer or origin.        *)
Kept ==
    Len(senders') = Len(senders) /\ \A j \in 1..Len(senders) : Same(senders[j], senders[j]')

LEMMA KeptServes ==
    ASSUME Kept
    PROVE  /\ Kinds => Kinds'
           /\ \A s : Vacant(s)' <=> Vacant(s)
           /\ ServedOnce => ServedOnce'
           /\ receiver' = receiver /\ receiver.idx \in 1..Len(senders) => Wanted' = Wanted
  BY DEF Kept, Same, Kinds, Serves, Vacant, ServedOnce, Wanted

(* Nothing of the phase of a registration depends on more than that.       *)
LEMMA KeptProgress ==
    ASSUME TypeOK, Kept, UNCHANGED <<file, receiver, stale>>, OthersAgree, Progress
    PROVE  OthersAgree' /\ Progress'
<1>1. \A s : Agree(s)' <=> Agree(s)
  BY KeptServes DEF Agree
<1>2. OthersAgree'
  BY <1>1 DEF OthersAgree, Registering
<1>3. \A s : Vacant(s)' <=> Vacant(s)
  BY KeptServes
<1>4. receiver.at \in {"check", "update", "setflag"} =>
          \A i \in 1..receiver.idx : i \in 1..Len(senders)
  BY DEF TypeOK, ReceiverState
<1>5. receiver.at \in {"check", "update", "setflag"} =>
          Unchanged(receiver)' \/ Readdressed(receiver)' \/ Erased(receiver)'
  BY <1>1, <1>3, <1>4 DEF Progress, Unchanged, Readdressed, Erased, Kept, Same, Serves
<1>6. receiver.at = "new" => ToBeServed(receiver)'
  BY <1>3 DEF Progress, ToBeServed
<1>7. receiver.at \in {"clear", "drop"} => receiver.idx \in 1..Len(senders)
  BY DEF TypeOK, ReceiverState
<1>8. receiver.at \in {"clear", "drop"} => Wanted'
  BY <1>7, KeptServes DEF Progress
<1> QED BY <1>2, <1>5, <1>6, <1>8 DEF Progress

-----------------------------------------------------------------------------
(* A step of a sender.                                                     *)
LEMMA SenderPreserves ==
    ASSUME Inv, NEW i \in 1..Len(senders), NwSender(i)
    PROVE  Inv'
<1>1. /\ senders \in Seq(SenderState) /\ senders[i] \in SenderState
      /\ Own(senders[i]) /\ FileOwn(senders[i])
      /\ UNCHANGED <<file, receiver, taken, ended, stale>>
  BY DEF Inv, TypeOK, AllOwn, NwSender, Alive
<1>2. PICK s \in SenderState :
         senders' = [senders EXCEPT ![i] = s] /\ Same(senders[i], s) /\ Own(s)
  BY <1>1, SenderStep DEF Inv
<1>3. /\ senders' \in Seq(SenderState) /\ Len(senders') = Len(senders) /\ senders'[i] = s
      /\ \A j \in 1..Len(senders) : j # i => senders'[j] = senders[j]
  BY <1>1, <1>2, SenderReplaced
<1>4. Kept
  BY <1>2, <1>3 DEF Kept, Same
<1>5. TypeOK'
  BY <1>1, <1>3 DEF Inv, TypeOK, ReceiverState
<1>6. OthersAgree' /\ Progress' /\ Kinds' /\ ServedOnce'
  BY <1>1, <1>4, KeptProgress, KeptServes DEF Inv
<1>7. AllOwn'
  BY <1>1, <1>2, <1>3 DEF Inv, AllOwn, FileOwn, Same
<1>8. /\ \A p \in sent : SentOwn(p)'
      /\ sent' = sent \/ SendToEdge(i)
  <2>1. ASSUME NEW p \in sent PROVE SentOwn(p)'
    <3>1. SentOwn(p)
      BY DEF Inv, AllSentOwn
    <3>2. p.via = i /\ p.stopped => Look(i)
      BY <3>1 DEF SentOwn, NwSender, ReadList, Look, Pop, TestFlag, ResetFlag, Connect, SendToEdge
    <3>3. p.via = i /\ p.stopped => s.at \in {"loop", "gone"}
      BY <1>1, <1>2, <1>3, <3>1, <3>2 DEF SentOwn, Look, Set, SenderState
    <3> QED BY <1>2, <1>3, <3>1, <3>3 DEF SentOwn, Same
  <2>2. sent' = sent \/ SendToEdge(i)
    BY DEF NwSender, ReadList, Look, Pop, TestFlag, ResetFlag, Connect
  <2> QED BY <2>1, <2>2
<1>9. CASE sent' = sent
  <2>1. AllSentOwn' /\ OneAfterStop'
    BY <1>8, <1>9 DEF Inv, AllSentOwn, OneAfterStop
  <2> QED BY <1>5, <1>6, <1>7, <2>1 DEF Inv
<1>10. CASE SendToEdge(i) /\ sent' # sent
  <2>1. /\ senders[i].at = "send" /\ senders[i].type = "dtls"
        /\ senders' = [senders EXCEPT ![i] = Done(senders[i])]
    BY <1>10 DEF SendToEdge, Set
  <2>p. PICK p : /\ p.msg = senders[i].msg /\ p.via = i /\ p.ip = senders[i].ip
                 /\ p.stopped = senders[i].exit /\ sent' = sent \cup {p}
    BY <1>10 DEF SendToEdge
  <2>2. s = Done(senders[i])
    BY <1>1, <1>3, <2>1
  <2>3. s.at = "loop" /\ s.exit = senders[i].exit /\ s.born = senders[i].born /\ s.exit \in BOOLEAN
    BY <1>1, <2>2 DEF SenderState, Done
  <2>4. /\ senders[i].msg.dst = senders[i].born.sid
        /\ senders[i].exit \/ ~senders[i].born.written \/ senders[i].ip = senders[i].born.ip
    BY <1>1, <2>1 DEF Own, SenderState, Busy
  <2>5. SentOwn(p)'
    BY <1>3, <2>p, <2>3, <2>4 DEF SentOwn
  <2>6. AllSentOwn'
    BY <1>8, <2>p, <2>5 DEF AllSentOwn
  <2>7. \A q \in sent : q.stopped => q.via # i
    BY <2>1 DEF Inv, AllSentOwn, SentOwn
  <2>8. OneAfterStop'
    BY <2>p, <2>7 DEF Inv, OneAfterStop
  <2> QED BY <1>5, <1>6, <1>7, <2>6, <2>8 DEF Inv
<1> QED BY <1>8, <1>9, <1>10

-----------------------------------------------------------------------------
(* Steps of the receiver.  None of them changes what was sent, or revives  *)
(* a sender that was stopped.                                              *)
Quiet ==
    /\ sent' = sent /\ Len(senders) <= Len(senders')
    /\ \A j \in 1..Len(senders) :
          /\ senders'[j].at = senders[j].at /\ senders'[j].born = senders[j].born
          /\ senders[j].exit => senders'[j].exit

LEMMA QuietSent ==
    ASSUME TypeOK, TypeOK', AllSentOwn, OneAfterStop, Quiet
    PROVE  AllSentOwn' /\ OneAfterStop'
<1>1. Len(senders) \in Nat /\ Len(senders') \in Nat
  BY DEF TypeOK
<1>2. 1..Len(senders) \subseteq 1..Len(senders')
  BY <1>1 DEF Quiet
<1>3. ASSUME NEW p \in sent PROVE SentOwn(p)'
  <2>1. SentOwn(p)
    BY DEF AllSentOwn
  <2> QED BY <1>2, <2>1 DEF SentOwn, Quiet
<1> QED BY <1>3 DEF AllSentOwn, OneAfterStop, Quiet

(* The receiver has done what it has to do for one network.                *)
Completed(r) ==
    \/ /\ ~r.update /\ ~r.erase /\ Agree(r.sm.sid)
       /\ r.found \/ \A i \in 1..r.idx : ~Serves(i, r.sm.sid)
    \/ /\ r.update /\ ~r.erase /\ r.found /\ r.idx # 1 /\ Vacant(r.sm.sid)
       /\ r.sm.sid \in DOMAIN file.dtls
       /\ r.sm.sid \in stale \/ file.dtls[r.sm.sid] = r.sm.ip
    \/ /\ ~r.update /\ r.erase /\ r.found /\ r.idx # 1 /\ Vacant(r.sm.sid)
       /\ r.sm.sid \in stale \/ r.sm.sid \notin DOMAIN file.dtls

LEMMA NetworkDone ==
    ASSUME TypeOK, Kept, UNCHANGED <<file, stale>>, OthersAgree, Registering, NEW r \in ReceiverState,
           r.at \in {"check", "update", "setflag"}, r.sm = receiver.sm, Completed(r), NextNetwork(r)
    PROVE  receiver' \in ReceiverState' /\ OthersAgree' /\ Progress'
<1>1. /\ r.sm \in Registrations /\ r.idx \in 1..Len(senders) /\ r.found \in BOOLEAN
      /\ r.update \in BOOLEAN /\ r.erase \in BOOLEAN
      /\ r = [at |-> r.at, sm |-> r.sm, idx |-> r.idx, found |-> r.found, update |-> r.update,
              erase |-> r.erase]
      /\ Len(senders) \in Nat /\ Len(senders') = Len(senders)
  BY DEF ReceiverState, TypeOK, Kept
<1>2. /\ \A s : Vacant(s)' <=> Vacant(s)
      /\ \A s : Agree(s)' <=> Agree(s)
      /\ \A i \in 1..Len(senders) : \A s : Serves(i, s)' <=> Serves(i, s)
  BY KeptServes DEF Agree, Kept, Same, Serves
<1>3. \A s \in Sids : s # r.sm.sid => Agree(s)'
  BY <1>2 DEF OthersAgree, Registering
<1>4. CASE r.idx < Len(senders)
  <2>1. receiver' = [at |-> "check", sm |-> r.sm, idx |-> r.idx + 1, found |-> r.found,
                     update |-> r.update, erase |-> r.erase]
    BY <1>1, <1>4 DEF NextNetwork
  <2>2. r.idx + 1 \in 1..Len(senders')
    BY <1>1, <1>4
  <2>3. receiver' \in ReceiverState'
    BY <1>1, <2>1, <2>2 DEF ReceiverState
  <2>4. OthersAgree'
    BY <1>3, <2>1 DEF OthersAgree, Registering
  <2>5. \A i \in 1..r.idx + 1 : i = r.idx + 1 \/ i \in 1..r.idx
    BY <1>1
  <2>6. \A i \in 1..r.idx : i \in 1..Len(senders)
    BY <1>1
  <2>7. Unchanged(receiver)' \/ Readdressed(receiver)' \/ Erased(receiver)'
    BY <1>1, <1>2, <2>1, <2>5, <2>6 DEF Completed, Unchanged, Readdressed, Erased
  <2>8. Progress'
    BY <2>1, <2>7 DEF Progress
  <2> QED BY <2>3, <2>4, <2>8
<1>5. CASE ~(r.idx < Len(senders))
  <2>0. r.idx = Len(senders) /\ receiver' = AfterLoop(r)
    BY <1>1, <1>5 DEF NextNetwork
  <2>1. ~r.found => Vacant(r.sm.sid) /\ ~r.update
    BY <2>0 DEF Completed, Vacant, Agree
  <2>2. CASE ~r.found \/ r.update
    <3>1. receiver' = [at |-> "new", sm |-> r.sm, found |-> r.found]
      BY <2>0, <2>2 DEF AfterLoop
    <3>2. receiver' \in ReceiverState'
      BY <1>1, <3>1 DEF ReceiverState
    <3>3. OthersAgree'
      BY <1>3, <3>1 DEF OthersAgree, Registering
    <3>4. ToBeServed(receiver)'
      BY <1>2, <2>1, <2>2, <3>1 DEF ToBeServed, Completed
    <3> QED BY <3>1, <3>2, <3>3, <3>4 DEF Progress
  <2>3. CASE r.found /\ ~r.update
    <3>1. receiver' = [at |-> "idle"]
      BY <2>0, <2>3 DEF AfterLoop
    <3>2. receiver' \in ReceiverState'
      BY <3>1 DEF ReceiverState
    <3>3. Agree(r.sm.sid)
      BY <2>3 DEF Completed, Agree
    <3>4. OthersAgree'
      BY <1>2, <1>3, <3>1, <3>3 DEF OthersAgree, Registering
    <3> QED BY <3>1, <3>2, <3>4 DEF Progress
  <2> QED BY <1>1, <2>2, <2>3
<1> QED BY <1>4, <1>5

(* Steps that leave the senders and the lists alone.                       *)
LEMMA Alone ==
    ASSUME Inv, UNCHANGED <<senders, file, stale>>
    PROVE  /\ Kept /\ Kinds' /\ ServedOnce' /\ AllOwn'
           /\ \A s : Vacant(s)' <=> Vacant(s)
           /\ \A s : Agree(s)' <=> Agree(s)
<1>1. Kept
  BY DEF Kept, Same
<1> QED BY <1>1, KeptServes DEF Inv, Agree, AllOwn, FileOwn

LEMMA TakeRegistrationPreserves == Inv /\ TakeRegistration => Inv'
<1> SUFFICES ASSUME Inv, TakeRegistration PROVE Inv'
  OBVIOUS
<1>1. PICK sm \in Registrations : receiver' =
         [at |-> "check", sm |-> sm, idx |-> 1, found |-> FALSE, update |-> FALSE, erase |-> FALSE]
  BY DEF TakeRegistration
<1>2. /\ senders' = senders /\ file' = file /\ sent' = sent /\ receiver.at = "idle"
      /\ taken' \in [messages : 0..MaxMessages, regs : 0..MaxRegs] /\ sm.sid \in Sids
      /\ UNCHANGED <<ended, stale>>
  BY SendAssumption DEF TakeRegistration, Alive, Inv, TypeOK, Registrations
<1>3. TypeOK'
  BY <1>1, <1>2 DEF Inv, TypeOK, ReceiverState, Kinds
<1>4. \A s \in Sids : Agree(s)
  BY <1>2 DEF Inv, OthersAgree, Registering
<1>5. OthersAgree'
  BY <1>2, <1>4, Alone DEF OthersAgree
<1>6. Unchanged(receiver)'
  BY <1>1, <1>2, <1>4, Alone DEF Unchanged
<1>7. Progress'
  BY <1>1, <1>6 DEF Progress
<1>8. Quiet
  BY <1>2 DEF Quiet, Inv, TypeOK
<1> QED BY <1>2, <1>3, <1>5, <1>7, <1>8, Alone, QuietSent DEF Inv

LEMMA CheckUdpPreserves == Inv /\ CheckUdp /\ UNCHANGED <<taken, ended, sent>> => Inv'
<1> SUFFICES ASSUME Inv, CheckUdp, UNCHANGED <<taken, ended, sent>> PROVE Inv'
  OBVIOUS
<1>1. /\ receiver' = [receiver EXCEPT !.at = "update", !.erase = FALSE]
      /\ receiver.at = "check" /\ receiver.idx \in 1..Len(senders) /\ receiver.sm \in Registrations
      /\ receiver = [at |-> "check", sm |-> receiver.sm, idx |-> receiver.idx, found |-> receiver.found,
                     update |-> receiver.update, erase |-> receiver.erase]
      /\ receiver.found \in BOOLEAN /\ receiver.update \in BOOLEAN
      /\ UNCHANGED <<senders, file, stale>>
  BY DEF CheckUdp, Inv, TypeOK, ReceiverState
<1>2. receiver' = [at |-> "update", sm |-> receiver.sm, idx |-> receiver.idx, found |-> receiver.found,
                   update |-> receiver.update, erase |-> FALSE]
  BY <1>1
<1>3. receiver.idx = 1
  BY <1>1 DEF CheckUdp, Inv, Kinds
<1>4. Unchanged(receiver)
  BY <1>1, <1>3 DEF Inv, Progress, Readdressed, Erased
<1>5. TypeOK'
  BY <1>1, <1>2 DEF Inv, TypeOK, ReceiverState
<1>6. OthersAgree'
  BY <1>1, <1>2, Alone DEF OthersAgree, Inv, Registering
<1>7. Unchanged(receiver)'
  BY <1>1, <1>2, <1>3, <1>4, Alone DEF Unchanged
<1>8. Progress'
  BY <1>2, <1>7 DEF Progress
<1>9. Quiet
  BY <1>1 DEF Quiet, Inv, TypeOK
<1> QED BY <1>1, <1>5, <1>6, <1>8, <1>9, Alone, QuietSent DEF Inv

LEMMA CheckOtherPreserves == Inv /\ CheckOther /\ UNCHANGED <<taken, ended, sent>> => Inv'
<1> SUFFICES ASSUME Inv, CheckOther, UNCHANGED <<taken, ended, sent>> PROVE Inv'
  OBVIOUS
<1>1. /\ receiver \in ReceiverState /\ receiver.at = "check" /\ NextNetwork(receiver)
      /\ receiver.idx \in 1..Len(senders) /\ UNCHANGED <<senders, file, stale>> /\ Registering
  BY DEF CheckOther, Inv, TypeOK, ReceiverState, Registering
<1>2. ~Serves(receiver.idx, receiver.sm.sid)
  BY DEF CheckOther, Serves
<1>3. Completed(receiver)
  BY <1>1, <1>2 DEF Inv, Progress, Unchanged, Readdressed, Erased, Completed
<1>4. receiver' \in ReceiverState' /\ OthersAgree' /\ Progress'
  BY <1>1, <1>3, Alone, NetworkDone DEF Inv
<1>5. TypeOK'
  BY <1>1, <1>4 DEF Inv, TypeOK
<1>6. Quiet
  BY <1>1 DEF Quiet, Inv, TypeOK
<1> QED BY <1>1, <1>4, <1>5, <1>6, Alone, QuietSent DEF Inv

(* The peer a sender serves is in the list, or stale.                      *)
LEMMA ServedListed ==
    ASSUME Inv, receiver.at = "check", Serves(receiver.idx, receiver.sm.sid)
    PROVE  Unchanged(receiver) /\ (Listed(receiver) \/ receiver.sm.sid \in stale)
<1>1. receiver.idx \in 1..Len(senders)
  BY DEF Inv, TypeOK, ReceiverState
<1>2. ~Vacant(receiver.sm.sid)
  BY <1>1 DEF Vacant
<1>3. Unchanged(receiver)
  BY <1>2 DEF Inv, Progress, Readdressed, Erased
<1> QED BY <1>2, <1>3 DEF Unchanged, Agree, Listed

(* StopNewSender: afterwards nobody serves the peer, and nothing else has  *)
(* changed for the other peers.                                            *)
LEMMA SenderStopped ==
    ASSUME Inv, NEW i \in 1..Len(senders), NEW sid \in Sids, Serves(i, sid), senders' = Stopped(i),
           UNCHANGED <<file, stale>>
    PROVE  /\ senders' \in Seq(SenderState) /\ Len(senders') = Len(senders) /\ i # 1
           /\ Kinds' /\ AllOwn' /\ ServedOnce' /\ Vacant(sid)'
           /\ \A s \in Sids : s # sid => (Agree(s)' <=> Agree(s))
           /\ sent' = sent => Quiet
<1>0. /\ senders \in Seq(SenderState) /\ senders[i] \in SenderState /\ Own(senders[i])
      /\ NoSid \notin Sids
  BY SendAssumption DEF Inv, TypeOK, AllOwn
<1>1. PICK b \in SenderState : b = [senders[i] EXCEPT !.exit = TRUE, !.dest = NoSid]
  BY <1>0 DEF SenderState, Dests
<1>2. /\ senders' \in Seq(SenderState) /\ Len(senders') = Len(senders) /\ senders'[i] = b
      /\ \A j \in 1..Len(senders) : j # i => senders'[j] = senders[j]
  <2>1. senders' = [senders EXCEPT ![i] = b]
    BY <1>0, <1>1 DEF Stopped
  <2> QED BY <1>0, <2>1, SenderReplaced
<1>3. /\ b.type = senders[i].type /\ b.type = "dtls" /\ b.exit = TRUE /\ b.dest = NoSid
      /\ b.born = senders[i].born /\ b.queue = senders[i].queue /\ b.at = senders[i].at
      /\ b.msg = senders[i].msg /\ b.list = senders[i].list /\ b.ip = senders[i].ip
  BY <1>0, <1>1 DEF SenderState, Serves
<1>4. Own(b) /\ FileOwn(b)'
  BY <1>0, <1>3 DEF Own, FileOwn
<1>5. AllOwn'
  BY <1>2, <1>4 DEF Inv, AllOwn, FileOwn
<1>k. /\ \A j \in 1..Len(senders) : senders[j].type = "udp" <=> j = 1
      /\ Len(senders) >= 1 /\ i \in 1..Len(senders)
  BY DEF Inv, Kinds
<1>6. i # 1 /\ Kinds'
  <2>1. i # 1
    BY <1>3, <1>k
  <2>2. \A j \in 1..Len(senders) : senders'[j].type = senders[j].type
    BY <1>2, <1>3
  <2> QED BY <1>2, <1>k, <2>1, <2>2 DEF Kinds
<1>7. \A j \in 1..Len(senders) : \A s \in Sids : Serves(j, s)' <=> Serves(j, s) /\ j # i
  BY <1>0, <1>2, <1>3 DEF Serves
<1>8. \A j \in 1..Len(senders) : \A s \in Sids : s # sid => (Serves(j, s)' <=> Serves(j, s))
  BY <1>7 DEF Serves
<1>9. Vacant(sid)'
  BY <1>2, <1>7 DEF Inv, ServedOnce, Vacant
<1>10. \A s \in Sids : s # sid => (Agree(s)' <=> Agree(s))
  BY <1>2, <1>8 DEF Agree, Vacant
<1>11. ServedOnce'
  BY <1>2, <1>7 DEF Inv, ServedOnce
<1>12. sent' = sent => Quiet
  BY <1>0, <1>2, <1>3 DEF Quiet
<1> QED BY <1>2, <1>5, <1>6, <1>9, <1>10, <1>11, <1>12

LEMMA CheckServedPreserves == Inv /\ CheckServed /\ UNCHANGED <<taken, ended, sent>> => Inv'
<1> SUFFICES ASSUME Inv, CheckServed, UNCHANGED <<taken, ended, sent>> PROVE Inv'
  OBVIOUS
<1> DEFINE r == receiver
<1>1. /\ r.at = "check" /\ r.idx \in 1..Len(senders) /\ r.sm \in Registrations /\ r.sm.sid \in Sids
      /\ r = [at |-> "check", sm |-> r.sm, idx |-> r.idx, found |-> r.found,
              update |-> r.update, erase |-> r.erase]
      /\ r.found \in BOOLEAN /\ r.update \in BOOLEAN /\ r.erase \in BOOLEAN
      /\ UNCHANGED <<file, stale>> /\ Serves(r.idx, r.sm.sid) /\ Registering /\ r \in ReceiverState
  BY DEF CheckServed, Inv, TypeOK, ReceiverState, Registrations, Registering
<1>2. Unchanged(r) /\ r.sm.sid \in DOMAIN file.dtls
  BY <1>1, ServedListed DEF CheckServed, Listed
<1>3. CASE UNCHANGED senders
  <2> DEFINE f == [r EXCEPT !.found = TRUE]
  <2>1. NextNetwork(f)
    <3>1. senders' # Stopped(r.idx)
      <4>1. senders[r.idx] \in SenderState /\ senders \in Seq(SenderState) /\ Own(senders[r.idx])
            /\ NoSid \notin Sids
        BY <1>1, SendAssumption DEF Inv, TypeOK, AllOwn
      <4>2. Stopped(r.idx)[r.idx].dest = NoSid
        BY <1>1, <4>1 DEF Stopped, SenderState
      <4> QED BY <1>1, <1>3, <4>1, <4>2 DEF Serves
    <3> QED BY <3>1 DEF CheckServed
  <2>2. /\ f \in ReceiverState /\ f.at = "check" /\ f.sm = r.sm /\ f.idx = r.idx
        /\ f.found = TRUE /\ f.update = r.update /\ f.erase = r.erase
    BY <1>1 DEF ReceiverState
  <2>4. Completed(f)
    BY <1>2, <2>2 DEF Unchanged, Completed
  <2> HIDE DEF f
  <2>6. receiver' \in ReceiverState' /\ OthersAgree' /\ Progress'
    BY <1>1, <1>3, <2>1, <2>2, <2>4, Alone, NetworkDone DEF Inv
  <2>7. TypeOK'
    BY <1>1, <1>3, <2>6 DEF Inv, TypeOK
  <2>8. Quiet
    BY <1>3 DEF Quiet, Inv, TypeOK
  <2> QED BY <1>1, <1>3, <2>6, <2>7, <2>8, Alone, QuietSent DEF Inv
<1>4. CASE senders' = Stopped(r.idx) /\ ~UNCHANGED senders
  <2>0. PICK sid \in Sids, i \in 1..Len(senders) : sid = r.sm.sid /\ i = r.idx
    BY <1>1
  <2>1. /\ senders' \in Seq(SenderState) /\ Len(senders') = Len(senders) /\ i # 1
        /\ Kinds' /\ AllOwn' /\ ServedOnce' /\ Vacant(sid)'
        /\ \A s \in Sids : s # sid => (Agree(s)' <=> Agree(s))
        /\ sent' = sent => Quiet
    BY <1>1, <1>4, <2>0, SenderStopped
  <2>2. \/ receiver' = [r EXCEPT !.at = "update", !.found = TRUE, !.update = TRUE, !.erase = FALSE]
        \/ receiver' = [r EXCEPT !.at = "update", !.found = TRUE, !.erase = TRUE]
    BY <1>4 DEF CheckServed
  <2>3. PICK u \in BOOLEAN, e \in BOOLEAN :
           /\ u # e
           /\ receiver' = [at |-> "update", sm |-> r.sm, idx |-> r.idx, found |-> TRUE,
                           update |-> u, erase |-> e]
    <3>1. ~r.update
      BY <1>2 DEF Unchanged
    <3>2. CASE receiver' = [r EXCEPT !.at = "update", !.found = TRUE, !.update = TRUE, !.erase = FALSE]
      <4>1. receiver' = [at |-> "update", sm |-> r.sm, idx |-> r.idx, found |-> TRUE,
                         update |-> TRUE, erase |-> FALSE]
        BY <1>1, <3>2
      <4> QED BY <4>1
    <3>3. CASE receiver' = [r EXCEPT !.at = "update", !.found = TRUE, !.erase = TRUE]
      <4>1. receiver' = [at |-> "update", sm |-> r.sm, idx |-> r.idx, found |-> TRUE,
                         update |-> FALSE, erase |-> TRUE]
        BY <1>1, <3>1, <3>3
      <4> QED BY <4>1
    <3> QED BY <2>2, <3>2, <3>3
  <2>4. receiver' \in ReceiverState'
    BY <1>1, <2>1, <2>3 DEF ReceiverState
  <2>5. TypeOK'
    BY <1>1, <2>1, <2>4 DEF Inv, TypeOK
  <2>6. OthersAgree'
    BY <1>1, <2>0, <2>1, <2>3 DEF Inv, OthersAgree, Registering
  <2>7. Readdressed(receiver)' \/ Erased(receiver)'
    BY <1>1, <1>2, <2>0, <2>1, <2>3 DEF Readdressed, Erased
  <2>8. Progress'
    BY <2>3, <2>7 DEF Progress
  <2> QED BY <2>1, <2>5, <2>6, <2>8, QuietSent DEF Inv
<1> QED BY <1>3, <1>4 DEF CheckServed

LEMMA UpdateFilePreserves == Inv /\ UpdateFile /\ UNCHANGED <<taken, ended, sent>> => Inv'
<1> SUFFICES ASSUME Inv, UpdateFile, UNCHANGED <<taken, ended, sent>> PROVE Inv'
  OBVIOUS
<1>1. PICK r \in ReceiverState, sid \in Sids, list \in Lists :
         r = receiver /\ sid = r.sm.sid /\ list = file.dtls
  BY DEF UpdateFile, Inv, TypeOK, ReceiverState, Registrations
<1>2. /\ r.at = "update" /\ r.idx \in 1..Len(senders) /\ r.sm \in Registrations
      /\ r.found \in BOOLEAN /\ r.update \in BOOLEAN /\ r.erase \in BOOLEAN
      /\ receiver' = [r EXCEPT !.at = "setflag"] /\ senders' = senders
      /\ senders[r.idx].type \in {"udp", "dtls"} /\ file \in [{"udp", "dtls"} -> Lists]
      /\ WriteList(senders[r.idx].type, r.sm, r.erase)
  <2>1. /\ r.at = "update" /\ receiver' = [r EXCEPT !.at = "setflag"] /\ senders' = senders
        /\ WriteList(senders[r.idx].type, r.sm, r.erase)
    BY <1>1 DEF UpdateFile
  <2>2. /\ r.idx \in 1..Len(senders) /\ r.sm \in Registrations
        /\ r.found \in BOOLEAN /\ r.update \in BOOLEAN /\ r.erase \in BOOLEAN
    BY <1>1, <2>1 DEF ReceiverState
  <2>3. senders \in Seq(SenderState) /\ file \in [{"udp", "dtls"} -> Lists]
    BY DEF Inv, TypeOK
  <2>4. senders[r.idx] \in SenderState
    BY <2>2, <2>3
  <2>5. senders[r.idx].type \in {"udp", "dtls"}
    BY <2>4 DEF SenderState
  <2> QED BY <2>1, <2>2, <2>3, <2>5
<1>3. /\ receiver' \in ReceiverState' /\ receiver'.at = "setflag" /\ receiver'.sm = r.sm
      /\ receiver'.idx = r.idx /\ receiver'.found = r.found /\ receiver'.update = r.update
      /\ receiver'.erase = r.erase
  BY <1>2 DEF ReceiverState
<1>4. Written(file[senders[r.idx].type], r.sm, r.erase) \in Lists
  BY <1>2, WrittenList
<1>w. /\ file' \in [{"udp", "dtls"} -> Lists] /\ stale' \subseteq Sids
      /\ senders[r.idx].type = "udp" => file'.dtls = file.dtls /\ stale' = stale
      /\ senders[r.idx].type = "dtls" =>
            \/ file'.dtls = Written(list, r.sm, r.erase) /\ stale' = stale \ {sid}
            \/ file' = file /\ stale' = stale \cup {sid}
  <2>1. stale \subseteq Sids
    BY DEF Inv, TypeOK
  <2> QED BY <1>1, <1>2, <1>4, <2>1 DEF WriteList
<1>5. TypeOK'
  BY <1>2, <1>3, <1>w DEF Inv, TypeOK
<1>6. Quiet /\ Kinds' /\ ServedOnce' /\ (\A s : Vacant(s)' <=> Vacant(s))
      /\ (\A j \in 1..Len(senders) : \A s : Serves(j, s)' <=> Serves(j, s))
  BY <1>2 DEF Quiet, Inv, TypeOK, Kinds, ServedOnce, Vacant, Serves
<1>7. Unchanged(r) \/ Readdressed(r) \/ Erased(r)
  BY <1>1, <1>2 DEF Inv, Progress
<1>8. (\A s \in Sids : s # sid => (Agree(s)' <=> Agree(s))) /\ AllOwn'
      /\ (Unchanged(receiver)' \/ Readdressed(receiver)' \/ Erased(receiver)')
  <2>1. CASE senders[r.idx].type = "udp"
    <3>1. file'.dtls = file.dtls /\ stale' = stale
      BY <1>w, <2>1
    <3>2. r.idx = 1
      BY <1>2, <2>1 DEF Inv, Kinds
    <3>3. \A s : Agree(s)' <=> Agree(s)
      BY <1>6, <3>1 DEF Agree
    <3>4. Unchanged(receiver)'
      BY <1>1, <1>2, <1>3, <1>6, <1>7, <3>2, <3>3 DEF Unchanged, Readdressed, Erased
    <3>5. AllOwn'
      BY <1>2, <3>1 DEF Inv, AllOwn, FileOwn
    <3> QED BY <3>3, <3>4, <3>5
  <2>2. CASE senders[r.idx].type = "dtls"
    <3>1. \/ file'.dtls = Written(list, r.sm, r.erase) /\ stale' = stale \ {sid}
          \/ file' = file /\ stale' = stale \cup {sid}
      BY <1>w, <2>2
    <3>2. r.idx # 1
      BY <1>2, <2>2 DEF Inv, Kinds
    <3>3. /\ \A s \in Sids \ {sid} : /\ s \in DOMAIN file'.dtls <=> s \in DOMAIN list
                                     /\ s \in DOMAIN list => file'.dtls[s] = list[s]
          /\ \A s \in Sids \ {sid} : s \in stale' <=> s \in stale
          /\ \/ /\ sid \in DOMAIN file'.dtls <=> ~(sid \in DOMAIN list /\ r.erase)
                /\ ~(sid \in DOMAIN list /\ r.erase) => file'.dtls[sid] = r.sm.ip
             \/ sid \in stale' /\ (sid \in DOMAIN file'.dtls <=> sid \in DOMAIN list)
      <4>1. CASE file'.dtls = Written(list, r.sm, r.erase) /\ stale' = stale \ {sid}
        BY <1>1, <1>2, <4>1, WrittenList
      <4>2. CASE file' = file /\ stale' = stale \cup {sid}
        BY <1>1, <4>2
      <4> QED BY <3>1, <4>1, <4>2
    <3>4. (Readdressed(r) \/ Erased(r)) /\ Vacant(sid)
      BY <1>1, <1>2, <1>7, <3>2 DEF Unchanged, Readdressed, Erased
    <3>5. Readdressed(receiver)' \/ Erased(receiver)'
      <4>1. Vacant(sid)' /\ receiver'.sm.sid = sid /\ receiver'.at = "setflag"
        BY <1>1, <1>3, <1>6, <3>4
      <4>2. CASE Readdressed(r)
        <5>1. /\ r.update /\ ~r.erase /\ r.found /\ r.idx # 1 /\ sid \in DOMAIN list
          BY <1>1, <4>2 DEF Readdressed
        <5>2. sid \in DOMAIN file'.dtls /\ (sid \in stale' \/ file'.dtls[sid] = r.sm.ip)
          BY <3>3, <5>1
        <5> QED BY <1>3, <4>1, <5>1, <5>2 DEF Readdressed
      <4>3. CASE Erased(r)
        <5>1. /\ ~r.update /\ r.erase /\ r.found /\ r.idx # 1 /\ sid \in DOMAIN list
          BY <1>1, <1>2, <4>3 DEF Erased
        <5>2. sid \in stale' \/ sid \notin DOMAIN file'.dtls
          BY <3>3, <5>1
        <5> QED BY <1>3, <4>1, <5>1, <5>2 DEF Erased
      <4> QED BY <3>4, <4>2, <4>3
    <3>6. \A s \in Sids : s # sid => (Agree(s)' <=> Agree(s))
      BY <1>1, <1>6, <3>3 DEF Agree
    <3>7. ASSUME NEW j \in 1..Len(senders) PROVE Own(senders[j]) /\ FileOwn(senders[j])'
      <4>1. Own(senders[j]) /\ FileOwn(senders[j]) /\ senders[j] \in SenderState
        BY DEF Inv, AllOwn, TypeOK
      <4>2. senders[j].type = "dtls" /\ senders[j].exit = FALSE =>
               senders[j].born.sid \in Sids /\ senders[j].born.sid # sid
        BY <3>4, <4>1 DEF Own, Vacant, Serves
      <4> QED BY <1>1, <1>2, <3>3, <4>1, <4>2 DEF FileOwn
    <3> QED BY <1>2, <3>5, <3>6, <3>7 DEF AllOwn
  <2> QED BY <1>2, <2>1, <2>2
<1>9. OthersAgree'
  BY <1>1, <1>2, <1>3, <1>8 DEF Inv, OthersAgree, Registering
<1>10. Progress'
  BY <1>3, <1>8 DEF Progress
<1> QED BY <1>5, <1>6, <1>8, <1>9, <1>10, QuietSent DEF Inv

LEMMA SetFlagPreserves == Inv /\ SetFlag /\ UNCHANGED <<taken, ended, sent>> => Inv'
<1> SUFFICES ASSUME Inv, SetFlag, UNCHANGED <<taken, ended, sent>> PROVE Inv'
  OBVIOUS
<1>1. /\ receiver \in ReceiverState /\ receiver.at = "setflag" /\ NextNetwork(receiver)
      /\ UNCHANGED <<file, stale>> /\ Registering /\ senders \in Seq(SenderState)
      /\ senders' = [senders EXCEPT ![receiver.idx].flag = TRUE]
  BY DEF SetFlag, Inv, TypeOK, Registering
<1>2. PICK i \in 1..Len(senders) : i = receiver.idx
  BY <1>1 DEF ReceiverState
<1>3. senders[i] \in SenderState /\ Own(senders[i]) /\ FileOwn(senders[i])
  BY <1>1 DEF Inv, AllOwn
<1>4. PICK b \in SenderState : b = [senders[i] EXCEPT !.flag = TRUE]
  BY <1>3 DEF SenderState
<1>5. senders' = [senders EXCEPT ![i] = b]
  BY <1>1, <1>2, <1>4
<1>6. /\ senders' \in Seq(SenderState) /\ Len(senders') = Len(senders) /\ senders'[i] = b
      /\ \A j \in 1..Len(senders) : j # i => senders'[j] = senders[j]
  BY <1>1, <1>5, SenderReplaced
<1>7. Same(senders[i], b) /\ Own(b) /\ b.at = senders[i].at
  BY <1>3, <1>4 DEF Same, Own, SenderState
<1>f. FileOwn(b)'
  BY <1>1, <1>3, <1>7 DEF FileOwn, Same
<1>8. Kept /\ Quiet
  BY <1>1, <1>6, <1>7 DEF Kept, Same, Quiet
<1>9. AllOwn'
  <2>1. file' = file
    BY <1>1
  <2> QED BY <1>6, <1>7, <1>f, <2>1 DEF Inv, AllOwn, FileOwn
<1>10. receiver.idx = 1 => ~Serves(1, receiver.sm.sid)
  BY <1>2 DEF Inv, Kinds, Serves
<1>11. Completed(receiver)
  BY <1>1, <1>2, <1>10 DEF Inv, Progress, Unchanged, Readdressed, Erased, Completed
<1>12. receiver' \in ReceiverState' /\ OthersAgree' /\ Progress'
  BY <1>1, <1>8, <1>11, NetworkDone DEF Inv
<1>13. TypeOK'
  BY <1>1, <1>6, <1>12 DEF Inv, TypeOK
<1> QED BY <1>8, <1>9, <1>12, <1>13, KeptServes, QuietSent DEF Inv

LEMMA NewSenderPreserves == Inv /\ NewSender /\ UNCHANGED <<taken, ended, sent>> => Inv'
<1> SUFFICES ASSUME Inv, NewSender, UNCHANGED <<taken, ended, sent>> PROVE Inv'
  OBVIOUS
<1>1. PICK r \in ReceiverState, sid \in Sids, list \in Lists :
         r = receiver /\ sid = r.sm.sid /\ list = file.dtls
  BY DEF NewSender, Inv, TypeOK, ReceiverState, Registrations
<1>2. /\ r.at = "new" /\ r.sm \in Registrations /\ sid \in Sids /\ r.sm.ip \in Ips
      /\ r.found \in BOOLEAN /\ receiver' = [at |-> "idle"]
  BY <1>1 DEF NewSender, ReceiverState, Idle, Registrations
<1>w. PICK w \in BOOLEAN : w = (sid \notin stale')
  OBVIOUS
<1>3. PICK b, n : b = Sender("dtls", sid, r.sm.ip, w) /\ n = Len(senders)
  OBVIOUS
<1>4. /\ b \in SenderState /\ b.type = "dtls" /\ b.dest = sid /\ b.exit = FALSE
      /\ b.born.sid = sid /\ b.born.ip = r.sm.ip /\ b.born.written = w
      /\ b.queue = <<>> /\ b.at = "start" /\ b.list = <<>> /\ b.ip = NoIp
  <2>1. sid \in Dests /\ r.sm.ip \in Ips \cup {NoIp}
    BY <1>2 DEF Dests
  <2>2. Fresh(b, "dtls", sid, r.sm.ip, w)
    BY <1>3, <2>1, FreshSender
  <2> QED BY <2>2 DEF Fresh
<1>5. senders' = Append(senders, b) /\ senders \in Seq(SenderState)
  <2>1. senders' = Append(senders, Sender("dtls", sid, r.sm.ip, sid \notin stale'))
    BY <1>1 DEF NewSender
  <2>2. (sid \notin stale') = w
    BY <1>w
  <2> QED BY <1>3, <2>1, <2>2 DEF Inv, TypeOK
<1>6. /\ senders' \in Seq(SenderState) /\ Len(senders') = n + 1
      /\ n \in Nat /\ Len(senders) = n /\ senders'[n + 1] = b
      /\ \A j \in 1..n : senders'[j] = senders[j]
      /\ \A j \in 1..Len(senders') : j = n + 1 \/ j \in 1..n
  BY <1>3, <1>4, <1>5
<1>7. /\ r.found => UNCHANGED <<file, stale>>
      /\ ~r.found => WriteList("dtls", r.sm, FALSE)
  BY <1>1 DEF NewSender
<1>8. ToBeServed(r) /\ Vacant(sid)
  BY <1>1, <1>2 DEF Inv, Progress, ToBeServed
<1>9. /\ file' \in [{"udp", "dtls"} -> Lists] /\ stale' \subseteq Sids
      /\ sid \notin stale' => sid \in DOMAIN file'.dtls /\ file'.dtls[sid] = r.sm.ip
      /\ \A s \in Sids \ {sid} : /\ s \in DOMAIN file'.dtls <=> s \in DOMAIN list
                                 /\ s \in DOMAIN list => file'.dtls[s] = list[s]
                                 /\ s \in stale' <=> s \in stale
  <2>1. file \in [{"udp", "dtls"} -> Lists] /\ stale \subseteq Sids
    BY DEF Inv, TypeOK
  <2>2. CASE r.found
    BY <1>1, <1>7, <1>8, <2>1, <2>2 DEF ToBeServed
  <2>3. CASE ~r.found
    <3>2. /\ Written(list, r.sm, FALSE) \in Lists
          /\ \A s \in Sids \ {sid} : /\ s \in DOMAIN Written(list, r.sm, FALSE) <=> s \in DOMAIN list
                                     /\ s \in DOMAIN list => Written(list, r.sm, FALSE)[s] = list[s]
          /\ sid \in DOMAIN Written(list, r.sm, FALSE)
          /\ Written(list, r.sm, FALSE)[sid] = r.sm.ip
      BY <1>1, <1>2, WrittenNew
    <3>3. \/ file' = [file EXCEPT !.dtls = Written(list, r.sm, FALSE)] /\ stale' = stale \ {sid}
          \/ file' = file /\ stale' = stale \cup {sid}
      BY <1>1, <1>7, <2>3 DEF WriteList
    <3>4. CASE file' = [file EXCEPT !.dtls = Written(list, r.sm, FALSE)] /\ stale' = stale \ {sid}
      BY <2>1, <3>2, <3>4
    <3>5. CASE file' = file /\ stale' = stale \cup {sid}
      BY <1>1, <1>2, <2>1, <3>5
    <3> QED BY <3>3, <3>4, <3>5
  <2> QED BY <2>2, <2>3
<1>10. \A j \in 1..n : \A s : Serves(j, s)' <=> Serves(j, s)
  BY <1>6 DEF Serves
<1>11. \A s : Serves(n + 1, s)' <=> s = sid
  BY <1>4, <1>6 DEF Serves
<1>12. ServedOnce'
  BY <1>6, <1>8, <1>10, <1>11 DEF Inv, ServedOnce, Vacant
<1>13. Kinds'
  BY <1>4, <1>6 DEF Inv, Kinds
<1>14. \A s \in Sids : Agree(s)'
  <2>1. ~Vacant(sid)'
    BY <1>6, <1>11 DEF Vacant
  <2>2. ASSUME NEW s \in Sids, s # sid PROVE Vacant(s)' <=> Vacant(s)
    BY <1>6, <1>10, <1>11, <2>2 DEF Vacant
  <2>3. \A s \in Sids : s # sid => Agree(s)
    BY <1>1, <1>2 DEF Inv, OthersAgree, Registering
  <2> QED BY <1>1, <1>9, <2>1, <2>2, <2>3 DEF Agree
<1>15. ASSUME NEW j \in 1..n PROVE Own(senders'[j]) /\ FileOwn(senders[j])'
  <2>1. Own(senders[j]) /\ FileOwn(senders[j]) /\ senders[j] \in SenderState
    BY <1>6 DEF Inv, AllOwn, TypeOK
  <2>2. senders[j].type = "dtls" /\ senders[j].exit = FALSE =>
           senders[j].born.sid \in Sids /\ senders[j].born.sid # sid
    BY <1>6, <1>8, <2>1 DEF Own, Vacant, Serves
  <2> QED BY <1>1, <1>6, <1>9, <2>1, <2>2 DEF FileOwn
<1>16. Own(b) /\ FileOwn(b)'
  <2>1. Own(b)
    BY <1>2, <1>4, EmptyList DEF Own, Busy
  <2>2. b.born.written => sid \notin stale'
    BY <1>4, <1>w
  <2>3. b.born.written => file'.dtls[sid] = r.sm.ip
    BY <1>9, <2>2
  <2>4. FileOwn(b)'
    BY <1>4, <2>3 DEF FileOwn
  <2> QED BY <2>1, <2>4
<1>17. AllOwn'
  BY <1>6, <1>15, <1>16 DEF AllOwn, FileOwn
<1>18. receiver' \in ReceiverState'
  BY <1>2 DEF ReceiverState
<1>19. TypeOK'
  BY <1>6, <1>9, <1>18 DEF Inv, TypeOK
<1>20. OthersAgree' /\ Progress'
  BY <1>2, <1>14 DEF OthersAgree, Progress
<1>21. Quiet
  BY <1>6 DEF Quiet
<1> QED BY <1>12, <1>13, <1>17, <1>19, <1>20, <1>21, QuietSent DEF Inv

-----------------------------------------------------------------------------
(* Taking a message to the queues.                                         *)

(* The receiver goes to the next queue, or has done the last one.          *)
LEMMA NextQueueTyped ==
    ASSUME receiver \in ReceiverState, receiver.at \in {"push", "clear", "drop"}, NextQueue,
           Len(senders) \in Nat, Len(senders') = Len(senders)
    PROVE  receiver' \in ReceiverState' /\ receiver'.at \in {"push", "idle"}
<1>1. receiver.msg \in Message /\ receiver.idx \in 1..Len(senders)
  BY DEF ReceiverState
<1>2. CASE receiver.idx < Len(senders)
  <2>1. receiver' = [receiver EXCEPT !.at = "push", !.idx = @ + 1]
    BY <1>2 DEF NextQueue
  <2>2. receiver.idx + 1 \in 1..Len(senders')
    BY <1>1, <1>2
  <2> QED BY <1>1, <2>1, <2>2 DEF ReceiverState
<1>3. CASE ~(receiver.idx < Len(senders))
  <2>1. receiver' = [at |-> "idle"]
    BY <1>3 DEF NextQueue, Idle
  <2> QED BY <2>1 DEF ReceiverState
<1> QED BY <1>2, <1>3

(* A queue that gets messages of its sender's peer keeps the sender's      *)
(* invariant; the receiver is where it is not registering anything.        *)
LEMMA QueueStep ==
    ASSUME Inv, NEW i \in 1..Len(senders), NEW q \in Seq(Message),
           senders' = [senders EXCEPT ![i].queue = q], file' = file, sent' = sent, ~Registering,
           UNCHANGED <<taken, ended, stale>>,
           senders[i].type = "dtls" =>
              \A k \in 1..Len(q) : q[k].dst \in {senders[i].born.sid, NoSid},
           receiver' \in ReceiverState', receiver'.at \in {"push", "idle", "clear"},
           receiver'.at = "clear" => receiver.at = "drop" /\ receiver'.idx = receiver.idx
                                       /\ receiver'.msg = receiver.msg
    PROVE  Inv'
<1>1. senders[i] \in SenderState /\ Own(senders[i]) /\ FileOwn(senders[i]) /\ senders \in Seq(SenderState)
  BY DEF Inv, AllOwn, TypeOK
<1>2. PICK b \in SenderState : b = [senders[i] EXCEPT !.queue = q]
  BY <1>1 DEF SenderState
<1>3. senders' = [senders EXCEPT ![i] = b]
  BY <1>1, <1>2
<1>4. /\ senders' \in Seq(SenderState) /\ Len(senders') = Len(senders) /\ senders'[i] = b
      /\ \A j \in 1..Len(senders) : j # i => senders'[j] = senders[j]
  BY <1>1, <1>3, SenderReplaced
<1>5. /\ b.type = senders[i].type /\ b.exit = senders[i].exit /\ b.dest = senders[i].dest
      /\ b.born = senders[i].born /\ b.queue = q /\ b.at = senders[i].at
      /\ b.msg = senders[i].msg /\ b.list = senders[i].list /\ b.ip = senders[i].ip
  BY <1>1, <1>2 DEF SenderState
<1>6. Own(b) /\ Same(senders[i], b)
  BY <1>1, <1>5 DEF Own, Same
<1>7. FileOwn(b)'
  BY <1>1, <1>5 DEF FileOwn
<1>8. Kept /\ Quiet
  BY <1>1, <1>4, <1>5, <1>6 DEF Kept, Same, Quiet
<1>9. AllOwn'
  BY <1>4, <1>6, <1>7 DEF Inv, AllOwn, FileOwn
<1>10. Kinds' /\ ServedOnce' /\ \A s : Vacant(s)' <=> Vacant(s)
  BY <1>8, KeptServes DEF Inv
<1>11. TypeOK'
  BY <1>4 DEF Inv, TypeOK
<1>12. \A s \in Sids : Agree(s)'
  BY <1>10 DEF Inv, OthersAgree, Agree
<1>13. OthersAgree'
  BY <1>12 DEF OthersAgree
<1>14. receiver'.at = "clear" => Wanted'
  <2>1. SUFFICES ASSUME receiver'.at = "clear" PROVE Wanted'
    OBVIOUS
  <2>2. Wanted /\ receiver'.idx = receiver.idx /\ receiver'.msg = receiver.msg
    BY <2>1 DEF Inv, Progress
  <2>3. receiver.idx \in 1..Len(senders)
    BY <2>1 DEF Inv, TypeOK, ReceiverState
  <2> QED BY <1>8, <2>2, <2>3 DEF Wanted, Kept, Same
<1>15. Progress'
  BY <1>14 DEF Progress
<1> QED BY <1>8, <1>9, <1>10, <1>11, <1>13, <1>15, QuietSent DEF Inv

(* Steps at a queue that change no sender.                                 *)
LEMMA LookAtQueue ==
    ASSUME Inv, UNCHANGED <<senders, file, ended, sent, stale>>, ~Registering, receiver' \in ReceiverState',
           taken' \in [messages : 0..MaxMessages, regs : 0..MaxRegs],
           receiver'.at \in {"push", "idle", "clear", "drop"},
           receiver'.at \in {"clear", "drop"} => Wanted /\ receiver'.idx = receiver.idx
                                                 /\ receiver'.msg = receiver.msg
    PROVE  Inv'
<1>1. TypeOK'
  BY DEF Inv, TypeOK
<1>2. \A s \in Sids : Agree(s)'
  BY Alone DEF Inv, OthersAgree
<1>3. OthersAgree'
  BY <1>2 DEF OthersAgree
<1>4. Progress'
  BY DEF Progress, Wanted
<1>5. Quiet
  BY DEF Quiet, Inv, TypeOK
<1> QED BY <1>1, <1>3, <1>4, <1>5, Alone, QuietSent DEF Inv

LEMMA TakeMessagePreserves == Inv /\ TakeMessage => Inv'
<1> SUFFICES ASSUME Inv, TakeMessage PROVE Inv'
  OBVIOUS
<1>1. PICK d \in Dests :
         receiver' = [at |-> "push", msg |-> [id |-> taken.messages + 1, dst |-> d], idx |-> 1]
  BY DEF TakeMessage
<1>2. /\ UNCHANGED <<senders, file, ended, sent, stale>> /\ ~Registering
      /\ taken.messages + 1 \in 0..MaxMessages
      /\ taken' \in [messages : 0..MaxMessages, regs : 0..MaxRegs]
  BY SendAssumption DEF TakeMessage, Alive, Inv, TypeOK, Registering
<1>3. 1 \in 1..Len(senders')
  BY <1>2 DEF Inv, TypeOK, Kinds
<1>4. receiver' \in ReceiverState' /\ receiver'.at = "push"
  BY <1>1, <1>2, <1>3 DEF ReceiverState, Message
<1> QED BY <1>2, <1>4, LookAtQueue

LEMMA QueuePreserves == Inv /\ ReceiveDataToQueue => Inv'
<1> SUFFICES ASSUME Inv, ReceiveDataToQueue PROVE Inv'
  OBVIOUS
<1>1. /\ receiver \in ReceiverState /\ receiver.at \in {"push", "clear", "drop"} /\ ~Registering
      /\ Len(senders) \in Nat /\ UNCHANGED <<file, taken, ended, sent, stale>> /\ senders \in Seq(SenderState)
      /\ taken \in [messages : 0..MaxMessages, regs : 0..MaxRegs]
  BY DEF Inv, TypeOK, ReceiveDataToQueue, Alive, PassOver, BacklogFound, PushMessage, ClearTest,
         ClearPop, Cleared, Registering
<1>2. receiver.idx \in 1..Len(senders) /\ receiver.msg \in Message
  BY <1>1 DEF ReceiverState
<1>3. PICK i \in 1..Len(senders) : i = receiver.idx
  BY <1>2
<1>4. senders[i] \in SenderState /\ Own(senders[i]) /\ senders[i].queue \in Seq(Message)
  <2>1. senders[i] \in SenderState /\ Own(senders[i])
    BY <1>1 DEF Inv, AllOwn
  <2> QED BY <2>1 DEF SenderState
<1>5. ASSUME Wanted, NextQueue, senders' = Queued(receiver.idx, receiver.msg) PROVE Inv'
  <2>1. PICK q \in Seq(Message) : q = Append(senders[i].queue, receiver.msg)
    <3>1. Append(senders[i].queue, receiver.msg) \in Seq(Message)
      BY <1>2, <1>4
    <3> QED BY <3>1, Zenon
  <2>2. senders' = [senders EXCEPT ![i].queue = q]
    BY <1>3, <1>5, <2>1 DEF Queued
  <2>3. Len(senders') = Len(senders)
    BY <1>1, <2>2
  <2>4. /\ \A k \in 1..Len(q) : k = Len(q) \/ k \in 1..Len(senders[i].queue)
        /\ \A k \in 1..Len(senders[i].queue) : q[k] = senders[i].queue[k]
        /\ q[Len(q)] = receiver.msg
    BY <1>2, <1>4, <2>1
  <2>5. senders[i].type = "dtls" => receiver.msg.dst \in {senders[i].born.sid, NoSid}
    BY <1>3, <1>4, <1>5 DEF Wanted, Own, SenderState
  <2>6. senders[i].type = "dtls" =>
           \A k \in 1..Len(q) : q[k].dst \in {senders[i].born.sid, NoSid}
    BY <1>4, <2>4, <2>5 DEF Own
  <2>7. receiver' \in ReceiverState' /\ receiver'.at \in {"push", "idle"}
    BY <1>1, <1>5, <2>3, NextQueueTyped
  <2> QED BY <1>1, <2>2, <2>6, <2>7, QueueStep
<1>6. CASE PassOver
  <2>1. UNCHANGED <<senders, file, ended, sent, stale>> /\ Len(senders') = Len(senders) /\ NextQueue
    BY <1>1, <1>6 DEF PassOver
  <2>2. receiver' \in ReceiverState' /\ receiver'.at \in {"push", "idle"}
    BY <1>1, <2>1, NextQueueTyped
  <2> QED BY <1>1, <2>1, <2>2, LookAtQueue
<1>7. CASE PushMessage
  BY <1>5, <1>7 DEF PushMessage
<1>8. CASE BacklogFound \/ ClearTest
  <2>1. PICK p \in {"clear", "drop"} : receiver' = [receiver EXCEPT !.at = p]
    BY <1>8 DEF BacklogFound, ClearTest
  <2>2. UNCHANGED <<senders, file, ended, sent, stale>> /\ Wanted
    BY <1>1, <1>8 DEF BacklogFound, ClearTest, Inv, Progress
  <2>3. /\ receiver' \in ReceiverState' /\ receiver'.at \in {"clear", "drop"}
        /\ receiver'.idx = receiver.idx /\ receiver'.msg = receiver.msg
    BY <1>1, <2>1, <2>2 DEF ReceiverState
  <2> QED BY <1>1, <2>2, <2>3, LookAtQueue
<1>9. CASE ClearPop
  <2>1. senders[i].queue # <<>>
    BY <1>3, <1>9 DEF ClearPop, Queue
  <2>2. PICK q \in Seq(Message) : q = Tail(senders[i].queue)
    <3>1. Tail(senders[i].queue) \in Seq(Message)
      BY <1>4, <2>1
    <3> QED BY <3>1, Zenon
  <2>3. senders' = [senders EXCEPT ![i].queue = q]
    BY <1>1, <1>3, <1>9, <2>2 DEF ClearPop
  <2>4. /\ \A k \in 1..Len(q) : k + 1 \in 1..Len(senders[i].queue)
        /\ \A k \in 1..Len(q) : q[k] = senders[i].queue[k + 1]
    BY <1>4, <2>1, <2>2
  <2>5. senders[i].type = "dtls" =>
           \A k \in 1..Len(q) : q[k].dst \in {senders[i].born.sid, NoSid}
    BY <1>4, <2>4 DEF Own
  <2>6. receiver' = [receiver EXCEPT !.at = "clear"] /\ receiver.at = "drop"
    BY <1>9 DEF ClearPop
  <2>7. Len(senders') = Len(senders)
    BY <1>1, <2>3
  <2>8. /\ receiver' \in ReceiverState' /\ receiver'.at = "clear"
        /\ receiver'.idx = receiver.idx /\ receiver'.msg = receiver.msg
    BY <1>1, <2>6, <2>7 DEF ReceiverState
  <2> QED BY <1>1, <2>3, <2>5, <2>6, <2>8, QueueStep
<1>10. CASE Cleared
  <2>1. Wanted
    BY <1>10 DEF Cleared, Inv, Progress
  <2> QED BY <1>5, <1>10, <2>1 DEF Cleared
<1> QED BY <1>6, <1>7, <1>8, <1>9, <1>10 DEF ReceiveDataToQueue

-----------------------------------------------------------------------------
(* When the server starts, every line of the list has its sender.          *)
LEMMA InitInv == Init => Inv
<1> SUFFICES ASSUME Init PROVE Inv
  OBVIOUS
<1> DEFINE D == DOMAIN InitialList
<1>1. D \subseteq Sids /\ IsFiniteSet(D) /\ InitialList \in [D -> Ips] /\ InitialList \in Lists
  <2>1. D \subseteq Sids /\ InitialList \in [D -> Ips] /\ InitialList \in Lists
    BY SendAssumption DEF Lists
  <2> QED BY <2>1, SendAssumption, FS_Subset
<1>2. PICK n \in Nat : n = Cardinality(D)
  BY <1>1, FS_CardinalityType
<1>3. PICK order \in [1..n -> D] :
         /\ \A j, k \in 1..n : order[j] = order[k] => j = k
         /\ senders = <<Sender("udp", NoSid, NoIp, TRUE)>>
                         \o [k \in 1..n |-> Sender("dtls", order[k], InitialList[order[k]], TRUE)]
  BY <1>2 DEF Init
<1>4. \A s \in D : \E k \in 1..n : order[k] = s
  <2>1. IsFiniteSet(1..n) /\ Cardinality(1..n) = n
    BY FS_Interval
  <2>2. order \in Injection(1..n, D)
    BY <1>3 DEF Injection, IsInjective
  <2>3. order \in Surjection(1..n, D)
    BY <1>1, <1>2, <2>1, <2>2, FS_Injection
  <2> QED BY <2>3 DEF Surjection
<1>5. \A k \in 1..n : /\ order[k] \in D /\ order[k] \in Sids /\ order[k] \in Dests
                      /\ order[k] # NoSid /\ InitialList[order[k]] \in Ips
  BY <1>1, <1>3, SendAssumption DEF Dests
<1>6. PICK sq \in Seq(SenderState) : sq = [k \in 1..n |-> Sender("dtls", order[k], InitialList[order[k]], TRUE)]
  <2>1. \A k \in 1..n : Sender("dtls", order[k], InitialList[order[k]], TRUE) \in SenderState
    BY <1>5, FreshSender DEF Fresh
  <2>2. [k \in 1..n |-> Sender("dtls", order[k], InitialList[order[k]], TRUE)] \in [1..n -> SenderState]
    BY <2>1, Zenon
  <2>3. [1..n -> SenderState] \subseteq Seq(SenderState)
    OBVIOUS
  <2> QED BY <2>2, <2>3, Zenon
<1>7. PICK f \in Seq(SenderState) : f = <<Sender("udp", NoSid, NoIp, TRUE)>>
  <2>1. PICK u \in SenderState : u = Sender("udp", NoSid, NoIp, TRUE)
    BY FreshSender DEF Dests, Fresh
  <2>2. <<u>> \in Seq(SenderState)
    OBVIOUS
  <2> QED BY <2>1, <2>2, Zenon
<1>8. Len(f) = 1 /\ f[1] = Sender("udp", NoSid, NoIp, TRUE) /\ Len(sq) = n
      /\ \A k \in 1..n : sq[k] = Sender("dtls", order[k], InitialList[order[k]], TRUE)
  BY <1>6, <1>7
<1>9. /\ senders \in Seq(SenderState) /\ Len(senders) = n + 1
      /\ senders[1] = Sender("udp", NoSid, NoIp, TRUE)
      /\ \A k \in 1..n : senders[k + 1] = Sender("dtls", order[k], InitialList[order[k]], TRUE)
  <2>1. senders = f \o sq
    BY <1>3, <1>6, <1>7
  <2>2. senders \in Seq(SenderState) /\ Len(senders) = n + 1
        /\ \A i \in 1..n + 1 : senders[i] = IF i <= 1 THEN f[i] ELSE sq[i - 1]
    <3>1. /\ f \o sq \in Seq(SenderState) /\ Len(f \o sq) = Len(f) + Len(sq)
          /\ \A i \in 1..Len(f) + Len(sq) : (f \o sq)[i] = IF i <= Len(f) THEN f[i] ELSE sq[i - Len(f)]
      BY ConcatProperties, Zenon
    <3>2. 1 + n = n + 1
      OBVIOUS
    <3>3. Len(f) = 1 /\ Len(f) + Len(sq) = n + 1
      BY <1>8, <3>2
    <3> QED BY <2>1, <3>1, <3>3
  <2>3. \A k \in 1..n : k + 1 \in 1..n + 1 /\ ~(k + 1 <= 1) /\ (k + 1) - 1 = k
    OBVIOUS
  <2>4. 1 \in 1..n + 1
    OBVIOUS
  <2>5. senders[1] = Sender("udp", NoSid, NoIp, TRUE)
    <3>1. senders[1] = f[1]
      BY <2>2, <2>4
    <3> QED BY <1>8, <3>1, Zenon
  <2>6. ASSUME NEW k \in 1..n
        PROVE  senders[k + 1] = Sender("dtls", order[k], InitialList[order[k]], TRUE)
    <3>1. senders[k + 1] = sq[k]
      BY <2>2, <2>3
    <3> QED BY <1>8, <3>1, Zenon
  <2> QED BY <2>2, <2>5, <2>6
<1>10. \A i \in 1..Len(senders) : i = 1 \/ \E k \in 1..n : i = k + 1
  <2>1. ASSUME NEW i \in 1..n + 1, i # 1 PROVE i - 1 \in 1..n /\ i = (i - 1) + 1
    BY <2>1
  <2> QED BY <1>9, <2>1
<1>11. /\ file = [udp |-> InitialList, dtls |-> InitialList]
       /\ receiver = [at |-> "idle"] /\ taken = [messages |-> 0, regs |-> 0] /\ sent = {} /\ ended = FALSE /\ stale = {}
  BY DEF Init
<1>12. TypeOK
  <2>1. file \in [{"udp", "dtls"} -> Lists]
    BY <1>1, <1>11
  <2>2. taken \in [messages : 0..MaxMessages, regs : 0..MaxRegs]
    BY <1>11, SendAssumption
  <2> QED BY <1>9, <1>11, <2>1, <2>2 DEF TypeOK, ReceiverState
<1>13. ASSUME NEW k \in 1..n
       PROVE  /\ senders[k + 1].type = "dtls" /\ senders[k + 1].dest = order[k] /\ k + 1 # 1
              /\ Own(senders[k + 1]) /\ FileOwn(senders[k + 1])
  <2>1. senders[k + 1] = Sender("dtls", order[k], InitialList[order[k]], TRUE)
    BY <1>9
  <2>2. /\ senders[k + 1].type = "dtls" /\ senders[k + 1].dest = order[k] /\ senders[k + 1].exit = FALSE
        /\ senders[k + 1].born.sid = order[k] /\ senders[k + 1].born.ip = InitialList[order[k]]
        /\ senders[k + 1].queue = <<>> /\ senders[k + 1].at = "start"
        /\ senders[k + 1].list = <<>> /\ senders[k + 1].ip = NoIp
    <3>1. order[k] \in Dests /\ InitialList[order[k]] \in Ips \cup {NoIp}
      BY <1>5
    <3>2. Fresh(senders[k + 1], "dtls", order[k], InitialList[order[k]], TRUE)
      BY <2>1, <3>1, FreshSender
    <3> QED BY <3>2 DEF Fresh
  <2>3. file.dtls = InitialList
    BY <1>11
  <2> QED BY <1>5, <2>2, <2>3, EmptyList DEF Own, FileOwn, Busy
<1>14. /\ senders[1].type = "udp" /\ senders[1].dest = NoSid
       /\ Own(senders[1]) /\ FileOwn(senders[1])
  <2>1. /\ senders[1].type = "udp" /\ senders[1].dest = NoSid /\ senders[1].exit = FALSE
        /\ senders[1].at = "start"
    <3>1. NoSid \in Dests /\ NoIp \in Ips \cup {NoIp}
      BY DEF Dests
    <3>2. Fresh(senders[1], "udp", NoSid, NoIp, TRUE)
      BY <1>9, <3>1, FreshSender
    <3> QED BY <3>2 DEF Fresh
  <2> QED BY <2>1 DEF Own, FileOwn
<1>15. Kinds
  <2>1. ASSUME NEW i \in 1..Len(senders) PROVE senders[i].type = "udp" <=> i = 1
    BY <1>10, <1>13, <1>14
  <2> QED BY <1>9, <2>1 DEF Kinds
<1>18. AllOwn
  BY <1>10, <1>13, <1>14 DEF AllOwn
<1>19. ServedOnce
  <2> SUFFICES ASSUME NEW s \in Sids, NEW i \in 1..Len(senders), NEW j \in 1..Len(senders),
                      Serves(i, s), Serves(j, s)
               PROVE  i = j
    BY DEF ServedOnce
  <2>1. i # 1 /\ j # 1
    BY <1>14 DEF Serves
  <2>2. PICK k \in 1..n : i = k + 1
    BY <1>10, <2>1
  <2>3. PICK l \in 1..n : j = l + 1
    BY <1>10, <2>1
  <2>4. order[k] = s /\ order[l] = s
    BY <1>13, <2>2, <2>3 DEF Serves
  <2> QED BY <1>3, <2>2, <2>3, <2>4
<1>20. \A s \in Sids : Agree(s)
  <2>1. ASSUME NEW s \in D PROVE ~Vacant(s)
    <3>1. PICK k \in 1..n : order[k] = s
      BY <1>4
    <3>2. k + 1 \in 1..Len(senders) /\ Serves(k + 1, s)
      BY <1>9, <1>13, <3>1 DEF Serves
    <3> QED BY <3>2 DEF Vacant
  <2>2. ASSUME NEW s \in Sids \ D PROVE Vacant(s)
    <3>1. ASSUME NEW k \in 1..n PROVE ~Serves(k + 1, s)
      BY <1>5, <1>13 DEF Serves
    <3>2. ~Serves(1, s)
      BY <1>14 DEF Serves
    <3> QED BY <1>10, <3>1, <3>2 DEF Vacant
  <2>3. file.dtls = InitialList
    BY <1>11
  <2> QED BY <2>1, <2>2, <2>3 DEF Agree
<1>21. OthersAgree /\ Progress
  BY <1>11, <1>20 DEF OthersAgree, Progress
<1>22. AllSentOwn /\ OneAfterStop
  BY <1>11 DEF AllSentOwn, OneAfterStop
<1> QED BY <1>12, <1>15, <1>18, <1>19, <1>21, <1>22 DEF Inv

(* Every step preserves the invariant.                                     *)
LEMMA NextInv == Inv /\ [Next]_vars => Inv'
<1> SUFFICES ASSUME Inv, [Next]_vars PROVE Inv'
  OBVIOUS
<1>1. CASE UNCHANGED vars \/ ProcessEnds
  <2>1. UNCHANGED <<senders, file, sent, receiver, taken, stale>> /\ ended' \in BOOLEAN
    BY <1>1 DEF vars, ProcessEnds, Inv, TypeOK
  <2>2. TypeOK'
    BY <2>1 DEF Inv, TypeOK, ReceiverState
  <2>3. Kept /\ Quiet
    BY <2>1 DEF Kept, Same, Quiet, Inv, TypeOK
  <2> QED BY <2>1, <2>2, <2>3, Alone, KeptProgress, QuietSent DEF Inv
<1>2. CASE TakeRegistration
  BY <1>2, TakeRegistrationPreserves
<1>3. CASE Register
  BY <1>3, CheckUdpPreserves, CheckServedPreserves, CheckOtherPreserves, UpdateFilePreserves,
     SetFlagPreserves, NewSenderPreserves DEF Register, Alive
<1>4. CASE TakeMessage
  BY <1>4, TakeMessagePreserves
<1>5. CASE ReceiveDataToQueue
  BY <1>5, QueuePreserves
<1>6. ASSUME NEW i \in 1..Len(senders), NwSender(i) PROVE Inv'
  BY <1>6, SenderPreserves
<1> QED
  BY <1>1, <1>2, <1>3, <1>4, <1>5, <1>6 DEF Next, ProcReceiver, CheckThrows, SocketFails

LEMMA InvAlways == Spec => []Inv
  BY InitInv, NextInv, PTL DEF Spec

-----------------------------------------------------------------------------
(* The lists, the senders, the queues and what the receiver does are of    *)
(* their types: no loop of ProcReceiver leaves the networks it counts.     *)
THEOREM TypeCorrect == Spec => []TypeOK
<1>1. Inv => TypeOK
  BY DEF Inv
<1> QED BY <1>1, InvAlways, PTL

(* What ListedServed says of one peer.                                     *)
OneServing(s) ==
    LET serving == {i \in 1..Len(senders) : Running(i) /\ senders[i].dest = s}
    IN  /\ Cardinality(serving) <= 1
        /\ s \notin stale => (s \in DOMAIN file.dtls <=> serving # {})

(* Between two messages a peer whose last change could be written is in    *)
(* the DTLS list if and only if one sender that runs serves it; no peer    *)
(* has two, and a stopped sender serves nobody.                            *)
THEOREM EveryListedServed == Spec => []ListedServed
<1>1. Inv => ListedServed
  <2> SUFFICES ASSUME Inv, receiver.at = "idle"
               PROVE  /\ \A s \in Sids : OneServing(s)
                      /\ \A i \in 1..Len(senders) : senders[i].exit => senders[i].dest = NoSid
    BY DEF ListedServed, OneServing
  <2>1. ASSUME NEW i \in 1..Len(senders)
        PROVE  /\ senders[i].exit => senders[i].dest = NoSid
               /\ \A s \in Sids : Running(i) /\ senders[i].dest = s <=> Serves(i, s)
    <3>1. senders[i] \in SenderState /\ Own(senders[i])
      BY DEF Inv, AllOwn, TypeOK
    <3> QED BY <3>1, SendAssumption DEF Own, Running, Serves, SenderState
  <2>2. ASSUME NEW s \in Sids PROVE OneServing(s)
    <3> DEFINE serving == {i \in 1..Len(senders) : Running(i) /\ senders[i].dest = s}
    <3>0. OneServing(s) <=> /\ Cardinality(serving) <= 1
                            /\ s \notin stale => (s \in DOMAIN file.dtls <=> serving # {})
      BY Zenon DEF OneServing
    <3>1. serving = {i \in 1..Len(senders) : Serves(i, s)}
      BY <2>1
    <3> HIDE DEF serving
    <3>2. Agree(s)
      BY DEF Inv, OthersAgree, Registering
    <3>3. CASE Vacant(s)
      <4>1. {i \in 1..Len(senders) : Serves(i, s)} = {}
        BY <3>3 DEF Vacant
      <4>2. serving = {}
        BY <3>1, <4>1, Zenon
      <4>3. Cardinality({}) = 0
        BY FS_EmptySet, Zenon
      <4>4. s \notin stale => s \notin DOMAIN file.dtls
        BY <3>2, <3>3 DEF Agree
      <4> QED BY <3>0, <4>2, <4>3, <4>4
    <3>4. CASE ~Vacant(s)
      <4>1. PICK i \in 1..Len(senders) : Serves(i, s)
        BY <3>4 DEF Vacant
      <4>2. {j \in 1..Len(senders) : Serves(j, s)} = {i}
        BY <4>1 DEF Inv, ServedOnce
      <4>3. serving = {i}
        BY <3>1, <4>2, Zenon
      <4>4. Cardinality({i}) = 1
        BY FS_Singleton, Zenon
      <4>5. s \notin stale => s \in DOMAIN file.dtls
        BY <3>2, <3>4 DEF Agree
      <4> QED BY <3>0, <4>3, <4>4, <4>5
    <3> QED BY <3>3, <3>4
  <2> QED BY <2>1, <2>2
<1> QED BY <1>1, InvAlways, PTL

(* sid_update_check, which catches nothing, looks up no peer that is not   *)
(* in the list, except one whose last change could not be written.         *)
THEOREM LookupFinds == Spec => []ThrowsOnlyStale
<1>1. Inv => ThrowsOnlyStale
  BY ServedListed DEF ThrowsOnlyStale
<1> QED BY <1>1, InvAlways, PTL

(* What a DTLS sender sends goes to the peer, and, until it is stopped and *)
(* if the list took it, to the address it was made for.                    *)
THEOREM RightPeer == Spec => []SentToItsPeer
<1>1. Inv => SentToItsPeer
  BY DEF Inv, AllSentOwn, SentOwn, SentToItsPeer
<1> QED BY <1>1, InvAlways, PTL

(* A stopped sender finishes at most the message it has in hand.           *)
THEOREM StopsAfterOne == Spec => []OneAfterStop
<1>1. Inv => OneAfterStop
  BY DEF Inv
<1> QED BY <1>1, InvAlways, PTL
=============================================================================
