--------------------------- MODULE CsReceive_proofs ---------------------------
(***************************************************************************)
(* Theorems about CsReceive, for any networks, messages, sizes, clear      *)
(* times and bounds.                                                       *)
(***************************************************************************)
EXTENDS CsReceive, SequenceTheorems, FiniteSetTheorems, TLAPS

LEMMA Constants ==
    /\ \A n \in Networks, m \in Messages : Size[n][m] \in Nat
    /\ ClearTime \in Nat /\ DualClearTime \in Nat /\ MaxSendtoTimes \in Nat /\ MaxTime \in Nat
    /\ \A n \in Networks : MaxRepeats[n] \in Nat
    /\ CsDuplicateCheck \in BOOLEAN /\ Mine \subseteq Messages
  BY ReceiveAssumption

LEMMA PartsFacts ==
    ASSUME NEW n \in Networks, NEW m \in Messages
    PROVE  /\ Parts(n, m) \subseteq AllParts
           /\ IsFiniteSet(Parts(n, m)) /\ Cardinality(Parts(n, m)) = Size[n][m]
           /\ \A i \in Parts(n, m) : i \in Nat
<1>1. Size[n][m] \in Nat
  BY Constants
<1>2. IsFiniteSet(1..Size[n][m]) /\ Cardinality(1..Size[n][m]) = Size[n][m]
  <2> DEFINE s == Size[n][m]
  <2> HIDE DEF s
  <2>1. s \in Int /\ s >= 0
    BY <1>1 DEF s
  <2>2. /\ IsFiniteSet(1..s)
        /\ Cardinality(1..s) = IF 1 > s THEN 0 ELSE s - 1 + 1
    BY <2>1, FS_Interval
  <2>3. IsFiniteSet(1..s) /\ Cardinality(1..s) = s
    BY <2>1, <2>2
  <2> QED BY <2>3 DEF s
<1>3. Parts(n, m) \subseteq AllParts
  <2> SUFFICES ASSUME NEW i \in Parts(n, m) PROVE i \in AllParts
    OBVIOUS
  <2>1. Parts(n, m) \in {Parts(k, l) : k \in Networks, l \in Messages}
    OBVIOUS
  <2> QED BY <2>1 DEF AllParts
<1>4. \A i \in Parts(n, m) : i \in Nat
  BY <1>1 DEF Parts
<1> QED BY <1>2, <1>3, <1>4 DEF Parts

LEMMA AllPartsNat == AllParts \subseteq Nat
  BY Constants DEF AllParts, Parts

LEMMA WithFacts ==
    ASSUME NEW f, NEW k, NEW v
    PROVE  /\ DOMAIN With(f, k, v) = DOMAIN f \cup {k} /\ With(f, k, v)[k] = v
           /\ \A x \in DOMAIN f : x # k => With(f, k, v)[x] = f[x]
  BY DEF With

LEMMA WithoutFacts ==
    ASSUME NEW f, NEW k
    PROVE  /\ DOMAIN Without(f, k) = DOMAIN f \ {k}
           /\ \A x \in DOMAIN f : x # k => Without(f, k)[x] = f[x]
  BY DEF Without

LEMMA PartialFacts ==
    ASSUME NEW S, NEW f
    PROVE  f \in Partial(S) <=> /\ f = [x \in DOMAIN f |-> f[x]]
                                /\ DOMAIN f \subseteq Messages
                                /\ \A x \in DOMAIN f : f[x] \in S
<1>1. ASSUME f \in Partial(S)
      PROVE  /\ f = [x \in DOMAIN f |-> f[x]]
             /\ DOMAIN f \subseteq Messages
             /\ \A x \in DOMAIN f : f[x] \in S
  <2>1. PICK K \in SUBSET Messages : f \in [K -> S]
    BY <1>1 DEF Partial
  <2> QED BY <2>1
<1>2. ASSUME f = [x \in DOMAIN f |-> f[x]], DOMAIN f \subseteq Messages,
             \A x \in DOMAIN f : f[x] \in S
      PROVE  f \in Partial(S)
  <2>1. f \in [DOMAIN f -> S]
    BY <1>2
  <2> QED BY <1>2, <2>1 DEF Partial
<1> QED BY <1>1, <1>2

LEMMA PartialWith ==
    ASSUME NEW S, NEW f \in Partial(S), NEW k \in Messages, NEW v \in S
    PROVE  With(f, k, v) \in Partial(S)
<1> DEFINE g == With(f, k, v)
<1>1. g = [x \in DOMAIN g |-> g[x]]
  BY DEF With
<1>2. DOMAIN f \subseteq Messages /\ \A x \in DOMAIN f : f[x] \in S
  BY PartialFacts
<1>3. DOMAIN g \subseteq Messages /\ \A x \in DOMAIN g : g[x] \in S
  BY <1>2 DEF With
<1> HIDE DEF g
<1>4. g \in Partial(S)
  BY <1>1, <1>3, PartialFacts
<1> QED BY <1>4 DEF g

LEMMA PartialWithout ==
    ASSUME NEW S, NEW f \in Partial(S), NEW k
    PROVE  Without(f, k) \in Partial(S)
<1> DEFINE g == Without(f, k)
<1>1. g = [x \in DOMAIN g |-> g[x]]
  BY DEF Without
<1>2. DOMAIN f \subseteq Messages /\ \A x \in DOMAIN f : f[x] \in S
  BY PartialFacts
<1>3. DOMAIN g \subseteq Messages /\ \A x \in DOMAIN g : g[x] \in S
  BY <1>2 DEF Without
<1> HIDE DEF g
<1>4. g \in Partial(S)
  BY <1>1, <1>3, PartialFacts
<1> QED BY <1>4 DEF g

LEMMA EmptyPartial == ASSUME NEW S PROVE <<>> \in Partial(S) /\ DOMAIN <<>> = {}
<1>1. DOMAIN <<>> = {} /\ <<>> = [x \in {} |-> x]
  OBVIOUS
<1>2. <<>> \in [{} -> S]
  BY <1>1
<1> QED BY <1>1, <1>2 DEF Partial

-----------------------------------------------------------------------------
(* Types, with what an entry of a map may count.                           *)
Idle == [at |-> "wait"]
Places == {"exist", "insert", "store", "combine", "forget", "route"}
Busy == [at : Places, msg : Messages, part : AllParts, parts : SUBSET AllParts]

ReceiverOK(n, r) ==
    r # Idle => r \in Busy /\ r.part \in Parts(n, r.msg) /\ r.parts \subseteq Parts(n, r.msg)

ComboOK(n, f) ==
    /\ f \in Partial(Combo)
    /\ \A m \in DOMAIN f :
          f[m].parts \subseteq Parts(n, m) /\ f[m].left <= Size[n][m] - Cardinality(f[m].parts)

Searching == [at |-> "search"]
Cleaning == [at : {"erase", "forget"}, key : Messages]

Counts == UNION {[P -> Nat] : P \in SUBSET AllParts}

AirOK ==
    /\ air \in [Networks -> SUBSET (Messages \X AllParts)]
    /\ \A n \in Networks : air[n] \subseteq Fragments(n)
RepeatsOK == repeats \in [Networks -> Nat] /\ \A n \in Networks : repeats[n] <= MaxRepeats[n]
ReceiversOK ==
    receiver \in [Networks -> {Idle} \cup Busy] /\ \A n \in Networks : ReceiverOK(n, receiver[n])
TimesOK == times \in [Networks -> Partial(Clock)]
CombosOK == combos \in [Networks -> Partial(Combo)] /\ \A n \in Networks : ComboOK(n, combos[n])
CleanersOK == cleaner \in [Networks -> {Searching} \cup Cleaning]
LogsOK ==
    /\ log \in [Networks -> [Messages -> [came : Counts, first : Clock]]]
    /\ \A n \in Networks, m \in Messages : log[n][m].came \in [Parts(n, m) -> Nat]

NetworksOK ==
    AirOK /\ RepeatsOK /\ ReceiversOK /\ TimesOK /\ CombosOK /\ CleanersOK /\ LogsOK

Waiting == [at |-> "pop"]
Sending == [at : {"check", "send"}, data : Payload, since : Clock, tries : Nat]
Handed == [msg : Messages, net : Networks, parts : SUBSET AllParts, since : Clock, sent : BOOLEAN]

SenderOK ==
    /\ queue \in Seq(Payload)
    /\ forwarded \subseteq Messages
    /\ sender \in {Waiting} \cup Sending
    /\ seen \in Partial(Clock)
    /\ handed \in Seq(Handed)

Base == now \in Clock /\ NetworksOK /\ SenderOK

LEMMA BaseInit == Init => Base
<1> SUFFICES ASSUME Init PROVE Base
  OBVIOUS
<1>1. now \in Clock
  BY Constants DEF Init, Clock
<1>2. SenderOK
  <2>1. <<>> \in Seq(Payload) /\ <<>> \in Seq(Handed) /\ <<>> \in Partial(Clock)
    BY EmptySeq, EmptyPartial, Zenon
  <2> QED BY <2>1 DEF Init, SenderOK, Waiting
<1>3. NetworksOK
  <2>1. /\ air = [n \in Networks |-> Fragments(n)]
        /\ \A n \in Networks : Fragments(n) \in SUBSET (Messages \X AllParts)
    BY DEF Init, Fragments
  <2>2. repeats \in [Networks -> Nat] /\ \A n \in Networks : repeats[n] <= MaxRepeats[n]
    BY Constants DEF Init
  <2>3. receiver \in [Networks -> {Idle} \cup Busy] /\ \A n \in Networks : ReceiverOK(n, receiver[n])
    BY DEF Init, Idle, ReceiverOK
  <2>4. times \in [Networks -> Partial(Clock)] /\ combos \in [Networks -> Partial(Combo)]
    BY EmptyPartial DEF Init
  <2>5. \A n \in Networks : ComboOK(n, combos[n])
    BY EmptyPartial DEF Init, ComboOK
  <2>6. cleaner \in [Networks -> {Searching} \cup Cleaning]
    BY DEF Init, Searching
  <2>7. ASSUME NEW n \in Networks, NEW m \in Messages
        PROVE  /\ log[n][m] \in [came : Counts, first : Clock]
               /\ log[n][m].came \in [Parts(n, m) -> Nat]
    <3> DEFINE zero == [i \in Parts(n, m) |-> 0]
    <3>1. zero \in [Parts(n, m) -> Nat] /\ Parts(n, m) \in SUBSET AllParts
      BY PartsFacts
    <3>2. zero \in Counts
      BY <3>1 DEF Counts
    <3>3. log[n][m] = [came |-> zero, first |-> 0]
      BY DEF Init
    <3> HIDE DEF zero
    <3> QED BY <1>1, <3>1, <3>2, <3>3 DEF Init
  <2>8. log \in [Networks -> [Messages -> [came : Counts, first : Clock]]]
    <3>1. \A n \in Networks : log[n] = [m \in Messages |-> log[n][m]]
      BY DEF Init
    <3>2. log = [n \in Networks |-> log[n]]
      BY DEF Init
    <3> QED BY <2>7, <3>1, <3>2
  <2> QED BY <2>1, <2>2, <2>3, <2>4, <2>5, <2>6, <2>7, <2>8, Zenon
         DEF NetworksOK, AirOK, RepeatsOK, ReceiversOK, TimesOK, CombosOK, CleanersOK, LogsOK
<1> QED BY <1>1, <1>2, <1>3 DEF Base

(* The receiver of n is about to do something with m, the cleaner to       *)
(* delete it, and the fragments of m that came on n.                       *)
Holds(n, m) == receiver[n].at # "wait" /\ receiver[n].msg = m
InHand(n, m) == Holds(n, m) /\ receiver[n].at \in {"exist", "insert", "store"}
Cleans(n, m) == cleaner[n].at # "search" /\ cleaner[n].key = m
Came(n, m) == {i \in Parts(n, m) : log[n][m].came[i] > 0}

(* Only messages in several fragments are in the maps, after one of them   *)
(* came, and no time in the maps is before that.  So what a cleaner is     *)
(* about to delete came longer ago than the clear time.                    *)
Dated(n, m) ==
    /\ m \in DOMAIN combos[n] => Came(n, m) # {} /\ Size[n][m] > 1
    /\ m \in DOMAIN times[n] =>
          Came(n, m) # {} /\ Size[n][m] > 1 /\ log[n][m].first <= times[n][m]
    /\ Holds(n, m) => receiver[n].part \in Came(n, m) /\ (receiver[n].at = "route" \/ Size[n][m] > 1)
    /\ Cleans(n, m) => Came(n, m) # {} /\ log[n][m].first < now - ClearTime
    /\ Came(n, m) # {} => log[n][m].first <= now

(* Unless a fragment came twice, the count says how many are missing, and  *)
(* what was combined is whole.                                             *)
Counted(n, m) ==
    ~Twice(n, m) =>
        /\ m \in DOMAIN combos[n] =>
              /\ combos[n][m].parts \subseteq Came(n, m)
              /\ combos[n][m].parts # {} =>
                    combos[n][m].left = Size[n][m] - Cardinality(combos[n][m].parts)
              /\ InHand(n, m) => receiver[n].part \notin combos[n][m].parts
        /\ Holds(n, m) /\ receiver[n].at \in {"forget", "route"} => receiver[n].parts = Parts(n, m)

(* Unless it also came too long ago, everything that came and is not in    *)
(* hand is in the combination map, until the message is whole.             *)
Has(n, m, stored) ==
    IF stored = {} THEN m \notin DOMAIN combos[n]
    ELSE m \in DOMAIN combos[n] /\ combos[n][m].parts = stored

Stored(n, m) ==
    ~Twice(n, m) /\ Came(n, m) # {} /\ Size[n][m] > 1 /\ now - log[n][m].first <= ClearTime =>
        /\ InHand(n, m) =>
              /\ Has(n, m, Came(n, m) \ {receiver[n].part})
              /\ receiver[n].at = "insert" => Came(n, m) = {receiver[n].part}
              /\ receiver[n].at = "store" => Came(n, m) # {receiver[n].part}
        /\ Holds(n, m) /\ receiver[n].at = "combine" => Has(n, m, Came(n, m))
        /\ Holds(n, m) /\ receiver[n].at \in {"forget", "route"} =>
              /\ m \notin DOMAIN combos[n]
              /\ Came(n, m) = Parts(n, m)
              /\ receiver[n].at = "route" => m \notin DOMAIN times[n]
        /\ ~Holds(n, m) =>
              IF Came(n, m) = Parts(n, m) THEN m \notin DOMAIN combos[n] \cup DOMAIN times[n]
              ELSE Has(n, m, Came(n, m))

Booked == \A n \in Networks, m \in Messages : Dated(n, m) /\ Counted(n, m) /\ Stored(n, m)

-----------------------------------------------------------------------------
(* What the receiver has in hand at each place.                            *)
LEMMA AtPlace ==
    ASSUME ReceiversOK, NEW n \in Networks, receiver[n].at \in Places
    PROVE  /\ receiver[n] \in Busy /\ receiver[n] # Idle
           /\ receiver[n].msg \in Messages
           /\ receiver[n].part \in Parts(n, receiver[n].msg)
           /\ receiver[n].parts \subseteq Parts(n, receiver[n].msg)
<1>1. receiver[n] # Idle
  BY DEF Idle, Places
<1> QED BY <1>1 DEF ReceiversOK, ReceiverOK, Busy

LEMMA NotHeld == ASSUME ReceiversOK, NEW n \in Networks PROVE receiver[n].at = "wait" <=> receiver[n] = Idle
  BY DEF ReceiversOK, Idle, Busy, Places

LEMMA ReceiverSet ==
    ASSUME ReceiversOK, NEW n \in Networks, NEW r \in {Idle} \cup Busy, ReceiverOK(n, r),
           receiver' = [receiver EXCEPT ![n] = r]
    PROVE  /\ ReceiversOK' /\ receiver'[n] = r
           /\ \A k \in Networks : k # n => receiver'[k] = receiver[k]
  BY DEF ReceiversOK

LEMMA WaitStep ==
    ASSUME ReceiversOK, NEW n \in Networks, Wait(n)
    PROVE  /\ ReceiversOK' /\ receiver'[n] = Idle
           /\ \A k \in Networks : k # n => receiver'[k] = receiver[k]
<1>1. receiver' = [receiver EXCEPT ![n] = Idle] /\ ReceiverOK(n, Idle) /\ Idle \in {Idle} \cup Busy
  BY DEF Wait, Idle, ReceiverOK
<1> QED BY <1>1, ReceiverSet

LEMMA GotoStep ==
    ASSUME ReceiversOK, NEW n \in Networks, receiver[n].at \in Places, NEW place \in Places,
           Goto(n, place)
    PROVE  /\ ReceiversOK' /\ receiver'[n] = [receiver[n] EXCEPT !.at = place]
           /\ receiver'[n].at = place /\ receiver'[n].msg = receiver[n].msg
           /\ receiver'[n].part = receiver[n].part /\ receiver'[n].parts = receiver[n].parts
           /\ \A k \in Networks : k # n => receiver'[k] = receiver[k]
<1> DEFINE r == [receiver[n] EXCEPT !.at = place]
<1>1. /\ r \in Busy /\ r.at = place /\ r.msg = receiver[n].msg
      /\ r.part = receiver[n].part /\ r.parts = receiver[n].parts
  BY AtPlace DEF Busy
<1>2. receiver' = [receiver EXCEPT ![n] = r]
  BY DEF Goto
<1> HIDE DEF r
<1>3. ReceiverOK(n, r)
  BY <1>1, AtPlace DEF ReceiverOK
<1>4. /\ ReceiversOK' /\ receiver'[n] = r
      /\ \A k \in Networks : k # n => receiver'[k] = receiver[k]
  BY <1>1, <1>2, <1>3, ReceiverSet
<1> QED BY <1>1, <1>4 DEF r

LEMMA TimesSet ==
    ASSUME TimesOK, NEW n \in Networks, NEW t \in Partial(Clock), times' = [times EXCEPT ![n] = t]
    PROVE  TimesOK' /\ times'[n] = t /\ \A k \in Networks : k # n => times'[k] = times[k]
  BY DEF TimesOK

LEMMA CombosSet ==
    ASSUME CombosOK, NEW n \in Networks, NEW f, ComboOK(n, f), combos' = [combos EXCEPT ![n] = f]
    PROVE  CombosOK' /\ combos'[n] = f /\ \A k \in Networks : k # n => combos'[k] = combos[k]
  BY DEF CombosOK, ComboOK

LEMMA ComboWith ==
    ASSUME NEW n \in Networks, NEW f, ComboOK(n, f), NEW m \in Messages, NEW c \in Combo,
           c.parts \subseteq Parts(n, m), c.left <= Size[n][m] - Cardinality(c.parts)
    PROVE  ComboOK(n, With(f, m, c))
<1>1. With(f, m, c) \in Partial(Combo)
  BY PartialWith DEF ComboOK
<1>2. \A x \in DOMAIN With(f, m, c) : With(f, m, c)[x] = IF x = m THEN c ELSE f[x]
  BY DEF With
<1>3. \A x \in DOMAIN With(f, m, c) : x # m => x \in DOMAIN f
  BY DEF With
<1> QED BY <1>1, <1>2, <1>3 DEF ComboOK

LEMMA ComboWithout ==
    ASSUME NEW n \in Networks, NEW f, ComboOK(n, f), NEW m
    PROVE  ComboOK(n, Without(f, m))
<1>1. Without(f, m) \in Partial(Combo)
  BY PartialWithout DEF ComboOK
<1>2. \A x \in DOMAIN Without(f, m) : Without(f, m)[x] = f[x] /\ x \in DOMAIN f
  BY DEF Without
<1> QED BY <1>1, <1>2 DEF ComboOK

-----------------------------------------------------------------------------
(* One fragment more in the log.                                           *)
LEMMA LoggedFacts ==
    ASSUME LogsOK, now \in Clock, NEW n \in Networks, NEW m \in Messages, NEW i \in Parts(n, m),
           log' = Logged(n, m, i)
    PROVE  /\ LogsOK'
           /\ log'[n][m].came = [log[n][m].came EXCEPT ![i] = @ + 1]
           /\ log'[n][m].first = IF Came(n, m) = {} THEN now ELSE log[n][m].first
           /\ \A k \in Networks, l \in Messages : <<k, l>> # <<n, m>> => log'[k][l] = log[k][l]
<1> DEFINE c == [log[n][m].came EXCEPT ![i] = @ + 1]
           none == \A j \in Parts(n, m) : log[n][m].came[j] = 0
           e == [came |-> c, first |-> IF none THEN now ELSE log[n][m].first]
<1>1. /\ log[n][m].came \in [Parts(n, m) -> Nat] /\ log[n][m].first \in Clock
      /\ \A k \in Networks, l \in Messages :
            log[k][l] \in [came : Counts, first : Clock] /\ log[k][l].came \in [Parts(k, l) -> Nat]
  BY DEF LogsOK
<1>2. none <=> Came(n, m) = {}
  BY <1>1 DEF Came
<1>3. c \in [Parts(n, m) -> Nat]
  BY <1>1
<1>4. c \in Counts
  BY <1>3, PartsFacts DEF Counts
<1> HIDE DEF c, none
<1>5. e \in [came : Counts, first : Clock] /\ e.came = c
      /\ e.first = IF none THEN now ELSE log[n][m].first
  BY <1>1, <1>4
<1>6. log' = [log EXCEPT ![n][m] = e]
  BY DEF Logged, c, none
<1> HIDE DEF e
<1>7. \A k \in Networks, l \in Messages : log'[k][l] = IF <<k, l>> = <<n, m>> THEN e ELSE log[k][l]
  BY <1>6 DEF LogsOK
<1>8. log' \in [Networks -> [Messages -> [came : Counts, first : Clock]]]
  BY <1>5, <1>6 DEF LogsOK
<1>9. LogsOK'
  BY <1>1, <1>3, <1>5, <1>7, <1>8 DEF LogsOK
<1>10. log'[n][m] = e
  BY <1>7
<1> QED BY <1>2, <1>5, <1>7, <1>9, <1>10 DEF c

(* A datagram comes.                                                       *)
Arrives(n, m, i) ==
    /\ receiver[n] = Idle /\ receiver'[n].at # "wait"
    /\ receiver'[n].msg = m /\ receiver'[n].part = i
    /\ \/ /\ Size[n][m] = 1 /\ receiver'[n].at = "route" /\ receiver'[n].parts = {i}
          /\ times' = times
       \/ /\ Size[n][m] > 1 /\ receiver'[n].at = "exist" 
          /\ times'[n] = With(times[n], m, now)
    /\ log' = Logged(n, m, i)
    /\ \A k \in Networks : k # n => receiver'[k] = receiver[k] /\ times'[k] = times[k]
    /\ UNCHANGED <<now, combos, cleaner, queue, forwarded, sender, seen, handed>>

LEMMA ReceiveStep ==
    ASSUME Base, NEW n \in Networks, Receive(n)
    PROVE  Base' /\ \E m \in Messages : \E i \in Parts(n, m) : Arrives(n, m, i)
<1>1. PICK f \in air[n] :
          /\ \/ air' = [air EXCEPT ![n] = @ \ {f}] /\ UNCHANGED repeats
             \/ /\ repeats[n] < MaxRepeats[n]
                /\ repeats' = [repeats EXCEPT ![n] = @ + 1]
                /\ UNCHANGED air
          /\ log' = Logged(n, f[1], f[2])
          /\ \/ /\ Size[n][f[1]] = 1
                /\ receiver' = [receiver EXCEPT ![n] =
                      [at |-> "route", msg |-> f[1], part |-> f[2], parts |-> {f[2]}]]
                /\ UNCHANGED times
             \/ /\ Size[n][f[1]] > 1
                /\ receiver' = [receiver EXCEPT ![n] =
                      [at |-> "exist", msg |-> f[1], part |-> f[2], parts |-> {}]]
                /\ times' = [times EXCEPT ![n] = With(@, f[1], now)]
  BY DEF Receive
<1> DEFINE m == f[1]
           i == f[2]
<1>2. /\ now \in Clock /\ NetworksOK /\ SenderOK
      /\ UNCHANGED <<now, combos, cleaner, queue, forwarded, sender, seen, handed>>
      /\ receiver[n].at = "wait"
  BY DEF Base, Receive
<1>3. f \in Messages \X AllParts /\ f \in Fragments(n)
  BY <1>2 DEF NetworksOK, AirOK
<1>4. m \in Messages /\ i \in Parts(n, m) /\ i \in AllParts
  BY <1>3 DEF Fragments
<1>5. AirOK' /\ RepeatsOK'
  <2>1. AirOK /\ RepeatsOK
    BY <1>2 DEF NetworksOK
  <2>2. AirOK'
    BY <1>1, <2>1 DEF AirOK
  <2>3. RepeatsOK'
    BY <1>1, <2>1, Constants DEF RepeatsOK
  <2> QED BY <2>2, <2>3
<1> HIDE DEF m, i
<1>6. LogsOK' /\ log' = Logged(n, m, i)
  <2>1. log' = Logged(n, m, i)
    BY <1>1 DEF m, i
  <2> QED BY <1>2, <1>4, <2>1, LoggedFacts DEF NetworksOK
<1>7. CombosOK' /\ CleanersOK'
  BY <1>2 DEF NetworksOK, CombosOK, CleanersOK
<1>8. /\ ReceiversOK' /\ TimesOK' /\ receiver'[n].at # "wait"
      /\ receiver'[n].msg = m /\ receiver'[n].part = i
      /\ \/ /\ Size[n][m] = 1 /\ receiver'[n].at = "route" /\ receiver'[n].parts = {i}
            /\ times' = times
         \/ /\ Size[n][m] > 1 /\ receiver'[n].at = "exist"
            /\ times'[n] = With(times[n], m, now)
      /\ \A k \in Networks : k # n => receiver'[k] = receiver[k] /\ times'[k] = times[k]
  <2>1. ASSUME NEW at \in {"route", "exist"}, NEW p \in {{}, {i}},
               receiver' = [receiver EXCEPT ![n] =
                               [at |-> at, msg |-> m, part |-> i, parts |-> p]]
        PROVE  /\ ReceiversOK' /\ receiver'[n].at = at /\ receiver'[n].msg = m
               /\ receiver'[n].part = i /\ receiver'[n].parts = p
               /\ \A k \in Networks : k # n => receiver'[k] = receiver[k]
    <3> DEFINE r == [at |-> at, msg |-> m, part |-> i, parts |-> p]
    <3>1. r \in Busy /\ r.at = at /\ r.msg = m /\ r.part = i /\ r.parts = p
      BY <1>4 DEF Busy, Places
    <3> HIDE DEF r
    <3>2. ReceiverOK(n, r)
      BY <1>4, <3>1 DEF ReceiverOK
    <3>3. receiver' = [receiver EXCEPT ![n] = r] /\ ReceiversOK
      BY <1>2, <2>1 DEF r, NetworksOK
    <3> QED BY <3>1, <3>2, <3>3, ReceiverSet
  <2>2. CASE /\ Size[n][m] = 1
             /\ receiver' = [receiver EXCEPT ![n] =
                   [at |-> "route", msg |-> m, part |-> i, parts |-> {i}]]
             /\ UNCHANGED times
    BY <1>2, <2>1, <2>2 DEF NetworksOK, TimesOK
  <2>3. CASE /\ Size[n][m] > 1
             /\ receiver' = [receiver EXCEPT ![n] =
                   [at |-> "exist", msg |-> m, part |-> i, parts |-> {}]]
             /\ times' = [times EXCEPT ![n] = With(@, m, now)]
    <3>1. TimesOK /\ times[n] \in Partial(Clock)
      BY <1>2 DEF NetworksOK, TimesOK
    <3>2. With(times[n], m, now) \in Partial(Clock)
      BY <1>2, <1>4, <3>1, PartialWith
    <3>3. /\ TimesOK' /\ times'[n] = With(times[n], m, now)
          /\ \A k \in Networks : k # n => times'[k] = times[k]
      BY <2>3, <3>1, <3>2, TimesSet
    <3> QED BY <2>1, <2>3, <3>3
  <2> QED BY <1>1, <2>2, <2>3 DEF m, i
<1>9. SenderOK'
  BY <1>2 DEF SenderOK
<1>10. receiver[n] = Idle
  BY <1>2, NotHeld DEF NetworksOK
<1>11. Base'
  BY <1>2, <1>5, <1>6, <1>7, <1>8, <1>9 DEF Base, NetworksOK
<1>12. Arrives(n, m, i)
  BY <1>2, <1>6, <1>8, <1>10 DEF Arrives
<1> QED BY <1>4, <1>11, <1>12

-----------------------------------------------------------------------------
(* A step on message m of network n leaves the others as they are.         *)
Frame(n, m) ==
    /\ now' = now /\ log'[n][m] = log[n][m]
    /\ m \in DOMAIN combos'[n] <=> m \in DOMAIN combos[n]
    /\ m \in DOMAIN combos[n] => combos'[n][m] = combos[n][m]
    /\ m \in DOMAIN times'[n] <=> m \in DOMAIN times[n]
    /\ m \in DOMAIN times[n] => times'[n][m] = times[n][m]
    /\ receiver'[n] = receiver[n] \/ (~Holds(n, m) /\ ~Holds(n, m)')
    /\ cleaner'[n] = cleaner[n] \/ (~Cleans(n, m) /\ ~Cleans(n, m)')

Only(n, m) == \A k \in Networks, l \in Messages : <<k, l>> # <<n, m>> => Frame(k, l)

LEMMA FrameKeeps ==
    ASSUME NEW n \in Networks, NEW m \in Messages, Frame(n, m), Dated(n, m), Counted(n, m), Stored(n, m)
    PROVE  Dated(n, m)' /\ Counted(n, m)' /\ Stored(n, m)'
<1>1. Came(n, m)' = Came(n, m) /\ Twice(n, m)' = Twice(n, m)
  BY DEF Frame, Came, Twice
<1>2. Holds(n, m)' = Holds(n, m) /\ InHand(n, m)' = InHand(n, m) /\ Cleans(n, m)' = Cleans(n, m)
  BY DEF Frame, Holds, InHand, Cleans
<1>3. Holds(n, m) \/ Holds(n, m)' => receiver'[n] = receiver[n]
  BY <1>2 DEF Frame
<1>4. Dated(n, m)'
  BY <1>1, <1>2, <1>3 DEF Frame, Dated
<1>5. Counted(n, m)'
  BY <1>1, <1>2, <1>3 DEF Frame, Counted, InHand
<1>6. \A s : Has(n, m, s)' = Has(n, m, s)
  BY DEF Frame, Has
<1>7. Stored(n, m)'
  <2>1. InHand(n, m) => Holds(n, m)
    BY DEF InHand
  <2> QED BY <1>1, <1>2, <1>3, <1>6, <2>1 DEF Frame, Stored
<1> QED BY <1>4, <1>5, <1>7

LEMMA OnlyKeeps ==
    ASSUME Booked, NEW n \in Networks, NEW m \in Messages, Only(n, m),
           Dated(n, m)' /\ Counted(n, m)' /\ Stored(n, m)'
    PROVE  Booked'
<1> SUFFICES ASSUME NEW k \in Networks, NEW l \in Messages
             PROVE  Dated(k, l)' /\ Counted(k, l)' /\ Stored(k, l)'
  BY DEF Booked
<1>1. CASE k = n /\ l = m
  BY <1>1
<1>2. CASE ~(k = n /\ l = m)
  BY <1>2, FrameKeeps DEF Booked, Only
<1> QED BY <1>1, <1>2

(* The steps of combineFragment, by what they do.                          *)
Quiet == UNCHANGED <<now, air, repeats, cleaner, queue, forwarded, sender, seen, handed, log>>

LEMMA QuietBase == ASSUME Base, Quiet, ReceiversOK', TimesOK', CombosOK' PROVE Base'
<1>1. AirOK' /\ RepeatsOK' /\ CleanersOK' /\ LogsOK' /\ SenderOK' /\ now' \in Clock
  BY DEF Base, Quiet, NetworksOK, AirOK, RepeatsOK, CleanersOK, LogsOK, SenderOK
<1> QED BY <1>1 DEF Base, NetworksOK

LEMMA BaseParts == ASSUME Base PROVE ReceiversOK /\ TimesOK /\ CombosOK /\ CleanersOK /\ LogsOK /\ now \in Clock
  BY DEF Base, NetworksOK

LEMMA KeyExistStep ==
    ASSUME Base, NEW n \in Networks, KeyExist(n), Quiet
    PROVE  /\ Base' /\ Only(n, receiver[n].msg)
           /\ receiver[n].at = "exist" /\ receiver[n].msg \in Messages
           /\ receiver'[n].at = IF receiver[n].msg \in DOMAIN combos[n] THEN "store" ELSE "insert"
           /\ receiver'[n].msg = receiver[n].msg /\ receiver'[n].part = receiver[n].part
           /\ times' = times /\ combos' = combos
<1> DEFINE place == IF receiver[n].msg \in DOMAIN combos[n] THEN "store" ELSE "insert"
<1>1. /\ receiver[n].at = "exist" /\ receiver[n].at \in Places /\ place \in Places
      /\ Goto(n, place) /\ times' = times /\ combos' = combos
  BY DEF KeyExist, Places
<1> HIDE DEF place
<1>2. /\ ReceiversOK' /\ receiver'[n].at = place /\ receiver'[n].msg = receiver[n].msg
      /\ receiver'[n].part = receiver[n].part
      /\ \A k \in Networks : k # n => receiver'[k] = receiver[k]
  BY <1>1, BaseParts, GotoStep
<1>3. Base'
  <2>1. TimesOK' /\ CombosOK'
    BY <1>1, BaseParts DEF TimesOK, CombosOK
  <2> QED BY <1>2, <2>1, QuietBase
<1>4. Only(n, receiver[n].msg)
  BY <1>1, <1>2 DEF Only, Frame, Holds, Quiet
<1>5. receiver[n].msg \in Messages
  BY <1>1, BaseParts, AtPlace
<1> QED BY <1>1, <1>2, <1>3, <1>4, <1>5 DEF place

(* InsertFirst and StoreThrows write a fresh entry and go back to wait.    *)
LEMMA EntryStep ==
    ASSUME Base, NEW n \in Networks, receiver[n].at \in Places, Wait(n), Quiet, times' = times,
           NEW c \in Combo, c.parts \subseteq Parts(n, receiver[n].msg),
           c.left <= Size[n][receiver[n].msg] - Cardinality(c.parts),
           combos' = [combos EXCEPT ![n] = With(@, receiver[n].msg, c)]
    PROVE  /\ Base' /\ Only(n, receiver[n].msg)
           /\ receiver'[n] = Idle /\ receiver[n].msg \in Messages
           /\ receiver[n].msg \in DOMAIN combos'[n] /\ combos'[n][receiver[n].msg] = c
<1> DEFINE m == receiver[n].msg
<1>1. m \in Messages
  BY BaseParts, AtPlace
<1> HIDE DEF m
<1>2. /\ ReceiversOK' /\ receiver'[n] = Idle
      /\ \A k \in Networks : k # n => receiver'[k] = receiver[k]
  BY BaseParts, WaitStep
<1>3. /\ CombosOK' /\ combos'[n] = With(combos[n], m, c)
      /\ \A k \in Networks : k # n => combos'[k] = combos[k]
  <2>1. CombosOK /\ ComboOK(n, combos[n])
    BY BaseParts DEF CombosOK
  <2>2. ComboOK(n, With(combos[n], m, c))
    BY <1>1, <2>1, ComboWith DEF m
  <2>3. combos' = [combos EXCEPT ![n] = With(combos[n], m, c)]
    BY DEF m
  <2> QED BY <2>1, <2>2, <2>3, CombosSet
<1>4. Base'
  <2>1. TimesOK'
    BY BaseParts DEF TimesOK
  <2> QED BY <1>2, <1>3, <2>1, QuietBase
<1>5. /\ m \in DOMAIN combos'[n] /\ combos'[n][m] = c
      /\ DOMAIN combos'[n] = DOMAIN combos[n] \cup {m}
      /\ \A l \in DOMAIN combos[n] : l # m => combos'[n][l] = combos[n][l]
  BY <1>3 DEF With
<1>6. Only(n, m)
  BY <1>2, <1>3, <1>5 DEF Only, Frame, Holds, Quiet, Idle, m
<1> QED BY <1>1, <1>2, <1>4, <1>5, <1>6 DEF m

LEMMA InsertStep ==
    ASSUME Base, NEW n \in Networks, InsertFirst(n), Quiet
    PROVE  /\ Base' /\ Only(n, receiver[n].msg)
           /\ receiver[n].at = "insert" /\ receiver[n].msg \in Messages
           /\ receiver'[n] = Idle /\ times' = times
           /\ receiver[n].msg \in DOMAIN combos'[n]
           /\ combos'[n][receiver[n].msg] =
                 [left |-> Size[n][receiver[n].msg] - 1, parts |-> {receiver[n].part}]
<1> DEFINE m == receiver[n].msg
           c == [left |-> Size[n][m] - 1, parts |-> {receiver[n].part}]
<1>1. /\ receiver[n].at = "insert" /\ receiver[n].at \in Places /\ Wait(n) /\ times' = times
      /\ combos' = [combos EXCEPT ![n] = With(@, m, c)]
  BY DEF InsertFirst, Places
<1>2. m \in Messages /\ receiver[n].part \in Parts(n, m) /\ receiver[n].part \in AllParts
  BY <1>1, BaseParts, AtPlace, PartsFacts
<1>3. Size[n][m] \in Nat /\ Cardinality({receiver[n].part}) = 1
  BY <1>2, Constants, FS_Singleton
<1>4. c \in Combo /\ c.parts \subseteq Parts(n, m) /\ c.left <= Size[n][m] - Cardinality(c.parts)
  BY <1>2, <1>3 DEF Combo
<1> HIDE DEF c
<1>5. /\ Base' /\ Only(n, m) /\ receiver'[n] = Idle
      /\ m \in DOMAIN combos'[n] /\ combos'[n][m] = c
  BY <1>1, <1>4, EntryStep
<1> QED BY <1>1, <1>2, <1>5 DEF c

LEMMA StoreThrowsStep ==
    ASSUME Base, NEW n \in Networks, StoreThrows(n), Quiet
    PROVE  /\ Base' /\ Only(n, receiver[n].msg)
           /\ receiver[n].at = "store" /\ receiver[n].msg \in Messages /\ ~Usable(n)
           /\ receiver'[n] = Idle /\ times' = times
           /\ receiver[n].msg \in DOMAIN combos'[n]
           /\ combos'[n][receiver[n].msg] = [left |-> 0, parts |-> {}]
<1> DEFINE m == receiver[n].msg
           c == [left |-> 0, parts |-> {}]
<1>1. /\ receiver[n].at = "store" /\ receiver[n].at \in Places /\ ~Usable(n) /\ Wait(n)
      /\ times' = times
      /\ combos' = [combos EXCEPT ![n] = With(@, m, c)]
  BY DEF StoreThrows, Places
<1>2. m \in Messages
  BY <1>1, BaseParts, AtPlace
<1>3. Size[n][m] \in Nat /\ Cardinality({}) = 0
  BY <1>2, Constants, FS_EmptySet
<1>4. c \in Combo /\ c.parts \subseteq Parts(n, m) /\ c.left <= Size[n][m] - Cardinality(c.parts)
  BY <1>3 DEF Combo
<1> HIDE DEF c
<1>5. /\ Base' /\ Only(n, m) /\ receiver'[n] = Idle
      /\ m \in DOMAIN combos'[n] /\ combos'[n][m] = c
  BY <1>1, <1>4, EntryStep
<1> QED BY <1>1, <1>2, <1>5 DEF c

LEMMA CardinalityAdd ==
    ASSUME NEW n \in Networks, NEW m \in Messages, NEW s, s \subseteq Parts(n, m), NEW i \in Parts(n, m)
    PROVE  /\ Cardinality(s) \in Nat /\ Cardinality(s \cup {i}) \in Nat
           /\ Cardinality(s \cup {i}) <= Cardinality(s) + 1
           /\ i \notin s => Cardinality(s \cup {i}) = Cardinality(s) + 1
           /\ Cardinality(s) = Size[n][m] => s = Parts(n, m)
<1>1. IsFiniteSet(s)
  BY PartsFacts, FS_Subset
<1>2. Cardinality(s) \in Nat
  BY <1>1, FS_CardinalityType
<1>3. /\ IsFiniteSet(s \cup {i})
      /\ Cardinality(s \cup {i}) = IF i \in s THEN Cardinality(s) ELSE Cardinality(s) + 1
  BY <1>1, FS_AddElement
<1>4. Cardinality(s) = Size[n][m] => s = Parts(n, m)
  BY PartsFacts, FS_Subset
<1> QED BY <1>2, <1>3, <1>4

LEMMA StoreStep ==
    ASSUME Base, NEW n \in Networks, Store(n), Quiet
    PROVE  /\ Base' /\ Only(n, receiver[n].msg)
           /\ receiver[n].at = "store" /\ receiver[n].msg \in Messages
           /\ receiver[n].msg \in DOMAIN combos[n] /\ combos[n][receiver[n].msg].parts # {}
           /\ combos[n][receiver[n].msg] \in Combo
           /\ receiver[n].part \in Parts(n, receiver[n].msg)
           /\ combos[n][receiver[n].msg].parts \subseteq Parts(n, receiver[n].msg)
           /\ receiver'[n].at = "combine" /\ receiver'[n].msg = receiver[n].msg
           /\ receiver'[n].part = receiver[n].part
           /\ times' = times /\ receiver[n].msg \in DOMAIN combos'[n]
           /\ combos'[n][receiver[n].msg] =
                 [left |-> combos[n][receiver[n].msg].left - 1,
                  parts |-> combos[n][receiver[n].msg].parts \cup {receiver[n].part}]
<1> DEFINE m == receiver[n].msg
           e == combos[n][m]
           c == [left |-> e.left - 1, parts |-> e.parts \cup {receiver[n].part}]
<1>1. /\ receiver[n].at = "store" /\ receiver[n].at \in Places /\ Usable(n)
      /\ Goto(n, "combine") /\ "combine" \in Places /\ times' = times
      /\ combos' = [combos EXCEPT ![n][m] = c]
  BY DEF Store, Places
<1>2. /\ m \in Messages /\ receiver[n].part \in Parts(n, m) /\ receiver[n].part \in AllParts
  BY <1>1, BaseParts, AtPlace, PartsFacts
<1>3. m \in DOMAIN combos[n] /\ e.parts # {}
  BY <1>1 DEF Usable
<1>4. ComboOK(n, combos[n]) /\ CombosOK
  BY BaseParts DEF CombosOK
<1>5. e \in Combo /\ e.parts \subseteq Parts(n, m) /\ e.left <= Size[n][m] - Cardinality(e.parts)
  <2>1. \A x \in DOMAIN combos[n] : combos[n][x] \in Combo
    BY <1>4, PartialFacts DEF ComboOK
  <2> QED BY <1>3, <1>4, <2>1 DEF ComboOK
<1>6. Size[n][m] \in Nat /\ e.left \in Int
  BY <1>2, <1>5, Constants DEF Combo
<1>7. /\ Cardinality(e.parts) \in Nat /\ Cardinality(c.parts) \in Nat
      /\ Cardinality(c.parts) <= Cardinality(e.parts) + 1
  BY <1>2, <1>5, CardinalityAdd
<1>8. c \in Combo /\ c.parts \subseteq Parts(n, m) /\ c.left <= Size[n][m] - Cardinality(c.parts)
  <2>1. c.left = e.left - 1 /\ c.parts = e.parts \cup {receiver[n].part}
    OBVIOUS
  <2>2. e.parts \subseteq AllParts
    BY <1>5 DEF Combo
  <2>3. c \in Combo
    BY <1>2, <1>6, <2>2 DEF Combo
  <2> HIDE DEF c, e
  <2> QED BY <1>2, <1>5, <1>6, <1>7, <2>1, <2>3
<1> HIDE DEF c
<1>9. combos' = [combos EXCEPT ![n] = With(combos[n], m, c)]
  <2>1. [combos[n] EXCEPT ![m] = c] = With(combos[n], m, c)
    <3>1. combos[n] = [x \in DOMAIN combos[n] |-> combos[n][x]]
      BY <1>4, PartialFacts DEF ComboOK
    <3> QED BY <1>3, <3>1 DEF With
  <2>2. combos' = [combos EXCEPT ![n] = [combos[n] EXCEPT ![m] = c]]
    BY <1>1
  <2> QED BY <2>1, <2>2
<1>10. /\ CombosOK' /\ combos'[n] = With(combos[n], m, c)
       /\ \A k \in Networks : k # n => combos'[k] = combos[k]
  <2>1. ComboOK(n, With(combos[n], m, c))
    BY <1>2, <1>4, <1>8, ComboWith
  <2> QED BY <1>4, <1>9, <2>1, CombosSet
<1>11. /\ ReceiversOK' /\ receiver'[n].at = "combine" /\ receiver'[n].msg = m
       /\ receiver'[n].part = receiver[n].part
       /\ \A k \in Networks : k # n => receiver'[k] = receiver[k]
  BY <1>1, BaseParts, GotoStep
<1>12. Base'
  <2>1. TimesOK'
    BY <1>1, BaseParts DEF TimesOK
  <2> QED BY <1>10, <1>11, <2>1, QuietBase
<1>13. /\ m \in DOMAIN combos'[n] /\ combos'[n][m] = c
       /\ DOMAIN combos'[n] = DOMAIN combos[n] \cup {m}
       /\ \A l \in DOMAIN combos[n] : l # m => combos'[n][l] = combos[n][l]
  BY <1>10 DEF With
<1>14. Only(n, m)
  <2> HIDE DEF m
  <2> QED BY <1>1, <1>10, <1>11, <1>13 DEF Only, Frame, Holds, Quiet, m
<1> QED BY <1>1, <1>2, <1>3, <1>5, <1>11, <1>12, <1>13, <1>14 DEF c

LEMMA CombineStep ==
    ASSUME Base, NEW n \in Networks, Combine(n), Quiet
    PROVE  /\ Base' /\ Only(n, receiver[n].msg)
           /\ receiver[n].at = "combine" /\ receiver[n].msg \in Messages
           /\ receiver[n].msg \in DOMAIN combos[n] /\ combos[n][receiver[n].msg].parts # {}
           /\ combos[n][receiver[n].msg].left = 0
           /\ combos[n][receiver[n].msg].parts \subseteq Parts(n, receiver[n].msg)
           /\ receiver[n].part \in Parts(n, receiver[n].msg)
           /\ receiver'[n].at = "forget" /\ receiver'[n].msg = receiver[n].msg
           /\ receiver'[n].part = receiver[n].part
           /\ receiver'[n].parts = combos[n][receiver[n].msg].parts
           /\ times' = times /\ receiver[n].msg \notin DOMAIN combos'[n]
<1> DEFINE m == receiver[n].msg
           p == combos[n][m].parts
           r == [receiver[n] EXCEPT !.at = "forget", !.parts = p]
<1>1. /\ receiver[n].at = "combine" /\ receiver[n].at \in Places /\ "forget" \in Places /\ Together(n)
      /\ receiver' = [receiver EXCEPT ![n].at = "forget", ![n].parts = p]
      /\ combos' = [combos EXCEPT ![n] = Without(combos[n], m)] /\ times' = times
  BY DEF Combine, Places
<1>2. m \in DOMAIN combos[n] /\ p # {} /\ combos[n][m].left = 0
  BY <1>1 DEF Together, Usable
<1>3. ComboOK(n, combos[n]) /\ CombosOK
  BY BaseParts DEF CombosOK
<1>4. p \subseteq Parts(n, m) /\ p \subseteq AllParts
  <2>1. \A x \in DOMAIN combos[n] : combos[n][x] \in Combo
    BY <1>3, PartialFacts DEF ComboOK
  <2> QED BY <1>2, <1>3, <2>1 DEF ComboOK, Combo
<1> HIDE DEF p
<1>5. /\ receiver[n] \in Busy /\ m \in Messages /\ receiver[n].part \in Parts(n, m)
  BY <1>1, BaseParts, AtPlace
<1>6. /\ r \in Busy /\ r.at = "forget" /\ r.msg = m /\ r.part = receiver[n].part /\ r.parts = p
  BY <1>1, <1>4, <1>5 DEF Busy
<1>7. receiver' = [receiver EXCEPT ![n] = r]
  BY <1>1
<1> HIDE DEF r, m
<1>8. ReceiverOK(n, r)
  BY <1>4, <1>5, <1>6 DEF ReceiverOK
<1>9. /\ ReceiversOK' /\ receiver'[n] = r
      /\ \A k \in Networks : k # n => receiver'[k] = receiver[k]
  BY <1>6, <1>7, <1>8, BaseParts, ReceiverSet
<1>10. /\ CombosOK' /\ combos'[n] = Without(combos[n], m)
       /\ \A k \in Networks : k # n => combos'[k] = combos[k]
  <2>1. ComboOK(n, Without(combos[n], m))
    BY <1>3, ComboWithout
  <2> QED BY <1>1, <1>3, <2>1, CombosSet
<1>11. Base'
  <2>1. TimesOK'
    BY <1>1, BaseParts DEF TimesOK
  <2> QED BY <1>9, <1>10, <2>1, QuietBase
<1>12. /\ m \notin DOMAIN combos'[n]
       /\ DOMAIN combos'[n] = DOMAIN combos[n] \ {m}
       /\ \A l \in DOMAIN combos[n] : l # m => combos'[n][l] = combos[n][l]
  BY <1>10 DEF Without
<1>13. Only(n, m)
  BY <1>1, <1>6, <1>9, <1>10, <1>12 DEF Only, Frame, Holds, Quiet, m
<1> QED BY <1>1, <1>2, <1>4, <1>5, <1>6, <1>9, <1>11, <1>12, <1>13 DEF p, m

LEMMA StillIncompleteStep ==
    ASSUME Base, NEW n \in Networks, StillIncomplete(n), Quiet
    PROVE  /\ Base' /\ Only(n, receiver[n].msg)
           /\ receiver[n].at = "combine" /\ receiver[n].msg \in Messages /\ ~Together(n)
           /\ receiver'[n] = Idle /\ times' = times /\ combos' = combos
<1>1. /\ receiver[n].at = "combine" /\ receiver[n].at \in Places /\ ~Together(n)
      /\ Wait(n) /\ times' = times /\ combos' = combos
  BY DEF StillIncomplete, Places
<1>2. /\ ReceiversOK' /\ receiver'[n] = Idle
      /\ \A k \in Networks : k # n => receiver'[k] = receiver[k]
  BY <1>1, BaseParts, WaitStep
<1>3. Base'
  <2>1. TimesOK' /\ CombosOK'
    BY <1>1, BaseParts DEF TimesOK, CombosOK
  <2> QED BY <1>2, <2>1, QuietBase
<1>4. Only(n, receiver[n].msg)
  BY <1>1, <1>2 DEF Only, Frame, Holds, Quiet, Idle
<1>5. receiver[n].msg \in Messages
  BY <1>1, BaseParts, AtPlace
<1> QED BY <1>1, <1>2, <1>3, <1>4, <1>5

LEMMA ForgetTimeStep ==
    ASSUME Base, NEW n \in Networks, ForgetTime(n), Quiet
    PROVE  /\ Base' /\ Only(n, receiver[n].msg)
           /\ receiver[n].at = "forget" /\ receiver[n].msg \in Messages
           /\ receiver'[n].at = "route" /\ receiver'[n].msg = receiver[n].msg
           /\ receiver'[n].part = receiver[n].part /\ receiver'[n].parts = receiver[n].parts
           /\ combos' = combos /\ receiver[n].msg \notin DOMAIN times'[n]
<1> DEFINE m == receiver[n].msg
<1>1. /\ receiver[n].at = "forget" /\ receiver[n].at \in Places /\ "route" \in Places
      /\ times' = [times EXCEPT ![n] = Without(times[n], m)] /\ Goto(n, "route") /\ combos' = combos
  BY DEF ForgetTime, Places
<1>2. /\ ReceiversOK' /\ receiver'[n].at = "route" /\ receiver'[n].msg = receiver[n].msg
      /\ receiver'[n].part = receiver[n].part /\ receiver'[n].parts = receiver[n].parts
      /\ \A k \in Networks : k # n => receiver'[k] = receiver[k]
  BY <1>1, BaseParts, GotoStep
<1> HIDE DEF m
<1>3. /\ TimesOK' /\ times'[n] = Without(times[n], m)
      /\ \A k \in Networks : k # n => times'[k] = times[k]
  <2>1. TimesOK /\ times[n] \in Partial(Clock)
    BY BaseParts DEF TimesOK
  <2>2. Without(times[n], m) \in Partial(Clock)
    BY <2>1, PartialWithout
  <2> QED BY <1>1, <2>1, <2>2, TimesSet
<1>4. /\ m \notin DOMAIN times'[n]
      /\ DOMAIN times'[n] = DOMAIN times[n] \ {m}
      /\ \A l \in DOMAIN times[n] : l # m => times'[n][l] = times[n][l]
  BY <1>3 DEF Without
<1>5. Base'
  <2>1. CombosOK'
    BY <1>1, BaseParts DEF CombosOK
  <2> QED BY <1>2, <1>3, <2>1, QuietBase
<1>6. Only(n, m)
  BY <1>1, <1>2, <1>3, <1>4 DEF Only, Frame, Holds, Quiet, m
<1>7. receiver[n].msg \in Messages
  BY <1>1, BaseParts, AtPlace
<1> QED BY <1>1, <1>2, <1>4, <1>5, <1>6, <1>7 DEF m

LEMMA RouteStep ==
    ASSUME Base, NEW n \in Networks, Route(n)
    PROVE  /\ Base' /\ Only(n, receiver[n].msg)
           /\ receiver[n].at = "route" /\ receiver[n].msg \in Messages
           /\ receiver'[n] = Idle /\ times' = times /\ combos' = combos
           /\ \/ queue' = Append(queue, [msg |-> receiver[n].msg, net |-> n, parts |-> receiver[n].parts])
              \/ queue' = queue
           /\ UNCHANGED <<now, sender, seen, handed, log>>
<1> DEFINE m == receiver[n].msg
           d == [msg |-> m, net |-> n, parts |-> receiver[n].parts]
<1>1. /\ receiver[n].at = "route" /\ receiver[n].at \in Places /\ Wait(n)
      /\ \/ m \in Mine /\ queue' = Append(queue, d) /\ forwarded' = forwarded
         \/ m \notin Mine /\ forwarded' \in {forwarded, forwarded \cup {m}} /\ queue' = queue
      /\ UNCHANGED <<now, air, repeats, times, combos, cleaner, sender, seen, handed, log>>
  BY DEF Route, Places
<1>2. /\ ReceiversOK' /\ receiver'[n] = Idle
      /\ \A k \in Networks : k # n => receiver'[k] = receiver[k]
  BY <1>1, BaseParts, WaitStep
<1>3. m \in Messages /\ d \in Payload
  <2>1. m \in Messages /\ receiver[n].parts \subseteq AllParts
    BY <1>1, BaseParts, AtPlace DEF Busy
  <2> QED BY <2>1 DEF Payload
<1> HIDE DEF m, d
<1>4. SenderOK'
  <2>1. SenderOK
    BY DEF Base
  <2>2. queue' \in Seq(Payload) /\ forwarded' \subseteq Messages
    BY <1>1, <1>3, <2>1, AppendProperties DEF SenderOK
  <2> QED BY <1>1, <2>1, <2>2 DEF SenderOK
<1>5. Base'
  <2>1. NetworksOK'
    BY <1>1, <1>2 DEF Base, NetworksOK, AirOK, RepeatsOK, TimesOK, CombosOK, CleanersOK, LogsOK
  <2> QED BY <1>1, <1>4, <2>1 DEF Base
<1>6. Only(n, m)
  BY <1>1, <1>2 DEF Only, Frame, Holds, Idle, m
<1> QED BY <1>1, <1>2, <1>3, <1>5, <1>6 DEF m, d

-----------------------------------------------------------------------------
(* The steps of the cleaning.                                              *)
Aside == UNCHANGED <<now, air, repeats, receiver, queue, forwarded, sender, seen, handed, log>>

LEMMA AsideBase == ASSUME Base, Aside, CleanersOK', TimesOK', CombosOK' PROVE Base'
<1>1. AirOK' /\ RepeatsOK' /\ ReceiversOK' /\ LogsOK' /\ SenderOK' /\ now' \in Clock
  BY DEF Base, Aside, NetworksOK, AirOK, RepeatsOK, ReceiversOK, LogsOK, SenderOK
<1> QED BY <1>1 DEF Base, NetworksOK

LEMMA SearchStep ==
    ASSUME Base, NEW n \in Networks, Search(n), Aside
    PROVE  Base' /\ \E m \in Messages :
              /\ Only(n, m) /\ m \in DOMAIN times[n] /\ times[n][m] < now - ClearTime
              /\ cleaner'[n].key = m /\ times' = times /\ combos' = combos
<1>1. PICK m \in Old(times[n], ClearTime) :
          cleaner' = [cleaner EXCEPT ![n] = [at |-> "erase", key |-> m]]
  BY DEF Search
<1> DEFINE c == [at |-> "erase", key |-> m]
<1>2. m \in DOMAIN times[n] /\ times[n][m] < now - ClearTime
  BY DEF Old
<1>3. m \in Messages
  BY <1>2, BaseParts, PartialFacts DEF TimesOK
<1>4. c \in Cleaning /\ c.key = m
  BY <1>3 DEF Cleaning
<1> HIDE DEF c
<1>5. /\ CleanersOK' /\ cleaner'[n] = c
      /\ \A k \in Networks : k # n => cleaner'[k] = cleaner[k]
  BY <1>1, <1>4, BaseParts DEF CleanersOK, c
<1>6. times' = times /\ combos' = combos /\ cleaner[n].at = "search"
  BY DEF Search
<1>7. Base'
  <2>1. TimesOK' /\ CombosOK'
    BY <1>6, BaseParts DEF TimesOK, CombosOK
  <2> QED BY <1>5, <2>1, AsideBase
<1>8. Only(n, m)
  BY <1>4, <1>5, <1>6 DEF Only, Frame, Cleans, Aside
<1> QED BY <1>2, <1>3, <1>4, <1>5, <1>6, <1>7, <1>8

LEMMA CleanerKey ==
    ASSUME CleanersOK, NEW n \in Networks, cleaner[n].at # "search"
    PROVE  cleaner[n] \in Cleaning /\ cleaner[n].key \in Messages
  BY DEF CleanersOK, Searching, Cleaning

LEMMA EraseComboStep ==
    ASSUME Base, NEW n \in Networks, EraseCombo(n), Aside
    PROVE  /\ Base' /\ Only(n, cleaner[n].key)
           /\ cleaner[n].key \in Messages /\ Cleans(n, cleaner[n].key)
           /\ cleaner'[n].key = cleaner[n].key /\ times' = times
           /\ cleaner[n].key \notin DOMAIN combos'[n]
<1> DEFINE m == cleaner[n].key
           c == [cleaner[n] EXCEPT !.at = "forget"]
<1>1. /\ cleaner[n].at = "erase" /\ combos' = [combos EXCEPT ![n] = Without(combos[n], m)]
      /\ cleaner' = [cleaner EXCEPT ![n] = c] /\ times' = times
  BY DEF EraseCombo
<1>2. cleaner[n] \in Cleaning /\ m \in Messages
  BY <1>1, BaseParts, CleanerKey
<1>3. c \in Cleaning /\ c.key = m
  BY <1>2 DEF Cleaning
<1> HIDE DEF c, m
<1>4. /\ CleanersOK' /\ cleaner'[n] = c
      /\ \A k \in Networks : k # n => cleaner'[k] = cleaner[k]
  BY <1>1, <1>3, BaseParts DEF CleanersOK
<1>5. /\ CombosOK' /\ combos'[n] = Without(combos[n], m)
      /\ \A k \in Networks : k # n => combos'[k] = combos[k]
  <2>1. CombosOK /\ ComboOK(n, combos[n])
    BY BaseParts DEF CombosOK
  <2>2. ComboOK(n, Without(combos[n], m))
    BY <2>1, ComboWithout
  <2> QED BY <1>1, <2>1, <2>2, CombosSet
<1>6. /\ m \notin DOMAIN combos'[n]
      /\ DOMAIN combos'[n] = DOMAIN combos[n] \ {m}
      /\ \A l \in DOMAIN combos[n] : l # m => combos'[n][l] = combos[n][l]
  BY <1>5 DEF Without
<1>7. Base'
  <2>1. TimesOK'
    BY <1>1, BaseParts DEF TimesOK
  <2> QED BY <1>4, <1>5, <2>1, AsideBase
<1>8. Only(n, m)
  BY <1>1, <1>3, <1>4, <1>5, <1>6 DEF Only, Frame, Cleans, Aside, m
<1> QED BY <1>1, <1>2, <1>3, <1>4, <1>6, <1>7, <1>8 DEF m, Cleans

LEMMA EraseTimeStep ==
    ASSUME Base, NEW n \in Networks, EraseTime(n), Aside
    PROVE  /\ Base' /\ Only(n, cleaner[n].key)
           /\ cleaner[n].key \in Messages /\ Cleans(n, cleaner[n].key)
           /\ cleaner'[n].at = "search" /\ combos' = combos
           /\ cleaner[n].key \notin DOMAIN times'[n]
<1> DEFINE m == cleaner[n].key
<1>1. /\ cleaner[n].at = "forget" /\ times' = [times EXCEPT ![n] = Without(times[n], m)]
      /\ cleaner' = [cleaner EXCEPT ![n] = Searching] /\ combos' = combos
  BY DEF EraseTime, Searching
<1>2. m \in Messages
  BY <1>1, BaseParts, CleanerKey
<1> HIDE DEF m
<1>3. /\ CleanersOK' /\ cleaner'[n] = Searching
      /\ \A k \in Networks : k # n => cleaner'[k] = cleaner[k]
  BY <1>1, BaseParts DEF CleanersOK
<1>4. /\ TimesOK' /\ times'[n] = Without(times[n], m)
      /\ \A k \in Networks : k # n => times'[k] = times[k]
  <2>1. TimesOK /\ times[n] \in Partial(Clock)
    BY BaseParts DEF TimesOK
  <2>2. Without(times[n], m) \in Partial(Clock)
    BY <2>1, PartialWithout
  <2> QED BY <1>1, <2>1, <2>2, TimesSet
<1>5. /\ m \notin DOMAIN times'[n]
      /\ DOMAIN times'[n] = DOMAIN times[n] \ {m}
      /\ \A l \in DOMAIN times[n] : l # m => times'[n][l] = times[n][l]
  BY <1>4 DEF Without
<1>6. Base'
  <2>1. CombosOK'
    BY <1>1, BaseParts DEF CombosOK
  <2> QED BY <1>3, <1>4, <2>1, AsideBase
<1>7. Only(n, m)
  BY <1>1, <1>3, <1>4, <1>5 DEF Only, Frame, Cleans, Aside, Searching, m
<1> QED BY <1>1, <1>2, <1>3, <1>5, <1>6, <1>7 DEF m, Cleans, Searching

-----------------------------------------------------------------------------
(* The steps of ProcSender, of its cleaning and of the clock.              *)
LEMMA NetBase ==
    ASSUME Base, UNCHANGED netVars, now' \in Clock, SenderOK'
    PROVE  Base'
<1>1. NetworksOK'
  BY DEF Base, netVars, NetworksOK, AirOK, RepeatsOK, ReceiversOK, TimesOK, CombosOK, CleanersOK, LogsOK
<1> QED BY <1>1 DEF Base

LEMMA SenderAt ==
    ASSUME SenderOK, sender.at # "pop"
    PROVE  /\ sender \in Sending /\ sender.data \in Payload
           /\ sender.data.msg \in Messages /\ sender.data.net \in Networks
           /\ sender.data.parts \subseteq AllParts /\ sender.since \in Clock /\ sender.tries \in Nat
  BY DEF SenderOK, Waiting, Sending, Payload

(* What is popped, and what stays in the queue.                            *)
LEMMA PopFacts ==
    ASSUME SenderOK, queue # <<>>
    PROVE  /\ Head(queue) \in Payload /\ Tail(queue) \in Seq(Payload)
           /\ Len(queue) >= 1 /\ Head(queue) = queue[1]
           /\ Len(Tail(queue)) = Len(queue) - 1
           /\ \A k \in 1..Len(Tail(queue)) : Tail(queue)[k] = queue[k + 1] /\ k + 1 \in 1..Len(queue)
<1>1. queue \in Seq(Payload)
  BY DEF SenderOK
<1>2. Head(queue) \in Payload /\ Tail(queue) \in Seq(Payload)
  BY <1>1, HeadTailProperties
<1>3. /\ Len(queue) \in Nat /\ Len(queue) >= 1 /\ Head(queue) = queue[1]
      /\ Len(Tail(queue)) = Len(queue) - 1
      /\ \A k \in 1..Len(Tail(queue)) : Tail(queue)[k] = queue[k + 1]
  BY <1>1
<1> QED BY <1>2, <1>3

LEMMA DoneFacts ==
    ASSUME SenderOK, sender.at # "pop", NEW result \in BOOLEAN, Done(result)
    PROVE  /\ forwarded' = forwarded => SenderOK'
           /\ Len(handed') = Len(handed) + 1
           /\ \A k \in 1..Len(handed) : handed'[k] = handed[k]
           /\ handed'[Len(handed) + 1].msg = sender.data.msg
           /\ handed'[Len(handed) + 1].net = sender.data.net
           /\ handed'[Len(handed) + 1].parts = sender.data.parts
           /\ handed'[Len(handed) + 1].since = sender.since
           /\ sender'.at = "pop" /\ seen' = seen /\ queue' = queue
<1> DEFINE h == [msg |-> sender.data.msg, net |-> sender.data.net, parts |-> sender.data.parts,
                 since |-> sender.since, sent |-> result]
<1>1. handed' = Append(handed, h) /\ sender' = Waiting /\ seen' = seen /\ queue' = queue
  BY DEF Done, Waiting
<1>2. handed \in Seq(Handed) /\ h \in Handed
  BY SenderAt DEF SenderOK, Handed
<1> HIDE DEF h
<1>3. /\ handed' \in Seq(Handed) /\ Len(handed') = Len(handed) + 1
      /\ \A k \in 1..Len(handed) : handed'[k] = handed[k]
      /\ handed'[Len(handed) + 1] = h
  BY <1>1, <1>2, AppendProperties
<1>4. forwarded' = forwarded => SenderOK'
  BY <1>1, <1>3 DEF SenderOK
<1>5. sender'.at = "pop"
  BY <1>1 DEF Waiting
<1> QED BY <1>1, <1>3, <1>4, <1>5 DEF h

LEMMA SenderStep == ASSUME Base, ProcSender PROVE Base' /\ UNCHANGED <<now, forwarded, netVars>>
<1>1. UNCHANGED <<now, forwarded, netVars>> /\ SenderOK /\ now \in Clock /\ 0 \in Clock
  BY Constants DEF ProcSender, Base, Clock
<1>2. SenderOK'
  <2>1. CASE Pop
    <3> DEFINE s == [at |-> IF CsDuplicateCheck THEN "check" ELSE "send",
                     data |-> Head(queue), since |-> IF CsDuplicateCheck THEN 0 ELSE now, tries |-> 0]
    <3>1. sender' = s /\ queue' = Tail(queue) /\ queue # <<>> /\ UNCHANGED <<seen, handed>>
      BY <2>1 DEF Pop
    <3>2. s \in Sending
      BY <1>1, <3>1, PopFacts DEF Sending
    <3> HIDE DEF s
    <3> QED BY <1>1, <3>1, <3>2, PopFacts DEF SenderOK
  <2>2. CASE Duplicate
    BY <1>1, <2>2 DEF Duplicate, SenderOK, Waiting
  <2>3. CASE FirstCopy
    <3>1. sender \in Sending /\ sender.data.msg \in Messages
      BY <1>1, <2>3, SenderAt DEF FirstCopy
    <3>2. sender' \in Sending
      BY <1>1, <2>3, <3>1 DEF FirstCopy, Sending
    <3>3. With(seen, sender.data.msg, now) \in Partial(Clock)
      BY <1>1, <3>1, PartialWith DEF SenderOK
    <3> QED BY <1>1, <2>3, <3>2, <3>3 DEF FirstCopy, SenderOK
  <2>4. CASE SendFails
    <3>1. sender \in Sending
      BY <1>1, <2>4, SenderAt DEF SendFails
    <3>2. sender' \in Sending
      BY <2>4, <3>1 DEF SendFails, Sending
    <3> QED BY <1>1, <2>4, <3>2 DEF SendFails, SenderOK
  <2>5. CASE SendWorks \/ GiveUp
    <3>1. sender.at # "pop" /\ \E result \in BOOLEAN : Done(result)
      BY <2>5 DEF SendWorks, GiveUp
    <3> QED BY <1>1, <3>1, DoneFacts DEF Done
  <2> QED BY <2>1, <2>2, <2>3, <2>4, <2>5 DEF ProcSender
<1> QED BY <1>1, <1>2, NetBase

LEMMA CleanDuplicateMapStep ==
    ASSUME Base, CleanDuplicateMap
    PROVE  Base' /\ UNCHANGED <<now, queue, sender, handed, netVars>>
<1> DEFINE f == [k \in DOMAIN seen \ Old(seen, DualClearTime) |-> seen[k]]
<1>1. seen' = f /\ UNCHANGED <<now, queue, forwarded, sender, handed, netVars>>
  BY DEF CleanDuplicateMap
<1>2. SenderOK /\ seen \in Partial(Clock)
  BY DEF Base, SenderOK
<1>3. /\ f = [k \in DOMAIN f |-> f[k]] /\ DOMAIN f \subseteq DOMAIN seen
      /\ \A k \in DOMAIN f : f[k] = seen[k]
  OBVIOUS
<1>4. DOMAIN seen \subseteq Messages /\ \A k \in DOMAIN seen : seen[k] \in Clock
  BY <1>2, PartialFacts
<1> HIDE DEF f
<1>5. f \in Partial(Clock)
  BY <1>3, <1>4, PartialFacts
<1>6. SenderOK'
  BY <1>1, <1>2, <1>5 DEF SenderOK
<1> QED BY <1>1, <1>6, NetBase DEF Base

LEMMA TickStep ==
    ASSUME Base, Tick
    PROVE  Base' /\ now' = now + 1 /\ UNCHANGED <<queue, sender, seen, handed, netVars>>
<1>1. now' = now + 1 /\ now < MaxTime /\ UNCHANGED <<queue, forwarded, sender, seen, handed, netVars>>
  BY DEF Tick
<1>2. now' \in Clock
  BY <1>1, Constants DEF Base, Clock
<1>3. SenderOK'
  BY <1>1 DEF Base, SenderOK
<1> QED BY <1>1, <1>2, <1>3, NetBase

-----------------------------------------------------------------------------
(* What the steps do to what is booked of the message they are about.      *)
LEMMA LogTypes ==
    ASSUME Base, NEW n \in Networks, NEW m \in Messages
    PROVE  /\ log[n][m].came \in [Parts(n, m) -> Nat] /\ log[n][m].first \in Int
           /\ now \in Int /\ ClearTime \in Int /\ Size[n][m] \in Nat
           /\ m \in DOMAIN times[n] => times[n][m] \in Int
           /\ m \in DOMAIN combos[n] =>
                 /\ combos[n][m].left \in Int
                 /\ combos[n][m].parts \subseteq Parts(n, m)
           /\ Came(n, m) \subseteq Parts(n, m)
<1>1. LogsOK /\ now \in Clock /\ TimesOK /\ CombosOK
  BY BaseParts
<1>2. log[n][m].came \in [Parts(n, m) -> Nat] /\ log[n][m].first \in Clock
  BY <1>1 DEF LogsOK
<1>3. \A x \in Clock : x \in Int
  BY DEF Clock
<1>4. m \in DOMAIN times[n] => times[n][m] \in Clock
  BY <1>1, PartialFacts DEF TimesOK
<1>5. m \in DOMAIN combos[n] => combos[n][m] \in Combo /\ combos[n][m].parts \subseteq Parts(n, m)
  BY <1>1, PartialFacts DEF CombosOK, ComboOK
<1> QED BY <1>1, <1>2, <1>3, <1>4, <1>5, Constants DEF Combo, Came

LEMMA ArrivesBooks ==
    ASSUME Base, Booked, NEW n \in Networks, NEW m \in Messages, NEW i \in Parts(n, m), Arrives(n, m, i)
    PROVE  Booked'
<1> DEFINE came == Came(n, m)
           e == log[n][m]
<1>1. /\ log'[n][m].came = [e.came EXCEPT ![i] = @ + 1]
      /\ log'[n][m].first = IF came = {} THEN now ELSE e.first
      /\ \A k \in Networks, l \in Messages : <<k, l>> # <<n, m>> => log'[k][l] = log[k][l]
  <2>1. log' = Logged(n, m, i) /\ LogsOK /\ now \in Clock
    BY BaseParts DEF Arrives
  <2> QED BY <2>1, LoggedFacts
<1>2. /\ e.came \in [Parts(n, m) -> Nat] /\ e.first \in Int
      /\ now \in Int /\ ClearTime \in Int /\ Size[n][m] \in Nat
      /\ m \in DOMAIN times[n] => times[n][m] \in Int
  BY LogTypes
<1>3. Came(n, m)' = came \cup {i}
  <2>1. \A j \in Parts(n, m) : log'[n][m].came[j] = IF j = i THEN e.came[j] + 1 ELSE e.came[j]
    BY <1>1, <1>2
  <2> QED BY <1>2, <2>1 DEF Came
<1>4. ~Twice(n, m)' => ~Twice(n, m) /\ i \notin came
  <2>1. \A j \in Parts(n, m) : log'[n][m].came[j] = IF j = i THEN e.came[j] + 1 ELSE e.came[j]
    BY <1>1, <1>2
  <2> QED BY <1>2, <2>1 DEF Came, Twice
<1>5. Dated(n, m) /\ Counted(n, m) /\ Stored(n, m)
  BY DEF Booked
<1>6. ~Holds(n, m) /\ Holds(n, m)' /\ receiver'[n].part = i
  BY DEF Arrives, Holds, Idle
<1>7. /\ Cleans(n, m)' = Cleans(n, m) /\ now' = now /\ combos' = combos
      /\ m \in DOMAIN times'[n] =>
            Size[n][m] > 1 /\ (times'[n][m] = now \/ (m \in DOMAIN times[n] /\ times'[n][m] = times[n][m]))
  <2>1. Cleans(n, m)' = Cleans(n, m) /\ now' = now /\ combos' = combos
    BY DEF Arrives, Cleans
  <2>2. CASE times' = times
    BY <1>5, <2>1, <2>2 DEF Dated
  <2>3. CASE Size[n][m] > 1 /\ times'[n] = With(times[n], m, now)
    <3>1. times'[n][m] = now
      BY <2>3 DEF With
    <3> QED BY <2>1, <2>3, <3>1
  <2> QED BY <2>2, <2>3 DEF Arrives
<1>8. \/ (receiver'[n].at = "route" /\ receiver'[n].parts = {i} /\ Size[n][m] = 1)
      \/ (receiver'[n].at = "exist" /\ Size[n][m] > 1)
  BY DEF Arrives
<1> HIDE DEF came, e
<1>9. Dated(n, m)'
  <2>1. came # {} => e.first <= now /\ log'[n][m].first = e.first
    BY <1>1, <1>5 DEF Dated, came, e
  <2>2. came = {} => log'[n][m].first = now
    BY <1>1
  <2>3. /\ m \in DOMAIN combos[n] => came # {} /\ Size[n][m] > 1
        /\ m \in DOMAIN times[n] => came # {} /\ e.first <= times[n][m]
        /\ Cleans(n, m) => came # {} /\ e.first < now - ClearTime
    BY <1>5 DEF Dated, came, e
  <2> QED BY <1>2, <1>3, <1>6, <1>7, <1>8, <2>1, <2>2, <2>3 DEF Dated
<1>10. Counted(n, m)'
  <2>1. ~Twice(n, m)' /\ m \in DOMAIN combos[n] =>
           /\ combos[n][m].parts \subseteq came
           /\ combos[n][m].parts # {} =>
                 combos[n][m].left = Size[n][m] - Cardinality(combos[n][m].parts)
    BY <1>4, <1>5 DEF Counted, came
  <2>2. Size[n][m] = 1 => Parts(n, m) = {i}
    BY <1>2 DEF Parts
  <2> QED BY <1>3, <1>4, <1>6, <1>7, <1>8, <2>1, <2>2 DEF Counted, InHand
<1>11. Stored(n, m)'
  <2> SUFFICES ASSUME ~Twice(n, m)', Size[n][m] > 1, now - log'[n][m].first <= ClearTime
               PROVE  Has(n, m, Came(n, m) \ {receiver[n].part})' /\ receiver'[n].at = "exist"
    BY <1>6, <1>7, <1>8 DEF Stored, InHand
  <2>1. receiver'[n].at = "exist" /\ (Came(n, m) \ {receiver[n].part})' = came
    BY <1>3, <1>4, <1>6, <1>8
  <2>2. Has(n, m, came)
    <3>1. CASE came = {}
      BY <1>5, <3>1 DEF Dated, Has, came
    <3>2. CASE came # {}
      <4>1. came # Parts(n, m) /\ now - e.first <= ClearTime
        BY <1>1, <1>4, <3>2
      <4> QED BY <1>4, <1>5, <1>6, <3>2, <4>1 DEF Stored, came, e
    <3> QED BY <3>1, <3>2
  <2> QED BY <1>7, <2>1, <2>2 DEF Has
<1>12. Only(n, m)
  <2> SUFFICES ASSUME NEW k \in Networks, NEW l \in Messages, <<k, l>> # <<n, m>> PROVE Frame(k, l)
    BY DEF Only
  <2>1. log'[k][l] = log[k][l] /\ now' = now /\ combos' = combos /\ cleaner' = cleaner
    BY <1>1 DEF Arrives
  <2>2. CASE k # n
    BY <2>1, <2>2 DEF Frame, Arrives
  <2>3. CASE k = n /\ l # m
    <3>1. ~Holds(k, l) /\ ~Holds(k, l)'
      BY <2>3 DEF Holds, Arrives, Idle
    <3>2. /\ l \in DOMAIN times'[k] <=> l \in DOMAIN times[k]
          /\ l \in DOMAIN times[k] => times'[k][l] = times[k][l]
      <4>1. CASE times' = times
        BY <4>1
      <4>2. CASE times'[n] = With(times[n], m, now)
        <5>1. times'[k] = With(times[k], m, now) /\ l # m
          BY <2>3, <4>2
        <5> QED BY <5>1 DEF With
      <4> QED BY <4>1, <4>2 DEF Arrives
    <3> QED BY <2>1, <3>1, <3>2 DEF Frame
  <2> QED BY <2>2, <2>3
<1> QED BY <1>9, <1>10, <1>11, <1>12, OnlyKeeps

(* A step of combineFragment or Route changes neither the log nor what the *)
(* cleaner is about to do.                                                 *)
LEMMA SameLog ==
    ASSUME log' = log, NEW n \in Networks, NEW m \in Messages
    PROVE  Came(n, m)' = Came(n, m) /\ Twice(n, m)' = Twice(n, m)
  BY DEF Came, Twice

LEMMA KeyExistBooks ==
    ASSUME Base, Booked, NEW n \in Networks, KeyExist(n), Quiet
    PROVE  Booked'
<1>0. PICK m, i : m = receiver[n].msg /\ i = receiver[n].part
  OBVIOUS
<1>1. /\ Only(n, m) /\ receiver[n].at = "exist" /\ m \in Messages
      /\ receiver'[n].at = IF m \in DOMAIN combos[n] THEN "store" ELSE "insert"
      /\ receiver'[n].msg = m /\ receiver'[n].part = i
      /\ times' = times /\ combos' = combos
  BY <1>0, KeyExistStep
<1>2. /\ Came(n, m)' = Came(n, m) /\ Twice(n, m)' = Twice(n, m)
      /\ now' = now /\ cleaner' = cleaner /\ log' = log
  BY <1>1, SameLog DEF Quiet
<1>3. /\ Holds(n, m) /\ InHand(n, m) /\ Holds(n, m)' /\ InHand(n, m)' /\ receiver[n].part = i
      /\ Cleans(n, m)' = Cleans(n, m)
  BY <1>0, <1>1, <1>2 DEF Holds, InHand, Cleans
<1>4. Dated(n, m) /\ Counted(n, m) /\ Stored(n, m)
  BY <1>1 DEF Booked
<1>5. Dated(n, m)' /\ Counted(n, m)'
  BY <1>1, <1>2, <1>3, <1>4 DEF Dated, Counted
<1>6. Stored(n, m)'
  <2> SUFFICES ASSUME ~Twice(n, m), Came(n, m) # {}, Size[n][m] > 1, now - log[n][m].first <= ClearTime
               PROVE  /\ Has(n, m, Came(n, m) \ {i})'
                      /\ receiver'[n].at = "insert" => Came(n, m) = {i}
                      /\ receiver'[n].at = "store" => Came(n, m) # {i}
    BY <1>1, <1>2, <1>3 DEF Stored
  <2>1. Has(n, m, Came(n, m) \ {i}) /\ i \in Came(n, m)
    BY <1>3, <1>4 DEF Stored, Dated
  <2> QED BY <1>1, <1>2, <2>1 DEF Has
<1> QED BY <1>1, <1>5, <1>6, OnlyKeeps

LEMMA InsertBooks ==
    ASSUME Base, Booked, NEW n \in Networks, InsertFirst(n), Quiet
    PROVE  Booked'
<1>0. PICK m, i : m = receiver[n].msg /\ i = receiver[n].part
  OBVIOUS
<1>1. /\ Only(n, m) /\ receiver[n].at = "insert" /\ m \in Messages
      /\ receiver'[n] = Idle /\ times' = times /\ m \in DOMAIN combos'[n]
      /\ combos'[n][m] = [left |-> Size[n][m] - 1, parts |-> {i}]
  BY <1>0, InsertStep
<1>2. /\ Came(n, m)' = Came(n, m) /\ Twice(n, m)' = Twice(n, m)
      /\ now' = now /\ cleaner' = cleaner /\ log' = log
  BY <1>1, SameLog DEF Quiet
<1>3. /\ Holds(n, m) /\ InHand(n, m) /\ ~Holds(n, m)' /\ ~InHand(n, m)' /\ receiver[n].part = i
      /\ Cleans(n, m)' = Cleans(n, m)
  BY <1>0, <1>1, <1>2 DEF Holds, InHand, Cleans, Idle
<1>4. Dated(n, m) /\ Counted(n, m) /\ Stored(n, m)
  BY <1>1 DEF Booked
<1>5. i \in Came(n, m) /\ Size[n][m] > 1 /\ Cardinality({i}) = 1
  BY <1>1, <1>3, <1>4, FS_Singleton DEF Dated
<1>6. Dated(n, m)'
  BY <1>1, <1>2, <1>3, <1>4, <1>5 DEF Dated
<1>7. Counted(n, m)'
  BY <1>1, <1>2, <1>3, <1>5 DEF Counted
<1>8. Stored(n, m)'
  <2> SUFFICES ASSUME ~Twice(n, m), Came(n, m) # {}, Size[n][m] > 1, now - log[n][m].first <= ClearTime
               PROVE  Came(n, m) # Parts(n, m) /\ Has(n, m, Came(n, m))'
    BY <1>1, <1>2, <1>3 DEF Stored
  <2>1. Came(n, m) = {i}
    BY <1>1, <1>3, <1>4 DEF Stored
  <2>2. Cardinality(Parts(n, m)) > 1
    BY <1>1, <1>5, PartsFacts
  <2> QED BY <1>1, <1>2, <1>5, <2>1, <2>2 DEF Has
<1> QED BY <1>1, <1>6, <1>7, <1>8, OnlyKeeps

LEMMA StoreBooks ==
    ASSUME Base, Booked, NEW n \in Networks, Store(n), Quiet
    PROVE  Booked'
<1>0. PICK m, i, p : m = receiver[n].msg /\ i = receiver[n].part /\ p = combos[n][m].parts
  OBVIOUS
<1>1. /\ Only(n, m) /\ receiver[n].at = "store" /\ m \in Messages
      /\ m \in DOMAIN combos[n] /\ p # {} /\ i \in Parts(n, m) /\ p \subseteq Parts(n, m)
      /\ receiver'[n].at = "combine" /\ receiver'[n].msg = m /\ receiver'[n].part = i
      /\ times' = times /\ m \in DOMAIN combos'[n]
      /\ combos'[n][m] = [left |-> combos[n][m].left - 1, parts |-> p \cup {i}]
  BY <1>0, StoreStep
<1>2. /\ Came(n, m)' = Came(n, m) /\ Twice(n, m)' = Twice(n, m)
      /\ now' = now /\ cleaner' = cleaner /\ log' = log
  BY <1>1, SameLog DEF Quiet
<1>3. /\ Holds(n, m) /\ InHand(n, m) /\ Holds(n, m)' /\ ~InHand(n, m)' /\ receiver[n].part = i
      /\ Cleans(n, m)' = Cleans(n, m)
  BY <1>0, <1>1, <1>2 DEF Holds, InHand, Cleans
<1>4. Dated(n, m) /\ Counted(n, m) /\ Stored(n, m)
  BY <1>1 DEF Booked
<1>5. i \in Came(n, m) /\ Size[n][m] > 1
  BY <1>1, <1>3, <1>4 DEF Dated
<1>6. Dated(n, m)'
  BY <1>1, <1>2, <1>3, <1>4 DEF Dated
<1>7. Counted(n, m)'
  <2>1. ~Twice(n, m) => /\ p \subseteq Came(n, m) /\ i \notin p
                        /\ combos[n][m].left = Size[n][m] - Cardinality(p)
    BY <1>0, <1>1, <1>3, <1>4 DEF Counted
  <2>2. /\ Cardinality(p) \in Nat /\ Size[n][m] \in Nat
        /\ i \notin p => Cardinality(p \cup {i}) = Cardinality(p) + 1
    BY <1>1, CardinalityAdd, Constants
  <2>3. ~Twice(n, m) => /\ combos'[n][m].parts \subseteq Came(n, m)
                        /\ combos'[n][m].left = Size[n][m] - Cardinality(combos'[n][m].parts)
    BY <1>1, <1>5, <2>1, <2>2
  <2> QED BY <1>1, <1>2, <1>3, <2>3 DEF Counted
<1>8. Stored(n, m)'
  <2> SUFFICES ASSUME ~Twice(n, m), Came(n, m) # {}, Size[n][m] > 1, now - log[n][m].first <= ClearTime
               PROVE  Has(n, m, Came(n, m))'
    BY <1>1, <1>2, <1>3 DEF Stored
  <2>1. Has(n, m, Came(n, m) \ {i}) /\ Came(n, m) # {i}
    BY <1>1, <1>3, <1>4 DEF Stored
  <2>2. p = Came(n, m) \ {i}
    BY <1>0, <1>1, <1>5, <2>1 DEF Has
  <2> QED BY <1>1, <1>2, <1>5, <2>2 DEF Has
<1> QED BY <1>1, <1>6, <1>7, <1>8, OnlyKeeps

LEMMA StoreThrowsBooks ==
    ASSUME Base, Booked, NEW n \in Networks, StoreThrows(n), Quiet
    PROVE  Booked'
<1>0. PICK m, i : m = receiver[n].msg /\ i = receiver[n].part
  OBVIOUS
<1>1. /\ Only(n, m) /\ receiver[n].at = "store" /\ m \in Messages /\ ~Usable(n)
      /\ receiver'[n] = Idle /\ times' = times /\ m \in DOMAIN combos'[n]
      /\ combos'[n][m] = [left |-> 0, parts |-> {}]
  BY <1>0, StoreThrowsStep
<1>2. ~(m \in DOMAIN combos[n] /\ combos[n][m].parts # {})
  BY <1>0, <1>1 DEF Usable
<1>3. /\ Came(n, m)' = Came(n, m) /\ Twice(n, m)' = Twice(n, m)
      /\ now' = now /\ cleaner' = cleaner /\ log' = log
  BY <1>1, SameLog DEF Quiet
<1>4. /\ Holds(n, m) /\ InHand(n, m) /\ ~Holds(n, m)' /\ ~InHand(n, m)' /\ receiver[n].part = i
      /\ Cleans(n, m)' = Cleans(n, m)
  BY <1>0, <1>1, <1>3 DEF Holds, InHand, Cleans, Idle
<1>5. Dated(n, m) /\ Counted(n, m) /\ Stored(n, m)
  BY <1>1 DEF Booked
<1>6. i \in Came(n, m) /\ Size[n][m] > 1
  BY <1>1, <1>4, <1>5 DEF Dated
<1>7. Dated(n, m)'
  BY <1>1, <1>3, <1>4, <1>5, <1>6 DEF Dated
<1>8. Counted(n, m)'
  BY <1>1, <1>3, <1>4 DEF Counted
<1>9. Stored(n, m)'
  <2> SUFFICES ASSUME ~Twice(n, m), Came(n, m) # {}, Size[n][m] > 1, now - log[n][m].first <= ClearTime
               PROVE  FALSE
    BY <1>1, <1>3, <1>4 DEF Stored
  <2>1. Has(n, m, Came(n, m) \ {i}) /\ Came(n, m) # {i}
    BY <1>1, <1>4, <1>5 DEF Stored
  <2> QED BY <1>2, <1>6, <2>1 DEF Has
<1> QED BY <1>1, <1>7, <1>8, <1>9, OnlyKeeps

LEMMA CombineBooks ==
    ASSUME Base, Booked, NEW n \in Networks, Combine(n), Quiet
    PROVE  Booked'
<1>0. PICK m, i, p : m = receiver[n].msg /\ i = receiver[n].part /\ p = combos[n][m].parts
  OBVIOUS
<1>1. /\ Only(n, m) /\ receiver[n].at = "combine" /\ m \in Messages
      /\ m \in DOMAIN combos[n] /\ p # {} /\ combos[n][m].left = 0
      /\ p \subseteq Parts(n, m) /\ i \in Parts(n, m)
      /\ receiver'[n].at = "forget" /\ receiver'[n].msg = m /\ receiver'[n].part = i
      /\ receiver'[n].parts = p /\ times' = times /\ m \notin DOMAIN combos'[n]
  BY <1>0, CombineStep
<1>2. /\ Came(n, m)' = Came(n, m) /\ Twice(n, m)' = Twice(n, m)
      /\ now' = now /\ cleaner' = cleaner /\ log' = log
  BY <1>1, SameLog DEF Quiet
<1>3. /\ Holds(n, m) /\ Holds(n, m)' /\ ~InHand(n, m)' /\ receiver[n].part = i
      /\ Cleans(n, m)' = Cleans(n, m)
  BY <1>0, <1>1, <1>2 DEF Holds, InHand, Cleans
<1>4. Dated(n, m) /\ Counted(n, m) /\ Stored(n, m)
  BY <1>1 DEF Booked
<1>5. Dated(n, m)'
  BY <1>1, <1>2, <1>3, <1>4 DEF Dated
<1>6. ~Twice(n, m) => p = Parts(n, m)
  <2>1. ~Twice(n, m) => 0 = Size[n][m] - Cardinality(p)
    BY <1>0, <1>1, <1>4 DEF Counted
  <2>2. /\ Cardinality(p) \in Nat /\ Size[n][m] \in Nat
        /\ Cardinality(p) = Size[n][m] => p = Parts(n, m)
    BY <1>1, CardinalityAdd, Constants
  <2> QED BY <2>1, <2>2
<1>7. Counted(n, m)'
  BY <1>1, <1>2, <1>6 DEF Counted
<1>8. Stored(n, m)'
  <2> SUFFICES ASSUME ~Twice(n, m), Came(n, m) # {}, Size[n][m] > 1, now - log[n][m].first <= ClearTime
               PROVE  Came(n, m) = Parts(n, m)
    BY <1>1, <1>2, <1>3 DEF Stored
  <2>1. Has(n, m, Came(n, m))
    BY <1>1, <1>3, <1>4 DEF Stored
  <2>2. p = Came(n, m)
    BY <1>0, <1>1, <2>1 DEF Has
  <2> QED BY <1>6, <2>2
<1> QED BY <1>1, <1>5, <1>7, <1>8, OnlyKeeps

LEMMA StillIncompleteBooks ==
    ASSUME Base, Booked, NEW n \in Networks, StillIncomplete(n), Quiet
    PROVE  Booked'
<1>0. PICK m, i : m = receiver[n].msg /\ i = receiver[n].part
  OBVIOUS
<1>1. /\ Only(n, m) /\ receiver[n].at = "combine" /\ m \in Messages /\ ~Together(n)
      /\ receiver'[n] = Idle /\ times' = times /\ combos' = combos
  BY <1>0, StillIncompleteStep
<1>2. /\ Came(n, m)' = Came(n, m) /\ Twice(n, m)' = Twice(n, m)
      /\ now' = now /\ cleaner' = cleaner /\ log' = log
  BY <1>1, SameLog DEF Quiet
<1>3. /\ Holds(n, m) /\ ~Holds(n, m)' /\ ~InHand(n, m)' /\ Cleans(n, m)' = Cleans(n, m)
  BY <1>0, <1>1, <1>2 DEF Holds, InHand, Cleans, Idle
<1>4. Dated(n, m) /\ Counted(n, m) /\ Stored(n, m)
  BY <1>1 DEF Booked
<1>5. Dated(n, m)' /\ Counted(n, m)'
  BY <1>1, <1>2, <1>3, <1>4 DEF Dated, Counted
<1>6. Stored(n, m)'
  <2> SUFFICES ASSUME ~Twice(n, m), Came(n, m) # {}, Size[n][m] > 1, now - log[n][m].first <= ClearTime
               PROVE  Came(n, m) # Parts(n, m) /\ Has(n, m, Came(n, m))'
    BY <1>1, <1>2, <1>3 DEF Stored
  <2>1. Has(n, m, Came(n, m))
    BY <1>1, <1>3, <1>4 DEF Stored
  <2>2. m \in DOMAIN combos[n] /\ combos[n][m].parts = Came(n, m)
    BY <2>1 DEF Has
  <2>3. combos[n][m].left = Size[n][m] - Cardinality(Came(n, m))
    BY <2>2, <1>4 DEF Counted
  <2>4. combos[n][m].left # 0
    BY <1>0, <1>1, <2>2 DEF Together, Usable
  <2>5. Came(n, m) # Parts(n, m)
    <3>1. Cardinality(Parts(n, m)) = Size[n][m] /\ Size[n][m] \in Nat
      BY <1>1, PartsFacts, Constants
    <3>2. Came(n, m) = Parts(n, m) => Cardinality(Came(n, m)) = Size[n][m]
      BY <3>1, Zenon
    <3>3. Cardinality(Came(n, m)) # Size[n][m]
      BY <2>3, <2>4, <3>1
    <3> QED BY <3>2, <3>3
  <2> QED BY <1>1, <1>2, <2>1, <2>5 DEF Has
<1> QED BY <1>1, <1>5, <1>6, OnlyKeeps

LEMMA ForgetTimeBooks ==
    ASSUME Base, Booked, NEW n \in Networks, ForgetTime(n), Quiet
    PROVE  Booked'
<1>0. PICK m, i : m = receiver[n].msg /\ i = receiver[n].part
  OBVIOUS
<1>1. /\ Only(n, m) /\ receiver[n].at = "forget" /\ m \in Messages
      /\ receiver'[n].at = "route" /\ receiver'[n].msg = m
      /\ receiver'[n].part = i /\ receiver'[n].parts = receiver[n].parts
      /\ combos' = combos /\ m \notin DOMAIN times'[n]
  BY <1>0, ForgetTimeStep
<1>2. /\ Came(n, m)' = Came(n, m) /\ Twice(n, m)' = Twice(n, m)
      /\ now' = now /\ cleaner' = cleaner /\ log' = log
  BY <1>1, SameLog DEF Quiet
<1>3. /\ Holds(n, m) /\ Holds(n, m)' /\ ~InHand(n, m)' /\ receiver[n].part = i
      /\ Cleans(n, m)' = Cleans(n, m)
  BY <1>0, <1>1, <1>2 DEF Holds, InHand, Cleans
<1>4. Dated(n, m) /\ Counted(n, m) /\ Stored(n, m)
  BY <1>1 DEF Booked
<1>5. Dated(n, m)' /\ Counted(n, m)'
  BY <1>1, <1>2, <1>3, <1>4 DEF Dated, Counted
<1>6. Stored(n, m)'
  BY <1>1, <1>2, <1>3, <1>4 DEF Stored
<1> QED BY <1>1, <1>5, <1>6, OnlyKeeps

LEMMA RouteBooks ==
    ASSUME Base, Booked, NEW n \in Networks, Route(n)
    PROVE  Booked'
<1>0. PICK m : m = receiver[n].msg
  OBVIOUS
<1>1. /\ Only(n, m) /\ receiver[n].at = "route" /\ m \in Messages
      /\ receiver'[n] = Idle /\ times' = times /\ combos' = combos
      /\ now' = now /\ cleaner' = cleaner /\ log' = log
  BY <1>0, RouteStep DEF Route
<1>2. Came(n, m)' = Came(n, m) /\ Twice(n, m)' = Twice(n, m)
  BY <1>1, SameLog
<1>3. /\ Holds(n, m) /\ ~Holds(n, m)' /\ ~InHand(n, m)' /\ Cleans(n, m)' = Cleans(n, m)
  BY <1>0, <1>1, <1>2 DEF Holds, InHand, Cleans, Idle
<1>4. Dated(n, m) /\ Counted(n, m) /\ Stored(n, m)
  BY <1>1 DEF Booked
<1>5. Dated(n, m)' /\ Counted(n, m)'
  BY <1>1, <1>2, <1>3, <1>4 DEF Dated, Counted
<1>6. Stored(n, m)'
  BY <1>1, <1>2, <1>3, <1>4 DEF Stored
<1> QED BY <1>1, <1>5, <1>6, OnlyKeeps

LEMMA SearchBooks ==
    ASSUME Base, Booked, NEW n \in Networks, Search(n), Aside
    PROVE  Booked'
<1>1. PICK m \in Messages :
          /\ Only(n, m) /\ m \in DOMAIN times[n] /\ times[n][m] < now - ClearTime
          /\ cleaner'[n].key = m /\ times' = times /\ combos' = combos
  BY SearchStep
<1>2. /\ Came(n, m)' = Came(n, m) /\ Twice(n, m)' = Twice(n, m)
      /\ now' = now /\ receiver' = receiver /\ log' = log
  BY SameLog DEF Aside
<1>3. Holds(n, m)' = Holds(n, m) /\ InHand(n, m)' = InHand(n, m)
  BY <1>2 DEF Holds, InHand
<1>4. Dated(n, m) /\ Counted(n, m) /\ Stored(n, m)
  BY DEF Booked
<1>5. Came(n, m) # {} /\ log[n][m].first < now - ClearTime
  BY <1>1, <1>4, LogTypes DEF Dated
<1>6. Dated(n, m)'
  BY <1>1, <1>2, <1>3, <1>4, <1>5 DEF Dated
<1>7. Counted(n, m)' /\ Stored(n, m)'
  BY <1>1, <1>2, <1>3, <1>4 DEF Counted, Stored, Has
<1> QED BY <1>1, <1>6, <1>7, OnlyKeeps

LEMMA EraseComboBooks ==
    ASSUME Base, Booked, NEW n \in Networks, EraseCombo(n), Aside
    PROVE  Booked'
<1>0. PICK m : m = cleaner[n].key
  OBVIOUS
<1>1. /\ Only(n, m) /\ m \in Messages /\ Cleans(n, m) /\ cleaner'[n].key = m
      /\ times' = times /\ m \notin DOMAIN combos'[n]
  BY <1>0, EraseComboStep
<1>2. /\ Came(n, m)' = Came(n, m) /\ Twice(n, m)' = Twice(n, m)
      /\ now' = now /\ receiver' = receiver /\ log' = log
  BY <1>1, SameLog DEF Aside
<1>3. Holds(n, m)' = Holds(n, m) /\ InHand(n, m)' = InHand(n, m)
  BY <1>2 DEF Holds, InHand
<1>4. Dated(n, m) /\ Counted(n, m) /\ Stored(n, m)
  BY <1>1 DEF Booked
<1>5. Came(n, m) # {} /\ log[n][m].first < now - ClearTime
  BY <1>1, <1>4 DEF Dated
<1>6. Dated(n, m)'
  BY <1>1, <1>2, <1>3, <1>4, <1>5 DEF Dated
<1>7. Counted(n, m)'
  BY <1>1, <1>2, <1>3, <1>4 DEF Counted
<1>8. Stored(n, m)'
  BY <1>1, <1>2, <1>5, LogTypes DEF Stored
<1> QED BY <1>1, <1>6, <1>7, <1>8, OnlyKeeps

LEMMA EraseTimeBooks ==
    ASSUME Base, Booked, NEW n \in Networks, EraseTime(n), Aside
    PROVE  Booked'
<1>0. PICK m : m = cleaner[n].key
  OBVIOUS
<1>1. /\ Only(n, m) /\ m \in Messages /\ Cleans(n, m) /\ cleaner'[n].at = "search"
      /\ combos' = combos /\ m \notin DOMAIN times'[n]
  BY <1>0, EraseTimeStep
<1>2. /\ Came(n, m)' = Came(n, m) /\ Twice(n, m)' = Twice(n, m)
      /\ now' = now /\ receiver' = receiver /\ log' = log
  BY <1>1, SameLog DEF Aside
<1>3. Holds(n, m)' = Holds(n, m) /\ InHand(n, m)' = InHand(n, m) /\ ~Cleans(n, m)'
  BY <1>1, <1>2 DEF Holds, InHand, Cleans
<1>4. Dated(n, m) /\ Counted(n, m) /\ Stored(n, m)
  BY <1>1 DEF Booked
<1>5. Came(n, m) # {} /\ log[n][m].first < now - ClearTime
  BY <1>1, <1>4 DEF Dated
<1>6. Dated(n, m)'
  BY <1>1, <1>2, <1>3, <1>4 DEF Dated
<1>7. Counted(n, m)'
  BY <1>1, <1>2, <1>3, <1>4 DEF Counted
<1>8. Stored(n, m)'
  BY <1>1, <1>2, <1>5, LogTypes DEF Stored
<1> QED BY <1>1, <1>6, <1>7, <1>8, OnlyKeeps

(* The other steps change no map of a network; the clock only goes on.     *)
LEMMA TimeBooks ==
    ASSUME Base, Booked, UNCHANGED netVars, now' \in {now, now + 1}
    PROVE  Booked'
<1> SUFFICES ASSUME NEW n \in Networks, NEW m \in Messages
             PROVE  Dated(n, m)' /\ Counted(n, m)' /\ Stored(n, m)'
  BY DEF Booked
<1>1. /\ Came(n, m)' = Came(n, m) /\ Twice(n, m)' = Twice(n, m)
      /\ log' = log /\ receiver' = receiver /\ cleaner' = cleaner /\ combos' = combos /\ times' = times
  BY SameLog DEF netVars
<1>2. Holds(n, m)' = Holds(n, m) /\ InHand(n, m)' = InHand(n, m) /\ Cleans(n, m)' = Cleans(n, m)
  BY <1>1 DEF Holds, InHand, Cleans
<1>3. Dated(n, m) /\ Counted(n, m) /\ Stored(n, m)
  BY DEF Booked
<1>4. Dated(n, m)'
  <2>1. /\ log[n][m].first < now - ClearTime => log[n][m].first < now' - ClearTime
        /\ log[n][m].first <= now => log[n][m].first <= now'
    BY LogTypes
  <2> QED BY <1>1, <1>2, <1>3, <2>1 DEF Dated
<1>5. Counted(n, m)'
  BY <1>1, <1>2, <1>3 DEF Counted
<1>6. Stored(n, m)'
  <2>1. now' - log[n][m].first <= ClearTime => now - log[n][m].first <= ClearTime
    BY LogTypes
  <2>2. \A s : Has(n, m, s)' = Has(n, m, s)
    BY <1>1 DEF Has
  <2> QED BY <1>1, <1>2, <1>3, <2>1, <2>2 DEF Stored
<1> QED BY <1>4, <1>5, <1>6

LEMMA BookedInit == Init => Booked
<1> SUFFICES ASSUME Init, NEW n \in Networks, NEW m \in Messages
             PROVE  Dated(n, m) /\ Counted(n, m) /\ Stored(n, m)
  BY DEF Booked
<1>1. Came(n, m) = {}
  BY DEF Init, Came
<1>2. m \notin DOMAIN combos[n] /\ m \notin DOMAIN times[n] /\ ~Holds(n, m) /\ ~Cleans(n, m)
  BY EmptyPartial DEF Init, Holds, Cleans
<1> QED BY <1>1, <1>2 DEF Dated, Counted, Stored

-----------------------------------------------------------------------------
(* The invariant of one step after another.                                *)
LEMMA CombineFragmentKeeps ==
    ASSUME Base, Booked, NEW n \in Networks, CombineFragment(n)
    PROVE  Base' /\ Booked' /\ UNCHANGED <<now, queue, sender, seen, handed, log>>
<1>1. Quiet
  BY DEF CombineFragment, Quiet
<1>2. CASE KeyExist(n)
  BY <1>1, <1>2, KeyExistStep, KeyExistBooks DEF Quiet
<1>3. CASE InsertFirst(n)
  BY <1>1, <1>3, InsertStep, InsertBooks DEF Quiet
<1>4. CASE Store(n)
  BY <1>1, <1>4, StoreStep, StoreBooks DEF Quiet
<1>5. CASE StoreThrows(n)
  BY <1>1, <1>5, StoreThrowsStep, StoreThrowsBooks DEF Quiet
<1>6. CASE Combine(n)
  BY <1>1, <1>6, CombineStep, CombineBooks DEF Quiet
<1>7. CASE StillIncomplete(n)
  BY <1>1, <1>7, StillIncompleteStep, StillIncompleteBooks DEF Quiet
<1>8. CASE ForgetTime(n)
  BY <1>1, <1>8, ForgetTimeStep, ForgetTimeBooks DEF Quiet
<1> QED BY <1>2, <1>3, <1>4, <1>5, <1>6, <1>7, <1>8 DEF CombineFragment

LEMMA ClearKeeps ==
    ASSUME Base, Booked, NEW n \in Networks, Clear(n)
    PROVE  Base' /\ Booked' /\ UNCHANGED <<now, queue, sender, seen, handed, log>>
<1>1. Aside
  BY DEF Clear, Aside
<1>2. CASE Search(n)
  BY <1>1, <1>2, SearchStep, SearchBooks DEF Aside
<1>3. CASE EraseCombo(n)
  BY <1>1, <1>3, EraseComboStep, EraseComboBooks DEF Aside
<1>4. CASE EraseTime(n)
  BY <1>1, <1>4, EraseTimeStep, EraseTimeBooks DEF Aside
<1> QED BY <1>2, <1>3, <1>4 DEF Clear

LEMMA ReceiveKeeps ==
    ASSUME Base, Booked, NEW n \in Networks, Receive(n)
    PROVE  /\ Base' /\ Booked' /\ UNCHANGED <<now, queue, sender, seen, handed>>
           /\ \E m \in Messages : \E i \in Parts(n, m) : log' = Logged(n, m, i)
<1>1. PICK m \in Messages : \E i \in Parts(n, m) : Arrives(n, m, i)
  BY ReceiveStep
<1>2. PICK i \in Parts(n, m) : Arrives(n, m, i)
  BY <1>1
<1>3. Base' /\ Booked'
  BY <1>2, ReceiveStep, ArrivesBooks
<1> QED BY <1>2, <1>3 DEF Arrives

(* What came twice stays so.                                               *)
LEMMA LoggedTwice ==
    ASSUME Base, NEW n \in Networks, NEW m \in Messages, NEW i \in Parts(n, m), log' = Logged(n, m, i),
           NEW k \in Networks, NEW l \in Messages, Twice(k, l)
    PROVE  Twice(k, l)'
<1>1. /\ log'[n][m].came = [log[n][m].came EXCEPT ![i] = @ + 1]
      /\ \A x \in Networks, y \in Messages : <<x, y>> # <<n, m>> => log'[x][y] = log[x][y]
  BY BaseParts, LoggedFacts
<1>2. CASE k = n /\ l = m
  <2>1. log[n][m].came \in [Parts(n, m) -> Nat]
    BY LogTypes
  <2>2. \A j \in Parts(n, m) : log'[n][m].came[j] >= log[n][m].came[j] /\ log'[n][m].came[j] \in Nat
    <3>1. \A j \in Parts(n, m) :
             log'[n][m].came[j] = IF j = i THEN log[n][m].came[j] + 1 ELSE log[n][m].came[j]
      BY <1>1, <2>1
    <3> QED BY <2>1, <3>1
  <2> QED BY <1>2, <2>1, <2>2 DEF Twice
<1>3. CASE ~(k = n /\ l = m)
  BY <1>1, <1>3 DEF Twice
<1> QED BY <1>2, <1>3

LEMMA BookedStep == ASSUME Base, Booked, [Next]_vars PROVE Base' /\ Booked'
<1>1. ASSUME NEW n \in Networks, Receive(n) \/ CombineFragment(n) \/ Route(n) \/ Clear(n)
      PROVE  Base' /\ Booked'
  BY <1>1, ReceiveKeeps, CombineFragmentKeeps, RouteStep, RouteBooks, ClearKeeps
<1>2. CASE ProcSender
  BY <1>2, SenderStep, TimeBooks
<1>3. CASE CleanDuplicateMap
  BY <1>3, CleanDuplicateMapStep, TimeBooks
<1>4. CASE Tick
  BY <1>4, TickStep, TimeBooks
<1>5. CASE UNCHANGED vars
  <2>1. UNCHANGED <<netVars, now, queue, forwarded, sender, seen, handed>>
    BY <1>5 DEF vars, netVars
  <2>2. SenderOK'
    BY <2>1 DEF Base, SenderOK
  <2> QED BY <2>1, <2>2, NetBase, TimeBooks DEF Base
<1> QED BY <1>1, <1>2, <1>3, <1>4, <1>5 DEF Next

-----------------------------------------------------------------------------

(* Whatever left a receiver is whole, or a fragment of it came twice.      *)
WholeData(d) == d.parts = Parts(d.net, d.msg) \/ Twice(d.net, d.msg)

Delivered ==
    /\ \A k \in 1..Len(queue) : WholeData(queue[k])
    /\ sender.at # "pop" => WholeData(sender.data)
    /\ \A k \in 1..Len(handed) : WholeData(handed[k])

(* A copy that passed the check is old, or its message is in the map since *)
(* then or later.                                                          *)
Remembered(m, since) ==
    /\ since <= now
    /\ since < now - DualClearTime \/ (IF m \in DOMAIN seen THEN since <= seen[m] ELSE FALSE)

Filtered ==
    CsDuplicateCheck =>
        /\ \A k \in 1..Len(handed) : Remembered(handed[k].msg, handed[k].since)
        /\ sender.at = "send" =>
              /\ Remembered(sender.data.msg, sender.since)
              /\ \A k \in 1..Len(handed) : handed[k].msg = sender.data.msg
                    => sender.since - handed[k].since > DualClearTime
        /\ CopiesApart


LEMMA PayloadOf ==
    ASSUME Base
    PROVE  /\ \A k \in 1..Len(queue) : queue[k] \in Payload
           /\ \A k \in 1..Len(handed) : handed[k] \in Handed
           /\ Len(queue) \in Nat /\ Len(handed) \in Nat
<1>1. queue \in Seq(Payload) /\ handed \in Seq(Handed)
  BY DEF Base, SenderOK
<1> QED BY <1>1, ElementOfSeq, LenProperties

TwiceStays == \A k \in Networks, l \in Messages : Twice(k, l) => Twice(k, l)'

LEMMA DeliveredStays ==
    ASSUME Base, Delivered, TwiceStays, UNCHANGED <<queue, sender, handed>>
    PROVE  Delivered'
<1>1. ASSUME NEW k \in 1..Len(queue) PROVE WholeData(queue[k])'
  <2>1. queue[k].msg \in Messages /\ queue[k].net \in Networks
    BY PayloadOf DEF Payload
  <2> QED BY <2>1 DEF Delivered, WholeData, TwiceStays
<1>2. ASSUME NEW k \in 1..Len(handed) PROVE WholeData(handed[k])'
  <2>1. handed[k].msg \in Messages /\ handed[k].net \in Networks
    BY PayloadOf DEF Handed
  <2> QED BY <2>1 DEF Delivered, WholeData, TwiceStays
<1>3. sender.at # "pop" => WholeData(sender.data)'
  <2> SUFFICES ASSUME sender.at # "pop" PROVE WholeData(sender.data)'
    OBVIOUS
  <2>1. sender.data.msg \in Messages /\ sender.data.net \in Networks
    BY SenderAt DEF Base
  <2> QED BY <2>1 DEF Delivered, WholeData, TwiceStays
<1> QED BY <1>1, <1>2, <1>3 DEF Delivered

LEMMA DeliveredRoute ==
    ASSUME Base, Booked, Delivered, NEW n \in Networks, Route(n)
    PROVE  Delivered'
<1>0. PICK m : m = receiver[n].msg
  OBVIOUS
<1>1. /\ receiver[n].at = "route" /\ m \in Messages
      /\ \/ queue' = Append(queue, [msg |-> m, net |-> n, parts |-> receiver[n].parts])
         \/ queue' = queue
      /\ UNCHANGED <<sender, handed, log>>
  BY <1>0, RouteStep
<1>2. TwiceStays
  BY <1>1, SameLog DEF TwiceStays
<1>3. CASE queue' = queue
  BY <1>1, <1>2, <1>3, DeliveredStays
<1>4. CASE queue' = Append(queue, [msg |-> m, net |-> n, parts |-> receiver[n].parts])
  <2>1. PICK d : d = [msg |-> m, net |-> n, parts |-> receiver[n].parts]
    OBVIOUS
  <2>2. d.parts = Parts(n, m) \/ Twice(n, m)
    <3>1. Counted(n, m)
      BY <1>1 DEF Booked
    <3> QED BY <1>0, <1>1, <2>1, <3>1 DEF Counted, Holds
  <2>3. WholeData(d)'
    BY <1>1, <1>2, <2>1, <2>2 DEF WholeData, TwiceStays
  <2>4. queue \in Seq(Payload) /\ d \in Payload
    <3>1. queue \in Seq(Payload)
      BY DEF Base, SenderOK
    <3>2. receiver[n].parts \subseteq AllParts
      <4>1. receiver[n].at \in Places
        BY <1>1 DEF Places
      <4> QED BY <4>1, BaseParts, AtPlace DEF Busy
    <3> QED BY <1>1, <2>1, <3>1, <3>2 DEF Payload
  <2>5. /\ Len(queue') = Len(queue) + 1 /\ queue'[Len(queue) + 1] = d
        /\ \A k \in 1..Len(queue) : queue'[k] = queue[k]
    BY <1>4, <2>1, <2>4, AppendProperties
  <2>6. ASSUME NEW k \in 1..Len(queue') PROVE WholeData(queue[k])'
    <3>1. CASE k = Len(queue) + 1
      BY <2>3, <2>5, <3>1
    <3>2. CASE k # Len(queue) + 1
      <4>1. k \in 1..Len(queue) /\ queue'[k] = queue[k]
        BY <2>5, <3>2, PayloadOf
      <4>2. queue[k].msg \in Messages /\ queue[k].net \in Networks
        BY <4>1, PayloadOf DEF Payload
      <4> QED BY <1>2, <4>1, <4>2 DEF Delivered, WholeData, TwiceStays
    <3> QED BY <3>1, <3>2
  <2>7. ASSUME NEW k \in 1..Len(handed) PROVE WholeData(handed[k])'
    <3>1. handed[k].msg \in Messages /\ handed[k].net \in Networks
      BY PayloadOf DEF Handed
    <3> QED BY <1>1, <1>2, <3>1 DEF Delivered, WholeData, TwiceStays
  <2>8. (sender.at # "pop" => WholeData(sender.data))'
    <3> SUFFICES ASSUME sender.at # "pop" PROVE WholeData(sender.data)'
      BY <1>1
    <3>1. sender.data.msg \in Messages /\ sender.data.net \in Networks
      BY SenderAt DEF Base
    <3> QED BY <1>1, <1>2, <3>1 DEF Delivered, WholeData, TwiceStays
  <2> QED BY <1>1, <2>6, <2>7, <2>8 DEF Delivered
<1> QED BY <1>1, <1>3, <1>4

LEMMA DeliveredSender ==
    ASSUME Base, Delivered, ProcSender
    PROVE  Delivered'
<1>1. log' = log /\ SenderOK
  BY SenderStep DEF netVars, Base
<1>2. /\ \A k \in 1..Len(queue) : WholeData(queue[k])
      /\ sender.at # "pop" => WholeData(sender.data)
      /\ \A k \in 1..Len(handed) : WholeData(handed[k])
  BY DEF Delivered
<1>3. CASE Pop
  <2>1. /\ queue # <<>> /\ queue' = Tail(queue) /\ handed' = handed
        /\ sender'.data = Head(queue)
    BY <1>3 DEF Pop
  <2>2. /\ Head(queue) = queue[1] /\ 1 \in 1..Len(queue)
        /\ \A k \in 1..Len(queue') : queue'[k] = queue[k + 1] /\ k + 1 \in 1..Len(queue)
    BY <1>1, <2>1, PopFacts, PayloadOf
  <2>3. \A k \in 1..Len(queue') : WholeData(queue'[k])
    BY <1>2, <2>2
  <2>4. WholeData(sender'.data)
    BY <1>2, <2>1, <2>2
  <2> QED BY <1>1, <1>2, <2>1, <2>3, <2>4 DEF Delivered, WholeData, Twice
<1>4. CASE Duplicate
  BY <1>1, <1>2, <1>4 DEF Duplicate, Delivered, WholeData, Twice
<1>5. CASE FirstCopy \/ SendFails
  <2>1. /\ sender.at # "pop" /\ sender \in Sending /\ queue' = queue /\ handed' = handed
        /\ \/ sender' = [sender EXCEPT !.at = "send", !.since = now]
           \/ sender' = [sender EXCEPT !.tries = @ + 1]
    BY <1>1, <1>5, SenderAt DEF FirstCopy, SendFails
  <2>2. sender'.data = sender.data
    BY <2>1 DEF Sending
  <2> QED BY <1>1, <1>2, <2>1, <2>2 DEF Delivered, WholeData, Twice
<1>6. CASE SendWorks \/ GiveUp
  <2>1. sender.at # "pop" /\ \E result \in BOOLEAN : Done(result)
    BY <1>6 DEF SendWorks, GiveUp
  <2>2. PICK h : /\ Len(handed') = Len(handed) + 1
                 /\ \A k \in 1..Len(handed) : handed'[k] = handed[k]
                 /\ handed'[Len(handed) + 1] = h /\ h.msg = sender.data.msg
                 /\ h.net = sender.data.net /\ h.parts = sender.data.parts
                 /\ sender'.at = "pop" /\ queue' = queue
    BY <1>1, <2>1, DoneFacts
  <2>3. WholeData(h)
    BY <1>2, <2>1, <2>2 DEF WholeData
  <2>4. \A k \in 1..Len(handed') : WholeData(handed'[k])
    <3> SUFFICES ASSUME NEW k \in 1..Len(handed') PROVE WholeData(handed'[k])
      OBVIOUS
    <3>1. k \in 1..Len(handed) \/ k = Len(handed) + 1
      BY <2>2, PayloadOf
    <3> QED BY <1>2, <2>2, <2>3, <3>1
  <2> QED BY <1>1, <1>2, <2>2, <2>4 DEF Delivered, WholeData, Twice
<1> QED BY <1>3, <1>4, <1>5, <1>6 DEF ProcSender

LEMMA DeliveredInit == Init => Delivered
  BY DEF Init, Delivered

LEMMA DeliveredStep == ASSUME Base, Booked, Delivered, [Next]_vars PROVE Delivered'
<1>1. ASSUME NEW n \in Networks, Receive(n) PROVE Delivered'
  <2>1. TwiceStays /\ UNCHANGED <<queue, sender, handed>>
    <3>1. UNCHANGED <<queue, sender, handed>>
      BY <1>1, ReceiveKeeps
    <3>2. PICK m \in Messages : \E i \in Parts(n, m) : log' = Logged(n, m, i)
      BY <1>1, ReceiveKeeps
    <3>3. PICK i \in Parts(n, m) : log' = Logged(n, m, i)
      BY <3>2
    <3>4. TwiceStays
      BY <3>3, LoggedTwice DEF TwiceStays
    <3> QED BY <3>1, <3>4
  <2> QED BY <2>1, DeliveredStays
<1>2. ASSUME log' = log, UNCHANGED <<queue, sender, handed>> PROVE Delivered'
  <2>1. TwiceStays
    BY <1>2, SameLog DEF TwiceStays
  <2> QED BY <1>2, <2>1, DeliveredStays
<1>3. ASSUME NEW n \in Networks, CombineFragment(n) \/ Clear(n) PROVE Delivered'
  BY <1>2, <1>3, CombineFragmentKeeps, ClearKeeps
<1>4. ASSUME NEW n \in Networks, Route(n) PROVE Delivered'
  BY <1>4, DeliveredRoute
<1>5. CASE ProcSender
  BY <1>5, DeliveredSender
<1>6. CASE CleanDuplicateMap
  BY <1>2, <1>6, CleanDuplicateMapStep DEF netVars
<1>7. CASE Tick
  BY <1>2, <1>7, TickStep DEF netVars
<1>8. CASE UNCHANGED vars
  BY <1>2, <1>8 DEF vars
<1> QED BY <1>1, <1>3, <1>4, <1>5, <1>6, <1>7, <1>8 DEF Next

-----------------------------------------------------------------------------
(* The copies that passed the duplicate check.                             *)
LEMMA SeenTypes ==
    ASSUME Base
    PROVE  /\ now \in Int /\ DualClearTime \in Int
           /\ \A k \in DOMAIN seen : seen[k] \in Int
           /\ \A k \in 1..Len(handed) : handed[k].since \in Int
<1>1. \A x \in Clock : x \in Int
  BY DEF Clock
<1>2. \A k \in DOMAIN seen : seen[k] \in Clock
  BY PartialFacts DEF Base, SenderOK
<1>3. \A k \in 1..Len(handed) : handed[k].since \in Clock
  BY PayloadOf DEF Handed
<1> QED BY <1>1, <1>2, <1>3, Constants DEF Base

LEMMA FilteredStays ==
    ASSUME Filtered, UNCHANGED <<now, seen, handed>>,
           sender'.at = "send" => sender.at = "send" /\ sender'.data = sender.data /\ sender'.since = sender.since
    PROVE  Filtered'
  BY DEF Filtered, Remembered, CopiesApart

LEMMA FilteredFirstCopy ==
    ASSUME Base, Filtered, FirstCopy, now' = now
    PROVE  Filtered'
<1> SUFFICES ASSUME CsDuplicateCheck PROVE Filtered'
  BY DEF Filtered
<1>1. PICK m : m = sender.data.msg
  OBVIOUS
<1>2. /\ m \notin DOMAIN seen /\ seen' = With(seen, m, now) /\ handed' = handed
      /\ sender \in Sending /\ sender' = [sender EXCEPT !.at = "send", !.since = now]
  BY <1>1, SenderAt DEF FirstCopy, Base
<1>3. sender'.data.msg = m /\ sender'.since = now
  BY <1>1, <1>2 DEF Sending
<1>4. /\ m \in DOMAIN seen' /\ seen'[m] = now
      /\ DOMAIN seen' = DOMAIN seen \cup {m}
      /\ \A l \in DOMAIN seen : seen'[l] = seen[l]
  BY <1>2 DEF With
<1>5. /\ \A k \in 1..Len(handed) : Remembered(handed[k].msg, handed[k].since)
      /\ CopiesApart
  BY DEF Filtered
<1>6. ASSUME NEW k \in 1..Len(handed) PROVE Remembered(handed[k].msg, handed[k].since)'
  BY <1>2, <1>4, <1>5, <1>6, SeenTypes DEF Remembered
<1>7. ASSUME NEW k \in 1..Len(handed), handed[k].msg = m PROVE now - handed[k].since > DualClearTime
  BY <1>2, <1>5, <1>7, SeenTypes DEF Remembered
<1>8. Remembered(sender.data.msg, sender.since)'
  BY <1>3, <1>4, SeenTypes DEF Remembered
<1> QED BY <1>2, <1>3, <1>5, <1>6, <1>7, <1>8 DEF Filtered, CopiesApart

LEMMA FilteredDone ==
    ASSUME Base, Filtered, sender.at = "send", NEW result \in BOOLEAN, Done(result), now' = now
    PROVE  Filtered'
<1> SUFFICES ASSUME CsDuplicateCheck PROVE Filtered'
  BY DEF Filtered
<1>1. PICK h : /\ Len(handed') = Len(handed) + 1
               /\ \A k \in 1..Len(handed) : handed'[k] = handed[k]
               /\ handed'[Len(handed) + 1] = h
               /\ h.msg = sender.data.msg /\ h.since = sender.since
               /\ sender'.at = "pop" /\ seen' = seen
  BY DoneFacts DEF Base
<1>2. /\ \A k \in 1..Len(handed) : Remembered(handed[k].msg, handed[k].since)
      /\ Remembered(h.msg, h.since)
      /\ \A k \in 1..Len(handed) : handed[k].msg = h.msg => h.since - handed[k].since > DualClearTime
      /\ \A j, k \in 1..Len(handed) :
            j < k /\ handed[j].msg = handed[k].msg
                => handed[k].since - handed[j].since > DualClearTime
  BY <1>1 DEF Filtered, CopiesApart
<1>3. \A k \in 1..Len(handed') : k \in 1..Len(handed) \/ k = Len(handed) + 1
  BY <1>1, PayloadOf
<1>4. \A k \in 1..Len(handed') : Remembered(handed'[k].msg, handed'[k].since)
  BY <1>1, <1>2, <1>3
<1>5. ASSUME NEW j \in 1..Len(handed'), NEW k \in 1..Len(handed'), j < k,
             handed'[j].msg = handed'[k].msg
      PROVE  handed'[k].since - handed'[j].since > DualClearTime
  <2>1. j \in 1..Len(handed)
    BY <1>1, <1>5, PayloadOf
  <2>2. CASE k \in 1..Len(handed)
    BY <1>1, <1>2, <1>5, <2>1, <2>2
  <2>3. CASE k = Len(handed) + 1
    BY <1>1, <1>2, <1>5, <2>1, <2>3
  <2> QED BY <1>3, <2>2, <2>3
<1>6. CopiesApart'
  BY <1>5 DEF CopiesApart
<1> QED BY <1>1, <1>4, <1>6 DEF Filtered, Remembered

LEMMA FilteredSender ==
    ASSUME Base, Filtered, ProcSender
    PROVE  Filtered'
<1>1. now' = now /\ SenderOK
  BY SenderStep DEF Base
<1>2. CASE Pop \/ Duplicate
  <2> SUFFICES ASSUME CsDuplicateCheck PROVE Filtered'
    BY DEF Filtered
  <2>1. sender'.at # "send" /\ UNCHANGED <<seen, handed>>
    BY <1>2 DEF Pop, Duplicate
  <2> QED BY <1>1, <2>1, FilteredStays
<1>3. CASE FirstCopy
  BY <1>1, <1>3, FilteredFirstCopy
<1>4. CASE SendFails
  <2>1. sender.at = "send" /\ sender \in Sending /\ UNCHANGED <<seen, handed>>
        /\ sender' = [sender EXCEPT !.tries = @ + 1]
    BY <1>1, <1>4, SenderAt DEF SendFails
  <2>2. sender'.data = sender.data /\ sender'.since = sender.since
    BY <2>1 DEF Sending
  <2> QED BY <1>1, <2>1, <2>2, FilteredStays
<1>5. CASE SendWorks \/ GiveUp
  <2>1. sender.at = "send" /\ \E result \in BOOLEAN : Done(result)
    BY <1>5 DEF SendWorks, GiveUp
  <2> QED BY <1>1, <2>1, FilteredDone
<1> QED BY <1>2, <1>3, <1>4, <1>5 DEF ProcSender

LEMMA FilteredCleaned ==
    ASSUME Base, Filtered, CleanDuplicateMap
    PROVE  Filtered'
<1>1. /\ seen' = [k \in DOMAIN seen \ Old(seen, DualClearTime) |-> seen[k]]
      /\ UNCHANGED <<now, sender, handed>>
  BY DEF CleanDuplicateMap
<1>2. ASSUME NEW m, NEW since \in Int, Remembered(m, since)
      PROVE  /\ since <= now'
             /\ since < now' - DualClearTime \/ (IF m \in DOMAIN seen' THEN since <= seen'[m] ELSE FALSE)
  <2>1. since <= now
    BY <1>2 DEF Remembered
  <2>2. CASE since < now - DualClearTime
    BY <1>1, <2>1, <2>2
  <2>3. CASE m \in DOMAIN seen /\ since <= seen[m]
    <3>1. CASE seen[m] < now - DualClearTime
      BY <1>1, <2>1, <2>3, <3>1, SeenTypes
    <3>2. CASE ~(seen[m] < now - DualClearTime)
      BY <1>1, <2>1, <2>3, <3>2 DEF Old
    <3> QED BY <3>1, <3>2
  <2> QED BY <1>2, <2>2, <2>3 DEF Remembered
<1>3. \A k \in 1..Len(handed) : handed[k].since \in Int
  BY SeenTypes
<1>4. sender.at = "send" => sender.since \in Int
  BY SenderAt DEF Base, Clock
<1> QED BY <1>1, <1>2, <1>3, <1>4 DEF Filtered, Remembered, CopiesApart

LEMMA FilteredTick ==
    ASSUME Base, Filtered, now' = now + 1, UNCHANGED <<sender, seen, handed>>
    PROVE  Filtered'
<1>1. ASSUME NEW m, NEW since \in Int, Remembered(m, since)
      PROVE  /\ since <= now'
             /\ since < now' - DualClearTime \/ (IF m \in DOMAIN seen' THEN since <= seen'[m] ELSE FALSE)
  BY <1>1, SeenTypes DEF Remembered
<1>2. \A k \in 1..Len(handed) : handed[k].since \in Int
  BY SeenTypes
<1>3. sender.at = "send" => sender.since \in Int
  BY SenderAt DEF Base, Clock
<1> QED BY <1>1, <1>2, <1>3 DEF Filtered, Remembered, CopiesApart

LEMMA FilteredStep == ASSUME Base, Booked, Filtered, [Next]_vars PROVE Filtered'
<1>1. ASSUME NEW n \in Networks, Receive(n) \/ CombineFragment(n) \/ Route(n) \/ Clear(n)
      PROVE  Filtered'
  <2>1. UNCHANGED <<now, seen, handed, sender>>
    BY <1>1, ReceiveKeeps, CombineFragmentKeeps, RouteStep, ClearKeeps
  <2> QED BY <2>1, FilteredStays
<1>2. CASE ProcSender
  BY <1>2, FilteredSender
<1>3. CASE CleanDuplicateMap
  BY <1>3, FilteredCleaned
<1>4. CASE Tick
  BY <1>4, TickStep, FilteredTick
<1>5. CASE UNCHANGED vars
  BY <1>5, FilteredStays DEF vars
<1> QED BY <1>1, <1>2, <1>3, <1>4, <1>5 DEF Next

LEMMA FilteredInit == Init => Filtered
<1> SUFFICES ASSUME Init PROVE Filtered
  OBVIOUS
<1>1. Len(handed) = 0 /\ sender.at = "pop"
  BY DEF Init
<1> QED BY <1>1 DEF Filtered, CopiesApart

-----------------------------------------------------------------------------
(* All of it holds in every state.                                         *)
IInv == Base /\ Booked /\ Delivered /\ Filtered

LEMMA Inductive == Spec => []IInv
<1>1. Init => IInv
  BY BaseInit, BookedInit, DeliveredInit, FilteredInit DEF IInv
<1>2. IInv /\ [Next]_vars => IInv'
  BY BookedStep, DeliveredStep, FilteredStep DEF IInv
<1> QED BY <1>1, <1>2, PTL DEF Spec

(* The types of the receivers, their maps and the sender: of an entry of   *)
(* the combination map too, the count never above what is missing.         *)
THEOREM TypeCorrect == Spec => []TypeOK
<1>1. IInv => TypeOK
  <2> SUFFICES ASSUME Base PROVE TypeOK
    BY DEF IInv
  <2>1. ReceiversOK /\ TimesOK /\ CombosOK /\ CleanersOK /\ AirOK /\ RepeatsOK /\ SenderOK /\ now \in Clock
    BY DEF Base, NetworksOK
  <2>2. ASSUME NEW n \in Networks
        PROVE  /\ receiver[n].at \in {"wait", "exist", "insert", "store", "combine", "forget", "route"}
               /\ receiver[n].at # "wait" =>
                     receiver[n].msg \in Messages /\ receiver[n].part \in Parts(n, receiver[n].msg)
               /\ times[n] \in Partial(Clock)
               /\ DOMAIN combos[n] \subseteq Messages
               /\ cleaner[n].at \in {"search", "erase", "forget"}
    <3>1. receiver[n].at \in {"wait"} \cup Places
      BY <2>1 DEF ReceiversOK, Idle, Busy
    <3>2. receiver[n].at # "wait" =>
             receiver[n].msg \in Messages /\ receiver[n].part \in Parts(n, receiver[n].msg)
      BY <2>1, <3>1, AtPlace
    <3>3. times[n] \in Partial(Clock) /\ combos[n] \in Partial(Combo)
      BY <2>1 DEF TimesOK, CombosOK
    <3>4. DOMAIN combos[n] \subseteq Messages
      BY <3>3, PartialFacts
    <3>5. cleaner[n].at \in {"search", "erase", "forget"}
      BY <2>1 DEF CleanersOK, Searching, Cleaning
    <3> QED BY <3>1, <3>2, <3>3, <3>4, <3>5 DEF Places
  <2>3. ASSUME NEW n \in Networks, NEW m \in DOMAIN combos[n]
        PROVE  /\ combos[n][m] \in Combo
               /\ combos[n][m].parts \subseteq Parts(n, m)
               /\ combos[n][m].left <= Size[n][m] - Cardinality(combos[n][m].parts)
    BY <2>1, PartialFacts DEF CombosOK, ComboOK
  <2>4. \A n \in Networks : air[n] \subseteq Fragments(n) /\ repeats[n] \in 0..MaxRepeats[n]
    BY <2>1, Constants DEF AirOK, RepeatsOK
  <2>5. sender.at \in {"pop", "check", "send"}
    BY <2>1 DEF SenderOK, Waiting, Sending
  <2> QED BY <2>1, <2>2, <2>3, <2>4, <2>5 DEF TypeOK, SenderOK
<1> QED BY <1>1, Inductive, PTL

(* What is queued or handed on lacks a part only if its network brought a  *)
(* fragment of it twice, whatever the cleaning does between two steps of   *)
(* combineFragment.                                                        *)
THEOREM WholeUnlessRepeated == Spec => []HolesOnlyFromRepeats
<1>1. IInv => HolesOnlyFromRepeats
  BY DEF IInv, Delivered, WholeData, HolesOnlyFromRepeats
<1> QED BY <1>1, Inductive, PTL

(* Once the last fragment is dealt with, no more than the clear time after *)
(* the first, nothing of the message is left in the maps.                  *)
THEOREM PromptOnesCombined == Spec => []PromptCombined
<1>1. IInv => PromptCombined
  <2> SUFFICES ASSUME Base, Booked, NEW n \in Networks, NEW m \in Messages,
                      receiver[n].at = "wait", Arrived(n, m), now - log[n][m].first <= ClearTime
               PROVE  m \notin DOMAIN combos[n] \cup DOMAIN times[n]
    BY DEF IInv, PromptCombined
  <2>1. /\ ~Twice(n, m) /\ Came(n, m) = Parts(n, m) /\ Came(n, m) # {} /\ Size[n][m] \in Nat
    <3>1. \A i \in Parts(n, m) : log[n][m].came[i] = 1
      BY DEF Arrived
    <3>2. Size[n][m] \in Nat /\ Size[n][m] > 0
      BY Constants DEF Arrived
    <3>3. 1 \in Parts(n, m)
      BY <3>2 DEF Parts
    <3> QED BY <3>1, <3>2, <3>3 DEF Twice, Came
  <2>2. ~Holds(n, m)
    BY DEF Holds
  <2>3. CASE Size[n][m] > 1
    BY <2>1, <2>2, <2>3 DEF Booked, Stored
  <2>4. CASE ~(Size[n][m] > 1)
    BY <2>4 DEF Booked, Dated
  <2> QED BY <2>3, <2>4
<1> QED BY <1>1, Inductive, PTL

(* With the duplicate check, copies of one message reach the programs more *)
(* than the clear time of the duplicate map apart.                         *)
THEOREM CopiesKeptApart == Spec => []CopiesApart
<1>1. IInv => CopiesApart
  BY DEF IInv, Filtered, CopiesApart
<1> QED BY <1>1, Inductive, PTL

=============================================================================
