------------------------ MODULE OperatorThread_proofs -------------------------
(***************************************************************************)
(* Theorems about OperatorThread, for any number of operators, sizes of    *)
(* tuple set lists they take, bounds on buffers and numbers of tuple sets. *)
(***************************************************************************)
EXTENDS OperatorThread, SequenceTheorems, TLAPS

Numbers == 0..Modulus - 1

Labels == {"new", "top", "test", "look", "sleepy", "waiting", "awake",
           "woken", "process", "firing", "exited"}

(* TypeOK, with the buffers as functions.                                  *)
Types ==
    /\ pc \in [Ops -> Labels]
    /\ buffer \in [Ops -> Seq(Numbers)] /\ \A i \in Ops : Len(buffer[i]) <= MaxBuffer + 1
    /\ ts \in [Ops -> Seq(Numbers)]
    /\ dataReady \in [Ops -> BOOLEAN] /\ exitFlag \in [Ops -> BOOLEAN]
    /\ isReady \in [Ops -> BOOLEAN] /\ raw \in [Ops -> BOOLEAN]
    /\ phase \in [Ops -> {"live", "destroying", "deleted", "abandoned"}]
    /\ deliver \in [Deliverers -> [step : {"none", "push", "flag", "signal"}, set : Numbers]]
    /\ made \in [Deliverers -> Numbers]
    /\ got \in [Ops -> Numbers]
    /\ exec \in [step : {"start", "await", "running", "exit", "flag", "signal", "destroy",
                         "delete", "gone"}, op : Ops]

(* A delivery that has not pushed yet finds room.                          *)
Room == \A i \in Ops : deliver[i - 1].step = "push" => Len(buffer[i]) <= MaxBuffer

(* Threads are started in the order of opeList.                            *)
Starting ==
    \A i \in Ops : pc[i] = "new" <=> exec.step = "start" /\ exec.op <= i

(* An operator has tuple sets while it processes them and hands on the     *)
(* result, and is in a delivery exactly while it hands it on; the last one *)
(* has nobody to hand it to.                                               *)
Carrying ==
    \A i \in Ops :
        /\ ts[i] # <<>> <=> pc[i] \in {"process", "firing"}
        /\ deliver[i].step # "none" <=> pc[i] = "firing"
        /\ i = NOps => pc[i] # "firing"

(* How far exitExecuter is with exit_flag and with the deletions, and what *)
(* the removal of the listener stops.                                      *)
Exiting ==
    /\ \A i \in Ops :
          /\ exitFlag[i] <=> \/ exec.step = "exit" /\ i < exec.op
                             \/ exec.step \in {"flag", "signal"} /\ i <= exec.op
                             \/ exec.step \in {"destroy", "delete", "gone"}
          /\ Gone(i) <=> \/ exec.step \in {"destroy", "delete"} /\ i < exec.op
                         \/ exec.step = "gone"
          /\ phase[i] = "destroying" <=> exec.step = "delete" /\ i = exec.op
    /\ phase[1] # "live" => deliver[Stream].step = "none"

Inv == /\ Types /\ Room /\ Starting /\ Carrying /\ Exiting
       /\ RawNeverForwarded /\ NoUseAfterDelete

LEMMA Basics ==
    /\ NOps \in Nat /\ 1 \in Ops /\ NOps \in Ops
    /\ Stream = 0 /\ Deliverers = 0..NOps
    /\ \A i \in Ops : /\ i \in Nat /\ i \in Deliverers /\ i - 1 \in Deliverers
                      /\ i # Stream /\ i <= NOps /\ i >= 1
    /\ \A d \in Deliverers : /\ d # Stream => d \in Ops
                             /\ d # NOps => d + 1 \in Ops /\ (d + 1) - 1 = d
    /\ \A i \in Ops, d \in Deliverers : i - 1 = d <=> i = d + 1
    /\ MaxBuffer \in Nat /\ MaxBuffer >= 1 /\ Modulus \in Nat /\ Modulus > 4
    /\ 0 \in Numbers /\ \A k \in Nat : k % Modulus \in Numbers
  BY ThreadAssumption DEF Ops, Deliverers, Stream, Numbers

LEMMA InvInit == Init => Inv
<1> SUFFICES ASSUME Init PROVE Inv
  OBVIOUS
<1> USE Basics DEF Init, NoDelivery
<1>1. Types
  BY DEF Types, Labels, Numbers
<1>2. Room
  BY DEF Room
<1>3. Starting
  BY DEF Starting
<1>4. Carrying
  BY DEF Carrying
<1>5. Exiting
  BY DEF Exiting, Gone
<1>6. RawNeverForwarded
  BY DEF RawNeverForwarded
<1>7. NoUseAfterDelete
  BY DEF NoUseAfterDelete, Gone
<1> QED BY <1>1, <1>2, <1>3, <1>4, <1>5, <1>6, <1>7 DEF Inv

(* A step of a thread that has no tuple sets in hand and takes none. *)
LEMMA ThreadStep ==
  ASSUME Inv, NEW i \in Ops, NEW l \in Labels \ {"new", "process", "firing"},
         pc[i] \notin {"new", "process", "firing", "exited"}, ~Gone(i),
         pc' = [pc EXCEPT ![i] = l],
         dataReady' \in [Ops -> BOOLEAN], isReady' \in [Ops -> BOOLEAN],
         UNCHANGED <<ts, raw, got, buffer, exitFlag, phase, deliver, made, exec>>
  PROVE  Inv'
<1> USE Basics DEF Inv
<1>1. Types'
  BY DEF Types, Labels
<1>2. Room'
  BY DEF Types, Room
<1>3. Starting'
  BY DEF Types, Starting, Labels
<1>4. Carrying'
  BY DEF Types, Carrying, Labels
<1>5. Exiting'
  BY DEF Types, Exiting, Gone
<1>6. RawNeverForwarded'
  BY DEF Types, RawNeverForwarded, Carrying, Exiting, Gone
<1>7. NoUseAfterDelete'
  <2>1. \A j \in Ops : j = i \/ pc'[j] = pc[j]
    BY DEF Types
  <2>2. \A j \in Ops : Gone(j)' <=> Gone(j)
    BY DEF Gone
  <2>3. phase' = phase /\ deliver' = deliver
    OBVIOUS
  <2>4. NoUseAfterDelete /\ ~Gone(i)
    OBVIOUS
  <2> QED BY ONLY <2>1, <2>2, <2>3, <2>4 DEF NoUseAfterDelete
<1> QED BY <1>1, <1>2, <1>3, <1>4, <1>5, <1>6, <1>7

(* A step of the executer that leaves threads and objects alone and moves  *)
(* to a place where as much has been told to exit and deleted.             *)
LEMMA ExecStep ==
  ASSUME Inv, exec' \in [step : {"await", "running", "exit"}, op : Ops],
         exec.step \in {"await", "running"}, exec'.step = "exit" => exec'.op = 1,
         UNCHANGED <<objVars, buffer, exitFlag, phase, deliver, made>>
  PROVE  Inv'
<1> USE Basics DEF Inv
<1> USE DEF objVars
<1>1. Types'
  BY DEF Types, Labels
<1>2. Room'
  BY DEF Types, Room
<1>3. Starting'
  BY DEF Types, Starting, Labels
<1>4. Carrying'
  BY DEF Types, Carrying, Labels
<1>5. Exiting'
  <2>1. \A i \in Ops : ~exitFlag[i] /\ ~Gone(i) /\ phase[i] # "destroying"
    BY DEF Exiting, Gone
  <2>2. \A i \in Ops : ~(exec'.step = "exit" /\ i < exec'.op)
    OBVIOUS
  <2>3. exec'.step \in {"await", "running", "exit"}
    OBVIOUS
  <2>4. (phase[1] # "live" => deliver[Stream].step = "none")
    BY DEF Exiting, Gone
  <2>5. exitFlag' = exitFlag /\ phase' = phase /\ deliver' = deliver
    OBVIOUS
  <2> QED BY ONLY <2>1, <2>2, <2>3, <2>4, <2>5 DEF Exiting, Gone
<1>6. RawNeverForwarded'
  BY DEF Types, RawNeverForwarded, Carrying, Exiting, Gone
<1>7. NoUseAfterDelete'
  BY DEF Types, NoUseAfterDelete, Carrying, Exiting, Labels, Gone
<1> QED BY <1>1, <1>2, <1>3, <1>4, <1>5, <1>6, <1>7

LEMMA StreamOffersKeepsInv ==
  ASSUME Inv, StreamOffers PROVE Inv'
<1> USE Basics DEF Inv
<1>f. made[Stream] + 1 \in Nat
  <2>1. made \in [Deliverers -> Numbers] /\ Stream \in Deliverers
    BY ONLY Inv, Basics DEF Inv, Types, Deliverers
  <2>2. made[Stream] \in Numbers
    BY ONLY <2>1
  <2>3. Modulus \in Nat
    BY Basics
  <2> HIDE DEF Inv
  <2> QED BY ONLY <2>2, <2>3 DEF Numbers
<1>g. NextNumber(made[Stream]) \in Numbers
  BY ONLY <1>f, Basics DEF NextNumber
<1> DEFINE n == NextNumber(made[Stream])
<1>a. n \in Numbers
  BY <1>g
<1>e. \A i \in Ops : i - 1 = Stream <=> i = 1
  OBVIOUS
<1>b. /\ phase[1] = "live" /\ deliver[Stream].step = "none"
      /\ deliver' = [deliver EXCEPT ![Stream] = [step |-> "push", set |-> n]]
      /\ made' = [made EXCEPT ![Stream] = n]
      /\ Len(buffer[1]) <= MaxBuffer
  BY DEF StreamOffers, Offer, Schedulable, Types
<1>c. UNCHANGED <<pc, ts, dataReady, isReady, raw, got, buffer, exitFlag, phase, exec>>
  BY DEF StreamOffers, objVars
<1> HIDE DEF n
<1>1. Types'
  BY <1>a, <1>b, <1>c, <1>e DEF Types, Labels
<1>2. Room'
  BY <1>a, <1>b, <1>c, <1>e DEF Types, Room
<1>3. Starting'
  BY <1>a, <1>b, <1>c, <1>e DEF Types, Starting, Labels
<1>4. Carrying'
  BY <1>a, <1>b, <1>c, <1>e DEF Types, Carrying, Labels
<1>5. Exiting'
  BY <1>a, <1>b, <1>c, <1>e DEF Types, Exiting, Gone
<1>6. RawNeverForwarded'
  BY <1>a, <1>b, <1>c, <1>e DEF Types, RawNeverForwarded, Carrying, Exiting, Gone
<1>7. NoUseAfterDelete'
  <2>1. \A j \in Ops : j - 1 \in Deliverers /\ (j # 1 => deliver'[j - 1] = deliver[j - 1])
    BY <1>b, <1>e DEF Types
  <2>2. \A j \in Ops : Gone(j)' <=> Gone(j)
    BY <1>c DEF Gone
  <2>3. phase' = phase /\ pc' = pc /\ ~Gone(1)
    BY <1>b, <1>c DEF Gone
  <2>4. NoUseAfterDelete
    OBVIOUS
  <2> QED BY ONLY <2>1, <2>2, <2>3, <2>4 DEF NoUseAfterDelete
<1> QED BY <1>1, <1>2, <1>3, <1>4, <1>5, <1>6, <1>7

(* A delivery goes on, from its push or from the flag. *)
LEMMA DeliveryStep ==
  ASSUME Inv, NEW d \in Deliverers, NEW s \in {"flag", "signal"},
         deliver[d].step \in {"push", "flag"},
         deliver' \in [Deliverers -> [step : {"none", "push", "flag", "signal"}, set : Numbers]],
         \A e \in Deliverers : deliver'[e].step = IF e = d THEN s ELSE deliver[e].step,
         dataReady' \in [Ops -> BOOLEAN], buffer' \in [Ops -> Seq(Numbers)],
         \A j \in Ops : Len(buffer'[j]) <= MaxBuffer + 1,
         \A j \in Ops : j # d + 1 => buffer'[j] = buffer[j],
         UNCHANGED <<pc, ts, isReady, raw, got, exitFlag, phase, made, exec>>
  PROVE  Inv'
<1>1. Types'
  BY DEF Inv, Types
<1>e. \A i \in Ops : i - 1 \in Deliverers /\ i \in Deliverers
  BY Basics
<1>n. \A e \in Deliverers : deliver'[e].step = "none" <=> deliver[e].step = "none"
  OBVIOUS
<1>u. /\ pc' = pc /\ ts' = ts /\ raw' = raw /\ exitFlag' = exitFlag
      /\ phase' = phase /\ exec' = exec
  OBVIOUS
<1>2. Room'
  <2> SUFFICES ASSUME NEW i \in Ops, deliver'[i - 1].step = "push"
               PROVE  Len(buffer'[i]) <= MaxBuffer
    BY DEF Room
  <2>1. i - 1 \in Deliverers
    BY <1>e
  <2>2. i - 1 # d
    BY <2>1
  <2>3. i # d + 1
    BY ONLY <2>2, Basics, i \in Ops, d \in Deliverers
  <2>4. deliver[i - 1].step = "push"
    BY <2>1, <2>2
  <2>5. buffer'[i] = buffer[i]
    BY <2>3
  <2> QED BY ONLY <2>4, <2>5, Inv, i \in Ops DEF Inv, Room
<1>3. Starting'
  BY ONLY Inv, <1>u DEF Inv, Starting
<1>4. Carrying'
  BY ONLY Inv, <1>u, <1>n, <1>e DEF Inv, Carrying
<1>5. Exiting'
  <2>1. Stream \in Deliverers /\ (deliver[Stream].step = "none" => deliver'[Stream].step = "none")
    BY DEF Deliverers
  <2> QED BY <2>1 DEF Inv, Exiting, Gone
<1>6. RawNeverForwarded'
  BY ONLY Inv, <1>u DEF Inv, RawNeverForwarded
<1>7. NoUseAfterDelete'
  <2>1. \A e \in Deliverers : deliver[e].step = "none" => deliver'[e].step = "none"
    OBVIOUS
  <2> QED BY <2>1, Basics DEF Inv, NoUseAfterDelete, Gone
<1> QED BY <1>1, <1>2, <1>3, <1>4, <1>5, <1>6, <1>7 DEF Inv

(* A delivery under way is one to an operator.                             *)
LEMMA HasTarget ==
  ASSUME Inv, NEW d \in Deliverers, deliver[d].step # "none"
  PROVE  /\ d + 1 \in Ops /\ d = (d + 1) - 1
         /\ d # Stream => d \in Ops /\ pc[d] = "firing"
<1>1. d # NOps
  BY Basics DEF Inv, Carrying
<1> QED BY <1>1, Basics DEF Inv, Carrying

LEMMA StepSet ==
  ASSUME Inv, NEW d \in Deliverers, NEW s \in {"flag", "signal"},
         deliver' = [deliver EXCEPT ![d].step = s]
  PROVE  /\ deliver' \in [Deliverers -> [step : {"none", "push", "flag", "signal"}, set : Numbers]]
         /\ \A e \in Deliverers : deliver'[e].step = IF e = d THEN s ELSE deliver[e].step
<1>1. deliver \in [Deliverers -> [step : {"none", "push", "flag", "signal"}, set : Numbers]]
  BY DEF Inv, Types
<1>2. deliver' = [deliver EXCEPT ![d].step = s]
  OBVIOUS
<1> QED BY ONLY <1>1, <1>2, s \in {"flag", "signal"}, d \in Deliverers

LEMMA PushKeepsInv == ASSUME Inv, NEW d \in Deliverers, DeliverPush(d) PROVE Inv'
<1>1. d + 1 \in Ops /\ d = (d + 1) - 1
  BY HasTarget DEF DeliverPush
<1>2. buffer[d + 1] \in Seq(Numbers) /\ deliver[d].set \in Numbers
  BY <1>1 DEF Inv, Types
<1>3. Len(buffer[d + 1]) <= MaxBuffer
  BY <1>1 DEF DeliverPush, Inv, Room
<1>a. /\ Append(buffer[d + 1], deliver[d].set) \in Seq(Numbers)
      /\ Len(Append(buffer[d + 1], deliver[d].set)) = Len(buffer[d + 1]) + 1
  BY <1>2
<1>4. /\ Append(buffer[d + 1], deliver[d].set) \in Seq(Numbers)
      /\ Len(Append(buffer[d + 1], deliver[d].set)) <= MaxBuffer + 1
  BY <1>a, <1>2, <1>3, Basics
<1>5. /\ buffer' \in [Ops -> Seq(Numbers)]
      /\ \A j \in Ops : Len(buffer'[j]) <= MaxBuffer + 1
      /\ \A j \in Ops : j # d + 1 => buffer'[j] = buffer[j]
  BY <1>1, <1>4 DEF DeliverPush, Inv, Types
<1> QED BY <1>5, StepSet, DeliveryStep DEF DeliverPush, objVars, Inv, Types

LEMMA FlagKeepsInv == ASSUME Inv, NEW d \in Deliverers, DeliverFlag(d) PROVE Inv'
<1>1. d + 1 \in Ops
  BY HasTarget DEF DeliverFlag
<1>2. dataReady' \in [Ops -> BOOLEAN]
  BY <1>1 DEF DeliverFlag, Inv, Types
<1> QED BY <1>2, StepSet, DeliveryStep DEF DeliverFlag, Inv, Types

(* Who cond.notify_one wakes.                                              *)
LEMMA WokenThread ==
  ASSUME Inv, NEW j \in Ops
  PROVE  /\ Woken(j) \in [Ops -> Labels]
         /\ \A i \in Ops : \/ Woken(j)[i] = pc[i]
                           \/ i = j /\ pc[i] = "waiting" /\ Woken(j)[i] = "awake"
<1>1. pc \in [Ops -> Labels]
  BY DEF Inv, Types
<1>2. CASE pc[j] = "waiting"
  <2>1. Woken(j) = [pc EXCEPT ![j] = "awake"]
    BY ONLY <1>2 DEF Woken
  <2>2. "awake" \in Labels
    BY DEF Labels
  <2> QED BY ONLY <1>1, <1>2, <2>1, <2>2, j \in Ops
<1>3. CASE pc[j] # "waiting"
  <2>1. Woken(j) = pc
    BY ONLY <1>3 DEF Woken
  <2> QED BY ONLY <1>1, <2>1
<1> QED BY ONLY <1>2, <1>3

LEMMA LastIsNumber ==
  ASSUME NEW s \in Seq(Numbers), s # <<>> PROVE s[Len(s)] \in Numbers
<1>1. Len(s) \in 1..Len(s)
  OBVIOUS
<1> QED BY <1>1

(* The end of a delivery: what d, an operator, had in hand is done with.   *)
LEMMA DeliveryEnds ==
  ASSUME Inv, NEW d \in Deliverers, deliver[d].step = "signal",
         d \in Ops => ~Gone(d), ~Gone(d + 1),
         pc' \in [Ops -> Labels], ts' \in [Ops -> Seq(Numbers)], got' \in [Ops -> Numbers],
         deliver' = [deliver EXCEPT ![d] = NoDelivery],
         \A i \in Ops :
            IF i = d THEN pc'[i] = "top" /\ ts'[i] = <<>>
            ELSE /\ ts'[i] = ts[i]
                 /\ \/ pc'[i] = pc[i]
                    \/ i = d + 1 /\ pc[i] = "waiting" /\ pc'[i] = "awake",
         UNCHANGED <<dataReady, isReady, raw, buffer, exitFlag, phase, made, exec>>
  PROVE  Inv'
<1>d. deliver \in [Deliverers -> [step : {"none", "push", "flag", "signal"}, set : Numbers]]
  BY DEF Inv, Types
<1>e. \A i \in Ops : i - 1 \in Deliverers /\ i \in Deliverers
  BY Basics
<1>n. \A e \in Deliverers : deliver'[e].step = IF e = d THEN "none" ELSE deliver[e].step
  BY ONLY <1>d, d \in Deliverers, deliver' = [deliver EXCEPT ![d] = NoDelivery] DEF NoDelivery
<1>u. /\ raw' = raw /\ exitFlag' = exitFlag /\ buffer' = buffer
      /\ phase' = phase /\ exec' = exec
  OBVIOUS
<1>t. d + 1 \in Ops /\ d = (d + 1) - 1 /\ (d \in Ops => pc[d] = "firing")
  <2>1. d \in Ops => d # Stream
    BY Basics
  <2> QED BY <2>1, HasTarget
<1>p. \A i \in Ops :
        \/ i = d /\ pc[i] = "firing" /\ pc'[i] = "top" /\ ts'[i] = <<>>
        \/ /\ i # d /\ ts'[i] = ts[i] /\ pc'[i] = pc[i]
        \/ /\ i # d /\ ts'[i] = ts[i] /\ i = d + 1 /\ pc[i] = "waiting" /\ pc'[i] = "awake"
  BY <1>t
<1>1. Types'
  <2>1. deliver' \in [Deliverers -> [step : {"none", "push", "flag", "signal"}, set : Numbers]]
    BY <1>d, Basics DEF NoDelivery
  <2> QED BY <2>1 DEF Inv, Types
<1>2. Room'
  BY ONLY Inv, <1>u, <1>n, <1>e DEF Inv, Room
<1>3. Starting'
  BY ONLY Inv, <1>u, <1>p DEF Inv, Starting
<1>4. Carrying'
  BY ONLY Inv, <1>n, <1>e, <1>p DEF Inv, Carrying
<1>5. Exiting'
  <2>1. deliver[Stream].step = "none" => deliver'[Stream].step = "none"
    BY <1>n DEF Deliverers
  <2> QED BY ONLY Inv, <2>1, <1>u DEF Inv, Exiting, Gone
<1>6. RawNeverForwarded'
  BY ONLY Inv, <1>u, <1>p DEF Inv, RawNeverForwarded
<1>7. NoUseAfterDelete'
  <2>1. ~Gone(d + 1)
    OBVIOUS
  <2>2. d \in Ops => ~Gone(d)
    OBVIOUS
  <2> QED BY ONLY Inv, <1>u, <1>p, <1>n, <1>e, <2>1, <2>2 DEF Inv, NoUseAfterDelete, Gone
<1> QED BY <1>1, <1>2, <1>3, <1>4, <1>5, <1>6, <1>7 DEF Inv

LEMMA SignalKeepsInv == 
  ASSUME Inv, NEW d \in Deliverers, d \in Ops => ~Gone(d), d + 1 \in Ops => ~Gone(d + 1),
         DeliverSignal(d)
  PROVE  Inv'
<1>1. d + 1 \in Ops /\ (d # Stream => d \in Ops /\ pc[d] = "firing")
  BY HasTarget DEF DeliverSignal
<1>2. d # d + 1 /\ (d \in Ops => d # Stream)
  BY Basics
<1>t. ts \in [Ops -> Seq(Numbers)] /\ got \in [Ops -> Numbers]
  BY DEF Inv, Types
<1>3. CASE d = Stream
  <2>1. pc' = Woken(d + 1) /\ ts' = ts /\ got' = got
    BY <1>3 DEF DeliverSignal
  <2>2. pc' \in [Ops -> Labels]
    BY <1>1, <2>1, WokenThread
  <2>3. \A i \in Ops : /\ i # d /\ ts'[i] = ts[i]
                       /\ \/ pc'[i] = pc[i]
                          \/ i = d + 1 /\ pc[i] = "waiting" /\ pc'[i] = "awake"
    BY <1>1, <1>2, <1>3, <2>1, WokenThread
  <2>4. ~Gone(d + 1)
    BY <1>1
  <2>5. \A i \in Ops :
          IF i = d THEN pc'[i] = "top" /\ ts'[i] = <<>>
          ELSE /\ ts'[i] = ts[i]
               /\ \/ pc'[i] = pc[i]
                  \/ i = d + 1 /\ pc[i] = "waiting" /\ pc'[i] = "awake"
    BY <2>3
  <2>6. /\ deliver[d].step = "signal" /\ deliver' = [deliver EXCEPT ![d] = NoDelivery]
        /\ UNCHANGED <<dataReady, isReady, raw, buffer, exitFlag, phase, made, exec>>
    BY DEF DeliverSignal
  <2> QED BY <2>1, <2>2, <2>4, <2>5, <2>6, <1>t, DeliveryEnds
<1>4. CASE d # Stream
  <2>0. d \in Ops /\ pc[d] = "firing"
    BY <1>1, <1>4
  <2>1. /\ pc' = [Woken(d + 1) EXCEPT ![d] = "top"]
        /\ got' = [got EXCEPT ![d] = ts[d][Len(ts[d])]]
        /\ ts' = [ts EXCEPT ![d] = <<>>]
    BY <1>4 DEF DeliverSignal
  <2>2. ts[d] \in Seq(Numbers) /\ ts[d] # <<>>
    BY <2>0 DEF Inv, Types, Carrying
  <2>3. pc' \in [Ops -> Labels]
    BY <1>1, <2>1, WokenThread DEF Labels
  <2>4. got' \in [Ops -> Numbers]
    BY <2>1, <2>2, <1>t, LastIsNumber
  <2>9. <<>> \in Seq(Numbers)
    OBVIOUS
  <2>5. ts' \in [Ops -> Seq(Numbers)]
    BY ONLY <2>1, <2>9, <1>t
  <2>6. \A i \in Ops :
          IF i = d THEN pc'[i] = "top" /\ ts'[i] = <<>>
          ELSE /\ ts'[i] = ts[i]
               /\ \/ pc'[i] = pc[i]
                  \/ i = d + 1 /\ pc[i] = "waiting" /\ pc'[i] = "awake"
    BY <1>1, <2>1, <1>t, WokenThread
  <2>7. ~Gone(d + 1)
    BY <1>1
  <2>8. /\ deliver[d].step = "signal" /\ deliver' = [deliver EXCEPT ![d] = NoDelivery]
        /\ UNCHANGED <<dataReady, isReady, raw, buffer, exitFlag, phase, made, exec>>
    BY DEF DeliverSignal
  <2> QED BY <2>3, <2>4, <2>5, <2>6, <2>7, <2>8, DeliveryEnds
<1> QED BY <1>3, <1>4

(* Operator i takes n tuple sets to process them, or drops what it has.    *)
LEMMA HandStep ==
  ASSUME Inv, NEW i \in Ops, pc[i] \in {"woken", "process"},
         NEW l \in {"top", "process"}, NEW s \in Seq(Numbers),
         s # <<>> <=> l = "process",
         pc' = [pc EXCEPT ![i] = l], ts' = [ts EXCEPT ![i] = s],
         got' \in [Ops -> Numbers], raw' \in [Ops -> BOOLEAN],
         buffer' \in [Ops -> Seq(Numbers)],
         \A j \in Ops : /\ Len(buffer'[j]) <= Len(buffer[j])
                        /\ j # i => raw'[j] = raw[j],
         UNCHANGED <<dataReady, isReady, exitFlag, phase, deliver, made, exec>>
  PROVE  Inv'
<1>u. /\ exitFlag' = exitFlag /\ phase' = phase /\ exec' = exec /\ deliver' = deliver
      /\ dataReady' = dataReady /\ isReady' = isReady /\ made' = made
  OBVIOUS
<1>t. /\ pc \in [Ops -> Labels] /\ ts \in [Ops -> Seq(Numbers)]
      /\ \A j \in Ops : Len(buffer[j]) <= MaxBuffer + 1 /\ buffer[j] \in Seq(Numbers)
  BY DEF Inv, Types
<1>l. l \in Labels
  BY DEF Labels
<1>p. \A j \in Ops :
        \/ j = i /\ pc[j] \in {"woken", "process"} /\ pc'[j] \in {"top", "process"}
           /\ (ts'[j] # <<>> <=> pc'[j] = "process")
        \/ j # i /\ ts'[j] = ts[j] /\ pc'[j] = pc[j] /\ raw'[j] = raw[j]
  BY <1>t
<1>b. \A j \in Ops : /\ Len(buffer[j]) \in Nat /\ Len(buffer'[j]) \in Nat
                     /\ Len(buffer'[j]) <= Len(buffer[j])
  BY <1>t
<1>m. MaxBuffer \in Nat
  BY Basics
<1>1. Types'
  <2>1. pc' \in [Ops -> Labels] /\ ts' \in [Ops -> Seq(Numbers)]
    BY <1>t, <1>l
  <2>2. \A j \in Ops : Len(buffer'[j]) <= MaxBuffer + 1
    BY ONLY <1>b, <1>t, <1>m
  <2> QED BY <2>1, <2>2, <1>u DEF Inv, Types
<1>2. Room'
  <2> SUFFICES ASSUME NEW j \in Ops, deliver'[j - 1].step = "push"
               PROVE  Len(buffer'[j]) <= MaxBuffer
    BY DEF Room
  <2>1. Len(buffer[j]) <= MaxBuffer
    BY <1>u DEF Inv, Room
  <2> QED BY ONLY <2>1, <1>b, <1>m, j \in Ops
<1>3. Starting'
  BY ONLY Inv, <1>u, <1>p DEF Inv, Starting
<1>4. Carrying'
  BY ONLY Inv, <1>u, <1>p DEF Inv, Carrying
<1>5. Exiting'
  BY ONLY Inv, <1>u DEF Inv, Exiting, Gone
<1>6. RawNeverForwarded'
  BY ONLY Inv, <1>p DEF Inv, RawNeverForwarded
<1>7. NoUseAfterDelete'
  BY ONLY Inv, <1>u, <1>p DEF Inv, NoUseAfterDelete, Gone
<1> QED BY <1>1, <1>2, <1>3, <1>4, <1>5, <1>6, <1>7 DEF Inv

LEMMA FinishKeepsInv ==
  ASSUME Inv, NEW i \in Ops, NEW isNext \in BOOLEAN, Finish(i, isNext) PROVE Inv'
<1>t. /\ ts \in [Ops -> Seq(Numbers)] /\ got \in [Ops -> Numbers]
      /\ raw \in [Ops -> BOOLEAN] /\ made \in [Deliverers -> Numbers]
      /\ pc \in [Ops -> Labels] /\ buffer \in [Ops -> Seq(Numbers)]
      /\ deliver \in [Deliverers -> [step : {"none", "push", "flag", "signal"}, set : Numbers]]
  BY DEF Inv, Types
<1>0. /\ pc[i] = "process" /\ raw' = [raw EXCEPT ![i] = phase[i] # "live"]
      /\ UNCHANGED <<dataReady, isReady, buffer, exitFlag, phase, exec>>
  BY DEF Finish
<1>r. raw' \in [Ops -> BOOLEAN] /\ \A j \in Ops : j # i => raw'[j] = raw[j]
  BY <1>0, <1>t
<1>1. CASE isNext /\ ~exitFlag[i] /\ i < NOps
  <2> DEFINE n == NextNumber(made[i])
  <2>0. /\ Schedulable(i + 1)
        /\ deliver' = [deliver EXCEPT ![i] = [step |-> "push", set |-> n]]
        /\ made' = [made EXCEPT ![i] = n]
        /\ pc' = [pc EXCEPT ![i] = "firing"]
        /\ got' = got /\ ts' = ts
    BY <1>1, <1>t DEF Finish, Offer, Goto
  <2>1. n \in Numbers
    <3>1. made[i] \in Numbers /\ Modulus \in Nat
      BY <1>t, Basics
    <3>2. made[i] + 1 \in Nat
      BY ONLY <3>1 DEF Numbers
    <3> QED BY ONLY <3>2, Basics DEF NextNumber
  <2> HIDE DEF n
  <2>2. Len(buffer[i + 1]) <= MaxBuffer /\ i + 1 \in Ops
    <3>1. i + 1 \in Ops
      BY <1>1, Basics DEF Ops
    <3>2. Len(buffer[i + 1]) \in Nat
      BY <3>1, <1>t
    <3>3. MaxBuffer \in Nat
      BY Basics
    <3> QED BY ONLY <2>0, <3>1, <3>2, <3>3 DEF Schedulable
  <2>3. i \in Deliverers /\ i # Stream /\ i # NOps
    BY <1>1, Basics
  <2>4. phase[i] = "live" /\ \A j \in Ops : ~Gone(j)
    <3>1. ~exitFlag[i] /\ i \in Ops
      BY <1>1
    <3>2. exec.step \notin {"destroy", "delete", "gone"}
      BY ONLY Inv, <3>1 DEF Inv, Exiting, Gone
    <3>3. \A j \in Ops : ~Gone(j) /\ phase[j] # "destroying"
      BY ONLY Inv, <3>2 DEF Inv, Exiting, Gone
    <3> QED BY <3>3 DEF Inv, Types, Gone
  <2>5. ~raw'[i]
    BY <1>0, <1>t, <2>4
  <2>n. \A e \in Deliverers :
          \/ e = i /\ deliver'[e].step = "push"
          \/ e # i /\ deliver'[e] = deliver[e]
    BY <2>0, <2>3, <1>t
  <2>p. \A j \in Ops :
          \/ j = i /\ pc[j] = "process" /\ pc'[j] = "firing" /\ ~raw'[j]
          \/ j # i /\ pc'[j] = pc[j] /\ raw'[j] = raw[j]
    BY <2>0, <1>0, <1>r, <1>t, <2>5
  <2>u. /\ exitFlag' = exitFlag /\ phase' = phase /\ exec' = exec /\ ts' = ts
        /\ dataReady' = dataReady /\ isReady' = isReady /\ buffer' = buffer /\ got' = got
    BY <1>0, <2>0
  <2>e. \A j \in Ops : /\ j \in Deliverers /\ j - 1 \in Deliverers
                       /\ j - 1 = i => j = i + 1
    BY Basics
  <2>6. Types'
    <3>1. pc' \in [Ops -> Labels] /\ made' \in [Deliverers -> Numbers]
      BY <2>0, <2>1, <1>t DEF Labels
    <3>2. deliver' \in [Deliverers -> [step : {"none", "push", "flag", "signal"}, set : Numbers]]
      BY <2>0, <2>1, <1>t
    <3> QED BY <3>1, <3>2, <1>r, <2>u DEF Inv, Types
  <2>7. Room'
    <3> SUFFICES ASSUME NEW j \in Ops, deliver'[j - 1].step = "push"
                 PROVE  Len(buffer[j]) <= MaxBuffer
      BY <2>u DEF Room
    <3>1. CASE j - 1 = i
      BY <3>1, <2>e, <2>2
    <3>2. CASE j - 1 # i
      <4>1. deliver[j - 1].step = "push"
        BY <3>2, <2>e, <2>n
      <4> QED BY <4>1 DEF Inv, Room
    <3> QED BY <3>1, <3>2
  <2>8. Starting'
    BY ONLY Inv, <2>u, <2>p DEF Inv, Starting
  <2>9. Carrying'
    BY ONLY Inv, <2>u, <2>p, <2>n, <2>e, <2>3 DEF Inv, Carrying
  <2>10. Exiting'
    <3>1. deliver[Stream].step = "none" => deliver'[Stream].step = "none"
      BY <2>n, <2>3 DEF Deliverers
    <3> QED BY ONLY Inv, <3>1, <2>u DEF Inv, Exiting, Gone
  <2>11. RawNeverForwarded'
    BY ONLY Inv, <2>p DEF Inv, RawNeverForwarded
  <2>12. NoUseAfterDelete'
    BY ONLY <2>4, <2>u DEF NoUseAfterDelete, Gone
  <2> QED BY <2>6, <2>7, <2>8, <2>9, <2>10, <2>11, <2>12 DEF Inv
<1>2. CASE ~(isNext /\ ~exitFlag[i] /\ i < NOps)
  <2>0. /\ got' = [got EXCEPT ![i] = ts[i][Len(ts[i])]]
        /\ ts' = [ts EXCEPT ![i] = <<>>]
        /\ pc' = [pc EXCEPT ![i] = "top"]
        /\ UNCHANGED <<deliver, made>>
    BY <1>2 DEF Finish, Goto
  <2>1. ts[i] \in Seq(Numbers) /\ ts[i] # <<>>
    BY <1>0, <1>t DEF Inv, Carrying
  <2>2. got' \in [Ops -> Numbers]
    BY <2>0, <2>1, <1>t, LastIsNumber
  <2>3. \A j \in Ops : /\ Len(buffer'[j]) <= Len(buffer[j])
                       /\ j # i => raw'[j] = raw[j]
    BY <1>0, <1>r, <1>t
  <2>4. /\ "top" \in {"top", "process"} /\ <<>> \in Seq(Numbers)
        /\ (<<>> # <<>> <=> "top" = "process") /\ buffer' = buffer
    BY <1>0
  <2> QED BY <1>0, <1>r, <1>t, <2>0, <2>2, <2>3, <2>4, HandStep
<1> QED BY <1>1, <1>2

LEMMA TakeKeepsInv == ASSUME Inv, NEW i \in Ops, ~Gone(i), Take(i) PROVE Inv'
<1>t. /\ buffer \in [Ops -> Seq(Numbers)] /\ raw \in [Ops -> BOOLEAN]
      /\ got \in [Ops -> Numbers] /\ ts \in [Ops -> Seq(Numbers)]
      /\ dataReady \in [Ops -> BOOLEAN] /\ isReady \in [Ops -> BOOLEAN]
  BY DEF Inv, Types
<1>0. /\ pc[i] = "woken"
      /\ UNCHANGED <<dataReady, isReady, raw, got, exitFlag, phase, deliver, made, exec>>
  BY DEF Take
<1>1. CASE exitFlag[i] \/ buffer[i] = <<>>
  <2>1. PICK l \in {"exited", "top"} :
          pc' = [pc EXCEPT ![i] = l] /\ ts' = ts /\ buffer' = buffer
    BY <1>1 DEF Take, Goto
  <2>2. l \in Labels \ {"new", "process", "firing"}
    BY DEF Labels
  <2> QED BY <1>t, <1>0, <2>1, <2>2, ThreadStep
<1>2. CASE ~(exitFlag[i] \/ buffer[i] = <<>>)
  <2> DEFINE n == IF Expect[i] = 0 \/ Len(buffer[i]) < Expect[i]
                  THEN Len(buffer[i]) ELSE Expect[i]
  <2>0. /\ ts' = [ts EXCEPT ![i] = SubSeq(buffer[i], 1, n)]
        /\ buffer' = [buffer EXCEPT ![i] = SubSeq(buffer[i], n + 1, Len(buffer[i]))]
        /\ pc' = [pc EXCEPT ![i] = "process"]
    BY <1>2, <1>t DEF Take, Goto
  <2>1. buffer[i] \in Seq(Numbers) /\ buffer[i] # <<>> /\ Expect[i] \in Nat
    BY <1>2, <1>t, ThreadAssumption
  <2>2. Len(buffer[i]) \in Nat /\ Len(buffer[i]) > 0
    BY <2>1
  <2>3. n \in 1..Len(buffer[i])
    BY <2>1, <2>2
  <2> HIDE DEF n
  <2>4. /\ SubSeq(buffer[i], 1, n) \in Seq(Numbers)
        /\ SubSeq(buffer[i], 1, n) # <<>>
    <3>1. Len(SubSeq(buffer[i], 1, n)) = n
      BY <2>1, <2>3
    <3>2. \A k \in 1..n : SubSeq(buffer[i], 1, n)[k] \in Numbers
      BY <2>1, <2>3
    <3>3. Len(SubSeq(buffer[i], 1, n)) # 0
      BY <3>1, <2>3
    <3> QED BY <3>3, <2>1, <2>3, SubSeqProperties
  <2>5. /\ SubSeq(buffer[i], n + 1, Len(buffer[i])) \in Seq(Numbers)
        /\ Len(SubSeq(buffer[i], n + 1, Len(buffer[i]))) <= Len(buffer[i])
    BY <2>1, <2>2, <2>3, SubSeqProperties
  <2>6. /\ buffer' \in [Ops -> Seq(Numbers)]
        /\ \A j \in Ops : j = i \/ buffer'[j] = buffer[j]
        /\ Len(buffer'[i]) <= Len(buffer[i])
    BY ONLY <2>0, <2>5, <1>t, i \in Ops
  <2>7. \A j \in Ops : /\ Len(buffer'[j]) <= Len(buffer[j])
                       /\ j # i => raw'[j] = raw[j]
    <3> TAKE j \in Ops
    <3>1. Len(buffer[j]) \in Nat
      BY <1>t
    <3>2. CASE j = i
      BY <3>2, <2>6
    <3>3. CASE j # i
      BY <3>1, <3>3, <2>6, <1>0
    <3> QED BY <3>2, <3>3
  <2>8. "process" \in {"top", "process"} /\ pc[i] \in {"woken", "process"}
    BY <1>0
  <2> QED BY <1>0, <1>t, <2>0, <2>4, <2>6, <2>7, <2>8, HandStep
<1> QED BY <1>1, <1>2

LEMMA ExecuteKeepsInv ==
  ASSUME Inv, NEW i \in Ops, Execute(i) \/ SpuriousWakeup(i) PROVE Inv'
<1>t. /\ dataReady \in [Ops -> BOOLEAN] /\ isReady \in [Ops -> BOOLEAN]
  BY DEF Inv, Types
<1>d. ~Gone(i)
  BY DEF Execute, SpuriousWakeup
<1>l. {"exited", "test", "woken", "look", "sleepy", "waiting", "awake"}
        \subseteq Labels \ {"new", "process", "firing"}
  BY DEF Labels
<1>1. CASE Top(i)
  <2>1. /\ pc[i] = "top" /\ dataReady' \in [Ops -> BOOLEAN] /\ isReady' \in [Ops -> BOOLEAN]
        /\ UNCHANGED <<ts, raw, got, buffer, exitFlag, phase, deliver, made, exec>>
    BY <1>1, <1>t DEF Top
  <2>2. PICK l \in {"exited", "test"} : pc' = [pc EXCEPT ![i] = l]
    BY <1>1 DEF Top, Goto
  <2> QED BY <2>1, <2>2, <1>d, <1>l, ThreadStep
<1>2. CASE Test(i)
  <2>1. /\ pc[i] = "test" /\ dataReady' \in [Ops -> BOOLEAN] /\ isReady' \in [Ops -> BOOLEAN]
        /\ UNCHANGED <<ts, raw, got, buffer, exitFlag, phase, deliver, made, exec>>
    BY <1>2, <1>t DEF Test
  <2>2. PICK l \in {"woken", "look"} : pc' = [pc EXCEPT ![i] = l]
    BY <1>2 DEF Test, Goto
  <2> QED BY <2>1, <2>2, <1>d, <1>l, ThreadStep
<1>3. CASE Look(i)
  <2>1. /\ pc[i] = "look" /\ dataReady' \in [Ops -> BOOLEAN] /\ isReady' \in [Ops -> BOOLEAN]
        /\ UNCHANGED <<ts, raw, got, buffer, exitFlag, phase, deliver, made, exec>>
    BY <1>3, <1>t DEF Look
  <2>2. PICK l \in {"woken", "sleepy"} : pc' = [pc EXCEPT ![i] = l]
    BY <1>3 DEF Look, Goto
  <2> QED BY <2>1, <2>2, <1>d, <1>l, ThreadStep
<1>4. CASE Sleep(i)
  BY <1>4, <1>t, <1>d, <1>l, ThreadStep DEF Sleep, Goto
<1>5. CASE Awake(i)
  <2>1. /\ pc[i] = "awake" /\ dataReady' \in [Ops -> BOOLEAN] /\ isReady' \in [Ops -> BOOLEAN]
        /\ UNCHANGED <<ts, raw, got, buffer, exitFlag, phase, deliver, made, exec>>
        /\ pc' = [pc EXCEPT ![i] = "test"]
    BY <1>5, <1>t DEF Awake, Goto
  <2> QED BY <2>1, <1>d, <1>l, ThreadStep
<1>6. CASE SpuriousWakeup(i)
  BY <1>6, <1>t, <1>d, <1>l, ThreadStep DEF SpuriousWakeup, Goto
<1>7. CASE Take(i)
  BY <1>7, <1>d, TakeKeepsInv
<1>8. CASE \E isNext \in BOOLEAN : Finish(i, isNext)
  BY <1>8, FinishKeepsInv
<1> QED BY <1>1, <1>2, <1>3, <1>4, <1>5, <1>6, <1>7, <1>8 DEF Execute

Steps == {"start", "await", "running", "exit", "flag", "signal", "destroy", "delete", "gone"}

(* The places of the executer, and the operators before and after it.      *)
LEMMA ExecFacts ==
  ASSUME Inv
  PROVE  /\ exec \in [step : Steps, op : Ops]
         /\ exec.op \in Ops /\ exec.step \in Steps
         /\ exec.op < NOps => exec.op + 1 \in Ops
         /\ ~(exec.op < NOps) => exec.op = NOps
         /\ \A i \in Ops : /\ ~(i < 1) /\ i <= NOps /\ 1 <= i
                           /\ i < exec.op + 1 <=> i <= exec.op
                           /\ i < exec.op + 1 <=> i < exec.op \/ i = exec.op
                           /\ i <= exec.op <=> i < exec.op \/ i = exec.op
                           /\ exec.op + 1 <= i <=> exec.op <= i /\ i # exec.op
<1>1. exec \in [step : Steps, op : Ops]
  BY DEF Inv, Types, Steps
<1>2. exec.op \in Ops
  BY <1>1
<1> HIDE DEF Inv
<1>n. NOps \in Nat
  BY Basics
<1>3. /\ exec.op < NOps => exec.op + 1 \in Ops
      /\ ~(exec.op < NOps) => exec.op = NOps
  BY ONLY <1>2, <1>n DEF Ops
<1>4. \A i \in Ops : /\ ~(i < 1) /\ i <= NOps /\ 1 <= i
                     /\ i < exec.op + 1 <=> i <= exec.op
                     /\ i < exec.op + 1 <=> i < exec.op \/ i = exec.op
                     /\ i <= exec.op <=> i < exec.op \/ i = exec.op
                     /\ exec.op + 1 <= i <=> exec.op <= i /\ i # exec.op
  BY ONLY <1>2, <1>n DEF Ops
<1> QED BY <1>1, <1>2, <1>3, <1>4

LEMMA StartKeepsInv == ASSUME Inv, StartOperator PROVE Inv'
<1> DEFINE o == exec.op
<1>a. /\ exec \in [step : Steps, op : Ops] /\ exec.step = "start" /\ o \in Ops
      /\ pc \in [Ops -> Labels]
  BY ExecFacts DEF StartOperator, Inv, Types
<1>b. /\ pc' = [pc EXCEPT ![o] = "top"]
      /\ UNCHANGED <<ts, dataReady, isReady, raw, got, buffer, exitFlag, phase, deliver, made>>
  BY DEF StartOperator, Goto
<1>c. \/ exec' = [step |-> "start", op |-> o + 1] /\ o + 1 \in Ops
      \/ exec' = [step |-> "await", op |-> 1] /\ o = NOps
  BY <1>a, ExecFacts DEF StartOperator
<1>o. pc[o] = "new" /\ \A i \in Ops : pc[i] = "new" <=> o <= i
  <2>1. o <= o
    BY ONLY <1>a DEF Ops
  <2> QED BY <1>a, <2>1 DEF Inv, Starting
<1>p. \A i \in Ops : \/ i = o /\ pc[i] = "new" /\ pc'[i] = "top"
                     \/ i # o /\ pc'[i] = pc[i]
  BY <1>a, <1>b, <1>o
<1>u. /\ ts' = ts /\ raw' = raw /\ exitFlag' = exitFlag /\ buffer' = buffer
      /\ phase' = phase /\ deliver' = deliver
  BY <1>b
<1>x. /\ \A i \in Ops : ~exitFlag[i] /\ ~Gone(i) /\ phase[i] # "destroying"
      /\ phase[1] # "live" => deliver[Stream].step = "none"
  BY ONLY Inv, <1>a DEF Inv, Exiting, Gone
<1>1. Types'
  <2>1. {"start", "await"} \subseteq Steps /\ 1 \in Ops
    BY Basics DEF Steps
  <2>3. exec' \in [step : Steps, op : Ops]
    BY ONLY <1>c, <2>1
  <2>2. pc' \in [Ops -> Labels]
    BY <1>a, <1>b DEF Labels
  <2> QED BY <2>3, <2>2, <1>b DEF Inv, Types, Steps
<1>2. Room'
  BY ONLY Inv, <1>u DEF Inv, Room
<1>3. Starting'
  <2>1. CASE exec' = [step |-> "start", op |-> o + 1]
    <3> SUFFICES ASSUME NEW i \in Ops PROVE pc'[i] = "new" <=> o + 1 <= i
      BY <2>1 DEF Starting
    <3>1. o + 1 <= i <=> o <= i /\ i # o
      BY ExecFacts
    <3> QED BY <3>1, <1>o, <1>p
  <2>2. CASE exec' = [step |-> "await", op |-> 1] /\ o = NOps
    <3> SUFFICES ASSUME NEW i \in Ops PROVE pc'[i] # "new"
      BY <2>2 DEF Starting
    <3>1. o <= i => i = o
      BY ONLY <2>2, <1>a, Basics, i \in Ops DEF Ops
    <3> QED BY <3>1, <1>o, <1>p
  <2> QED BY <1>c, <2>1, <2>2
<1>4. Carrying'
  BY ONLY Inv, <1>u, <1>p DEF Inv, Carrying
<1>5. Exiting'
  <2>1. exec'.step \in {"start", "await"}
    BY <1>c
  <2> QED BY ONLY <2>1, <1>x, <1>u DEF Exiting, Gone
<1>6. RawNeverForwarded'
  BY ONLY Inv, <1>u, <1>p DEF Inv, RawNeverForwarded
<1>7. NoUseAfterDelete'
  BY ONLY <1>x, <1>u DEF NoUseAfterDelete, Gone
<1> QED BY <1>1, <1>2, <1>3, <1>4, <1>5, <1>6, <1>7 DEF Inv

(* A step of the destructor of i, whose end comes after that of i - 1.     *)
Vacated(i) ==
    /\ phase[i] \notin {"deleted", "abandoned"}
    /\ phase'[i] = "deleted" => pc[i] = "exited"
    /\ phase'[i] # "destroying" =>
          (deliver[i - 1].step # "none" => i # 1 /\ phase[i - 1] = "abandoned")

(* A step of the executer once the threads are started: it tells operators *)
(* to exit and deletes them, and wakes at most one.                        *)
ExecuterMove ==
    /\ exec.step # "start" /\ exec'.step # "start"
    /\ \A i \in Ops : \/ pc'[i] = pc[i]
                      \/ pc[i] = "waiting" /\ pc'[i] = "awake" /\ phase'[i] # "deleted"
    /\ UNCHANGED <<ts, raw, buffer, deliver>>
    /\ \A i \in Ops : \/ phase'[i] = phase[i]
                      \/ Vacated(i)

ThreadParts == Room /\ Starting /\ Carrying /\ RawNeverForwarded /\ NoUseAfterDelete

LEMMA ExecuterMoves == ASSUME Inv, ExecuterMove PROVE ThreadParts'
<1>u. ts' = ts /\ raw' = raw /\ buffer' = buffer /\ deliver' = deliver
  BY DEF ExecuterMove
<1>p. \A i \in Ops : \/ pc'[i] = pc[i]
                     \/ pc[i] = "waiting" /\ pc'[i] = "awake" /\ phase'[i] # "deleted"
  BY DEF ExecuterMove
<1>s. exec.step # "start" /\ exec'.step # "start"
  BY DEF ExecuterMove
<1>2. Room'
  BY ONLY Inv, <1>u DEF Inv, Room
<1>3. Starting'
  BY ONLY Inv, <1>p, <1>s DEF Inv, Starting
<1>4. Carrying'
  BY ONLY Inv, <1>u, <1>p DEF Inv, Carrying
<1>6. RawNeverForwarded'
  BY ONLY Inv, <1>u, <1>p DEF Inv, RawNeverForwarded
<1>d. \A i \in Ops : \/ phase'[i] = phase[i]
                   \/ Vacated(i)
  BY DEF ExecuterMove
<1>7. NoUseAfterDelete'
  <2> SUFFICES ASSUME NEW i \in Ops, Gone(i)'
               PROVE  /\ phase'[i] = "deleted" => pc'[i] = "exited"
                      /\ deliver[i - 1].step # "none" => i # 1 /\ phase'[i - 1] = "abandoned"
    BY <1>u DEF NoUseAfterDelete
  <2>1. i # 1 => i - 1 \in Ops
    BY Basics DEF Ops
  <2>2. \A j \in Ops : phase[j] = "abandoned" => phase'[j] = "abandoned"
    BY <1>d DEF Vacated
  <2>3. CASE phase'[i] = phase[i]
    <3>1. Gone(i)
      BY <2>3 DEF Gone
    <3> QED BY <1>p, <2>1, <2>2, <2>3, <3>1 DEF Inv, NoUseAfterDelete
  <2>4. CASE Vacated(i)
    <3>1. phase'[i] # "destroying"
      BY DEF Gone
    <3> QED BY <1>p, <2>1, <2>2, <2>4, <3>1 DEF Vacated
  <2> QED BY <1>d, <2>3, <2>4
<1> QED BY <1>2, <1>3, <1>4, <1>6, <1>7 DEF ThreadParts

LEMMA AwaitKeepsInv == ASSUME Inv, AwaitReady \/ Cancel PROVE Inv'
<1>1. exec.step \in {"await", "running"} /\ UNCHANGED <<objVars, buffer, exitFlag, phase, deliver, made>>
  BY DEF AwaitReady, Cancel
<1>2. /\ exec' \in [step : {"await", "running", "exit"}, op : Ops]
      /\ exec'.step = "exit" => exec'.op = 1
  <2>1. CASE Cancel
    BY <2>1, Basics DEF Cancel
  <2>2. CASE AwaitReady
    <3>1. exec \in [step : Steps, op : Ops] /\ exec.step = "await"
      BY <2>2, ExecFacts DEF AwaitReady
    <3>2. \/ exec' = [exec EXCEPT !.op = exec.op + 1] /\ exec.op + 1 \in Ops
          \/ exec' = [step |-> "running", op |-> 1]
      BY <2>2, <3>1, ExecFacts DEF AwaitReady
    <3>3. CASE exec' = [exec EXCEPT !.op = exec.op + 1] /\ exec.op + 1 \in Ops
      BY ONLY <3>1, <3>3
    <3>4. CASE exec' = [step |-> "running", op |-> 1]
      BY ONLY <3>4, Basics
    <3> QED BY ONLY <3>2, <3>3, <3>4
  <2> QED BY <2>1, <2>2
<1> QED BY <1>1, <1>2, ExecStep

(* Operator::exit and the steps of its notify_one.                         *)
LEMMA ExitKeepsInv == ASSUME Inv, Exit \/ ExitNotifies PROVE Inv'
<1> DEFINE o == exec.op
<1>a. /\ exec \in [step : Steps, op : Ops] /\ o \in Ops /\ pc \in [Ops -> Labels]
      /\ exitFlag \in [Ops -> BOOLEAN] /\ dataReady \in [Ops -> BOOLEAN]
  BY ExecFacts DEF Inv, Types
<1>s. exec.step \in {"exit", "flag", "signal"}
  BY DEF Exit, ExitNotifies
<1>l. \A i \in Ops : ~Gone(i) /\ phase[i] # "destroying"
  BY ONLY Inv, <1>s DEF Inv, Exiting, Gone
<1>y. phase[1] # "live" => deliver[Stream].step = "none"
  BY ONLY Inv DEF Inv, Exiting, Gone
<1>i. \A i \in Ops : /\ ~(i < 1) /\ i <= NOps
                     /\ i < o + 1 <=> i <= o
                     /\ i <= o <=> i < o \/ i = o
  BY ExecFacts
<1>1. CASE Exit
  <2>1. /\ exitFlag' = [exitFlag EXCEPT ![o] = TRUE] /\ exec.step = "exit"
        /\ exec' = [exec EXCEPT !.step = "flag"]
        /\ UNCHANGED <<objVars, buffer, phase, deliver, made>>
    BY <1>1 DEF Exit
  <2>2. exec' \in [step : Steps, op : Ops] /\ exec'.step = "flag" /\ exec'.op = o
    BY ONLY <2>1, <1>a DEF Steps
  <2>3. Types'
    <3>1. exitFlag' \in [Ops -> BOOLEAN]
      BY <2>1, <1>a
    <3> QED BY <3>1, <2>1, <2>2 DEF Inv, Types, Steps, objVars
  <2>4. \A i \in Ops : exitFlag'[i] <=> exitFlag[i] \/ i = o
    BY <2>1, <1>a
  <2>5. \A i \in Ops : exitFlag[i] <=> i < o
    BY ONLY Inv, <2>1 DEF Inv, Exiting, Gone
  <2>6. Exiting'
    <3>1. \A i \in Ops : exitFlag'[i] <=> i <= exec'.op
      BY ONLY <2>2, <2>4, <2>5, <1>i
    <3>2. phase' = phase /\ deliver' = deliver
      BY <2>1
    <3>3. phase'[1] # "live" => deliver'[Stream].step = "none"
      BY ONLY <3>2, <1>y
    <3> QED BY ONLY <3>1, <3>2, <3>3, <2>2, <1>l DEF Exiting, Gone
  <2>7. /\ pc' = pc /\ UNCHANGED <<ts, raw, buffer, deliver>> /\ phase' = phase
        /\ exec.step # "start" /\ exec'.step # "start"
    BY <2>1, <2>2 DEF objVars
  <2>8. ExecuterMove
    BY ONLY <2>7 DEF ExecuterMove
  <2> QED BY ONLY Inv, <2>8, <2>3, <2>6, ExecuterMoves DEF Inv, ThreadParts
<1>2. CASE exec.step = "flag"
  <2>1. /\ dataReady' = [dataReady EXCEPT ![o] = TRUE]
        /\ exec' = [exec EXCEPT !.step = "signal"]
        /\ UNCHANGED <<pc, ts, isReady, raw, got, buffer, exitFlag, phase, deliver, made>>
    BY <1>2 DEF Exit, ExitNotifies
  <2>2. exec' \in [step : Steps, op : Ops] /\ exec'.step = "signal" /\ exec'.op = o
    BY ONLY <2>1, <1>a DEF Steps
  <2>3. Types'
    <3>1. dataReady' \in [Ops -> BOOLEAN]
      BY <2>1, <1>a
    <3> QED BY <3>1, <2>1, <2>2 DEF Inv, Types, Steps
  <2>6. Exiting'
    <3>1. \A i \in Ops : exitFlag[i] <=> i <= o
      BY ONLY Inv, <1>2 DEF Inv, Exiting, Gone
    <3>2. phase' = phase /\ deliver' = deliver /\ exitFlag' = exitFlag
      BY <2>1
    <3>3. phase'[1] # "live" => deliver'[Stream].step = "none"
      BY ONLY <3>2, <1>y
    <3> QED BY ONLY <3>1, <3>2, <3>3, <2>2, <1>l DEF Exiting, Gone
  <2>7. /\ pc' = pc /\ UNCHANGED <<ts, raw, buffer, deliver>> /\ phase' = phase
        /\ exec.step # "start" /\ exec'.step # "start"
    BY <2>1, <2>2, <1>2
  <2>8. ExecuterMove
    BY ONLY <2>7 DEF ExecuterMove
  <2> QED BY ONLY Inv, <2>8, <2>3, <2>6, ExecuterMoves DEF Inv, ThreadParts
<1>3. CASE exec.step = "signal"
  <2>1. /\ pc' = Woken(o)
        /\ UNCHANGED <<ts, dataReady, isReady, raw, got, buffer, exitFlag, phase, deliver, made>>
    BY <1>3 DEF Exit, ExitNotifies
  <2>2. \/ exec' = [step |-> "exit", op |-> o + 1] /\ o + 1 \in Ops
        \/ exec' = [step |-> "destroy", op |-> 1] /\ o = NOps
    BY <1>3, ExecFacts DEF Exit, ExitNotifies
  <2>3. exec' \in [step : Steps, op : Ops]
    <3>1. {"exit", "destroy"} \subseteq Steps /\ 1 \in Ops
      BY Basics DEF Steps
    <3> QED BY ONLY <2>2, <3>1
  <2>4. Types'
    <3>1. pc' \in [Ops -> Labels]
      BY <2>1, <1>a, WokenThread
    <3> QED BY <3>1, <2>1, <2>3 DEF Inv, Types, Steps
  <2>5. \A i \in Ops : exitFlag[i] <=> i <= o
    BY ONLY Inv, <1>3 DEF Inv, Exiting, Gone
  <2>6. phase' = phase /\ deliver' = deliver /\ exitFlag' = exitFlag
    BY <2>1
  <2>7. Exiting'
    <3>1. CASE exec' = [step |-> "exit", op |-> o + 1]
      BY ONLY <3>1, <2>5, <2>6, <1>i, <1>l, <1>y DEF Exiting, Gone
    <3>2. CASE exec' = [step |-> "destroy", op |-> 1] /\ o = NOps
      BY ONLY <3>2, <2>5, <2>6, <1>i, <1>l, <1>y DEF Exiting, Gone
    <3> QED BY <2>2, <3>1, <3>2
  <2>8. \A i \in Ops : \/ pc'[i] = pc[i]
                       \/ pc[i] = "waiting" /\ pc'[i] = "awake" /\ phase'[i] # "deleted"
    <3>1. \A i \in Ops : phase'[i] # "deleted"
      BY ONLY <2>6, <1>l DEF Gone
    <3> QED BY <2>1, <3>1, <1>a, WokenThread
  <2>9. exec'.step # "start"
    BY <2>2
  <2>10. UNCHANGED <<ts, raw, buffer, deliver>> /\ exec.step # "start"
    BY <2>1, <1>3
  <2>11. ExecuterMove
    BY ONLY <2>6, <2>8, <2>9, <2>10 DEF ExecuterMove
  <2> QED BY ONLY Inv, <2>11, <2>4, <2>7, ExecuterMoves DEF Inv, ThreadParts
<1> QED BY <1>1, <1>2, <1>3 DEF Exit, ExitNotifies

(* The destructor of the derived part, the window's first.                 *)
LEMMA DestroyKeepsInv == ASSUME Inv, Destroy PROVE Inv'
<1> DEFINE o == exec.op
<1>a. /\ exec \in [step : Steps, op : Ops] /\ o \in Ops
      /\ phase \in [Ops -> {"live", "destroying", "deleted", "abandoned"}]
  BY ExecFacts DEF Inv, Types
<1>1. /\ exec.step = "destroy" /\ (o = 1 => deliver[Stream].step = "none")
      /\ phase' = [phase EXCEPT ![o] = "destroying"]
      /\ exec' = [exec EXCEPT !.step = "delete"]
      /\ UNCHANGED <<objVars, buffer, exitFlag, deliver, made>>
  BY DEF Destroy
<1>2. exec' \in [step : Steps, op : Ops] /\ exec'.step = "delete" /\ exec'.op = o
  BY ONLY <1>1, <1>a DEF Steps
<1>3. Types'
  <2>1. phase' \in [Ops -> {"live", "destroying", "deleted", "abandoned"}]
    BY <1>1, <1>a
  <2> QED BY <2>1, <1>1, <1>2 DEF Inv, Types, Steps, objVars
<1>4. \A i \in Ops : \/ i = o /\ phase'[i] = "destroying"
                     \/ i # o /\ phase'[i] = phase[i]
  BY <1>1, <1>a
<1>5. Exiting'
  <2>1. ~(o < o)
    BY ONLY <1>a DEF Ops
  <2>2. /\ \A i \in Ops : /\ exitFlag[i] /\ phase[i] # "destroying"
                          /\ Gone(i) <=> i < o
        /\ phase[1] # "live" => deliver[Stream].step = "none"
    BY ONLY Inv, <1>1 DEF Inv, Exiting, Gone
  <2>3. deliver' = deliver /\ exitFlag' = exitFlag
    BY <1>1
  <2>4. phase'[1] # "live" => deliver'[Stream].step = "none"
    BY <1>1, <1>4, <2>2, <2>3, Basics
  <2> QED BY ONLY <1>2, <1>4, <2>1, <2>2, <2>3, <2>4 DEF Exiting, Gone
<1>6. /\ pc' = pc /\ UNCHANGED <<ts, raw, buffer, deliver>>
      /\ exec.step # "start" /\ exec'.step # "start"
  BY <1>1, <1>2 DEF objVars
<1>7. \A i \in Ops : phase'[i] = phase[i] \/ Vacated(i)
  <2>1. ~(o < o)
    BY ONLY <1>a DEF Ops
  <2>2. ~Gone(o)
    BY ONLY Inv, <1>1, <1>a, <2>1 DEF Inv, Exiting, Gone
  <2> QED BY ONLY <1>4, <2>2 DEF Gone, Vacated
<1>8. ExecuterMove
  BY ONLY <1>6, <1>7 DEF ExecuterMove
<1> QED BY ONLY Inv, <1>8, <1>3, <1>5, ExecuterMoves DEF Inv, ThreadParts

LEMMA DeleteKeepsInv == ASSUME Inv, Delete PROVE Inv'
<1> DEFINE o == exec.op
<1>a. /\ exec \in [step : Steps, op : Ops] /\ o \in Ops
      /\ phase \in [Ops -> {"live", "destroying", "deleted", "abandoned"}]
  BY ExecFacts DEF Inv, Types
<1> DEFINE left == IF pc[o] = "exited" THEN "deleted" ELSE "abandoned"
<1>1. /\ exec.step = "delete"
      /\ phase' = [phase EXCEPT ![o] = left]
      /\ UNCHANGED <<objVars, buffer, exitFlag, deliver, made>>
  BY DEF Delete
<1>b. left \in {"deleted", "abandoned"}
  OBVIOUS
<1>v. left = IF pc[o] = "exited" THEN "deleted" ELSE "abandoned"
  OBVIOUS
<1> HIDE DEF left
<1>2. \/ exec' = [step |-> "destroy", op |-> o + 1] /\ o + 1 \in Ops
      \/ exec' = [step |-> "gone", op |-> o] /\ o = NOps
  BY ExecFacts DEF Delete
<1>3. exec' \in [step : Steps, op : Ops]
  <2>1. {"gone", "destroy"} \subseteq Steps
    BY DEF Steps
  <2> QED BY ONLY <1>2, <2>1, <1>a
<1>4. Types'
  <2>1. phase' \in [Ops -> {"live", "destroying", "deleted", "abandoned"}]
    BY <1>1, <1>a, <1>b
  <2> QED BY <2>1, <1>1, <1>3 DEF Inv, Types, Steps, objVars
<1>5. \A i \in Ops : \/ i = o /\ phase'[i] = left
                     \/ i # o /\ phase'[i] = phase[i]
  BY <1>1, <1>a
<1>6. /\ \A i \in Ops : /\ exitFlag[i] /\ phase[i] = "destroying" <=> i = o
                        /\ Gone(i) <=> i < o
      /\ \A i \in Ops : exitFlag[i]
      /\ phase[1] # "live" => deliver[Stream].step = "none"
  BY ONLY Inv, <1>1 DEF Inv, Exiting, Gone
<1>i. \A i \in Ops : /\ i < o + 1 <=> i < o \/ i = o
                     /\ i <= NOps /\ (i <= o <=> i < o \/ i = o)
  BY ExecFacts
<1>7. Exiting'
  <2>1. deliver' = deliver /\ exitFlag' = exitFlag
    BY <1>1
  <2>2. \A i \in Ops : /\ Gone(i)' <=> i < o \/ i = o
                       /\ phase'[i] # "destroying"
    BY ONLY <1>5, <1>6, <1>b DEF Gone
  <2>3. phase[1] = "destroying" \/ phase[1] = phase'[1]
    BY ONLY <1>5, <1>6, Basics
  <2>4. phase'[1] # "live" => deliver'[Stream].step = "none"
    BY ONLY <2>1, <2>3, <1>6
  <2>5. CASE exec' = [step |-> "destroy", op |-> o + 1]
    BY ONLY <2>5, <1>i, <1>6, <2>1, <2>2, <2>4 DEF Exiting, Gone
  <2>6. CASE exec' = [step |-> "gone", op |-> o] /\ o = NOps
    BY ONLY <2>6, <1>i, <1>6, <2>1, <2>2, <2>4 DEF Exiting, Gone
  <2> QED BY <1>2, <2>5, <2>6
<1>8. deliver[o - 1].step # "none" => o # 1 /\ phase[o - 1] = "abandoned"
  <2> SUFFICES ASSUME deliver[o - 1].step # "none" PROVE o # 1 /\ phase[o - 1] = "abandoned"
    OBVIOUS
  <2>1. o # 1
    <3> SUFFICES ASSUME o = 1 PROVE FALSE
      OBVIOUS
    <3>1. phase[1] # "live"
      BY <1>6, <1>a
    <3> QED BY <3>1, <1>6 DEF Stream
  <2>2. o - 1 \in Ops /\ o - 1 < o
    <3>1. NOps \in Nat /\ o \in 1..NOps
      BY <1>a, Basics DEF Ops
    <3> QED BY ONLY <2>1, <3>1 DEF Ops
  <2>3. pc[o - 1] = "firing"
    BY <2>2 DEF Inv, Carrying
  <2>4. Gone(o - 1) /\ phase[o - 1] # "deleted"
    BY <2>2, <2>3, <1>6 DEF Inv, NoUseAfterDelete
  <2> QED BY <2>1, <2>4 DEF Gone
<1>d. ~Gone(o)
  <2>1. ~(o < o)
    BY ONLY <1>a DEF Ops
  <2> QED BY <2>1, <1>a, <1>6
<1>9. exec'.step # "start"
  BY <1>2
<1>10. /\ pc' = pc /\ UNCHANGED <<ts, raw, buffer, deliver>> /\ exec.step # "start"
  BY <1>1 DEF objVars
<1>11. \A i \in Ops : phase'[i] = phase[i] \/ Vacated(i)
  <2>1. Vacated(o)
    BY <1>5, <1>8, <1>a, <1>d, <1>v DEF Vacated, Gone
  <2> QED BY ONLY <1>5, <2>1
<1>12. ExecuterMove
  BY ONLY <1>9, <1>10, <1>11 DEF ExecuterMove
<1> QED BY ONLY Inv, <1>12, <1>4, <1>7, ExecuterMoves DEF Inv, ThreadParts

LEMMA InvNext == Inv /\ [Next]_vars => Inv'
<1> SUFFICES ASSUME Inv, [Next]_vars PROVE Inv'
  OBVIOUS
<1>1. CASE StreamOffers
  BY <1>1, StreamOffersKeepsInv
<1>2. ASSUME NEW d \in Deliverers, Deliver(d) PROVE Inv'
  BY <1>2, PushKeepsInv, FlagKeepsInv, SignalKeepsInv DEF Deliver
<1>3. ASSUME NEW i \in Ops, Execute(i) \/ SpuriousWakeup(i) PROVE Inv'
  BY <1>3, ExecuteKeepsInv
<1>4. CASE Executer
  BY <1>4, StartKeepsInv, AwaitKeepsInv, ExitKeepsInv, DestroyKeepsInv, DeleteKeepsInv
     DEF Executer
<1>5. CASE UNCHANGED vars
  BY <1>5 DEF vars, Inv, Types, Room, Starting, Carrying, Exiting, RawNeverForwarded,
              NoUseAfterDelete, Gone
<1> QED BY <1>1, <1>2, <1>3, <1>4, <1>5 DEF Next

LEMMA InvAlways == Spec => []Inv
  BY InvInit, InvNext, PTL DEF Spec

(* Every variable keeps its type: in particular no buffer outgrows its     *)
(* bound and the executer is never past the end of opeList.                *)
THEOREM TypeCorrect == Spec => []TypeOK
<1>1. Inv => TypeOK
  <2> SUFFICES ASSUME Inv PROVE TypeOK
    OBVIOUS
  <2>1. Types
    BY DEF Inv
  <2> QED BY ONLY <2>1 DEF Types, TypeOK, Labels, Numbers, Ops
<1> QED BY <1>1, InvAlways, PTL

(* A tuple set that went through Operator::process unprocessed, because    *)
(* the derived part was gone, never reaches the next operator.             *)
THEOREM RawStaysBehind == Spec => []RawNeverForwarded
<1>1. Inv => RawNeverForwarded
  BY DEF Inv
<1> QED BY <1>1, InvAlways, PTL

(* Only a destructor that gave up leads to a use after delete, however     *)
(* long the chain: an object that is gone is being given something only by *)
(* an operator that was destroyed under its thread.                        *)
THEOREM DeletedUntouched == Spec => []NoUseAfterDelete
<1>1. Inv => NoUseAfterDelete
  BY DEF Inv
<1> QED BY <1>1, InvAlways, PTL

-----------------------------------------------------------------------------
(* Numbers of tuple sets are counted modulo Modulus.                       *)
LEMMA DivMod ==
  ASSUME NEW a \in Nat, NEW m \in Nat \ {0}
  PROVE  /\ a \div m \in Nat /\ a % m \in 0..m - 1 /\ a = m * (a \div m) + (a % m)
<1>1. a \div m \in Int
  OBVIOUS
<1>2. a % m \in 0..m - 1
  OBVIOUS
<1>3. a = m * (a \div m) + (a % m)
  OBVIOUS
<1>4. a \div m >= 0
  OBVIOUS
<1> QED BY <1>1, <1>2, <1>3, <1>4

LEMMA Times ==
  ASSUME NEW m \in Nat \ {0}, NEW k \in Int, k >= 1
  PROVE  m * k >= m
  OBVIOUS

LEMMA ModUnique ==
  ASSUME NEW m \in Nat \ {0}, NEW q \in Int, NEW r \in 0..m - 1, NEW x \in Nat, x = m * q + r
  PROVE  x % m = r
<1> DEFINE d == x \div m
<1>1. x = m * d + (x % m) /\ d \in Int /\ x % m \in 0..m - 1
  BY DivMod
<1> HIDE DEF d
<1>2. m * (q - d) = (x % m) - r
  <2>1. m * (q - d) = m * q - m * d
    BY <1>1
  <2>2. m * q \in Int /\ m * d \in Int /\ r \in Int /\ x % m \in Int
    BY <1>1
  <2> HIDE DEF d
  <2>3. m * d + (x % m) = m * q + r
    BY <1>1
  <2> QED BY ONLY <2>1, <2>2, <2>3
<1>3. ~(q - d >= 1)
  <2> SUFFICES ASSUME q - d >= 1 PROVE FALSE
    OBVIOUS
  <2>1. m * (q - d) >= m
    BY <1>1, Times
  <2> QED BY <2>1, <1>2, <1>1
<1>4. ~(d - q >= 1)
  <2> SUFFICES ASSUME d - q >= 1 PROVE FALSE
    OBVIOUS
  <2>1. m * (d - q) >= m
    BY <1>1, Times
  <2>2. m * (d - q) = 0 - m * (q - d)
    BY <1>1
  <2> QED BY <2>1, <2>2, <1>2, <1>1
<1>5. q = d
  BY <1>1, <1>3, <1>4
<1> QED BY <1>5, <1>1

LEMMA ModAdd ==
  ASSUME NEW m \in Nat \ {0}, NEW a \in Nat, NEW k \in Nat
  PROVE  ((a % m) + k) % m = (a + k) % m
<1> DEFINE d == a \div m
<1> DEFINE y == (a % m) + k
<1>1. a = m * d + (a % m) /\ d \in Nat /\ a % m \in 0..m - 1
  BY DivMod
<1>2. y \in Nat
  BY <1>1
<1> DEFINE e == y \div m
<1>3. y = m * e + (y % m) /\ e \in Nat /\ y % m \in 0..m - 1
  BY DivMod, <1>2
<1> HIDE DEF d, e
<1>4. a + k = m * d + m * e + (y % m)
  BY <1>1, <1>3
<1>5. m * (d + e) = m * d + m * e
  BY <1>1, <1>3
<1> HIDE DEF y
<1>6. a + k = m * (d + e) + (y % m)
  BY <1>1, <1>3, <1>4, <1>5
<1>7. PICK q \in Int : q = d + e
  BY <1>1, <1>3
<1>8. PICK r \in 0..m - 1 : r = y % m
  BY <1>3
<1>9. PICK x \in Nat : x = a + k
  OBVIOUS
<1>10. x = m * q + r
  BY <1>6, <1>7, <1>8, <1>9
<1>11. x % m = r
  BY ONLY <1>10, ModUnique, m \in Nat \ {0}, q \in Int, r \in 0..m - 1, x \in Nat
<1> QED BY <1>8, <1>9, <1>11 DEF y

(* The tuple sets s are the next ones after number g.                      *)
Follows(g, s) == \A k \in 1..Len(s) : s[k] = (g + k) % Modulus

LEMMA FollowsAppend ==
  ASSUME NEW g \in Numbers, NEW s \in Seq(Numbers), NEW n \in Numbers, Follows(g, s),
         n = NextNumber((g + Len(s)) % Modulus)
  PROVE  Follows(g, s \o <<n>>) /\ (g + Len(s \o <<n>>)) % Modulus = n
<1>1. Modulus \in Nat \ {0}
  BY ThreadAssumption
<1>2. g \in Nat /\ Len(s) \in Nat /\ g + Len(s) \in Nat /\ 1 \in Nat
  BY <1>1 DEF Numbers
<1>3. n = (g + (Len(s) + 1)) % Modulus
  <2>1. (((g + Len(s)) % Modulus) + 1) % Modulus = ((g + Len(s)) + 1) % Modulus
    BY ONLY <1>1, <1>2, ModAdd
  <2>2. (g + Len(s)) + 1 = g + (Len(s) + 1)
    BY <1>2
  <2> QED BY <2>1, <2>2 DEF NextNumber
<1>4. <<n>> \in Seq(Numbers) /\ Len(<<n>>) = 1 /\ <<n>>[1] = n
  OBVIOUS
<1> DEFINE t == s \o <<n>>
<1>5. /\ Len(t) = Len(s) + 1
      /\ \A k \in 1..Len(s) + 1 : t[k] = IF k <= Len(s) THEN s[k] ELSE <<n>>[k - Len(s)]
  BY <1>4, ConcatProperties
<1> HIDE DEF t
<1>6. \A k \in 1..Len(s) + 1 : t[k] = (g + k) % Modulus
  <2> TAKE k \in 1..Len(s) + 1
  <2>1. CASE k <= Len(s)
    BY <2>1, <1>5, <1>2 DEF Follows
  <2>2. CASE k = Len(s) + 1
    <3>1. k - Len(s) = 1 /\ ~(k <= Len(s))
      BY <2>2, <1>2
    <3> QED BY <3>1, <2>2, <1>3, <1>4, <1>5
  <2> QED BY <2>1, <2>2, <1>2
<1> QED BY <1>3, <1>5, <1>6 DEF Follows, t

LEMMA FollowsRest ==
  ASSUME NEW g \in Numbers, NEW s \in Seq(Numbers), NEW t \in Seq(Numbers), s # <<>>,
         Follows(g, s \o t)
  PROVE  /\ Follows(s[Len(s)], t)
         /\ (s[Len(s)] + Len(t)) % Modulus = (g + Len(s \o t)) % Modulus
<1>1. Modulus \in Nat \ {0}
  BY ThreadAssumption
<1>2. g \in Nat /\ Len(s) \in Nat /\ Len(s) >= 1 /\ g + Len(s) \in Nat /\ Len(t) \in Nat
  <2>1. Len(s) \in Nat \ {0}
    BY EmptySeq
  <2> QED BY <2>1, <1>1 DEF Numbers
<1> DEFINE u == s \o t
<1>3. /\ Len(u) = Len(s) + Len(t)
      /\ \A k \in 1..Len(s) + Len(t) : u[k] = IF k <= Len(s) THEN s[k] ELSE t[k - Len(s)]
      /\ \A k \in 1..Len(u) : u[k] = (g + k) % Modulus
  BY ConcatProperties DEF Follows
<1> HIDE DEF u
<1>4. s[Len(s)] = (g + Len(s)) % Modulus
  <2>1. Len(s) \in 1..Len(s) + Len(t) /\ Len(s) <= Len(s)
    BY <1>2
  <2> QED BY <2>1, <1>3
<1>5. \A k \in Nat : (s[Len(s)] + k) % Modulus = (g + (Len(s) + k)) % Modulus
  <2> TAKE k \in Nat
  <2>1. (((g + Len(s)) % Modulus) + k) % Modulus = ((g + Len(s)) + k) % Modulus
    BY ONLY <1>1, <1>2, k \in Nat, ModAdd
  <2>2. (g + Len(s)) + k = g + (Len(s) + k)
    BY <1>2
  <2> QED BY <2>1, <2>2, <1>4
<1>6. Follows(s[Len(s)], t)
  <2> SUFFICES ASSUME NEW k \in 1..Len(t) PROVE t[k] = (s[Len(s)] + k) % Modulus
    BY DEF Follows
  <2>1. k \in Nat /\ Len(s) + k \in 1..Len(s) + Len(t) /\ ~(Len(s) + k <= Len(s))
        /\ (Len(s) + k) - Len(s) = k
    BY <1>2
  <2>2. t[k] = u[Len(s) + k]
    BY <2>1, <1>3
  <2>3. u[Len(s) + k] = (g + (Len(s) + k)) % Modulus
    BY <2>1, <1>3
  <2> QED BY <2>1, <2>2, <2>3, <1>5
<1> QED BY <1>2, <1>3, <1>5, <1>6 DEF u

(* What is on its way in delivery d.                                       *)
Offered(d) == IF deliver[d].step = "push" THEN <<deliver[d].set>> ELSE <<>>

(* Ways in which a step leaves what operator i has pending in order: it    *)
(* keeps it, is offered one more, or finishes with what it had in hand.    *)
Keeps(i) == got'[i] = got[i] /\ made'[i - 1] = made[i - 1] /\ Pending(i)' = Pending(i)

Gets(i) ==
    /\ got'[i] = got[i] /\ made'[i - 1] = NextNumber(made[i - 1])
    /\ made'[i - 1] \in Numbers /\ Pending(i)' = Pending(i) \o <<made'[i - 1]>>

Finishes(i) ==
    /\ ts[i] # <<>> /\ got'[i] = ts[i][Len(ts[i])] /\ made'[i - 1] = made[i - 1]
    /\ Pending(i)' = buffer[i] \o Offered(i - 1)

LEMMA PendingParts ==
  ASSUME Inv, NEW i \in Ops
  PROVE  /\ ts[i] \in Seq(Numbers) /\ buffer[i] \in Seq(Numbers)
         /\ Offered(i - 1) \in Seq(Numbers) /\ Pending(i) \in Seq(Numbers)
         /\ Pending(i) = ts[i] \o (buffer[i] \o Offered(i - 1))
<1>1. ts[i] \in Seq(Numbers) /\ buffer[i] \in Seq(Numbers)
  BY DEF Inv, Types
<1>2. Offered(i - 1) \in Seq(Numbers)
  <2>1. i - 1 \in Deliverers
    BY Basics
  <2>2. deliver[i - 1].set \in Numbers
    BY <2>1 DEF Inv, Types
  <2> QED BY <2>2 DEF Offered
<1>3. Pending(i) = (ts[i] \o buffer[i]) \o Offered(i - 1)
  BY DEF Pending, Offered
<1>4. ts[i] \o buffer[i] \in Seq(Numbers) /\ Pending(i) \in Seq(Numbers)
  BY <1>1, <1>2, <1>3, ConcatProperties
<1>5. Pending(i) = ts[i] \o (buffer[i] \o Offered(i - 1))
  <2>1. \A a, b, c \in Seq(Numbers) : (a \o b) \o c = a \o (b \o c)
    BY ConcatAssociative
  <2> QED BY ONLY <1>1, <1>2, <1>3, <2>1
<1> QED BY <1>1, <1>2, <1>4, <1>5

LEMMA OrderKept ==
  ASSUME Inv, InOrderOnce, \A i \in Ops : Keeps(i) \/ Gets(i) \/ Finishes(i)
  PROVE  InOrderOnce'
<1> SUFFICES ASSUME NEW i \in Ops
             PROVE  /\ Follows(got'[i], Pending(i)')
                    /\ (got'[i] + Len(Pending(i)')) % Modulus = made'[i - 1]
  <2>1. \A i \in Ops : /\ Follows(got'[i], Pending(i)')
                      /\ (got'[i] + Len(Pending(i)')) % Modulus = made'[i - 1]
    OBVIOUS
  <2> QED BY ONLY <2>1 DEF InOrderOnce, Follows
<1>1. /\ Follows(got[i], Pending(i))
      /\ (got[i] + Len(Pending(i))) % Modulus = made[i - 1]
  BY DEF InOrderOnce, Follows
<1>2. got[i] \in Numbers /\ Pending(i) \in Seq(Numbers)
  BY PendingParts DEF Inv, Types
<1>3. CASE Keeps(i)
  BY <1>1, <1>3 DEF Keeps
<1>4. CASE Gets(i)
  <2>1. PICK n \in Numbers : n = made'[i - 1]
    BY <1>4 DEF Gets
  <2>2. n = NextNumber((got[i] + Len(Pending(i))) % Modulus)
    BY <1>1, <1>4, <2>1 DEF Gets
  <2>3. /\ Follows(got[i], Pending(i) \o <<n>>)
        /\ (got[i] + Len(Pending(i) \o <<n>>)) % Modulus = n
    BY <1>1, <1>2, <2>2, FollowsAppend
  <2> QED BY <1>4, <2>1, <2>3 DEF Gets
<1>5. CASE Finishes(i)
  <2> DEFINE rest == buffer[i] \o Offered(i - 1)
  <2>1. rest \in Seq(Numbers) /\ ts[i] \in Seq(Numbers) /\ Pending(i) = ts[i] \o rest
    BY PendingParts, ConcatProperties
  <2>2. Pending(i)' = rest /\ ts[i] # <<>> /\ got'[i] = ts[i][Len(ts[i])]
        /\ made'[i - 1] = made[i - 1]
    BY <1>5 DEF Finishes
  <2> HIDE DEF rest
  <2>3. Follows(got[i], ts[i] \o rest)
    BY <1>1, <2>1
  <2>4. /\ Follows(ts[i][Len(ts[i])], rest)
        /\ (ts[i][Len(ts[i])] + Len(rest)) % Modulus = (got[i] + Len(ts[i] \o rest)) % Modulus
    BY <1>2, <2>1, <2>2, <2>3, FollowsRest
  <2> QED BY <1>1, <2>1, <2>2, <2>4
<1> QED BY <1>3, <1>4, <1>5

(* How each step leaves the order.                                         *)
LEMMA NextIsNumber == \A k \in Numbers : NextNumber(k) \in Numbers
<1>1. Modulus \in Nat \ {0}
  BY ThreadAssumption
<1>2. \A k \in Numbers : k + 1 \in Nat
  BY <1>1 DEF Numbers
<1> QED BY <1>2, Basics DEF NextNumber

LEMMA InitInOrder == Init => InOrderOnce
<1> SUFFICES ASSUME Init, NEW i \in Ops
             PROVE  /\ Pending(i) = <<>> /\ got[i] = 0 /\ made[i - 1] = 0
  <2>1. 0 % Modulus = 0
    BY ThreadAssumption
  <2> QED BY <2>1 DEF InOrderOnce
<1>1. i - 1 \in Deliverers
  BY Basics
<1>2. ts[i] = <<>> /\ buffer[i] = <<>> /\ deliver[i - 1].step = "none"
  BY <1>1 DEF Init, NoDelivery
<1> QED BY <1>1, <1>2 DEF Pending, Init

(* Steps that leave alone what is in hand, in buffers and offered.         *)
LEMMA NothingMoves ==
  ASSUME NEW i \in Ops, ts'[i] = ts[i], got'[i] = got[i], made'[i - 1] = made[i - 1],
         buffer'[i] = buffer[i], Offered(i - 1)' = Offered(i - 1)
  PROVE  Keeps(i)
<1>1. Pending(i) = ts[i] \o buffer[i] \o Offered(i - 1)
  BY DEF Pending, Offered
<1>2. Pending(i)' = ts'[i] \o buffer'[i] \o Offered(i - 1)'
  BY DEF Pending, Offered
<1> QED BY <1>1, <1>2 DEF Keeps

LEMMA OfferGets ==
  ASSUME Inv, NEW d \in Deliverers, d # NOps, deliver[d].step = "none",
         deliver' = [deliver EXCEPT ![d] = [step |-> "push", set |-> NextNumber(made[d])]],
         made' = [made EXCEPT ![d] = NextNumber(made[d])],
         buffer' = buffer, NextNumber(made[d]) \in Numbers,
         ts' = ts, got' = got
  PROVE  \A i \in Ops : Keeps(i) \/ Gets(i)
<1> DEFINE n == NextNumber(made[d])
<1>1. n \in Numbers /\ made \in [Deliverers -> Numbers] /\ DOMAIN deliver = Deliverers
  BY DEF Inv, Types
<1>2. /\ deliver' = [deliver EXCEPT ![d] = [step |-> "push", set |-> n]]
      /\ made' = [made EXCEPT ![d] = n]
  OBVIOUS
<1> SUFFICES ASSUME NEW i \in Ops PROVE Keeps(i) \/ Gets(i)
  OBVIOUS
<1>3. i - 1 \in Deliverers
  BY Basics
<1>4. CASE i - 1 # d
  <2>1. deliver'[i - 1] = deliver[i - 1] /\ made'[i - 1] = made[i - 1]
    BY <1>1, <1>2, <1>3, <1>4
  <2>2. Offered(i - 1)' = Offered(i - 1)
    BY <2>1 DEF Offered
  <2> QED BY <2>1, <2>2, NothingMoves
<1>5. CASE i - 1 = d
  <2>1. made'[i - 1] = n /\ Offered(i - 1)' = <<n>> /\ Offered(i - 1) = <<>>
    BY <1>1, <1>2, <1>3, <1>5 DEF Offered
  <2> DEFINE s == ts[i] \o buffer[i]
  <2>2. s \in Seq(Numbers)
    BY PendingParts, ConcatProperties
  <2>3. Pending(i) = s \o Offered(i - 1) /\ Pending(i)' = s \o Offered(i - 1)'
    BY DEF Pending, Offered
  <2> HIDE DEF s
  <2>4. Pending(i) = s /\ Pending(i)' = s \o <<n>>
    BY <2>1, <2>2, <2>3, ConcatEmptySeq
  <2>5. made'[i - 1] = NextNumber(made[i - 1]) /\ made'[i - 1] = n /\ got'[i] = got[i]
    BY <1>5, <2>1
  <2> HIDE DEF n
  <2> QED BY ONLY <1>1, <2>4, <2>5 DEF Gets
<1> QED BY <1>4, <1>5

LEMMA PushInOrder ==
  ASSUME Inv, NEW d \in Deliverers, DeliverPush(d) PROVE \A i \in Ops : Keeps(i)
<1> SUFFICES ASSUME NEW i \in Ops PROVE Keeps(i)
  OBVIOUS
<1>1. d + 1 \in Ops /\ i - 1 \in Deliverers /\ (i = d + 1 <=> i - 1 = d)
  BY HasTarget, Basics DEF DeliverPush
<1>2. /\ DOMAIN buffer = Ops /\ deliver[d].step = "push"
      /\ deliver \in [Deliverers -> [step : {"none", "push", "flag", "signal"}, set : Numbers]]
      /\ buffer' = [buffer EXCEPT ![d + 1] = Append(@, deliver[d].set)]
      /\ deliver' = [deliver EXCEPT ![d].step = "flag"]
      /\ ts' = ts /\ got' = got /\ made' = made
  BY DEF DeliverPush, Inv, Types, objVars
<1>3. CASE i # d + 1
  <2>1. buffer'[i] = buffer[i] /\ Offered(i - 1)' = Offered(i - 1)
    BY <1>1, <1>2, <1>3 DEF Offered
  <2> QED BY <1>2, <2>1, NothingMoves
<1>4. CASE i = d + 1
  <2> DEFINE n == deliver[d].set
  <2>1. i - 1 = d /\ n \in Numbers /\ buffer[i] \in Seq(Numbers) /\ ts[i] \in Seq(Numbers)
    BY <1>1, <1>2, <1>4, PendingParts
  <2>2. buffer'[i] = Append(buffer[i], n) /\ Offered(i - 1) = <<n>> /\ Offered(i - 1)' = <<>>
    BY <1>1, <1>2, <1>4, <2>1 DEF Offered
  <2> HIDE DEF n
  <2>3. Append(buffer[i], n) = buffer[i] \o <<n>> /\ <<n>> \in Seq(Numbers)
    BY ONLY <2>1
  <2>4. buffer[i] \o <<n>> \in Seq(Numbers)
    BY <2>1, <2>3, ConcatProperties
  <2>5. ts[i] \o (buffer[i] \o <<n>>) \in Seq(Numbers)
    BY <2>1, <2>4, ConcatProperties
  <2>6. Pending(i)' = (ts[i] \o (buffer[i] \o <<n>>)) \o <<>>
    <3>1. Pending(i)' = ts'[i] \o buffer'[i] \o Offered(i - 1)'
      BY DEF Pending, Offered
    <3> QED BY <3>1, <2>2, <2>3, <1>2
  <2>7. Pending(i) = ts[i] \o (buffer[i] \o <<n>>)
    BY <2>2, PendingParts
  <2>8. Pending(i)' = Pending(i)
    BY <2>5, <2>6, <2>7, ConcatEmptySeq
  <2> QED BY <1>2, <2>8 DEF Keeps
<1> QED BY <1>3, <1>4

LEMMA FlagInOrder ==
  ASSUME Inv, NEW d \in Deliverers, DeliverFlag(d) PROVE \A i \in Ops : Keeps(i)
<1> SUFFICES ASSUME NEW i \in Ops PROVE Keeps(i)
  OBVIOUS
<1>1. /\ deliver \in [Deliverers -> [step : {"none", "push", "flag", "signal"}, set : Numbers]]
      /\ deliver[d].step = "flag" /\ deliver' = [deliver EXCEPT ![d].step = "signal"]
      /\ ts' = ts /\ got' = got /\ made' = made /\ buffer' = buffer
      /\ i - 1 \in Deliverers
  BY Basics DEF DeliverFlag, Inv, Types
<1>2. Offered(i - 1)' = Offered(i - 1)
  BY <1>1 DEF Offered
<1> QED BY <1>1, <1>2, NothingMoves

LEMMA SignalInOrder ==
  ASSUME Inv, NEW d \in Deliverers, DeliverSignal(d)
  PROVE  \A i \in Ops : Keeps(i) \/ Finishes(i)
<1> SUFFICES ASSUME NEW i \in Ops PROVE Keeps(i) \/ Finishes(i)
  OBVIOUS
<1>1. /\ deliver \in [Deliverers -> [step : {"none", "push", "flag", "signal"}, set : Numbers]]
      /\ ts \in [Ops -> Seq(Numbers)] /\ got \in [Ops -> Numbers]
      /\ deliver[d].step = "signal" /\ deliver' = [deliver EXCEPT ![d] = NoDelivery]
      /\ made' = made /\ buffer' = buffer /\ i - 1 \in Deliverers
  BY Basics DEF DeliverSignal, Inv, Types
<1>2. Offered(i - 1)' = Offered(i - 1)
  BY <1>1 DEF Offered, NoDelivery
<1>3. CASE i # d
  <2>1. ts'[i] = ts[i] /\ got'[i] = got[i]
    BY <1>1, <1>3 DEF DeliverSignal
  <2> QED BY <1>1, <1>2, <2>1, NothingMoves
<1>4. CASE i = d
  <2>1. d # Stream /\ pc[i] = "firing"
    <3>1. d # Stream
      BY <1>4, Basics
    <3> QED BY <3>1, <1>1, <1>4, HasTarget
  <2>2. ts'[i] = <<>> /\ got'[i] = ts[i][Len(ts[i])]
    BY <1>1, <1>4, <2>1 DEF DeliverSignal
  <2>3. ts[i] # <<>>
    BY <2>1 DEF Inv, Carrying
  <2>4. buffer[i] \in Seq(Numbers) /\ Offered(i - 1) \in Seq(Numbers)
    BY PendingParts
  <2>5. Pending(i)' = (<<>> \o buffer[i]) \o Offered(i - 1)
    <3>1. Pending(i)' = ts'[i] \o buffer'[i] \o Offered(i - 1)'
      BY DEF Pending, Offered
    <3> QED BY <3>1, <1>1, <1>2, <2>2
  <2>6. Pending(i)' = buffer[i] \o Offered(i - 1)
    BY <2>4, <2>5, ConcatEmptySeq
  <2> QED BY <1>1, <2>2, <2>3, <2>6 DEF Finishes
<1> QED BY <1>3, <1>4

LEMMA TakeInOrder ==
  ASSUME Inv, NEW j \in Ops, Take(j) PROVE \A i \in Ops : Keeps(i)
<1> SUFFICES ASSUME NEW i \in Ops PROVE Keeps(i)
  OBVIOUS
<1>1. /\ ts \in [Ops -> Seq(Numbers)] /\ buffer \in [Ops -> Seq(Numbers)]
      /\ deliver' = deliver /\ got' = got /\ made' = made /\ pc[j] = "woken"
  BY DEF Take, Inv, Types
<1>2. Offered(i - 1)' = Offered(i - 1)
  BY <1>1 DEF Offered
<1>3. CASE i # j \/ (ts' = ts /\ buffer' = buffer)
  <2>1. ts'[i] = ts[i] /\ buffer'[i] = buffer[i]
    BY <1>1, <1>3 DEF Take
  <2> QED BY <1>1, <1>2, <2>1, NothingMoves
<1>4. CASE i = j /\ ~(ts' = ts /\ buffer' = buffer)
  <2> DEFINE n == IF Expect[i] = 0 \/ Len(buffer[i]) < Expect[i]
                  THEN Len(buffer[i]) ELSE Expect[i]
  <2>0. /\ ts'[i] = SubSeq(buffer[i], 1, n)
        /\ buffer'[i] = SubSeq(buffer[i], n + 1, Len(buffer[i]))
    BY <1>1, <1>4 DEF Take
  <2>1. ts[i] = <<>>
    BY <1>1, <1>4 DEF Inv, Carrying
  <2>2. buffer[i] \in Seq(Numbers) /\ Len(buffer[i]) \in Nat /\ Expect[i] \in Nat
    BY <1>1, ThreadAssumption
  <2>3. n \in 0..Len(buffer[i])
    BY <2>2
  <2> HIDE DEF n
  <2>4. SubSeq(buffer[i], 1, n) \o SubSeq(buffer[i], n + 1, Len(buffer[i])) = buffer[i]
    <3>1. /\ 1 \in 1..Len(buffer[i]) + 1 /\ n \in 1 - 1..Len(buffer[i])
          /\ Len(buffer[i]) \in n..Len(buffer[i])
      BY <2>2, <2>3
    <3>2. SubSeq(buffer[i], 1, n) \o SubSeq(buffer[i], n + 1, Len(buffer[i]))
            = SubSeq(buffer[i], 1, Len(buffer[i]))
      BY ONLY <2>2, <3>1, ConcatAdjacentSubSeq
    <3> QED BY <2>2, <3>2, SubSeqFull
  <2>5. Pending(i)' = ts'[i] \o buffer'[i] \o Offered(i - 1)'
    BY DEF Pending, Offered
  <2>6. Pending(i)' = buffer[i] \o Offered(i - 1)
    BY ONLY <2>5, <2>0, <2>4, <1>2
  <2>7. Pending(i) = (<<>> \o buffer[i]) \o Offered(i - 1)
    BY <2>1 DEF Pending, Offered
  <2>8. <<>> \o buffer[i] = buffer[i]
    BY <2>2, ConcatEmptySeq
  <2> QED BY <1>1, <2>6, <2>7, <2>8 DEF Keeps
<1> QED BY <1>3, <1>4

LEMMA FinishInOrder ==
  ASSUME Inv, NEW j \in Ops, NEW isNext \in BOOLEAN, Finish(j, isNext)
  PROVE  \A i \in Ops : Keeps(i) \/ Gets(i) \/ Finishes(i)
<1>1. /\ ts \in [Ops -> Seq(Numbers)] /\ got \in [Ops -> Numbers]
      /\ made \in [Deliverers -> Numbers] /\ buffer' = buffer /\ pc[j] = "process"
  BY DEF Finish, Inv, Types
<1>2. CASE isNext /\ ~exitFlag[j] /\ j < NOps
  <2>1. j \in Deliverers /\ j # NOps
    BY <1>2, Basics
  <2>2. deliver[j].step = "none"
    BY <1>1 DEF Inv, Carrying
  <2>3. /\ deliver' = [deliver EXCEPT ![j] = [step |-> "push", set |-> NextNumber(made[j])]]
        /\ made' = [made EXCEPT ![j] = NextNumber(made[j])]
        /\ ts' = ts /\ got' = got
    BY <1>1, <1>2 DEF Finish, Offer
  <2>4. NextNumber(made[j]) \in Numbers
    BY <1>1, <2>1, NextIsNumber
  <2>5. \A i \in Ops : Keeps(i) \/ Gets(i)
    BY <1>1, <2>1, <2>2, <2>3, <2>4, OfferGets
  <2> QED BY <2>5
<1>3. CASE ~(isNext /\ ~exitFlag[j] /\ j < NOps)
  <2>1. /\ got' = [got EXCEPT ![j] = ts[j][Len(ts[j])]]
        /\ ts' = [ts EXCEPT ![j] = <<>>]
        /\ deliver' = deliver /\ made' = made
    BY <1>3 DEF Finish
  <2> SUFFICES ASSUME NEW i \in Ops PROVE Keeps(i) \/ Finishes(i)
    OBVIOUS
  <2>2. Offered(i - 1)' = Offered(i - 1)
    BY <2>1 DEF Offered
  <2>3. CASE i # j
    BY <1>1, <2>1, <2>2, <2>3, NothingMoves
  <2>4. CASE i = j
    <3>1. ts'[i] = <<>> /\ got'[i] = ts[i][Len(ts[i])] /\ ts[i] # <<>>
      BY <1>1, <2>1, <2>4 DEF Inv, Carrying
    <3>2. Pending(i)' = (<<>> \o buffer[i]) \o Offered(i - 1)
      <4>1. Pending(i)' = ts'[i] \o buffer'[i] \o Offered(i - 1)'
        BY DEF Pending, Offered
      <4> QED BY <4>1, <1>1, <2>2, <3>1
    <3>3. <<>> \o buffer[i] = buffer[i]
      BY PendingParts, ConcatEmptySeq
    <3> QED BY <2>1, <3>1, <3>2, <3>3 DEF Finishes
  <2> QED BY <2>3, <2>4
<1> QED BY <1>2, <1>3

LEMMA OrderNext == Inv /\ InOrderOnce /\ [Next]_vars => InOrderOnce'
<1> SUFFICES ASSUME Inv, InOrderOnce, [Next]_vars
             PROVE  \A i \in Ops : Keeps(i) \/ Gets(i) \/ Finishes(i)
  BY OrderKept
<1>n. ASSUME UNCHANGED <<ts, got, made, buffer, deliver>>
      PROVE  \A i \in Ops : Keeps(i)
  BY <1>n DEF Keeps, Pending
<1>1. CASE StreamOffers
  <2>1. Stream \in Deliverers /\ Stream # NOps
    BY Basics, ThreadAssumption DEF Deliverers, Stream
  <2>2. /\ deliver[Stream].step = "none"
        /\ deliver' = [deliver EXCEPT ![Stream] =
                         [step |-> "push", set |-> NextNumber(made[Stream])]]
        /\ made' = [made EXCEPT ![Stream] = NextNumber(made[Stream])]
        /\ ts' = ts /\ got' = got /\ buffer' = buffer
    BY <1>1 DEF StreamOffers, Offer, objVars
  <2>3. NextNumber(made[Stream]) \in Numbers
    BY <2>1, NextIsNumber DEF Inv, Types
  <2>4. \A i \in Ops : Keeps(i) \/ Gets(i)
    BY <2>1, <2>2, <2>3, OfferGets
  <2> QED BY <2>4
<1>2. CASE \E d \in Deliverers : Deliver(d)
  BY <1>2, PushInOrder, FlagInOrder, SignalInOrder DEF Deliver
<1>3. CASE \E i \in Ops : Execute(i) \/ SpuriousWakeup(i)
  <2>1. PICK i \in Ops : Execute(i) \/ SpuriousWakeup(i)
    BY <1>3
  <2>2. CASE Take(i)
    BY <2>2, TakeInOrder
  <2>3. CASE \E isNext \in BOOLEAN : Finish(i, isNext)
    BY <2>3, FinishInOrder
  <2>4. CASE Top(i) \/ Test(i) \/ Look(i) \/ Sleep(i) \/ Awake(i) \/ SpuriousWakeup(i)
    <3>1. UNCHANGED <<ts, got, made, buffer, deliver>>
      BY <2>4 DEF Top, Test, Look, Sleep, Awake, SpuriousWakeup
    <3> QED BY <3>1, <1>n
  <2> QED BY <2>1, <2>2, <2>3, <2>4 DEF Execute
<1>4. CASE Executer
  <2>1. UNCHANGED <<ts, got, made, buffer, deliver>>
    BY <1>4 DEF Executer, StartOperator, AwaitReady, Cancel, Exit, ExitNotifies, Destroy,
                Delete, objVars
  <2> QED BY <2>1, <1>n
<1>5. CASE UNCHANGED vars
  <2>1. UNCHANGED <<ts, got, made, buffer, deliver>>
    BY <1>5 DEF vars
  <2> QED BY <2>1, <1>n
<1> QED BY <1>1, <1>2, <1>3, <1>4, <1>5 DEF Next

(* A chain of any length loses, repeats and reorders no tuple set, however *)
(* the deliveries and the unlocked tests of execute interleave.            *)
THEOREM ChainInOrder == Spec => []InOrderOnce
<1>1. Init => InOrderOnce
  BY InitInOrder
<1>2. Inv /\ InOrderOnce /\ [Next]_vars => InOrderOnce'
  BY OrderNext
<1> QED BY <1>1, <1>2, InvAlways, PTL DEF Spec

=============================================================================
