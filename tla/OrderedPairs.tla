---------------------------- MODULE OrderedPairs -----------------------------
(***************************************************************************)
(* What a join or a union promises of its two inputs, with no map and no   *)
(* buffer in it: each side brings tuple sets of rising receive times, and  *)
(* the times both sides brought are processed once each, the oldest first, *)
(* none passed over.                                                       *)
(***************************************************************************)
EXTENDS Naturals, Sequences

CONSTANTS Sides, ReceiveTimes

VARIABLES
    brought,      \* brought[s]: receive times side s has brought
    processed     \* receive times in the order they were processed

Due == {t \in UNION {brought[s] : s \in Sides} :
           /\ \A s \in Sides : t \in brought[s]
           /\ \A k \in 1..Len(processed) : processed[k] # t}

PairsInit ==
    /\ brought = [s \in Sides |-> {}]
    /\ processed = <<>>

Bring(s, t) ==
    /\ \A u \in brought[s] : u < t
    /\ brought' = [brought EXCEPT ![s] = @ \cup {t}]
    /\ UNCHANGED processed

ProcessOldest(t) ==
    /\ t \in Due
    /\ \A u \in Due : t <= u
    /\ processed' = Append(processed, t)
    /\ UNCHANGED brought

PairsNext ==
    \/ \E s \in Sides, t \in ReceiveTimes : Bring(s, t)
    \/ \E t \in Due : ProcessOldest(t)

PairsSpec == PairsInit /\ [][PairsNext]_<<brought, processed>>
=============================================================================
