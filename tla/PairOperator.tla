---------------------------- MODULE PairOperator -----------------------------
(***************************************************************************)
(* A join or a union of dm2/is (JoinOperator, UnionOperator): two          *)
(* operators hand it tuple sets, receiveTupleSet pairs those of one        *)
(* receive time in waitQMap, and the operator's own thread takes a pair at *)
(* a time and processes it.                                                *)
(*                                                                         *)
(* Each side is one operator thread and brings its tuple sets in the order *)
(* of their receive times; it may leave times out (its process returned    *)
(* false, the table was unknown, the query of that window began later).    *)
(* The thread of the operator itself is OperatorThread; here it takes a    *)
(* pair when it likes.  Tuple sets of recursive queries, whose first       *)
(* arrival asks the other side for its data, are not modelled, nor are     *)
(* conditions that compare a column with a constant.                       *)
(***************************************************************************)
EXTENDS Integers, Sequences, FiniteSets

CONSTANTS
    Operators,    \* operators of which one is the instance, see OperatorAssumption
    TupleSets,    \* what a tuple set may hold: sequences of tuples of strings
    MaxTime       \* bound: receive times

(* A string is a sequence of characters.                                   *)
Underscore == "_"

Rels == {"=", "<>"}

(* A condition compares column left of the first table with column right   *)
(* of the second; column 0 is a name neither of the tables has.            *)
ASSUME OperatorAssumption ==
    /\ MaxTime \in Nat
    /\ \A o \in Operators :
          /\ o.kind \in {"join", "union"}
          /\ o.argument \in Seq([left : Nat, right : Nat, rel : Rels])
          /\ o.fits \in BOOLEAN        \* union: the columns agree
          /\ o.tie \in BOOLEAN         \* the tables have one size and one name
    /\ \A t \in TupleSets : Len(t) \in Nat

Sides == {"left", "right"}             \* left: more attributes, or the greater name
Other(s) == CHOOSE r \in Sides : r # s

VARIABLES
    op,           \* the operator: member of Operators
    brought,      \* brought[s]: receive times side s has brought
    waitQMap,     \* receive time |-> the side that waits with it
    buffer,       \* the operator's buffer: [side, time]
    ts,           \* the pair being processed
    processed,    \* history: receive times that were processed, in this order
    prep,         \* what process keeps from one pair to the next
    out           \* <<the result>>, until it is handed on

vars == <<op, brought, waitQMap, buffer, ts, processed, prep, out>>

Unprepared == [schema |-> FALSE, conditions |-> <<>>, isUseHashJoin |-> FALSE,
               small |-> <<>>, large |-> <<>>, isReverse |-> FALSE, checked |-> FALSE]

WellFormed(o) == o.fits /\ \A k \in 1..Len(o.argument) : o.argument[k].left # 0

TypeOK ==
    /\ op \in Operators
    /\ brought \in [Sides -> SUBSET (1..MaxTime)]
    /\ waitQMap \in [DOMAIN waitQMap -> Sides] /\ DOMAIN waitQMap \subseteq 1..MaxTime
    /\ buffer \in Seq([side : Sides, time : 1..MaxTime])
    /\ ts \in Seq([side : Sides, time : 1..MaxTime]) /\ Len(ts) \in {0, 2}
    /\ processed \in Seq(1..MaxTime)
    /\ prep.schema \in BOOLEAN /\ prep.checked \in BOOLEAN
    /\ Len(prep.small) = Len(prep.large) /\ Len(prep.small) <= Len(op.argument)
    /\ out # <<>> => ts # <<>> /\ Len(out) = 1 /\ out[1].next \in BOOLEAN

Init ==
    /\ op \in Operators
    /\ brought = [s \in Sides |-> {}]
    /\ waitQMap = <<>>
    /\ buffer = <<>>
    /\ ts = <<>>
    /\ processed = <<>>
    /\ prep = Unprepared
    /\ out = <<>>

-----------------------------------------------------------------------------
(* receiveTupleSet, under bufMtx.  The first tuple set of a receive time   *)
(* waits; the second is appended together with it, the side with more      *)
(* attributes first, the one that waited first if nothing tells them apart.*)
FirstOf(s, t) == IF op.tie THEN waitQMap[t] ELSE "left"

Wait(s, t) ==
    /\ t \notin DOMAIN waitQMap
    /\ waitQMap' = [u \in DOMAIN waitQMap \cup {t} |-> IF u = t THEN s ELSE waitQMap[u]]
    /\ UNCHANGED buffer

(* Deliberate faults, see "mutants" in PROJECT.json. *)
PairAndKeep(s, t) ==
    /\ t \in DOMAIN waitQMap
    /\ buffer' = buffer \o <<[side |-> FirstOf(s, t), time |-> t],
                             [side |-> Other(FirstOf(s, t)), time |-> t]>>
    /\ UNCHANGED waitQMap

PairAsTheyCome(s, t) ==
    /\ t \in DOMAIN waitQMap
    /\ buffer' = buffer \o <<[side |-> waitQMap[t], time |-> t], [side |-> s, time |-> t]>>
    /\ waitQMap' = [u \in DOMAIN waitQMap \ {t} |-> waitQMap[u]]

PairInFront(s, t) ==
    /\ t \in DOMAIN waitQMap
    /\ buffer' = <<[side |-> FirstOf(s, t), time |-> t],
                   [side |-> Other(FirstOf(s, t)), time |-> t]>> \o buffer
    /\ waitQMap' = [u \in DOMAIN waitQMap \ {t} |-> waitQMap[u]]

Pair(s, t) ==
    /\ t \in DOMAIN waitQMap
    /\ buffer' = buffer \o <<[side |-> FirstOf(s, t), time |-> t],
                             [side |-> Other(FirstOf(s, t)), time |-> t]>>
    /\ waitQMap' = [u \in DOMAIN waitQMap \ {t} |-> waitQMap[u]]

ReceiveTupleSet(s, t) ==
    /\ \A u \in brought[s] : u < t
    /\ Wait(s, t) \/ Pair(s, t)
    /\ brought' = [brought EXCEPT ![s] = @ \cup {t}]
    /\ UNCHANGED <<op, ts, processed, prep, out>>

(* Deliberate fault, see "mutants" in PROJECT.json. *)
GetTupleSetAll ==
    /\ ts = <<>>
    /\ buffer # <<>>
    /\ ts' = buffer
    /\ buffer' = <<>>
    /\ UNCHANGED <<op, brought, waitQMap, processed, prep, out>>

(* getTupleSet takes up to expect_data_size, 2, from the buffer.           *)
GetTupleSet ==
    /\ ts = <<>>
    /\ buffer # <<>>
    /\ ts' = IF Len(buffer) < 2 THEN buffer ELSE SubSeq(buffer, 1, 2)
    /\ buffer' = SubSeq(buffer, Len(ts') + 1, Len(buffer))
    /\ UNCHANGED <<op, brought, waitQMap, processed, prep, out>>

-----------------------------------------------------------------------------
(* process: first and second are the contents of the pair.  A result row   *)
(* of a join is the pair of positions it was made from, of a union the     *)
(* table and the position.                                                 *)
Result(next, first, second, rows) ==
    /\ out' = <<[next |-> next, first |-> first, second |-> second, rows |-> rows]>>
    /\ processed' = Append(processed, ts[1].time)
    /\ UNCHANGED <<op, brought, waitQMap, buffer, ts>>

Satisfies(c, row1, row2) ==
    IF c.rel = "=" THEN row1[c.left] = row2[c.right] ELSE row1[c.left] # row2[c.right]

(* The conditions up to the first that names an unknown column.            *)
Parsed ==
    LET bad == {k \in 1..Len(op.argument) : op.argument[k].left = 0}
    IN  SubSeq(op.argument, 1,
               IF bad = {} THEN Len(op.argument)
               ELSE (CHOOSE k \in bad : \A j \in bad : k <= j) - 1)

(* The first pair sets the output schema and the conditions; an unknown    *)
(* name ends process there, with the schema set and the conditions so far. *)
PrepareJoin ==
    IF prep.schema THEN prep
    ELSE [prep EXCEPT !.schema = TRUE,
                      !.conditions = Parsed,
                      !.isUseHashJoin = /\ op.argument # <<>>
                                        /\ \A k \in 1..Len(Parsed) : Parsed[k].rel = "="]

JoinRefused(first, second) ==
    /\ ~prep.schema /\ Parsed # op.argument
    /\ prep' = PrepareJoin
    /\ Result(FALSE, first, second, {})

JoinGoesOn == prep.schema \/ Parsed = op.argument

NestedLoopJoin(first, second) ==
    /\ JoinGoesOn /\ ~PrepareJoin.isUseHashJoin
    /\ prep' = PrepareJoin
    /\ Result(TRUE, first, second,
              {p \in (1..Len(first)) \X (1..Len(second)) :
                  \A k \in 1..Len(prep'.conditions) :
                      Satisfies(prep'.conditions[k], first[p[1]], second[p[2]])})

(* The key of a row: the columns of a list of indices, as strings, joined  *)
(* by an underscore before every one but those that follow nothing yet.    *)
JoinKey(row, idxList) ==
    LET key[k \in 0..Len(idxList)] ==
            IF k = 0 THEN <<>>
            ELSE (IF key[k - 1] = <<>> THEN <<>> ELSE Append(key[k - 1], Underscore))
                   \o row[idxList[k]]
    IN  key[Len(idxList)]

Lefts(conditions) == [k \in 1..Len(conditions) |-> conditions[k].left]
Rights(conditions) == [k \in 1..Len(conditions) |-> conditions[k].right]

(* What the hash join relies on: no two rows have one key and columns that *)
(* differ.  It holds for one condition; with more, columns that hold       *)
(* underscores may break it, ("a", "b_c") having the key of ("a_b", "c").  *)
KeysTell ==
    \A o \in Operators, first, second \in TupleSets :
        \A i \in 1..Len(first), j \in 1..Len(second) :
            /\ WellFormed(o) /\ \A k \in 1..Len(o.argument) : o.argument[k].rel = "="
            /\ JoinKey(first[i], Lefts(o.argument)) = JoinKey(second[j], Rights(o.argument))
            => \A k \in 1..Len(o.argument) : Satisfies(o.argument[k], first[i], second[j])

(* Deliberate fault, see "mutants" in PROJECT.json. *)
RolesKept(isReverse) == prep

(* The smaller tuple set is hashed.  The lists of key columns belong to    *)
(* the roles, so they change places when the roles do ...                  *)
Roles(isReverse) ==
    IF prep.small # <<>> /\ prep.isReverse # isReverse
    THEN [prep EXCEPT !.small = prep.large, !.large = prep.small]
    ELSE prep

(* ... and are read from the argument, which has to be understood once     *)
(* more, while there are none.                                             *)
KeyLists(isReverse) ==
    LET parsed == Parsed
        firsts == Lefts(parsed)
        seconds == Rights(parsed)
        p == IF prep.schema THEN Roles(isReverse) ELSE PrepareJoin
    IN  IF p.small # <<>> THEN [p EXCEPT !.isReverse = isReverse]
        ELSE [p EXCEPT !.isReverse = isReverse,
                       !.small = IF isReverse THEN seconds ELSE firsts,
                       !.large = IF isReverse THEN firsts ELSE seconds]

HashJoin(first, second) ==
    /\ JoinGoesOn /\ PrepareJoin.isUseHashJoin
    /\ LET isReverse == Len(first) >= Len(second)
           firstKeys == IF isReverse THEN prep'.large ELSE prep'.small
           secondKeys == IF isReverse THEN prep'.small ELSE prep'.large
           understood == Roles(isReverse).small # <<>> \/ Parsed = op.argument
       IN  /\ prep' = KeyLists(isReverse)
           /\ Result(understood, first, second,
                     {p \in (1..Len(first)) \X (1..Len(second)) :
                         /\ understood
                         /\ JoinKey(first[p[1]], firstKeys) = JoinKey(second[p[2]], secondKeys)})

-----------------------------------------------------------------------------
(* UnionOperator::process.  If one table is empty the result is the other. *)
(* The columns are compared when their numbers are not those of the last   *)
(* comparison, which are kept before it has succeeded.                     *)
Rows(first, second) ==
    {<<1, k>> : k \in 1..Len(first)} \cup {<<2, k>> : k \in 1..Len(second)}

UnionOther(first, second) ==
    /\ (first = <<>>) # (second = <<>>)
    /\ Result(TRUE, first, second, Rows(first, second))
    /\ UNCHANGED prep

UnionRefused(first, second) ==
    /\ (first = <<>>) = (second = <<>>)
    /\ ~prep.checked /\ ~op.fits
    /\ prep' = [prep EXCEPT !.checked = TRUE]
    /\ Result(FALSE, first, second, {})

UnionMerged(first, second) ==
    /\ (first = <<>>) = (second = <<>>)
    /\ prep.checked \/ op.fits
    /\ prep' = [prep EXCEPT !.checked = TRUE]
    /\ Result(TRUE, first, second, Rows(first, second))

Process(first, second) ==
    /\ Len(ts) = 2 /\ out = <<>>
    /\ \/ /\ op.kind = "join"
          /\ \/ JoinRefused(first, second)
             \/ NestedLoopJoin(first, second)
             \/ HashJoin(first, second)
       \/ /\ op.kind = "union"
          /\ \/ UnionOther(first, second)
             \/ UnionRefused(first, second)
             \/ UnionMerged(first, second)

(* fireEvent, if process returned true, and the end of the round.          *)
Finish ==
    /\ out # <<>>
    /\ ts' = <<>>
    /\ out' = <<>>
    /\ UNCHANGED <<op, brought, waitQMap, buffer, processed, prep>>

Next ==
    \/ \E s \in Sides, t \in 1..MaxTime : ReceiveTupleSet(s, t)
    \/ GetTupleSet
    \/ \E first, second \in TupleSets : Process(first, second)
    \/ Finish

Spec == Init /\ [][Next]_vars

-----------------------------------------------------------------------------
Complete == brought["left"] \cap brought["right"]
Pending == ts \o buffer                 \* pairs not yet finished
Unprocessed == IF out = <<>> THEN Pending ELSE buffer

(* What is in the buffer, and with the operator, are whole pairs of one    *)
(* receive time, one of each side and in the fixed order of the tables,    *)
(* however the two sides' receiveTupleSet and getTupleSet interleave.      *)
PairsWhole ==
    /\ \A k \in 1..Len(Pending) :
          \E j \in 1..Len(Pending) :
              /\ j = IF k % 2 = 1 THEN k + 1 ELSE k - 1
              /\ Pending[j] = [side |-> Other(Pending[k].side), time |-> Pending[k].time]
    /\ op.tie \/ \A k \in 1..Len(Pending) : Pending[k].side = IF k % 2 = 1 THEN "left" ELSE "right"

(* A tuple set waits exactly as long as its counterpart is not there: a    *)
(* time one side brought is in waitQMap, a time both brought is in the     *)
(* buffer, with the operator or processed, in one of them and once.        *)
NothingLost ==
    /\ \A t \in 1..MaxTime, s \in Sides :
          t \in brought[s] \ brought[Other(s)] <=> t \in DOMAIN waitQMap /\ waitQMap[t] = s
    /\ \A t \in Complete :
          Cardinality({k \in 1..Len(processed) : processed[k] = t})
            + Cardinality({k \in 1..Len(Unprocessed) : Unprocessed[k].side = "left"
                                                        /\ Unprocessed[k].time = t}) = 1

(* The result of a join is what its argument asks for, of a union all rows *)
(* of both: hashing the smaller side, with key lists kept from pair to     *)
(* pair and exchanged when the other side becomes the smaller one, finds   *)
(* what comparing every row with every row does.                           *)
ResultRight ==
    \A k \in 1..Len(out) :
        LET r == out[k]
        IN  WellFormed(op) =>
              /\ r.next
              /\ r.rows = IF op.kind = "union" THEN Rows(r.first, r.second)
                          ELSE {p \in (1..Len(r.first)) \X (1..Len(r.second)) :
                                  \A c \in 1..Len(op.argument) :
                                      Satisfies(op.argument[c], r.first[p[1]], r.second[p[2]])}

(* Pairs are processed in the order of their receive times, each once and  *)
(* none passed over, although they wait and queue in between.              *)
Promise == INSTANCE OrderedPairs WITH ReceiveTimes <- 1..MaxTime
ImplementsOrderedPairs == Promise!PairsSpec
=============================================================================
