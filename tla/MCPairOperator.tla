--------------------------- MODULE MCPairOperator ----------------------------
(* Operators and tuple sets for the runs of PairOperator: two columns, in  *)
(* opposite order on the two sides; strings empty or of one character.     *)
EXTENDS PairOperator

Strings == {<<>>, <<"x">>}
Tuples == [1..2 -> Strings]
MCTupleSets == UNION {[1..n -> Tuples] : n \in 0..2}

Condition(left, right, rel) == [left |-> left, right |-> right, rel |-> rel]
First == Condition(1, 2, "=")
Second == Condition(2, 1, "=")
NotSecond == Condition(2, 1, "<>")
Unknown == Condition(0, 0, "=")

Join(argument) == [kind |-> "join", argument |-> argument, fits |-> TRUE, tie |-> FALSE]
Union(fits, tie) == [kind |-> "union", argument |-> <<>>, fits |-> fits, tie |-> tie]

MCOperators == {Join(<<>>), Join(<<First>>), Join(<<First, Second>>), 
                Join(<<First, NotSecond>>), Join(<<First, Unknown>>),
                Union(TRUE, TRUE), Union(FALSE, FALSE)}

(* With these strings the keys tell rows apart.                            *)
ASSUME KeysTellHere == KeysTell
=============================================================================
