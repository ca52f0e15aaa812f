-------------------------- MODULE MCPartitionWindow --------------------------
(* Windows for the runs of PartitionWindow: two messages of one key, with  *)
(* different timestamps, and one of another key.                           *)
EXTENDS PartitionWindow

CONSTANTS early, late, other

MCKey == [m \in Messages |-> IF m = other THEN "b" ELSE "a"]
MCTime == [m \in Messages |-> IF m = late THEN 2 ELSE 1]

Kind(partition, rows, own, dup) ==
    [partition |-> partition, rows |-> rows, own |-> own, dup |-> dup]

AllWindows ==
    {Kind(TRUE, 1, TRUE, FALSE), Kind(TRUE, 2, TRUE, FALSE), Kind(TRUE, 2, TRUE, TRUE),
     Kind(TRUE, 1, FALSE, FALSE), Kind(TRUE, 2, FALSE, FALSE), Kind(FALSE, 2, FALSE, FALSE)}
=============================================================================
