-------------------------- MODULE MCOperatorThread ---------------------------
(* TLC instance of OperatorThread: a window, and an operator behind it.    *)
EXTENDS OperatorThread

DropLast == [i \in Ops |-> IF i = NOps THEN 0 ELSE 1]
=============================================================================
