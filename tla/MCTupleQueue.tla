---------------------------- MODULE MCTupleQueue -----------------------------
(* TLC instances of TupleQueue.                                            *)
EXTENDS TupleQueue, TLC

CONSTANTS p1, p2, c1, c2

TwoProducers == {p1, p2}
TwoConsumers == {c1, c2}
=============================================================================
