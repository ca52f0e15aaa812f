------------------------------ MODULE MCCsSend ------------------------------
(* Instances of CsSend: one peer in the lists, and perhaps a new one.      *)
EXTENDS CsSend

CONSTANTS a, b, x, y

MCList == [s \in {a} |-> x]

=============================================================================
