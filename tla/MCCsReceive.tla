----------------------------- MODULE MCCsReceive -----------------------------
(* Instances of CsReceive: a message that the packets of wifi split in two *)
(* and those of lte hold whole, and one that is not for this station.      *)
EXTENDS CsReceive

CONSTANTS wifi, lte, long, other

MCSize == [n \in Networks |-> [m \in Messages |->
              CASE m = long -> IF n = wifi THEN 2 ELSE 1
                [] OTHER    -> IF n = wifi THEN 0 ELSE 1]]

MCRepeats == [n \in Networks |-> IF n = wifi THEN 1 ELSE 0]

=============================================================================
