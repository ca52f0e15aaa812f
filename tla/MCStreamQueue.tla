---------------------------- MODULE MCStreamQueue -----------------------------
(* Windows on one stream, for the runs of StreamQueue.                     *)
EXTENDS StreamQueue

CONSTANTS rows, range, all, cross, crossRange

MCWin == [w \in Windows |->
    CASE w = rows       -> [kind |-> "rows",  size |-> 2, own |-> TRUE,  dup |-> FALSE]
      [] w = range      -> [kind |-> "range", size |-> 1, own |-> TRUE,  dup |-> FALSE]
      [] w = all        -> [kind |-> "all",   size |-> 0, own |-> TRUE,  dup |-> FALSE]
      [] w = cross      -> [kind |-> "rows",  size |-> 2, own |-> FALSE, dup |-> FALSE]
      [] w = crossRange -> [kind |-> "range", size |-> 2, own |-> FALSE, dup |-> FALSE]]

(* A row and a range window of the stream itself together, the others one  *)
(* at a time.                                                              *)
MCDeployments == {{rows, range}, {all}, {cross}, {crossRange}}

NoWindows == {{}}
=============================================================================
