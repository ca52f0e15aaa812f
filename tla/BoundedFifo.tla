----------------------------- MODULE BoundedFifo -----------------------------
(***************************************************************************)
(* What a stream promises about the batches handed to it: they are kept in *)
(* the order they were accepted, at most Capacity of them at a time, and a *)
(* kept batch is eventually taken.  No thread, lock or condition variable  *)
(* appears here; TupleQueue is shown to implement this specification.      *)
(***************************************************************************)
EXTENDS Naturals, Sequences

CONSTANTS Batch, Capacity

VARIABLE fifo

FifoInit == fifo = <<>>

Accept(b) == Len(fifo) < Capacity /\ fifo' = Append(fifo, b)

Take == fifo # <<>> /\ fifo' = Tail(fifo)

FifoNext == Take \/ \E b \in Batch : Accept(b)

FifoSpec == FifoInit /\ [][FifoNext]_fifo /\ WF_fifo(Take)
=============================================================================
