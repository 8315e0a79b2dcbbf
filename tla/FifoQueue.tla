------------------------------ MODULE FifoQueue ------------------------------
(***************************************************************************)
(* What rtl/sync_fifo.sv promises its users: a bounded first-in first-out  *)
(* queue with a registered read port.  A write to a full queue and a read  *)
(* of an empty one are ignored; a read and a write may share a clock edge  *)
(* and both are judged by the queue as it stood before the edge.           *)
(***************************************************************************)
EXTENDS FifoOps

CONSTANTS Data,     \* values of wr_data, abstracted to a set
          Zero,     \* the all-zero word, to which reset clears rd_data
          Depth     \* parameter DEPTH

VARIABLES queue,    \* the words written and not yet read, oldest first
          rd_data   \* the registered read port

full  == Len(queue) = Depth
empty == queue = <<>>

TypeOK == /\ queue \in Seq(Data)
          /\ Len(queue) <= Depth
          /\ rd_data \in Data

Init == queue = <<>> /\ rd_data = Zero

\* One clock edge out of reset.
Clock(wr_en, wr_data, rd_en) ==
    /\ queue' = After(queue, Depth, wr_en, wr_data, rd_en)
    /\ rd_data' = ReadPort(queue, rd_data, rd_en)

\* One clock edge with rst_n low: the contents are forgotten.
Reset == queue' = <<>> /\ rd_data' = Zero

Next == \/ \E wr_en, rd_en \in BOOLEAN, d \in Data : Clock(wr_en, d, rd_en)
        \/ Reset

Spec == Init /\ [][Next]_<<queue, rd_data>>
=============================================================================
