------------------------------- MODULE FifoOps -------------------------------
(***************************************************************************)
(* What one clock edge does to the contents q of a sync_fifo of depth      *)
(* `depth' and to its registered read port, as operators, for the          *)
(* components that own one queue (CreditLink) or an array of them (Voq).   *)
(* FifoQueue turns them into a specification, which SyncFifo implements.   *)
(***************************************************************************)
EXTENDS Integers, Sequences

\* What is left when the read, if there is one to make, has taken the head.
Rest(q, rd_en) == IF rd_en /\ q # <<>> THEN Tail(q) ELSE q

\* What is added: a write to a full queue is dropped without a trace, even if
\* a read frees a place at the same edge.
Added(q, depth, wr_en, wr_data) ==
    IF wr_en /\ Len(q) # depth THEN <<wr_data>> ELSE <<>>

After(q, depth, wr_en, wr_data, rd_en) ==
    Rest(q, rd_en) \o Added(q, depth, wr_en, wr_data)

\* The read port, with its present value rd_data.
ReadPort(q, rd_data, rd_en) == IF rd_en /\ q # <<>> THEN Head(q) ELSE rd_data
=============================================================================
