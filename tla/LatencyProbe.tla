---------------------------- MODULE LatencyProbe ----------------------------
(***************************************************************************)
(* rtl/latency_probe.sv: stamps the first bit of each frame on its way in, *)
(* pairs the stamps in order with the last bits on the way out, and        *)
(* accumulates the differences.  As operators on its state, a record.      *)
(*                                                                         *)
(* What matters of a time is which frame it is taken of, so a stamp is the *)
(* name of a frame, and the accumulated minimum, maximum, sum and count    *)
(* are the sequence of pairs they are computed from.  The two stages of    *)
(* synchronizer ahead of the edge detectors delay both envelopes alike and *)
(* are left out.                                                           *)
(*                                                                         *)
(*   rx_q, last_q, tx_q       the envelopes a cycle ago                    *)
(*   clear_q, snapshot_q      the commands a cycle ago                     *)
(*   stamps, fifo_out         queue of stamps, its read port               *)
(*   v                        queue of verdicts: TRUE is drop              *)
(*   pop_q, tx_stamp          a pair is complete; the stamp of its end     *)
(*   acc, stat                the pairs so far; frozen for the host        *)
(*                                                                         *)
(* The error counters, which no decision of the host reads, are left out.  *)
(***************************************************************************)
EXTENDS FifoOps

CONSTANTS ProbeDepth,   \* DEPTH (16)
          None          \* no frame

ASSUME ProbeAssumption == ProbeDepth \in Nat \ {0}

ResetProbe == [rx_q |-> FALSE, last_q |-> FALSE, tx_q |-> None,
               clear_q |-> FALSE, snapshot_q |-> FALSE,
               stamps |-> <<>>, fifo_out |-> None, v |-> <<>>,
               pop_q |-> FALSE, tx_stamp |-> None,
               acc |-> <<>>, stat |-> <<>>]
-----------------------------------------------------------------------------
\* rx is what is on the line in: whether there is a bit, whether it is in a last byte,
\* and of which frame.  tx is the frame on the line out, or None.

\* Mistake: frames that touch are one.
rx_start_Edge(p, rx) == rx.ctl /\ ~p.rx_q

\* First bit in: the line becomes active, or the last byte of a frame is behind it.
rx_start(p, rx) == rx.ctl /\ (~p.rx_q \/ p.last_q)

\* Last bit out.
tx_done(p, tx) == tx = None /\ p.tx_q # None

clear_pulse(p, clear)       == clear /\ ~p.clear_q
snapshot_pulse(p, snapshot) == snapshot /\ ~p.snapshot_q

\* Mistake: only the accumulators are cleared.
fifo_clear_Never(p, clear) == FALSE

fifo_clear(p, clear) == clear_pulse(p, clear)

drop_pop(p) == p.v # <<>> /\ Head(p.v) /\ p.stamps # <<>>

pop(p, tx) == p.v # <<>> /\ ~Head(p.v) /\ tx_done(p, tx) /\ p.stamps # <<>>

\* One clock edge.  verdict is the set of the verdicts of this cycle: none or one.
ProbeClocked(p, rx, verdict, tx, clear, snapshot) ==
    LET rd  == pop(p, tx) \/ drop_pop(p)
        clr == clear_pulse(p, clear)
    IN  [rx_q       |-> rx.ctl,
         last_q     |-> rx.last,
         tx_q       |-> tx,
         clear_q    |-> clear,
         snapshot_q |-> snapshot,
         stamps     |-> IF fifo_clear(p, clear) THEN <<>>
                        ELSE After(p.stamps, ProbeDepth, rx_start(p, rx), rx.frame, rd),
         fifo_out   |-> IF fifo_clear(p, clear) THEN None
                        ELSE ReadPort(p.stamps, p.fifo_out, rd),
         v          |-> IF fifo_clear(p, clear) THEN <<>>
                        ELSE After(p.v, ProbeDepth, verdict # {}, TRUE \in verdict, rd),
         pop_q      |-> pop(p, tx),
         tx_stamp   |-> IF tx_done(p, tx) THEN p.tx_q ELSE p.tx_stamp,
         acc        |-> IF clr THEN <<>>
                        ELSE IF p.pop_q THEN Append(p.acc, <<p.fifo_out, p.tx_stamp>>)
                        ELSE p.acc,
         stat       |-> IF snapshot_pulse(p, snapshot) THEN p.acc ELSE p.stat]
=============================================================================
