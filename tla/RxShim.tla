------------------------------- MODULE RxShim -------------------------------
(***************************************************************************)
(* rtl/rx_shim.sv: the elastic buffer behind a MAC that never stalls, the  *)
(* classifier, and beside it a queue that carries the error bit of each    *)
(* frame.  m_tready is tied high by the voq (voq.sv:100).                  *)
(*                                                                         *)
(* The state is one record.  Beats carry the error bit (tuser), which      *)
(* means something at the last beat of a frame only.  The classifier does  *)
(* not store it; that its model does is history.                           *)
(*                                                                         *)
(*   buf, rd_data, out_valid       elastic buffer, its read port           *)
(*   c                             the classifier                          *)
(*   v, v_pend                     error bits; ends retired before they    *)
(*                                 came                                    *)
(*   drop_cnt_q, drop_q_valid      drop counter a cycle ago                *)
(*   overflow_cnt, over_active     bytes lost; the frame lost one          *)
(***************************************************************************)
EXTENDS Classifier

CONSTANTS ElasticDepth, VerdictDepth    \* BUF_DEPTH (2048), VERDICT_DEPTH (16)

ASSUME RxAssumption ==
    /\ ElasticDepth \in Nat /\ ElasticDepth >= 2
    /\ VerdictDepth \in Nat /\ VerdictDepth >= BufDepth   \* both 16
    /\ BufDepth >= MacBytes + 2                             \* 16 and 6
    /\ CountMod > 1                                         \* a count tells a change

ResetRx(classifier) ==
    [buf |-> <<>>, rd_data |-> None, out_valid |-> FALSE, c |-> classifier,
     v |-> <<>>, v_pend |-> 0, drop_cnt_q |-> 0, drop_q_valid |-> FALSE,
     overflow_cnt |-> 0, over_active |-> FALSE]
-----------------------------------------------------------------------------
\* beat is what the MAC delivers, or None.
buf_full(r) == Len(r.buf) = ElasticDepth

\* Mistake: the next byte is fetched only when none is waiting.
buf_rd_en_Half(r) == r.buf # <<>> /\ ~r.out_valid

buf_rd_en(r) == r.buf # <<>> /\ (~r.out_valid \/ r.c.s_tready)

\* What the classifier is offered.
offered(r) == IF r.out_valid THEN r.rd_data ELSE None

v_wr_en(r) == s_xfer(r.c, offered(r)) /\ r.rd_data.last

drop_pulse(r) == r.drop_q_valid /\ r.c.drop_cnt # r.drop_cnt_q

sent_last(r) == r.c.m_tvalid /\ r.c.out.last

\* Mistake: only frames that are sent are retired.
frame_done_Sent(r) == sent_last(r)

\* A frame is done when its last byte is sent, or when it is counted as dropped.
frame_done(r) == sent_last(r) \/ drop_pulse(r)

\* Mistake: an end that comes after its frame was retired stays in the queue.
v_pop_NoPend(r) == r.v # <<>> /\ frame_done(r)

\* A drop is decided early: the end of its frame may still have to come.
v_pop(r) == r.v # <<>> /\ (frame_done(r) \/ r.v_pend # 0)

\* The error bit shown beside each byte
v_head(r) == r.v # <<>> /\ Head(r.v)

lost_pulse(r, beat) == r.over_active /\ beat # None /\ beat.last

\* What the latency probe is told
retire_valid(r, beat) == frame_done(r) \/ lost_pulse(r, beat)
retire_drop(r, beat)  == drop_pulse(r) \/ lost_pulse(r, beat)

overflows(r, beat) == beat # None /\ buf_full(r)

\* One clock edge.
RxClocked(r, beat) ==
    [buf          |-> After(r.buf, ElasticDepth, beat # None, beat, buf_rd_en(r)),
     rd_data      |-> ReadPort(r.buf, r.rd_data, buf_rd_en(r)),
     out_valid    |-> buf_rd_en(r) \/ (r.out_valid /\ ~r.c.s_tready),
     c            |-> ClassifierClocked(r.c, offered(r), TRUE),
     v            |-> After(r.v, VerdictDepth, v_wr_en(r), v_wr_en(r) /\ r.rd_data.err, v_pop(r)),
     v_pend       |-> r.v_pend + (IF frame_done(r) THEN 1 ELSE 0) - (IF v_pop(r) THEN 1 ELSE 0),
     drop_cnt_q   |-> r.c.drop_cnt,
     drop_q_valid |-> TRUE,
     overflow_cnt |-> (r.overflow_cnt + (IF overflows(r, beat) THEN 1 ELSE 0)) % CountMod,
     over_active  |-> overflows(r, beat) \/ (r.over_active /\ ~(beat # None /\ beat.last))]
=============================================================================
