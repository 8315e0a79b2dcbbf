----------------------------- MODULE Classifier -----------------------------
(***************************************************************************)
(* rtl/classifier.sv: the first MacBytes bytes of a frame decide where the *)
(* whole frame goes, or that it is discarded.  Verdicts travel ahead of    *)
(* the data, in a queue of their own or around it.                         *)
(*                                                                         *)
(* The state is one record.  A verdict, {hit, dest} in the code, is the    *)
(* destination, or None for a miss.                                        *)
(*                                                                         *)
(*   in_frame, addr, addr_cnt, addr_ok     header capture                  *)
(*   pushed                                the frame arriving is judged    *)
(*   meta, meta_rd_data                    verdict queue, its read port    *)
(*   bypass, from_bypass                   the verdict that went around it *)
(*   meta_live, meta_rd_q                  a verdict is in force; is fresh *)
(*   data, out                             data buffer, its read port      *)
(*   fill, s_tready, data_rd_q, m_tvalid   flow control                    *)
(*   drop_cnt                              frames discarded                *)
(***************************************************************************)
EXTENDS FifoOps

CONSTANTS Byte, Dest,   \* values of a byte, of a destination
          MacBytes,     \* bytes of an address (6)
          Table,        \* the entries <<address, destination>>, in order
                        \* (MATCH_MAC, MATCH_DEST)
          BufDepth,     \* data buffer (16)
          MetaDepth,    \* verdict queue (16)
          CountMod,     \* the drop counter counts modulo this (2^32)
          None          \* no beat, no destination

Index   == 0 .. MacBytes - 1
Address == [Index -> Byte]

ASSUME ClassifierAssumption ==
    /\ MacBytes \in Nat /\ MacBytes >= 2
    /\ Table \in Seq(Address \X Dest)
    /\ BufDepth \in Nat /\ BufDepth > MacBytes
    /\ MetaDepth \in Nat /\ MetaDepth >= BufDepth  \* both 16
    /\ CountMod \in Nat \ {0}
    /\ None \notin Dest

ResetClassifier(addr, bypass) ==
    [in_frame |-> FALSE, addr |-> addr, addr_cnt |-> 0, addr_ok |-> FALSE,
     pushed |-> FALSE, meta |-> <<>>, meta_rd_data |-> None,
     bypass |-> bypass, from_bypass |-> FALSE,
     meta_live |-> FALSE, meta_rd_q |-> FALSE,
     data |-> <<>>, out |-> [byte |-> CHOOSE b \in Byte : TRUE, last |-> FALSE],
     fill |-> 0, s_tready |-> FALSE, data_rd_q |-> FALSE, m_tvalid |-> FALSE,
     drop_cnt |-> 0]

\* The verdict of the table on an address: the lowest entry wins.
match(addr) ==
    LET hits == {k \in DOMAIN Table : Table[k][1] = addr}
    IN  IF hits = {} THEN None
        ELSE Table[CHOOSE k \in hits : \A l \in hits : k <= l][2]
-----------------------------------------------------------------------------
\* Handshakes.  beat is what the source offers, or None.
s_xfer(c, beat)  == beat # None /\ c.s_tready
m_xfer(c, rdy)   == c.m_tvalid /\ rdy
out_free(c, rdy) == ~c.m_tvalid \/ rdy

\* Header capture
sof(c, beat)      == s_xfer(c, beat) /\ ~c.in_frame
hdr_last(c, beat) == s_xfer(c, beat) /\ ~sof(c, beat) /\ c.addr_cnt = MacBytes - 1

\* Mistake: the byte that completes the header is not yet in the register.
addr_cmp_Register(c, beat) == c.addr

addr_cmp(c, beat) == [c.addr EXCEPT ![MacBytes - 1] = beat.byte]

hdr_fill(c, beat) == s_xfer(c, beat) /\ (sof(c, beat) \/ ~c.addr_ok)

\* Mistake: a frame that ends within its address gets no verdict.
meta_wr_en_NoRunt(c, beat) == (sof(c, beat) \/ ~c.pushed) /\ hdr_last(c, beat)

\* Mistake: a frame already judged is judged again at its end.
meta_wr_en_Twice(c, beat) == hdr_last(c, beat) \/ (s_xfer(c, beat) /\ beat.last)

\* Once per frame; a runt never hits.
meta_wr_en(c, beat) == /\ sof(c, beat) \/ ~c.pushed
                       /\ hdr_last(c, beat) \/ (s_xfer(c, beat) /\ beat.last)

verdict(c, beat) == IF hdr_last(c, beat) THEN match(addr_cmp(c, beat)) ELSE None

\* The verdict in force
meta_dest(c) == IF c.from_bypass THEN c.bypass ELSE c.meta_rd_data
meta_hit(c)  == meta_dest(c) # None

\* Sent or discarded
last_out(c, rdy) == c.out.last /\ (m_xfer(c, rdy) \/ (c.data_rd_q /\ ~meta_hit(c)))

verdict_free(c, rdy) == out_free(c, rdy) /\ (~c.meta_live \/ last_out(c, rdy))
meta_rd_en(c, rdy)   == c.meta # <<>> /\ verdict_free(c, rdy)

\* Mistake: a verdict goes around others that wait.
bypassed_Overtake(c, beat, rdy) == verdict_free(c, rdy) /\ meta_wr_en(c, beat)

\* Mistake: a verdict goes around while another is in force.
bypassed_Busy(c, beat, rdy) == c.meta = <<>> /\ meta_wr_en(c, beat)

bypassed(c, beat, rdy) == c.meta = <<>> /\ verdict_free(c, rdy) /\ meta_wr_en(c, beat)

\* A miss is drained while the output is idle.
data_rd_en(c, rdy) == /\ c.meta_live /\ c.data # <<>> /\ ~last_out(c, rdy)
                      /\ IF meta_hit(c) THEN out_free(c, rdy) ELSE ~c.m_tvalid

\* The frame in force has ended (send_end or drain_end).
ended(c, rdy) == c.meta_live /\ c.out.last
                   /\ IF meta_hit(c) THEN m_xfer(c, rdy) ELSE c.data_rd_q

\* Mistake: no slot is kept for the byte already on its way.
readyNext_NoMargin(c) == c.fill < BufDepth /\ Len(c.meta) # MetaDepth

readyNext(c) == c.fill < BufDepth - 1 /\ Len(c.meta) # MetaDepth

\* Mistake: the counter is bumped as long as the miss is in force.
discarded_WhileLive(c) == c.meta_live /\ ~meta_hit(c)

discarded(c) == c.meta_rd_q /\ ~meta_hit(c)

\* One clock edge.
ClassifierClocked(c, beat, rdy) ==
    LET x     == s_xfer(c, beat)
        start == sof(c, beat)
        fresh == meta_rd_en(c, rdy) \/ bypassed(c, beat, rdy)
        around == bypassed(c, beat, rdy)
        rd    == data_rd_en(c, rdy)
    IN  [in_frame     |-> IF x THEN ~beat.last ELSE c.in_frame,
         addr         |-> IF start THEN [c.addr EXCEPT ![0] = beat.byte]
                          ELSE IF hdr_fill(c, beat) THEN [c.addr EXCEPT ![c.addr_cnt] = beat.byte]
                          ELSE c.addr,
         addr_cnt     |-> IF start THEN 1
                          ELSE IF hdr_fill(c, beat) THEN c.addr_cnt + 1 ELSE c.addr_cnt,
         addr_ok      |-> hdr_last(c, beat) \/ (c.addr_ok /\ ~start),
         pushed       |-> meta_wr_en(c, beat) \/ (c.pushed /\ ~start),
         meta         |-> After(c.meta, MetaDepth, meta_wr_en(c, beat) /\ ~around,
                                verdict(c, beat), meta_rd_en(c, rdy)),
         meta_rd_data |-> ReadPort(c.meta, c.meta_rd_data, meta_rd_en(c, rdy)),
         bypass       |-> IF around THEN verdict(c, beat) ELSE c.bypass,
         from_bypass  |-> around \/ (c.from_bypass /\ ~meta_rd_en(c, rdy)),
         meta_live    |-> fresh \/ (c.meta_live /\ ~ended(c, rdy)),
         meta_rd_q    |-> fresh,
         data         |-> After(c.data, BufDepth, x, beat, rd),
         out          |-> ReadPort(c.data, c.out, rd),
         fill         |-> c.fill + (IF x THEN 1 ELSE 0) - (IF rd THEN 1 ELSE 0),
         s_tready     |-> readyNext(c),
         data_rd_q    |-> rd,
         m_tvalid     |-> IF out_free(c, rdy) THEN rd /\ meta_hit(c) ELSE c.m_tvalid,
         drop_cnt     |-> IF discarded(c) THEN (c.drop_cnt + 1) % CountMod ELSE c.drop_cnt]
=============================================================================
