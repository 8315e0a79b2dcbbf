------------------------------- MODULE Egress -------------------------------
(***************************************************************************)
(* The way out of the switch, rtl/datapath_top.sv:201-283: the register    *)
(* slice of an output (axis_switch.sv:154-163) feeds the credit sender of  *)
(* its port, the receiver feeds the MAC.  The slice stalls when the sender *)
(* is out of credits, and the MAC stalls as it likes.                      *)
(***************************************************************************)
EXTENDS CreditLink, AxisSkid

ASSUME EgressAssumption == None \notin Data

VARIABLES sk,       \* the slice
          entered   \* history: last beat the slice accepted

egressVars == <<vars, sk, entered>>

EgressInit == Init /\ sk = Empty /\ entered = Zero

\* A clock edge at which the switch offers a beat (None: it offers none).
EgressEdge(beat, fwd_deliver, ret_deliver, dst_ready) ==
    /\ Edge(sk.m # None, sk.m, fwd_deliver, ret_deliver, dst_ready)
    /\ sk' = Clocked(sk, beat, src_ready)
    /\ entered' = IF beat # None /\ s_tready(sk) THEN beat ELSE entered

EgressReset == Reset /\ sk' = Empty /\ entered' = Zero

EgressNext == \/ \E beat \in Data \cup {None}, fd, rd, dr \in BOOLEAN :
                    EgressEdge(beat, fd, rd, dr)
              \/ EgressReset

EgressSpec == EgressInit /\ [][EgressNext]_egressVars

\* The clock never stops; a pipe does not keep for ever what it holds; the MAC takes
\* in the end what it is shown (it drains one byte per cycle while it transmits).
\* Nothing is assumed of the switch: in a fair step it may offer nothing.
Tick(fds, rds, drs) == \E beat \in Data \cup {None}, fd \in fds, rd \in rds, dr \in drs :
                          EgressEdge(beat, fd, rd, dr)

FairEgress == /\ EgressSpec
              /\ WF_egressVars(Tick(BOOLEAN, BOOLEAN, BOOLEAN))
              /\ WF_egressVars(fwd # <<>> /\ Tick({TRUE}, BOOLEAN, BOOLEAN))
              /\ WF_egressVars(ret # 0 /\ Tick(BOOLEAN, {TRUE}, BOOLEAN))
              /\ WF_egressVars(out_valid /\ Tick(BOOLEAN, BOOLEAN, {TRUE}))
-----------------------------------------------------------------------------
held_by(slot) == IF slot # None THEN <<slot>> ELSE <<>>

\* From the switch to the MAC the beats pass through an ordered lossless channel: a
\* slice that stalls in the very cycle a beat comes in, the cycle the credits run
\* out, neither loses, repeats nor overtakes one (axis_skid.sv:30-46).
Link == INSTANCE OrderedLink
          WITH Depth <- Depth + 2, taken <- entered,
               chan <- (IF out_valid THEN <<rd_data>> ELSE <<>>) \o queue \o fwd
                         \o held_by(sk.m) \o held_by(sk.skid)
RefinesLink == Link!Spec

\* No beat is stranded in the slice, in a pipe, in the queue or at the read port when
\* the switch goes quiet, and no interleaving of sends and returns wedges the link:
\* out_valid follows every read and a spent credit comes back (credit_fifo.sv:43-53).
LinkDelivers == Link!Delivers
=============================================================================
