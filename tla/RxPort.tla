------------------------------- MODULE RxPort -------------------------------
(***************************************************************************)
(* A receive shim behind a source that sends frames of any length, with or *)
(* without time between them and within them: the MAC, whose frames are at *)
(* least 20 byte times apart, but whose bytes cross into this clock domain *)
(* through a FIFO that may run dry within a frame (RX_FRAME_FIFO(0),       *)
(* datapath_top.sv:109-136), and the generator, whose frames may touch     *)
(* (gap_bytes = 0, frame_gen.sv:117).                                      *)
(***************************************************************************)
EXTENDS RxShim

CONSTANTS Payload,      \* bound: what bytes a frame has after its first
          MaxBytes,     \* bound: bytes of a frame
          MaxErrors     \* bound: frames with an error, between two resets

ASSUME PortAssumption == /\ Payload \subseteq Byte /\ Payload # {}
                         /\ MaxBytes \in Nat /\ MaxBytes >= MacBytes
                         /\ MaxErrors \in Nat

VARIABLES r,            \* the shim
          arriving,     \* history: the frame that is arriving
          marked,       \* history: how many frames had an error
          owed,         \* history: for each frame not yet retired, oldest first,
                        \* whether it is to be dropped
          touching,     \* history: a frame came right behind another
          justEnded,    \* history: a frame ended in the last cycle
          lost          \* history: a byte has met a full buffer

vars == <<r, arriving, marked, owed, touching, justEnded, lost>>

Beat == {b \in [byte : Byte, last : BOOLEAN, err : BOOLEAN] : b.err => b.last}

Init == /\ \E addr \in Address : r = ResetRx(ResetClassifier(addr, None))
        /\ arriving = <<>> /\ marked = 0 /\ owed = <<>>
        /\ touching = FALSE /\ justEnded = FALSE /\ lost = FALSE

\* A cycle may pass without a byte, within a frame too.  After a byte is lost only its frame
\* still ends.
Offers == {None} \cup {b \in Beat : /\ lost => arriving # <<>>
                                    /\ arriving # <<>> => b.byte \in Payload
                                    /\ Len(arriving) + 1 = MaxBytes => b.last
                                    /\ b.err => marked < MaxErrors}

\* A frame to be dropped: its address is incomplete, or no entry has it.
Dropped(f) == Len(f) < MacBytes \/ match([k \in Index |-> f[k + 1].byte]) = None

\* The scoreboard.  It gives up when a byte is lost.
Account(beat) ==
    LET gaveUp  == lost \/ overflows(r, beat)
        now     == IF beat = None THEN arriving ELSE Append(arriving, beat)
        decided == beat # None /\ Len(arriving) < MacBytes
                     /\ (Len(now) = MacBytes \/ beat.last)
    IN  /\ arriving' = IF beat = None THEN arriving
                       ELSE IF beat.last THEN <<>> ELSE now
        /\ marked' = marked + (IF beat # None /\ beat.err THEN 1 ELSE 0)
        /\ owed' = IF gaveUp THEN <<>>
                   ELSE Rest(owed, frame_done(r))
                          \o (IF decided THEN <<Dropped(now)>> ELSE <<>>)
        /\ touching' = (touching \/ (justEnded /\ beat # None))
        /\ justEnded' = (beat # None /\ beat.last)
        /\ lost' = gaveUp

Clock(beat) == r' = RxClocked(r, beat) /\ Account(beat)

Reset == /\ r' = ResetRx(ResetClassifier(r.c.addr, r.c.bypass))
         /\ arriving' = <<>> /\ marked' = 0 /\ owed' = <<>>
         /\ touching' = FALSE /\ justEnded' = FALSE /\ lost' = FALSE

Next == (\E beat \in Offers : Clock(beat)) \/ Reset

Spec == Init /\ [][Next]_vars
-----------------------------------------------------------------------------
\* The error bit shown at the last byte of a frame, where tx_shim.sv:22 reads it, is
\* the frame's own, however many frames were dropped ahead of it and however early:
\* order alone pairs the two (rx_shim.sv:153-178).
OwnVerdict == sent_last(r) => r.v # <<>> /\ v_head(r) = r.c.out.err

\* No error bit meets a full queue (rx_shim.sv:146, tb/rx_shim_tb.sv:310).
VerdictRoom == v_wr_en(r) => Len(r.v) < VerdictDepth

\* Frames are retired one by one, in the order they came and as what they are, as
\* the latency probe needs it: no two share a pulse, although drops are counted a
\* cycle late and before their frame has ended (rx_shim.sv:154-155).
RetiredInOrder ==
    \A beat \in Offers : ~lost /\ retire_valid(r, beat) =>
        /\ owed # <<>> /\ Head(owed) = retire_drop(r, beat)
        /\ ~(sent_last(r) /\ drop_pulse(r))

\* One idle cycle after each frame is all the buffer needs: the classifier spends a
\* cycle more on a frame than it has bytes.  Only frames that touch can overflow it
\* (rx_shim.sv:79).
IdleIsEnough == lost => touching

\* When the source is silent and a clock edge changes nothing more, every frame has been
\* retired and no error bit and no early end is left over: one that stayed would be
\* paired with every frame after it, and a frame that stayed would be stuck.
NothingLeft == ~lost /\ arriving = <<>> /\ RxClocked(r, None) = r =>
                  owed = <<>> /\ r.v = <<>> /\ r.v_pend = 0
=============================================================================
