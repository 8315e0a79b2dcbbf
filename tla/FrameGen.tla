------------------------------ MODULE FrameGen ------------------------------
(***************************************************************************)
(* rtl/frame_gen.sv: sends frame_count frames of frame_bytes bytes, back   *)
(* to back but for gap_bytes idle cycles, each time the host raises start. *)
(* As operators on its state, a record whose fields have the names of the  *)
(* registers.  Of a byte only its place in its frame matters.              *)
(***************************************************************************)
EXTENDS Naturals

CONSTANT HeaderBytes    \* a frame is at least its header and sequence number (18)

ASSUME GenAssumption == HeaderBytes \in Nat \ {0}

ResetGen == [state |-> "IDLE", byte_idx |-> 0, frames_left |-> 0, gap_left |-> 0,
             seq |-> 0, size_q |-> 0, gap_q |-> 0, sent_count |-> 0, start_q |-> FALSE]

\* Mistake: the command is a level, and a frame train follows another.
start_pulse_Level(g, start) == start

start_pulse(g, start) == start /\ ~g.start_q

gen_busy(g)   == g.state # "IDLE"
gen_tvalid(g) == g.state = "SEND"
gen_tlast(g)  == gen_tvalid(g) /\ g.byte_idx = g.size_q - 1

\* What starts a train: not while one is sent, and never an empty one.
begins(g, start, bytes, count) ==
    g.state = "IDLE" /\ start_pulse(g, start) /\ count # 0 /\ bytes >= HeaderBytes

\* One clock edge.
GenClocked(g, start, bytes, count, gap) ==
    LET begin == begins(g, start, bytes, count)
        last  == gen_tlast(g)
        gapOver == g.state = "GAP" /\ g.gap_left = 0
    IN  [state       |-> IF begin \/ gapOver THEN "SEND"
                         ELSE IF ~last THEN g.state
                         ELSE IF g.frames_left = 1 THEN "IDLE"
                         ELSE IF g.gap_q = 0 THEN "SEND" ELSE "GAP",
         byte_idx    |-> IF begin \/ last THEN 0
                         ELSE IF gen_tvalid(g) THEN g.byte_idx + 1 ELSE g.byte_idx,
         frames_left |-> IF begin THEN count
                         ELSE IF last THEN g.frames_left - 1 ELSE g.frames_left,
         gap_left    |-> IF last THEN (g.gap_q + 255) % 256
                         ELSE IF g.state = "GAP" /\ ~gapOver THEN g.gap_left - 1
                         ELSE g.gap_left,
         seq         |-> IF begin THEN 0 ELSE IF last THEN g.seq + 1 ELSE g.seq,
         size_q      |-> IF begin THEN bytes ELSE g.size_q,
         gap_q       |-> IF begin THEN gap ELSE g.gap_q,
         sent_count  |-> IF begin THEN 0
                         ELSE IF last THEN g.sent_count + 1 ELSE g.sent_count,
         start_q     |-> start]
=============================================================================
