------------------------------ MODULE HwTrial ------------------------------
(***************************************************************************)
(* A measurement without a network: host/measure.py --rfc2544 searches for *)
(* the smallest gap at which the board loses no frame.  For each gap it    *)
(* runs a trial (run_hwgen): clear the probe, set up and start the         *)
(* generator, poll until all is sent, freeze and read the probe.  The      *)
(* generator and the probe are the modules of that name, wired as in       *)
(* datapath_top.sv:298-345.                                                *)
(*                                                                         *)
(* Of the data path between them only this matters: frames stay in order;  *)
(* one that no entry matches is retired as dropped, any other as passed,   *)
(* once; a passed one is refused by a full voq, and then it never leaves;  *)
(* each takes an unknown time.  Frames from the network (strays), none of  *)
(* which any entry matches, come in through the MAC whenever they like;    *)
(* their envelope (mon_rx_dv) leads their stream.                          *)
(*                                                                         *)
(* The elastic buffer ahead of the classifier does not overflow here.  It  *)
(* does, and a frame is retired twice (rx_shim.sv:79, 201-204), behind     *)
(* some two thousand frames that touch; long before, the voq, drained more *)
(* slowly by the preamble and the gap of each frame, has refused one, and  *)
(* a trial that transmits fewer frames than it sent is not lossless.       *)
(*                                                                         *)
(* Time: a register access over the serial line takes half a millisecond,  *)
(* a frame is in the data path for some ten microseconds.  So there is a   *)
(* clock edge between two accesses, and what was in the data path at one   *)
(* access has left it before the next.                                     *)
(***************************************************************************)
EXTENDS FrameGen, LatencyProbe

CONSTANTS Size,     \* bytes per frame
          Count,    \* frames per trial (--count)
          MaxGap,   \* the search covers the gaps 0 .. MaxGap (255)
          Room,     \* frames a voq holds
          Strays,   \* bound: frames from the network
          Resets,   \* bound: resets of the board
          Hurried,  \* whether the deadline of a trial may pass (30 s)
          Stray     \* the name of a frame from the network

\* measure.py refuses a size below 64 (:360); the names of frames are told apart.
ASSUME TrialAssumption == /\ Size \in Nat /\ Size >= HeaderBytes
                          /\ Count \in Nat /\ MaxGap \in Nat
                          /\ Room \in Nat /\ Strays \in Nat /\ Resets \in Nat
                          /\ Hurried \in BOOLEAN /\ None \notin Int
                          /\ Stray # None /\ Stray \notin (0 .. 2) \X Nat
                          /\ None \notin (0 .. 2) \X Nat

VARIABLES g,        \* the generator
          p,        \* the probe
          ctl,      \* control registers: command bits, gap, size, count
          inframe,  \* the frame that is entering the shim, or None
          flight,   \* frames that have entered and are not retired
          queued,   \* frames in the voq and the link
          tx,       \* the frame the MAC is sending, or None
          stray,    \* where the stray is: out; its envelope, its stream, or both in; or torn,
                    \* its envelope in when the board came out of a reset
          h,        \* the host
          busyWith, \* history: what was in the data path at the last access
          ticked,   \* history: a clock edge since the last access
          train,    \* history: the number of trains started, modulo 3 to bound it
          quota,    \* strays and resets still to come
          spoilt,   \* history: the probe cannot tell the frames of this trial apart
          tried     \* history: the gaps tried and whether they lost no frame

dp   == <<inframe, flight, queued, tx, stray>>
hist == <<busyWith, ticked, train, quota, spoilt, tried>>
vars == <<g, p, ctl, dp, h, hist>>

Init == /\ g = ResetGen /\ p = ResetProbe
        /\ ctl = [cmd |-> {}, gap |-> 0, bytes |-> 0, count |-> 0]
        /\ inframe = None /\ flight = <<>> /\ queued = <<>> /\ tx = None /\ stray = "out"
        /\ h = [pc |-> "clear", low |-> 0, high |-> MaxGap, sent |-> 0,
                best |-> None, late |-> FALSE]
        /\ busyWith = {} /\ ticked = TRUE /\ train = 0
        /\ quota = [strays |-> Strays, resets |-> Resets]
        /\ spoilt = FALSE /\ tried = {}
-----------------------------------------------------------------------------
(* The board.                                                              *)

\* The envelope is in.
Carried == {"envelope", "both", "torn"}

\* The next place of the stray; nothing comes when the bound is reached.  What of a torn
\* one is left is a frame to the MAC or not.
StrayMoves == CASE stray = "out"      -> {"out"} \cup (IF quota.strays > 0 THEN {"envelope"} ELSE {})
                [] stray = "envelope" -> {"envelope", "both"}
                [] stray = "both"     -> {"both", "stream"}
                [] stray = "stream"   -> {"stream", "out"}
                [] stray = "torn"     -> {"torn", "both", "out"}

\* A frame is named by its train and its place in it.
GenFrame == <<train, g.seq>>

\* What enters the shim of port 0: the generator, as long as it is busy, else the MAC.
beat(to) == IF gen_busy(g)
            THEN [valid |-> gen_tvalid(g), last |-> gen_tlast(g), frame |-> GenFrame]
            ELSE [valid |-> stray \in {"both", "stream"},
                  last |-> stray = "stream" /\ to = "out", frame |-> Stray]

\* What the probe takes for the line in.
rx_line == IF gen_busy(g)
           THEN [ctl |-> gen_tvalid(g), last |-> gen_tlast(g), frame |-> GenFrame]
           ELSE [ctl |-> stray \in Carried, last |-> FALSE, frame |-> Stray]

\* The frame a byte belongs to is the one whose header came first: the generator can
\* break into a stray.
Entering(to) == IF inframe # None THEN inframe ELSE beat(to).frame

InDatapath == {inframe, tx} \cup {flight[k] : k \in DOMAIN flight}
                \cup {queued[k] : k \in DOMAIN queued}
                \cup (IF stray = "out" THEN {} ELSE {Stray})

\* The line is quiet: no train runs, no frame is on its way or has just left.
Still == ~gen_busy(g) /\ InDatapath \subseteq {None} /\ p.tx_q = None

\* The stamps and the verdicts that are queued need not be of the same frames in four cases:
\* the probe is cleared when the line is not quiet (a stray is there, or a train that
\* outlasted its deadline); a train begins when of a stray the envelope is in and the stream
\* is not; a frame comes in when the queue of stamps is full; a reset tears a stray (Reset).
Spoils(starts, clears) ==
    \/ clears /\ ~Still
    \/ starts /\ stray = "envelope"
    \/ rx_start(p, rx_line) /\ Len(p.stamps) = ProbeDepth

\* One clock edge: the oldest frame is retired or not, the transmitter moves or not, the
\* stray goes where `to' says.
Tick(retire, move, to) ==
    LET retires == retire /\ flight # <<>>
        drops   == Head(flight) = Stray
        begin   == begins(g, "start" \in ctl.cmd, ctl.bytes, ctl.count)
        starts  == move /\ tx = None /\ queued # <<>>
        clears  == clear_pulse(p, "clear" \in ctl.cmd)
    IN  /\ g' = GenClocked(g, "start" \in ctl.cmd, ctl.bytes, ctl.count, ctl.gap)
        /\ p' = ProbeClocked(p, rx_line, IF retires THEN {drops} ELSE {}, tx,
                             "clear" \in ctl.cmd, "snapshot" \in ctl.cmd)
        /\ inframe' = IF ~beat(to).valid THEN inframe
                      ELSE IF beat(to).last THEN None ELSE Entering(to)
        /\ flight' = Rest(flight, retires)
                       \o (IF beat(to).valid /\ beat(to).last THEN <<Entering(to)>> ELSE <<>>)
        /\ queued' = Rest(queued, starts)
                       \o (IF retires /\ ~drops /\ Len(queued) < Room
                           THEN <<Head(flight)>> ELSE <<>>)
        /\ tx' = IF starts THEN Head(queued) ELSE IF move THEN None ELSE tx
        /\ stray' = to
        /\ quota' = [quota EXCEPT !.strays =
                        @ - (IF stray = "out" /\ to = "envelope" THEN 1 ELSE 0)]
        /\ train' = IF begin THEN (train + 1) % 3 ELSE train
        /\ spoilt' = (Spoils(begin, clears) \/ (spoilt /\ ~clears))
        /\ busyWith' = busyWith \cap InDatapath'
        /\ ticked' = TRUE
        /\ UNCHANGED <<ctl, h, tried>>

\* The control registers are not reset (axil_csr.sv:98): a start bit that is high starts
\* the generator again.  Nor does the line stop: the rest of a stray is stamped as a frame of
\* its own, for which no verdict need follow.
Reset ==
    /\ quota.resets > 0
    /\ g' = ResetGen /\ p' = ResetProbe
    /\ inframe' = None /\ flight' = <<>> /\ queued' = <<>> /\ tx' = None
    /\ stray' = IF stray \in Carried THEN "torn" ELSE "out"
    /\ spoilt' = (spoilt \/ stray \in Carried)
    /\ quota' = [quota EXCEPT !.resets = @ - 1]
    /\ busyWith' = {} /\ ticked' = TRUE
    /\ UNCHANGED <<ctl, h, train, tried>>
-----------------------------------------------------------------------------
(* The host.                                                               *)

\* A register access, from one place of the program to the next.
Access(from) == /\ h.pc = from /\ ticked /\ busyWith = {}
                /\ busyWith' = InDatapath \ {None} /\ ticked' = FALSE
                /\ UNCHANGED <<g, p, dp, train, quota, spoilt>>

\* A register is written; command bits are written and taken back (probe_command).
Write(from, registers, to) == /\ Access(from)
                              /\ ctl' = registers /\ h' = [h EXCEPT !.pc = to]
                              /\ UNCHANGED tried

Command(from, bits, to) == Write(from, [ctl EXCEPT !.cmd = bits], to)

mid == (h.low + h.high) \div 2

Clear    == Command("clear", {"clear"}, "unclear")
Unclear  == Command("unclear", {}, "configure")

\* GEN_CFG and GEN_COUNT
Configure == Write("configure", [ctl EXCEPT !.gap = mid, !.bytes = Size], "count")
SetCount  == Write("count", [ctl EXCEPT !.count = Count], "start")
Start     == Command("start", {"start"}, "unstart")
Unstart   == Command("unstart", {}, "poll")

\* Mistake: a trial has no deadline.
Poll_Patient == /\ Access("poll") /\ g.sent_count >= Count
                /\ h' = [h EXCEPT !.pc = "snapshot", !.sent = g.sent_count, !.late = FALSE]
                /\ UNCHANGED <<ctl, tried>>

\* PROBE_SENT is read until all is sent or the deadline has passed.  Only the read that
\* ends the loop is a step.
Poll == /\ Access("poll")
        /\ g.sent_count >= Count \/ Hurried
        /\ h' = [h EXCEPT !.pc = "snapshot", !.sent = g.sent_count,
                          !.late = g.sent_count < Count]
        /\ UNCHANGED <<ctl, tried>>

Snapshot   == Command("snapshot", {"snapshot"}, "unsnapshot")
Unsnapshot == Command("unsnapshot", {}, "judge")

Lossless == h.sent = Len(p.stat)

\* Mistake: a gap that was not tried is left out with the one that lost a frame.
Narrowed_Skips == IF Lossless THEN <<h.low, mid - 1, mid>> ELSE <<mid + 2, h.high, h.best>>

\* The range left to search, and the best gap so far.
Narrowed == IF Lossless THEN <<h.low, mid - 1, mid>> ELSE <<mid + 1, h.high, h.best>>

\* The probe is read and the trial judged; the loop of find_max_rate goes on or ends.
Judge ==
    /\ Access("judge")
    /\ h' = [pc |-> IF Narrowed[1] <= Narrowed[2] THEN "clear" ELSE "done",
             low |-> Narrowed[1], high |-> Narrowed[2], best |-> Narrowed[3],
             sent |-> 0, late |-> FALSE]
    /\ tried' = tried \cup {<<mid, Lossless>>}
    /\ UNCHANGED ctl

Host == \/ Clear \/ Unclear \/ Configure \/ SetCount \/ Start \/ Unstart
        \/ Poll \/ Snapshot \/ Unsnapshot \/ Judge

Next == \/ \E retire, move \in BOOLEAN, to \in StrayMoves : Tick(retire, move, to)
        \/ Reset
        \/ Host

Spec == Init /\ [][Next]_vars

\* Moves of the stray when it moves on.
Onward == IF stray = "out" THEN {"out"} ELSE StrayMoves \ {stray}

\* What is in the data path moves on, and the host goes on.
FairSpec == /\ Spec /\ WF_vars(Host)
            /\ WF_vars(\E to \in Onward : Tick(TRUE, TRUE, to))
-----------------------------------------------------------------------------
Own == [k \in 1 .. Count |-> LET frame == <<train, k - 1>> IN <<frame, frame>>]

\* A trial that is judged lossless before its deadline has measured what it says: its
\* pairs are the first and the last bit of each of its frames, with the gap that was set,
\* whatever trials, strays, losses and resets came before it, and whatever stray the
\* generator breaks into (measure.py:255).  The four cases of spoilt are excepted.
LosslessMeansOwn ==
    h.pc = "judge" /\ Lossless /\ ~h.late /\ ~spoilt =>
        p.stat = Own /\ g.gap_q = mid /\ g.size_q = Size

\* The search ends at an edge: the gap it returns lost no frame and the next smaller one
\* did; if it returns none, the largest lost some (measure.py:248-261).
SearchTight ==
    h.pc = "done" =>
        IF h.best = None THEN <<MaxGap, FALSE>> \in tried
        ELSE /\ <<h.best, TRUE>> \in tried
             /\ h.best = 0 \/ <<h.best - 1, FALSE>> \in tried

\* The search ends: no trial waits forever for a train that was not started.
SearchEnds == <>(h.pc = "done")

\* Every latency is from the first bit of a frame in to its own last bit out
\* (measure.py:328, latency_probe.sv:55-61).
EveryPairOwn == \A k \in DOMAIN p.acc : p.acc[k][1] = p.acc[k][2]
=============================================================================
