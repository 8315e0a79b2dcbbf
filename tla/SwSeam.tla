------------------------------- MODULE SwSeam -------------------------------
(***************************************************************************)
(* formal/sw_seam.sv, and rtl/datapath_top.sv:214-264: a voq at each input *)
(* of the switch.  The selection of a voq is the pairing of its input; what*)
(* a voq has available is what its input may be paired for.                *)
(***************************************************************************)
EXTENDS AxisSwitch, Sequences, FiniteSetsExt

CONSTANTS VoqDepth, MaxFrame, CountMod,
          Flows,        \* the pairs <<input, output>> that carry frames
          MaxInside     \* bound: frames inside at the same time

\* The data path's parameters (datapath_top.sv:5-11); None is a value of its own.
ASSUME SeamAssumption ==
    /\ VoqDepth \in Nat /\ MaxFrame \in Nat \ {0} /\ MaxFrame <= VoqDepth
    /\ None \notin Out /\ None \notin In
    /\ None \notin [src : In, pos : 0 .. MaxFrame, last : BOOLEAN]
    /\ None \notin [src : In, pos : 0 .. MaxFrame]

V == INSTANCE Voq

VARIABLES voq,          \* voq[j]: the queues of input j
          beats,        \* beats[j]: beats of the frame arriving at j so far
          dest,         \* dest[j]: its destination (0 between frames)
          open          \* history: the frame each output is in the middle of

seamVars == <<paired, gmask, amask, sk, voq, beats, dest, open>>

Init == /\ SwitchInit
        /\ voq = [j \in In |-> V!EmptyVoq]
        /\ beats = [j \in In |-> 0]
        /\ dest = [j \in In |-> 0]
        /\ open = [i \in Out |-> None]

navail == [j \in In |-> V!navail(voq[j])]
qbeat  == [j \in In |-> V!m_beat(voq[j], paired[j])]

\* The beats of input j for output i, oldest first: in the skid, at the read
\* port, in the queue.
from(b, j) == IF b # None /\ b.src = j THEN <<b>> ELSE <<>>
inSkid(j, i) == from(sk[i].m, j) \o from(sk[i].skid, j)
queued(j, i) == (IF voq[j].out_sel = i THEN from(voq[j].out, j) ELSE <<>>) \o voq[j].q[i]
flow == [j \in In |-> [i \in Out |-> inSkid(j, i) \o queued(j, i)]]

\* Frames inside: those whose last beat is, and those arriving.
lasts(x) == Len(SelectSeq(flow[x[1]][x[2]], LAMBDA b : b.last))
inside == MapThenSumSet(lasts, In \X Out) + Cardinality({j \in In : beats[j] > 0})

\* What arrives: arr[j] is None, or the last bit and the destination of a beat.
\* A frame keeps its destination and ends with its MaxFrame-th beat at the
\* latest; no frame starts while MaxInside are inside.
Arrival(j, full) ==
    {None} \cup {a \in [last : BOOLEAN, d : Out] :
                   /\ beats[j] + 1 = MaxFrame => a.last
                   /\ IF beats[j] > 0 THEN a.d = dest[j]
                                      ELSE ~full /\ <<j, a.d>> \in Flows}

Arriving(full) == {arr \in [In -> {None} \cup [last : BOOLEAN, d : Out]] :
                      \A j \in In : arr[j] \in Arrival(j, full)}

Arrivals == IF inside >= MaxInside THEN Arriving(TRUE) ELSE Arriving(FALSE)

Arrives(arr, j) == IF arr[j] = None THEN None
                   ELSE [src |-> j, pos |-> beats[j], last |-> arr[j].last]

Destination(arr, j) == IF arr[j] = None THEN dest[j] ELSE arr[j].d

\* What output i hands to its reader.
Sent(i, rdy) == IF i \in rdy THEN sk[i].m ELSE None

Clock(arr, rdy) ==
    /\ beats' = [j \in In |-> IF arr[j] = None THEN beats[j]
                              ELSE IF arr[j].last THEN 0 ELSE beats[j] + 1]
    /\ dest' = [j \in In |-> IF beats'[j] = 0 THEN 0 ELSE Destination(arr, j)]
    /\ open' = [i \in Out |->
                  LET b == Sent(i, rdy)
                  IN  IF b = None THEN open[i]
                      ELSE IF b.last THEN None ELSE [src |-> b.src, pos |-> b.pos + 1]]
    /\ SwitchClock(navail, qbeat, rdy)
    /\ voq' = [j \in In |-> V!VoqClocked(voq[j], Arrives(arr, j), Destination(arr, j),
                                         paired[j], ready(j))]

Reset == /\ SwitchReset
         /\ voq' = [j \in In |-> V!EmptyVoq]
         /\ beats' = [j \in In |-> 0]
         /\ dest' = [j \in In |-> 0]
         /\ open' = [i \in Out |-> None]

\* The outputs whose reader is ready: where nothing is shown it does not matter.
Readies == SUBSET {i \in Out : sk[i].m # None}

Next == \/ \E arr \in Arrivals, rdy \in Readies : Clock(arr, rdy)
        \/ Reset

Spec == Init /\ [][Next]_seamVars

\* The clock does not stop while an edge without any input would change
\* something; a frame that has begun to arrive ends (the MAC delivers it without
\* stopping); a reader that is shown a beat takes it in the end.  Nothing is
\* assumed of when frames start, so none has to come for another to leave.
Quiet == Clock([j \in In |-> None], {})
ClockTicks == []<><<TRUE>>_seamVars \/ []<>~ENABLED <<Quiet>>_seamVars

FrameEnds(j) == []<>(beats[j] = 0)

Takes(i) == sk'[i] = Clocked(sk[i], muxed(qbeat, i), TRUE)
ReaderTakes(i) == []<>(sk[i].m = None) \/ []<><<Takes(i)>>_seamVars

FairSpec == /\ Spec
            /\ ClockTicks
            /\ \A j \in In : FrameEnds(j)
            /\ \A i \in Out : ReaderTakes(i)
-----------------------------------------------------------------------------
\* Across the seam: a beat fetched by a voq is for the output its input is
\* paired with, so the pairing is never stuck on a queue whose head cannot come
\* out (sw_seam.sv:139-144 asserts the half of it seen on the wires).
Seam == \A j \in In : voq[j].out # None => paired[j] = voq[j].out_sel

\* No cycle is lost: as long as a free input has a frame for a free output, at least
\* one more pair is made at the next edge, whatever the pointers of the two
\* arbitration stages point at (axis_switch.sv:116-130).
PairsAtOnce ==
    [][(\E i \in Out : req(navail)[i] # {})
          => Reset \/ \E j \in In : paired[j] = None /\ paired'[j] # None]_seamVars

\* What an input has for an output stays available until the last beat of a frame has
\* gone there: what axis_switch assumes of whatever feeds it (axis_switch.sv:304-319,
\* and 208 of a paired input).  A voq promises less, see VoqPort!RequestsHold: it
\* withdraws when it runs dry inside a frame that is still arriving.
AvailableUntilEnd ==
    [][\A j \in In, i \in Out :
          i \in navail[j] /\ i \notin navail'[j] =>
              \/ paired[j] = i /\ xfer(qbeat, j) /\ qbeat[j].last
              \/ Reset]_seamVars

\* Frames cross the switch whole, in order within a flow, never interleaved at
\* an output, whatever the timing of arrivals, of the two arbitration stages
\* and of the readers.
Promise == INSTANCE FrameSwitch
FramesIntact == Promise!Spec

\* An input with a frame is paired in the end: neither stage of arbiters starves
\* an input, although the grant pointers move only on acceptance
\* (axis_switch.sv:320-334).  It says nothing of the output, see SwitchLoad.
EveryInputPaired == \A j \in In : navail[j] # {} ~> (paired[j] # None \/ navail[j] = {})

\* A pairing does not last for ever (axis_switch.sv:336-344).
EveryPairingEnds == \A j \in In : paired[j] # None ~> paired[j] = None
=============================================================================
