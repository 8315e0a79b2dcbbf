------------------------------- MODULE VoqPort -------------------------------
(***************************************************************************)
(* One voq between an ingress that offers frames and an exit that follows  *)
(* the switch's protocol: a destination is selected while it has something *)
(* to send and stays selected until the last beat of a frame has left.     *)
(* The ingress keeps to the source contract asserted in voq.sv:154-160: at *)
(* most MaxFrame beats to a frame, all for one destination.                *)
(***************************************************************************)
EXTENDS Voq

BeatSet == [src : {0}, pos : 0 .. MaxFrame - 1, last : BOOLEAN]

ASSUME NoneIsNoBeat == None \notin BeatSet

VARIABLES v,            \* the voq
          sel,          \* the destination selected, or None
          beats,        \* beats of the arriving frame so far (f_beats)
          dest,         \* its destination (f_pkt_dest)
          kept,         \* history: beats of the arriving frame that were queued
          lost          \* history: frames that did not get in, as drop_cnt counts

vars == <<v, sel, beats, dest, kept, lost>>

Init == /\ v = EmptyVoq
        /\ sel = None
        /\ beats = 0 /\ dest \in Out
        /\ kept = 0
        /\ lost = [d \in Out |-> 0]

\* The beat the ingress may put on the wires next.
Beat(last) == [src |-> 0, pos |-> beats, last |-> last]

\* What the exit sees leave in this cycle.
xfer(m_tready) == IF m_tready THEN m_beat(v, sel) ELSE None

Select(m_tready) ==
    IF sel # None
    THEN sel' = IF xfer(m_tready) # None /\ xfer(m_tready).last THEN None ELSE sel
    ELSE sel' \in navail(v) \cup {None}

\* Words added to the queues at this edge.
grown(d, m_tready) == Len(v'.q[d]) - Len(Rest(v.q[d], d = sel /\ pop(v, sel, m_tready)))

\* A frame ends: it is in its queue whole, or it is lost.
Account(beat, d, m_tready) ==
    LET now == kept + grown(d, m_tready)
    IN  /\ kept' = IF beat.last THEN 0 ELSE now
        /\ lost' = IF beat.last /\ now # beats + 1
                   THEN [lost EXCEPT ![d] = (@ + 1) % CountMod] ELSE lost

\* A beat arrives.  MaxFrame ends the frame (the length the port is set to).
Arrive(last, d, m_tready) ==
    /\ beats = 0 \/ d = dest
    /\ beats + 1 = MaxFrame => last
    /\ v' = VoqClocked(v, Beat(last), d, sel, m_tready)
    /\ Select(m_tready)
    /\ beats' = IF last THEN 0 ELSE beats + 1
    /\ dest' = d
    /\ Account(Beat(last), d, m_tready)

\* No beat arrives.
Idle(m_tready) == /\ v' = VoqClocked(v, None, dest, sel, m_tready)
                  /\ Select(m_tready)
                  /\ UNCHANGED <<beats, dest, kept, lost>>

Reset == /\ v' = EmptyVoq /\ sel' = None
         /\ beats' = 0 /\ UNCHANGED dest
         /\ kept' = 0 /\ lost' = [d \in Out |-> 0]

Next == \/ \E last, rdy \in BOOLEAN, d \in Out : Arrive(last, d, rdy)
        \/ \E rdy \in BOOLEAN : Idle(rdy)
        \/ Reset

Spec == Init /\ [][Next]_vars
-----------------------------------------------------------------------------
TypeOK == /\ v.q \in [Out -> Seq(BeatSet)]
          /\ v.out \in BeatSet \cup {None} /\ v.out_sel \in Out
          /\ v.sof \in BOOLEAN /\ v.refusing \in BOOLEAN
          /\ v.drop_cnt \in [Out -> 0 .. CountMod - 1]
          /\ sel \in Out \cup {None}
          /\ beats \in 0 .. MaxFrame - 1 /\ dest \in Out
          /\ kept \in 0 .. MaxFrame - 1
          /\ lost \in [Out -> 0 .. CountMod - 1]

\* Room for the rest of an admitted frame stays reserved while the frame
\* arrives, so that no beat of it meets a full queue (voq.sv:170-173): the test
\* at the first beat is enough although the queue is not looked at again.
Reservation == ~v.sof /\ ~v.refusing =>
                   Len(v.q[dest]) + (MaxFrame - beats) <= VoqDepth

\* A frame gets in whole or not at all, and the frames that did not get in are
\* exactly those drop_cnt counts, at the destination they were for.
DropsCounted == v.drop_cnt = lost

\* The beats for destination d, oldest first.
flow(d) == (IF v.out # None /\ v.out_sel = d THEN <<v.out>> ELSE <<>>) \o v.q[d]

\* b comes right after a in a stream of whole frames.
Follows(a, b) == b.pos = (IF a.last THEN 0 ELSE a.pos + 1)

\* The queues hold whole frames back to back; only the one arriving lacks its
\* end, and only the one leaving its beginning.
WholeFrames == \A d \in Out : /\ \A k \in 1 .. Len(flow(d)) - 1 :
                                    Follows(flow(d)[k], flow(d)[k + 1])
                              /\ flow(d) # <<>> /\ sel # d => flow(d)[1].pos = 0

\* A beat at the read port is one of the destination selected: the queue the
\* switch pairs next is never blocked by a beat fetched for another one, which
\* nothing would ever take (voq.sv:79-93).
NoStrandedBeat == v.out # None => sel = v.out_sel

\* The destination one of whose beats is taken at this edge (f_served): a beat that is
\* only offered serves nobody.
served(m_tready) == IF xfer(m_tready) # None THEN {v.out_sel} ELSE {}

Edge(m_tready) == \/ Idle(m_tready)
                  \/ \E last \in BOOLEAN, d \in Out : Arrive(last, d, m_tready)

\* What is available stays so until a beat of it is taken (voq.sv:175-189), however
\* long the reader stalls and whatever is fetched, refused or queued meanwhile.
RequestsHold == [][\A rdy \in BOOLEAN :
                      Edge(rdy) => navail(v) \ served(rdy) \subseteq navail(v)']_vars
=============================================================================
