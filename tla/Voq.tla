--------------------------------- MODULE Voq ---------------------------------
(***************************************************************************)
(* rtl/voq.sv: the virtual output queues of one input port.  Its state is  *)
(* one record, for the data path has one per port.                         *)
(*                                                                         *)
(*   q         the words in the queue of each destination                  *)
(*   out       the beat waiting at the read port of the queue out_sel, or  *)
(*             None when out_valid is low                                  *)
(*   out_sel   the queue that was last read                                *)
(*   sof       the next beat to arrive starts a frame                      *)
(*   refusing  the frame arriving is refused                               *)
(*   drop_cnt  refused frames counted so far, per destination              *)
(*                                                                         *)
(* A beat is [src, pos, last]: the port and the place in its frame it came *)
(* from stand for its data.                                                *)
(***************************************************************************)
EXTENDS FifoOps

CONSTANTS Out,          \* the destinations
          VoqDepth,     \* parameter DEPTH
          MaxFrame,     \* parameter MAX_FRAME
          CountMod,     \* the drop counters count modulo this (2^32)
          None          \* no beat, no destination

ASSUME VoqAssumption == /\ VoqDepth \in Nat /\ MaxFrame \in Nat \ {0}
                        /\ MaxFrame <= VoqDepth
                        /\ CountMod \in Nat \ {0}
                        /\ None \notin Out

RoomMark == VoqDepth - MaxFrame

EmptyVoq == [q        |-> [d \in Out |-> <<>>],
             out      |-> None,
             out_sel  |-> CHOOSE d \in Out : TRUE,     \* '0
             sof      |-> TRUE,
             refusing |-> FALSE,
             drop_cnt |-> [d \in Out |-> 0]]

\* Destinations with a beat to send; the held beat still counts.
navail(v) == {d \in Out : v.q[d] # <<>> \/ (v.out # None /\ v.out_sel = d)}

\* Mistake: the mark is one too high.
room_OffByOne(v, dest) == Len(v.q[dest]) <= RoomMark + 1

room(v, dest) == Len(v.q[dest]) <= RoomMark

\* Mistake: room is judged beat by beat.
dropping_PerBeat(v, dest) == ~room(v, dest)

dropping(v, dest) == IF v.sof THEN ~room(v, dest) ELSE v.refusing

\* sel is the destination selected by the switch, or None (sel_valid low).
held(v, sel) == sel # None /\ v.out_sel = sel

\* The beat on the exit's wires, or None.
m_beat(v, sel) == IF held(v, sel) THEN v.out ELSE None

\* Mistake: the next beat is fetched also when the frame just ended, for a
\* pairing that is over.
pop_PastLast(v, sel, m_tready) ==
    /\ sel # None
    /\ v.q[sel] # <<>>
    /\ v.out = None \/ (held(v, sel) /\ m_tready)

\* Mistake: the waiting beat is fetched over.
pop_Always(v, sel, m_tready) == sel # None /\ v.q[sel] # <<>>

pop(v, sel, m_tready) ==
    /\ sel # None
    /\ v.q[sel] # <<>>
    /\ v.out = None \/ (held(v, sel) /\ m_tready /\ ~v.out.last)

\* Mistake: the beat is given up as soon as it is offered.
drained_Offered(v, sel, m_tready) == held(v, sel)

\* The reader takes what waits there.
drained(v, sel, m_tready) == held(v, sel) /\ m_tready

\* Mistake: a refused frame is counted once per beat.
counted_EveryBeat(v, beat, dest) == beat # None /\ dropping(v, dest)

counted(v, beat, dest) == beat # None /\ beat.last /\ dropping(v, dest)

\* Mistake: the counter has no width.
bump_Wide(n) == n + 1

bump(n) == (n + 1) % CountMod

\* One clock edge: beat (or None) arrives for dest; the exit is selected by sel
\* and its reader is ready or not.
VoqClocked(v, beat, dest, sel, m_tready) ==
    LET p     == pop(v, sel, m_tready)
        wr(d) == beat # None /\ d = dest /\ ~dropping(v, dest)
    IN  [q        |-> [d \in Out |->
                         After(v.q[d], VoqDepth, wr(d), beat, p /\ d = sel)],
         out      |-> IF p THEN Head(v.q[sel])
                      ELSE IF drained(v, sel, m_tready) THEN None ELSE v.out,
         out_sel  |-> IF p THEN sel ELSE v.out_sel,
         sof      |-> IF beat # None THEN beat.last ELSE v.sof,
         refusing |-> IF beat # None /\ v.sof THEN ~room(v, dest) ELSE v.refusing,
         drop_cnt |-> [d \in Out |->
                         IF d = dest /\ counted(v, beat, dest)
                         THEN bump(v.drop_cnt[d]) ELSE v.drop_cnt[d]]]
=============================================================================
