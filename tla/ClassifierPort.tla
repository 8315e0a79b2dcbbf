--------------------------- MODULE ClassifierPort ---------------------------
(***************************************************************************)
(* One classifier between a source of frames of any length and a reader    *)
(* that is ready or not.  A scoreboard judges every frame by itself, as    *)
(* tb/classifier_tb.sv:162-197 does, and says what must come out.          *)
(***************************************************************************)
EXTENDS Classifier, FiniteSets

CONSTANT Pad            \* the byte all payload consists of

ASSUME PadAssumption == Pad \in Byte

VARIABLES c,            \* the classifier
          arriving,     \* history: the frame that is arriving, up to its
                        \* address
          due,          \* history: the beats that must come out, with their
                        \* destination
          missed        \* history: frames judged a miss

vars == <<c, arriving, due, missed>>

Beat == [byte : Byte, last : BOOLEAN]

Init == /\ \E addr \in Address, d \in Dest \cup {None} : c = ResetClassifier(addr, d)
        /\ arriving = <<>> /\ due = <<>> /\ missed = 0

\* The verdict on a frame that begins with the beats f.
Judged(f) == IF Len(f) < MacBytes THEN None
             ELSE match([k \in Index |-> f[k + 1].byte])

Tagged(f, d) == [k \in 1 .. Len(f) |-> [byte |-> f[k].byte, last |-> f[k].last, dest |-> d]]

\* What the source may offer: payload is all alike.  An offer that is not taken has
\* no effect, so it need not be repeated here.
Offers == {None} \cup {b \in Beat : Len(arriving) = MacBytes => b.byte = Pad}

\* The scoreboard at the edge at which beat is offered and the reader is rdy.
Account(beat, rdy) ==
    LET now     == IF s_xfer(c, beat) THEN Append(arriving, beat) ELSE arriving
        decided == s_xfer(c, beat) /\ Len(arriving) < MacBytes
                     /\ (Len(now) = MacBytes \/ beat.last)
        more    == IF decided THEN now
                   ELSE IF s_xfer(c, beat) /\ Len(arriving) = MacBytes THEN <<beat>> ELSE <<>>
    IN  /\ arriving' = IF s_xfer(c, beat) /\ beat.last THEN <<>>
                       ELSE IF Len(now) > MacBytes THEN arriving ELSE now
        /\ due' = Rest(due, m_xfer(c, rdy))
                    \o (IF Judged(now) = None THEN <<>> ELSE Tagged(more, Judged(now)))
        /\ missed' = IF decided /\ Judged(now) = None THEN (missed + 1) % CountMod ELSE missed

Clock(beat, rdy) == /\ c' = ClassifierClocked(c, beat, rdy)
                    /\ Account(beat, rdy)

\* Neither the captured address nor the bypass is reset.
Reset == /\ c' = ResetClassifier(c.addr, c.bypass)
         /\ arriving' = <<>> /\ due' = <<>> /\ missed' = 0

Next == \/ \E beat \in Offers, rdy \in BOOLEAN : Clock(beat, rdy)
        \/ Reset

Spec == Init /\ [][Next]_vars

\* The clock ticks, and the reader is ready again and again.
FairSpec == Spec /\ WF_vars(\E beat \in Offers : Clock(beat, TRUE))
-----------------------------------------------------------------------------
\* Readiness is decided a cycle ahead, from a fill that is then out of date; still
\* no byte meets a full buffer, and so the fill, which is counted apart from the
\* buffer, is right (classifier.sv:207, 232-233).
BufferRoom == /\ c.fill = Len(c.data)
              /\ c.s_tready => Len(c.data) < BufDepth

\* Nor does a verdict meet a full queue, although readiness keeps no slot for one:
\* the queue never holds more verdicts than the buffer holds bytes.
QueueRoom == /\ Len(c.meta) <= Len(c.data)
             /\ c.s_tready => Len(c.meta) < MetaDepth

\* Every byte that is shown is the one due next, with the destination its own
\* frame's address has in the table, however far verdicts run ahead of data.
ShowsDue == c.m_tvalid => /\ due # <<>>
                          /\ Head(due) = [byte |-> c.out.byte, last |-> c.out.last,
                                          dest |-> meta_dest(c)]

\* Every frame judged a miss is counted once: it is counted, or its verdict waits
\* to be read, or was read just now.
Waiting == Cardinality({k \in DOMAIN c.meta : c.meta[k] = None})
             + (IF discarded(c) THEN 1 ELSE 0)
MissesCounted == missed = (c.drop_cnt + Waiting) % CountMod

\* What must come out does: no verdict is lost on its way around the queue, and
\* no byte is left behind when the source goes quiet.
Delivers == []<>(due = <<>>) \/ []<><<c.m_tvalid /\ \E beat \in Offers : Clock(beat, TRUE)>>_vars

\* Misses are drained and the source is let in again: readiness never stays low.
ReadyAgain == []<>c.s_tready
=============================================================================
