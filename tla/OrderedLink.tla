----------------------------- MODULE OrderedLink -----------------------------
(***************************************************************************)
(* What a credit link promises, whatever its delays: beats leave in the    *)
(* order they were accepted, none is lost or repeated, and never more than *)
(* Depth of them are between the two ends.                                 *)
(***************************************************************************)
EXTENDS Integers, Sequences

CONSTANTS Data, Zero, Depth

VARIABLES chan,     \* the beats accepted and not yet delivered, oldest first
          taken,    \* the last beat accepted from the source
          given,    \* the last beat delivered to the destination
          odd       \* parity of the number of deliveries, so that delivering
                    \* two equal beats in a row is two visible steps

vars == <<chan, taken, given, odd>>

Init == chan = <<>> /\ taken = Zero /\ given = Zero /\ odd = FALSE

Accept(d) == /\ Len(chan) < Depth
             /\ chan' = Append(chan, d)
             /\ taken' = d
             /\ UNCHANGED <<given, odd>>

Deliver == /\ chan # <<>>
           /\ chan' = Tail(chan)
           /\ given' = Head(chan) /\ odd' = ~odd
           /\ UNCHANGED taken

\* A beat in and a beat out at one clock edge.
Both(d) == /\ chan # <<>>
           /\ chan' = Append(Tail(chan), d)
           /\ taken' = d
           /\ given' = Head(chan) /\ odd' = ~odd

Reset == chan' = <<>> /\ taken' = Zero /\ given' = Zero /\ odd' = FALSE

Next == (\E d \in Data : Accept(d) \/ Both(d)) \/ Deliver \/ Reset

Spec == Init /\ [][Next]_vars

\* Deliveries never stop while a beat waits.  With the order of the channel it
\* follows that every beat accepted is delivered, unless a reset comes first.
Delivers == []<>(chan = <<>>) \/ []<><<Deliver \/ \E d \in Data : Both(d)>>_vars
=============================================================================
