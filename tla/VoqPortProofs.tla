---------------------------- MODULE VoqPortProofs ----------------------------
(***************************************************************************)
(* Proofs about a voq, for every set of destinations, depth and frame      *)
(* length.                                                                 *)
(***************************************************************************)
EXTENDS VoqPort, SequenceTheorems, TLAPS

\* One queue over one clock edge: it grows by at most the word written, and by
\* that only if it was not full.
LEMMA AfterProperties ==
    ASSUME NEW S, NEW q \in Seq(S), NEW depth \in Nat, Len(q) <= depth,
           NEW wr_en \in BOOLEAN, NEW wr_data, wr_en => wr_data \in S,
           NEW rd_en \in BOOLEAN
    PROVE  /\ After(q, depth, wr_en, wr_data, rd_en) \in Seq(S)
           /\ Len(After(q, depth, wr_en, wr_data, rd_en)) <= depth
           /\ Len(After(q, depth, wr_en, wr_data, rd_en)) <=
                Len(q) + (IF wr_en THEN 1 ELSE 0)
<1>1. Rest(q, rd_en) \in Seq(S) /\ Len(Rest(q, rd_en)) <= Len(q)
  BY HeadTailProperties, LenProperties DEF Rest
<1>2. /\ Added(q, depth, wr_en, wr_data) \in Seq(S)
      /\ Len(Added(q, depth, wr_en, wr_data)) \in 0 .. 1
      /\ (wr_en /\ Len(q) # depth) \/ Len(Added(q, depth, wr_en, wr_data)) = 0
  BY EmptySeq DEF Added
<1>3. /\ After(q, depth, wr_en, wr_data, rd_en) \in Seq(S)
      /\ Len(After(q, depth, wr_en, wr_data, rd_en)) =
           Len(Rest(q, rd_en)) + Len(Added(q, depth, wr_en, wr_data))
  BY <1>1, <1>2, ConcatProperties DEF After
<1>4. PICK n \in Nat, r \in Nat, a \in 0 .. 1 :
         /\ n = Len(q) /\ r = Len(Rest(q, rd_en))
         /\ a = Len(Added(q, depth, wr_en, wr_data))
  BY <1>1, <1>2, LenProperties
<1>5. /\ r + a <= depth
      /\ r + a <= n + (IF wr_en THEN 1 ELSE 0)
  <2>1. r <= n /\ n <= depth
    BY <1>1, <1>4
  <2>2. (wr_en /\ n # depth) \/ a = 0
    BY <1>2, <1>4
  <2> QED BY <2>1, <2>2
<1> QED BY <1>3, <1>4, <1>5
-----------------------------------------------------------------------------
\* Inductive: with None for no selection, a beat at the read port needs one.
Held == v.out # None => sel # None /\ sel = v.out_sel

LEMMA HeldStep == Held /\ [Next]_vars => Held'
<1> SUFFICES ASSUME Held, [Next]_vars PROVE Held'
  OBVIOUS
<1>1. ASSUME NEW beat, NEW d, NEW rdy \in BOOLEAN,
             v' = VoqClocked(v, beat, d, sel, rdy), Select(rdy)
      PROVE  Held'
  <2> SUFFICES ASSUME v'.out # None PROVE sel' # None /\ sel' = v'.out_sel
    BY DEF Held
  <2>1. CASE pop(v, sel, rdy)
    <3>1. v'.out_sel = sel
      BY <1>1, <2>1 DEF VoqClocked, drained
    <3>2. sel' = sel /\ sel # None
      BY <1>1, <2>1 DEF pop, Select, xfer, m_beat
    <3> QED BY <3>1, <3>2
  <2>2. CASE ~pop(v, sel, rdy)
    <3>1. /\ v'.out = IF held(v, sel) /\ rdy THEN None ELSE v.out
          /\ v'.out_sel = v.out_sel
      BY <1>1, <2>2 DEF VoqClocked, drained
    <3>2. v.out # None /\ ~(held(v, sel) /\ rdy)
      BY <3>1
    <3>3. sel # None /\ sel = v.out_sel
      BY <3>2 DEF Held
    <3>4. sel' = sel
      BY <1>1, <3>2, <3>3 DEF Select, xfer, held
    <3> QED BY <3>1, <3>3, <3>4
  <2> QED BY <2>1, <2>2
<1>2. CASE \E last, rdy \in BOOLEAN, d \in Out : Arrive(last, d, rdy)
  BY <1>1, <1>2 DEF Arrive
<1>3. CASE \E rdy \in BOOLEAN : Idle(rdy)
  BY <1>1, <1>3 DEF Idle
<1>4. CASE Reset
  BY <1>4 DEF Reset, EmptyVoq, Held
<1>5. CASE UNCHANGED vars
  BY <1>5 DEF vars, Held
<1> QED BY <1>2, <1>3, <1>4, <1>5 DEF Next

\* The queue the switch pairs next is never blocked by a beat fetched for
\* another one (voq.sv:79-93).
THEOREM NeverStranded == Spec => []NoStrandedBeat
<1>1. Init => Held
  BY DEF Init, EmptyVoq, Held
<1>2. Held => NoStrandedBeat
  BY DEF Held, NoStrandedBeat
<1> QED BY <1>1, <1>2, HeldStep, PTL DEF Spec
-----------------------------------------------------------------------------
\* What makes the reservation inductive: the queues are queues of at most
\* VoqDepth words, and the voq's idea of where a frame starts is the ingress's.
RInv == /\ v.q \in [Out -> Seq(BeatSet)]
        /\ \A d \in Out : Len(v.q[d]) <= VoqDepth
        /\ v.sof \in BOOLEAN /\ v.refusing \in BOOLEAN
        /\ beats \in 0 .. MaxFrame - 1 /\ dest \in Out
        /\ v.sof <=> beats = 0
        /\ Reservation

LEMMA RInvInit == Init => RInv
<1> SUFFICES ASSUME Init PROVE RInv
  OBVIOUS
<1>1. /\ v.q = [d \in Out |-> <<>>] /\ v.sof = TRUE /\ v.refusing = FALSE
      /\ beats = 0 /\ dest \in Out
  BY DEF Init, EmptyVoq
<1>2. <<>> \in Seq(BeatSet) /\ Len(<<>>) = 0
  BY EmptySeq
<1>3. beats \in 0 .. MaxFrame - 1 /\ VoqDepth \in Nat
  BY <1>1, VoqAssumption
<1>4. v.q \in [Out -> Seq(BeatSet)] /\ \A d \in Out : Len(v.q[d]) <= VoqDepth
  BY <1>1, <1>2, <1>3
<1>5. v.sof \in BOOLEAN /\ v.refusing \in BOOLEAN /\ (v.sof <=> beats = 0)
  BY <1>1
<1>6. Reservation
  BY <1>1 DEF Reservation
<1> QED BY <1>1, <1>3, <1>4, <1>5, <1>6 DEF RInv

\* The queues after an edge at which beat, or nothing, arrives for d.
LEMMA QueuesClock ==
    ASSUME RInv, NEW beat, NEW d \in Out, NEW rdy \in BOOLEAN,
           beat = None \/ beat \in BeatSet,
           v' = VoqClocked(v, beat, d, sel, rdy)
    PROVE  /\ v'.q \in [Out -> Seq(BeatSet)]
           /\ \A e \in Out : Len(v'.q[e]) <= VoqDepth
           /\ \A e \in Out : Len(v'.q[e]) <= Len(v.q[e]) + 1
           /\ \A e \in Out : e # d \/ beat = None => Len(v'.q[e]) <= Len(v.q[e])
<1> DEFINE wr(e) == beat # None /\ e = d /\ ~dropping(v, d)
           rd(e) == pop(v, sel, rdy) /\ e = sel
           new(e) == After(v.q[e], VoqDepth, wr(e), beat, rd(e))
<1>1. v'.q = [e \in Out |-> new(e)]
  BY DEF VoqClocked, drained
<1>2. ASSUME NEW e \in Out
      PROVE  /\ new(e) \in Seq(BeatSet) /\ Len(new(e)) <= VoqDepth
             /\ Len(new(e)) <= Len(v.q[e]) + (IF wr(e) THEN 1 ELSE 0)
  <2>1. v.q[e] \in Seq(BeatSet) /\ Len(v.q[e]) <= VoqDepth /\ VoqDepth \in Nat
    BY VoqAssumption DEF RInv
  <2>2. wr(e) \in BOOLEAN /\ rd(e) \in BOOLEAN /\ (wr(e) => beat \in BeatSet)
    BY DEF pop, dropping
  <2> HIDE DEF wr, rd
  <2> QED BY <2>1, <2>2, AfterProperties
<1>3. ASSUME NEW e \in Out
      PROVE  /\ Len(new(e)) <= Len(v.q[e]) + 1
             /\ e # d \/ beat = None => Len(new(e)) <= Len(v.q[e])
  <2>1. Len(v.q[e]) \in Nat
    BY LenProperties DEF RInv
  <2>2. Len(new(e)) \in Nat
    BY <1>2, LenProperties
  <2>3. e # d \/ beat = None => ~wr(e)
    OBVIOUS
  <2>4. Len(new(e)) <= Len(v.q[e]) + (IF wr(e) THEN 1 ELSE 0)
    BY <1>2
  <2> HIDE DEF wr, new
  <2>5. CASE wr(e)
    <3>1. Len(new(e)) <= Len(v.q[e]) + 1
      BY <2>4, <2>5
    <3> QED BY <2>3, <2>5, <3>1
  <2>6. CASE ~wr(e)
    <3>1. PICK n, m \in Nat : n = Len(v.q[e]) /\ m = Len(new(e)) /\ m <= n + 0
      BY <2>1, <2>2, <2>4, <2>6
    <3>2. Len(new(e)) <= Len(v.q[e]) /\ Len(new(e)) <= Len(v.q[e]) + 1
      BY <3>1
    <3> QED BY <3>2
  <2> QED BY <2>5, <2>6
<1> HIDE DEF wr, new
<1> QED BY <1>1, <1>2, <1>3

LEMMA RInvStep == RInv /\ [Next]_vars => RInv'
<1> SUFFICES ASSUME RInv, [Next]_vars PROVE RInv'
  OBVIOUS
<1>1. ASSUME NEW last \in BOOLEAN, NEW rdy \in BOOLEAN, NEW d \in Out, Arrive(last, d, rdy)
      PROVE  RInv'
  <2>1. /\ Beat(last) \in BeatSet
        /\ Beat(last) # None
        /\ Beat(last).last = last
    BY NoneIsNoBeat DEF Beat, BeatSet, RInv
  <2>2. /\ v' = VoqClocked(v, Beat(last), d, sel, rdy)
        /\ beats = 0 \/ d = dest
        /\ beats + 1 = MaxFrame => last
        /\ beats' = IF last THEN 0 ELSE beats + 1
        /\ dest' = d
    BY <1>1 DEF Arrive
  <2>3. /\ v'.q \in [Out -> Seq(BeatSet)]
        /\ \A e \in Out : Len(v'.q[e]) <= VoqDepth
        /\ Len(v'.q[d]) <= Len(v.q[d]) + 1
    BY <2>1, <2>2, QueuesClock
  <2>4. v'.sof = last /\ v'.refusing = IF v.sof THEN ~room(v, d) ELSE v.refusing
    BY <2>1, <2>2 DEF VoqClocked, drained
  <2>5. /\ beats' \in 0 .. MaxFrame - 1 /\ dest' \in Out
        /\ last <=> beats' = 0
    BY <2>2, VoqAssumption DEF RInv
  <2>6. v'.sof \in BOOLEAN /\ v'.refusing \in BOOLEAN
    BY <2>4 DEF RInv, room
  <2>7. ASSUME ~last, ~v'.refusing
        PROVE  Len(v'.q[d]) + (MaxFrame - beats') <= VoqDepth
    <3>1. PICK n \in Nat, m \in Nat : n = Len(v.q[d]) /\ m = Len(v'.q[d]) /\ m <= n + 1
      BY <2>3, LenProperties DEF RInv
    <3>2. beats' = beats + 1 /\ beats \in Nat /\ MaxFrame \in Nat /\ VoqDepth \in Nat
      BY <2>2, <2>7, VoqAssumption DEF RInv
    <3>3. n + (MaxFrame - beats) <= VoqDepth
      <4>1. CASE v.sof
        <5>1. beats = 0 /\ n <= VoqDepth - MaxFrame
          BY <2>4, <2>7, <3>1, <4>1 DEF RInv, room, RoomMark
        <5> QED BY <3>2, <5>1
      <4>2. CASE ~v.sof
        <5>1. d = dest /\ ~v.refusing
          BY <2>2, <2>4, <2>7, <4>2 DEF RInv
        <5> QED BY <3>1, <4>2, <5>1 DEF RInv, Reservation
      <4> QED BY <4>1, <4>2
    <3> QED BY <3>1, <3>2, <3>3
  <2>8. Reservation'
    BY <2>2, <2>4, <2>7 DEF Reservation
  <2> QED BY <2>2, <2>3, <2>4, <2>5, <2>6, <2>8 DEF RInv
<1>2. ASSUME NEW rdy \in BOOLEAN, Idle(rdy)
      PROVE  RInv'
  <2>1. /\ v' = VoqClocked(v, None, dest, sel, rdy)
        /\ beats' = beats /\ dest' = dest
    BY <1>2 DEF Idle
  <2>2. dest \in Out
    BY DEF RInv
  <2>3. /\ v'.q \in [Out -> Seq(BeatSet)]
        /\ \A e \in Out : Len(v'.q[e]) <= VoqDepth
        /\ Len(v'.q[dest]) <= Len(v.q[dest])
    BY <2>1, <2>2, QueuesClock
  <2>4. v'.sof = v.sof /\ v'.refusing = v.refusing
    BY <2>1 DEF VoqClocked, drained
  <2>5. Reservation'
    <3>1. PICK n \in Nat, m \in Nat : n = Len(v.q[dest]) /\ m = Len(v'.q[dest]) /\ m <= n
      BY <2>3, LenProperties DEF RInv
    <3>2. beats \in Nat /\ MaxFrame \in Nat /\ VoqDepth \in Nat
      BY VoqAssumption DEF RInv
    <3> QED BY <2>1, <2>4, <3>1, <3>2 DEF RInv, Reservation
  <2> QED BY <2>1, <2>3, <2>4, <2>5 DEF RInv
<1>3. CASE Reset
  <2>1. /\ v'.q = [d \in Out |-> <<>>] /\ v'.sof = TRUE /\ v'.refusing = FALSE
        /\ beats' = 0 /\ dest' = dest
    BY <1>3 DEF Reset, EmptyVoq
  <2>2. <<>> \in Seq(BeatSet) /\ Len(<<>>) = 0
    BY EmptySeq
  <2>3. beats' \in 0 .. MaxFrame - 1 /\ dest' \in Out /\ VoqDepth \in Nat
    BY <2>1, VoqAssumption DEF RInv
  <2>4. v'.q \in [Out -> Seq(BeatSet)] /\ \A d \in Out : Len(v'.q[d]) <= VoqDepth
    BY <2>1, <2>2, <2>3
  <2>5. v'.sof \in BOOLEAN /\ v'.refusing \in BOOLEAN /\ (v'.sof <=> beats' = 0)
    BY <2>1
  <2>6. Reservation'
    BY <2>1 DEF Reservation
  <2> QED BY <2>3, <2>4, <2>5, <2>6 DEF RInv
<1>4. CASE UNCHANGED vars
  BY <1>4 DEF vars, RInv, Reservation
<1> QED BY <1>1, <1>2, <1>3, <1>4 DEF Next

\* The room for the rest of an admitted frame stays reserved, for every depth and
\* frame length: no beat of it meets a full queue (voq.sv:170-173).
THEOREM RoomReserved == Spec => []Reservation
<1>1. RInv => Reservation
  BY DEF RInv
<1> QED BY <1>1, RInvInit, RInvStep, PTL DEF Spec
-----------------------------------------------------------------------------
(* What an edge does to a queue, exactly.                                  *)

LEMMA ConsProperties ==
    ASSUME NEW S, NEW q \in Seq(S), NEW x \in S
    PROVE  /\ <<x>> \o q \in Seq(S) /\ <<x>> \o q # <<>>
           /\ (<<x>> \o q)[1] = x /\ Tail(<<x>> \o q) = q
           /\ q # <<>> => <<Head(q)>> \o Tail(q) = q
<1>1. <<x>> \in Seq(S) /\ Len(<<x>>) = 1 /\ Len(q) \in Nat
  BY LenProperties
<1>2. /\ <<x>> \o q \in Seq(S) /\ Len(<<x>> \o q) = 1 + Len(q)
      /\ \A i \in 1 .. 1 + Len(q) : (<<x>> \o q)[i] = IF i <= 1 THEN <<x>>[i] ELSE q[i - 1]
  BY <1>1, ConcatProperties
<1>3. <<x>> \o q # <<>> /\ (<<x>> \o q)[1] = x
  BY <1>1, <1>2
<1>4. /\ Tail(<<x>> \o q) \in Seq(S) /\ Len(Tail(<<x>> \o q)) = Len(q)
      /\ \A i \in 1 .. Len(q) : Tail(<<x>> \o q)[i] = (<<x>> \o q)[i + 1]
  BY <1>1, <1>2, <1>3, HeadTailProperties
<1>5. \A i \in 1 .. Len(q) : Tail(<<x>> \o q)[i] = q[i]
  BY <1>1, <1>2, <1>4
<1>6. Tail(<<x>> \o q) = q
  BY <1>4, <1>5, SeqEqual
<1>7. ASSUME q # <<>> PROVE <<Head(q)>> \o Tail(q) = q
  <2>1. /\ Head(q) \in S /\ Tail(q) \in Seq(S) /\ Len(Tail(q)) = Len(q) - 1
        /\ \A i \in 1 .. Len(Tail(q)) : Tail(q)[i] = q[i + 1]
    BY <1>7, HeadTailProperties
  <2>2. <<Head(q)>> \in Seq(S) /\ Len(<<Head(q)>>) = 1 /\ Len(q) > 0 /\ Head(q) = q[1]
    BY <1>1, <1>7, <2>1
  <2>3. /\ <<Head(q)>> \o Tail(q) \in Seq(S) /\ Len(<<Head(q)>> \o Tail(q)) = Len(q)
        /\ \A i \in 1 .. Len(q) : (<<Head(q)>> \o Tail(q))[i] =
                                     IF i <= 1 THEN <<Head(q)>>[i] ELSE Tail(q)[i - 1]
    BY <1>1, <2>1, <2>2, ConcatProperties
  <2>4. \A i \in 1 .. Len(q) : (<<Head(q)>> \o Tail(q))[i] = q[i]
    BY <1>1, <2>1, <2>2, <2>3
  <2> QED BY <2>3, <2>4, SeqEqual
<1> QED BY <1>2, <1>3, <1>6, <1>7

\* An admitted beat finds room.
LEMMA RoomThere ==
    ASSUME RInv, NEW d \in Out, beats = 0 \/ d = dest, ~dropping(v, d)
    PROVE  Len(v.q[d]) # VoqDepth
<1>1. /\ Len(v.q[d]) \in Nat /\ VoqDepth \in Nat /\ MaxFrame \in Nat /\ MaxFrame > 0
      /\ beats \in Nat /\ beats < MaxFrame
  BY VoqAssumption, LenProperties DEF RInv
<1>2. CASE v.sof
  BY <1>1, <1>2 DEF dropping, room, RoomMark
<1>3. CASE ~v.sof
  <2>1. d = dest /\ ~v.refusing
    BY <1>3 DEF dropping, RInv
  <2> QED BY <1>1, <1>3, <2>1 DEF RInv, Reservation
<1> QED BY <1>2, <1>3

\* What the queue e gains when beat, or nothing, arrives for d.
gain(e, beat, d) == IF beat # None /\ e = d /\ ~dropping(v, d) THEN <<beat>> ELSE <<>>

LEMMA QueueStep ==
    ASSUME RInv, NEW beat \in BeatSet \cup {None}, NEW d \in Out, NEW rdy \in BOOLEAN,
           beat # None => beats = 0 \/ d = dest,
           v' = VoqClocked(v, beat, d, sel, rdy), NEW e \in Out
    PROVE  /\ v'.q[e] = Rest(v.q[e], e = sel /\ pop(v, sel, rdy)) \o gain(e, beat, d)
           /\ Rest(v.q[e], e = sel /\ pop(v, sel, rdy)) \in Seq(BeatSet)
           /\ gain(e, beat, d) \in Seq(BeatSet)
<1> DEFINE wr == beat # None /\ e = d /\ ~dropping(v, d)
           rd == pop(v, sel, rdy) /\ e = sel
<1>1. v'.q[e] = After(v.q[e], VoqDepth, wr, beat, rd)
  BY DEF VoqClocked, drained
<1>2. wr => Len(v.q[e]) # VoqDepth
  BY RoomThere
<1>3. v.q[e] \in Seq(BeatSet)
  BY DEF RInv
<1>4. Added(v.q[e], VoqDepth, wr, beat) = gain(e, beat, d)
  BY <1>2 DEF Added, gain
<1>5. gain(e, beat, d) \in Seq(BeatSet)
  <2>1. CASE beat # None
    <3>1. <<beat>> \in Seq(BeatSet) /\ <<>> \in Seq(BeatSet)
      BY <2>1, EmptySeq
    <3> QED BY <3>1 DEF gain
  <2>2. CASE beat = None
    BY <2>2, EmptySeq DEF gain
  <2> QED BY <2>1, <2>2
<1>6. Rest(v.q[e], rd) \in Seq(BeatSet)
  BY <1>3, HeadTailProperties DEF Rest
<1>7. Rest(v.q[e], rd) = Rest(v.q[e], e = sel /\ pop(v, sel, rdy))
  BY DEF Rest
<1> QED BY <1>1, <1>4, <1>5, <1>6, <1>7 DEF After
-----------------------------------------------------------------------------
(* The beats of one destination, at the read port and in the queue.        *)

PortType == v.out \in BeatSet \cup {None}

LEMMA FlowType ==
    ASSUME RInv, PortType, NEW e \in Out
    PROVE  flow(e) \in Seq(BeatSet)
<1>1. v.q[e] \in Seq(BeatSet)
  BY DEF RInv
<1>2. CASE v.out # None /\ v.out_sel = e
  BY <1>1, <1>2, ConsProperties DEF flow, PortType
<1>3. CASE ~(v.out # None /\ v.out_sel = e)
  <2>1. flow(e) = <<>> \o v.q[e]
    BY <1>3 DEF flow
  <2> QED BY <1>1, <2>1, ConcatEmptySeq
<1> QED BY <1>2, <1>3

\* Available is what the flow has.
LEMMA FlowAvailable ==
    ASSUME RInv, PortType, NEW e \in Out
    PROVE  e \in navail(v) <=> flow(e) # <<>>
<1>1. v.q[e] \in Seq(BeatSet)
  BY DEF RInv
<1>2. CASE v.out # None /\ v.out_sel = e
  BY <1>1, <1>2, ConsProperties DEF flow, PortType, navail
<1>3. CASE ~(v.out # None /\ v.out_sel = e)
  <2>1. flow(e) = <<>> \o v.q[e]
    BY <1>3 DEF flow
  <2>2. flow(e) = v.q[e]
    BY <1>1, <2>1, ConcatEmptySeq
  <2> QED BY <1>3, <2>2 DEF navail
<1> QED BY <1>2, <1>3

\* Concatenation as a name: the provers regroup names more readily than sequences.
Cat(s, t) == s \o t

LEMMA Assoc == \A s, t, u \in Seq(BeatSet) : Cat(Cat(s, t), u) = Cat(s, Cat(t, u))
  BY ConcatAssociative DEF Cat

\* The selected flow loses the beat that leaves.
leaves(e, rdy) == sel = e /\ xfer(rdy) # None

LEMMA FlowStep ==
    ASSUME RInv, Held, PortType, NEW beat \in BeatSet \cup {None}, NEW d \in Out,
           NEW rdy \in BOOLEAN, beat # None => beats = 0 \/ d = dest,
           v' = VoqClocked(v, beat, d, sel, rdy), NEW e \in Out
    PROVE  /\ flow(e)' = Rest(flow(e), leaves(e, rdy)) \o gain(e, beat, d)
           /\ leaves(e, rdy) => flow(e) # <<>> /\ flow(e)[1] = xfer(rdy) /\ v.out # None
<1> DEFINE q    == v.q[e]
           p    == pop(v, sel, rdy)
           left == Rest(q, e = sel /\ p)
           new  == gain(e, beat, d)
           here  == v.out # None /\ v.out_sel = e
           here1 == v'.out # None /\ v'.out_sel = e
<1>1. q \in Seq(BeatSet) /\ left \in Seq(BeatSet) /\ new \in Seq(BeatSet) /\ v'.q[e] = left \o new
  BY QueueStep DEF RInv
<1>2. /\ v'.out = IF p THEN Head(v.q[sel])
                  ELSE IF held(v, sel) /\ rdy THEN None ELSE v.out
      /\ v'.out_sel = IF p THEN sel ELSE v.out_sel
  BY DEF VoqClocked, drained
<1>3. flow(e) = (IF here THEN <<v.out>> ELSE <<>>) \o q
  BY DEF flow
<1>4. flow(e)' = (IF here1 THEN <<v'.out>> ELSE <<>>) \o (left \o new)
  BY <1>1 DEF flow
<1>5. None \notin BeatSet
  BY NoneIsNoBeat
<1>6. left \o new \in Seq(BeatSet) /\ (<<>> \o left = left) /\ (<<>> \o (left \o new) = left \o new)
      /\ <<>> \o q = q
  BY <1>1, ConcatEmptySeq, ConcatProperties
<1>7. here => flow(e) = <<v.out>> \o q /\ flow(e) # <<>> /\ flow(e)[1] = v.out /\ Tail(flow(e)) = q
  BY <1>1, <1>3, ConsProperties DEF PortType
<1>8. ~here => flow(e) = q
  BY <1>3, <1>6
<1>9. leaves(e, rdy) <=> here /\ sel = e /\ rdy
  BY DEF leaves, xfer, m_beat, held, Held
<1>10. leaves(e, rdy) => flow(e) # <<>> /\ flow(e)[1] = xfer(rdy) /\ v.out # None
  <2>1. leaves(e, rdy) => xfer(rdy) = v.out /\ here
    BY <1>9 DEF leaves, xfer, m_beat
  <2> HIDE DEF here
  <2>2. here => v.out # None
    BY DEF here
  <2> QED BY <1>7, <2>1, <2>2
<1>11. CASE p /\ e = sel
  <2>a. q # <<>>
    BY <1>11 DEF pop
  <2>b. Head(q) \in BeatSet /\ left = Tail(q)
    BY <2>a, <1>1, <1>11, HeadTailProperties DEF Rest
  <2>1. v'.out = Head(q) /\ v'.out \in BeatSet /\ here1
    BY <2>b, <1>2, <1>5, <1>11
  <2>2. <<v'.out>> \in Seq(BeatSet) /\ <<v'.out>> \o left = q
    <3>1. <<v'.out>> \o left = q
      <4> HIDE DEF left, q
      <4> QED BY <2>a, <2>b, <2>1, <1>1, ConsProperties
    <3>2. <<v'.out>> \in Seq(BeatSet)
      BY <2>1
    <3> QED BY <3>1, <3>2
  <2>3. flow(e)' = q \o new
    <3>1. flow(e)' = <<v'.out>> \o (left \o new)
      BY <2>1, <1>4, Zenon
    <3> HIDE DEF left, new, q
    <3>2. (<<v'.out>> \o left) \o new = <<v'.out>> \o (left \o new)
      <4>1. Cat(Cat(<<v'.out>>, left), new) = Cat(<<v'.out>>, Cat(left, new))
        BY <2>2, <1>1, Assoc
      <4> QED BY <4>1 DEF Cat
    <3> QED BY <3>1, <3>2, <2>2
  <2>4. Rest(flow(e), leaves(e, rdy)) = q
    <3>1. CASE v.out = None
      BY <3>1, <1>8, <1>9 DEF Rest
    <3>2. CASE v.out # None
      <4>1. here /\ rdy
        BY <1>11, <3>2 DEF pop, held
      <4> QED BY <4>1, <1>7, <1>9, <1>11 DEF Rest
    <3> QED BY <3>1, <3>2
  <2> QED BY <2>3, <2>4, <1>10
<1>12. CASE p /\ e # sel
  <2>1. ~here1 /\ ~here /\ left = q
    BY <1>12, <1>2 DEF Held, Rest
  <2>2. ~leaves(e, rdy)
    BY <1>12 DEF leaves
  <2> QED BY <2>1, <2>2, <1>4, <1>6, <1>8 DEF Rest
<1>13. CASE ~p
  <2>1. left = q
    BY <1>13 DEF Rest
  <2>2. here1 <=> here /\ ~(held(v, sel) /\ rdy)
    BY <1>13, <1>2
  <2>3. CASE leaves(e, rdy)
    <3>1. ~here1
      BY <2>2, <2>3, <1>9 DEF held, leaves, xfer, m_beat
    <3> QED BY <2>1, <2>3, <3>1, <1>4, <1>6, <1>7, <1>9, <1>10 DEF Rest
  <2>4. CASE ~leaves(e, rdy)
    <3>1. here1 <=> here
      BY <2>2, <2>4, <1>9 DEF held, Held
    <3>2. here => v'.out = v.out
      BY <3>1, <1>2, <1>13
    <3>3. CASE here
      <4>1. here1 /\ v'.out = v.out /\ v.out \in BeatSet
        BY <3>1, <3>2, <3>3 DEF PortType
      <4>2. flow(e)' = <<v.out>> \o (q \o new)
        BY <4>1, <2>1, <1>4, Zenon
      <4>3. <<v.out>> \in Seq(BeatSet)
        BY <4>1
      <4>4. (<<v.out>> \o q) \o new = <<v.out>> \o (q \o new)
        <5>1. q \in Seq(BeatSet) /\ new \in Seq(BeatSet)
          BY <1>1
        <5> HIDE DEF q, new
        <5>2. Cat(Cat(<<v.out>>, q), new) = Cat(<<v.out>>, Cat(q, new))
          BY <4>3, <5>1, Assoc
        <5> QED BY <5>2 DEF Cat
      <4> QED BY <4>2, <4>4, <3>3, <2>4, <1>7 DEF Rest
    <3>4. CASE ~here
      BY <3>1, <3>4, <2>1, <2>4, <1>4, <1>6, <1>8 DEF Rest
    <3> QED BY <3>3, <3>4
  <2> QED BY <2>3, <2>4
<1> QED BY <1>11, <1>12, <1>13
-----------------------------------------------------------------------------
(* Types, and what is available.                                           *)

PInv == /\ RInv /\ Held /\ PortType
        /\ v.out_sel \in Out /\ sel \in Out \cup {None}

LEMMA PInvInit == Init => PInv
<1> SUFFICES ASSUME Init PROVE PInv
  OBVIOUS
<1>1. v.out = None /\ v.out_sel = (CHOOSE d \in Out : TRUE) /\ sel = None /\ dest \in Out
  BY DEF Init, EmptyVoq
<1>2. RInv
  BY RInvInit
<1> QED BY <1>1, <1>2 DEF PInv, Held, PortType

LEMMA PortClock ==
    ASSUME PInv, NEW beat, NEW d, NEW rdy \in BOOLEAN,
           v' = VoqClocked(v, beat, d, sel, rdy), Select(rdy)
    PROVE  PortType' /\ v'.out_sel \in Out /\ sel' \in Out \cup {None}
<1>1. /\ v'.out = IF pop(v, sel, rdy) THEN Head(v.q[sel])
                  ELSE IF held(v, sel) /\ rdy THEN None ELSE v.out
      /\ v'.out_sel = IF pop(v, sel, rdy) THEN sel ELSE v.out_sel
  BY DEF VoqClocked, drained
<1>2. ASSUME pop(v, sel, rdy) PROVE sel \in Out /\ Head(v.q[sel]) \in BeatSet
  <2>1. sel \in Out /\ v.q[sel] # <<>>
    BY <1>2 DEF pop, PInv
  <2>2. v.q[sel] \in Seq(BeatSet)
    BY <2>1 DEF PInv, RInv
  <2> QED BY <2>1, <2>2, HeadTailProperties
<1>3. sel' \in Out \cup {None}
  BY DEF Select, navail, PInv
<1> QED BY <1>1, <1>2, <1>3 DEF PInv, PortType

LEMMA PInvStep == PInv /\ [Next]_vars => PInv'
<1> SUFFICES ASSUME PInv, [Next]_vars PROVE PInv'
  OBVIOUS
<1>1. RInv' /\ Held'
  BY RInvStep, HeldStep DEF PInv
<1>2. CASE \E last, rdy \in BOOLEAN, d \in Out : Arrive(last, d, rdy)
  BY <1>1, <1>2, PortClock DEF Arrive, PInv
<1>3. CASE \E rdy \in BOOLEAN : Idle(rdy)
  BY <1>1, <1>3, PortClock DEF Idle, PInv
<1>4. CASE Reset
  <2>1. v'.out = None /\ v'.out_sel = (CHOOSE d \in Out : TRUE) /\ sel' = None /\ dest \in Out
    BY <1>4 DEF Reset, EmptyVoq, PInv, RInv
  <2> QED BY <1>1, <2>1 DEF PInv, PortType
<1>5. CASE UNCHANGED vars
  BY <1>1, <1>5 DEF vars, PInv, PortType
<1> QED BY <1>2, <1>3, <1>4, <1>5 DEF Next

LEMMA PortInvariant == Spec => []PInv
  BY PInvInit, PInvStep, PTL DEF Spec

\* A step is an edge, with or without a beat, or a reset.
LEMMA StepKinds ==
    ASSUME PInv, [Next]_vars
    PROVE  \/ \E last, rdy \in BOOLEAN, d \in Out :
                /\ Arrive(last, d, rdy) /\ Beat(last) \in BeatSet /\ Beat(last) # None
                /\ v' = VoqClocked(v, Beat(last), d, sel, rdy)
           \/ \E rdy \in BOOLEAN : Idle(rdy) /\ v' = VoqClocked(v, None, dest, sel, rdy)
           \/ Reset
           \/ UNCHANGED vars
<1>1. ASSUME NEW last \in BOOLEAN PROVE Beat(last) \in BeatSet /\ Beat(last) # None
  BY NoneIsNoBeat DEF Beat, BeatSet, PInv, RInv
<1> QED BY <1>1 DEF Next, Arrive, Idle

\* A queue that has something to send keeps it until one of its beats is taken, for
\* every depth and number of destinations (voq.sv:175-189); whether more of the frame
\* is there then is another matter, see SwSeam!AvailableUntilEnd.
THEOREM RequestsStand == Spec => RequestsHold
<1>1. ASSUME PInv, NEW beat \in BeatSet \cup {None}, NEW d \in Out, NEW rdy \in BOOLEAN,
             beat # None => beats = 0 \/ d = dest,
             v' = VoqClocked(v, beat, d, sel, rdy), PInv',
             NEW e \in Out, e \in navail(v), e \notin served(rdy)
      PROVE  e \in navail(v)'
  <2>1. flow(e) # <<>> /\ flow(e) \in Seq(BeatSet)
    BY <1>1, FlowAvailable, FlowType DEF PInv
  <2>2. (RInv /\ PortType => (e \in navail(v) <=> flow(e) # <<>>))'
    BY FlowAvailable, PTL
  <2>3. flow(e)' = Rest(flow(e), leaves(e, rdy)) \o gain(e, beat, d)
    <3>1. RInv /\ Held /\ PortType
      BY <1>1 DEF PInv
    <3> QED BY ONLY <1>1, <3>1, FlowStep
  <2>4. ~leaves(e, rdy)
    <3>1. xfer(rdy) # None => sel = v.out_sel
      BY DEF xfer, m_beat, held
    <3> QED BY <1>1, <3>1 DEF leaves, served
  <2>5. flow(e)' = flow(e) \o gain(e, beat, d)
    BY <2>3, <2>4 DEF Rest
  <2>6. gain(e, beat, d) \in Seq(BeatSet)
    BY <1>1, QueueStep DEF PInv
  <2>7. flow(e)' # <<>>
    BY <2>1, <2>5, <2>6, ConcatEqualIffEmpty
  <2> QED BY <1>1, <2>2, <2>7 DEF PInv
<1>2. ASSUME PInv, PInv', NEW rdy \in BOOLEAN, Edge(rdy)
      PROVE  navail(v) \ served(rdy) \subseteq navail(v)'
  <2>1. navail(v) \subseteq Out
    BY DEF navail
  <2>2. CASE Idle(rdy)
    BY <1>1, <1>2, <2>1, <2>2 DEF Idle, PInv, RInv
  <2>3. ASSUME NEW last \in BOOLEAN, NEW d \in Out, Arrive(last, d, rdy)
        PROVE  navail(v) \ served(rdy) \subseteq navail(v)'
    <3>1. Beat(last) \in BeatSet
      BY <1>2 DEF Beat, BeatSet, PInv, RInv
    <3>2. (beats = 0 \/ d = dest) /\ v' = VoqClocked(v, Beat(last), d, sel, rdy)
      BY <2>3 DEF Arrive
    <3> QED BY <1>1, <1>2, <2>1, <3>1, <3>2
  <2> QED BY <1>2, <2>2, <2>3 DEF Edge
<1>3. PInv /\ PInv' => [\A rdy \in BOOLEAN :
                           Edge(rdy) => navail(v) \ served(rdy) \subseteq navail(v)']_vars
  BY <1>2
<1> QED BY <1>3, PortInvariant, PTL DEF RequestsHold
-----------------------------------------------------------------------------
(* Refused frames.                                                         *)

\* A frame that is refused has left nothing, one that is admitted has left all of it.
CInv == /\ v.drop_cnt = lost
        /\ lost \in [Out -> 0 .. CountMod - 1]
        /\ kept = IF v.refusing THEN 0 ELSE beats

\* An edge at which a beat arrives for d adds it to the queue, unless it is refused.
LEMMA Grown ==
    ASSUME PInv, NEW beat \in BeatSet, NEW d \in Out, NEW rdy \in BOOLEAN,
           beats = 0 \/ d = dest, v' = VoqClocked(v, beat, d, sel, rdy)
    PROVE  grown(d, rdy) = IF dropping(v, d) THEN 0 ELSE 1
<1> DEFINE left == Rest(v.q[d], d = sel /\ pop(v, sel, rdy))
           new  == gain(d, beat, d)
<1>1. beat # None
  BY NoneIsNoBeat
<1>2. v'.q[d] = left \o new /\ left \in Seq(BeatSet) /\ new \in Seq(BeatSet)
  BY <1>1, QueueStep DEF PInv
<1>3. new = IF dropping(v, d) THEN <<>> ELSE <<beat>>
  BY <1>1 DEF gain
<1>4. Len(new) = IF dropping(v, d) THEN 0 ELSE 1
  BY <1>3
<1> HIDE DEF left, new
<1>5. Len(v'.q[d]) = Len(left) + Len(new) /\ Len(left) \in Nat /\ Len(new) \in Nat
  BY <1>2, ConcatProperties, LenProperties
<1>6. Len(v'.q[d]) - Len(left) = Len(new)
  BY <1>5
<1> QED BY <1>4, <1>6 DEF grown, left

LEMMA CInvArrive ==
    ASSUME PInv, CInv, NEW last \in BOOLEAN, NEW d \in Out, NEW rdy \in BOOLEAN,
           Arrive(last, d, rdy), Beat(last) \in BeatSet, Beat(last) # None
    PROVE  CInv'
<1> DEFINE refused == dropping(v, d)
<1>1. /\ v' = VoqClocked(v, Beat(last), d, sel, rdy) /\ Account(Beat(last), d, rdy)
      /\ beats = 0 \/ d = dest
      /\ beats' = IF last THEN 0 ELSE beats + 1
      /\ Beat(last).last = last
  BY DEF Arrive, Beat
<1>2. /\ v'.refusing = refused
      /\ v'.drop_cnt = [e \in Out |-> IF e = d /\ last /\ refused
                                      THEN bump(v.drop_cnt[e]) ELSE v.drop_cnt[e]]
  BY <1>1 DEF VoqClocked, drained, dropping, counted
<1>3. beats \in Nat /\ (v.sof <=> beats = 0)
  BY DEF PInv, RInv
<1>4. kept = IF refused THEN 0 ELSE beats
  BY <1>3 DEF CInv, dropping
<1>5. kept + grown(d, rdy) = IF refused THEN 0 ELSE beats + 1
  BY <1>1, <1>3, <1>4, Grown
<1> HIDE DEF refused
<1>6. /\ kept' = IF last THEN 0 ELSE (IF refused THEN 0 ELSE beats + 1)
      /\ lost' = IF last /\ refused THEN [lost EXCEPT ![d] = (@ + 1) % CountMod] ELSE lost
  BY <1>1, <1>3, <1>5 DEF Account
<1>7. kept' = IF v'.refusing THEN 0 ELSE beats'
  BY <1>1, <1>2, <1>6
<1>8. CountMod \in Nat /\ CountMod > 0 /\ lost[d] \in Nat
  BY VoqAssumption DEF CInv
<1>9. (lost[d] + 1) % CountMod \in 0 .. CountMod - 1
  BY <1>8
<1>10. lost' \in [Out -> 0 .. CountMod - 1]
  BY <1>6, <1>9 DEF CInv
<1>11. v'.drop_cnt = lost'
  <2>1. lost' = [e \in Out |-> IF e = d /\ last /\ refused
                               THEN bump(lost[e]) ELSE lost[e]]
    BY <1>6 DEF bump, CInv
  <2> QED BY <1>2, <2>1 DEF CInv
<1> QED BY <1>7, <1>10, <1>11 DEF CInv

LEMMA CInvStep == PInv /\ CInv /\ [Next]_vars => CInv'
<1> SUFFICES ASSUME PInv, CInv, [Next]_vars PROVE CInv'
  OBVIOUS
<1>1. CASE \E last, rdy \in BOOLEAN, d \in Out :
                /\ Arrive(last, d, rdy) /\ Beat(last) \in BeatSet /\ Beat(last) # None
                /\ v' = VoqClocked(v, Beat(last), d, sel, rdy)
  BY <1>1, CInvArrive
<1>2. ASSUME NEW rdy \in BOOLEAN, Idle(rdy) PROVE CInv'
  <2>1. /\ v'.refusing = v.refusing /\ v'.drop_cnt = [e \in Out |-> v.drop_cnt[e]]
        /\ UNCHANGED <<kept, lost, beats>>
    BY <1>2 DEF Idle, VoqClocked, counted
  <2>2. v'.drop_cnt = v.drop_cnt
    BY <2>1 DEF CInv
  <2> QED BY <2>1, <2>2 DEF CInv
<1>3. CASE Reset
  <2>1. /\ v'.drop_cnt = [d \in Out |-> 0] /\ v'.refusing = FALSE
        /\ kept' = 0 /\ beats' = 0 /\ lost' = [d \in Out |-> 0]
    BY <1>3 DEF Reset, EmptyVoq
  <2> QED BY <2>1, VoqAssumption DEF CInv
<1>4. CASE UNCHANGED vars
  BY <1>4 DEF vars, CInv
<1> QED BY <1>1, <1>2, <1>3, <1>4, StepKinds

LEMMA CInvInit == Init => CInv
  BY VoqAssumption DEF Init, EmptyVoq, CInv

LEMMA CountInvariant == Spec => [](PInv /\ CInv)
  BY PInvInit, PInvStep, CInvInit, CInvStep, PTL DEF Spec

\* A frame gets in whole or not at all, and the counters of refused frames, with the
\* width they have, count those that did not, at their destination (voq.sv:110-131).
THEOREM RefusedAreCounted == Spec => []DropsCounted
<1>1. CInv => DropsCounted
  BY DEF CInv, DropsCounted
<1> QED BY <1>1, CountInvariant, PTL

\* All registers keep to their ranges.
THEOREM VoqTypes == Spec => []TypeOK
<1>1. PInv /\ CInv => TypeOK
  <2> SUFFICES ASSUME PInv, CInv PROVE TypeOK
    OBVIOUS
  <2>1. kept \in 0 .. MaxFrame - 1
    BY VoqAssumption DEF PInv, CInv, RInv
  <2> QED BY <2>1 DEF PInv, CInv, RInv, PortType, TypeOK
<1> QED BY <1>1, CountInvariant, PTL
-----------------------------------------------------------------------------
(* Whole frames.                                                           *)

\* The frame arriving for d has been admitted, and its last beat has not come.
open(d) == ~v.sof /\ ~v.refusing /\ d = dest

Linked(f) == \A k \in 1 .. Len(f) - 1 : Follows(f[k], f[k + 1])

\* The last beat of a flow ends a frame, but for the frame that is open; of that what
\* has come is in the flow or left it, and then the destination is still selected.
Closed(d) == IF flow(d) = <<>> THEN open(d) => sel = d
             ELSE LET b == flow(d)[Len(flow(d))]
                  IN  IF open(d) THEN ~b.last /\ b.pos = beats - 1 ELSE b.last

Starts(d) == flow(d) # <<>> /\ sel # d => flow(d)[1].pos = 0

WInv == \A d \in Out : Linked(flow(d)) /\ Starts(d) /\ Closed(d)

\* What the exit leaves of a flow.
LEMMA ExitStep ==
    ASSUME PInv, WInv, NEW e \in Out, NEW rdy \in BOOLEAN, Select(rdy),
           leaves(e, rdy) => flow(e) # <<>> /\ flow(e)[1] = xfer(rdy)
    PROVE  LET f == flow(e)
               g == Rest(f, leaves(e, rdy))
           IN  /\ f \in Seq(BeatSet) /\ g \in Seq(BeatSet) /\ Linked(g)
               /\ g # <<>> => f # <<>> /\ g[Len(g)] = f[Len(f)]
               /\ g # <<>> /\ sel' # e => g[1].pos = 0
               /\ g = <<>> /\ open(e) => sel' = e
<1> DEFINE f == flow(e)
           g == Rest(f, leaves(e, rdy))
<1>1. f \in Seq(BeatSet) /\ Linked(f) /\ Starts(e) /\ Closed(e)
  BY FlowType DEF PInv, WInv
<1>2. Len(f) \in Nat /\ (f # <<>> => Len(f) > 0)
  BY <1>1, EmptySeq, LenProperties
<1>3. CASE leaves(e, rdy)
  <2>1. /\ f # <<>> /\ f[1] = xfer(rdy) /\ sel = e /\ xfer(rdy) # None
        /\ g = Tail(f) /\ sel' = IF f[1].last THEN None ELSE sel
    <3>1. leaves(e, rdy) /\ f # <<>> /\ f[1] = xfer(rdy)
      BY <1>3
    <3>2. sel = e /\ xfer(rdy) # None
      BY <3>1 DEF leaves
    <3>3. e # None
      BY VoqAssumption
    <3>4. g = Tail(f)
      BY <3>1 DEF Rest
    <3>5. sel' = IF xfer(rdy).last THEN None ELSE sel
      BY <3>2, <3>3 DEF Select
    <3> QED BY <3>1, <3>2, <3>4, <3>5
  <2>2. /\ g \in Seq(BeatSet) /\ Len(g) = Len(f) - 1
        /\ \A i \in 1 .. Len(g) : g[i] = f[i + 1]
    BY <1>1, <2>1, HeadTailProperties
  <2>3. Len(g) \in Nat /\ (g # <<>> => Len(g) > 0) /\ (g = <<>> => Len(f) = 1)
    BY <1>2, <2>2, EmptySeq, LenProperties
  <2> HIDE DEF g, f
  <2>4. Linked(g)
    <3> SUFFICES ASSUME NEW k \in 1 .. Len(g) - 1 PROVE Follows(g[k], g[k + 1])
      BY DEF Linked
    <3>1. k \in 1 .. Len(f) - 1 /\ k + 1 \in 1 .. Len(f) - 1 /\ k \in 1 .. Len(g) /\ k + 1 \in 1 .. Len(g)
      BY <1>2, <2>2, <2>3
    <3>2. Follows(f[k + 1], f[(k + 1) + 1])
      BY <1>1, <3>1 DEF Linked
    <3> QED BY <2>2, <3>1, <3>2
  <2>5. g # <<>> => f # <<>> /\ g[Len(g)] = f[Len(f)]
    <3>1. g # <<>> => g[Len(g)] = f[Len(g) + 1] /\ Len(g) + 1 = Len(f)
      BY <1>2, <2>2, <2>3
    <3> QED BY <2>1, <3>1
  <2>6. ASSUME g # <<>>, sel' # e PROVE g[1].pos = 0
    <3>1. 1 \in 1 .. Len(g) /\ 1 \in 1 .. Len(f) - 1 /\ g[1] = f[1 + 1] /\ f[1].last
      BY <1>2, <2>1, <2>2, <2>3, <2>6
    <3>2. Follows(f[1], f[1 + 1])
      BY <1>1, <3>1 DEF Linked
    <3> QED BY <3>1, <3>2 DEF Follows
  <2>7. ASSUME g = <<>>, open(e) PROVE sel' = e
    <3>1. ~f[1].last
      <4>1. f[Len(f)] = f[1]
        BY <2>3, <2>7
      <4> QED BY <1>1, <2>1, <2>7, <4>1 DEF Closed, f
    <3> QED BY <2>1, <3>1
  <2> QED BY <1>1, <2>2, <2>4, <2>5, <2>6, <2>7 DEF f, g
<1>4. CASE ~leaves(e, rdy)
  <2>1. g = f
    BY <1>4 DEF Rest
  <2>2. sel = e => sel' = e
    <3>1. e # None
      BY VoqAssumption
    <3> QED BY <1>4, <3>1 DEF leaves, Select
  <2>3. g # <<>> /\ sel' # e => g[1].pos = 0
    BY <1>1, <2>1, <2>2 DEF Starts
  <2>4. g = <<>> /\ open(e) => sel' = e
    BY <1>1, <2>1, <2>2 DEF Closed
  <2> HIDE DEF f, g
  <2> QED BY <1>1, <2>1, <2>3, <2>4 DEF f, g
<1> QED BY <1>3, <1>4

\* A beat that follows the last one keeps a flow linked.
LEMMA AppendLinked ==
    ASSUME NEW g \in Seq(BeatSet), NEW b \in BeatSet, Linked(g),
           g # <<>> => Follows(g[Len(g)], b)
    PROVE  LET h == g \o <<b>>
           IN  /\ Linked(h) /\ h # <<>> /\ h[Len(h)] = b
               /\ h[1] = IF g = <<>> THEN b ELSE g[1]
<1> DEFINE h == g \o <<b>>
<1>1. <<b>> \in Seq(BeatSet) /\ Len(<<b>>) = 1 /\ Len(g) \in Nat
      /\ (g # <<>> => Len(g) > 0) /\ (g = <<>> => Len(g) = 0)
  BY LenProperties, EmptySeq
<1>2. /\ h \in Seq(BeatSet) /\ Len(h) = Len(g) + 1
      /\ \A i \in 1 .. Len(g) + 1 : h[i] = IF i <= Len(g) THEN g[i] ELSE <<b>>[i - Len(g)]
  BY <1>1, ConcatProperties
<1>3. h[Len(g) + 1] = b /\ \A i \in 1 .. Len(g) : h[i] = g[i]
  BY <1>1, <1>2
<1> HIDE DEF h
<1>4. h # <<>> /\ h[Len(h)] = b /\ h[1] = IF g = <<>> THEN b ELSE g[1]
  BY <1>1, <1>2, <1>3
<1>5. Linked(h)
  <2> SUFFICES ASSUME NEW k \in 1 .. Len(h) - 1 PROVE Follows(h[k], h[k + 1])
    BY DEF Linked
  <2>1. CASE k < Len(g)
    <3>1. k \in 1 .. Len(g) - 1 /\ h[k] = g[k] /\ h[k + 1] = g[k + 1]
      BY <2>1, <1>1, <1>2, <1>3
    <3> QED BY <3>1 DEF Linked
  <2>2. CASE ~(k < Len(g))
    <3>1. k = Len(g) /\ g # <<>> /\ h[k] = g[Len(g)] /\ h[k + 1] = b
      BY <2>2, <1>1, <1>2, <1>3
    <3> QED BY <3>1
  <2> QED BY <2>1, <2>2
<1> QED BY <1>4, <1>5 DEF h

\* An edge without a beat, or with one that e does not get.
LEMMA KeepStep ==
    ASSUME PInv, WInv, NEW e \in Out, NEW rdy \in BOOLEAN, Select(rdy),
           leaves(e, rdy) => flow(e) # <<>> /\ flow(e)[1] = xfer(rdy),
           flow(e)' = Rest(flow(e), leaves(e, rdy)) \o <<>>,
           open(e)' <=> open(e), open(e) => beats' = beats
    PROVE  (Linked(flow(e)) /\ Starts(e) /\ Closed(e))'
<1> DEFINE f == flow(e)
           g == Rest(f, leaves(e, rdy))
<1>1. /\ f \in Seq(BeatSet) /\ g \in Seq(BeatSet) /\ Linked(g)
      /\ g # <<>> => f # <<>> /\ g[Len(g)] = f[Len(f)]
      /\ g # <<>> /\ sel' # e => g[1].pos = 0
      /\ g = <<>> /\ open(e) => sel' = e
  BY ExitStep
<1>2. flow(e)' = g
  BY <1>1, ConcatEmptySeq
<1>3. Linked(flow(e))' /\ Starts(e)'
  BY <1>1, <1>2 DEF Linked, Starts
<1>4. Closed(e)'
  <2>1. CASE g = <<>>
    BY <2>1, <1>1, <1>2 DEF Closed
  <2>2. CASE g # <<>>
    <3>1. flow(e)'[Len(flow(e)')] = f[Len(f)] /\ f # <<>>
      BY <2>2, <1>1, <1>2
    <3>2. IF open(e) THEN ~f[Len(f)].last /\ f[Len(f)].pos = beats - 1 ELSE f[Len(f)].last
      BY <3>1 DEF WInv, Closed
    <3> HIDE DEF f, g
    <3> QED BY <2>2, <1>2, <3>1, <3>2 DEF Closed
  <2> QED BY <2>1, <2>2
<1> QED BY <1>3, <1>4

\* An edge at which e gets a beat.
LEMMA BeatStep ==
    ASSUME PInv, WInv, NEW last \in BOOLEAN, NEW e \in Out, NEW rdy \in BOOLEAN,
           Arrive(last, e, rdy), Beat(last) \in BeatSet, ~dropping(v, e),
           leaves(e, rdy) => flow(e) # <<>> /\ flow(e)[1] = xfer(rdy),
           flow(e)' = Rest(flow(e), leaves(e, rdy)) \o <<Beat(last)>>
    PROVE  (Linked(flow(e)) /\ Starts(e) /\ Closed(e))'
<1> DEFINE f == flow(e)
           g == Rest(f, leaves(e, rdy))
           b == Beat(last)
<1>1. /\ v' = VoqClocked(v, b, e, sel, rdy) /\ Select(rdy)
      /\ beats = 0 \/ e = dest
      /\ beats' = (IF last THEN 0 ELSE beats + 1) /\ dest' = e
  BY DEF Arrive
<1>2. b.last = last /\ b.pos = beats /\ b # None
  BY NoneIsNoBeat DEF Beat
<1>3. /\ f \in Seq(BeatSet) /\ g \in Seq(BeatSet) /\ Linked(g)
      /\ g # <<>> => f # <<>> /\ g[Len(g)] = f[Len(f)]
      /\ g # <<>> /\ sel' # e => g[1].pos = 0
      /\ g = <<>> /\ open(e) => sel' = e
  BY <1>1, ExitStep
<1>4. open(e) <=> beats # 0
  BY <1>1 DEF open, dropping, PInv, RInv
<1>5. open(e)' <=> ~last
  <2>1. v'.sof = last /\ ~v'.refusing
    BY <1>1, <1>2 DEF VoqClocked, drained, dropping
  <2> QED BY <1>1, <2>1 DEF open
<1>6. beats \in Nat
  BY DEF PInv, RInv
<1>7. Closed(e) /\ (g # <<>> => Follows(g[Len(g)], b))
  <2>1. Closed(e)
    BY DEF WInv
  <2>2. ASSUME g # <<>> PROVE Follows(g[Len(g)], b)
    <3>1. f # <<>> /\ g[Len(g)] = f[Len(f)]
      BY <2>2, <1>3
    <3>2. IF open(e) THEN ~f[Len(f)].last /\ f[Len(f)].pos = beats - 1 ELSE f[Len(f)].last
      BY <2>1, <3>1 DEF Closed
    <3> HIDE DEF f, g, b
    <3> QED BY <1>2, <1>4, <1>6, <3>1, <3>2 DEF Follows
  <2> QED BY <2>1, <2>2
<1> DEFINE h == g \o <<b>>
<1>8. flow(e)' = h
  OBVIOUS
<1>9. Linked(h) /\ h # <<>> /\ h[Len(h)] = b /\ h[1] = IF g = <<>> THEN b ELSE g[1]
  <2> HIDE DEF g, b
  <2> QED BY <1>3, <1>7, AppendLinked DEF b
<1> HIDE DEF h
<1>10. Linked(flow(e))'
  BY <1>8, <1>9 DEF Linked
<1>11. Starts(e)'
  <2>1. ASSUME sel' # e PROVE h[1].pos = 0
    <3>1. CASE g = <<>>
      BY <3>1, <2>1, <1>2, <1>3, <1>4, <1>9
    <3>2. CASE g # <<>>
      BY <3>2, <2>1, <1>3, <1>9
    <3> QED BY <3>1, <3>2
  <2> QED BY <2>1, <1>8 DEF Starts
<1>12. Closed(e)'
  <2>1. open(e)' => ~b.last /\ b.pos = beats' - 1
    BY <1>1, <1>2, <1>5, <1>6
  <2>2. ~open(e)' => b.last
    BY <1>2, <1>5
  <2> HIDE DEF b
  <2> QED BY <2>1, <2>2, <1>8, <1>9 DEF Closed
<1> QED BY <1>10, <1>11, <1>12

LEMMA WInvStep == PInv /\ WInv /\ [Next]_vars => WInv'
<1> SUFFICES ASSUME PInv, WInv, [Next]_vars, NEW e \in Out
             PROVE  (Linked(flow(e)) /\ Starts(e) /\ Closed(e))'
  BY DEF WInv
<1>1. ASSUME NEW last \in BOOLEAN, NEW rdy \in BOOLEAN, NEW d \in Out,
             Arrive(last, d, rdy), Beat(last) \in BeatSet, Beat(last) # None
      PROVE  (Linked(flow(e)) /\ Starts(e) /\ Closed(e))'
  <2>1. /\ v' = VoqClocked(v, Beat(last), d, sel, rdy) /\ Select(rdy)
        /\ beats = 0 \/ d = dest
        /\ dest' = d
    BY <1>1 DEF Arrive
  <2>2. /\ flow(e)' = Rest(flow(e), leaves(e, rdy)) \o gain(e, Beat(last), d)
        /\ leaves(e, rdy) => flow(e) # <<>> /\ flow(e)[1] = xfer(rdy)
    BY <1>1, <2>1, FlowStep DEF PInv
  <2>3. CASE e = d /\ ~dropping(v, d)
    BY <1>1, <2>2, <2>3, BeatStep DEF gain
  <2>4. CASE ~(e = d /\ ~dropping(v, d))
    <3>1. flow(e)' = Rest(flow(e), leaves(e, rdy)) \o <<>>
      BY <2>2, <2>4 DEF gain
    <3>2. ~open(e)
      BY <2>1, <2>4 DEF open, dropping, PInv, RInv
    <3>3. ~open(e)'
      <4>1. v'.refusing = dropping(v, d)
        BY <1>1, <2>1 DEF VoqClocked, drained, dropping
      <4> QED BY <2>1, <2>4, <4>1 DEF open
    <3> QED BY <2>1, <2>2, <3>1, <3>2, <3>3, KeepStep
  <2> QED BY <2>3, <2>4
<1>2. ASSUME NEW rdy \in BOOLEAN, Idle(rdy)
      PROVE  (Linked(flow(e)) /\ Starts(e) /\ Closed(e))'
  <2>1. /\ v' = VoqClocked(v, None, dest, sel, rdy) /\ Select(rdy)
        /\ beats' = beats /\ dest' = dest /\ dest \in Out
    BY <1>2 DEF Idle, PInv, RInv
  <2>2. v'.sof = v.sof /\ v'.refusing = v.refusing
    BY <2>1 DEF VoqClocked, drained
  <2>3. /\ flow(e)' = Rest(flow(e), leaves(e, rdy)) \o gain(e, None, dest)
        /\ leaves(e, rdy) => flow(e) # <<>> /\ flow(e)[1] = xfer(rdy)
    BY <2>1, FlowStep DEF PInv
  <2>4. flow(e)' = Rest(flow(e), leaves(e, rdy)) \o <<>>
    BY <2>3 DEF gain
  <2>5. open(e)' <=> open(e)
    BY <2>1, <2>2 DEF open
  <2> QED BY <2>1, <2>3, <2>4, <2>5, KeepStep
<1>3. CASE Reset
  <2>1. v'.out = None /\ v'.q[e] = <<>> /\ v'.sof
    BY <1>3 DEF Reset, EmptyVoq
  <2>2. flow(e)' = <<>>
    BY <2>1, ConcatEmptySeq, EmptySeq DEF flow
  <2>3. Len(<<>>) = 0 /\ 1 .. 0 - 1 = {}
    BY EmptySeq
  <2> QED BY <2>1, <2>2, <2>3 DEF Linked, Starts, Closed, open
<1>4. CASE UNCHANGED vars
  <2>1. Linked(flow(e)) /\ Starts(e) /\ Closed(e)
    BY DEF WInv
  <2> QED BY <2>1, <1>4 DEF vars, flow, Linked, Starts, Closed, open
<1> QED BY <1>1, <1>2, <1>3, <1>4, StepKinds

LEMMA WInvInit == Init => WInv
<1> SUFFICES ASSUME Init, NEW e \in Out PROVE Linked(flow(e)) /\ Starts(e) /\ Closed(e)
  BY DEF WInv
<1>1. v.out = None /\ v.q[e] = <<>> /\ v.sof
  BY DEF Init, EmptyVoq
<1>2. flow(e) = <<>>
  BY <1>1, ConcatEmptySeq, EmptySeq DEF flow
<1>3. Len(<<>>) = 0 /\ 1 .. 0 - 1 = {}
  BY EmptySeq
<1> QED BY <1>1, <1>2, <1>3 DEF Linked, Starts, Closed, open

\* The queues hold whole frames back to back, whatever is refused and whenever the exit
\* comes for them; only the frame arriving lacks its end, and only the one leaving its
\* beginning (voq.sv:162-173).
THEOREM FramesStayWhole == Spec => []WholeFrames
<1>1. WInv => WholeFrames
  BY DEF WInv, Linked, Starts, WholeFrames
<1>2. Init => PInv /\ WInv
  BY PInvInit, WInvInit
<1>3. PInv /\ WInv /\ [Next]_vars => (PInv /\ WInv)'
  BY PInvStep, WInvStep
<1> QED BY <1>1, <1>2, <1>3, PTL DEF Spec
=============================================================================
