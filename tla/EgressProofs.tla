---------------------------- MODULE EgressProofs ----------------------------
(***************************************************************************)
(* Proofs about the way out of the switch, piped or wired, for every set   *)
(* of beats and every number of credits.  What concerns the credits alone  *)
(* is shown of a credit link with any source, of which the register slice  *)
(* is one.                                                                 *)
(***************************************************************************)
EXTENDS Egress, SequenceTheorems, TLAPS

\* A pipe or a queue over one clock edge: its head leaves or not, a beat d
\* enters or not.
rest(q, out) == IF out THEN Tail(q) ELSE q
added(in, d) == IF in THEN <<d>> ELSE <<>>
one(b) == IF b THEN 1 ELSE 0

LEMMA RestProperties ==
    ASSUME NEW q \in Seq(Data), NEW out \in BOOLEAN, out => q # <<>>
    PROVE  rest(q, out) \in Seq(Data) /\ Len(rest(q, out)) = Len(q) - one(out)
  BY HeadTailProperties, LenProperties DEF one, rest

LEMMA AddedProperties ==
    ASSUME NEW in \in BOOLEAN, NEW d, in => d \in Data
    PROVE  added(in, d) \in Seq(Data) /\ Len(added(in, d)) = one(in)
  BY EmptySeq DEF one, added

\* The clock edge of the receiver's queue when what is written finds room and
\* what is read is there.
LEMMA QueueClock ==
    ASSUME NEW w \in BOOLEAN, NEW d, NEW r \in BOOLEAN,
           w => ~Fifo!full, r => ~Fifo!empty,
           Fifo!Clock(w, d, r)
    PROVE  /\ queue' = rest(queue, r) \o added(w, d)
           /\ rd_data' = IF r THEN Head(queue) ELSE rd_data
  BY DEF Fifo!Clock, Fifo!After, Fifo!ReadPort, Fifo!Rest, Fifo!Added, Fifo!full,
         Fifo!empty, rest, added
-----------------------------------------------------------------------------
\* What is inductive: the ranges and the conservation law together.  Neither is
\* on its own: only the law bounds credits, and it adds numbers only when the
\* registers are numbers.
IInv == TypeOK /\ Conservation

LEMMA Lengths ==
    ASSUME IInv
    PROVE  /\ credits \in Nat /\ ret \in Nat /\ Len(fwd) \in Nat /\ Len(queue) \in Nat
           /\ Depth \in Nat \ {0} /\ held \in 0 .. 1
           /\ fwd # <<>> => Len(fwd) >= 1
           /\ queue # <<>> => Len(queue) >= 1
  BY CreditAssumption, LenProperties, EmptySeq
     DEF IInv, TypeOK, Fifo!TypeOK, held

\* The conservation law is what keeps a beat from finding the queue full.
LEMMA Room == ASSUME IInv PROVE NoOverflow
  BY Lengths DEF IInv, Conservation, NoOverflow, Fifo!full

LEMMA InitIInv == Init => IInv
<1> SUFFICES ASSUME Init PROVE IInv
  OBVIOUS
<1>1. /\ fwd \in Seq(Data) /\ Len(fwd) = 0
      /\ queue \in Seq(Data) /\ Len(queue) = 0
  BY EmptySeq DEF Init, Fifo!Init
<1>2. Depth \in Nat /\ Zero \in Data
  BY CreditAssumption
<1>3. TypeOK
  <2>1. credits \in 0 .. Depth /\ ret \in 0 .. Depth
    BY <1>2 DEF Init
  <2>2. Fifo!TypeOK
    BY <1>1, <1>2 DEF Init, Fifo!Init, Fifo!TypeOK
  <2>3. out_valid \in BOOLEAN /\ taken \in Data /\ given \in Data /\ odd \in BOOLEAN
    BY <1>2 DEF Init
  <2>4. Len(fwd) <= Depth
    BY <1>1, <1>2
  <2>5. wired \in BOOLEAN /\ (wired => fwd = <<>> /\ ret = 0)
    BY DEF Init
  <2> QED BY <1>1, <2>1, <2>2, <2>3, <2>4, <2>5 DEF TypeOK
<1>4. Conservation
  BY <1>1, <1>2 DEF Init, Conservation, held
<1> QED BY <1>3, <1>4 DEF IInv

\* One clock edge keeps the invariant.  The events of the edge are named first:
\* tx a beat leaves the sender, rx one arrives, cr a credit comes back, pop the
\* queue is read, drain the destination takes a beat.
LEMMA EdgeIInv ==
    ASSUME IInv,
           NEW sv \in BOOLEAN, NEW d \in Data, NEW fd \in BOOLEAN,
           NEW rd \in BOOLEAN, NEW dr \in BOOLEAN,
           Edge(sv, d, fd, rd, dr)
    PROVE  IInv'
<1>a. PICK tx \in BOOLEAN, rx \in BOOLEAN, cr \in BOOLEAN, pop \in BOOLEAN, drain \in BOOLEAN :
        /\ tx = (sv /\ src_ready)
        /\ rx = rx_valid(tx, fd)
        /\ pop = rd_en(dr)
        /\ drain = credit_drain(dr)
        /\ cr = credit_return(drain, rd)
  BY DEF IInv, TypeOK, rd_en, credit_drain, src_ready, rx_valid, credit_return
<1>b. /\ tx => credits # 0
      /\ IF wired THEN rx = tx /\ cr = drain /\ fwd = <<>> /\ ret = 0
                  ELSE (rx => fwd # <<>>) /\ (cr => ret # 0)
  BY <1>a DEF src_ready, rx_valid, credit_return, IInv, TypeOK
<1>c. /\ Sender(tx, cr) /\ Forward(tx, d, rx) /\ Return(drain, cr)
      /\ Receiver(rx, rx_data(d), dr) /\ History(tx, d, dr) /\ wired' = wired
  BY <1>a DEF Edge
<1>1. /\ fwd' \in Seq(Data)
      /\ Len(fwd') = Len(fwd) - one(rx) + one(tx)
      /\ wired => fwd' = <<>>
  <2>1. CASE wired
    <3>1. fwd' = fwd /\ fwd = <<>> /\ rx = tx
      BY <2>1, <1>b, <1>c DEF Forward
    <3>2. fwd \in Seq(Data) /\ Len(fwd) \in Nat
      BY Lengths DEF IInv, TypeOK
    <3> QED BY <3>1, <3>2 DEF one
  <2>2. CASE ~wired
    <3>1. fwd' = rest(fwd, rx) \o added(tx, d)
      BY <2>2, <1>c DEF Forward, rest, added
    <3>2. fwd \in Seq(Data) /\ (rx => fwd # <<>>)
      BY <2>2, <1>b DEF IInv, TypeOK
    <3>3. rest(fwd, rx) \in Seq(Data) /\ Len(rest(fwd, rx)) = Len(fwd) - one(rx)
      BY <3>2, RestProperties
    <3>4. added(tx, d) \in Seq(Data) /\ Len(added(tx, d)) = one(tx)
      BY AddedProperties
    <3> QED BY <2>2, <3>1, <3>3, <3>4, ConcatProperties
  <2> QED BY <2>1, <2>2
<1>2. rx => rx_data(d) \in Data
  BY <1>b, HeadTailProperties DEF IInv, TypeOK, rx_data
<1>3. /\ queue' \in Seq(Data)
      /\ Len(queue') = Len(queue) - one(pop) + one(rx)
      /\ rd_data' \in Data
  <2>1. /\ queue' = rest(queue, pop) \o added(rx, rx_data(d))
        /\ rd_data' = IF pop THEN Head(queue) ELSE rd_data
        /\ pop => queue # <<>>
    <3>1. Fifo!Clock(rx, rx_data(d), pop)
      BY <1>a, <1>c DEF Receiver
    <3>2. rx => ~Fifo!full
      BY <1>b, Room DEF NoOverflow  \* whether it was on its way or is being sent
    <3>3. pop => ~Fifo!empty
      BY <1>a DEF rd_en
    <3> QED BY <3>1, <3>2, <3>3, QueueClock DEF Fifo!empty
  <2>2. queue \in Seq(Data) /\ rd_data \in Data
    BY DEF IInv, TypeOK, Fifo!TypeOK
  <2>3. rd_data' \in Data
    BY <2>1, <2>2, HeadTailProperties
  <2>4. /\ rest(queue, pop) \in Seq(Data)
        /\ Len(rest(queue, pop)) = Len(queue) - one(pop)
    BY <2>1, <2>2, RestProperties
  <2>5. /\ added(rx, rx_data(d)) \in Seq(Data)
        /\ Len(added(rx, rx_data(d))) = one(rx)
    BY <1>2, AddedProperties
  <2> QED BY <2>1, <2>3, <2>4, <2>5, ConcatProperties
<1>4. credits' = credits - one(tx) + one(cr)
  BY <1>b, <1>c, Lengths DEF Sender, one
<1>5. /\ ret' = ret - one(cr) + one(drain)
      /\ wired => ret' = 0
  BY <1>b, <1>c, Lengths DEF Return, one
<1>6. /\ held' = held + one(pop) - one(drain)
      /\ out_valid' \in BOOLEAN
  BY <1>a, <1>c DEF Receiver, rd_en, credit_drain, held, one, IInv, TypeOK
<1>7. taken' \in Data /\ given' \in Data /\ odd' \in BOOLEAN
  BY <1>a, <1>c DEF History, IInv, TypeOK, Fifo!TypeOK
<1>8. PICK t \in Int, x \in Int, c \in Int, p \in Int, n \in Int :
        /\ t = one(tx) /\ x = one(rx) /\ c = one(cr) /\ p = one(pop) /\ n = one(drain)
        /\ t \in 0 .. 1 /\ c \in 0 .. 1 /\ n \in 0 .. 1
        /\ t = 1 => credits # 0
        /\ c = 1 => ret # 0 \/ n = 1
  BY <1>b DEF one
<1>9. /\ Len(fwd') = Len(fwd) - x + t
      /\ Len(queue') = Len(queue) - p + x
      /\ credits' = credits - t + c
      /\ ret' = ret - c + n
      /\ held' = held + p - n
  BY <1>1, <1>3, <1>4, <1>5, <1>6, <1>8
<1>10. Conservation'
  <2>1. /\ credits \in Int /\ ret \in Int /\ Len(fwd) \in Int
        /\ Len(queue) \in Int /\ held \in Int /\ Depth \in Int
    BY Lengths
  <2>2. credits + Len(fwd) + Len(queue) + held + ret = Depth
    BY DEF IInv, Conservation
  <2>3. (credits - t + c) + (Len(fwd) - x + t) + (Len(queue) - p + x)
          + (held + p - n) + (ret - c + n) = Depth
    BY <2>1, <2>2
  <2> QED BY <1>9, <2>3 DEF Conservation
<1>11. /\ credits' \in Nat /\ ret' \in Nat /\ held' \in 0 .. 1
       /\ Len(fwd') \in Nat /\ Len(queue') \in Nat
  <2>1. credits \in Nat /\ ret \in Nat
    BY Lengths
  <2>2. credits' \in Nat /\ ret' \in Nat
    <3>1. credits - t + c \in Nat /\ ret - c + n \in Nat
      BY <1>8, <2>1
    <3> QED BY <1>9, <3>1
  <2> QED BY <1>1, <1>3, <2>2, LenProperties DEF held
<1>12. credits' <= Depth /\ Len(fwd') <= Depth /\ Len(queue') <= Depth /\ ret' <= Depth
  BY <1>10, <1>11, CreditAssumption DEF Conservation
<1>13. wired' \in BOOLEAN /\ (wired' => fwd' = <<>> /\ ret' = 0)
  BY <1>1, <1>5, <1>c DEF IInv, TypeOK
<1> QED BY <1>1, <1>3, <1>6, <1>7, <1>10, <1>11, <1>12, <1>13, CreditAssumption
        DEF IInv, TypeOK, Fifo!TypeOK

LEMMA NextIInv == IInv /\ [Next]_vars => IInv'
<1> SUFFICES ASSUME IInv, [Next]_vars PROVE IInv'
  OBVIOUS
<1>1. ASSUME NEW sv \in BOOLEAN, NEW fd \in BOOLEAN, NEW rd \in BOOLEAN,
             NEW dr \in BOOLEAN, NEW d \in Data, Edge(sv, d, fd, rd, dr)
      PROVE  IInv'
  BY <1>1, EdgeIInv
<1>2. CASE Reset
  <2>1. /\ credits' = Depth /\ fwd' = <<>> /\ ret' = 0 /\ queue' = <<>>
        /\ rd_data' = Zero /\ out_valid' = FALSE /\ taken' = Zero
        /\ given' = Zero /\ odd' = FALSE /\ wired' = wired
    BY <1>2 DEF Reset, Fifo!Reset
  <2>2. /\ fwd' \in Seq(Data) /\ Len(fwd') = 0
        /\ queue' \in Seq(Data) /\ Len(queue') = 0
    BY <2>1, EmptySeq
  <2>3. Depth \in Nat /\ Zero \in Data
    BY CreditAssumption
  <2>4. TypeOK'
    <3>1. credits' \in 0 .. Depth /\ ret' \in 0 .. Depth /\ Len(fwd') <= Depth
      BY <2>1, <2>2, <2>3
    <3>2. (Fifo!TypeOK)'
      BY <2>1, <2>2, <2>3 DEF Fifo!TypeOK
    <3>3. /\ out_valid' \in BOOLEAN /\ taken' \in Data /\ given' \in Data
          /\ odd' \in BOOLEAN
      BY <2>1, <2>3
    <3>4. wired' \in BOOLEAN /\ (wired' => fwd' = <<>> /\ ret' = 0)
      BY <2>1 DEF IInv, TypeOK
    <3> QED BY <2>2, <3>1, <3>2, <3>3, <3>4 DEF TypeOK
  <2>5. Conservation'
    BY <2>1, <2>2, <2>3 DEF Conservation, held
  <2> QED BY <2>4, <2>5 DEF IInv
<1>3. CASE UNCHANGED vars
  BY <1>3 DEF vars, IInv, TypeOK, Fifo!TypeOK, Conservation, held
<1> QED BY <1>1, <1>2, <1>3 DEF Next

LEMMA LinkKeepsIInv == Spec => []IInv
  BY InitIInv, NextIInv, PTL DEF Spec
-----------------------------------------------------------------------------
\* What the slice holds are beats.
SkOK == sk \in [m : Data \cup {None}, skid : Data \cup {None}]

LEMMA InitSkOK == EgressInit => SkOK
  BY DEF EgressInit, SkOK, Empty

LEMMA NextSkOK == SkOK /\ [EgressNext]_egressVars => SkOK'
<1> SUFFICES ASSUME SkOK, [EgressNext]_egressVars PROVE SkOK'
  OBVIOUS
<1>1. ASSUME NEW beat \in Data \cup {None}, NEW fd \in BOOLEAN, NEW rd \in BOOLEAN,
             NEW dr \in BOOLEAN, EgressEdge(beat, fd, rd, dr)
      PROVE  SkOK'
  BY <1>1 DEF EgressEdge, SkOK, Clocked, NextM, NextSkid, out_free, s_tready
<1>2. CASE EgressReset
  BY <1>2 DEF EgressReset, SkOK, Empty
<1>3. CASE UNCHANGED egressVars
  BY <1>3 DEF egressVars, SkOK
<1> QED BY <1>1, <1>2, <1>3 DEF EgressNext

\* A beat that is not sent might as well be any other.
LEMMA NothingSent ==
    ASSUME NEW d, NEW fd \in BOOLEAN, NEW rd \in BOOLEAN, NEW dr \in BOOLEAN,
           Edge(FALSE, d, fd, rd, dr)
    PROVE  Edge(FALSE, Zero, fd, rd, dr)
<1>1. rx_valid(FALSE, fd) => rx_data(d) = rx_data(Zero)
  BY DEF rx_valid, rx_data
<1>2. Receiver(rx_valid(FALSE, fd), rx_data(d), dr)
        => Receiver(rx_valid(FALSE, fd), rx_data(Zero), dr)
  BY <1>1 DEF Receiver, Fifo!Clock, Fifo!After, Fifo!Added
<1>3. /\ Forward(FALSE, d, rx_valid(FALSE, fd)) => Forward(FALSE, Zero, rx_valid(FALSE, fd))
      /\ History(FALSE, d, dr) => History(FALSE, Zero, dr)
  BY DEF Forward, History
<1> QED BY <1>2, <1>3 DEF Edge

LEMMA StepIsLinkStep == SkOK /\ [EgressNext]_egressVars => [Next]_vars
<1> SUFFICES ASSUME SkOK, [EgressNext]_egressVars PROVE [Next]_vars
  OBVIOUS
<1>1. ASSUME NEW beat \in Data \cup {None}, NEW fd \in BOOLEAN, NEW rd \in BOOLEAN,
             NEW dr \in BOOLEAN, EgressEdge(beat, fd, rd, dr)
      PROVE  Next
  <2>1. Edge(sk.m # None, sk.m, fd, rd, dr)
    BY <1>1 DEF EgressEdge
  <2>2. CASE sk.m # None
    <3>1. sk.m \in Data
      BY <2>2 DEF SkOK
    <3>2. Edge(TRUE, sk.m, fd, rd, dr)
      BY <2>1, <2>2
    <3> QED BY <3>1, <3>2 DEF Next
  <2>3. CASE sk.m = None
    <3>1. Edge(FALSE, Zero, fd, rd, dr)
      BY <2>1, <2>3, NothingSent
    <3> QED BY <3>1, CreditAssumption DEF Next
  <2> QED BY <2>2, <2>3
<1>2. CASE EgressReset
  BY <1>2 DEF EgressReset, Next
<1>3. CASE UNCHANGED egressVars
  BY <1>3 DEF egressVars
<1> QED BY <1>1, <1>2, <1>3 DEF EgressNext

\* The slice takes no step of the link that some source could not have caused: that is
\* how EgressEdge is built, and what carries over what is shown of the link.
LEMMA EgressSteps == EgressSpec => Spec
<1>1. EgressInit => Init
  BY DEF EgressInit
<1> QED BY <1>1, InitSkOK, NextSkOK, StepIsLinkStep, PTL DEF EgressSpec, Spec

\* On the way out of the switch the registers keep to their ranges and no credit is
\* minted or burnt, for every depth, over wires or pipes of any delay (the assertions
\* of credit_sender.sv:43 and credit_link.sv:77).
THEOREM CreditsConserved == EgressSpec => [](TypeOK /\ Conservation)
  BY EgressSteps, LinkKeepsIInv, PTL DEF IInv

\* A beat on its way out always finds room in the receiver (credit_fifo.sv:61).
THEOREM ReceiverNeverOverflows == EgressSpec => []NoOverflow
<1>1. IInv => NoOverflow
  BY Room
<1> QED BY <1>1, EgressSteps, LinkKeepsIInv, PTL
-----------------------------------------------------------------------------
(* What the way out holds, from the MAC back to the switch, is a channel.   *)

Chan == (IF out_valid THEN <<rd_data>> ELSE <<>>) \o queue \o fwd
          \o held_by(sk.m) \o held_by(sk.skid)

\* The place of slack is used only behind a full output.
SkFill == SkOK /\ (sk.skid # None => sk.m # None)

LEMMA Front ==
    ASSUME NEW x \in Data, NEW s \in Seq(Data)
    PROVE  /\ <<x>> \o s \in Seq(Data) /\ <<x>> \o s # <<>>
           /\ Head(<<x>> \o s) = x /\ Tail(<<x>> \o s) = s
<1>1. PICK n \in Nat : n = Len(s)
  BY LenProperties
<1>2. <<x>> \in Seq(Data) /\ Len(<<x>>) = 1 /\ <<x>>[1] = x
  OBVIOUS
<1> DEFINE t == <<x>> \o s
<1>3. /\ t \in Seq(Data) /\ Len(t) = n + 1
      /\ \A i \in 1 .. n + 1 : t[i] = IF i <= 1 THEN x ELSE s[i - 1]
  <2>1. /\ t \in Seq(Data) /\ Len(t) = 1 + n
        /\ \A i \in 1 .. 1 + n : t[i] = IF i <= 1 THEN <<x>>[i] ELSE s[i - 1]
    BY <1>1, <1>2, ConcatProperties
  <2>2. \A i \in 1 .. n + 1 : i <= 1 => i = 1
    OBVIOUS
  <2>3. 1 + n = n + 1
    OBVIOUS
  <2> QED BY <1>2, <2>1, <2>2, <2>3
<1> HIDE DEF t
<1>4. t # <<>>
  BY <1>3, EmptySeq
<1>5. Head(t) = x
  <2>1. Head(t) = t[1] /\ 1 \in 1 .. n + 1
    BY <1>3, <1>4, HeadTailProperties
  <2> QED BY <1>3, <2>1
<1>6. Tail(t) = s
  <2>1. /\ Tail(t) \in Seq(Data) /\ Len(Tail(t)) = n
        /\ \A i \in 1 .. n : Tail(t)[i] = t[i + 1]
    BY <1>3, <1>4, HeadTailProperties
  <2>2. ASSUME NEW i \in 1 .. n PROVE Tail(t)[i] = s[i]
    <3>1. i + 1 \in 1 .. n + 1 /\ ~(i + 1 <= 1) /\ (i + 1) - 1 = i
      OBVIOUS
    <3> QED BY <1>3, <2>1, <3>1
  <2> QED BY <1>1, <2>1, <2>2, SeqEqual
<1> QED BY <1>3, <1>4, <1>5, <1>6 DEF t

LEMMA HeadAndTail ==
    ASSUME NEW s \in Seq(Data), s # <<>>
    PROVE  Head(s) \in Data /\ Tail(s) \in Seq(Data) /\ s = <<Head(s)>> \o Tail(s)
<1>1. Head(s) \in Data /\ Tail(s) \in Seq(Data)
  BY HeadTailProperties
<1>2. PICK n \in Nat : n = Len(s) /\ n >= 1
  BY LenProperties, EmptySeq
<1> DEFINE t == <<Head(s)>> \o Tail(s)
<1>3. t \in Seq(Data) /\ Head(t) = Head(s) /\ Tail(t) = Tail(s) /\ t # <<>>
  BY <1>1, Front
<1> HIDE DEF t
<1>4. Len(t) = n
  BY <1>2, <1>3, HeadTailProperties
<1>5. ASSUME NEW i \in 1 .. n PROVE t[i] = s[i]
  <2>1. CASE i = 1
    BY <1>2, <1>3, <2>1, HeadTailProperties
  <2>2. CASE i # 1
    <3>1. i - 1 \in 1 .. n - 1 /\ (i - 1) + 1 = i
      BY <2>2
    <3>2. /\ \A k \in 1 .. n - 1 : Tail(s)[k] = s[k + 1]
          /\ \A k \in 1 .. n - 1 : Tail(t)[k] = t[k + 1]
      BY <1>2, <1>3, <1>4, HeadTailProperties
    <3> QED BY <1>3, <3>1, <3>2
  <2> QED BY <2>1, <2>2
<1>6. t = s
  BY <1>2, <1>3, <1>4, <1>5, SeqEqual
<1> QED BY <1>1, <1>6 DEF t

\* Concatenation as a name: the provers regroup names more readily than sequences.
Cat(s, t) == s \o t

LEMMA Assoc == \A s, t, u \in Seq(Data) : Cat(Cat(s, t), u) = Cat(s, Cat(t, u))
  BY ConcatAssociative DEF Cat

\* A pipe that is read and written gives what it holds with what enters behind it.
LEMMA PipeMoves ==
    ASSUME NEW q \in Seq(Data), NEW out \in BOOLEAN, out => q # <<>>, NEW b \in Seq(Data)
    PROVE  added(out, Head(q)) \o (rest(q, out) \o b) = q \o b
<1>1. CASE out
  <2>1. Head(q) \in Data /\ Tail(q) \in Seq(Data) /\ q = <<Head(q)>> \o Tail(q)
    BY <1>1, HeadAndTail
  <2>2. <<Head(q)>> \in Seq(Data)
    BY <2>1
  <2>3. (<<Head(q)>> \o Tail(q)) \o b = <<Head(q)>> \o (Tail(q) \o b)
    <3>1. Cat(Cat(<<Head(q)>>, Tail(q)), b) = Cat(<<Head(q)>>, Cat(Tail(q), b))
      BY <2>1, <2>2, Assoc
    <3> QED BY <3>1 DEF Cat
  <2> QED BY <1>1, <2>1, <2>3 DEF added, rest
<1>2. CASE ~out
  BY <1>2, ConcatProperties, ConcatEmptySeq DEF added, rest
<1> QED BY <1>1, <1>2

LEMMA HeldType == ASSUME NEW b \in Data \cup {None}
                  PROVE  /\ held_by(b) \in Seq(Data)
                         /\ Len(held_by(b)) = IF b = None THEN 0 ELSE 1
  BY EmptySeq DEF held_by

\* The slice over one edge: what is sent on, then what it holds, is what it held, then
\* what it accepts (axis_skid.sv:30-46).
LEMMA SliceMoves ==
    ASSUME SkFill, NEW beat \in Data \cup {None}, NEW ready \in BOOLEAN,
           sk' = Clocked(sk, beat, ready)
    PROVE  /\ SkFill'
           /\ added(sk.m # None /\ ready, sk.m) \o (held_by(sk.m)' \o held_by(sk.skid)') =
                (held_by(sk.m) \o held_by(sk.skid))
                  \o added(beat # None /\ s_tready(sk), beat)
<1>1. /\ sk'.m = NextM(sk, beat, ready) /\ sk'.skid = NextSkid(sk, beat, ready)
      /\ sk' = [m |-> sk'.m, skid |-> sk'.skid]
  BY DEF Clocked
<1>2. /\ sk.m \in Data \cup {None} /\ sk.skid \in Data \cup {None}
      /\ sk.skid # None => sk.m # None
  BY DEF SkFill, SkOK
<1>3. \A b \in Data \cup {None} : /\ held_by(b) \in Seq(Data)
                                  /\ held_by(b) \o <<>> = held_by(b)
                                  /\ <<>> \o held_by(b) = held_by(b)
  BY HeldType, ConcatEmptySeq
<1>4. held_by(None) = <<>> /\ \A b \in Data : held_by(b) = <<b>>
  BY EgressAssumption DEF held_by
<1>5. <<>> \o <<>> = <<>>
  BY <1>3, <1>4
<1>6. CASE sk.m = None
  <2>1. sk.skid = None /\ sk'.m = beat /\ sk'.skid = None
    BY <1>1, <1>2, <1>6 DEF NextM, NextSkid, out_free, s_tready
  <2>2. /\ added(sk.m # None /\ ready, sk.m) = <<>>
        /\ added(beat # None /\ s_tready(sk), beat) = held_by(beat)
    BY <1>6, <2>1 DEF added, held_by, s_tready
  <2>3. /\ held_by(sk.m) = <<>> /\ held_by(sk.skid) = <<>>
        /\ held_by(sk.m)' = held_by(beat) /\ held_by(sk.skid)' = <<>>
    BY <1>4, <1>6, <2>1 DEF held_by
  <2>4. SkFill'
    BY <1>1, <2>1 DEF SkFill, SkOK
  <2> QED BY <1>3, <1>5, <2>2, <2>3, <2>4
<1>7. CASE sk.m # None /\ ready
  <2>1. added(sk.m # None /\ ready, sk.m) = held_by(sk.m)
    BY <1>7 DEF added, held_by
  <2>2. CASE sk.skid # None
    <3>1. sk'.m = sk.skid /\ sk'.skid = None
      BY <1>1, <1>7, <2>2 DEF NextM, NextSkid, out_free, s_tready
    <3>2. /\ held_by(sk.m)' = held_by(sk.skid) /\ held_by(sk.skid)' = <<>>
          /\ added(beat # None /\ s_tready(sk), beat) = <<>>
      BY <2>2, <3>1 DEF held_by, added, s_tready
    <3>3. SkFill'
      BY <1>1, <1>2, <3>1 DEF SkFill, SkOK
    <3>4. held_by(sk.m) \o held_by(sk.skid) \in Seq(Data)
      BY <1>2, <1>3, ConcatProperties
    <3>5. (held_by(sk.m) \o held_by(sk.skid)) \o <<>> = held_by(sk.m) \o held_by(sk.skid)
      BY <3>4, ConcatEmptySeq
    <3>6. held_by(sk.skid) \o <<>> = held_by(sk.skid)
      BY <1>2, <1>3
    <3> QED BY <2>1, <3>2, <3>3, <3>5, <3>6
  <2>3. CASE sk.skid = None
    <3>1. sk'.m = beat /\ sk'.skid = None
      BY <1>1, <1>7, <2>3 DEF NextM, NextSkid, out_free, s_tready
    <3>2. /\ held_by(sk.m)' = held_by(beat) /\ held_by(sk.skid)' = <<>>
          /\ added(beat # None /\ s_tready(sk), beat) = held_by(beat)
          /\ held_by(sk.skid) = <<>>
      BY <1>4, <2>3, <3>1 DEF held_by, added, s_tready
    <3>3. SkFill'
      BY <1>1, <3>1 DEF SkFill, SkOK
    <3>4. held_by(beat) \o <<>> = held_by(beat) /\ held_by(sk.m) \o <<>> = held_by(sk.m)
      BY <1>2, <1>3
    <3> QED BY <2>1, <3>2, <3>3, <3>4
  <2> QED BY <2>2, <2>3
<1>8. CASE sk.m # None /\ ~ready
  <2>1. /\ sk'.m = sk.m
        /\ sk'.skid = IF beat # None /\ s_tready(sk) THEN beat ELSE sk.skid
    BY <1>1, <1>8 DEF NextM, NextSkid, out_free
  <2>2. /\ added(sk.m # None /\ ready, sk.m) = <<>> /\ held_by(sk.m)' = held_by(sk.m)
    BY <1>8, <2>1 DEF added, held_by
  <2>3. held_by(sk.skid)' = held_by(sk.skid) \o added(beat # None /\ s_tready(sk), beat)
    <3>1. CASE beat # None /\ s_tready(sk)
      <4>1. /\ held_by(sk.skid)' = held_by(beat) /\ held_by(sk.skid) = <<>>
            /\ added(beat # None /\ s_tready(sk), beat) = held_by(beat)
        BY <1>4, <2>1, <3>1 DEF held_by, added, s_tready
      <4> QED BY <1>3, <4>1
    <3>2. CASE ~(beat # None /\ s_tready(sk))
      <4>1. /\ held_by(sk.skid)' = held_by(sk.skid)
            /\ added(beat # None /\ s_tready(sk), beat) = <<>>
        BY <2>1, <3>2 DEF held_by, added
      <4> QED BY <1>2, <1>3, <4>1
    <3> QED BY <3>1, <3>2
  <2>4. SkFill'
    BY <1>1, <1>2, <1>8, <2>1 DEF SkFill, SkOK
  <2>5. added(beat # None /\ s_tready(sk), beat) \in Seq(Data)
    <3>1. beat # None => beat \in Data
      OBVIOUS
    <3> QED BY <3>1, AddedProperties
  <2>6. held_by(sk.m) \o (held_by(sk.skid) \o added(beat # None /\ s_tready(sk), beat))
          = (held_by(sk.m) \o held_by(sk.skid)) \o added(beat # None /\ s_tready(sk), beat)
    <3> DEFINE a == held_by(sk.m)
               b == held_by(sk.skid)
               c == added(beat # None /\ s_tready(sk), beat)
    <3>1. a \in Seq(Data) /\ b \in Seq(Data) /\ c \in Seq(Data)
      BY <1>2, <1>3, <2>5
    <3> HIDE DEF a, b, c
    <3>2. Cat(Cat(a, b), c) = Cat(a, Cat(b, c))
      BY <3>1, Assoc
    <3> QED BY <3>2 DEF Cat, a, b, c
  <2>7. held_by(sk.m)' \o held_by(sk.skid)' \in Seq(Data)
    BY <2>4, HeldType, ConcatProperties DEF SkFill, SkOK, held_by
  <2> QED BY <2>2, <2>3, <2>4, <2>6, <2>7, ConcatEmptySeq
<1> QED BY <1>6, <1>7, <1>8

\* The credit link over one edge: what the MAC takes leaves at the front, what the slice
\* sends comes in behind.
LEMMA LinkMoves ==
    ASSUME IInv, NEW sv \in BOOLEAN, NEW d, NEW fd \in BOOLEAN, NEW rd \in BOOLEAN,
           NEW dr \in BOOLEAN, Edge(sv, d, fd, rd, dr), sv => d \in Data
    PROVE  (IF out_valid THEN <<rd_data>> ELSE <<>>)' \o queue' \o fwd' =
             (IF out_valid /\ ~dr THEN <<rd_data>> ELSE <<>>) \o queue \o fwd
               \o added(sv /\ src_ready, d)
<1> DEFINE A == IF out_valid THEN <<rd_data>> ELSE <<>>
           R == IF out_valid /\ ~dr THEN <<rd_data>> ELSE <<>>
<1>1. PICK tx \in BOOLEAN, rx \in BOOLEAN, pop \in BOOLEAN :
        /\ tx = (sv /\ src_ready)
        /\ rx = rx_valid(tx, fd)
        /\ pop = rd_en(dr)
  BY DEF IInv, TypeOK, rd_en, src_ready, rx_valid
<1>2. /\ tx => credits # 0 /\ d \in Data
      /\ IF wired THEN rx = tx /\ fwd = <<>> ELSE rx => fwd # <<>>
  BY <1>1 DEF src_ready, rx_valid, IInv, TypeOK
<1>3. /\ Forward(tx, d, rx) /\ Receiver(rx, rx_data(d), dr) /\ wired' = wired
  BY <1>1 DEF Edge
<1>4. /\ fwd \in Seq(Data) /\ queue \in Seq(Data) /\ rd_data \in Data /\ out_valid \in BOOLEAN
  BY DEF IInv, TypeOK, Fifo!TypeOK
<1> DEFINE X == added(rx, rx_data(d))
           Y == added(tx, d)
<1>5. rx => rx_data(d) \in Data
  BY <1>2, <1>4, HeadTailProperties DEF rx_data
<1>6. X \in Seq(Data) /\ Y \in Seq(Data) /\ R \in Seq(Data) /\ <<>> \in Seq(Data)
  <2>1. X \in Seq(Data) /\ Y \in Seq(Data)
    BY <1>2, <1>5, AddedProperties
  <2>2. <<rd_data>> \in Seq(Data) /\ <<>> \in Seq(Data)
    BY <1>4, EmptySeq
  <2> QED BY <2>1, <2>2
<1>7. /\ queue' = rest(queue, pop) \o X
      /\ rd_data' = IF pop THEN Head(queue) ELSE rd_data
      /\ pop => queue # <<>> /\ (~out_valid \/ dr)
      /\ out_valid' = (pop \/ (out_valid /\ ~dr))
  <2>1. Fifo!Clock(rx, rx_data(d), pop) /\ out_valid' = (pop \/ (out_valid /\ ~dr))
    BY <1>1, <1>3 DEF Receiver
  <2>2. rx => ~Fifo!full
    BY <1>2, Room DEF NoOverflow
  <2>3. pop => ~Fifo!empty /\ (~out_valid \/ dr)
    BY <1>1 DEF rd_en
  <2> QED BY <2>1, <2>2, <2>3, QueueClock DEF Fifo!empty
\* The read port.
<1>8. A' \o queue' = R \o (queue \o X)
  <2>1. CASE pop
    <3>1. A' = added(pop, Head(queue)) /\ R = <<>>
      BY <1>7, <2>1 DEF added
    <3>2. added(pop, Head(queue)) \o (rest(queue, pop) \o X) = queue \o X
      BY <1>4, <1>6, <1>7, PipeMoves
    <3>3. queue \o X \in Seq(Data)
      BY <1>4, <1>6, ConcatProperties
    <3>4. <<>> \o (queue \o X) = queue \o X
      BY <3>3, ConcatEmptySeq
    <3> QED BY <1>7, <3>1, <3>2, <3>4
  <2>2. CASE ~pop
    <3>1. A' = R /\ queue' = queue \o X
      BY <1>7, <2>2 DEF rest
    <3> QED BY <3>1
  <2> QED BY <2>1, <2>2
\* The pipe or the wire.
<1>9. X \o fwd' = fwd \o Y /\ fwd' \in Seq(Data)
  <2>1. CASE wired
    <3>1. fwd' = <<>> /\ fwd = <<>> /\ X = Y
      BY <1>2, <1>3, <2>1 DEF Forward, added, rx_data
    <3> QED BY <1>6, <3>1, ConcatEmptySeq
  <2>2. CASE ~wired
    <3>1. fwd' = rest(fwd, rx) \o Y /\ X = added(rx, Head(fwd))
      BY <1>3, <2>2 DEF Forward, rest, added, rx_data
    <3>2. rx => fwd # <<>>
      BY <1>2, <2>2
    <3>3. rest(fwd, rx) \in Seq(Data)
      BY <1>4, <3>2, RestProperties
    <3>4. added(rx, Head(fwd)) \o (rest(fwd, rx) \o Y) = fwd \o Y
      BY <1>4, <1>6, <3>2, PipeMoves
    <3>5. rest(fwd, rx) \o Y \in Seq(Data)
      BY <1>6, <3>3, ConcatProperties
    <3> QED BY <3>1, <3>4, <3>5
  <2> QED BY <2>1, <2>2
<1> HIDE DEF A, R, X, Y
<1>10. (A' \o queue') \o fwd' = ((R \o queue) \o fwd) \o Y
  <2> DEFINE P == R \o queue
  <2>1. P \in Seq(Data)
    BY <1>4, <1>6, ConcatProperties
  <2>2. R \o (queue \o X) = P \o X
    <3>1. queue \in Seq(Data) /\ R \in Seq(Data) /\ X \in Seq(Data)
      BY <1>4, <1>6
    <3>2. Cat(Cat(R, queue), X) = Cat(R, Cat(queue, X))
      BY <3>1, Assoc
    <3> QED BY <3>2 DEF Cat
  <2> HIDE DEF P
  <2>3. (P \o X) \o fwd' = P \o (X \o fwd')
    <3>1. fwd' \in Seq(Data) /\ X \in Seq(Data)
      BY <1>6, <1>9
    <3>2. Cat(Cat(P, X), fwd') = Cat(P, Cat(X, fwd'))
      BY <2>1, <3>1, Assoc
    <3> QED BY <3>2 DEF Cat
  <2>4. P \o (fwd \o Y) = (P \o fwd) \o Y
    <3>1. fwd \in Seq(Data) /\ Y \in Seq(Data)
      BY <1>4, <1>6
    <3>2. Cat(Cat(P, fwd), Y) = Cat(P, Cat(fwd, Y))
      BY <2>1, <3>1, Assoc
    <3> QED BY <3>2 DEF Cat
  <2> QED BY <1>8, <1>9, <2>2, <2>3, <2>4 DEF P
<1> QED BY <1>1, <1>10 DEF A, R, Y

LEMMA Joined == \A s, t \in Seq(Data) : s \o t \in Seq(Data) /\ Len(s \o t) = Len(s) + Len(t)
  BY ConcatProperties

\* What the MAC leaves.
Kept(dr) == (IF out_valid /\ ~dr THEN <<rd_data>> ELSE <<>>) \o queue \o fwd
              \o held_by(sk.m) \o held_by(sk.skid)

\* All of the way out over one edge: one end gives its oldest beat or not, the other
\* accepts one or not, and then there was room for it.
LEMMA ChanMoves ==
    ASSUME IInv, SkFill, NEW beat \in Data \cup {None}, NEW fd \in BOOLEAN, NEW rd \in BOOLEAN,
           NEW dr \in BOOLEAN, EgressEdge(beat, fd, rd, dr)
    PROVE  /\ SkFill' /\ Kept(dr) \in Seq(Data)
           /\ Chan' = Kept(dr) \o added(beat # None /\ s_tready(sk), beat)
           /\ Chan = added(credit_drain(dr), rd_data) \o Kept(dr)
           /\ beat # None /\ s_tready(sk) => Len(Chan) < Depth + 2
<1> DEFINE A == IF out_valid THEN <<rd_data>> ELSE <<>>
           R == IF out_valid /\ ~dr THEN <<rd_data>> ELSE <<>>
           M == held_by(sk.m)
           S == held_by(sk.skid)
           Y == added(sk.m # None /\ src_ready, sk.m)
           Z == added(beat # None /\ s_tready(sk), beat)
           Q == queue
           F == fwd
<1>1. /\ Q \in Seq(Data) /\ F \in Seq(Data) /\ rd_data \in Data /\ out_valid \in BOOLEAN
      /\ src_ready \in BOOLEAN
      /\ sk.m \in Data \cup {None} /\ sk.skid \in Data \cup {None}
      /\ sk.skid # None => sk.m # None
  BY DEF IInv, TypeOK, Fifo!TypeOK, SkFill, SkOK, src_ready
<1>2. /\ SkFill'
      /\ Y \o (M' \o S') = (M \o S) \o Z
  BY <1>1, SliceMoves DEF EgressEdge
<1>3. (A' \o Q') \o F' = ((R \o Q) \o F) \o Y
  <2>1. Edge(sk.m # None, sk.m, fd, rd, dr)
    BY DEF EgressEdge
  <2>2. sk.m # None => sk.m \in Data
    BY <1>1
  <2>3. (sk.m # None) \in BOOLEAN
    OBVIOUS
  <2>5. PICK sv \in BOOLEAN, d \in Data \cup {None} : sv = (sk.m # None) /\ d = sk.m
    BY <1>1, <2>3
  <2>6. Edge(sv, d, fd, rd, dr) /\ (sv => d \in Data)
    BY <2>1, <2>2, <2>5
  <2>7. (IF out_valid THEN <<rd_data>> ELSE <<>>)' \o queue' \o fwd' =
             (IF out_valid /\ ~dr THEN <<rd_data>> ELSE <<>>) \o queue \o fwd
               \o added(sv /\ src_ready, d)
    BY <2>6, LinkMoves
  <2>4. (IF out_valid THEN <<rd_data>> ELSE <<>>)' \o queue' \o fwd' =
             (IF out_valid /\ ~dr THEN <<rd_data>> ELSE <<>>) \o queue \o fwd
               \o added(sk.m # None /\ src_ready, sk.m)
    BY <2>5, <2>7
  <2> QED BY <2>4
<1>4. /\ M \in Seq(Data) /\ S \in Seq(Data) /\ M' \in Seq(Data) /\ S' \in Seq(Data)
      /\ Len(M) = (IF sk.m = None THEN 0 ELSE 1) /\ Len(S) = (IF sk.skid = None THEN 0 ELSE 1)
  <2>1. sk'.m \in Data \cup {None} /\ sk'.skid \in Data \cup {None}
    BY <1>2 DEF SkFill, SkOK
  <2> QED BY <1>1, <2>1, HeldType DEF held_by
<1>5. /\ R \in Seq(Data) /\ A \in Seq(Data) /\ <<>> \in Seq(Data) /\ <<rd_data>> \in Seq(Data)
      /\ Len(A) = held
  BY <1>1, EmptySeq DEF held
<1>6. Y \in Seq(Data) /\ Z \in Seq(Data)
  <2>1. /\ sk.m # None /\ src_ready => sk.m \in Data
        /\ beat # None /\ s_tready(sk) => beat \in Data
    BY <1>1
  <2>2. /\ (sk.m # None /\ src_ready) \in BOOLEAN
        /\ (beat # None /\ s_tready(sk)) \in BOOLEAN
    OBVIOUS
  <2> QED BY <2>1, <2>2, AddedProperties
<1>7. /\ Chan = (((A \o Q) \o F) \o M) \o S
      /\ Chan' = (((A' \o Q') \o F') \o M') \o S'
      /\ Kept(dr) = (((R \o Q) \o F) \o M) \o S
  BY DEF Chan, Kept
<1>8. added(credit_drain(dr), rd_data) \o R = A /\ added(credit_drain(dr), rd_data) \in Seq(Data)
  <2>1. <<>> \o R = R /\ <<rd_data>> \o <<>> = <<rd_data>>
    BY <1>5, ConcatEmptySeq
  <2>2. CASE out_valid /\ dr
    BY <1>5, <2>1, <2>2 DEF added, credit_drain
  <2>3. CASE ~(out_valid /\ dr)
    BY <1>5, <2>1, <2>3 DEF added, credit_drain
  <2> QED BY <2>2, <2>3
<1> HIDE DEF A, R, M, S, Y, Z, Q, F
<1> DEFINE B == (R \o Q) \o F
           W == added(credit_drain(dr), rd_data)
<1>9. R \o Q \in Seq(Data) /\ B \in Seq(Data)
  <2>1. R \o Q \in Seq(Data)
    BY <1>1, <1>5, Joined
  <2> QED BY <1>1, <2>1, Joined
<1>10. B \o M \in Seq(Data) /\ (B \o M) \o S \in Seq(Data)
  <2>1. B \o M \in Seq(Data)
    BY <1>4, <1>9, Joined
  <2> QED BY <1>4, <2>1, Joined
<1>14. M \in Seq(Data) /\ S \in Seq(Data) /\ M' \in Seq(Data) /\ S' \in Seq(Data)
  BY <1>4
<1>15. Y \in Seq(Data) /\ Z \in Seq(Data) /\ B \in Seq(Data)
  BY <1>6, <1>9
<1>11. Chan' = ((B \o M) \o S) \o Z
  <2> HIDE DEF B
  <2>1. B \o Y \in Seq(Data) /\ M' \o S' \in Seq(Data) /\ M \o S \in Seq(Data)
    BY <1>14, <1>15, Joined
  <2>2. ((B \o Y) \o M') \o S' = (B \o Y) \o (M' \o S')
    <3> DEFINE p == B \o Y
    <3>1. p \in Seq(Data) /\ M' \in Seq(Data) /\ S' \in Seq(Data)
      BY <1>14, <2>1
    <3> HIDE DEF p
    <3>2. Cat(Cat(p, M'), S') = Cat(p, Cat(M', S'))
      BY <3>1, Assoc
    <3> QED BY <3>2 DEF Cat, p
  <2>3. (B \o Y) \o (M' \o S') = B \o (Y \o (M' \o S'))
    <3> DEFINE r == M' \o S'
    <3>1. B \in Seq(Data) /\ Y \in Seq(Data) /\ r \in Seq(Data)
      BY <1>15, <2>1
    <3> HIDE DEF r
    <3>2. Cat(Cat(B, Y), r) = Cat(B, Cat(Y, r))
      BY <3>1, Assoc
    <3> QED BY <3>2 DEF Cat, r
  <2>4. B \o ((M \o S) \o Z) = (B \o (M \o S)) \o Z
    <3> DEFINE q == M \o S
    <3>1. B \in Seq(Data) /\ q \in Seq(Data) /\ Z \in Seq(Data)
      BY <1>15, <2>1
    <3> HIDE DEF q
    <3>2. Cat(Cat(B, q), Z) = Cat(B, Cat(q, Z))
      BY <3>1, Assoc
    <3> QED BY <3>2 DEF Cat, q
  <2>5. B \o (M \o S) = (B \o M) \o S
    <3>1. B \in Seq(Data) /\ M \in Seq(Data) /\ S \in Seq(Data)
      BY <1>14, <1>15
    <3>2. Cat(Cat(B, M), S) = Cat(B, Cat(M, S))
      BY <3>1, Assoc
    <3> QED BY <3>2 DEF Cat
  <2>6. (A' \o Q') \o F' = B \o Y
    BY <1>3 DEF B
  <2> QED BY <1>2, <1>7, <2>2, <2>3, <2>4, <2>5, <2>6
<1>12. Chan = W \o ((B \o M) \o S)
  <2> HIDE DEF B, W
  <2>1. W \in Seq(Data) /\ W \o R = A
    BY <1>8 DEF W
  <2>2. A \o Q = W \o (R \o Q)
    <3>1. W \in Seq(Data) /\ R \in Seq(Data) /\ Q \in Seq(Data)
      BY <1>1, <1>5, <2>1
    <3>2. Cat(Cat(W, R), Q) = Cat(W, Cat(R, Q))
      BY <3>1, Assoc
    <3> QED BY <2>1, <3>2 DEF Cat
  <2>3. (W \o (R \o Q)) \o F = W \o ((R \o Q) \o F)
    <3> DEFINE q == R \o Q
    <3>1. W \in Seq(Data) /\ q \in Seq(Data) /\ F \in Seq(Data)
      BY <1>1, <1>9, <2>1
    <3> HIDE DEF q
    <3>2. Cat(Cat(W, q), F) = Cat(W, Cat(q, F))
      BY <3>1, Assoc
    <3> QED BY <3>2 DEF Cat, q
  <2>4. (A \o Q) \o F = W \o B
    BY <2>2, <2>3 DEF B
  <2>5. (W \o B) \o M = W \o (B \o M)
    <3>1. W \in Seq(Data) /\ B \in Seq(Data) /\ M \in Seq(Data)
      BY <1>14, <1>9, <2>1
    <3>2. Cat(Cat(W, B), M) = Cat(W, Cat(B, M))
      BY <3>1, Assoc
    <3> QED BY <3>2 DEF Cat
  <2>6. (W \o (B \o M)) \o S = W \o ((B \o M) \o S)
    <3> DEFINE q == B \o M
    <3>1. W \in Seq(Data) /\ q \in Seq(Data) /\ S \in Seq(Data)
      BY <1>14, <1>10, <2>1
    <3> HIDE DEF q
    <3>2. Cat(Cat(W, q), S) = Cat(W, Cat(q, S))
      BY <3>1, Assoc
    <3> QED BY <3>2 DEF Cat, q
  <2> QED BY <1>7, <2>4, <2>5, <2>6
<1>13. ASSUME beat # None, s_tready(sk) PROVE Len(Chan) < Depth + 2
  <2>1. Len(S) = 0 /\ Len(M) \in 0 .. 1
    BY <1>4, <1>13 DEF s_tready
  <2>2. A \o Q \in Seq(Data) /\ Len(A \o Q) = held + Len(Q)
    BY <1>1, <1>5, Joined
  <2>3. (A \o Q) \o F \in Seq(Data) /\ Len((A \o Q) \o F) = Len(A \o Q) + Len(F)
    BY <1>1, <2>2, Joined
  <2>4. ((A \o Q) \o F) \o M \in Seq(Data)
        /\ Len(((A \o Q) \o F) \o M) = Len((A \o Q) \o F) + Len(M)
    BY <1>4, <2>3, Joined
  <2>5. Len(Chan) = Len(((A \o Q) \o F) \o M) + Len(S)
    BY <1>7, <1>14, <2>4, Joined
  <2>6. PICK h \in Int, n \in Int, m \in 0 .. 1, f \in Int, e \in Nat, t \in Nat :
          /\ h = held /\ n = Len(Q) /\ f = Len(F) /\ m = Len(M) /\ e = credits /\ t = ret
    BY <2>1, Lengths DEF Q, F
  <2>7. e + f + n + h + t = Depth /\ Depth \in Nat
    BY <2>6, CreditAssumption DEF IInv, Conservation, Q, F
  <2>8. Len(Chan) = h + n + f + m + 0
    BY <2>1, <2>2, <2>3, <2>4, <2>5, <2>6
  <2>9. h + n + f + m < Depth + 2
    <3>1. h + n + f = Depth - e - t /\ e >= 0 /\ t >= 0 /\ m <= 1
      BY <2>6, <2>7
    <3>2. h \in Int /\ n \in Int /\ f \in Int /\ m \in Int /\ e \in Int /\ t \in Int /\ Depth \in Int
      BY <2>6, <2>7
    <3> QED BY <3>1, <3>2
  <2> QED BY <2>6, <2>8, <2>9
<1> QED BY <1>2, <1>7, <1>10, <1>11, <1>12, <1>13 DEF Z, B, W

\* Each edge is a step of the channel.
LEMMA StepIsChannelStep ==
    ASSUME IInv, SkFill, [EgressNext]_egressVars
    PROVE  SkFill' /\ [Link!Next]_Link!vars
<1>1. ASSUME NEW beat \in Data \cup {None}, NEW fd \in BOOLEAN, NEW rd \in BOOLEAN,
             NEW dr \in BOOLEAN, EgressEdge(beat, fd, rd, dr)
      PROVE  SkFill' /\ [Link!Next]_Link!vars
  <2> DEFINE acc   == beat # None /\ s_tready(sk)
             drain == credit_drain(dr)
             K     == Kept(dr)
  <2>1. /\ SkFill' /\ K \in Seq(Data)
        /\ Chan' = K \o added(acc, beat)
        /\ Chan = added(drain, rd_data) \o K
        /\ acc => Len(Chan) < Depth + 2
    BY <1>1, ChanMoves
  <2>2. /\ entered' = (IF acc THEN beat ELSE entered)
        /\ given' = (IF drain THEN rd_data ELSE given)
        /\ odd' = (odd # drain)
    BY <1>1 DEF EgressEdge, Edge, History
  <2>3. /\ rd_data \in Data /\ odd \in BOOLEAN /\ drain \in BOOLEAN /\ acc \in BOOLEAN
        /\ acc => beat \in Data
    BY DEF IInv, TypeOK, Fifo!TypeOK, credit_drain
  <2> HIDE DEF acc, drain, K
  <2>4. /\ drain => Chan # <<>> /\ Head(Chan) = rd_data /\ Tail(Chan) = K
        /\ ~drain => Chan = K
    BY <2>1, <2>3, Front, ConcatEmptySeq DEF added
  <2>5. /\ acc => Chan' = Append(K, beat)
        /\ ~acc => Chan' = K
    BY <2>1, <2>3, AppendIsConcat, ConcatEmptySeq DEF added
  <2>6. /\ drain => odd' = ~odd
        /\ ~drain => odd' = odd
    BY <2>2, <2>3
  <2>7. CASE acc /\ drain
    <3>1. Link!Both(beat)
      BY <2>2, <2>4, <2>5, <2>6, <2>7 DEF Link!Both, Chan
    <3> QED BY <2>1, <2>3, <2>7, <3>1 DEF Link!Next
  <2>8. CASE acc /\ ~drain
    <3>1. Link!Accept(beat)
      BY <2>1, <2>2, <2>4, <2>5, <2>6, <2>8 DEF Link!Accept, Chan
    <3> QED BY <2>1, <2>3, <2>8, <3>1 DEF Link!Next
  <2>9. CASE ~acc /\ drain
    <3>1. Link!Deliver
      BY <2>2, <2>4, <2>5, <2>6, <2>9 DEF Link!Deliver, Chan
    <3> QED BY <2>1, <3>1 DEF Link!Next
  <2>10. CASE ~acc /\ ~drain
    <3>1. UNCHANGED Link!vars
      BY <2>2, <2>4, <2>5, <2>6, <2>10 DEF Link!vars, Chan
    <3> QED BY <2>1, <3>1
  <2> QED BY <2>7, <2>8, <2>9, <2>10
<1>2. CASE EgressReset
  <2>1. /\ fwd' = <<>> /\ queue' = <<>> /\ out_valid' = FALSE /\ entered' = Zero
        /\ given' = Zero /\ odd' = FALSE /\ sk' = Empty
    BY <1>2 DEF EgressReset, Reset, Fifo!Reset
  <2>2. Chan' = <<>>
    <3>1. <<>> \o <<>> = <<>>
      BY EmptySeq, ConcatEmptySeq
    <3>2. held_by(sk.m)' = <<>> /\ held_by(sk.skid)' = <<>>
      BY <2>1 DEF Empty, held_by
    <3> QED BY <2>1, <3>1, <3>2 DEF Chan
  <2>3. SkFill'
    BY <2>1 DEF SkFill, SkOK, Empty
  <2>4. Link!Reset
    BY <2>1, <2>2 DEF Link!Reset, Chan
  <2> QED BY <2>3, <2>4 DEF Link!Next
<1>3. CASE UNCHANGED egressVars
  BY <1>3 DEF egressVars, vars, SkFill, SkOK, Link!vars, held_by
<1> QED BY <1>1, <1>2, <1>3 DEF EgressNext

\* From the switch to the MAC the beats pass through an ordered, lossless channel, for
\* every number of credits, over wires or pipes of any delay (axis_skid.sv:30-46,
\* credit_sender.sv:24-31, credit_fifo.sv:33-53).
THEOREM EgressIsChannel == EgressSpec => RefinesLink
<1>1. EgressInit => IInv /\ SkFill /\ Link!Init
  <2> SUFFICES ASSUME EgressInit PROVE IInv /\ SkFill /\ Link!Init
    OBVIOUS
  <2>1. Init /\ sk = Empty /\ entered = Zero
    BY DEF EgressInit
  <2>2. SkFill
    BY <2>1 DEF SkFill, SkOK, Empty
  <2>3. held_by(sk.m) = <<>> /\ held_by(sk.skid) = <<>>
    BY <2>1 DEF Empty, held_by
  <2>4. <<>> \o <<>> = <<>>
    BY EmptySeq, ConcatEmptySeq
  <2>5. /\ fwd = <<>> /\ queue = <<>> /\ out_valid = FALSE /\ given = Zero /\ odd = FALSE
    BY <2>1 DEF Init, Fifo!Init
  <2>6. Link!Init
    BY <2>1, <2>3, <2>4, <2>5 DEF Link!Init
  <2> QED BY <2>1, <2>2, <2>6, InitIInv
<1>2. IInv /\ SkFill /\ [EgressNext]_egressVars => IInv' /\ SkFill' /\ [Link!Next]_Link!vars
  <2> SUFFICES ASSUME IInv, SkFill, [EgressNext]_egressVars
               PROVE  IInv' /\ SkFill' /\ [Link!Next]_Link!vars
    OBVIOUS
  <2>1. IInv'
    BY StepIsLinkStep, NextIInv DEF SkFill
  <2> QED BY <2>1, StepIsChannelStep
<1> QED BY <1>1, <1>2, PTL DEF EgressSpec, RefinesLink, Link!Spec
=============================================================================
