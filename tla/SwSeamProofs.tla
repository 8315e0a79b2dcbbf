---------------------------- MODULE SwSeamProofs ----------------------------
(***************************************************************************)
(* Proofs about the switch and about its seam with the voqs, for every     *)
(* number of inputs and outputs, depth and frame length.                   *)
(***************************************************************************)
EXTENDS SwSeam, RrArbiter, FiniteSetTheorems, SequenceTheorems, WellFoundedInduction, TLAPS

\* A round-robin grant is one of the requests, and the only one.
LEMMA GrantProperties ==
    ASSUME NEW r, NEW m, r \in SUBSET Int
    PROVE  /\ rr_grant(r, m) \subseteq r
           /\ \A p, q \in rr_grant(r, m) : p = q
<1>1. ASSUME NEW x, x \in SUBSET Int
      PROVE  Lowest(x) \subseteq x /\ \A p, q \in Lowest(x) : p = q
  <2>1. ASSUME NEW p \in Lowest(x), NEW q \in Lowest(x) PROVE p = q
    <3>1. p \in Int /\ q \in Int /\ p <= q /\ q <= p
      BY <1>1, <2>1 DEF Lowest
    <3> QED BY <3>1
  <2> QED BY <2>1 DEF Lowest
<1>2. CASE r \cap m = {}
  BY <1>1, <1>2 DEF rr_grant
<1>3. CASE r \cap m # {}
  BY <1>1, <1>3 DEF rr_grant
<1> QED BY <1>2, <1>3

\* The two stages together: an input accepts an output only if it was the one
\* granted by it, being free, and the output being free.
LEMMA MatchProperties ==
    ASSUME NEW avail, NEW j \in In, NEW i \in acc(gnt(req(avail)))[j]
    PROVE  /\ i \in Out
           /\ paired[j] = None
           /\ \A k \in In : paired[k] # i
           /\ \A k \in In : i \in acc(gnt(req(avail)))[k] => k = j
<1> DEFINE r == req(avail)
           g == gnt(r)
           offers(k) == {o \in Out : k \in g[o]}
<1>1. ASSUME NEW k \in In PROVE acc(g)[k] \subseteq offers(k)
  <2>1. offers(k) \in SUBSET Int
    BY DEF Out
  <2>2. acc(g)[k] = rr_grant(offers(k), amask[k])
    BY DEF acc
  <2> HIDE DEF offers, g
  <2> QED BY <2>1, <2>2, GrantProperties
<1>2. i \in Out /\ j \in g[i]
  BY <1>1
<1>3. /\ g[i] \subseteq r[i]
      /\ \A p, q \in g[i] : p = q
  <2>1. r[i] \in SUBSET Int
    BY <1>2 DEF req, In
  <2>2. g[i] = rr_grant(r[i], gmask[i])
    BY <1>2 DEF gnt
  <2> HIDE DEF g, r
  <2> QED BY <2>1, <2>2, GrantProperties
<1>4. paired[j] = None /\ \A k \in In : paired[k] # i
  BY <1>2, <1>3 DEF req
<1>5. ASSUME NEW k \in In, i \in acc(g)[k] PROVE k = j
  BY <1>1, <1>2, <1>3, <1>5
<1> QED BY <1>2, <1>4, <1>5
-----------------------------------------------------------------------------
\* One clock edge, whatever the requests and the beats offered.
LEMMA MatchingClock ==
    ASSUME Matching, NEW avail, NEW b, NEW rdy, SwitchClock(avail, b, rdy)
    PROVE  Matching'
<1> DEFINE a == acc(gnt(req(avail)))
<1>1. paired' = pairedNext(b, a)
  BY DEF SwitchClock
<1> SUFFICES ASSUME NEW j \in In, NEW k \in In,
                    paired'[j] = paired'[k], paired'[j] # None
             PROVE  j = k
  BY DEF Matching
<1>2. ASSUME NEW n \in In, paired'[n] # None
      PROVE  \/ paired[n] # None /\ paired'[n] = paired[n]
             \/ paired[n] = None /\ paired'[n] \in a[n]
  <2> HIDE DEF a
  <2> QED BY <1>1, <1>2 DEF pairedNext
<1>3. CASE paired[j] # None /\ paired[k] # None
  BY <1>2, <1>3 DEF Matching
<1>4. CASE paired[j] = None /\ paired[k] # None
  BY <1>2, <1>4, MatchProperties
<1>5. CASE paired[j] # None /\ paired[k] = None
  BY <1>2, <1>5, MatchProperties
<1>6. CASE paired[j] = None /\ paired[k] = None
  BY <1>2, <1>6, MatchProperties
<1> QED BY <1>3, <1>4, <1>5, <1>6

\* No output ever listens to two inputs, for every number of both.
THEOREM NeverTwoInputs == Spec => []Matching
<1>1. Init => Matching
  BY DEF Init, SwitchInit, Matching
<1>2. Matching /\ [Next]_seamVars => Matching'
  <2> SUFFICES ASSUME Matching, [Next]_seamVars PROVE Matching'
    OBVIOUS
  <2>1. CASE \E arr \in Arrivals, rdy \in Readies : Clock(arr, rdy)
    BY <2>1, MatchingClock DEF Clock
  <2>2. CASE Reset
    BY <2>2 DEF Reset, SwitchReset, Matching
  <2>3. CASE UNCHANGED seamVars
    BY <2>3 DEF seamVars, Matching
  <2> QED BY <2>1, <2>2, <2>3 DEF Next
<1> QED BY <1>1, <1>2, PTL DEF Spec
-----------------------------------------------------------------------------
\* Inductive: with None for no pairing, a beat at a read port needs one.
SeamHeld == \A j \in In : voq[j].out # None =>
                paired[j] # None /\ paired[j] = voq[j].out_sel

LEMMA SeamClock ==
    ASSUME SeamHeld, NEW arr, NEW rdy, Clock(arr, rdy)
    PROVE  SeamHeld'
<1> SUFFICES ASSUME NEW j \in In, voq'[j].out # None
             PROVE  paired'[j] # None /\ paired'[j] = voq'[j].out_sel
  BY DEF SeamHeld
<1> DEFINE bt == Arrives(arr, j)
           dd == Destination(arr, j)
<1>1. voq'[j] = V!VoqClocked(voq[j], bt, dd, paired[j], ready(j))
  BY DEF Clock
<1> HIDE DEF bt, dd
<1>2. qbeat[j] = IF V!held(voq[j], paired[j]) THEN voq[j].out ELSE None
  BY DEF qbeat, V!m_beat
\* A pairing that does not see the last beat leave stays.
<1>3. paired[j] # None /\ ~(xfer(qbeat, j) /\ qbeat[j].last) => paired'[j] = paired[j]
  BY DEF Clock, SwitchClock, pairedNext
<1>4. CASE V!pop(voq[j], paired[j], ready(j))
  <2>1. voq'[j].out_sel = paired[j]
    BY <1>1, <1>4 DEF V!VoqClocked, V!drained
  <2>2. paired[j] # None /\ ~(xfer(qbeat, j) /\ qbeat[j].last)
    BY <1>2, <1>4 DEF V!pop, xfer
  <2> QED BY <1>3, <2>1, <2>2
<1>5. CASE ~V!pop(voq[j], paired[j], ready(j))
  <2>1. /\ voq'[j].out = IF V!held(voq[j], paired[j]) /\ ready(j) THEN None
                         ELSE voq[j].out
        /\ voq'[j].out_sel = voq[j].out_sel
    BY <1>1, <1>5 DEF V!VoqClocked, V!drained
  <2>2. voq[j].out # None /\ ~(V!held(voq[j], paired[j]) /\ ready(j))
    BY <2>1
  <2>3. paired[j] # None /\ paired[j] = voq[j].out_sel
    BY <2>2 DEF SeamHeld
  <2>4. ~ready(j)
    BY <2>2, <2>3 DEF V!held
  <2>5. paired'[j] = paired[j]
    BY <1>3, <2>3, <2>4 DEF xfer
  <2> QED BY <2>1, <2>3, <2>5
<1> QED BY <1>4, <1>5

\* The beat a voq has fetched is for the output its input is paired with, for
\* every number of ports, however arrivals, arbitration and stalls fall.
THEOREM SeamHolds == Spec => []Seam
<1>1. Init => SeamHeld
  BY DEF Init, SeamHeld, V!EmptyVoq
<1>2. SeamHeld /\ [Next]_seamVars => SeamHeld'
  <2> SUFFICES ASSUME SeamHeld, [Next]_seamVars PROVE SeamHeld'
    OBVIOUS
  <2>1. CASE \E arr \in Arrivals, rdy \in Readies : Clock(arr, rdy)
    BY <2>1, SeamClock
  <2>2. CASE Reset
    BY <2>2 DEF Reset, SeamHeld, V!EmptyVoq
  <2>3. CASE UNCHANGED seamVars
    BY <2>3 DEF seamVars, SeamHeld
  <2> QED BY <2>1, <2>2, <2>3 DEF Next
<1>3. SeamHeld => Seam
  BY DEF SeamHeld, Seam
<1> QED BY <1>1, <1>2, <1>3, PTL DEF Spec
-----------------------------------------------------------------------------
\* Among ports that ask one is the lowest.
LEMMA LowestExists ==
    ASSUME NEW ports \in SUBSET Int, IsFiniteSet(ports), NEW x \in SUBSET ports, x # {}
    PROVE  Lowest(x) # {}
<1> DEFINE Below(p) == {q \in x : q < p}
           Family == {Below(p) : p \in x}
<1>1. \A p \in x : p \in Int
  OBVIOUS
<1>2. IsWellFoundedOn(StrictSubsetOrdering(ports), SUBSET ports)
  BY FS_StrictSubsetOrderingWellFounded, FS_FiniteSubsetsOfFinite
<1>3. Family \subseteq SUBSET ports /\ Family # {}
  OBVIOUS
<1>4. PICK b \in Family : \A c \in Family : <<c, b>> \notin StrictSubsetOrdering(ports)
  <2> HIDE DEF Family
  <2> QED BY <1>2, <1>3, WFMin
<1>5. PICK p \in x : b = Below(p)
  OBVIOUS
<1>6. Below(p) = {}
  <2> SUFFICES ASSUME NEW q \in Below(p) PROVE FALSE
    OBVIOUS
  <2>1. Below(q) \in Family /\ Below(q) \subseteq Below(p) /\ q \notin Below(q)
    <3>1. q \in x /\ q \in Int /\ p \in Int /\ q < p
      BY <1>1
    <3>2. Below(q) \in Family
      BY <3>1
    <3>3. q \notin Below(q)
      BY <3>1
    <3>4. ASSUME NEW y \in Below(q) PROVE y \in Below(p)
      <4>1. y \in x /\ y \in Int /\ y < q
        BY <1>1
      <4> QED BY <3>1, <4>1
    <3> QED BY <3>2, <3>3, <3>4
  <2>2. <<Below(q), Below(p)>> \in StrictSubsetOrdering(ports)
    BY <2>1 DEF StrictSubsetOrdering
  <2> QED BY <1>4, <1>5, <2>1, <2>2
<1>7. p \in Lowest(x)
  BY <1>1, <1>6 DEF Lowest
<1> QED BY <1>7

\* And if any asks, one is granted.
LEMMA GrantExists ==
    ASSUME NEW n \in Nat, NEW r \in SUBSET (0 .. n - 1), NEW m, r # {}
    PROVE  rr_grant(r, m) # {}
<1>1. IsFiniteSet(0 .. n - 1) /\ 0 .. n - 1 \in SUBSET Int
  BY FS_Interval
<1>2. CASE r \cap m = {}
  <2>1. Lowest(r) # {}
    BY <1>1, LowestExists
  <2> QED BY <1>2, <2>1 DEF rr_grant
<1>3. CASE r \cap m # {}
  <2>1. r \cap m \in SUBSET (0 .. n - 1)
    OBVIOUS
  <2>2. Lowest(r \cap m) # {}
    BY <1>1, <1>3, <2>1, LowestExists
  <2> QED BY <1>3, <2>2 DEF rr_grant
<1> QED BY <1>2, <1>3

\* An output with a request grants one, and the input granted accepts one: this one, or
\* that of another output.
LEMMA PairMade ==
    ASSUME NEW avail, NEW i \in Out, req(avail)[i] # {}
    PROVE  \E j \in In : paired[j] = None /\ acc(gnt(req(avail)))[j] # {}
<1> DEFINE r == req(avail)
           g == gnt(r)
           offers(k) == {o \in Out : k \in g[o]}
<1>1. r[i] \in SUBSET (0 .. NIn - 1) /\ r[i] # {}
  BY DEF req, In
<1>2. g[i] = rr_grant(r[i], gmask[i])
  BY DEF gnt
<1>3. g[i] # {} /\ g[i] \subseteq r[i]
  <2>1. NIn \in Nat /\ r[i] \in SUBSET Int
    BY <1>1, SwitchAssumption
  <2>2. rr_grant(r[i], gmask[i]) # {}
    BY <1>1, SwitchAssumption, GrantExists
  <2>3. rr_grant(r[i], gmask[i]) \subseteq r[i]
    BY <2>1, GrantProperties
  <2> QED BY <1>2, <2>2, <2>3
<1>4. PICK j \in In : j \in g[i] /\ paired[j] = None
  BY <1>1, <1>3 DEF req, In
<1>5. offers(j) \in SUBSET (0 .. NOut - 1) /\ offers(j) # {}
  BY <1>4 DEF Out
<1>6. acc(g)[j] = rr_grant(offers(j), amask[j])
  BY DEF acc
<1>7. acc(g)[j] # {}
  <2>1. NOut \in Nat
    BY SwitchAssumption
  <2> HIDE DEF offers, g
  <2> QED BY <1>5, <1>6, <2>1, GrantExists
<1> QED BY <1>4, <1>7

\* As long as a free input has a frame for a free output, each edge makes a pair, whatever
\* the pointers of the two stages point at, for every number of ports
\* (axis_switch.sv:116-130).
THEOREM NoCycleLost == Spec => PairsAtOnce
<1>1. ASSUME [Next]_seamVars
      PROVE  \/ (\E i \in Out : req(navail)[i] # {})
                   => Reset \/ \E j \in In : paired[j] = None /\ paired'[j] # None
             \/ UNCHANGED seamVars
  <2>1. ASSUME NEW arr, NEW rdy, Clock(arr, rdy), NEW i \in Out, req(navail)[i] # {}
        PROVE  \E j \in In : paired[j] = None /\ paired'[j] # None
    <3> DEFINE a == acc(gnt(req(navail)))
    <3>1. PICK j \in In : paired[j] = None /\ a[j] # {}
      BY <2>1, PairMade
    <3>2. \A o \in a[j] : o \in Out
      BY MatchProperties
    <3>3. paired' = pairedNext(qbeat, a)
      BY <2>1 DEF Clock, SwitchClock
    <3> HIDE DEF a
    <3>4. paired'[j] \in a[j]
      BY <3>1, <3>3 DEF pairedNext
    <3> QED BY <3>1, <3>2, <3>4, SeamAssumption
  <2> QED BY <1>1, <2>1 DEF Next
<1> QED BY <1>1, PTL DEF Spec, PairsAtOnce
-----------------------------------------------------------------------------
(* Streams of whole frames.                                                *)

BeatOf(j) == [src : {j}, pos : 0 .. MaxFrame - 1, last : BOOLEAN]
BeatSet   == [src : In, pos : 0 .. MaxFrame - 1, last : BOOLEAN]

\* What is open after beat b, the beats that may come when o is open, and what is open
\* after b or nothing.
Opens(b)      == IF b.last THEN None ELSE [src |-> b.src, pos |-> b.pos + 1]
Accepts(o, b) == IF o = None THEN b.pos = 0 ELSE o = [src |-> b.src, pos |-> b.pos]
Past(o, b)    == IF b = None THEN o ELSE Opens(b)

\* s goes on where o is open, frame by frame, and leaves e open.
Stream(o, s, e) == /\ s = <<>> => o = e
                   /\ s # <<>> => Accepts(o, s[1]) /\ Opens(s[Len(s)]) = e
                   /\ \A k \in 1 .. Len(s) - 1 : Accepts(Opens(s[k]), s[k + 1])

LEMMA EmptyStream ==
    ASSUME NEW o PROVE Stream(o, <<>>, o)
<1>1. Len(<<>>) = 0 /\ 1 .. 0 - 1 = {}
  BY EmptySeq
<1> QED BY <1>1 DEF Stream

\* A beat that fits what is open extends a stream.
LEMMA StreamAppend ==
    ASSUME NEW S, NEW s \in Seq(S), NEW b \in S, NEW o, NEW e,
           Stream(o, s, e), Accepts(e, b)
    PROVE  Stream(o, s \o <<b>>, Opens(b))
<1> DEFINE t == s \o <<b>>
<1>1. <<b>> \in Seq(S) /\ Len(<<b>>) = 1 /\ Len(s) \in Nat
      /\ (s # <<>> => Len(s) > 0) /\ (s = <<>> => Len(s) = 0)
  BY LenProperties, EmptySeq
<1>2. /\ t \in Seq(S) /\ Len(t) = Len(s) + 1
      /\ \A i \in 1 .. Len(s) + 1 : t[i] = IF i <= Len(s) THEN s[i] ELSE <<b>>[i - Len(s)]
  BY <1>1, ConcatProperties
<1>3. t[Len(s) + 1] = b /\ \A i \in 1 .. Len(s) : t[i] = s[i]
  BY <1>1, <1>2
<1> HIDE DEF t
<1>4. t # <<>> /\ t[Len(t)] = b
  BY <1>1, <1>2, <1>3
<1>5. Accepts(o, t[1])
  <2>1. CASE s = <<>>
    <3>1. t[1] = b /\ o = e
      BY <2>1, <1>1, <1>3 DEF Stream
    <3> QED BY <3>1
  <2>2. CASE s # <<>>
    <3>1. t[1] = s[1] /\ Accepts(o, s[1])
      BY <2>2, <1>1, <1>3 DEF Stream
    <3> QED BY <3>1
  <2> QED BY <2>1, <2>2
<1>6. ASSUME NEW k \in 1 .. Len(t) - 1 PROVE Accepts(Opens(t[k]), t[k + 1])
  <2>1. CASE k < Len(s)
    <3>1. k \in 1 .. Len(s) - 1 /\ t[k] = s[k] /\ t[k + 1] = s[k + 1]
      BY <2>1, <1>1, <1>2, <1>3
    <3>2. Accepts(Opens(s[k]), s[k + 1])
      BY <3>1 DEF Stream
    <3> QED BY <3>1, <3>2
  <2>2. CASE ~(k < Len(s))
    <3>1. k = Len(s) /\ s # <<>> /\ t[k] = s[Len(s)] /\ t[k + 1] = b
      BY <2>2, <1>1, <1>2, <1>3
    <3>2. Opens(s[Len(s)]) = e
      BY <3>1 DEF Stream
    <3> QED BY <3>1, <3>2
  <2> QED BY <2>1, <2>2
<1>7. Stream(o, t, Opens(b))
  BY <1>4, <1>5, <1>6 DEF Stream
<1> QED BY <1>7 DEF t

\* Its first beat fits what is open, and the rest goes on from there.
LEMMA StreamTail ==
    ASSUME NEW S, NEW s \in Seq(S), NEW o, NEW e, Stream(o, s, e), s # <<>>
    PROVE  Accepts(o, s[1]) /\ Stream(Opens(s[1]), Tail(s), e)
<1> DEFINE t == Tail(s)
<1>1. Accepts(o, s[1])
  BY DEF Stream
<1>2. /\ t \in Seq(S) /\ Len(t) = Len(s) - 1
      /\ \A i \in 1 .. Len(t) : t[i] = s[i + 1]
  BY HeadTailProperties
<1>3. Len(s) \in Nat /\ Len(s) > 0
  BY EmptySeq, LenProperties
<1> HIDE DEF t
<1>4. Len(t) \in Nat /\ (t # <<>> => Len(t) > 0) /\ (t = <<>> => Len(s) = 1)
  <2>1. Len(t) \in Nat
    BY <1>2, LenProperties
  <2>2. t # <<>> => Len(t) # 0
    BY <1>2, EmptySeq
  <2>3. t = <<>> => Len(t) = 0
    BY EmptySeq
  <2> QED BY <1>2, <1>3, <2>1, <2>2, <2>3
<1>5. ASSUME t = <<>> PROVE Opens(s[1]) = e
  <2>1. Len(s) = 1 /\ Opens(s[Len(s)]) = e
    BY <1>4, <1>5 DEF Stream
  <2> QED BY <2>1
<1>6. ASSUME t # <<>> PROVE Accepts(Opens(s[1]), t[1]) /\ Opens(t[Len(t)]) = e
  <2>1. /\ 1 \in 1 .. Len(s) - 1 /\ t[1] = s[1 + 1]
        /\ t[Len(t)] = s[Len(t) + 1] /\ Len(t) + 1 = Len(s)
    BY <1>2, <1>3, <1>4, <1>6
  <2>2. Accepts(Opens(s[1]), s[1 + 1]) /\ Opens(s[Len(s)]) = e
    BY <2>1 DEF Stream
  <2> QED BY <2>1, <2>2
<1>7. ASSUME NEW k \in 1 .. Len(t) - 1 PROVE Accepts(Opens(t[k]), t[k + 1])
  <2>1. k + 1 \in 1 .. Len(s) - 1 /\ t[k] = s[k + 1] /\ t[k + 1] = s[(k + 1) + 1]
    BY <1>2, <1>3, <1>4
  <2>2. Accepts(Opens(s[k + 1]), s[(k + 1) + 1])
    BY <2>1 DEF Stream
  <2> QED BY <2>1, <2>2
<1>8. Stream(Opens(s[1]), t, e)
  BY <1>5, <1>6, <1>7 DEF Stream
<1> QED BY <1>1, <1>8 DEF t
-----------------------------------------------------------------------------
(* One voq over one clock edge.  v is a voq, w what it becomes.            *)

LEMMA ConsProperties ==
    ASSUME NEW S, NEW q \in Seq(S), NEW x \in S
    PROVE  /\ <<x>> \o q \in Seq(S) /\ <<x>> \o q # <<>>
           /\ (<<x>> \o q)[1] = x /\ Tail(<<x>> \o q) = q
           /\ q # <<>> => <<Head(q)>> \o Tail(q) = q
<1>1. <<x>> \in Seq(S) /\ Len(<<x>>) = 1 /\ Len(q) \in Nat
  BY LenProperties
<1>2. /\ <<x>> \o q \in Seq(S) /\ Len(<<x>> \o q) = 1 + Len(q)
      /\ \A i \in 1 .. 1 + Len(q) : (<<x>> \o q)[i] = IF i <= 1 THEN <<x>>[i] ELSE q[i - 1]
  BY <1>1, ConcatProperties
<1>3. <<x>> \o q # <<>> /\ (<<x>> \o q)[1] = x
  BY <1>1, <1>2
<1>4. /\ Tail(<<x>> \o q) \in Seq(S) /\ Len(Tail(<<x>> \o q)) = Len(q)
      /\ \A i \in 1 .. Len(q) : Tail(<<x>> \o q)[i] = (<<x>> \o q)[i + 1]
  BY <1>1, <1>2, <1>3, HeadTailProperties
<1>5. \A i \in 1 .. Len(q) : Tail(<<x>> \o q)[i] = q[i]
  BY <1>1, <1>2, <1>4
<1>6. Tail(<<x>> \o q) = q
  BY <1>4, <1>5, SeqEqual
<1>7. ASSUME q # <<>> PROVE <<Head(q)>> \o Tail(q) = q
  <2>1. /\ Head(q) \in S /\ Tail(q) \in Seq(S) /\ Len(Tail(q)) = Len(q) - 1
        /\ \A i \in 1 .. Len(Tail(q)) : Tail(q)[i] = q[i + 1]
    BY <1>7, HeadTailProperties
  <2>2. <<Head(q)>> \in Seq(S) /\ Len(<<Head(q)>>) = 1 /\ Len(q) > 0 /\ Head(q) = q[1]
    BY <1>1, <1>7, <2>1
  <2>3. /\ <<Head(q)>> \o Tail(q) \in Seq(S) /\ Len(<<Head(q)>> \o Tail(q)) = Len(q)
        /\ \A i \in 1 .. Len(q) : (<<Head(q)>> \o Tail(q))[i] =
                                     IF i <= 1 THEN <<Head(q)>>[i] ELSE Tail(q)[i - 1]
    BY <1>1, <2>1, <2>2, ConcatProperties
  <2>4. \A i \in 1 .. Len(q) : (<<Head(q)>> \o Tail(q))[i] = q[i]
    BY <1>1, <2>1, <2>2, <2>3
  <2> QED BY <2>3, <2>4, SeqEqual
<1> QED BY <1>2, <1>3, <1>6, <1>7

\* Queues and read port of input j.
VoqType(v, j) == /\ v.q \in [Out -> Seq(BeatOf(j))]
                 /\ v.out \in BeatOf(j) \cup {None} /\ v.out_sel \in Out
                 /\ v.sof \in BOOLEAN /\ v.refusing \in BOOLEAN

\* n beats of a frame for d have come: the queues fit, the voq knows that a frame has
\* begun, and of an admitted one the rest fits too.
VoqRoom(v, n, d) == /\ n \in 0 .. MaxFrame - 1 /\ d \in Out
                    /\ \A i \in Out : Len(v.q[i]) <= VoqDepth
                    /\ v.sof <=> n = 0
                    /\ ~v.sof /\ ~v.refusing => Len(v.q[d]) + (MaxFrame - n) <= VoqDepth

\* What may arrive for e next, and what queue i gains from it.
Next1(j, n, d, beat, e) ==
    /\ beat \in BeatOf(j) \cup {None} /\ e \in Out
    /\ beat # None => beat.pos = n /\ (n = 0 \/ e = d) /\ (n + 1 = MaxFrame => beat.last)
gain(v, i, beat, e) == IF beat # None /\ i = e /\ ~V!dropping(v, e) THEN <<beat>> ELSE <<>>

\* An admitted beat finds room.
LEMMA RoomThere ==
    ASSUME NEW v, NEW j, VoqType(v, j), NEW n, NEW d, VoqRoom(v, n, d),
           NEW e \in Out, n = 0 \/ e = d, ~V!dropping(v, e)
    PROVE  Len(v.q[e]) # VoqDepth
<1>1. /\ Len(v.q[e]) \in Nat /\ VoqDepth \in Nat /\ MaxFrame \in Nat /\ MaxFrame > 0
      /\ n \in Nat /\ n < MaxFrame
  <2>1. v.q[e] \in Seq(BeatOf(j))
    BY DEF VoqType
  <2> QED BY <2>1, SeamAssumption, LenProperties DEF VoqRoom
<1>2. CASE v.sof
  BY <1>1, <1>2 DEF V!dropping, V!room, V!RoomMark
<1>3. CASE ~v.sof
  <2>1. e = d /\ ~v.refusing
    BY <1>3 DEF V!dropping, VoqRoom
  <2> QED BY <1>1, <1>3, <2>1 DEF VoqRoom
<1> QED BY <1>2, <1>3

LEMMA GainType ==
    ASSUME NEW S, NEW v, NEW i, NEW e, NEW beat \in S \cup {None}
    PROVE  /\ gain(v, i, beat, e) \in Seq(S)
           /\ Len(gain(v, i, beat, e)) = IF beat # None /\ i = e /\ ~V!dropping(v, e)
                                         THEN 1 ELSE 0
<1>1. CASE beat # None
  <2>1. <<beat>> \in Seq(S) /\ Len(<<beat>>) = 1 /\ <<>> \in Seq(S) /\ Len(<<>>) = 0
    BY <1>1, EmptySeq
  <2> QED BY <2>1 DEF gain
<1>2. CASE beat = None
  BY <1>2, EmptySeq DEF gain
<1> QED BY <1>1, <1>2

LEMMA QueueStep ==
    ASSUME NEW v, NEW j, VoqType(v, j), NEW n, NEW d, VoqRoom(v, n, d),
           NEW beat, NEW e, Next1(j, n, d, beat, e), NEW sel, NEW rdy \in BOOLEAN,
           NEW w, w = V!VoqClocked(v, beat, e, sel, rdy), NEW i \in Out
    PROVE  /\ w.q[i] = V!Rest(v.q[i], i = sel /\ V!pop(v, sel, rdy)) \o gain(v, i, beat, e)
           /\ V!Rest(v.q[i], i = sel /\ V!pop(v, sel, rdy)) \in Seq(BeatOf(j))
           /\ gain(v, i, beat, e) \in Seq(BeatOf(j))
<1> DEFINE wr == beat # None /\ i = e /\ ~V!dropping(v, e)
           rd == V!pop(v, sel, rdy) /\ i = sel
<1>1. w.q[i] = V!After(v.q[i], VoqDepth, wr, beat, rd)
  BY DEF V!VoqClocked, V!drained
<1>2. wr => Len(v.q[i]) # VoqDepth
  BY RoomThere DEF Next1
<1>3. v.q[i] \in Seq(BeatOf(j))
  BY DEF VoqType
<1>4. V!Added(v.q[i], VoqDepth, wr, beat) = gain(v, i, beat, e)
  BY <1>2 DEF V!Added, gain
<1>5. gain(v, i, beat, e) \in Seq(BeatOf(j))
  BY GainType DEF Next1
<1>6. V!Rest(v.q[i], rd) \in Seq(BeatOf(j))
  BY <1>3, HeadTailProperties DEF V!Rest
<1>7. V!Rest(v.q[i], rd) = V!Rest(v.q[i], i = sel /\ V!pop(v, sel, rdy))
  BY DEF V!Rest
<1> QED BY <1>1, <1>4, <1>5, <1>6, <1>7 DEF V!After

LEMMA VoqTypeStep ==
    ASSUME NEW v, NEW j, VoqType(v, j), NEW n, NEW d, VoqRoom(v, n, d),
           NEW beat, NEW e, Next1(j, n, d, beat, e),
           NEW sel \in Out \cup {None}, NEW rdy \in BOOLEAN,
           NEW w, w = V!VoqClocked(v, beat, e, sel, rdy)
    PROVE  VoqType(w, j)
<1>1. w.q \in [Out -> Seq(BeatOf(j))]
  <2>1. \A i \in Out : w.q[i] \in Seq(BeatOf(j))
    <3> SUFFICES ASSUME NEW i \in Out PROVE w.q[i] \in Seq(BeatOf(j))
      OBVIOUS
    <3> DEFINE left == V!Rest(v.q[i], i = sel /\ V!pop(v, sel, rdy))
               new  == gain(v, i, beat, e)
    <3>1. w.q[i] = left \o new /\ left \in Seq(BeatOf(j)) /\ new \in Seq(BeatOf(j))
      BY QueueStep
    <3> HIDE DEF left, new
    <3> QED BY <3>1, ConcatProperties
  <2>2. w.q = [i \in Out |-> w.q[i]]
    BY DEF V!VoqClocked, V!drained
  <2> QED BY <2>1, <2>2
<1>2. w.out \in BeatOf(j) \cup {None} /\ w.out_sel \in Out
  <2>1. /\ w.out = IF V!pop(v, sel, rdy) THEN Head(v.q[sel])
                   ELSE IF V!held(v, sel) /\ rdy THEN None ELSE v.out
        /\ w.out_sel = IF V!pop(v, sel, rdy) THEN sel ELSE v.out_sel
    BY DEF V!VoqClocked, V!drained
  <2>2. ASSUME V!pop(v, sel, rdy) PROVE sel \in Out /\ Head(v.q[sel]) \in BeatOf(j)
    <3>1. sel \in Out /\ v.q[sel] # <<>>
      BY <2>2 DEF V!pop
    <3>2. v.q[sel] \in Seq(BeatOf(j))
      BY <3>1 DEF VoqType
    <3> QED BY <3>1, <3>2, HeadTailProperties
  <2> QED BY <2>1, <2>2 DEF VoqType
<1>3. w.sof \in BOOLEAN /\ w.refusing \in BOOLEAN
  <2>1. beat # None => beat.last \in BOOLEAN
    BY DEF Next1, BeatOf
  <2> QED BY <2>1 DEF V!VoqClocked, V!drained, V!room, VoqType
<1> QED BY <1>1, <1>2, <1>3 DEF VoqType

\* The frame is admitted or refused as a whole.
LEMMA VoqRoomStep ==
    ASSUME NEW v, NEW j, VoqType(v, j), NEW n, NEW d, VoqRoom(v, n, d),
           NEW beat, NEW e, Next1(j, n, d, beat, e),
           NEW sel, NEW rdy \in BOOLEAN,
           NEW w, w = V!VoqClocked(v, beat, e, sel, rdy),
           NEW n1, n1 = IF beat = None THEN n ELSE IF beat.last THEN 0 ELSE n + 1,
           NEW d1 \in Out, n1 # 0 => d1 = IF beat = None THEN d ELSE e
    PROVE  VoqRoom(w, n1, d1)
<1> DEFINE left(i) == V!Rest(v.q[i], i = sel /\ V!pop(v, sel, rdy))
           new(i)  == gain(v, i, beat, e)
           adds(i) == beat # None /\ i = e /\ ~V!dropping(v, e)
<1>1. /\ VoqDepth \in Nat /\ MaxFrame \in Nat /\ MaxFrame > 0 /\ n \in Nat /\ n < MaxFrame
      /\ e \in Out /\ d \in Out
      /\ beat # None => beat.last \in BOOLEAN /\ (n + 1 = MaxFrame => beat.last)
  BY SeamAssumption DEF VoqRoom, Next1, BeatOf
<1>2. ASSUME NEW i \in Out
      PROVE  /\ Len(w.q[i]) \in Nat /\ Len(v.q[i]) \in Nat
             /\ Len(w.q[i]) <= Len(v.q[i]) + (IF adds(i) THEN 1 ELSE 0)
             /\ adds(i) => Len(v.q[i]) # VoqDepth
             /\ Len(v.q[i]) <= VoqDepth
  <2>1. /\ w.q[i] = left(i) \o new(i) /\ left(i) \in Seq(BeatOf(j))
        /\ new(i) \in Seq(BeatOf(j))
    BY QueueStep
  <2>2. Len(new(i)) = IF adds(i) THEN 1 ELSE 0
    BY GainType DEF Next1
  <2>3. v.q[i] \in Seq(BeatOf(j))
    BY DEF VoqType
  <2>4. Len(left(i)) <= Len(v.q[i])
    BY <2>3, HeadTailProperties, LenProperties DEF V!Rest
  <2>5. adds(i) => Len(v.q[i]) # VoqDepth
    BY RoomThere DEF Next1
  <2>6. Len(v.q[i]) <= VoqDepth
    BY DEF VoqRoom
  <2> HIDE DEF left, new, adds
  <2>7. /\ Len(w.q[i]) = Len(left(i)) + Len(new(i)) /\ Len(w.q[i]) \in Nat
        /\ Len(left(i)) \in Nat /\ Len(new(i)) \in Nat /\ Len(v.q[i]) \in Nat
    BY <2>1, <2>3, ConcatProperties, LenProperties
  <2> QED BY <2>2, <2>4, <2>5, <2>6, <2>7
<1>3. \A i \in Out : Len(w.q[i]) <= VoqDepth
  <2> SUFFICES ASSUME NEW i \in Out PROVE Len(w.q[i]) <= VoqDepth
    OBVIOUS
  <2> HIDE DEF adds
  <2>1. PICK a \in Nat, b \in Nat : a = Len(w.q[i]) /\ b = Len(v.q[i])
    BY <1>2
  <2>2. a <= b + (IF adds(i) THEN 1 ELSE 0) /\ (adds(i) => b # VoqDepth) /\ b <= VoqDepth
    BY <1>2, <2>1
  <2>3. a <= VoqDepth
    BY <1>1, <2>2
  <2> QED BY <2>1, <2>3
<1>4. CASE beat = None
  <2>1. n1 = n /\ w.sof = v.sof /\ w.refusing = v.refusing
    BY <1>4 DEF V!VoqClocked, V!drained
  <2>2. ASSUME ~w.sof, ~w.refusing PROVE Len(w.q[d1]) + (MaxFrame - n1) <= VoqDepth
    <3>1. d1 = d /\ Len(v.q[d]) + (MaxFrame - n) <= VoqDepth
      BY <1>4, <2>1, <2>2 DEF VoqRoom
    <3>2. Len(w.q[d]) <= Len(v.q[d]) + 0 /\ Len(w.q[d]) \in Nat /\ Len(v.q[d]) \in Nat
      BY <1>1, <1>2, <1>4
    <3> QED BY <1>1, <2>1, <3>1, <3>2
  <2> QED BY <1>3, <2>1, <2>2 DEF VoqRoom
<1>5. CASE beat # None
  <2>1. /\ w.sof = beat.last /\ w.refusing = V!dropping(v, e)
        /\ n1 = IF beat.last THEN 0 ELSE n + 1
    BY <1>5 DEF V!VoqClocked, V!drained, V!dropping
  <2>2. n1 \in 0 .. MaxFrame - 1 /\ (beat.last <=> n1 = 0)
    BY <1>1, <1>5, <2>1
  <2>3. ASSUME ~w.sof, ~w.refusing PROVE Len(w.q[d1]) + (MaxFrame - n1) <= VoqDepth
    <3>1. d1 = e /\ n1 = n + 1
      BY <1>5, <2>1, <2>2, <2>3
    <3>2. Len(w.q[e]) <= Len(v.q[e]) + 1 /\ Len(w.q[e]) \in Nat /\ Len(v.q[e]) \in Nat
      BY <1>1, <1>2, <1>5, <2>1, <2>3
    <3>3. Len(v.q[e]) + (MaxFrame - n) <= VoqDepth
      <4>1. CASE v.sof
        <5>1. n = 0 /\ Len(v.q[e]) <= VoqDepth - MaxFrame
          BY <2>1, <2>3, <4>1 DEF VoqRoom, V!dropping, V!room, V!RoomMark
        <5> QED BY <1>1, <3>2, <5>1
      <4>2. CASE ~v.sof
        <5>1. e = d /\ ~v.refusing
          BY <1>5, <2>1, <2>3, <4>2 DEF VoqRoom, V!dropping, Next1
        <5> QED BY <4>2, <5>1 DEF VoqRoom
      <4> QED BY <4>1, <4>2
    <3> QED BY <1>1, <3>1, <3>2, <3>3
  <2> QED BY <1>3, <2>1, <2>2, <2>3 DEF VoqRoom
<1> QED BY <1>4, <1>5
-----------------------------------------------------------------------------
(* The beats a voq holds for one output, at the read port and in the queue.*)

content(v, j, i) == (IF v.out_sel = i THEN from(v.out, j) ELSE <<>>) \o v.q[i]

\* The queue i loses the beat that leaves.
leaves(v, i, sel, rdy) == sel = i /\ rdy /\ V!m_beat(v, sel) # None
Loses(s, x) == IF x THEN Tail(s) ELSE s

LEMMA ContentType ==
    ASSUME NEW v, NEW j, VoqType(v, j), NEW i \in Out
    PROVE  content(v, j, i) \in Seq(BeatOf(j))
<1>1. v.q[i] \in Seq(BeatOf(j))
  BY DEF VoqType
<1>2. CASE v.out # None /\ v.out_sel = i
  <2>1. v.out \in BeatOf(j) /\ v.out.src = j
    BY <1>2 DEF VoqType, BeatOf
  <2>2. content(v, j, i) = <<v.out>> \o v.q[i]
    BY <1>2, <2>1 DEF content, from
  <2> QED BY <1>1, <2>1, <2>2, ConsProperties
<1>3. CASE ~(v.out # None /\ v.out_sel = i)
  <2>1. content(v, j, i) = <<>> \o v.q[i]
    BY <1>3 DEF content, from
  <2> QED BY <1>1, <2>1, ConcatEmptySeq
<1> QED BY <1>2, <1>3

LEMMA ContentStep ==
    ASSUME NEW v, NEW j \in In, VoqType(v, j), NEW n, NEW d, VoqRoom(v, n, d),
           NEW beat, NEW e, Next1(j, n, d, beat, e),
           NEW sel \in Out \cup {None}, v.out # None => sel # None /\ sel = v.out_sel,
           NEW rdy \in BOOLEAN,
           NEW w, w = V!VoqClocked(v, beat, e, sel, rdy), NEW i \in Out
    PROVE  /\ content(w, j, i) =
                Loses(content(v, j, i), leaves(v, i, sel, rdy)) \o gain(v, i, beat, e)
           /\ leaves(v, i, sel, rdy) => /\ content(v, j, i) # <<>>
                                        /\ content(v, j, i)[1] = V!m_beat(v, sel)
<1> DEFINE q    == v.q[i]
           p    == V!pop(v, sel, rdy)
           left == V!Rest(q, i = sel /\ p)
           new  == gain(v, i, beat, e)
           here  == v.out # None /\ v.out_sel = i
           here1 == w.out # None /\ w.out_sel = i
           S == BeatOf(j)
<1>1. q \in Seq(S) /\ left \in Seq(S) /\ new \in Seq(S) /\ w.q[i] = left \o new
  <2>1. q \in Seq(S)
    BY DEF VoqType
  <2>2. left \in Seq(S) /\ new \in Seq(S) /\ w.q[i] = left \o new
    BY QueueStep
  <2> QED BY <2>1, <2>2
<1>2. /\ w.out = IF p THEN Head(v.q[sel])
                 ELSE IF V!held(v, sel) /\ rdy THEN None ELSE v.out
      /\ w.out_sel = IF p THEN sel ELSE v.out_sel
  BY DEF V!VoqClocked, V!drained
<1>3. VoqType(w, j)
  BY VoqTypeStep
<1>4. \A b \in S : b.src = j
  BY DEF BeatOf
<1>5. None \notin S
  BY SeamAssumption DEF BeatOf
<1>6. content(v, j, i) = (IF here THEN <<v.out>> ELSE <<>>) \o q
  <2>1. v.out = None \/ v.out.src = j
    BY <1>4 DEF VoqType
  <2> QED BY <2>1 DEF content, from
<1>7. content(w, j, i) = (IF here1 THEN <<w.out>> ELSE <<>>) \o (left \o new)
  <2>1. w.out = None \/ w.out.src = j
    BY <1>3, <1>4 DEF VoqType
  <2> HIDE DEF left, new
  <2> QED BY <1>1, <2>1 DEF content, from
<1>8. left \o new \in Seq(S) /\ (<<>> \o left = left) /\ (<<>> \o (left \o new) = left \o new)
      /\ <<>> \o q = q
  <2> HIDE DEF left, new, q, S
  <2> QED BY <1>1, ConcatEmptySeq, ConcatProperties
<1>9. here => /\ content(v, j, i) = <<v.out>> \o q /\ content(v, j, i) # <<>>
              /\ content(v, j, i)[1] = v.out /\ Tail(content(v, j, i)) = q
  <2>1. here => v.out \in S
    BY DEF VoqType
  <2> HIDE DEF q, S
  <2> QED BY <1>1, <1>6, <2>1, ConsProperties
<1>10. ~here => content(v, j, i) = q
  BY <1>6, <1>8
<1>11. leaves(v, i, sel, rdy) <=> here /\ sel = i /\ rdy
  BY DEF leaves, V!m_beat, V!held
<1>12. leaves(v, i, sel, rdy) => /\ content(v, j, i) # <<>>
                                 /\ content(v, j, i)[1] = V!m_beat(v, sel)
  <2>1. leaves(v, i, sel, rdy) => V!m_beat(v, sel) = v.out /\ here
    BY <1>11 DEF leaves, V!m_beat
  <2> HIDE DEF here
  <2> QED BY <1>9, <2>1
<1>13. CASE p /\ i = sel
  <2>1. q # <<>>
    BY <1>13 DEF V!pop
  <2>2. Head(q) \in S /\ left = Tail(q)
    BY <2>1, <1>1, <1>13, HeadTailProperties DEF V!Rest
  <2>3. w.out = Head(q) /\ w.out \in S /\ here1
    BY <2>2, <1>2, <1>5, <1>13
  <2>4. <<w.out>> \in Seq(S) /\ <<w.out>> \o left = q
    <3>1. <<w.out>> \o left = q
      <4> HIDE DEF left, q, S
      <4> QED BY <2>1, <2>2, <2>3, <1>1, ConsProperties
    <3>2. <<w.out>> \in Seq(S)
      BY <2>3
    <3> QED BY <3>1, <3>2
  <2>5. content(w, j, i) = q \o new
    <3>1. content(w, j, i) = <<w.out>> \o (left \o new)
      BY <2>3, <1>7, Zenon
    <3> HIDE DEF left, new, q, S
    <3>2. (<<w.out>> \o left) \o new = <<w.out>> \o (left \o new)
      BY <2>4, <1>1, ConcatAssociative
    <3> QED BY <3>1, <3>2, <2>4
  <2>6. Loses(content(v, j, i), leaves(v, i, sel, rdy)) = q
    <3>1. CASE v.out = None
      BY <3>1, <1>10, <1>11 DEF Loses
    <3>2. CASE v.out # None
      <4>1. here /\ rdy
        BY <1>13, <3>2 DEF V!pop, V!held
      <4> QED BY <4>1, <1>9, <1>11, <1>13 DEF Loses
    <3> QED BY <3>1, <3>2
  <2> HIDE DEF new, q
  <2> QED BY <2>5, <2>6, <1>12 DEF new
<1>14. CASE p /\ i # sel
  <2>1. ~here1 /\ ~here /\ left = q
    BY <1>14, <1>2 DEF V!Rest
  <2>2. ~leaves(v, i, sel, rdy)
    BY <1>14 DEF leaves
  <2>3. content(w, j, i) = q \o new
    BY <2>1, <1>7, <1>8
  <2> HIDE DEF new, q
  <2> QED BY <2>1, <2>2, <2>3, <1>10 DEF Loses, new
<1>15. CASE ~p
  <2>1. left = q
    BY <1>15 DEF V!Rest
  <2>2. here1 <=> here /\ ~(V!held(v, sel) /\ rdy)
    BY <1>15, <1>2
  <2>3. CASE leaves(v, i, sel, rdy)
    <3>1. ~here1
      BY <2>2, <2>3, <1>11 DEF V!held, leaves, V!m_beat
    <3>2. content(w, j, i) = q \o new
      BY <2>1, <3>1, <1>7, <1>8
    <3>3. Loses(content(v, j, i), leaves(v, i, sel, rdy)) = q
      BY <2>3, <1>9, <1>11 DEF Loses
    <3> HIDE DEF new, q
    <3> QED BY <1>12, <3>2, <3>3 DEF new
  <2>4. CASE ~leaves(v, i, sel, rdy)
    <3>1. here1 <=> here
      BY <2>2, <2>4, <1>11 DEF V!held
    <3>2. here => w.out = v.out
      BY <3>1, <1>2, <1>15
    <3>3. CASE here
      <4>1. here1 /\ w.out = v.out /\ v.out \in S
        BY <3>1, <3>2, <3>3 DEF VoqType
      <4>2. content(w, j, i) = <<v.out>> \o (q \o new)
        BY <4>1, <2>1, <1>7, Zenon
      <4>3. <<v.out>> \in Seq(S)
        BY <4>1
      <4>4. (<<v.out>> \o q) \o new = <<v.out>> \o (q \o new)
        <5> HIDE DEF q, new, S
        <5> QED BY <4>3, <1>1, ConcatAssociative
      <4>5. content(w, j, i) = content(v, j, i) \o new
        BY <4>2, <4>4, <3>3, <1>9
      <4> HIDE DEF new
      <4> QED BY <4>5, <2>4 DEF Loses, new
    <3>4. CASE ~here
      <4>1. content(w, j, i) = q \o new
        BY <3>1, <3>4, <2>1, <1>7, <1>8
      <4> HIDE DEF new, q
      <4> QED BY <4>1, <3>4, <2>4, <1>10 DEF Loses, new
    <3> QED BY <3>3, <3>4
  <2> QED BY <2>3, <2>4
<1> QED BY <1>13, <1>14, <1>15

\* What the beats of input j for i leave open when n beats of a frame for d have come.
ends(v, j, i, n, d) ==
    IF n # 0 /\ d = i /\ ~v.refusing THEN [src |-> j, pos |-> n] ELSE None

\* A voq keeps the streams it holds whole.
LEMMA ContentStream ==
    ASSUME NEW v, NEW j \in In, VoqType(v, j), NEW n, NEW d, VoqRoom(v, n, d),
           NEW beat, NEW e, Next1(j, n, d, beat, e),
           NEW sel \in Out \cup {None}, v.out # None => sel # None /\ sel = v.out_sel,
           NEW rdy \in BOOLEAN,
           NEW w, w = V!VoqClocked(v, beat, e, sel, rdy), NEW i \in Out,
           NEW n1, n1 = IF beat = None THEN n ELSE IF beat.last THEN 0 ELSE n + 1,
           NEW d1 \in Out, n1 # 0 => d1 = IF beat = None THEN d ELSE e,
           NEW o, Stream(o, content(v, j, i), ends(v, j, i, n, d))
    PROVE  /\ Stream(IF leaves(v, i, sel, rdy) THEN Opens(V!m_beat(v, sel)) ELSE o,
                     content(w, j, i), ends(w, j, i, n1, d1))
           /\ leaves(v, i, sel, rdy) => Accepts(o, V!m_beat(v, sel))
<1> DEFINE s  == content(v, j, i)
           lv == leaves(v, i, sel, rdy)
           x  == V!m_beat(v, sel)
           o1 == IF lv THEN Opens(x) ELSE o
           t  == Loses(s, lv)
           f  == ends(v, j, i, n, d)
           f1 == ends(w, j, i, n1, d1)
           S  == BeatOf(j)
<1>1. s \in Seq(S)
  BY ContentType
<1>2. content(w, j, i) = t \o gain(v, i, beat, e) /\ (lv => s # <<>> /\ s[1] = x)
  <2> HIDE DEF f, f1, o1, S
  <2>1. /\ content(w, j, i) = Loses(content(v, j, i), leaves(v, i, sel, rdy)) \o gain(v, i, beat, e)
        /\ leaves(v, i, sel, rdy) => /\ content(v, j, i) # <<>>
                                     /\ content(v, j, i)[1] = V!m_beat(v, sel)
    BY ContentStep, SMTT(60)
  <2> QED BY <2>1
<1>3. t \in Seq(S)
  <2> HIDE DEF s, lv, S
  <2> QED BY <1>1, <1>2, HeadTailProperties DEF Loses
<1>4. Stream(o1, t, f) /\ (lv => Accepts(o, x))
  <2>1. Stream(o, s, f)
    OBVIOUS
  <2> HIDE DEF s, lv, x, f, S
  <2>2. CASE lv
    <3>1. Accepts(o, s[1]) /\ Stream(Opens(s[1]), Tail(s), f)
      BY <2>1, <2>2, <1>1, <1>2, StreamTail
    <3> QED BY <2>2, <3>1, <1>2 DEF Loses
  <2>3. CASE ~lv
    BY <2>1, <2>3 DEF Loses
  <2> QED BY <2>2, <2>3
<1>5. /\ n \in Nat /\ n < MaxFrame /\ MaxFrame \in Nat /\ (v.sof <=> n = 0)
      /\ beat # None => /\ beat \in S /\ beat.src = j /\ beat.pos = n /\ beat.last \in BOOLEAN
                        /\ n = 0 \/ e = d
  BY SeamAssumption DEF VoqRoom, Next1, BeatOf
<1>6. CASE beat = None
  <2>1. w.refusing = v.refusing /\ n1 = n /\ gain(v, i, beat, e) = <<>>
    BY <1>6 DEF V!VoqClocked, V!drained, gain
  <2>2. f1 = f
    BY <1>6, <2>1 DEF ends
  <2>3. content(w, j, i) = t
    <3> HIDE DEF t, S
    <3> QED BY <2>1, <1>2, <1>3, ConcatEmptySeq
  <2> HIDE DEF t, f, f1, o1, lv, x
  <2> QED BY <2>2, <2>3, <1>4 DEF f1, o1, lv, x
<1>7. ASSUME beat # None, ~(i = e /\ ~V!dropping(v, e))
      PROVE  Stream(o1, content(w, j, i), f1)
  <2>1. w.refusing = V!dropping(v, e) /\ gain(v, i, beat, e) = <<>>
    BY <1>7 DEF V!VoqClocked, V!drained, V!dropping, gain
  <2>2. f = None
    BY <1>5, <1>7 DEF ends, V!dropping
  <2>3. f1 = None
    BY <1>7, <2>1 DEF ends
  <2>4. content(w, j, i) = t
    <3> HIDE DEF t, S
    <3> QED BY <2>1, <1>2, <1>3, ConcatEmptySeq
  <2> HIDE DEF t, f, f1, o1, lv, x
  <2> QED BY <2>2, <2>3, <2>4, <1>4
<1>8. ASSUME beat # None, i = e, ~V!dropping(v, e)
      PROVE  Stream(o1, content(w, j, i), f1)
  <2>1. ~w.refusing /\ gain(v, i, beat, e) = <<beat>>
    BY <1>8 DEF V!VoqClocked, V!drained, V!dropping, gain
  <2>2. Accepts(f, beat)
    <3>1. CASE n = 0
      BY <3>1, <1>5, <1>8 DEF ends, Accepts
    <3>2. CASE n # 0
      <4>1. f = [src |-> j, pos |-> n]
        BY <3>2, <1>5, <1>8 DEF ends, V!dropping
      <4>2. f # None
        <5>1. [src |-> j, pos |-> n] \in [src : In, pos : 0 .. MaxFrame]
          BY <1>5
        <5> QED BY <4>1, <5>1, SeamAssumption
      <4> HIDE DEF f
      <4> QED BY <4>1, <4>2, <1>5, <1>8 DEF Accepts
    <3> QED BY <3>1, <3>2
  <2>3. Opens(beat) = f1
    <3>1. CASE beat.last
      <4>1. n1 = 0
        BY <1>8, <3>1
      <4> QED BY <3>1, <4>1 DEF Opens, ends
    <3>2. CASE ~beat.last
      <4>1. n1 = n + 1 /\ n1 # 0 /\ d1 = e
        BY <1>5, <1>8, <3>2
      <4> QED BY <3>2, <4>1, <2>1, <1>5, <1>8 DEF Opens, ends
    <3> QED BY <3>1, <3>2
  <2>4. Stream(o1, t \o <<beat>>, Opens(beat))
    <3>1. beat \in S
      BY <1>5, <1>8
    <3> HIDE DEF t, f, o1, S
    <3> QED BY <3>1, <2>2, <1>3, <1>4, StreamAppend
  <2> HIDE DEF t, f1, o1
  <2> QED BY <2>1, <2>3, <2>4, <1>2
<1>9. Stream(o1, content(w, j, i), f1)
  <2> HIDE DEF o1, f1
  <2>1. CASE beat = None
    BY <2>1, <1>6 DEF o1, f1
  <2> QED BY <2>1, <1>7, <1>8
<1> QED BY <1>4, <1>9
-----------------------------------------------------------------------------
(* The skid of one output over one clock edge.  k is a skid, k1 what it    *)
(* becomes; o is what the output has open, o1 what it has then.            *)

SkidType(k) == /\ k.m \in BeatSet \cup {None} /\ k.skid \in BeatSet \cup {None}
               /\ k.skid # None => k.m # None
SkidFits(o, k) == /\ k.m # None => Accepts(o, k.m)
                  /\ k.skid # None => Accepts(Past(o, k.m), k.skid)
\* What is open when the skid has drained: what the next beat in has to fit.
owed(o, k) == Past(Past(o, k.m), k.skid)
takes(k, x) == x # None /\ s_tready(k)

LEMMA SkidStep ==
    ASSUME NEW k, SkidType(k), NEW o, SkidFits(o, k),
           NEW x \in BeatSet \cup {None}, takes(k, x) => Accepts(owed(o, k), x),
           NEW rdy \in BOOLEAN, rdy => k.m # None,
           NEW k1, k1 = Clocked(k, x, rdy),
           NEW o1, o1 = IF rdy THEN Opens(k.m) ELSE o
    PROVE  /\ SkidType(k1) /\ SkidFits(o1, k1)
           /\ owed(o1, k1) = IF takes(k, x) THEN Opens(x) ELSE owed(o, k)
<1> DEFINE a == k.m
           b == k.skid
           free == a = None \/ rdy
<1>1. /\ k1.m = IF ~free THEN a ELSE IF b # None THEN b ELSE x
      /\ k1.skid = IF x # None /\ b = None /\ ~free THEN x
                   ELSE IF free THEN None ELSE b
  BY DEF Clocked, NextM, NextSkid, out_free, s_tready
<1>2. /\ a \in BeatSet \cup {None} /\ b \in BeatSet \cup {None} /\ (b # None => a # None)
      /\ (a # None => Accepts(o, a)) /\ (b # None => Accepts(Past(o, a), b))
  BY DEF SkidType, SkidFits
<1>3. SkidType(k1)
  <2> HIDE DEF a, b
  <2> QED BY <1>1, <1>2 DEF SkidType
<1>4. takes(k, x) <=> x # None /\ b = None
  BY DEF takes, s_tready
<1>5. owed(o, k) = Past(Past(o, a), b)
  BY DEF owed
<1>6. rdy => a # None /\ o1 = Opens(a)
  OBVIOUS
<1>7. ~rdy => o1 = o
  OBVIOUS
<1>8. takes(k, x) => Accepts(owed(o, k), x)
  OBVIOUS
<1>9. /\ k1.m # None => Accepts(o1, k1.m)
      /\ k1.skid # None => Accepts(Past(o1, k1.m), k1.skid)
      /\ Past(Past(o1, k1.m), k1.skid) = IF takes(k, x) THEN Opens(x) ELSE owed(o, k)
  <2> HIDE DEF a, b
  <2>1. CASE a = None
    BY <2>1, <1>1, <1>2, <1>4, <1>5, <1>6, <1>7, <1>8 DEF Past
  <2>2. CASE a # None /\ rdy
    BY <2>2, <1>1, <1>2, <1>4, <1>5, <1>6, <1>7, <1>8 DEF Past
  <2>3. CASE a # None /\ ~rdy
    BY <2>3, <1>1, <1>2, <1>4, <1>5, <1>6, <1>7, <1>8 DEF Past
  <2> QED BY <2>1, <2>2, <2>3
<1> QED BY <1>3, <1>9 DEF SkidFits, owed

\* Its beats from input j.
shown(k, j) == from(k.m, j) \o from(k.skid, j)

LEMMA FromType ==
    ASSUME NEW b \in BeatSet \cup {None}, NEW j
    PROVE  from(b, j) \in Seq(BeatSet)
<1>1. <<>> \in Seq(BeatSet)
  BY EmptySeq
<1>2. CASE b = None
  BY <1>1, <1>2 DEF from
<1>3. CASE b # None
  <2>1. <<b>> \in Seq(BeatSet)
    BY <1>3
  <2> QED BY <2>1, <1>1 DEF from
<1> QED BY <1>2, <1>3

LEMMA ShownStep ==
    ASSUME NEW k, SkidType(k), NEW x \in BeatSet \cup {None}, NEW j,
           NEW rdy \in BOOLEAN, rdy => k.m # None,
           NEW k1, k1 = Clocked(k, x, rdy),
           NEW out \in BOOLEAN, out <=> rdy /\ k.m.src = j
    PROVE  /\ shown(k, j) \in Seq(BeatSet)
           /\ shown(k1, j) = Loses(shown(k, j), out)
                                \o (IF takes(k, x) THEN from(x, j) ELSE <<>>)
           /\ Loses(shown(k, j), out) \in Seq(BeatSet)
           /\ out => shown(k, j) # <<>> /\ shown(k, j)[1] = k.m
<1> DEFINE a == k.m
           b == k.skid
           A == from(a, j)
           B == from(b, j)
           X == from(x, j)
           free == a = None \/ rdy
           S == Seq(BeatSet)
<1>1. /\ k1.m = IF ~free THEN a ELSE IF b # None THEN b ELSE x
      /\ k1.skid = IF x # None /\ b = None /\ ~free THEN x
                   ELSE IF free THEN None ELSE b
  BY DEF Clocked, NextM, NextSkid, out_free, s_tready
<1>2. /\ a \in BeatSet \cup {None} /\ b \in BeatSet \cup {None} /\ (b # None => a # None)
  BY DEF SkidType
<1>3. A \in S /\ B \in S /\ X \in S /\ <<>> \in S
  BY <1>2, FromType, EmptySeq
<1>4. takes(k, x) <=> x # None /\ b = None
  BY DEF takes, s_tready
<1>5. from(None, j) = <<>>
  BY DEF from
<1>6. shown(k, j) = A \o B /\ shown(k1, j) = from(k1.m, j) \o from(k1.skid, j)
  BY DEF shown
<1>7. \A s \in S : s \o <<>> = s /\ <<>> \o s = s
  BY ConcatEmptySeq
<1>8. \A s, t \in S : s \o t \in S
  BY ConcatProperties
<1>9. out => A = <<a>> /\ a \in BeatSet
  BY <1>2 DEF from
<1>10. rdy /\ ~out => A = <<>>
  BY DEF from
<1>11. out => /\ A \o B # <<>> /\ (A \o B)[1] = a /\ Tail(A \o B) = B
  <2>1. B \in Seq(BeatSet)
    BY <1>3
  <2>2. a \in BeatSet => <<a>> \o B # <<>> /\ (<<a>> \o B)[1] = a /\ Tail(<<a>> \o B) = B
    <3> HIDE DEF B, a, BeatSet
    <3> QED BY <2>1, ConsProperties
  <2> HIDE DEF A, B, a
  <2> QED BY <2>2, <1>9
<1>12. Loses(shown(k, j), out) = IF rdy THEN B ELSE A \o B
  <2>1. CASE out
    BY <2>1, <1>6, <1>11 DEF Loses
  <2>2. CASE ~out /\ rdy
    <3>1. A = <<>>
      BY <2>2, <1>10
    <3> HIDE DEF A, B, S
    <3> QED BY <3>1, <2>2, <1>3, <1>6, <1>7 DEF Loses
  <2>3. CASE ~rdy
    BY <2>3, <1>6 DEF Loses
  <2> QED BY <2>1, <2>2, <2>3
<1> HIDE DEF A, B, X, S, a, b
<1>13. shown(k1, j) = (IF rdy THEN B ELSE A \o B) \o (IF takes(k, x) THEN X ELSE <<>>)
  <2>1. CASE rdy /\ b # None
    <3>1. shown(k1, j) = B \o <<>>
      BY <2>1, <1>1, <1>5, <1>6 DEF B
    <3> QED BY <3>1, <2>1, <1>4
  <2>2. CASE rdy /\ b = None
    <3>1. shown(k1, j) = X \o <<>> /\ B = <<>>
      BY <2>2, <1>1, <1>5, <1>6 DEF B, X
    <3>2. x = None => X = <<>>
      BY <1>5 DEF X
    <3> QED BY <3>1, <3>2, <2>2, <1>3, <1>4, <1>7
  <2>3. CASE ~rdy /\ a = None
    <3>1. shown(k1, j) = X \o <<>> /\ B = <<>> /\ A = <<>>
      BY <2>3, <1>1, <1>2, <1>5, <1>6 DEF A, B, X
    <3>2. x = None => X = <<>>
      BY <1>5 DEF X
    <3> QED BY <3>1, <3>2, <2>3, <1>2, <1>3, <1>4, <1>7
  <2>4. CASE ~rdy /\ a # None /\ b = None
    <3>1. shown(k1, j) = A \o (IF x # None THEN X ELSE <<>>) /\ B = <<>>
      BY <2>4, <1>1, <1>5, <1>6 DEF A, B, X
    <3> QED BY <3>1, <2>4, <1>3, <1>4, <1>7
  <2>5. CASE ~rdy /\ a # None /\ b # None
    <3>1. shown(k1, j) = A \o B
      BY <2>5, <1>1, <1>6 DEF A, B
    <3>2. A \o B \in S
      BY <1>3, <1>8
    <3> QED BY <3>1, <3>2, <2>5, <1>4, <1>7
  <2> QED BY <2>1, <2>2, <2>3, <2>4, <2>5
<1>14. A \o B \in S /\ (IF rdy THEN B ELSE A \o B) \in S
  BY <1>3, <1>8
<1> QED BY <1>6, <1>11, <1>12, <1>13, <1>14 DEF S, X, a
-----------------------------------------------------------------------------
(* One clock edge of the whole.                                            *)

\* What output i is in the middle of once its skid has drained, and what input j goes on
\* from when it sends to i.
due(i) == owed(open[i], sk[i])
begin(j, i) == IF paired[j] = i THEN due(i) ELSE None

Voqs    == \A j \in In : VoqType(voq[j], j) /\ VoqRoom(voq[j], beats[j], dest[j])
Skids   == \A i \in Out : SkidType(sk[i]) /\ SkidFits(open[i], sk[i])
\* An output nobody is paired with is between frames.
Between == \A i \in Out : (\A j \in In : paired[j] # i) => due(i) = None
Streams == \A j \in In, i \in Out :
              Stream(begin(j, i), content(voq[j], j, i),
                     ends(voq[j], j, i, beats[j], dest[j]))

FInv == /\ paired \in [In -> Out \cup {None}] /\ Matching /\ SeamHeld
        /\ Voqs /\ Skids /\ Between /\ Streams

\* What an edge without a reset does, component by component.
LEMMA EdgeParts ==
    ASSUME FInv, NEW arr \in Arrivals, NEW rdy \in Readies, Clock(arr, rdy)
    PROVE  /\ \A j \in In :
                 LET beat == Arrives(arr, j)
                     e    == Destination(arr, j)
                 IN  /\ Next1(j, beats[j], dest[j], beat, e)
                     /\ voq'[j] = V!VoqClocked(voq[j], beat, e, paired[j], ready(j))
                     /\ beats'[j] = IF beat = None THEN beats[j]
                                    ELSE IF beat.last THEN 0 ELSE beats[j] + 1
                     /\ dest'[j] \in Out
                     /\ beats'[j] # 0 => dest'[j] = IF beat = None THEN dest[j] ELSE e
           /\ \A i \in Out :
                 /\ sk'[i] = Clocked(sk[i], muxed(qbeat, i), i \in rdy)
                 /\ i \in rdy => sk[i].m # None
                 /\ open'[i] = IF i \in rdy THEN Opens(sk[i].m) ELSE open[i]
<1>1. ASSUME NEW j \in In
      PROVE  LET beat == Arrives(arr, j)
                 e    == Destination(arr, j)
             IN  /\ Next1(j, beats[j], dest[j], beat, e)
                 /\ voq'[j] = V!VoqClocked(voq[j], beat, e, paired[j], ready(j))
                 /\ beats'[j] = IF beat = None THEN beats[j]
                                ELSE IF beat.last THEN 0 ELSE beats[j] + 1
                 /\ dest'[j] \in Out
                 /\ beats'[j] # 0 => dest'[j] = IF beat = None THEN dest[j] ELSE e
  <2> DEFINE beat == Arrives(arr, j)
             e    == Destination(arr, j)
             n    == beats[j]
  <2>1. \E full : arr[j] \in Arrival(j, full)
    BY DEF Arrivals, Arriving
  <2>2. /\ n \in 0 .. MaxFrame - 1 /\ dest[j] \in Out
        /\ MaxFrame \in Nat \ {0} /\ NOut \in Nat \ {0}
    BY SeamAssumption, SwitchAssumption DEF FInv, Voqs, VoqRoom
  <2>3. arr[j] # None => /\ arr[j].last \in BOOLEAN /\ arr[j].d \in Out
                         /\ n > 0 => arr[j].d = dest[j]
                         /\ n + 1 = MaxFrame => arr[j].last
    <3> SUFFICES ASSUME arr[j] # None
                 PROVE  /\ arr[j].last \in BOOLEAN /\ arr[j].d \in Out
                        /\ n > 0 => arr[j].d = dest[j]
                        /\ n + 1 = MaxFrame => arr[j].last
      OBVIOUS
    <3>1. PICK full : arr[j] \in Arrival(j, full)
      BY <2>1
    <3>2. /\ arr[j] \in [last : BOOLEAN, d : Out]
          /\ n + 1 = MaxFrame => arr[j].last
          /\ IF n > 0 THEN arr[j].d = dest[j] ELSE ~full /\ <<j, arr[j].d>> \in Flows
      BY <3>1 DEF Arrival
    <3> HIDE DEF n
    <3> QED BY <3>2
  <2>4. arr[j] # None => /\ beat = [src |-> j, pos |-> n, last |-> arr[j].last]
                         /\ beat \in BeatOf(j) /\ beat # None /\ e = arr[j].d
    <3>1. ASSUME arr[j] # None
          PROVE  /\ beat = [src |-> j, pos |-> n, last |-> arr[j].last]
                 /\ beat \in BeatOf(j) /\ beat # None /\ e = arr[j].d
      <4>1. beat = [src |-> j, pos |-> n, last |-> arr[j].last] /\ e = arr[j].d
        BY <3>1 DEF Arrives, Destination
      <4>2. beat \in BeatOf(j)
        BY <4>1, <3>1, <2>2, <2>3 DEF BeatOf
      <4>3. beat \in [src : In, pos : 0 .. MaxFrame, last : BOOLEAN]
        BY <4>1, <3>1, <2>2, <2>3
      <4> HIDE DEF beat, e
      <4> QED BY <4>1, <4>2, <4>3, SeamAssumption
    <3> QED BY <3>1
  <2>5. arr[j] = None => beat = None /\ e = dest[j]
    BY DEF Arrives, Destination
  <2>6. Next1(j, n, dest[j], beat, e)
    <3> HIDE DEF beat, e, n
    <3>1. CASE arr[j] = None
      BY <3>1, <2>2, <2>5 DEF Next1, n
    <3>2. CASE arr[j] # None
      <4>1. beat.pos = n /\ beat.last = arr[j].last
        BY <3>2, <2>4
      <4>2. n = 0 \/ e = dest[j]
        BY <3>2, <2>2, <2>3, <2>4 DEF n
      <4> QED BY <3>2, <4>1, <4>2, <2>2, <2>3, <2>4 DEF Next1
    <3> QED BY <3>1, <3>2
  <2>7. voq'[j] = V!VoqClocked(voq[j], beat, e, paired[j], ready(j))
    BY DEF Clock
  <2>8. /\ beats'[j] = IF arr[j] = None THEN n ELSE IF arr[j].last THEN 0 ELSE n + 1
        /\ dest'[j] = IF beats'[j] = 0 THEN 0 ELSE e
    BY DEF Clock
  <2> HIDE DEF beat, e, n
  <2>9. beats'[j] = IF beat = None THEN n ELSE IF beat.last THEN 0 ELSE n + 1
    BY <2>4, <2>5, <2>8
  <2>10. dest'[j] \in Out
    <3>1. 0 \in Out
      BY <2>2 DEF Out
    <3>2. e \in Out
      BY <2>6 DEF Next1
    <3> QED BY <3>1, <3>2, <2>8
  <2>11. beats'[j] # 0 => dest'[j] = IF beat = None THEN dest[j] ELSE e
    BY <2>4, <2>5, <2>8
  <2> QED BY <2>6, <2>7, <2>9, <2>10, <2>11 DEF beat, e, n
<1>2. ASSUME NEW i \in Out
      PROVE  /\ sk'[i] = Clocked(sk[i], muxed(qbeat, i), i \in rdy)
             /\ i \in rdy => sk[i].m # None
             /\ open'[i] = IF i \in rdy THEN Opens(sk[i].m) ELSE open[i]
  <2>1. sk'[i] = Clocked(sk[i], muxed(qbeat, i), i \in rdy)
    BY DEF Clock, SwitchClock
  <2>2. i \in rdy => sk[i].m # None
    BY DEF Readies
  <2>3. open'[i] = IF i \in rdy THEN Opens(sk[i].m) ELSE open[i]
    BY <2>2 DEF Clock, Sent, Opens
  <2> QED BY <2>1, <2>2, <2>3
<1> QED BY <1>1, <1>2

\* What crosses the seam: the beat an output is offered is that of the input paired with
\* it, and it leaves the voq when the skid takes it.
LEMMA SeamStep ==
    ASSUME FInv, NEW i \in Out
    PROVE  /\ muxed(qbeat, i) \in BeatSet \cup {None}
           /\ takes(sk[i], muxed(qbeat, i)) =>
                 \E j \in In : paired[j] = i /\ leaves(voq[j], i, paired[j], ready(j))
           /\ \A j \in In :
                 paired[j] = i /\ leaves(voq[j], i, paired[j], ready(j))
                    => /\ takes(sk[i], muxed(qbeat, i))
                       /\ muxed(qbeat, i) = V!m_beat(voq[j], paired[j])
                       /\ muxed(qbeat, i).src = j /\ xfer(qbeat, j)
<1> DEFINE x == muxed(qbeat, i)
           senders == {j \in In : paired[j] = i /\ qbeat[j] # None}
<1>1. ASSUME NEW j \in In
      PROVE  /\ qbeat[j] = V!m_beat(voq[j], paired[j])
             /\ qbeat[j] # None => qbeat[j] \in BeatSet /\ qbeat[j].src = j
  <2>1. qbeat[j] = V!m_beat(voq[j], paired[j])
    BY DEF qbeat
  <2>2. voq[j].out \in BeatOf(j) \cup {None}
    BY DEF FInv, Voqs, VoqType
  <2>3. \A b \in BeatOf(j) : b \in BeatSet /\ b.src = j
    BY DEF BeatOf, BeatSet
  <2> QED BY <2>1, <2>2, <2>3 DEF V!m_beat
<1>2. i # None
  BY SeamAssumption
<1>3. \A j, l \in senders : j = l
  BY <1>2 DEF FInv, Matching
<1>4. \A j \in senders : x = qbeat[j]
  <2> SUFFICES ASSUME NEW j \in senders PROVE x = qbeat[j]
    OBVIOUS
  <2>1. x = qbeat[CHOOSE l \in senders : TRUE]
    BY DEF muxed
  <2>2. (CHOOSE l \in senders : TRUE) = j
    <3>1. (CHOOSE l \in senders : TRUE) \in senders
      OBVIOUS
    <3> HIDE DEF senders
    <3> QED BY <3>1, <1>3
  <2> QED BY <2>1, <2>2
<1>5. senders = {} => x = None
  BY DEF muxed
<1>6. ASSUME NEW j \in In, paired[j] = i
      PROVE  leaves(voq[j], i, paired[j], ready(j)) <=> j \in senders /\ s_tready(sk[i])
  BY <1>1, <1>2, <1>6 DEF leaves, ready
<1>7. x \in BeatSet \cup {None}
  <2>1. CASE senders = {}
    BY <2>1, <1>5
  <2>2. CASE senders # {}
    <3>1. PICK j \in senders : TRUE
      BY <2>2
    <3> QED BY <3>1, <1>1, <1>4
  <2> QED BY <2>1, <2>2
<1>8. ASSUME takes(sk[i], x)
      PROVE  \E j \in In : paired[j] = i /\ leaves(voq[j], i, paired[j], ready(j))
  <2>1. x # None /\ s_tready(sk[i])
    BY <1>8 DEF takes
  <2>2. PICK j \in senders : TRUE
    BY <2>1, <1>5
  <2>3. j \in In /\ paired[j] = i
    BY <2>2
  <2> QED BY <2>1, <2>2, <2>3, <1>6
<1>9. ASSUME NEW j \in In, paired[j] = i, leaves(voq[j], i, paired[j], ready(j))
      PROVE  /\ takes(sk[i], x) /\ x = V!m_beat(voq[j], paired[j]) /\ x.src = j
             /\ xfer(qbeat, j)
  <2>1. j \in senders /\ s_tready(sk[i])
    BY <1>6, <1>9
  <2>2. qbeat[j] # None /\ x = qbeat[j]
    BY <2>1, <1>4
  <2>3. xfer(qbeat, j)
    BY <2>1, <2>2, <1>2, <1>9 DEF xfer, ready
  <2> HIDE DEF x
  <2> QED BY <2>1, <2>2, <2>3, <1>1 DEF takes
<1> QED BY <1>7, <1>8, <1>9

\* At an edge the skid of output i takes what the input paired with it sends, if anything;
\* that fits what is due, and what is due afterwards follows from it.
LEMMA OutputStep ==
    ASSUME FInv, NEW arr \in Arrivals, NEW rdy \in Readies, Clock(arr, rdy), NEW i \in Out
    PROVE  /\ SkidType(sk'[i]) /\ SkidFits(open'[i], sk'[i])
           /\ owed(open'[i], sk'[i]) = IF takes(sk[i], muxed(qbeat, i))
                                       THEN Opens(muxed(qbeat, i)) ELSE due(i)
<1> DEFINE x == muxed(qbeat, i)
<1>1. /\ sk'[i] = Clocked(sk[i], x, i \in rdy)
      /\ i \in rdy => sk[i].m # None
      /\ open'[i] = IF i \in rdy THEN Opens(sk[i].m) ELSE open[i]
  BY EdgeParts
<1>2. SkidType(sk[i]) /\ SkidFits(open[i], sk[i])
  BY DEF FInv, Skids
<1>3. x \in BeatSet \cup {None}
  BY SeamStep
<1>4. ASSUME takes(sk[i], x) PROVE Accepts(due(i), x)
  <2>1. PICK j \in In : paired[j] = i /\ leaves(voq[j], i, paired[j], ready(j))
    BY <1>4, SeamStep
  <2> DEFINE beat == Arrives(arr, j)
             e    == Destination(arr, j)
  <2>2. x = V!m_beat(voq[j], paired[j])
    BY <2>1, SeamStep
  <2>3. /\ Next1(j, beats[j], dest[j], beat, e)
        /\ voq'[j] = V!VoqClocked(voq[j], beat, e, paired[j], ready(j))
        /\ beats'[j] = IF beat = None THEN beats[j]
                       ELSE IF beat.last THEN 0 ELSE beats[j] + 1
        /\ dest'[j] \in Out
        /\ beats'[j] # 0 => dest'[j] = IF beat = None THEN dest[j] ELSE e
    BY EdgeParts
  <2>4. /\ VoqType(voq[j], j) /\ VoqRoom(voq[j], beats[j], dest[j])
        /\ paired[j] \in Out \cup {None}
        /\ voq[j].out # None => paired[j] # None /\ paired[j] = voq[j].out_sel
        /\ ready(j) \in BOOLEAN
    BY DEF FInv, Voqs, SeamHeld, ready, s_tready
  <2>5. Stream(due(i), content(voq[j], j, i), ends(voq[j], j, i, beats[j], dest[j]))
    BY <2>1 DEF FInv, Streams, begin
  <2> HIDE DEF beat, e, x
  <2> QED BY <2>1, <2>2, <2>3, <2>4, <2>5, ContentStream
<1> HIDE DEF x
<1>5. takes(sk[i], x) => Accepts(owed(open[i], sk[i]), x)
  BY <1>4 DEF due
<1>6. PICK r \in BOOLEAN : r = (i \in rdy)
  <2>1. CASE i \in rdy
    <3>1. (i \in rdy) = TRUE
      BY <2>1
    <3> QED BY <3>1, Zenon
  <2>2. CASE i \notin rdy
    <3>1. (i \in rdy) = FALSE
      BY <2>2
    <3> QED BY <3>1, Zenon
  <2> QED BY <2>1, <2>2
<1>7. /\ sk'[i] = Clocked(sk[i], x, r) /\ (r => sk[i].m # None)
      /\ open'[i] = IF r THEN Opens(sk[i].m) ELSE open[i]
  BY <1>1, <1>6
<1>8. /\ SkidType(sk'[i]) /\ SkidFits(open'[i], sk'[i])
      /\ owed(open'[i], sk'[i]) = IF takes(sk[i], x) THEN Opens(x) ELSE owed(open[i], sk[i])
  BY <1>2, <1>3, <1>5, <1>7, SkidStep
<1> QED BY <1>8 DEF x, due

\* The pairing of input j over an edge.
LEMMA PairingStep ==
    ASSUME FInv, NEW arr \in Arrivals, NEW rdy \in Readies, Clock(arr, rdy), NEW j \in In
    PROVE  /\ paired'[j] \in Out \cup {None}
           /\ \A i \in Out : paired[j] = i /\ paired'[j] # i =>
                 /\ leaves(voq[j], i, paired[j], ready(j))
                 /\ Opens(V!m_beat(voq[j], paired[j])) = None
           /\ \A i \in Out : paired[j] # i /\ paired'[j] = i =>
                 \A l \in In : paired[l] # i
           /\ \A i \in Out : paired[j] = i /\ paired'[j] # i => paired'[j] = None
<1> DEFINE a == acc(gnt(req(navail)))
<1>1. paired'[j] = IF paired[j] # None
                   THEN IF xfer(qbeat, j) /\ qbeat[j].last THEN None ELSE paired[j]
                   ELSE IF a[j] # {} THEN CHOOSE o \in a[j] : TRUE ELSE None
  BY DEF Clock, SwitchClock, pairedNext
<1>2. ASSUME NEW o \in a[j]
      PROVE  o \in Out /\ \A l \in In : paired[l] # o
  BY MatchProperties
<1>3. None \notin Out /\ paired[j] \in Out \cup {None}
  BY SeamAssumption DEF FInv
<1> HIDE DEF a
<1>4. CASE paired[j] # None
  <2>1. ASSUME paired'[j] # paired[j]
        PROVE  /\ paired'[j] = None
               /\ leaves(voq[j], paired[j], paired[j], ready(j))
               /\ Opens(V!m_beat(voq[j], paired[j])) = None
    <3>1. xfer(qbeat, j) /\ qbeat[j].last /\ paired'[j] = None
      BY <1>1, <1>4, <2>1
    <3>2. qbeat[j] = V!m_beat(voq[j], paired[j])
      BY DEF qbeat
    <3> QED BY <3>1, <3>2 DEF xfer, leaves, Opens
  <2> QED BY <1>3, <1>4, <2>1
<1>5. CASE paired[j] = None
  <2>1. paired'[j] # None => paired'[j] \in a[j]
    BY <1>1, <1>5
  <2> QED BY <1>2, <1>3, <1>5, <2>1
<1> QED BY <1>4, <1>5

LEMMA BetweenClock ==
    ASSUME FInv, NEW arr \in Arrivals, NEW rdy \in Readies, Clock(arr, rdy)
    PROVE  Between'
<1> SUFFICES ASSUME NEW i \in Out, \A j \in In : paired'[j] # i
             PROVE  owed(open'[i], sk'[i]) = None
  BY DEF Between, due
<1>1. owed(open'[i], sk'[i]) = IF takes(sk[i], muxed(qbeat, i))
                               THEN Opens(muxed(qbeat, i)) ELSE due(i)
  BY OutputStep
<1>2. CASE \A j \in In : paired[j] # i
  <2>1. due(i) = None
    BY <1>2 DEF FInv, Between
  <2>2. ~takes(sk[i], muxed(qbeat, i))
    BY <1>2, SeamStep
  <2> QED BY <1>1, <2>1, <2>2
<1>3. ASSUME NEW j \in In, paired[j] = i
      PROVE  owed(open'[i], sk'[i]) = None
  <2>1. /\ leaves(voq[j], i, paired[j], ready(j))
        /\ Opens(V!m_beat(voq[j], paired[j])) = None
    BY <1>3, PairingStep
  <2>2. takes(sk[i], muxed(qbeat, i)) /\ muxed(qbeat, i) = V!m_beat(voq[j], paired[j])
    BY <1>3, <2>1, SeamStep
  <2> QED BY <1>1, <2>1, <2>2
<1> QED BY <1>2, <1>3

LEMMA StreamsClock ==
    ASSUME FInv, NEW arr \in Arrivals, NEW rdy \in Readies, Clock(arr, rdy),
           NEW j \in In, NEW i \in Out
    PROVE  Stream(IF paired'[j] = i THEN owed(open'[i], sk'[i]) ELSE None,
                  content(voq'[j], j, i), ends(voq'[j], j, i, beats'[j], dest'[j]))
<1> DEFINE beat == Arrives(arr, j)
           e    == Destination(arr, j)
           lv   == leaves(voq[j], i, paired[j], ready(j))
           x    == V!m_beat(voq[j], paired[j])
           c1   == content(voq'[j], j, i)
           f1   == ends(voq'[j], j, i, beats'[j], dest'[j])
           o1   == IF paired'[j] = i THEN owed(open'[i], sk'[i]) ELSE None
<1>1. /\ Next1(j, beats[j], dest[j], beat, e)
      /\ voq'[j] = V!VoqClocked(voq[j], beat, e, paired[j], ready(j))
      /\ beats'[j] = IF beat = None THEN beats[j]
                     ELSE IF beat.last THEN 0 ELSE beats[j] + 1
      /\ dest'[j] \in Out
      /\ beats'[j] # 0 => dest'[j] = IF beat = None THEN dest[j] ELSE e
  BY EdgeParts
<1>2. /\ VoqType(voq[j], j) /\ VoqRoom(voq[j], beats[j], dest[j])
      /\ paired[j] \in Out \cup {None}
      /\ voq[j].out # None => paired[j] # None /\ paired[j] = voq[j].out_sel
      /\ ready(j) \in BOOLEAN
      /\ Stream(begin(j, i), content(voq[j], j, i), ends(voq[j], j, i, beats[j], dest[j]))
  BY DEF FInv, Voqs, SeamHeld, Streams, ready, s_tready
<1>3. Stream(IF lv THEN Opens(x) ELSE begin(j, i), c1, f1)
  <2> HIDE DEF beat, e
  <2> QED BY <1>1, <1>2, ContentStream
<1>4. owed(open'[i], sk'[i]) = IF takes(sk[i], muxed(qbeat, i))
                               THEN Opens(muxed(qbeat, i)) ELSE due(i)
  BY OutputStep
<1>5. o1 = IF lv THEN Opens(x) ELSE begin(j, i)
  <2>1. CASE paired[j] = i /\ lv
    <3>1. owed(open'[i], sk'[i]) = Opens(x)
      BY <2>1, <1>4, SeamStep
    <3>2. paired'[j] # i => Opens(x) = None
      BY <2>1, PairingStep
    <3> HIDE DEF x, lv
    <3> QED BY <2>1, <3>1, <3>2
  <2>2. CASE paired[j] = i /\ ~lv
    <3>1. paired'[j] = i
      BY <2>2, PairingStep
    <3>2. ~takes(sk[i], muxed(qbeat, i))
      <4> SUFFICES ASSUME takes(sk[i], muxed(qbeat, i)) PROVE FALSE
        OBVIOUS
      <4>1. PICK l \in In : paired[l] = i /\ leaves(voq[l], i, paired[l], ready(l))
        BY SeamStep
      <4>2. i # None
        BY SeamAssumption
      <4>3. l = j
        BY <2>2, <4>1, <4>2 DEF FInv, Matching
      <4> QED BY <2>2, <4>1, <4>3
    <3> HIDE DEF lv
    <3> QED BY <2>2, <3>1, <3>2, <1>4 DEF begin
  <2>3. CASE paired[j] # i
    <3>1. ~lv /\ begin(j, i) = None
      BY <2>3 DEF leaves, begin
    <3>2. ASSUME paired'[j] = i PROVE owed(open'[i], sk'[i]) = None
      <4>1. \A l \in In : paired[l] # i
        BY <2>3, <3>2, PairingStep
      <4>2. due(i) = None /\ ~takes(sk[i], muxed(qbeat, i))
        BY <4>1, SeamStep DEF FInv, Between
      <4> QED BY <4>2, <1>4
    <3> HIDE DEF lv
    <3> QED BY <3>1, <3>2
  <2> QED BY <2>1, <2>2, <2>3
<1> HIDE DEF o1, c1, f1, lv, x
<1>6. Stream(o1, c1, f1)
  BY <1>3, <1>5
<1> QED BY <1>6 DEF o1, c1, f1

LEMMA FInvClock ==
    ASSUME FInv, NEW arr \in Arrivals, NEW rdy \in Readies, Clock(arr, rdy)
    PROVE  FInv'
<1>1. paired' \in [In -> Out \cup {None}]
  <2>1. \A j \in In : paired'[j] \in Out \cup {None}
    BY PairingStep
  <2>2. paired' = [j \in In |-> paired'[j]]
    BY DEF Clock, SwitchClock, pairedNext
  <2> QED BY <2>1, <2>2
<1>2. Matching' /\ SeamHeld'
  <2>1. SwitchClock(navail, qbeat, rdy)
    BY DEF Clock
  <2> QED BY <2>1, MatchingClock, SeamClock DEF FInv
<1>3. Voqs'
  <2> SUFFICES ASSUME NEW j \in In
               PROVE  VoqType(voq'[j], j) /\ VoqRoom(voq'[j], beats'[j], dest'[j])
    BY DEF Voqs
  <2> DEFINE beat == Arrives(arr, j)
             e    == Destination(arr, j)
  <2>1. /\ Next1(j, beats[j], dest[j], beat, e)
        /\ voq'[j] = V!VoqClocked(voq[j], beat, e, paired[j], ready(j))
        /\ beats'[j] = IF beat = None THEN beats[j]
                       ELSE IF beat.last THEN 0 ELSE beats[j] + 1
        /\ dest'[j] \in Out
        /\ beats'[j] # 0 => dest'[j] = IF beat = None THEN dest[j] ELSE e
    BY EdgeParts
  <2>2. /\ VoqType(voq[j], j) /\ VoqRoom(voq[j], beats[j], dest[j])
        /\ paired[j] \in Out \cup {None} /\ ready(j) \in BOOLEAN
    BY DEF FInv, Voqs, ready, s_tready
  <2> HIDE DEF beat, e
  <2>3. VoqType(voq'[j], j)
    BY <2>1, <2>2, VoqTypeStep
  <2>4. VoqRoom(voq'[j], beats'[j], dest'[j])
    BY <2>1, <2>2, VoqRoomStep
  <2> QED BY <2>3, <2>4
<1>4. Skids'
  BY OutputStep DEF Skids
<1>5. Between'
  BY BetweenClock
<1>6. Streams'
  BY StreamsClock DEF Streams, begin, due
<1> QED BY <1>1, <1>2, <1>3, <1>4, <1>5, <1>6 DEF FInv

\* Nothing inside, between frames.
Fresh == /\ paired = [j \in In |-> None]
         /\ sk = [i \in Out |-> Empty]
         /\ voq = [j \in In |-> V!EmptyVoq]
         /\ beats = [j \in In |-> 0]
         /\ dest = [j \in In |-> 0]
         /\ open = [i \in Out |-> None]

LEMMA FreshVoq ==
    ASSUME NEW v, v = V!EmptyVoq, NEW j, NEW i \in Out
    PROVE  /\ v.q[i] = <<>> /\ v.out = None /\ v.sof = TRUE
           /\ content(v, j, i) = <<>>
<1>1. v.q[i] = <<>> /\ v.out = None /\ v.sof = TRUE
  BY DEF V!EmptyVoq
<1>2. content(v, j, i) = <<>>
  BY <1>1, ConcatEmptySeq, EmptySeq DEF content, from
<1> QED BY <1>1, <1>2

LEMMA FreshInv == Fresh => FInv
<1> SUFFICES ASSUME Fresh PROVE FInv
  OBVIOUS
<1>1. 0 \in Out /\ 0 \in 0 .. MaxFrame - 1 /\ VoqDepth \in Nat /\ None \notin Out
  BY SeamAssumption, SwitchAssumption DEF Out
<1>2. paired \in [In -> Out \cup {None}] /\ Matching
  BY <1>1 DEF Fresh, Matching
<1>3. SeamHeld
  BY DEF Fresh, SeamHeld, V!EmptyVoq
<1>4. Voqs
  <2> SUFFICES ASSUME NEW j \in In
               PROVE  VoqType(voq[j], j) /\ VoqRoom(voq[j], beats[j], dest[j])
    BY DEF Voqs
  <2> DEFINE v == voq[j]
  <2>1. /\ v.q = [i \in Out |-> <<>>] /\ v.out = None /\ v.sof = TRUE
        /\ v.refusing = FALSE /\ v.out_sel = (CHOOSE d \in Out : TRUE)
        /\ beats[j] = 0 /\ dest[j] = 0
    BY DEF Fresh, V!EmptyVoq
  <2>2. <<>> \in Seq(BeatOf(j)) /\ Len(<<>>) = 0
    BY EmptySeq
  <2>3. v.out_sel \in Out
    BY <1>1, <2>1
  <2>4. v.q \in [Out -> Seq(BeatOf(j))]
    BY <2>1, <2>2
  <2>5. \A i \in Out : Len(v.q[i]) <= VoqDepth
    BY <1>1, <2>1, <2>2
  <2> HIDE DEF v
  <2>6. VoqType(v, j)
    BY <2>1, <2>3, <2>4 DEF VoqType
  <2>7. VoqRoom(v, beats[j], dest[j])
    BY <2>1, <2>5, <1>1 DEF VoqRoom
  <2> QED BY <2>6, <2>7 DEF v
<1>5. ASSUME NEW i \in Out
      PROVE  SkidType(sk[i]) /\ SkidFits(open[i], sk[i]) /\ due(i) = None
  <2>1. sk[i].m = None /\ sk[i].skid = None /\ open[i] = None
    BY DEF Fresh, Empty
  <2> QED BY <2>1 DEF SkidType, SkidFits, due, owed, Past
<1>6. Streams
  <2> SUFFICES ASSUME NEW j \in In, NEW i \in Out
               PROVE  Stream(begin(j, i), content(voq[j], j, i),
                             ends(voq[j], j, i, beats[j], dest[j]))
    BY DEF Streams
  <2>1. begin(j, i) = None
    BY <1>5 DEF begin
  <2>2. ends(voq[j], j, i, beats[j], dest[j]) = None
    BY DEF Fresh, ends
  <2>3. content(voq[j], j, i) = <<>>
    BY FreshVoq DEF Fresh
  <2> QED BY <2>1, <2>2, <2>3, EmptyStream
<1> QED BY <1>2, <1>3, <1>4, <1>5, <1>6 DEF FInv, Skids, Between

LEMMA FInvStep == FInv /\ [Next]_seamVars => FInv'
<1> SUFFICES ASSUME FInv, [Next]_seamVars PROVE FInv'
  OBVIOUS
<1>1. CASE \E arr \in Arrivals, rdy \in Readies : Clock(arr, rdy)
  BY <1>1, FInvClock
<1>2. CASE Reset
  <2>1. Fresh'
    BY <1>2 DEF Reset, SwitchReset, Fresh
  <2>2. Fresh' => FInv'
    BY FreshInv, PTL
  <2> QED BY <2>1, <2>2
<1>3. CASE UNCHANGED seamVars
  <2>1. /\ paired' = paired /\ sk' = sk /\ voq' = voq /\ beats' = beats
        /\ dest' = dest /\ open' = open
    BY <1>3 DEF seamVars
  <2> QED BY <2>1 DEF FInv, Matching, SeamHeld, Voqs, Skids, Between, Streams, begin, due
<1> QED BY <1>1, <1>2, <1>3 DEF Next
-----------------------------------------------------------------------------
(* The switch with its voqs implements the promise.                        *)

LEMMA FlowIs ==
    ASSUME NEW j \in In, NEW i \in Out
    PROVE  flow[j][i] = shown(sk[i], j) \o content(voq[j], j, i)
  BY DEF flow, inSkid, queued, shown, content

Cat(s, t) == s \o t

LEMMA Assoc == \A s, t, u \in Seq(BeatSet) : Cat(Cat(s, t), u) = Cat(s, Cat(t, u))
  BY ConcatAssociative DEF Cat

LEMMA Joined == \A s, t \in Seq(BeatSet) : Cat(s, t) \in Seq(BeatSet)
  BY ConcatProperties DEF Cat

\* Two parts in a row: what the first gains is what the second loses.
LEMMA Rejoin ==
    ASSUME NEW p \in Seq(BeatSet), NEW x \in Seq(BeatSet), NEW r \in Seq(BeatSet),
           NEW g \in Seq(BeatSet), NEW b, Cat(x, r) = b
    PROVE  Cat(Cat(p, x), Cat(r, g)) = Cat(Cat(p, b), g)
<1>1. Cat(r, g) \in Seq(BeatSet) /\ Cat(x, r) \in Seq(BeatSet)
  BY Joined
<1>2. Cat(Cat(p, x), Cat(r, g)) = Cat(p, Cat(x, Cat(r, g)))
  BY <1>1, Assoc
<1>3. Cat(x, Cat(r, g)) = Cat(Cat(x, r), g)
  BY Assoc
<1>4. Cat(p, Cat(Cat(x, r), g)) = Cat(Cat(p, Cat(x, r)), g)
  BY <1>1, Assoc
<1> QED BY <1>2, <1>3, <1>4

LEMMA HeadOfFirst ==
    ASSUME NEW a \in Seq(BeatSet), NEW b \in Seq(BeatSet), a # <<>>
    PROVE  /\ a \o b \in Seq(BeatSet) /\ a \o b # <<>>
           /\ Head(a \o b) = a[1] /\ Tail(a \o b) = Tail(a) \o b
<1> DEFINE h == a[1]
           t == Tail(a)
           s == <<h>>
<1>1. h \in BeatSet /\ t \in Seq(BeatSet) /\ s \in Seq(BeatSet) /\ Head(a) = h
  BY HeadTailProperties
<1>2. s \o t = a
  BY <1>1, ConsProperties
<1>3. /\ s \o (t \o b) \in Seq(BeatSet) /\ s \o (t \o b) # <<>>
      /\ (s \o (t \o b))[1] = h /\ Tail(s \o (t \o b)) = t \o b
  <2>1. t \o b \in Seq(BeatSet)
    BY <1>1, Joined DEF Cat
  <2> HIDE DEF h, t
  <2> QED BY <1>1, <2>1, ConsProperties
<1> HIDE DEF h, t, s
<1>4. a \o b = s \o (t \o b)
  <2>1. Cat(Cat(s, t), b) = Cat(s, Cat(t, b))
    BY <1>1, Assoc
  <2>2. Cat(s, t) = a /\ Cat(t, b) = t \o b
    BY <1>2 DEF Cat
  <2>3. Cat(a, b) = Cat(s, t \o b)
    BY <2>1, <2>2
  <2> QED BY <2>3 DEF Cat
<1>5. Head(a \o b) = h
  BY <1>3, <1>4, HeadTailProperties
<1> QED BY <1>3, <1>4, <1>5 DEF h, t

\* What the skid takes is what the voq loses: a flow loses the beat sent, and gains what
\* arrives and is admitted.
LEMMA FlowStep ==
    ASSUME FInv, NEW arr \in Arrivals, NEW rdy \in Readies, Clock(arr, rdy),
           NEW j \in In, NEW i \in Out,
           NEW out \in BOOLEAN, out <=> i \in rdy /\ sk[i].m.src = j
    PROVE  /\ flow'[j][i] = Loses(flow[j][i], out)
                              \o gain(voq[j], i, Arrives(arr, j), Destination(arr, j))
           /\ Loses(flow[j][i], out) \in Seq(BeatSet)
           /\ out => flow[j][i] # <<>> /\ Head(flow[j][i]) = sk[i].m
<1> DEFINE beat == Arrives(arr, j)
           e    == Destination(arr, j)
           x    == muxed(qbeat, i)
           lv   == leaves(voq[j], i, paired[j], ready(j))
           A == shown(sk[i], j)
           B == content(voq[j], j, i)
           X == IF takes(sk[i], x) THEN from(x, j) ELSE <<>>
           G == gain(voq[j], i, beat, e)
           S == Seq(BeatSet)
<1>1. /\ Next1(j, beats[j], dest[j], beat, e)
      /\ voq'[j] = V!VoqClocked(voq[j], beat, e, paired[j], ready(j))
      /\ sk'[i] = Clocked(sk[i], x, i \in rdy)
      /\ i \in rdy => sk[i].m # None
  BY EdgeParts
<1>2. /\ VoqType(voq[j], j) /\ VoqRoom(voq[j], beats[j], dest[j])
      /\ paired[j] \in Out \cup {None}
      /\ voq[j].out # None => paired[j] # None /\ paired[j] = voq[j].out_sel
      /\ ready(j) \in BOOLEAN /\ SkidType(sk[i])
  BY DEF FInv, Voqs, Skids, SeamHeld, ready, s_tready
<1>3. x \in BeatSet \cup {None}
  BY SeamStep
<1>4. /\ content(voq'[j], j, i) = Loses(B, lv) \o G
      /\ lv => B # <<>> /\ B[1] = V!m_beat(voq[j], paired[j])
  <2> HIDE DEF beat, e
  <2>1. PICK v, w, sel, r : /\ v = voq[j] /\ w = voq'[j] /\ sel = paired[j] /\ r = ready(j)
    OBVIOUS
  <2>2. /\ VoqType(v, j) /\ VoqRoom(v, beats[j], dest[j])
        /\ Next1(j, beats[j], dest[j], beat, e)
        /\ sel \in Out \cup {None} /\ r \in BOOLEAN
        /\ v.out # None => sel # None /\ sel = v.out_sel
        /\ w = V!VoqClocked(v, beat, e, sel, r)
    BY <1>1, <1>2, <2>1
  <2>3. /\ content(w, j, i) = Loses(content(v, j, i), leaves(v, i, sel, r))
                                 \o gain(v, i, beat, e)
        /\ leaves(v, i, sel, r) => /\ content(v, j, i) # <<>>
                                   /\ content(v, j, i)[1] = V!m_beat(v, sel)
    BY <2>2, ContentStep
  <2> QED BY <2>1, <2>3
<1>5. /\ A \in S /\ Loses(A, out) \in S
      /\ shown(sk'[i], j) = Loses(A, out) \o X
      /\ out => A # <<>> /\ A[1] = sk[i].m
  <2>1. PICK r \in BOOLEAN : r = (i \in rdy)
    <3>1. CASE i \in rdy
      <4>1. (i \in rdy) = TRUE
        BY <3>1
      <4> QED BY <4>1, Zenon
    <3>2. CASE i \notin rdy
      <4>1. (i \in rdy) = FALSE
        BY <3>2
      <4> QED BY <4>1, Zenon
    <3> QED BY <3>1, <3>2
  <2>2. /\ sk'[i] = Clocked(sk[i], x, r) /\ (r => sk[i].m # None)
        /\ out <=> r /\ sk[i].m.src = j
    BY <1>1, <2>1
  <2> HIDE DEF x
  <2>3. PICK k, k1 : k = sk[i] /\ k1 = sk'[i]
    OBVIOUS
  <2>4. /\ SkidType(k) /\ k1 = Clocked(k, x, r) /\ (r => k.m # None)
        /\ out <=> r /\ k.m.src = j
    BY <1>2, <2>2, <2>3
  <2>5. /\ shown(k, j) \in Seq(BeatSet)
        /\ shown(k1, j) = Loses(shown(k, j), out)
                             \o (IF takes(k, x) THEN from(x, j) ELSE <<>>)
        /\ Loses(shown(k, j), out) \in Seq(BeatSet)
        /\ out => shown(k, j) # <<>> /\ shown(k, j)[1] = k.m
    BY <1>3, <2>4, ShownStep, SMTT(60)
  <2> QED BY <2>3, <2>5
<1>6. BeatOf(j) \subseteq BeatSet
  BY DEF BeatOf, BeatSet
<1>7. B \in Seq(BeatOf(j)) /\ G \in Seq(BeatOf(j))
  BY <1>1, <1>2, ContentType, GainType DEF Next1
<1>8. B \in S /\ G \in S
  <2> HIDE DEF B, G
  <2> QED BY <1>6, <1>7, SeqMonotonic
<1>9. X \in S
  BY <1>3, FromType, EmptySeq
<1>10. Loses(B, lv) \in S
  <2> HIDE DEF B, lv
  <2> QED BY <1>4, <1>8, HeadTailProperties DEF Loses
<1>11. X \o Loses(B, lv) = B
  <2>1. CASE lv
    <3>1. paired[j] = i
      BY <2>1 DEF leaves
    <3>2. takes(sk[i], x) /\ x = V!m_beat(voq[j], paired[j]) /\ x.src = j
      BY <2>1, <3>1, SeamStep
    <3>3. x # None
      BY <3>2 DEF takes
    <3>4. X = <<x>> /\ x \in BeatSet
      BY <3>2, <3>3, <1>3 DEF from
    <3>5. B # <<>> /\ B[1] = x /\ Loses(B, lv) = Tail(B)
      BY <2>1, <3>2, <1>4 DEF Loses
    <3> HIDE DEF B, X, x, lv
    <3>6. <<Head(B)>> \o Tail(B) = B
      BY <3>4, <3>5, <1>8, ConsProperties
    <3>7. Head(B) = B[1]
      BY <3>5, <1>8, HeadTailProperties
    <3> QED BY <3>4, <3>5, <3>6, <3>7
  <2>2. CASE ~lv
    <3>1. X = <<>>
      <4> SUFFICES ASSUME takes(sk[i], x) PROVE from(x, j) = <<>>
        OBVIOUS
      <4>1. PICK l \in In : paired[l] = i /\ leaves(voq[l], i, paired[l], ready(l))
        BY SeamStep
      <4>2. x.src = l
        BY <4>1, SeamStep
      <4>3. l # j
        BY <2>2, <4>1
      <4> QED BY <4>2, <4>3 DEF from
    <3>2. Loses(B, lv) = B
      BY <2>2 DEF Loses
    <3> HIDE DEF B, X, lv
    <3> QED BY <3>1, <3>2, <1>8, ConcatEmptySeq
  <2> QED BY <2>1, <2>2
<1>12. flow[j][i] = A \o B /\ flow'[j][i] = shown(sk'[i], j) \o content(voq'[j], j, i)
  <2>1. flow[j][i] = A \o B
    BY FlowIs
  <2>2. flow'[j][i] = shown(sk'[i], j) \o content(voq'[j], j, i)
    BY DEF flow, inSkid, queued, shown, content
  <2> QED BY <2>1, <2>2
<1> HIDE DEF A, B, X, G, lv, x
<1>13. Loses(flow[j][i], out) = Loses(A, out) \o B /\ (out => /\ flow[j][i] # <<>>
                                                          /\ Head(flow[j][i]) = sk[i].m)
  <2>1. CASE out
    <3>1. /\ A \o B # <<>> /\ Head(A \o B) = A[1] /\ Tail(A \o B) = Tail(A) \o B
      BY <2>1, <1>5, <1>8, HeadOfFirst
    <3> QED BY <2>1, <3>1, <1>5, <1>12 DEF Loses
  <2>2. CASE ~out
    BY <2>2, <1>12 DEF Loses
  <2> QED BY <2>1, <2>2
<1>14. Loses(A, out) \o B \in S
  BY <1>5, <1>8, ConcatProperties
<1>15. flow'[j][i] = Loses(flow[j][i], out) \o G
  <2>1. /\ flow'[j][i] = Cat(shown(sk'[i], j), content(voq'[j], j, i))
        /\ shown(sk'[i], j) = Cat(Loses(A, out), X)
        /\ content(voq'[j], j, i) = Cat(Loses(B, lv), G)
        /\ Cat(X, Loses(B, lv)) = B
        /\ Loses(flow[j][i], out) = Cat(Loses(A, out), B)
    BY <1>4, <1>5, <1>11, <1>12, <1>13 DEF Cat
  <2>2. /\ Loses(A, out) \in Seq(BeatSet) /\ X \in Seq(BeatSet)
        /\ Loses(B, lv) \in Seq(BeatSet) /\ G \in Seq(BeatSet)
    BY <1>5, <1>8, <1>9, <1>10
  <2>3. flow'[j][i] = Cat(Loses(flow[j][i], out), G)
    BY <2>1, <2>2, Rejoin
  <2> QED BY <2>3 DEF Cat
<1> QED BY <1>13, <1>14, <1>15 DEF G

\* An edge is a step of the promised switch: each output whose reader is ready sends what
\* its skid shows, and each flow takes in what its voq admits.
LEMMA ClockIsStep ==
    ASSUME FInv, NEW arr \in Arrivals, NEW rdy \in Readies, Clock(arr, rdy)
    PROVE  \E sent \in [Out -> In \cup {None}] : Promise!Step(sent)
<1> DEFINE sent == [i \in Out |-> IF i \in rdy THEN sk[i].m.src ELSE None]
<1>1. ASSUME NEW i \in Out
      PROVE  /\ i \in rdy => sk[i].m # None /\ sk[i].m \in BeatSet /\ sk[i].m.src \in In
                             /\ Accepts(open[i], sk[i].m)
             /\ open'[i] = IF i \in rdy THEN Opens(sk[i].m) ELSE open[i]
  <2>1. /\ i \in rdy => sk[i].m # None
        /\ open'[i] = IF i \in rdy THEN Opens(sk[i].m) ELSE open[i]
    BY EdgeParts
  <2>2. sk[i].m \in BeatSet \cup {None} /\ (sk[i].m # None => Accepts(open[i], sk[i].m))
    BY DEF FInv, Skids, SkidType, SkidFits
  <2>3. \A b \in BeatSet : b.src \in In
    BY DEF BeatSet
  <2> QED BY <2>1, <2>2, <2>3
<1>2. sent \in [Out -> In \cup {None}]
  BY <1>1
<1>3. ASSUME NEW i \in Out
      PROVE  /\ sent[i] = IF i \in rdy THEN sk[i].m.src ELSE None
             /\ \A j \in In : sent[i] = j <=> i \in rdy /\ sk[i].m.src = j
  <2>1. None \notin In
    BY SeamAssumption
  <2>2. sent[i] = IF i \in rdy THEN sk[i].m.src ELSE None
    OBVIOUS
  <2> HIDE DEF sent
  <2> QED BY <2>1, <2>2
<1> HIDE DEF sent
<1>4. ASSUME NEW j \in In, NEW i \in Out, sent[i] = j
      PROVE  flow[j][i] # <<>> /\ Head(flow[j][i]) = sk[i].m /\ i \in rdy /\ sk[i].m.src = j
  <2>1. i \in rdy /\ sk[i].m.src = j
    BY <1>3, <1>4
  <2> QED BY <2>1, FlowStep
<1>5. ASSUME NEW i \in Out, sent[i] # None PROVE Promise!MaySend(i, sent[i])
  <2>1. PICK j \in In : sent[i] = j
    BY <1>2, <1>5
  <2>2. flow[j][i] # <<>> /\ Head(flow[j][i]) = sk[i].m /\ i \in rdy /\ sk[i].m.src = j
    BY <2>1, <1>4
  <2>3. Accepts(open[i], sk[i].m)
    BY <1>1, <2>2
  <2> QED BY <2>1, <2>2, <2>3 DEF Promise!MaySend, Accepts
<1>6. open' = [i \in Out |-> IF sent[i] = None THEN open[i] ELSE Promise!Opened(i, sent[i])]
  <2>1. ASSUME NEW i \in Out
        PROVE  open'[i] = IF sent[i] = None THEN open[i] ELSE Promise!Opened(i, sent[i])
    <3>1. CASE sent[i] = None
      <4>1. i \notin rdy
        BY <3>1, <1>1, <1>3, SeamAssumption
      <4> QED BY <3>1, <4>1, <1>1
    <3>2. CASE sent[i] # None
      <4>1. PICK j \in In : sent[i] = j
        BY <1>2, <3>2
      <4>2. Head(flow[j][i]) = sk[i].m /\ i \in rdy /\ sk[i].m.src = j
        BY <4>1, <1>4
      <4>3. open'[i] = Opens(sk[i].m)
        BY <1>1, <4>2
      <4> QED BY <3>2, <4>1, <4>2, <4>3 DEF Promise!Opened, Opens
    <3> QED BY <3>1, <3>2
  <2>2. open' = [i \in Out |-> open'[i]]
    BY DEF Clock
  <2> QED BY <2>1, <2>2
<1>7. ASSUME NEW j \in In, NEW i \in Out
      PROVE  LET left == Promise!Rest(flow[j][i], sent[i] = j)
             IN  \/ flow'[j][i] = left
                 \/ \E b \in Promise!Beat : b.src = j /\ flow'[j][i] = Append(left, b)
  <2> DEFINE beat == Arrives(arr, j)
             e    == Destination(arr, j)
             left == Promise!Rest(flow[j][i], sent[i] = j)
  <2>1. PICK out \in BOOLEAN : out <=> i \in rdy /\ sk[i].m.src = j
    OBVIOUS
  <2>2. /\ flow'[j][i] = Loses(flow[j][i], out) \o gain(voq[j], i, beat, e)
        /\ Loses(flow[j][i], out) \in Seq(BeatSet)
        /\ out => flow[j][i] # <<>>
    BY <2>1, FlowStep
  <2>3. out <=> sent[i] = j
    BY <2>1, <1>3
  <2>4. left = Loses(flow[j][i], out)
    BY <2>2, <2>3 DEF Promise!Rest, Loses
  <2>5. Next1(j, beats[j], dest[j], beat, e)
    BY EdgeParts
  <2> HIDE DEF left
  <2>6. left \in Seq(BeatSet) /\ flow'[j][i] = left \o gain(voq[j], i, beat, e)
    BY <2>2, <2>4
  <2>7. CASE beat # None /\ i = e /\ ~V!dropping(voq[j], e)
    <3>1. gain(voq[j], i, beat, e) = <<beat>>
      BY <2>7 DEF gain
    <3>2. beat \in Promise!Beat /\ beat.src = j /\ beat \in BeatSet
      BY <2>5, <2>7 DEF Next1, BeatOf, BeatSet, Promise!Beat
    <3> HIDE DEF beat, e
    <3>3. left \o <<beat>> = Append(left, beat)
      BY <2>6, <3>2, AppendIsConcat
    <3> QED BY <2>6, <3>1, <3>2, <3>3 DEF left
  <2>8. CASE ~(beat # None /\ i = e /\ ~V!dropping(voq[j], e))
    <3>1. gain(voq[j], i, beat, e) = <<>>
      BY <2>8 DEF gain
    <3>2. left \o <<>> = left
      BY <2>6, ConcatEmptySeq
    <3> QED BY <2>6, <3>1, <3>2 DEF left
  <2> QED BY <2>7, <2>8
<1>8. Promise!Step(sent)
  BY <1>5, <1>6, <1>7 DEF Promise!Step
<1> QED BY <1>2, <1>8

LEMMA FreshFlow ==
    ASSUME Fresh
    PROVE  Promise!Init
<1>1. ASSUME NEW j \in In, NEW i \in Out PROVE inSkid(j, i) \o queued(j, i) = <<>>
  <2>1. content(voq[j], j, i) = <<>>
    BY FreshVoq DEF Fresh
  <2>2. inSkid(j, i) = <<>>
    BY ConcatEmptySeq, EmptySeq DEF Fresh, Empty, inSkid, from
  <2>3. queued(j, i) = <<>>
    BY <2>1 DEF queued, content
  <2> QED BY <2>2, <2>3, ConcatEmptySeq, EmptySeq
<1>2. flow = [j \in In |-> [i \in Out |-> <<>>]]
  BY <1>1 DEF flow
<1> QED BY <1>2 DEF Fresh, Promise!Init

\* Frames cross the switch whole, in order within a flow and never interleaved at an output,
\* for every number of ports, depth and frame length, whatever the timing of arrivals, of the
\* two arbitration stages and of the readers.
THEOREM FramesCrossWhole == Spec => FramesIntact
<1>1. Init => FInv /\ Promise!Init
  <2>1. Init => Fresh
    BY DEF Init, SwitchInit, Fresh
  <2> QED BY <2>1, FreshInv, FreshFlow
<1>2. FInv /\ [Next]_seamVars => [Promise!Next]_<<flow, open>>
  <2> SUFFICES ASSUME FInv, [Next]_seamVars PROVE [Promise!Next]_<<flow, open>>
    OBVIOUS
  <2>1. CASE \E arr \in Arrivals, rdy \in Readies : Clock(arr, rdy)
    BY <2>1, ClockIsStep DEF Promise!Next
  <2>2. CASE Reset
    <3>1. Fresh'
      BY <2>2 DEF Reset, SwitchReset, Fresh
    <3>2. Fresh' => (Promise!Init)'
      BY FreshFlow, PTL
    <3> QED BY <3>1, <3>2 DEF Promise!Init, Promise!Next, Promise!Reset
  <2>3. CASE UNCHANGED seamVars
    BY <2>3 DEF seamVars, flow, inSkid, queued
  <2> QED BY <2>1, <2>2, <2>3 DEF Next
<1> QED BY <1>1, <1>2, FInvStep, PTL DEF Spec, FramesIntact, Promise!Spec
-----------------------------------------------------------------------------
(* The arbiter on its own: at most one grant, to a port that asks, and     *)
(* none passed twice by another, for every number of ports.                *)

\* Ports that come after p and not after the last winner, going round; m is the mask,
\* the ports above the last winner.
Passed(p, m) == {q \in Ports : IF p \in m THEN q > p \/ q \notin m
                                          ELSE q > p /\ q \notin m}

Single(s) == \A x, y \in s : x = y

\* A held grant is a grant.
Holds == holding => held_grant # {} /\ held_grant \subseteq reqs

\* Only those between a waiting port and the last winner have been served since it came.
Waits == \A p \in Ports : /\ beaten[p].once \subseteq Passed(p, mask)
                          /\ p \notin reqs => beaten[p].once = {}

\* And the next to be served, even if its grant is held for long, is not among them.
Unpassed(p, g) == beaten[p].once \subseteq Passed(p, Above(Ports, {g})) \ {g}
HeldWaits == holding => \A g \in held_grant : \A p \in Ports \ {g} : Unpassed(p, g)

ArbInv == /\ ArbTypeOK /\ Single(held_grant) /\ Holds
           /\ Waits /\ HeldWaits /\ NoSecondTurn

\* What the combinational part gives of the arbiter's own requests.
LEMMA FreshGrant ==
  ASSUME ArbTypeOK
  PROVE  /\ rr_grant(reqs, mask) \subseteq reqs /\ Single(rr_grant(reqs, mask))
         /\ reqs # {} => rr_grant(reqs, mask) # {}
<1>1. reqs \in SUBSET (0 .. N - 1) /\ N \in Nat
  BY ArbiterAssumption DEF ArbTypeOK, Ports
<1>2. reqs \in SUBSET Int
  BY <1>1
<1> QED BY <1>1, <1>2, GrantProperties, GrantExists DEF Single
-----------------------------------------------------------------------------
\* Whoever is granted, freshly or still, has not been served since any other came.
LEMMA GrantUnpassed ==
  ASSUME ArbInv
  PROVE  /\ grant \subseteq reqs /\ Single(grant)
         /\ reqs # {} => grant # {}
         /\ holding => grant # {}
         /\ \A g \in grant : \A p \in Ports \ {g} : Unpassed(p, g)
<1>1. CASE holding
  BY <1>1 DEF ArbInv, Holds, HeldWaits, grant
<1>2. CASE ~holding
  <2>1. grant = rr_grant(reqs, mask)
    BY <1>2 DEF grant
  <2>2. grant \subseteq reqs /\ Single(grant) /\ (reqs # {} => grant # {})
    BY <2>1, FreshGrant DEF ArbInv
  <2>3. ASSUME NEW g \in grant, NEW p \in Ports \ {g} PROVE Unpassed(p, g)
    <3>1. CASE p \notin reqs
      BY <3>1 DEF ArbInv, Waits, Unpassed
    <3>2. CASE p \in reqs
      <4>1. PICK w \in 0 .. N : mask = w .. N - 1
        BY DEF ArbInv, ArbTypeOK
      <4>2. beaten[p].once \subseteq Passed(p, mask)
        BY DEF ArbInv, Waits
      <4>3. g \in Ports /\ N \in Nat
        BY <2>2, ArbiterAssumption DEF ArbInv, ArbTypeOK
      <4>4. ASSUME NEW q \in Passed(p, mask)
            PROVE  q \in Passed(p, Above(Ports, {g})) \ {g}
        <5>1. CASE reqs \cap mask = {}
          <6>1. p >= g /\ p \notin mask
            BY <2>1, <5>1, <3>2 DEF rr_grant, Lowest
          <6> QED BY <6>1, <4>1, <4>3 DEF Passed, Above, Ports
        <5>2. CASE reqs \cap mask # {}
          <6>1. g \in mask /\ (p \in mask => p >= g)
            BY <2>1, <5>2, <3>2 DEF rr_grant, Lowest
          <6> QED BY <6>1, <4>1, <4>3 DEF Passed, Above, Ports
        <5> QED BY <5>1, <5>2
      <4> QED BY <4>2, <4>4 DEF Unpassed
    <3> QED BY <3>1, <3>2
  <2> QED BY <1>2, <2>2, <2>3
<1> QED BY <1>1, <1>2

LEMMA InitArbiter == ArbInit => ArbInv
<1> SUFFICES ASSUME ArbInit PROVE ArbInv
  OBVIOUS
<1>1. mask = 0 .. N - 1 /\ 0 \in 0 .. N
  BY ArbiterAssumption DEF ArbInit, Ports
<1> QED BY <1>1 DEF ArbInit, ArbInv, ArbTypeOK, Single, Holds, Waits, HeldWaits, NoSecondTurn, NoOne

\* One clock edge, clause by clause.
LEMMA ArbClockStep ==
  ASSUME ArbInv, NEW hold \in BOOLEAN, NEW won \in BOOLEAN, NEW fresh \in SUBSET Ports,
         ArbClock(hold, won, fresh)
  PROVE  ArbInv'
<1> DEFINE gone == released(hold, won)
<1>1. /\ grant \subseteq reqs /\ Single(grant) /\ (holding => grant # {})
      /\ \A g \in grant : \A p \in Ports \ {g} : Unpassed(p, g)
  BY GrantUnpassed
<1>2. /\ held_grant' = grant
      /\ holding' = IF grant # {} THEN hold ELSE holding
      /\ mask' = IF grant # {} /\ won THEN Above(Ports, grant) ELSE mask
      /\ reqs' = (reqs \ gone) \cup fresh
      /\ beaten' = Overtaken(hold, won)
      /\ gone = IF won /\ ~hold THEN grant ELSE {}
  BY DEF ArbClock, Held, grant, NextMask, released
<1>3. ASSUME NEW g \in grant PROVE grant = {g} /\ g \in Ports /\ g \in reqs
  BY <1>1 DEF Single, ArbInv, ArbTypeOK
<1>4. \A p \in Ports : beaten[p].once \in SUBSET Ports /\ beaten[p].twice = {}
  BY DEF ArbInv, ArbTypeOK, NoSecondTurn
<1>5. gone \in SUBSET Ports
  BY <1>2, <1>1 DEF ArbInv, ArbTypeOK
<1> DEFINE Cleared(p) == p \notin reqs \/ (won /\ p \in grant)
<1>6. ASSUME NEW p \in Ports
      PROVE  /\ Cleared(p) => beaten'[p].once = {} /\ beaten'[p].twice = {}
             /\ ~Cleared(p) => /\ beaten'[p].once = beaten[p].once \cup gone
                               /\ beaten'[p].twice = beaten[p].twice
                                                       \cup (beaten[p].once \cap gone)
             /\ beaten'[p] \in [once : SUBSET Ports, twice : SUBSET Ports]
  <2>1. CASE Cleared(p)
    <3>1. beaten'[p] = NoOne
      BY <1>2, <2>1, Zenon DEF Overtaken
    <3> QED BY <3>1, <2>1 DEF NoOne
  <2>2. CASE ~Cleared(p)
    <3>1. beaten'[p] = [once  |-> beaten[p].once \cup gone,
                        twice |-> beaten[p].twice \cup (beaten[p].once \cap gone)]
      BY <1>2, <2>2, Zenon DEF Overtaken
    <3> HIDE DEF gone, Cleared
    <3> QED BY <3>1, <2>2, <1>4, <1>5
  <2> QED BY <2>1, <2>2
<1>7. ArbTypeOK'
  <2>1. mask' \in {p .. N - 1 : p \in 0 .. N}
    <3>1. CASE grant # {} /\ won
      <4>1. PICK g \in grant : TRUE
        BY <3>1
      <4>2. mask' = {p \in Ports : p > g} /\ g \in Ports
        BY <1>2, <1>3, <3>1, <4>1 DEF Above
      <4>3. mask' = (g + 1) .. N - 1 /\ g + 1 \in 0 .. N
        BY <4>2, ArbiterAssumption DEF Ports
      <4> QED BY <4>3
    <3>2. CASE ~(grant # {} /\ won)
      BY <1>2, <3>2 DEF ArbInv, ArbTypeOK
    <3> QED BY <3>1, <3>2
  <2>2. reqs' \in SUBSET Ports /\ held_grant' \in SUBSET Ports /\ holding' \in BOOLEAN
    BY <1>1, <1>2 DEF ArbInv, ArbTypeOK
  <2>3. \A p \in Ports : beaten'[p] \in [once : SUBSET Ports, twice : SUBSET Ports]
    BY <1>6
  <2>4. beaten' \in [Ports -> [once : SUBSET Ports, twice : SUBSET Ports]]
    BY <1>2, <2>3 DEF Overtaken
  <2> QED BY <2>1, <2>2, <2>4 DEF ArbTypeOK
<1>8. Single(held_grant')
  BY <1>1, <1>2
<1>9. Holds'
  <2>1. CASE holding'
    BY <2>1, <1>1, <1>2 DEF Holds
  <2> QED BY <2>1 DEF Holds
<1>10. ASSUME NEW p \in Ports
       PROVE  /\ beaten'[p].once \subseteq Passed(p, mask')
              /\ p \notin reqs' => beaten'[p].once = {}
  <2>1. CASE Cleared(p)
    BY <2>1, <1>6
  <2>2. CASE ~Cleared(p)
    <3>1. p \in reqs' /\ beaten'[p].once = beaten[p].once \cup gone
      BY <2>2, <1>2, <1>6
    <3>2. CASE grant # {} /\ won
      <4>1. PICK g \in grant : TRUE
        BY <3>2
      <4>2. /\ grant = {g} /\ g \in Ports /\ p # g
            /\ mask' = Above(Ports, {g}) /\ gone \subseteq {g}
        BY <1>2, <1>3, <2>2, <3>2, <4>1
      <4>3. beaten[p].once \subseteq Passed(p, mask')
        BY <1>1, <4>1, <4>2 DEF Unpassed
      <4>4. g \in Passed(p, mask')
        BY <4>2, ArbiterAssumption DEF Passed, Above, Ports
      <4> QED BY <3>1, <4>2, <4>3, <4>4
    <3>3. CASE ~(grant # {} /\ won)
      BY <1>2, <3>1, <3>3 DEF ArbInv, Waits
    <3> QED BY <3>1, <3>2, <3>3
  <2> QED BY <2>1, <2>2
<1>11. Waits'
  BY <1>10 DEF Waits, Passed
<1>12. NoSecondTurn'
  <2>1. ASSUME NEW p \in Ports PROVE beaten'[p].twice = {}
    <3>1. CASE Cleared(p)
      BY <3>1, <1>6
    <3>2. CASE ~Cleared(p)
      <4>1. beaten'[p].twice = beaten[p].once \cap gone
        BY <3>2, <1>6, <1>4
      <4>2. ASSUME NEW g \in gone PROVE g \notin beaten[p].once
        <5>1. g \in grant /\ p # g
          BY <1>2, <3>2, <4>2
        <5> QED BY <5>1, <1>1 DEF Unpassed
      <4> QED BY <4>1, <4>2
    <3> QED BY <3>1, <3>2
  <2> QED BY <2>1 DEF NoSecondTurn
<1>13. HeldWaits'
  <2> SUFFICES ASSUME holding', NEW g \in held_grant', NEW p \in Ports \ {g}
               PROVE  beaten'[p].once \subseteq Passed(p, Above(Ports, {g})) \ {g}
    BY DEF HeldWaits, Unpassed, Passed
  <2>1. g \in grant /\ gone = {}
    BY <1>2
  <2>2. beaten'[p].once \subseteq beaten[p].once
    BY <2>1, <1>6
  <2>3. Unpassed(p, g)
    BY <1>1, <2>1
  <2> QED BY <2>2, <2>3 DEF Unpassed
<1> QED BY <1>7, <1>8, <1>9, <1>11, <1>12, <1>13 DEF ArbInv, Single

LEMMA NextArbiter == ArbInv /\ [ArbNext]_arbVars => ArbInv'
<1> SUFFICES ASSUME ArbInv, [ArbNext]_arbVars PROVE ArbInv'
  OBVIOUS
<1>1. CASE ArbReset
  <2>1. mask' = 0 .. N - 1 /\ 0 \in 0 .. N
    BY <1>1, ArbiterAssumption DEF ArbReset, Ports
  <2> QED BY <1>1, <2>1 DEF ArbReset, ArbInv, ArbTypeOK, Single, Holds, Waits, HeldWaits,
                            NoSecondTurn, NoOne
<1>2. CASE UNCHANGED arbVars
  BY <1>2 DEF arbVars, ArbInv, ArbTypeOK, Single, Holds, Waits, HeldWaits, Unpassed, NoSecondTurn
<1> QED BY <1>1, <1>2, ArbClockStep DEF ArbNext

LEMMA ArbInvariance == ArbSpec => []ArbInv
  BY InitArbiter, NextArbiter, PTL DEF ArbSpec

\* However grants are held, lost and won, one port at most is granted, one that asks,
\* and if any asks one is (rr_arbiter.sv:134-138).
THEOREM OneSoundGrant == ArbSpec => []GrantSound
<1>1. ArbInv => GrantSound
  BY GrantUnpassed DEF GrantSound, Single
<1> QED BY <1>1, ArbInvariance, PTL

\* No port is served twice while another waits (rr_arbiter.sv:120).
THEOREM NeverTwice == ArbSpec => []NoSecondTurn
<1>1. ArbInv => NoSecondTurn
  BY DEF ArbInv
<1> QED BY <1>1, ArbInvariance, PTL
=============================================================================
