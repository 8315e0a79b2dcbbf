--------------------------- MODULE HwTrialProofs ---------------------------
(***************************************************************************)
(* Two things about a measurement.  The search of find_max_rate is right   *)
(* whatever its trials say: no assumption is made that a larger gap loses  *)
(* less.  And a trial that it judges lossless has measured its own frames, *)
(* and all of them, unless a stray, a train or a stamp came in when the    *)
(* probe cannot tell it from the trial's own (spoilt).                     *)
(***************************************************************************)
EXTENDS HwTrial, SequenceTheorems, TLAPS

Places == {"clear", "unclear", "configure", "count", "start", "unstart", "poll",
           "snapshot", "unsnapshot", "judge", "done"}

HostType == /\ h = [pc |-> h.pc, low |-> h.low, high |-> h.high, sent |-> h.sent,
                    best |-> h.best, late |-> h.late]
            /\ h.pc \in Places /\ h.low \in Int /\ h.high \in Int
            /\ h.best \in Int \cup {None}

\* All below low lost a frame at its upper end, the best is right above high, and the
\* range is empty only when the search is over.
SearchInv ==
    /\ 0 <= h.low /\ h.high <= MaxGap /\ h.low <= h.high + 1
    /\ h.pc # "done" => h.low <= h.high
    /\ h.pc = "done" => h.high < h.low
    /\ h.low = 0 \/ <<h.low - 1, FALSE>> \in tried
    /\ h.best = None => h.high = MaxGap
    /\ h.best # None => h.best = h.high + 1 /\ <<h.best, TRUE>> \in tried

IInv == HostType /\ SearchInv

LEMMA InitSearch == Init => IInv
  BY TrialAssumption DEF Init, IInv, HostType, SearchInv, Places

LEMMA MidInRange ==
  ASSUME IInv, h.pc # "done"
  PROVE  mid \in Int /\ h.low <= mid /\ mid <= h.high /\ 0 <= mid
  BY DEF IInv, HostType, SearchInv, mid

LEMMA JudgeStep ==
  ASSUME IInv, Judge
  PROVE  IInv'
<1>1. h.pc = "judge" /\ h.pc # "done"
  BY DEF Judge, Access
<1>2. mid \in Int /\ h.low <= mid /\ mid <= h.high /\ 0 <= mid
  BY <1>1, MidInRange
<1>3. /\ h' = [pc |-> IF Narrowed[1] <= Narrowed[2] THEN "clear" ELSE "done",
               low |-> Narrowed[1], high |-> Narrowed[2], best |-> Narrowed[3],
               sent |-> 0, late |-> FALSE]
      /\ tried' = tried \cup {<<mid, Lossless>>}
  BY DEF Judge
<1>4. CASE Lossless
  <2>1. Narrowed = <<h.low, mid - 1, mid>>
    BY <1>4 DEF Narrowed
  <2>2. <<mid, TRUE>> \in tried'
    BY <1>3, <1>4
  <2>3. h' = [pc |-> IF h.low <= mid - 1 THEN "clear" ELSE "done", low |-> h.low,
              high |-> mid - 1, best |-> mid, sent |-> 0, late |-> FALSE]
    BY <1>3, <2>1
  <2>4. /\ h'.pc = (IF h.low <= mid - 1 THEN "clear" ELSE "done")
        /\ h'.low = h.low /\ h'.high = mid - 1 /\ h'.best = mid
    BY <2>3
  <2>5. HostType'
    BY <1>2, <2>3, <2>4 DEF IInv, HostType, Places
  <2>6. h.low = 0 \/ <<h.low - 1, FALSE>> \in tried'
    BY <1>3 DEF IInv, SearchInv
  <2>7. SearchInv'
    BY <1>2, <2>2, <2>4, <2>6, TrialAssumption DEF IInv, HostType, SearchInv
  <2>8. QED
    BY <2>5, <2>7 DEF IInv
<1>5. CASE ~Lossless
  <2>1. Narrowed = <<mid + 1, h.high, h.best>>
    BY <1>5 DEF Narrowed
  <2>2. <<mid, FALSE>> \in tried'
    <3>1. Lossless = FALSE
      BY <1>5 DEF Lossless
    <3>2. QED
      BY <1>3, <3>1
  <2>3. h' = [pc |-> IF mid + 1 <= h.high THEN "clear" ELSE "done", low |-> mid + 1,
              high |-> h.high, best |-> h.best, sent |-> 0, late |-> FALSE]
    BY <1>3, <2>1
  <2>4. /\ h'.pc = (IF mid + 1 <= h.high THEN "clear" ELSE "done")
        /\ h'.low = mid + 1 /\ h'.high = h.high /\ h'.best = h.best
    BY <2>3
  <2>5. HostType'
    BY <1>2, <2>3, <2>4 DEF IInv, HostType, Places
  <2>6. h.best # None => h.best = h.high + 1 /\ <<h.best, TRUE>> \in tried'
    BY <1>3 DEF IInv, SearchInv
  <2>7. h'.low - 1 = mid /\ <<h'.low - 1, FALSE>> \in tried'
    <3>1. h'.low - 1 = mid
      BY <1>2, <2>4
    <3>2. QED
      BY <2>2, <3>1
  <2>8. SearchInv'
    BY <1>1, <1>2, <2>4, <2>6, <2>7, TrialAssumption DEF IInv, HostType, SearchInv
  <2>9. QED
    BY <2>5, <2>8 DEF IInv
<1>6. QED
  BY <1>4, <1>5

LEMMA NextSearch == IInv /\ [Next]_vars => IInv'
<1> SUFFICES ASSUME IInv, [Next]_vars PROVE IInv'
  OBVIOUS
<1>1. CASE UNCHANGED <<h, tried>>
  BY <1>1 DEF IInv, HostType, SearchInv
<1>2. ASSUME NEW retire \in BOOLEAN, NEW move \in BOOLEAN, NEW to, Tick(retire, move, to)
      PROVE  UNCHANGED <<h, tried>>
  BY <1>2 DEF Tick
<1>3. Reset => UNCHANGED <<h, tried>>
  BY DEF Reset
<1>4. ASSUME NEW from \in Places \ {"done"}, NEW registers, NEW to \in Places \ {"done"},
             Write(from, registers, to)
      PROVE  IInv'
  <2>1. /\ h.pc # "done" /\ h' = [h EXCEPT !.pc = to] /\ tried' = tried
    BY <1>4 DEF Write, Access
  <2>2. QED
    BY <2>1, <1>4 DEF IInv, HostType, SearchInv
<1>5. CASE Poll
  <2>1. /\ h.pc # "done" /\ tried' = tried
        /\ h' = [h EXCEPT !.pc = "snapshot", !.sent = g.sent_count,
                          !.late = g.sent_count < Count]
    BY <1>5 DEF Poll, Access
  <2>2. QED
    BY <2>1 DEF IInv, HostType, SearchInv, Places
<1>6. CASE Judge
  BY <1>6, JudgeStep
<1>7. CASE Host
  <2>1. CASE Clear \/ Unclear \/ Start \/ Unstart \/ Snapshot \/ Unsnapshot
    BY <2>1, <1>4 DEF Clear, Unclear, Start, Unstart, Snapshot, Unsnapshot, Command, Places
  <2>2. CASE Configure \/ SetCount
    BY <2>2, <1>4 DEF Configure, SetCount, Places
  <2>3. QED
    BY <2>1, <2>2, <1>5, <1>6, <1>7 DEF Host
<1>8. UNCHANGED vars => UNCHANGED <<h, tried>>
  BY DEF vars, hist
<1>9. QED
  BY <1>1, <1>2, <1>3, <1>7, <1>8 DEF Next

LEMMA SearchInvSuffices == IInv => SearchTight
<1> SUFFICES ASSUME IInv, h.pc = "done"
             PROVE  IF h.best = None THEN <<MaxGap, FALSE>> \in tried
                    ELSE /\ <<h.best, TRUE>> \in tried
                         /\ h.best = 0 \/ <<h.best - 1, FALSE>> \in tried
  BY DEF SearchTight
<1>1. h.low \in Int /\ h.high \in Int /\ h.low = h.high + 1
  BY DEF IInv, HostType, SearchInv
<1>2. h.low = 0 \/ <<h.high, FALSE>> \in tried
  <2>1. h.low - 1 = h.high
    BY <1>1
  <2>2. QED
    BY <2>1 DEF IInv, SearchInv
<1>3. CASE h.best = None
  <2>1. h.high = MaxGap /\ h.low # 0
    BY <1>1, <1>3, TrialAssumption DEF IInv, SearchInv
  <2>2. QED
    BY <1>2, <1>3, <2>1
<1>4. CASE h.best # None
  <2>1. h.best = h.low /\ h.best - 1 = h.high /\ <<h.best, TRUE>> \in tried
    BY <1>1, <1>4 DEF IInv, SearchInv
  <2>2. QED
    BY <1>2, <1>4, <2>1
<1>5. QED
  BY <1>3, <1>4

\* The gap the search returns lost no frame and the next smaller one did, whatever the
\* board does (measure.py:248-261).
THEOREM SearchIsTight == Spec => []SearchTight
  BY InitSearch, NextSearch, SearchInvSuffices, PTL DEF Spec
-----------------------------------------------------------------------------
(* The trials.  Their invariant gives everything that comes in a place,    *)
(* and says of each queue which places it holds.                           *)

Frames == ((0 .. 2) \X Nat) \cup {Stray}
Maybe  == Frames \cup {None}
Pairs  == Maybe \X Maybe

GenType == /\ g.state \in {"IDLE", "SEND", "GAP"} /\ g.seq \in Nat /\ g.byte_idx \in Nat
           /\ g.sent_count \in Nat /\ g.start_q \in BOOLEAN

ProbeType ==
    /\ p.rx_q \in BOOLEAN /\ p.last_q \in BOOLEAN /\ p.pop_q \in BOOLEAN
    /\ p.clear_q \in BOOLEAN /\ p.snapshot_q \in BOOLEAN
    /\ p.tx_q \in Maybe /\ p.fifo_out \in Maybe /\ p.tx_stamp \in Maybe
    /\ p.stamps \in Seq(Frames) /\ p.v \in Seq(BOOLEAN)
    /\ p.acc \in Seq(Pairs) /\ p.stat \in Seq(Pairs)
    /\ Len(p.stamps) <= ProbeDepth

PathType == /\ inframe \in Maybe /\ tx \in Maybe
            /\ flight \in Seq(Frames) /\ queued \in Seq(Frames)
            /\ stray \in {"out", "envelope", "both", "stream", "torn"}
            /\ train \in 0 .. 2 /\ ticked \in BOOLEAN /\ spoilt \in BOOLEAN
            /\ tx # None => p.tx_q \in {tx, None}

\* The command bits follow the host's place in its program, the registers of the generator
\* are set before it starts.
Commanded ==
    /\ ctl = [cmd |-> ctl.cmd, gap |-> ctl.gap, bytes |-> ctl.bytes, count |-> ctl.count]
    /\ ctl.cmd = IF h.pc = "unclear" THEN {"clear"}
                 ELSE IF h.pc = "unstart" THEN {"start"}
                 ELSE IF h.pc = "unsnapshot" THEN {"snapshot"} ELSE {}
    /\ h.pc \in {"count", "start", "unstart"} => ctl.gap = mid /\ ctl.bytes = Size
    /\ h.pc \in {"start", "unstart"} => ctl.count = Count

\* A command that is raised is seen at the next edge.
Edges == /\ (h.pc = "unstart") = ~ticked => ~g.start_q
         /\ (h.pc = "unclear") = ~ticked => ~p.clear_q
         /\ (h.pc = "unsnapshot") = ~ticked => ~p.snapshot_q

BoardType == GenType /\ ProbeType /\ PathType /\ Commanded /\ Edges
-----------------------------------------------------------------------------
\* What comes in, by its place: the frames of the train are at 0 .. Count - 1, strays
\* before and after.
W == [i \in Int |-> IF i \in 0 .. Count - 1 THEN <<train, i>> ELSE Stray]

Dropped == [i \in Int |-> i \notin 0 .. Count - 1]
Pair    == [i \in Int |-> <<W[i], W[i]>>]

\* q is what f has from place n on.
Window(q, f, n) == \A j \in DOMAIN q : q[j] = f[n + j - 1]

One(c) == IF c THEN 1 ELSE 0

Clamp(i) == IF i < 0 THEN 0 ELSE IF i > Count THEN Count ELSE i

\* The frame that is being sent or whose end is about to be seen.
wire == IF tx # None THEN tx ELSE p.tx_q

Got         == Len(p.acc) + One(p.pop_q)
Outstanding == One(wire # None) + Len(queued)

\* Before the train: strays only, each with its stamp.
Pending == IF stray = "out" THEN 0 ELSE IF stray = "envelope" THEN One(p.rx_q) ELSE 1

Quiet ==
    /\ p.acc = <<>> /\ ~p.pop_q /\ p.tx_q = None /\ tx = None /\ queued = <<>>
    /\ p.stamps \in Seq({Stray}) /\ p.v \in Seq({TRUE}) /\ flight \in Seq({Stray})
    /\ Len(p.stamps) = Len(p.v) + Len(flight) + Pending
    /\ ~p.last_q
    /\ stray = "out"      => ~p.rx_q /\ inframe = None
    /\ stray = "envelope" => inframe = None
    /\ stray = "both"     => p.rx_q /\ inframe \in {None, Stray}
    /\ stray = "stream"   => inframe = Stray
    /\ stray # "torn"

Pre == g.state = "IDLE" /\ Quiet

\* The generator, from the start of the train on.
GenRun ==
    /\ g.size_q = Size /\ g.gap_q = mid
    /\ gen_busy(g) => /\ g.seq < Count /\ g.sent_count = g.seq
                      /\ g.frames_left = Count - g.seq /\ g.byte_idx < Size
    /\ g.state = "GAP" => g.byte_idx = 0
    /\ ~gen_busy(g) => g.sent_count = Count

\* What is coming in: k frames have been stamped, y have come in whole.
OnLine(k, y) ==
    /\ gen_busy(g)  => /\ y = g.seq /\ k = g.seq + One(g.byte_idx > 0)
                       /\ inframe = IF g.byte_idx > 0 THEN W[g.seq] ELSE None
                       /\ IF g.byte_idx > 0 THEN p.rx_q /\ ~p.last_q
                          ELSE g.state = "SEND" /\ p.rx_q => p.last_q
    /\ ~gen_busy(g) => y >= Count /\ k >= Count /\ inframe \in {None, Stray}

\* Every stamp, verdict and frame that is on its way is at its place.
Placed(stamps, v, frames, k, y) ==
    LET z  == k - Len(stamps)       \* stamps read
        x  == z + Len(v)            \* verdicts given
        xf == y - Len(frames)       \* frames retired
    IN  /\ Window(stamps, W, z) /\ Window(v, Dropped, z) /\ Window(frames, W, xf)
        /\ x = xf \/ (x >= Count /\ xf >= Count)

InPath(k, y) == Placed(p.stamps, p.v, flight, k, y)

\* What is still to be sampled, from place a on.
Leaving(a) == /\ wire # None => wire = W[a]
              /\ Window(queued, W, a + One(wire # None))

\* So is every sample, and what is still to be sampled.
Sampled(z, xf) ==
    /\ Clamp(z) = Got /\ Clamp(xf) = Got + Outstanding
    /\ Window(p.acc, Pair, 0)
    /\ p.pop_q => p.fifo_out = W[Len(p.acc)] /\ p.tx_stamp = W[Len(p.acc)]
    /\ Leaving(Got)

\* No frame is lost so far.
Exact(k, y) == /\ OnLine(k, y) /\ InPath(k, y)
               /\ Sampled(k - Len(p.stamps), y - Len(flight))

\* A frame is lost, or will be: the first, into which a stray has run.
Lossy(y) ==
    LET xf == y - Len(flight)
        s  == Got + Outstanding
    IN  /\ gen_busy(g)  => y = g.seq
        /\ ~gen_busy(g) => y >= Count /\ inframe \in {None, Stray}
        /\ \A j \in DOMAIN flight : flight[j] # Stray => xf + j - 1 \in 0 .. Count - 1
        /\ s < Count
        /\ \/ s < xf
           \/ s = 0 /\ y = 0 /\ inframe = Stray
           \/ s = 0 /\ y > 0 /\ xf <= 0 /\ flight[1 - xf] = Stray

Run == GenRun /\ \/ \E k, y \in Int : Exact(k, y)
                 \/ \E y \in Int : Lossy(y)

StatOK == Len(p.stat) = Count => p.stat = Own /\ g.gap_q = mid /\ g.size_q = Size

Phase ==
    /\ h.pc = "unclear" /\ ticked => Pre
    /\ h.pc \in {"configure", "count", "start"} => Pre
    /\ h.pc = "unstart" /\ ~ticked => Pre
    /\ h.pc = "unstart" /\ ticked =>
           \/ Run /\ g.start_q
           \/ Pre /\ g.sent_count = 0 /\ ~g.start_q
    /\ h.pc = "poll" => \/ Run
                        \/ Pre /\ g.sent_count = 0
    /\ h.pc \in {"snapshot", "unsnapshot"} /\ ~h.late =>
           h.sent = Count /\ (Pre \/ (Run /\ ~gen_busy(g)))
    /\ h.pc = "judge" \/ (h.pc = "unsnapshot" /\ ticked) =>
           (~h.late => h.sent = Count /\ StatOK)

TrialInv == ~spoilt => Phase
-----------------------------------------------------------------------------
\* How many are read.
Read(q, rd) == IF rd /\ q # <<>> THEN 1 ELSE 0

Moved(q, rd, wr, d) == Rest(q, rd) \o (IF wr THEN <<d>> ELSE <<>>)

\* It has lost its m first and got d, if wr.
Grows(q1, q, m, wr, d) ==
    /\ Len(q1) = Len(q) - m + (IF wr THEN 1 ELSE 0)
    /\ \A j \in DOMAIN q1 : q1[j] = IF j + m <= Len(q) THEN q[j + m] ELSE d
    /\ \A j \in DOMAIN q1 : j + m > Len(q) => wr /\ j + m = Len(q) + 1

\* A queue that is read at its head and written at its end.
LEMMA QueueStep ==
    ASSUME NEW S, NEW q \in Seq(S), NEW rd \in BOOLEAN, NEW wr \in BOOLEAN,
           NEW d, wr => d \in S, NEW q1, q1 = Moved(q, rd, wr, d)
    PROVE  q1 \in Seq(S) /\ Grows(q1, q, Read(q, rd), wr, d)
<1> DEFINE m == Read(q, rd)
           r == Rest(q, rd)
           e == IF wr THEN <<d>> ELSE <<>>
<1>1. r \in Seq(S) /\ Len(r) = Len(q) - m /\ m \in {0, 1}
      /\ \A j \in 1 .. Len(r) : r[j] = q[j + m]
  <2>1. CASE rd /\ q # <<>>
    BY <2>1, HeadTailProperties DEF Rest, Read
  <2>2. CASE ~(rd /\ q # <<>>)
    BY <2>2 DEF Rest, Read
  <2> QED BY <2>1, <2>2
<1>2. e \in Seq(S) /\ Len(e) = (IF wr THEN 1 ELSE 0) /\ (wr => e[1] = d)
  OBVIOUS
<1> HIDE DEF m, r, e
<1>3. /\ r \o e \in Seq(S) /\ Len(r \o e) = Len(r) + Len(e)
      /\ \A j \in 1 .. Len(r) + Len(e) :
             (r \o e)[j] = IF j <= Len(r) THEN r[j] ELSE e[j - Len(r)]
  BY <1>1, <1>2, ConcatProperties
<1>4. q1 = r \o e
  BY DEF r, e, Moved
<1>5. q1 \in Seq(S) /\ Len(q1) = Len(r) + Len(e) /\ DOMAIN q1 = 1 .. Len(r) + Len(e)
  <2>1. q1 \in Seq(S) /\ Len(q1) = Len(r) + Len(e)
    BY <1>3, <1>4
  <2>2. DOMAIN q1 = 1 .. Len(q1)
    BY <2>1, LenProperties
  <2> QED BY <2>1, <2>2
<1>6. Len(q) \in Nat /\ Len(r) \in Nat /\ Len(e) \in Nat
  BY <1>1, <1>2, LenProperties
<1>7. Len(q1) = Len(q) - m + (IF wr THEN 1 ELSE 0)
  BY <1>1, <1>2, <1>5, <1>6
<1>8. ASSUME NEW j \in DOMAIN q1
      PROVE  /\ q1[j] = IF j + m <= Len(q) THEN q[j + m] ELSE d
             /\ j + m > Len(q) => wr /\ j + m = Len(q) + 1
  <2>1. j \in 1 .. Len(r) + Len(e) /\ j \in Nat /\ j >= 1 /\ j <= Len(r) + Len(e)
    BY <1>5, <1>6
  <2>2. q1[j] = IF j <= Len(r) THEN r[j] ELSE e[j - Len(r)]
    BY <2>1, <1>3, <1>4
  <2>3. CASE j <= Len(r)
    <3>1. j \in 1 .. Len(r) /\ j + m <= Len(q)
      BY <2>1, <2>3, <1>1, <1>6
    <3> QED BY <3>1, <2>2, <2>3, <1>1, <1>6
  <2>4. CASE j > Len(r)
    <3>1. wr /\ j = Len(r) + 1 /\ ~(j <= Len(r))
      BY <2>1, <2>4, <1>2, <1>6
    <3>2. j + m = Len(q) + 1 /\ j - Len(r) = 1 /\ ~(j + m <= Len(q))
      BY <3>1, <1>1, <1>6
    <3> QED BY <3>1, <3>2, <2>2, <1>2
  <2> QED BY <2>1, <2>3, <2>4, <1>6
<1>9. /\ \A j \in DOMAIN q1 : q1[j] = IF j + m <= Len(q) THEN q[j + m] ELSE d
      /\ \A j \in DOMAIN q1 : j + m > Len(q) => wr /\ j + m = Len(q) + 1
  BY <1>8
<1> QED BY <1>5, <1>7, <1>9 DEF Grows, m

\* Its window moves with the reads.
LEMMA WindowStep ==
    ASSUME NEW q, NEW q1, NEW l \in Nat, DOMAIN q = 1 .. l, NEW l1 \in Nat, DOMAIN q1 = 1 .. l1,
           NEW m \in Nat, m \in {0, 1}, NEW d,
           \A j \in DOMAIN q1 : q1[j] = IF j + m <= l THEN q[j + m] ELSE d,
           NEW f, NEW n \in Int, Window(q, f, n),
           \A j \in DOMAIN q1 : j + m > l => j + m = l + 1 /\ d = f[n + l]
    PROVE  Window(q1, f, n + m)
<1> SUFFICES ASSUME NEW j \in 1 .. l1 PROVE q1[j] = f[(n + m) + j - 1]
  BY DEF Window
<1>1. CASE j + m <= l
  <2>1. j + m \in 1 .. l
    BY <1>1
  <2>2. q[j + m] = f[n + (j + m) - 1]
    BY <2>1 DEF Window
  <2>3. n + (j + m) - 1 = (n + m) + j - 1
    OBVIOUS
  <2> QED BY <1>1, <2>2, <2>3
<1>2. CASE j + m > l
  <2>1. ~(j + m <= l)
    BY <1>2
  <2>2. j + m = l + 1 /\ d = f[n + l]
    BY <1>2
  <2>3. q1[j] = d
    BY <2>1
  <2>4. n + l = (n + m) + j - 1
    BY <2>2
  <2> QED BY <2>2, <2>3, <2>4
<1> QED BY <1>1, <1>2

LEMMA QueueWindow ==
    ASSUME NEW S, NEW q \in Seq(S), NEW rd \in BOOLEAN, NEW wr \in BOOLEAN,
           NEW d, wr => d \in S, NEW q1, q1 = Moved(q, rd, wr, d),
           NEW f, NEW n \in Int, Window(q, f, n), wr => d = f[n + Len(q)]
    PROVE  Window(q1, f, n + Read(q, rd))
<1>1. q1 \in Seq(S) /\ Grows(q1, q, Read(q, rd), wr, d)
  BY QueueStep
<1>2. /\ Len(q) \in Nat /\ DOMAIN q = 1 .. Len(q)
      /\ Len(q1) \in Nat /\ DOMAIN q1 = 1 .. Len(q1)
  BY <1>1, LenProperties
<1>3. PICK m \in Nat : m \in {0, 1} /\ m = Read(q, rd)
  BY DEF Read
<1>4. Grows(q1, q, m, wr, d)
  BY <1>1, <1>3
<1>5. Window(q1, f, n + m)
  BY <1>2, <1>3, <1>4, WindowStep DEF Grows
<1> QED BY <1>3, <1>5

\* The first of a window.
LEMMA WindowHead ==
    ASSUME NEW S, NEW q \in Seq(S), q # <<>>, NEW f, NEW n \in Int, Window(q, f, n)
    PROVE  Head(q) = f[n] /\ Head(q) \in S
<1>1. 1 \in DOMAIN q /\ q[1] = Head(q) /\ q[1] \in S
  BY HeadTailProperties
<1>2. q[1] = f[n + 1 - 1]
  BY <1>1 DEF Window
<1> QED BY <1>1, <1>2
-----------------------------------------------------------------------------
(* What one clock edge does.                                               *)

reads   == pop(p, tx) \/ drop_pop(p)
stamped == rx_start(p, rx_line) /\ Len(p.stamps) # ProbeDepth

clears == clear_pulse(p, "clear" \in ctl.cmd)
starts == begins(g, "start" \in ctl.cmd, ctl.bytes, ctl.count)

drops            == Head(flight) = Stray
retires(retire)  == retire /\ flight # <<>>
judged(retire)   == retires(retire) /\ Len(p.v) # ProbeDepth
passes(retire)   == retires(retire) /\ ~drops
kept(retire)     == passes(retire) /\ Len(queued) < Room
enters(to)       == beat(to).valid /\ beat(to).last
sends(move)      == move /\ tx = None /\ queued # <<>>

LEMMA ProbeStep ==
    ASSUME NEW retire \in BOOLEAN, NEW move \in BOOLEAN, NEW to, Tick(retire, move, to)
    PROVE  /\ p'.rx_q = rx_line.ctl /\ p'.last_q = rx_line.last /\ p'.tx_q = tx
           /\ p'.clear_q = ("clear" \in ctl.cmd) /\ p'.snapshot_q = ("snapshot" \in ctl.cmd)
           /\ p'.pop_q = pop(p, tx)
           /\ p'.tx_stamp = IF tx_done(p, tx) THEN p.tx_q ELSE p.tx_stamp
           /\ p'.stat = IF snapshot_pulse(p, "snapshot" \in ctl.cmd) THEN p.acc ELSE p.stat
           /\ clears => p'.stamps = <<>> /\ p'.v = <<>> /\ p'.acc = <<>>
           /\ p'.fifo_out = IF clears THEN None ELSE ReadPort(p.stamps, p.fifo_out, reads)
           /\ ~clears =>
                 /\ p'.stamps = Moved(p.stamps, reads, stamped, rx_line.frame)
                 /\ p'.acc = IF p.pop_q THEN Append(p.acc, <<p.fifo_out, p.tx_stamp>>) ELSE p.acc
<1> DEFINE verdict == IF retire /\ flight # <<>> THEN {Head(flight) = Stray} ELSE {}
           c == "clear" \in ctl.cmd
           s == "snapshot" \in ctl.cmd
<1>1. p' = ProbeClocked(p, rx_line, verdict, tx, c, s)
  BY DEF Tick
<1> HIDE DEF verdict, c, s
<1>2. /\ p'.rx_q = rx_line.ctl /\ p'.last_q = rx_line.last /\ p'.tx_q = tx
      /\ p'.clear_q = c /\ p'.snapshot_q = s
      /\ p'.pop_q = pop(p, tx)
      /\ p'.tx_stamp = IF tx_done(p, tx) THEN p.tx_q ELSE p.tx_stamp
      /\ p'.stat = IF snapshot_pulse(p, s) THEN p.acc ELSE p.stat
  BY <1>1 DEF ProbeClocked
<1>3. /\ p'.fifo_out = IF fifo_clear(p, c) THEN None
                       ELSE ReadPort(p.stamps, p.fifo_out, pop(p, tx) \/ drop_pop(p))
      /\ p'.acc = IF clear_pulse(p, c) THEN <<>>
                  ELSE IF p.pop_q THEN Append(p.acc, <<p.fifo_out, p.tx_stamp>>) ELSE p.acc
      /\ p'.stamps = IF fifo_clear(p, c) THEN <<>>
                     ELSE After(p.stamps, ProbeDepth, rx_start(p, rx_line), rx_line.frame,
                                pop(p, tx) \/ drop_pop(p))
      /\ p'.v = IF fifo_clear(p, c) THEN <<>>
                ELSE After(p.v, ProbeDepth, verdict # {}, TRUE \in verdict,
                           pop(p, tx) \/ drop_pop(p))
  BY <1>1 DEF ProbeClocked
<1>4. After(p.stamps, ProbeDepth, rx_start(p, rx_line), rx_line.frame, pop(p, tx) \/ drop_pop(p))
        = Moved(p.stamps, reads, stamped, rx_line.frame)
  BY DEF After, Added, Moved, reads, stamped
<1>5. fifo_clear(p, c) = clears /\ clear_pulse(p, c) = clears
  BY DEF fifo_clear, clears, c
<1> QED BY <1>2, <1>3, <1>4, <1>5 DEF c, s, reads

LEMMA VerdictStep ==
    ASSUME NEW retire \in BOOLEAN, NEW move \in BOOLEAN, NEW to, Tick(retire, move, to),
           ~clears
    PROVE  p'.v = Moved(p.v, reads, judged(retire), drops)
<1> DEFINE verdict == IF retire /\ flight # <<>> THEN {drops} ELSE {}
           c == "clear" \in ctl.cmd
           s == "snapshot" \in ctl.cmd
           rd == pop(p, tx) \/ drop_pop(p)
<1>1. p' = ProbeClocked(p, rx_line, verdict, tx, c, s)
  BY DEF Tick, drops
<1>2. ~fifo_clear(p, c)
  BY DEF fifo_clear, clears
<1> HIDE DEF verdict, c, s
<1>3. p'.v = After(p.v, ProbeDepth, verdict # {}, TRUE \in verdict, rd)
  BY <1>1, <1>2 DEF ProbeClocked
<1>4. p'.v = Rest(p.v, reads) \o
                 (IF verdict # {} /\ Len(p.v) # ProbeDepth THEN <<TRUE \in verdict>> ELSE <<>>)
  BY <1>3 DEF After, Added, reads
<1>5. CASE judged(retire)
  <2>1. verdict = {drops} /\ Len(p.v) # ProbeDepth
    BY <1>5 DEF judged, retires, verdict
  <2>2. verdict # {} /\ (TRUE \in verdict) = drops
    <3> HIDE DEF verdict
    <3>1. PICK b \in BOOLEAN : b = drops
      BY DEF drops
    <3>2. b \in verdict /\ \A c1 \in verdict : c1 = b
      BY <2>1, <3>1
    <3>3. (TRUE \in verdict) <=> b
      BY <3>2, Zenon
    <3>4. (TRUE \in verdict) = b
      BY <3>3, Zenon
    <3>5. verdict # {}
      BY <3>2
    <3> QED BY <3>1, <3>4, <3>5
  <2>3. p'.v = Rest(p.v, reads) \o <<drops>>
    BY <1>4, <2>1, <2>2
  <2> QED BY <2>3, <1>5 DEF Moved
<1>6. CASE ~judged(retire)
  <2>1. ~(verdict # {} /\ Len(p.v) # ProbeDepth)
    BY <1>6 DEF judged, retires, verdict
  <2>2. p'.v = Rest(p.v, reads) \o <<>>
    BY <1>4, <2>1
  <2> QED BY <2>2, <1>6 DEF Moved
<1> QED BY <1>5, <1>6

LEMMA PathStep ==
    ASSUME NEW retire \in BOOLEAN, NEW move \in BOOLEAN, NEW to, Tick(retire, move, to)
    PROVE  /\ flight' = Moved(flight, retire, enters(to), Entering(to))
           /\ queued' = Moved(queued, sends(move), kept(retire), Head(flight))
           /\ tx' = IF sends(move) THEN Head(queued) ELSE IF move THEN None ELSE tx
           /\ inframe' = IF ~beat(to).valid THEN inframe
                         ELSE IF beat(to).last THEN None ELSE Entering(to)
           /\ stray' = to
           /\ train' = IF starts THEN (train + 1) % 3 ELSE train
           /\ spoilt' = (Spoils(starts, clears) \/ (spoilt /\ ~clears))
           /\ ticked' = TRUE /\ UNCHANGED <<ctl, h, tried>>
  BY DEF Tick, Moved, Rest, retires, passes, kept, enters, sends, starts, clears, drops

LEMMA GenStep ==
    ASSUME NEW retire \in BOOLEAN, NEW move \in BOOLEAN, NEW to, Tick(retire, move, to)
    PROVE  /\ g'.start_q = ("start" \in ctl.cmd)
           /\ starts => /\ g'.state = "SEND" /\ g'.byte_idx = 0 /\ g'.seq = 0
                        /\ g'.frames_left = ctl.count /\ g'.size_q = ctl.bytes
                        /\ g'.gap_q = ctl.gap /\ g'.sent_count = 0
           /\ ~starts =>
                /\ g'.size_q = g.size_q /\ g'.gap_q = g.gap_q
                /\ g'.state = IF g.state = "GAP" /\ g.gap_left = 0 THEN "SEND"
                              ELSE IF ~gen_tlast(g) THEN g.state
                              ELSE IF g.frames_left = 1 THEN "IDLE"
                              ELSE IF g.gap_q = 0 THEN "SEND" ELSE "GAP"
                /\ g'.byte_idx = IF gen_tlast(g) THEN 0
                                 ELSE IF gen_tvalid(g) THEN g.byte_idx + 1 ELSE g.byte_idx
                /\ g'.frames_left = IF gen_tlast(g) THEN g.frames_left - 1 ELSE g.frames_left
                /\ g'.seq = IF gen_tlast(g) THEN g.seq + 1 ELSE g.seq
                /\ g'.sent_count = IF gen_tlast(g) THEN g.sent_count + 1 ELSE g.sent_count
<1> DEFINE s == "start" \in ctl.cmd
<1>1. g' = GenClocked(g, s, ctl.bytes, ctl.count, ctl.gap)
  BY DEF Tick
<1>2. starts = begins(g, s, ctl.bytes, ctl.count)
  BY DEF starts
<1> HIDE DEF s
<1> QED BY <1>1, <1>2 DEF GenClocked, s
-----------------------------------------------------------------------------
(* Types.                                                                  *)

LEMMA Lines ==
    ASSUME BoardType, NEW to
    PROVE  /\ rx_line.ctl = IF gen_busy(g) THEN gen_tvalid(g) ELSE stray \in Carried
           /\ rx_line.last = IF gen_busy(g) THEN gen_tlast(g) ELSE FALSE
           /\ rx_line.frame = IF gen_busy(g) THEN GenFrame ELSE Stray
           /\ rx_line.ctl \in BOOLEAN /\ rx_line.last \in BOOLEAN /\ rx_line.frame \in Frames
           /\ beat(to).valid = IF gen_busy(g) THEN gen_tvalid(g) ELSE stray \in {"both", "stream"}
           /\ beat(to).last = IF gen_busy(g) THEN gen_tlast(g)
                              ELSE stray = "stream" /\ to = "out"
           /\ beat(to).frame = IF gen_busy(g) THEN GenFrame ELSE Stray
           /\ beat(to).valid \in BOOLEAN /\ beat(to).last \in BOOLEAN
           /\ beat(to).frame \in Frames /\ Entering(to) \in Frames
<1>1. GenFrame \in Frames /\ Stray \in Frames
  BY DEF BoardType, GenType, PathType, GenFrame, Frames
<1>2. CASE gen_busy(g)
  BY <1>1, <1>2 DEF rx_line, beat, Entering, gen_tvalid, gen_tlast, BoardType, PathType, Maybe
<1>3. CASE ~gen_busy(g)
  BY <1>1, <1>3 DEF rx_line, beat, Entering, gen_tvalid, gen_tlast, BoardType, PathType, Maybe
<1> QED BY <1>2, <1>3

LEMMA NoneIsNoFrame == None \notin Frames /\ Stray \in Frames
  BY TrialAssumption DEF Frames

LEMMA ProbeTypeTick ==
    ASSUME BoardType, NEW retire \in BOOLEAN, NEW move \in BOOLEAN, NEW to,
           Tick(retire, move, to)
    PROVE  ProbeType'
<1>1. /\ p'.rx_q \in BOOLEAN /\ p'.last_q \in BOOLEAN /\ p'.tx_q \in Maybe
      /\ p'.clear_q \in BOOLEAN /\ p'.snapshot_q \in BOOLEAN /\ p'.pop_q \in BOOLEAN
      /\ p'.tx_stamp \in Maybe /\ p'.stat \in Seq(Pairs)
  <2>1. /\ p'.rx_q = rx_line.ctl /\ p'.last_q = rx_line.last /\ p'.tx_q = tx
        /\ p'.clear_q = ("clear" \in ctl.cmd) /\ p'.snapshot_q = ("snapshot" \in ctl.cmd)
        /\ p'.pop_q = pop(p, tx)
        /\ p'.tx_stamp = IF tx_done(p, tx) THEN p.tx_q ELSE p.tx_stamp
        /\ p'.stat = IF snapshot_pulse(p, "snapshot" \in ctl.cmd) THEN p.acc ELSE p.stat
    BY ProbeStep
  <2>2. pop(p, tx) \in BOOLEAN /\ ("clear" \in ctl.cmd) \in BOOLEAN
        /\ ("snapshot" \in ctl.cmd) \in BOOLEAN
    <3>1. pop(p, tx) \in BOOLEAN
      BY DEF pop
    <3>2. ("clear" \in ctl.cmd) \in BOOLEAN
      OBVIOUS
    <3>3. ("snapshot" \in ctl.cmd) \in BOOLEAN
      OBVIOUS
    <3> QED BY <3>1, <3>2, <3>3
  <2>3. rx_line.ctl \in BOOLEAN /\ rx_line.last \in BOOLEAN
    BY Lines
  <2>4. p.tx_q \in Maybe /\ p.tx_stamp \in Maybe /\ tx \in Maybe
        /\ p.acc \in Seq(Pairs) /\ p.stat \in Seq(Pairs)
    BY DEF BoardType, ProbeType, PathType
  <2>5. p'.tx_stamp \in Maybe /\ p'.stat \in Seq(Pairs) /\ p'.tx_q \in Maybe
    BY <2>1, <2>4
  <2> QED BY <2>1, <2>2, <2>3, <2>5, Zenon
<1>2. p'.fifo_out \in Maybe
  <2>1. reads /\ p.stamps # <<>> => Head(p.stamps) \in Frames
    BY HeadTailProperties DEF BoardType, ProbeType
  <2> QED BY <2>1, ProbeStep DEF BoardType, ProbeType, ReadPort, Maybe
<1>3. p'.acc \in Seq(Pairs)
  <2>1. <<p.fifo_out, p.tx_stamp>> \in Pairs
    BY DEF BoardType, ProbeType, Pairs
  <2>2. Append(p.acc, <<p.fifo_out, p.tx_stamp>>) \in Seq(Pairs)
    BY <2>1, AppendProperties DEF BoardType, ProbeType
  <2> QED BY <2>2, ProbeStep, EmptySeq DEF BoardType, ProbeType
<1>4. p'.stamps \in Seq(Frames) /\ Len(p'.stamps) <= ProbeDepth
  <2>1. CASE clears
    <3>1. p'.stamps = <<>> /\ Len(<<>>) = 0
      BY <2>1, ProbeStep
    <3>2. 0 <= ProbeDepth
      BY ProbeAssumption
    <3> QED BY <3>1, <3>2, EmptySeq
  <2>2. CASE ~clears
    <3>1. PICK rd \in BOOLEAN, wr \in BOOLEAN : rd = reads /\ wr = stamped
      BY DEF reads, stamped
    <3>2. p'.stamps = Moved(p.stamps, rd, wr, rx_line.frame)
      BY <2>2, <3>1, ProbeStep
    <3>3. p.stamps \in Seq(Frames) /\ rx_line.frame \in Frames
      BY Lines DEF BoardType, ProbeType
    <3>4. PICK m \in Nat : m \in {0, 1} /\ m = Read(p.stamps, rd)
      BY DEF Read
    <3>5. p'.stamps \in Seq(Frames) /\ Grows(p'.stamps, p.stamps, m, wr, rx_line.frame)
      BY <3>2, <3>3, <3>4, QueueStep
    <3>6. Len(p'.stamps) = Len(p.stamps) - m + (IF wr THEN 1 ELSE 0)
      BY <3>5 DEF Grows
    <3>7. Len(p.stamps) \in Nat /\ Len(p.stamps) <= ProbeDepth
          /\ (wr => Len(p.stamps) # ProbeDepth)
      BY <3>1, LenProperties DEF BoardType, ProbeType, stamped
    <3>8. Len(p'.stamps) <= ProbeDepth
      BY <3>4, <3>6, <3>7, ProbeAssumption
    <3> QED BY <3>5, <3>8
  <2> QED BY <2>1, <2>2
<1>5. p'.v \in Seq(BOOLEAN)
  <2>1. CASE clears
    BY <2>1, ProbeStep, EmptySeq
  <2>2. CASE ~clears
    <3>1. PICK rd \in BOOLEAN, wr \in BOOLEAN, d \in BOOLEAN :
             rd = reads /\ wr = judged(retire) /\ d = drops
      BY DEF reads, judged, retires, drops
    <3>3. p'.v = Moved(p.v, rd, wr, d)
      BY <2>2, <3>1, VerdictStep
    <3>4. p.v \in Seq(BOOLEAN)
      BY DEF BoardType, ProbeType
    <3> QED BY <3>3, <3>4, QueueStep
  <2> QED BY <2>1, <2>2
<1> QED BY <1>1, <1>2, <1>3, <1>4, <1>5 DEF ProbeType

LEMMA PathTypeTick ==
    ASSUME BoardType, NEW retire \in BOOLEAN, NEW move \in BOOLEAN, NEW to \in StrayMoves,
           Tick(retire, move, to)
    PROVE  PathType'
<1>1. to \in {"out", "envelope", "both", "stream", "torn"}
  BY DEF StrayMoves, BoardType, PathType
<1>2. Head(flight) \in Frames \/ flight = <<>>
  BY HeadTailProperties DEF BoardType, PathType
<1>3. Head(queued) \in Frames \/ queued = <<>>
  BY HeadTailProperties DEF BoardType, PathType
<1>4. /\ inframe' \in Maybe /\ tx' \in Maybe /\ stray' \in {"out", "envelope", "both", "stream", "torn"}
      /\ train' \in 0 .. 2 /\ ticked' \in BOOLEAN
  <2>1. inframe \in Maybe /\ tx \in Maybe /\ train \in 0 .. 2 /\ Frames \subseteq Maybe
        /\ None \in Maybe /\ TRUE \in BOOLEAN
    BY DEF BoardType, PathType, Maybe
  <2>2. inframe' \in Maybe
    <3>1. Entering(to) \in Maybe
      BY <2>1, Lines
    <3>2. inframe' \in {inframe, None, Entering(to)}
      BY PathStep
    <3> QED BY <2>1, <3>1, <3>2
  <2>3. tx' \in Maybe
    BY <2>1, <1>3, PathStep DEF sends
  <2>4. train' \in 0 .. 2
    <3>1. (train + 1) % 3 \in 0 .. 2
      BY <2>1
    <3>2. train' \in {train, (train + 1) % 3}
      BY PathStep
    <3> QED BY <2>1, <3>1, <3>2
  <2> QED BY <1>1, <2>1, <2>2, <2>3, <2>4, PathStep
<1>5. spoilt' \in BOOLEAN
  BY PathStep DEF Spoils, BoardType, PathType
<1>6. tx' # None => p'.tx_q \in {tx', None}
  BY PathStep, ProbeStep, <1>3 DEF sends
<1>7. flight' \in Seq(Frames)
  <2>1. PICK wr \in BOOLEAN : wr = enters(to)
    BY DEF enters
  <2>3. flight' = Moved(flight, retire, wr, Entering(to))
    BY <2>1, PathStep
  <2>4. flight \in Seq(Frames) /\ Entering(to) \in Frames
    BY Lines DEF BoardType, PathType
  <2> QED BY <2>3, <2>4, QueueStep
<1>8. queued' \in Seq(Frames)
  <2>1. PICK rd \in BOOLEAN, wr \in BOOLEAN : rd = sends(move) /\ wr = kept(retire)
    BY DEF sends, kept, passes, retires
  <2>3. queued' = Moved(queued, rd, wr, Head(flight))
    BY <2>1, PathStep
  <2>4. queued \in Seq(Frames) /\ (wr => Head(flight) \in Frames)
    BY <1>2, <2>1 DEF BoardType, PathType, kept, passes, retires
  <2> QED BY <2>3, <2>4, QueueStep
<1> QED BY <1>4, <1>5, <1>6, <1>7, <1>8 DEF PathType

LEMMA TypeTick ==
    ASSUME BoardType, NEW retire \in BOOLEAN, NEW move \in BOOLEAN, NEW to \in StrayMoves,
           Tick(retire, move, to)
    PROVE  BoardType'
<1>1. GenType'
  <2>1. g'.start_q \in BOOLEAN
    <3>1. ("start" \in ctl.cmd) \in BOOLEAN
      OBVIOUS
    <3> QED BY <3>1, GenStep, Zenon
  <2>2. CASE starts
    BY <2>1, <2>2, GenStep DEF GenType
  <2>3. CASE ~starts
    BY <2>1, <2>3, GenStep DEF BoardType, GenType
  <2> QED BY <2>2, <2>3
<1>2. Commanded'
  BY PathStep DEF BoardType, Commanded, mid
<1>3. Edges'
  <2>1. ctl.cmd = IF h.pc = "unclear" THEN {"clear"}
                  ELSE IF h.pc = "unstart" THEN {"start"}
                  ELSE IF h.pc = "unsnapshot" THEN {"snapshot"} ELSE {}
    BY DEF BoardType, Commanded
  <2>2. /\ h.pc # "unstart" => "start" \notin ctl.cmd
        /\ h.pc # "unclear" => "clear" \notin ctl.cmd
        /\ h.pc # "unsnapshot" => "snapshot" \notin ctl.cmd
    BY <2>1
  <2>3. /\ h.pc # "unstart" => ~g'.start_q
        /\ h.pc # "unclear" => ~p'.clear_q
        /\ h.pc # "unsnapshot" => ~p'.snapshot_q
    BY <2>2, GenStep, ProbeStep
  <2>4. h' = h /\ ticked' = TRUE
    BY PathStep
  <2> QED BY <2>3, <2>4 DEF Edges
<1> QED BY <1>1, <1>2, <1>3, ProbeTypeTick, PathTypeTick DEF BoardType
-----------------------------------------------------------------------------
(* Before the train.                                                       *)

Overflow == rx_start(p, rx_line) /\ Len(p.stamps) = ProbeDepth

LEMMA NothingMoved == ASSUME NEW rd, NEW wr, ~wr, NEW d PROVE Moved(<<>>, rd, wr, d) = <<>>
<1>1. Rest(<<>>, rd) = <<>> /\ (IF wr THEN <<d>> ELSE <<>>) = <<>>
  BY DEF Rest
<1>2. <<>> \o <<>> = <<>>
  OBVIOUS
<1> QED BY <1>1, <1>2 DEF Moved

LEMMA ClearTick ==
    ASSUME BoardType, NEW retire \in BOOLEAN, NEW move \in BOOLEAN, NEW to \in StrayMoves,
           Tick(retire, move, to), clears, ~spoilt'
    PROVE  Pre'
<1>1. ~gen_busy(g) /\ p.tx_q = None /\ InDatapath \subseteq {None}
  BY PathStep DEF Spoils, Still
<1>2. inframe = None /\ tx = None /\ stray = "out"
  BY <1>1, NoneIsNoFrame, TrialAssumption DEF InDatapath
<1>3. flight = <<>> /\ queued = <<>>
  <2>1. \A k \in DOMAIN flight : flight[k] = None
    BY <1>1 DEF InDatapath
  <2>2. \A k \in DOMAIN queued : queued[k] = None
    BY <1>1 DEF InDatapath
  <2>3. flight \in Seq(Frames) /\ queued \in Seq(Frames)
    BY DEF BoardType, PathType
  <2>4. flight # <<>> => 1 \in DOMAIN flight /\ flight[1] \in Frames
    BY <2>3, HeadTailProperties
  <2>5. queued # <<>> => 1 \in DOMAIN queued /\ queued[1] \in Frames
    BY <2>3, HeadTailProperties
  <2> QED BY <2>1, <2>2, <2>4, <2>5, NoneIsNoFrame
<1>4. ~starts /\ g.state = "IDLE"
  <2>1. "clear" \in ctl.cmd
    BY DEF clears, clear_pulse
  <2>2. "start" \notin ctl.cmd
    BY <2>1 DEF BoardType, Commanded
  <2> QED BY <1>1, <2>2 DEF starts, begins, start_pulse, gen_busy
<1>5. g'.state = "IDLE"
  BY <1>4, GenStep DEF gen_tlast, gen_tvalid
<1>6. ~rx_line.ctl /\ ~rx_line.last /\ ~beat(to).valid
  BY <1>1, <1>2, Lines DEF Carried
<1>7. /\ p'.acc = <<>> /\ ~p'.pop_q /\ p'.tx_q = None /\ tx' = None
      /\ p'.stamps = <<>> /\ p'.v = <<>> /\ ~p'.rx_q /\ ~p'.last_q
  BY <1>1, <1>2, <1>3, <1>6, ProbeStep, PathStep DEF pop, tx_done, sends
<1>8. queued' = <<>> /\ flight' = <<>>
  <2>1. ~enters(to) /\ ~kept(retire)
    BY <1>3, <1>6 DEF enters, kept, passes, retires
  <2>2. /\ flight' = Moved(flight, retire, enters(to), Entering(to))
        /\ queued' = Moved(queued, sends(move), kept(retire), Head(flight))
    BY PathStep
  <2>3. flight' = <<>>
    BY <1>3, <2>1, <2>2, NothingMoved
  <2>4. queued' = <<>>
    BY <1>3, <2>1, <2>2, NothingMoved
  <2> QED BY <2>3, <2>4
<1>9. inframe' = None /\ stray' \in {"out", "envelope"}
  BY <1>2, <1>6, PathStep DEF StrayMoves
<1>10. Len(p'.stamps) = Len(p'.v) + Len(flight') + Pending'
  <2>1. Pending' = 0
    BY <1>7, <1>9 DEF Pending, One
  <2>2. Len(<<>>) = 0
    OBVIOUS
  <2> QED BY <1>7, <1>8, <2>1, <2>2
<1>11. Quiet'
  BY <1>7, <1>8, <1>9, <1>10, EmptySeq DEF Quiet
<1> QED BY <1>5, <1>11 DEF Pre

\* Where the stray goes: a stamp comes in with its envelope, a frame when its stream ends.
LEMMA QuietStray ==
    ASSUME BoardType, Quiet, g.state = "IDLE", NEW retire \in BOOLEAN, NEW move \in BOOLEAN,
           NEW to \in StrayMoves, Tick(retire, move, to),
           NEW s \in Nat, s = IF rx_start(p, rx_line) THEN 1 ELSE 0,
           NEW e \in Nat, e = IF enters(to) THEN 1 ELSE 0
    PROVE  /\ Pending' + e = Pending + s
           /\ ~p'.last_q
           /\ stray' = "out"      => ~p'.rx_q /\ inframe' = None
           /\ stray' = "envelope" => inframe' = None
           /\ stray' = "both"     => p'.rx_q /\ inframe' \in {None, Stray}
           /\ stray' = "stream"   => inframe' = Stray
           /\ stray \in {"both", "stream"} /\ to # "out" => inframe' = Stray
           /\ stray \in {"out", "stream"} => ~p'.rx_q
           /\ stray' # "torn" /\ Entering(to) = Stray
<1>1. /\ rx_line.ctl = (stray \in Carried) /\ rx_line.last = FALSE
      /\ beat(to).valid = (stray \in {"both", "stream"})
      /\ beat(to).last = (stray = "stream" /\ to = "out")
      /\ beat(to).frame = Stray
  BY Lines DEF gen_busy
<1>2. /\ p'.rx_q = rx_line.ctl /\ p'.last_q = rx_line.last /\ stray' = to
      /\ inframe' = IF ~beat(to).valid THEN inframe
                    ELSE IF beat(to).last THEN None ELSE Entering(to)
  BY ProbeStep, PathStep
<1>3. inframe \in {None, Stray} /\ ~p.last_q
      /\ (stray = "both" => p.rx_q) /\ (stray = "out" => ~p.rx_q) /\ stray # "torn"
  BY DEF Quiet, BoardType, PathType
<1>4. Entering(to) = Stray
  BY <1>1, <1>3 DEF Entering
<1>5. rx_start(p, rx_line) <=> (stray = "envelope" /\ ~p.rx_q) \/ (stray = "both" /\ ~p.rx_q)
  BY <1>1, <1>3 DEF rx_start, Carried
<1>6. enters(to) <=> stray = "stream" /\ to = "out"
  BY <1>1 DEF enters
<1>7. CASE stray = "out"
  <2>1. to \in {"out", "envelope"} /\ s = 0 /\ e = 0 /\ ~p'.rx_q /\ ~p'.last_q /\ inframe' = None
    BY <1>1, <1>2, <1>5, <1>6, <1>7 DEF StrayMoves, Carried, Quiet
  <2>2. Pending = 0 /\ Pending' = 0
    BY <1>2, <1>7, <2>1 DEF Pending, One
  <2> QED BY <1>2, <1>4, <1>7, <2>1, <2>2
<1>8. CASE stray = "envelope"
  <2>1. to \in {"envelope", "both"} /\ e = 0 /\ p'.rx_q /\ ~p'.last_q /\ inframe' = None
    BY <1>1, <1>2, <1>6, <1>8 DEF StrayMoves, Carried, Quiet
  <2>2. Pending' = 1 /\ Pending + s = 1
    BY <1>2, <1>5, <1>8, <2>1 DEF Pending, One
  <2> QED BY <1>2, <1>4, <1>8, <2>1, <2>2
<1>9. CASE stray = "both"
  <2>1. to \in {"both", "stream"} /\ e = 0 /\ s = 0 /\ p'.rx_q /\ ~p'.last_q /\ inframe' = Stray
    BY <1>1, <1>2, <1>3, <1>4, <1>5, <1>6, <1>9 DEF StrayMoves, Carried
  <2>2. Pending' = 1 /\ Pending = 1
    BY <1>2, <1>9, <2>1 DEF Pending
  <2> QED BY <1>2, <1>4, <1>9, <2>1, <2>2
<1>10. CASE stray = "stream"
  <2>1. to \in {"stream", "out"} /\ s = 0 /\ ~p'.rx_q /\ ~p'.last_q
        /\ inframe' = IF to = "out" THEN None ELSE Stray
    BY <1>1, <1>2, <1>4, <1>5, <1>10 DEF StrayMoves, Carried
  <2>2. Pending' + e = 1 /\ Pending = 1
    BY <1>2, <1>6, <1>10, <2>1 DEF Pending
  <2> QED BY <1>2, <1>4, <1>10, <2>1, <2>2
<1> QED BY <1>3, <1>7, <1>8, <1>9, <1>10 DEF BoardType, PathType

LEMMA Booleans ==
    ASSUME NEW retire \in BOOLEAN, NEW move \in BOOLEAN, NEW to
    PROVE  /\ reads \in BOOLEAN /\ stamped \in BOOLEAN /\ drops \in BOOLEAN
           /\ retires(retire) \in BOOLEAN /\ judged(retire) \in BOOLEAN
           /\ passes(retire) \in BOOLEAN /\ kept(retire) \in BOOLEAN
           /\ enters(to) \in BOOLEAN /\ sends(move) \in BOOLEAN
  BY DEF reads, stamped, drops, retires, judged, passes, kept, enters, sends

LEMMA QuietTick ==
    ASSUME BoardType, Quiet, g.state = "IDLE", NEW retire \in BOOLEAN, NEW move \in BOOLEAN,
           NEW to \in StrayMoves, Tick(retire, move, to), ~clears, ~Overflow
    PROVE  Quiet'
<1>1. /\ p.acc = <<>> /\ ~p.pop_q /\ p.tx_q = None /\ tx = None /\ queued = <<>>
      /\ p.stamps \in Seq({Stray}) /\ p.v \in Seq({TRUE}) /\ flight \in Seq({Stray})
      /\ Len(p.stamps) = Len(p.v) + Len(flight) + Pending
  BY DEF Quiet
<1>2. retires(retire) => drops
  BY <1>1, HeadTailProperties DEF retires, drops
<1>3. ~kept(retire) /\ ~sends(move)
  BY <1>1, <1>2 DEF kept, passes, sends
<1>4. p'.acc = <<>> /\ ~p'.pop_q /\ p'.tx_q = None /\ tx' = None
  BY <1>1, <1>3, ProbeStep, PathStep DEF pop, tx_done
<1>5. queued' = <<>>
  <2>1. queued' = Moved(queued, sends(move), kept(retire), Head(flight))
    BY PathStep
  <2> QED BY <1>1, <1>3, <2>1, NothingMoved
<1>6. PICK s \in Nat, e \in Nat : /\ s = IF rx_start(p, rx_line) THEN 1 ELSE 0
                                  /\ e = IF enters(to) THEN 1 ELSE 0
  OBVIOUS
<1>7. /\ Pending' + e = Pending + s
      /\ ~p'.last_q
      /\ stray' = "out"      => ~p'.rx_q /\ inframe' = None
      /\ stray' = "envelope" => inframe' = None
      /\ stray' = "both"     => p'.rx_q /\ inframe' \in {None, Stray}
      /\ stray' = "stream"   => inframe' = Stray
      /\ stray' # "torn" /\ Entering(to) = Stray
  BY <1>6, QuietStray
<1>8. PICK rd \in BOOLEAN, wr \in BOOLEAN, jd \in BOOLEAN, d \in BOOLEAN, en \in BOOLEAN :
         rd = reads /\ wr = stamped /\ jd = judged(retire) /\ d = drops /\ en = enters(to)
  BY Booleans
<1>9. p'.stamps \in Seq({Stray}) /\ Grows(p'.stamps, p.stamps, Read(p.stamps, rd), wr, Stray)
  <2>1. p'.stamps = Moved(p.stamps, rd, wr, Stray)
    <3>1. p'.stamps = Moved(p.stamps, reads, stamped, rx_line.frame)
      BY ProbeStep
    <3>2. rx_line.frame = Stray
      BY Lines DEF gen_busy
    <3> QED BY <1>8, <3>1, <3>2
  <2>2. p.stamps \in Seq({Stray}) /\ Stray \in {Stray}
    BY <1>1
  <2> QED BY <1>8, <2>1, <2>2, QueueStep
<1>10. p'.v \in Seq({TRUE}) /\ Grows(p'.v, p.v, Read(p.v, rd), jd, d)
  <2>1. p'.v = Moved(p.v, rd, jd, d)
    BY <1>8, VerdictStep
  <2>2. PICK S : S = {TRUE}
    OBVIOUS
  <2>3. jd => d \in S
    BY <1>2, <1>8, <2>2 DEF judged
  <2>4. p.v \in Seq(S)
    BY <1>1, <2>2
  <2>5. p'.v \in Seq(S) /\ Grows(p'.v, p.v, Read(p.v, rd), jd, d)
    BY <1>8, <2>1, <2>3, <2>4, QueueStep
  <2> QED BY <2>2, <2>5
<1>11. flight' \in Seq({Stray}) /\ Grows(flight', flight, Read(flight, retire), en, Stray)
  <2>1. flight' = Moved(flight, retire, en, Stray)
    <3>1. flight' = Moved(flight, retire, enters(to), Entering(to))
      BY PathStep
    <3>2. Entering(to) = Stray
      BY <1>7
    <3> QED BY <1>8, <3>1, <3>2
  <2>2. flight \in Seq({Stray}) /\ Stray \in {Stray}
    BY <1>1
  <2> QED BY <1>8, <2>1, <2>2, QueueStep
<1>12. /\ Len(p.stamps) \in Nat /\ Len(p.v) \in Nat /\ Len(flight) \in Nat
       /\ Len(p.stamps) <= ProbeDepth /\ Pending \in Nat /\ Pending' \in Nat
       /\ (flight # <<>> => Len(flight) > 0)
  <2>1. Pending \in Nat /\ Pending' \in Nat
    BY DEF Pending, One
  <2>2. Len(p.stamps) \in Nat /\ Len(p.v) \in Nat /\ Len(flight) \in Nat
    BY <1>1, LenProperties
  <2>3. flight # <<>> => Len(flight) > 0
    BY <1>1, <2>2, EmptySeq
  <2> QED BY <2>1, <2>2, <2>3 DEF BoardType, ProbeType
<1>13. PICK r \in Nat, f \in Nat :
          /\ r = Read(p.stamps, rd) /\ r = Read(p.v, rd) /\ f = Read(flight, retire)
          /\ f = IF jd THEN 1 ELSE 0
  <2>1. rd => p.stamps # <<>> /\ p.v # <<>>
    BY <1>8 DEF reads, pop, drop_pop
  <2>2. Read(p.stamps, rd) = Read(p.v, rd) /\ Read(p.stamps, rd) \in Nat
        /\ Read(flight, retire) \in Nat
    BY <2>1 DEF Read
  <2>3. jd <=> retire /\ flight # <<>>
    <3>1. flight # <<>> => Len(p.v) # ProbeDepth
      BY <1>1, <1>12, ProbeAssumption
    <3> QED BY <1>8, <3>1 DEF judged, retires
  <2>4. Read(flight, retire) = IF jd THEN 1 ELSE 0
    BY <2>3 DEF Read
  <2> QED BY <2>2, <2>4
<1>14. /\ Len(p'.stamps) = Len(p.stamps) - r + s
       /\ Len(p'.v) = Len(p.v) - r + f
       /\ Len(flight') = Len(flight) - f + e
  <2>1. wr <=> rx_start(p, rx_line)
    BY <1>8 DEF stamped, Overflow
  <2>2. Len(p'.stamps) = Len(p.stamps) - r + (IF wr THEN 1 ELSE 0)
    BY <1>9, <1>13 DEF Grows
  <2>3. Len(p'.v) = Len(p.v) - r + (IF jd THEN 1 ELSE 0)
    BY <1>10, <1>13 DEF Grows
  <2>4. Len(flight') = Len(flight) - f + (IF en THEN 1 ELSE 0)
    BY <1>11, <1>13 DEF Grows
  <2> QED BY <1>6, <1>8, <1>13, <2>1, <2>2, <2>3, <2>4
<1>15. Len(p'.stamps) = Len(p'.v) + Len(flight') + Pending'
  <2>1. Len(p.stamps) = Len(p.v) + Len(flight) + Pending
    BY <1>1
  <2>2. Pending' + e = Pending + s
    BY <1>7
  <2>3. PICK a \in Nat, b \in Nat, c \in Nat, x \in Nat, y \in Nat :
           a = Len(p.stamps) /\ b = Len(p.v) /\ c = Len(flight) /\ x = Pending /\ y = Pending'
    BY <1>12
  <2>4. a = b + c + x /\ y + e = x + s
    BY <2>1, <2>2, <2>3
  <2>5. a - r + s = (b - r + f) + (c - f + e) + y
    <3>1. r \in Nat /\ f \in Nat /\ s \in Nat /\ e \in Nat
      BY <1>6, <1>13
    <3>2. a \in Nat /\ b \in Nat /\ c \in Nat /\ x \in Nat /\ y \in Nat
      BY <2>3
    <3> QED BY <2>4, <3>1, <3>2
  <2> QED BY <1>14, <2>3, <2>5
<1> QED BY <1>4, <1>5, <1>7, <1>9, <1>10, <1>11, <1>15 DEF Quiet

LEMMA PreTick ==
    ASSUME BoardType, Pre, NEW retire \in BOOLEAN, NEW move \in BOOLEAN,
           NEW to \in StrayMoves, Tick(retire, move, to), ~clears, ~starts, ~Overflow
    PROVE  Pre' /\ g'.sent_count = g.sent_count
<1>1. g.state = "IDLE" /\ Quiet
  BY DEF Pre
<1>2. g'.state = "IDLE" /\ g'.sent_count = g.sent_count
  BY <1>1, GenStep DEF gen_tlast, gen_tvalid
<1> QED BY <1>1, <1>2, QuietTick DEF Pre
-----------------------------------------------------------------------------
(* The train begins.                                                       *)

LEMMA TrainBegins ==
    ASSUME BoardType, h.pc = "unstart", Pre, NEW retire \in BOOLEAN, NEW move \in BOOLEAN,
           NEW to \in StrayMoves, Tick(retire, move, to), ~clears, starts, stray # "envelope",
           ~Overflow
    PROVE  Run' /\ g'.start_q
<1>1. Quiet' /\ g.state = "IDLE" /\ Quiet
  BY QuietTick DEF Pre
<1>2. ctl.gap = mid /\ ctl.bytes = Size /\ ctl.count = Count /\ "start" \in ctl.cmd
  BY DEF BoardType, Commanded
<1>3. Count \in Nat /\ Count > 0 /\ Size \in Nat /\ Size > 0
  BY <1>2, TrialAssumption, GenAssumption DEF starts, begins
<1>4. /\ g'.state = "SEND" /\ g'.byte_idx = 0 /\ g'.seq = 0 /\ g'.frames_left = Count
      /\ g'.size_q = Size /\ g'.gap_q = mid /\ g'.sent_count = 0 /\ g'.start_q
  BY <1>2, GenStep
<1>5. h' = h /\ mid' = mid
  BY PathStep DEF mid
<1>6. GenRun'
  <2>1. Count - 0 = Count
    BY <1>3
  <2> QED BY <1>3, <1>4, <1>5, <2>1 DEF GenRun, gen_busy
<1>7. PICK s \in Nat, e \in Nat : /\ s = IF rx_start(p, rx_line) THEN 1 ELSE 0
                                  /\ e = IF enters(to) THEN 1 ELSE 0
  OBVIOUS
<1>8. /\ stray \in {"both", "stream"} /\ to # "out" => inframe' = Stray
      /\ stray \in {"out", "stream"} => ~p'.rx_q
  BY <1>1, <1>7, QuietStray
<1>9. stray' = to
  BY PathStep
<1>10. /\ p'.acc = <<>> /\ ~p'.pop_q /\ p'.tx_q = None /\ tx' = None /\ queued' = <<>>
       /\ p'.stamps \in Seq({Stray}) /\ p'.v \in Seq({TRUE}) /\ flight' \in Seq({Stray})
       /\ Len(p'.stamps) = Len(p'.v) + Len(flight') + Pending'
  BY <1>1 DEF Quiet
<1>11. Len(p'.stamps) \in Nat /\ Len(p'.v) \in Nat /\ Len(flight') \in Nat
       /\ Got' = 0 /\ Outstanding' = 0 /\ wire' = None
  <2>1. Len(p'.stamps) \in Nat /\ Len(p'.v) \in Nat /\ Len(flight') \in Nat
    BY <1>10, LenProperties
  <2>2. wire' = None
    BY <1>10 DEF wire
  <2>3. Len(<<>>) = 0
    OBVIOUS
  <2> QED BY <1>10, <2>1, <2>2, <2>3 DEF Got, Outstanding, One
<1>12. gen_busy(g)'
  BY <1>4 DEF gen_busy
<1>13. CASE to \in {"out", "envelope"}
  <2>1. inframe' = None /\ ~p'.rx_q
    BY <1>1, <1>8, <1>9, <1>13 DEF Quiet, StrayMoves, BoardType, PathType
  <2>2. Len(p'.stamps) = Len(p'.v) + Len(flight')
    <3>1. Pending' = 0
      BY <1>9, <1>13, <2>1 DEF Pending, One
    <3> QED BY <1>10, <1>11, <3>1
  <2>3. PICK z \in Int, xf \in Int :
            /\ z = 0 - Len(p'.stamps) /\ xf = 0 - Len(flight')
            /\ z <= 0 /\ xf <= 0 /\ z + Len(p'.v) = xf
    BY <1>11, <2>2
  <2>4. Window(p.stamps, W, z)'
    <3>1. SUFFICES ASSUME NEW j \in DOMAIN p'.stamps PROVE p'.stamps[j] = W'[z + j - 1]
      BY DEF Window
    <3>2. j \in 1 .. Len(p'.stamps) /\ p'.stamps[j] = Stray
      BY <1>10
    <3>3. z + j - 1 \in Int /\ z + j - 1 < 0
      BY <1>11, <2>3, <3>2
    <3> QED BY <3>2, <3>3, <1>3 DEF W
  <2>5. Window(p.v, Dropped, z)'
    <3>1. SUFFICES ASSUME NEW j \in DOMAIN p'.v PROVE p'.v[j] = Dropped'[z + j - 1]
      BY DEF Window
    <3>2. j \in 1 .. Len(p'.v) /\ p'.v[j] = TRUE
      <4>1. PICK S : S = {TRUE}
        OBVIOUS
      <4>2. p'.v \in Seq(S)
        BY <1>10, <4>1
      <4>3. j \in 1 .. Len(p'.v) /\ p'.v[j] \in S
        BY <4>2
      <4> QED BY <4>1, <4>3
    <3>3. z + j - 1 \in Int /\ z + j - 1 < 0
      BY <1>11, <2>2, <2>3, <3>2
    <3>4. Dropped'[z + j - 1] = (z + j - 1 \notin 0 .. Count - 1)
      BY <3>3 DEF Dropped
    <3>5. z + j - 1 \notin 0 .. Count - 1
      BY <3>3, <1>3
    <3> QED BY <3>2, <3>4, <3>5
  <2>6. Window(flight, W, xf)'
    <3>1. SUFFICES ASSUME NEW j \in DOMAIN flight' PROVE flight'[j] = W'[xf + j - 1]
      BY DEF Window
    <3>2. j \in 1 .. Len(flight') /\ flight'[j] = Stray
      BY <1>10
    <3>3. xf + j - 1 \in Int /\ xf + j - 1 < 0
      BY <1>11, <2>3, <3>2
    <3> QED BY <3>2, <3>3, <1>3 DEF W
  <2>7. Clamp(z) = 0 /\ Clamp(xf) = 0
    BY <1>3, <2>3 DEF Clamp
  <2>8. Window(p.acc, Pair, 0)' /\ Window(queued, W, Got + One(wire # None))'
    BY <1>10 DEF Window
  <2>9. 0 = 0 + One(g.byte_idx > 0)'
    BY <1>4 DEF One
  <2>10. OnLine(0, 0)'
    BY <1>4, <1>12, <2>1, <2>9 DEF OnLine
  <2>11. InPath(0, 0)'
    BY <2>3, <2>4, <2>5, <2>6 DEF InPath, Placed
  <2>12. Sampled(z, xf)'
    BY <1>10, <1>11, <2>7, <2>8 DEF Sampled, Leaving
  <2>13. Exact(0, 0)'
    BY <2>3, <2>10, <2>11, <2>12 DEF Exact
  <2> QED BY <1>4, <1>6, <2>13 DEF Run
<1>14. CASE to \notin {"out", "envelope"}
  <2>1. inframe' = Stray
    <3>1. stray # "torn"
      BY <1>1 DEF Quiet
    <3> QED BY <1>8, <1>14, <3>1 DEF StrayMoves, BoardType, PathType
  <2>2. \A j \in DOMAIN flight' : flight'[j] = Stray
    BY <1>10
  <2>3. Lossy(0)'
    BY <1>3, <1>4, <1>11, <1>12, <2>1, <2>2 DEF Lossy
  <2> QED BY <1>4, <1>6, <2>3 DEF Run
<1> QED BY <1>13, <1>14
-----------------------------------------------------------------------------
(* The train runs.                                                         *)

LEMMA GenRunTick ==
    ASSUME BoardType, GenRun, Count > 0, NEW retire \in BOOLEAN, NEW move \in BOOLEAN, NEW to,
           Tick(retire, move, to), ~starts
    PROVE  /\ GenRun'
           /\ ~gen_busy(g) => ~gen_busy(g)'
           /\ gen_busy(g)' => /\ gen_busy(g)
                              /\ g'.seq = g.seq + One(gen_tlast(g))
                              /\ g'.byte_idx = IF gen_tlast(g) THEN 0
                                               ELSE IF gen_tvalid(g) THEN g.byte_idx + 1
                                               ELSE g.byte_idx
           /\ gen_busy(g) /\ ~gen_busy(g)' => gen_tlast(g) /\ g.seq + 1 = Count
<1>1. /\ g'.size_q = g.size_q /\ g'.gap_q = g.gap_q
      /\ g'.state = IF g.state = "GAP" /\ g.gap_left = 0 THEN "SEND"
                    ELSE IF ~gen_tlast(g) THEN g.state
                    ELSE IF g.frames_left = 1 THEN "IDLE"
                    ELSE IF g.gap_q = 0 THEN "SEND" ELSE "GAP"
      /\ g'.byte_idx = IF gen_tlast(g) THEN 0
                       ELSE IF gen_tvalid(g) THEN g.byte_idx + 1 ELSE g.byte_idx
      /\ g'.frames_left = IF gen_tlast(g) THEN g.frames_left - 1 ELSE g.frames_left
      /\ g'.seq = IF gen_tlast(g) THEN g.seq + 1 ELSE g.seq
      /\ g'.sent_count = IF gen_tlast(g) THEN g.sent_count + 1 ELSE g.sent_count
  BY GenStep
<1>2. mid' = mid
  BY PathStep DEF mid
<1>3. Count \in Nat /\ Size \in Nat /\ Size > 0
  BY TrialAssumption, GenAssumption
<1>4. g.state \in {"IDLE", "SEND", "GAP"} /\ g.seq \in Nat /\ g.byte_idx \in Nat
  BY DEF BoardType, GenType
<1>5. CASE ~gen_busy(g)
  <2>1. g.state = "IDLE" /\ ~gen_tlast(g)
    BY <1>5 DEF gen_busy, gen_tlast, gen_tvalid
  <2>2. g'.state = "IDLE" /\ g'.sent_count = g.sent_count
    BY <1>1, <2>1
  <2>3. GenRun'
    BY <1>1, <1>2, <1>5, <2>2 DEF GenRun, gen_busy
  <2> QED BY <1>5, <2>2, <2>3 DEF gen_busy
<1>6. CASE gen_busy(g) /\ ~gen_tlast(g)
  <2>1. g.state \in {"SEND", "GAP"}
    BY <1>4, <1>6 DEF gen_busy
  <2>2. g'.state \in {"SEND", "GAP"} /\ (g'.state = "GAP" => g.state = "GAP")
    BY <1>1, <1>6, <2>1
  <2>3. /\ g'.seq = g.seq /\ g'.sent_count = g.sent_count /\ g'.frames_left = g.frames_left
        /\ g'.byte_idx = IF g.state = "SEND" THEN g.byte_idx + 1 ELSE g.byte_idx
    BY <1>1, <1>6 DEF gen_tvalid
  <2>4. /\ g.size_q = Size /\ g.seq < Count /\ g.sent_count = g.seq /\ g.byte_idx < Size
        /\ g.frames_left = Count - g.seq /\ (g.state = "GAP" => g.byte_idx = 0)
        /\ g.gap_q = mid
    BY <1>6 DEF GenRun
  <2>5. g'.byte_idx < Size /\ (g'.state = "GAP" => g'.byte_idx = 0)
    <3>1. g.state = "SEND" => g.byte_idx # Size - 1
      BY <1>6, <2>4 DEF gen_tlast, gen_tvalid
    <3> QED BY <1>3, <1>4, <2>2, <2>3, <2>4, <3>1
  <2>6. gen_busy(g)'
    BY <2>2 DEF gen_busy
  <2>7. GenRun'
    BY <1>1, <1>2, <2>2, <2>3, <2>4, <2>5, <2>6 DEF GenRun
  <2>8. g'.seq = g.seq + One(gen_tlast(g))
    BY <1>4, <1>6, <2>3 DEF One
  <2> QED BY <1>1, <1>6, <2>6, <2>7, <2>8
<1>7. CASE gen_busy(g) /\ gen_tlast(g)
  <2>1. g.state = "SEND"
    BY <1>7 DEF gen_tlast, gen_tvalid
  <2>2. /\ g.size_q = Size /\ g.seq < Count /\ g.sent_count = g.seq
        /\ g.frames_left = Count - g.seq /\ g.gap_q = mid
    BY <1>7 DEF GenRun
  <2>3. /\ g'.seq = g.seq + 1 /\ g'.sent_count = g.seq + 1 /\ g'.byte_idx = 0
        /\ g'.frames_left = Count - (g.seq + 1)
    BY <1>1, <1>3, <1>4, <1>7, <2>2
  <2>4. g'.state = IF g.frames_left = 1 THEN "IDLE"
                   ELSE IF g.gap_q = 0 THEN "SEND" ELSE "GAP"
    BY <1>1, <1>7, <2>1
  <2>5. CASE g.frames_left = 1
    <3>1. g.seq + 1 = Count /\ ~gen_busy(g)' /\ g'.state = "IDLE"
      BY <1>3, <1>4, <2>2, <2>4, <2>5 DEF gen_busy
    <3>2. GenRun'
      BY <1>1, <1>2, <2>2, <2>3, <3>1 DEF GenRun
    <3> QED BY <1>7, <3>1, <3>2
  <2>6. CASE g.frames_left # 1
    <3>1. g.seq + 1 < Count /\ gen_busy(g)'
      BY <1>3, <1>4, <2>2, <2>4, <2>6 DEF gen_busy
    <3>2. GenRun'
      BY <1>1, <1>2, <1>3, <2>2, <2>3, <3>1 DEF GenRun
    <3>3. g'.seq = g.seq + One(gen_tlast(g))
      BY <1>7, <2>3 DEF One
    <3> QED BY <1>1, <1>7, <3>1, <3>2, <3>3
  <2> QED BY <2>5, <2>6
<1> QED BY <1>5, <1>6, <1>7

LEMMA SameW ==
    ASSUME NEW retire \in BOOLEAN, NEW move \in BOOLEAN, NEW to, Tick(retire, move, to), ~starts
    PROVE  W' = W /\ Dropped' = Dropped /\ Pair' = Pair
<1>1. train' = train
  BY PathStep
<1> QED BY <1>1 DEF W, Dropped, Pair

\* What the names are.
LEMMA Places01 ==
    ASSUME Count > 0
    PROVE  /\ \A i \in Int : /\ i >= Count => W[i] = Stray
                             /\ i < 0 => W[i] = Stray
                             /\ 0 <= i /\ i < Count => W[i] = <<train, i>>
                             /\ Dropped[i] <=> i < 0 \/ i >= Count
                             /\ Dropped[i] \in BOOLEAN
                             /\ Pair[i] = <<W[i], W[i]>>
<1>1. Count \in Nat
  BY TrialAssumption
<1> SUFFICES ASSUME NEW i \in Int
             PROVE  /\ i >= Count => W[i] = Stray
                    /\ i < 0 => W[i] = Stray
                    /\ 0 <= i /\ i < Count => W[i] = <<train, i>>
                    /\ Dropped[i] <=> i < 0 \/ i >= Count
                    /\ Dropped[i] \in BOOLEAN
                    /\ Pair[i] = <<W[i], W[i]>>
  OBVIOUS
<1>2. i \in 0 .. Count - 1 <=> 0 <= i /\ i < Count
  BY <1>1
<1>3. W[i] = IF i \in 0 .. Count - 1 THEN <<train, i>> ELSE Stray
  BY DEF W
<1>4. Dropped[i] = (i \notin 0 .. Count - 1)
  BY DEF Dropped
<1>5. Pair[i] = <<W[i], W[i]>>
  BY DEF Pair
<1>6. /\ i >= Count => W[i] = Stray
      /\ i < 0 => W[i] = Stray
      /\ 0 <= i /\ i < Count => W[i] = <<train, i>>
  BY <1>1, <1>2, <1>3
<1>7. Dropped[i] \in BOOLEAN
  BY <1>4
<1>8. Dropped[i] <=> i \notin 0 .. Count - 1
  BY <1>4, Zenon
<1>9. i \notin 0 .. Count - 1 <=> i < 0 \/ i >= Count
  BY <1>1
<1> QED BY <1>5, <1>6, <1>7, <1>8, <1>9

LEMMA LineStep ==
    ASSUME BoardType, GenRun, Count > 0, NEW k \in Int, NEW y \in Int, OnLine(k, y),
           NEW retire \in BOOLEAN, NEW move \in BOOLEAN, NEW to \in StrayMoves,
           Tick(retire, move, to), ~starts,
           NEW s \in Nat, s = IF rx_start(p, rx_line) THEN 1 ELSE 0,
           NEW e \in Nat, e = IF enters(to) THEN 1 ELSE 0
    PROVE  /\ OnLine(k + s, y + e)'
           /\ s = 1 => rx_line.frame = W[k]
           /\ e = 1 => Entering(to) = W[y]
<1>1. Count \in Nat /\ g.seq \in Nat /\ g.byte_idx \in Nat /\ W' = W
  BY TrialAssumption, SameW DEF BoardType, GenType
<1>2. /\ p'.rx_q = rx_line.ctl /\ p'.last_q = rx_line.last
      /\ inframe' = IF ~beat(to).valid THEN inframe
                    ELSE IF beat(to).last THEN None ELSE Entering(to)
  BY ProbeStep, PathStep
<1>3. CASE gen_busy(g)
  <2>1. /\ rx_line.ctl = gen_tvalid(g) /\ rx_line.last = gen_tlast(g)
        /\ rx_line.frame = GenFrame
        /\ beat(to).valid = gen_tvalid(g) /\ beat(to).last = gen_tlast(g)
        /\ beat(to).frame = GenFrame
    BY <1>3, Lines
  <2>2. g.seq < Count /\ GenFrame = W[g.seq]
    BY <1>1, <1>3, Places01 DEF GenRun, GenFrame
  <2>3. Entering(to) = W[g.seq]
    BY <1>3, <2>1, <2>2, NoneIsNoFrame DEF OnLine, Entering
  <2>4. y = g.seq /\ k = g.seq + One(g.byte_idx > 0)
    BY <1>3 DEF OnLine
  <2>5. /\ g.byte_idx > 0 => p.rx_q /\ ~p.last_q /\ g.state = "SEND"
        /\ ~(g.byte_idx > 0) /\ g.state = "SEND" /\ p.rx_q => p.last_q
    BY <1>3 DEF OnLine, GenRun, gen_busy, BoardType, GenType
  <2>6. s = IF g.state = "SEND" /\ ~(g.byte_idx > 0) THEN 1 ELSE 0
    BY <2>1, <2>5 DEF rx_start, gen_tvalid
  <2>7. e = IF gen_tlast(g) THEN 1 ELSE 0
    BY <2>1 DEF enters, gen_tlast
  <2>8. s = 1 => rx_line.frame = W[k]
    BY <1>1, <2>1, <2>2, <2>4, <2>6 DEF One
  <2>9. k + s = g.seq + One(g.byte_idx > 0) + s /\ y + e = g.seq + e
    BY <2>4
  <2>10. CASE gen_busy(g)'
    <3>1. /\ g'.seq = g.seq + One(gen_tlast(g))
          /\ g'.byte_idx = IF gen_tlast(g) THEN 0
                           ELSE IF gen_tvalid(g) THEN g.byte_idx + 1 ELSE g.byte_idx
      BY <2>10, GenRunTick
    <3>2. y + e = g'.seq
      BY <2>7, <2>9, <3>1 DEF One
    <3>3. CASE gen_tlast(g)
      <4>1. g'.byte_idx = 0 /\ g'.seq = g.seq + 1 /\ g.state = "SEND"
        BY <3>1, <3>3 DEF One, gen_tlast, gen_tvalid
      <4>2. k + s = g'.seq + One(g'.byte_idx > 0)
        BY <1>1, <2>6, <2>9, <4>1 DEF One
      <4>3. inframe' = None /\ p'.last_q
        BY <1>2, <2>1, <3>3 DEF gen_tlast
      <4> QED BY <2>3, <2>4, <2>8, <2>10, <3>2, <4>1, <4>2, <4>3 DEF OnLine
    <3>4. CASE ~gen_tlast(g) /\ gen_tvalid(g)
      <4>1. g'.byte_idx = g.byte_idx + 1 /\ g'.seq = g.seq /\ g.state = "SEND"
        BY <1>1, <3>1, <3>4 DEF One, gen_tvalid
      <4>2. k + s = g'.seq + One(g'.byte_idx > 0)
        BY <1>1, <2>6, <2>9, <4>1 DEF One
      <4>3. inframe' = W[g.seq] /\ p'.rx_q /\ ~p'.last_q /\ g'.byte_idx > 0
        BY <1>1, <1>2, <2>1, <2>3, <3>4, <4>1
      <4> QED BY <1>1, <2>3, <2>4, <2>8, <2>10, <3>2, <4>1, <4>2, <4>3 DEF OnLine
    <3>5. CASE ~gen_tvalid(g)
      <4>1. ~gen_tlast(g) /\ g.state = "GAP" /\ g.byte_idx = 0
        BY <1>3, <3>5 DEF gen_tlast, gen_tvalid, gen_busy, GenRun, BoardType, GenType
      <4>2. g'.byte_idx = 0 /\ g'.seq = g.seq
        BY <1>1, <3>1, <3>5, <4>1 DEF One
      <4>3. k + s = g'.seq + One(g'.byte_idx > 0)
        BY <1>1, <2>6, <2>9, <4>1, <4>2 DEF One
      <4>4. inframe' = None /\ ~p'.rx_q
        BY <1>2, <1>3, <2>1, <3>5, <4>1 DEF OnLine
      <4> QED BY <2>3, <2>4, <2>8, <2>10, <3>2, <4>2, <4>3, <4>4 DEF OnLine
    <3> QED BY <3>3, <3>4, <3>5
  <2>11. CASE ~gen_busy(g)'
    <3>1. gen_tlast(g) /\ g.seq + 1 = Count
      BY <1>3, <2>11, GenRunTick
    <3>2. k + s = Count /\ y + e = Count
      BY <1>1, <2>6, <2>7, <2>9, <3>1 DEF One, gen_tlast, gen_tvalid
    <3>3. inframe' = None
      BY <1>2, <2>1, <3>1 DEF gen_tlast
    <3>4. OnLine(k + s, y + e)'
      BY <1>1, <2>11, <3>2, <3>3 DEF OnLine
    <3> QED BY <2>3, <2>4, <2>8, <3>4
  <2> QED BY <2>10, <2>11
<1>4. CASE ~gen_busy(g)
  <2>1. y >= Count /\ k >= Count /\ inframe \in {None, Stray}
    BY <1>4 DEF OnLine
  <2>2. ~gen_busy(g)' /\ rx_line.frame = Stray /\ beat(to).frame = Stray
    BY <1>4, GenRunTick, Lines
  <2>3. Entering(to) = Stray
    BY <2>1, <2>2 DEF Entering
  <2>4. inframe' \in {None, Stray}
    BY <1>2, <2>1, <2>3
  <2>5. W[k] = Stray /\ W[y] = Stray
    BY <2>1, Places01
  <2>6. y + e >= Count /\ k + s >= Count
    BY <1>1, <2>1
  <2>7. OnLine(k + s, y + e)'
    BY <2>2, <2>4, <2>6 DEF OnLine
  <2> QED BY <2>2, <2>3, <2>5, <2>7
<1> QED BY <1>3, <1>4

\* A queue that is a window, when it is read and written.
Bit(b, n) == (b => n = 1) /\ (~b => n = 0)

\* d comes behind q in f.
Follows(d, q, f, n) == d = f[n + Len(q)]

\* It has lost m and got w.
Passed(q1, q, f, n, m, w) == /\ Len(q) \in Nat /\ Len(q1) \in Nat
                             /\ Len(q1) = Len(q) - m + w
                             /\ Window(q1, f, n + m)

LEMMA QueueMoves ==
    ASSUME NEW S, NEW q, NEW rd, NEW wr, NEW d, NEW q1, NEW m, NEW w, NEW f, NEW n,
           q \in Seq(S), rd \in BOOLEAN, wr \in BOOLEAN, wr => d \in S,
           q1 = Moved(q, rd, wr, d), rd => q # <<>>,
           m \in Nat, Bit(rd, m), w \in Nat, Bit(wr, w),
           n \in Int, Window(q, f, n), wr => Follows(d, q, f, n)
    PROVE  Passed(q1, q, f, n, m, w)
<1>1. Read(q, rd) = m
  BY DEF Read, Bit
<1>2. q1 \in Seq(S) /\ Grows(q1, q, Read(q, rd), wr, d)
  BY QueueStep
<1>3. Window(q1, f, n + m)
  <2>1. Window(q1, f, n + Read(q, rd))
    BY QueueWindow DEF Follows
  <2> QED BY <2>1, <1>1
<1>4. Len(q1) = Len(q) - m + w
  BY <1>1, <1>2 DEF Grows, Bit
<1>5. Len(q) \in Nat /\ Len(q1) \in Nat
  BY <1>2, LenProperties
<1> QED BY <1>2, <1>3, <1>4, <1>5 DEF Passed


\* The queues of the path, at one edge.
\* The queues are at their places again, s and e further at their ends, nr and ne at their
\* heads.
Onwards(st1, v1, fl1, st, fl, k, y, s, e, nr, ne) ==
    /\ Placed(st1, v1, fl1, k + s, y + e)
    /\ (k + s) - Len(st1) = (k - Len(st)) + nr
    /\ (y + e) - Len(fl1) = (y - Len(fl)) + ne

LEMMA PlacedStep ==
    ASSUME NEW k, NEW y, NEW st, NEW v, NEW fl, NEW st1, NEW v1, NEW fl1,
           NEW rd, NEW wr, NEW re, NEW en, NEW ju, NEW dr, NEW df, NEW de,
           NEW nr, NEW s, NEW ne, NEW e,
           Count > 0, train \in 0 .. 2, k \in Int, y \in Int,
           st \in Seq(Frames), v \in Seq(BOOLEAN), fl \in Seq(Frames),
           Placed(st, v, fl, k, y), Len(st) <= ProbeDepth,
           rd \in BOOLEAN, wr \in BOOLEAN, re \in BOOLEAN, en \in BOOLEAN,
           ju \in BOOLEAN, dr \in BOOLEAN, df \in Frames, de \in Frames,
           st1 = Moved(st, rd, wr, df), v1 = Moved(v, rd, ju, dr), fl1 = Moved(fl, re, en, de),
           rd => st # <<>> /\ v # <<>>, re => fl # <<>>,
           ju <=> re /\ Len(v) # ProbeDepth, re => (dr <=> Head(fl) = Stray),
           wr => df = W[k], en => de = W[y], y <= k \/ Count <= k,
           nr \in Nat, Bit(rd, nr), s \in Nat, Bit(wr, s),
           ne \in Nat, Bit(re, ne), e \in Nat, Bit(en, e)
    PROVE  Onwards(st1, v1, fl1, st, fl, k, y, s, e, nr, ne)
<1>1. PICK nj \in Nat : Bit(ju, nj)
  <2>1. CASE ju
    BY <2>1 DEF Bit
  <2>2. CASE ~ju
    BY <2>2 DEF Bit
  <2> QED BY <2>1, <2>2
<1>2. ProbeDepth \in Nat /\ Count \in Nat
  BY ProbeAssumption, TrialAssumption
<1>3. Len(st) \in Nat /\ Len(v) \in Nat /\ Len(fl) \in Nat /\ (fl # <<>> => Len(fl) >= 1)
  BY LenProperties, EmptySeq
<1>4. PICK z \in Int, xf \in Int, x \in Int :
         z = k - Len(st) /\ xf = y - Len(fl) /\ x = z + Len(v)
  <2>1. k - Len(st) \in Int /\ y - Len(fl) \in Int /\ (k - Len(st)) + Len(v) \in Int
    BY <1>3
  <2> QED BY <2>1
<1>5. /\ Window(st, W, z) /\ Window(v, Dropped, z) /\ Window(fl, W, xf)
      /\ x = xf \/ (x >= Count /\ xf >= Count)
  BY <1>4 DEF Placed
<1>6. (wr => Follows(df, st, W, z)) /\ (en => Follows(de, fl, W, xf))
  <2>1. k = z + Len(st) /\ y = xf + Len(fl)
    BY <1>3, <1>4
  <2> QED BY <2>1 DEF Follows
<1>7. Passed(st1, st, W, z, nr, s)
  BY <1>4, <1>5, <1>6, QueueMoves
<1>8. Passed(fl1, fl, W, xf, ne, e)
  BY <1>4, <1>5, <1>6, QueueMoves
<1>9. ju => dr = Dropped[x]
  <2>1. SUFFICES ASSUME ju PROVE dr = Dropped[x]
    OBVIOUS
  <2>2. Head(fl) = W[xf]
    BY <2>1, <1>4, <1>5, WindowHead
  <2>3. W[xf] = Stray <=> xf < 0 \/ xf >= Count
    <3>1. CASE xf < 0 \/ xf >= Count
      BY <3>1, <1>4, Places01
    <3>2. CASE ~(xf < 0 \/ xf >= Count)
      <4>1. 0 <= xf /\ xf < Count /\ xf \in Nat
        BY <3>2, <1>2, <1>4
      <4>2. W[xf] = <<train, xf>> /\ <<train, xf>> \in (0 .. 2) \X Nat
        BY <4>1, Places01
      <4> QED BY <3>2, <4>2, TrialAssumption
    <3> QED BY <3>1, <3>2
  <2>4. (xf < 0 \/ xf >= Count) <=> (x < 0 \/ x >= Count)
    BY <1>2, <1>4, <1>5
  <2>5. (Dropped[x] <=> x < 0 \/ x >= Count) /\ Dropped[x] \in BOOLEAN
    BY <1>4, Places01
  <2>6. dr <=> Dropped[x]
    BY <2>1, <2>2, <2>3, <2>4, <2>5, Zenon
  <2> QED BY <2>6, <2>5, Zenon
<1>10. Passed(v1, v, Dropped, z, nr, nj)
  <2>1. ju => Follows(dr, v, Dropped, z)
    BY <1>4, <1>9 DEF Follows
  <2> QED BY <2>1, <1>1, <1>4, <1>5, QueueMoves
<1>11. xf < Count /\ fl # <<>> => Len(v) # ProbeDepth
  <2>1. SUFFICES ASSUME xf < Count, fl # <<>> PROVE Len(v) < ProbeDepth
    BY <1>2, <1>3
  <2>2. x = xf /\ xf < y
    BY <2>1, <1>2, <1>3, <1>4, <1>5
  <2>3. xf < k
    BY <2>1, <2>2, <1>2, <1>4
  <2> QED BY <2>2, <2>3, <1>2, <1>3, <1>4
<1>12. nj <= ne /\ (xf < Count => nj = ne)
  BY <1>1, <1>11 DEF Bit
<1>13. (k + s) - Len(st1) = z + nr /\ (y + e) - Len(fl1) = xf + ne
  BY <1>3, <1>4, <1>7, <1>8 DEF Passed
<1>14. (z + nr) + Len(v1) = x + nj
  BY <1>1, <1>3, <1>4, <1>10 DEF Passed
<1>15. x + nj = xf + ne \/ (x + nj >= Count /\ xf + ne >= Count)
  <2>1. x \in Int /\ xf \in Int /\ nj \in Nat /\ Count \in Nat
        /\ (x = xf \/ (x >= Count /\ xf >= Count)) /\ nj <= ne /\ (xf < Count => nj = ne)
    BY <1>1, <1>2, <1>4, <1>5, <1>12
  <2> QED BY <2>1
<1>16. Placed(st1, v1, fl1, k + s, y + e)
  BY <1>7, <1>8, <1>10, <1>13, <1>14, <1>15 DEF Placed, Passed
<1> QED BY <1>4, <1>13, <1>16 DEF Onwards

PathOn(k, y, s, e, retire) ==
    /\ InPath(k + s, y + e)'
    /\ (k + s) - Len(p'.stamps) = (k - Len(p.stamps)) + One(reads)
    /\ (y + e) - Len(flight') = (y - Len(flight)) + One(retires(retire))

LEMMA QueuesStep ==
    ASSUME NEW k, NEW y, NEW retire, NEW move, NEW to, NEW s, NEW e,
           BoardType, Count > 0, k \in Int, y \in Int, OnLine(k, y), InPath(k, y),
           retire \in BOOLEAN, move \in BOOLEAN, to \in StrayMoves,
           Tick(retire, move, to), ~starts, ~clears, ~Overflow,
           s \in Nat, s = IF rx_start(p, rx_line) THEN 1 ELSE 0,
           e \in Nat, e = IF enters(to) THEN 1 ELSE 0,
           s = 1 => rx_line.frame = W[k], e = 1 => Entering(to) = W[y]
    PROVE  PathOn(k, y, s, e, retire)
<1>1. PICK rd \in BOOLEAN, wr \in BOOLEAN, re \in BOOLEAN, en \in BOOLEAN, ju \in BOOLEAN,
           dr \in BOOLEAN :
         /\ rd = reads /\ wr = stamped /\ re = retires(retire) /\ en = enters(to)
         /\ ju = judged(retire) /\ dr = drops
  BY Booleans
<1>2. PICK nr \in Nat, ne \in Nat :
         Bit(rd, nr) /\ Bit(re, ne) /\ nr = One(reads) /\ ne = One(retires(retire))
  <2>1. One(rd) \in Nat /\ One(re) \in Nat /\ Bit(rd, One(rd)) /\ Bit(re, One(re))
    BY DEF One, Bit
  <2> QED BY <2>1, <1>1
<1>3. /\ p.stamps \in Seq(Frames) /\ p.v \in Seq(BOOLEAN) /\ flight \in Seq(Frames)
      /\ Len(p.stamps) <= ProbeDepth /\ train \in 0 .. 2
  BY DEF BoardType, ProbeType, PathType
<1>4. PICK st \in Seq(Frames), v \in Seq(BOOLEAN) : st = p.stamps /\ v = p.v
  BY <1>3
<1>5. rx_line.frame \in Frames /\ Entering(to) \in Frames
  BY Lines
<1>6. (rd => st # <<>> /\ v # <<>>) /\ (re => flight # <<>>)
  BY <1>1, <1>4 DEF reads, pop, drop_pop, retires
<1>7. Bit(wr, s) /\ Bit(en, e) /\ (wr => s = 1) /\ (en => e = 1)
  <2>1. stamped <=> rx_start(p, rx_line)
    BY DEF stamped, Overflow
  <2>2. wr <=> rx_start(p, rx_line)
    BY <1>1, <2>1, Zenon
  <2>3. en <=> enters(to)
    BY <1>1, Zenon
  <2> QED BY <2>2, <2>3 DEF Bit
<1>8. PICK st1, v1 : st1 = p'.stamps /\ v1 = p'.v
  OBVIOUS
<1>9. st1 = Moved(st, rd, wr, rx_line.frame) /\ v1 = Moved(v, rd, ju, dr)
  BY <1>1, <1>4, <1>8, ProbeStep, VerdictStep
<1>10. flight' = Moved(flight, re, en, Entering(to))
  BY <1>1, PathStep DEF Moved, Rest, retires
<1>11. (ju <=> re /\ Len(v) # ProbeDepth) /\ (re => (dr <=> Head(flight) = Stray))
  BY <1>1, <1>4 DEF judged, drops
<1>12. y <= k \/ Count <= k
  <2>1. CASE gen_busy(g)
    <3>1. y = g.seq /\ k = g.seq + One(g.byte_idx > 0) /\ g.seq \in Nat
      BY <2>1 DEF OnLine, BoardType, GenType
    <3> QED BY <3>1 DEF One
  <2>2. CASE ~gen_busy(g)
    BY <2>2 DEF OnLine
  <2> QED BY <2>1, <2>2
<1>13. (wr => rx_line.frame = W[k]) /\ (en => Entering(to) = W[y])
  BY <1>7
<1>14. Placed(st, v, flight, k, y) /\ Len(st) <= ProbeDepth
  BY <1>3, <1>4 DEF InPath
<1>15. /\ Placed(st1, v1, flight', k + s, y + e)
       /\ (k + s) - Len(st1) = (k - Len(st)) + nr
       /\ (y + e) - Len(flight') = (y - Len(flight)) + ne
  <2>1. PICK fl1, df, de : fl1 = flight' /\ df = rx_line.frame /\ de = Entering(to)
    OBVIOUS
  <2>4. df \in Frames /\ de \in Frames
    BY <1>5, <2>1
  <2>2. st1 = Moved(st, rd, wr, df) /\ fl1 = Moved(flight, re, en, de)
    BY <1>9, <1>10, <2>1
  <2>3. Onwards(st1, v1, fl1, st, flight, k, y, s, e, nr, ne)
    BY <1>1, <1>2, <1>3, <1>4, <1>6, <1>7, <1>9, <1>11, <1>12, <1>13, <1>14, <2>1, <2>2, <2>4,
       PlacedStep
  <2> QED BY <2>1, <2>3 DEF Onwards
<1>16. W' = W /\ Dropped' = Dropped
  BY SameW
<1>17. InPath(k + s, y + e)'
  BY <1>8, <1>15, <1>16 DEF InPath, Placed, Window
<1> QED BY <1>2, <1>4, <1>8, <1>15, <1>17 DEF PathOn
-----------------------------------------------------------------------------
(* What goes out.                                                          *)

LEMMA WireStep ==
    ASSUME BoardType, NEW retire \in BOOLEAN, NEW move \in BOOLEAN, NEW to,
           Tick(retire, move, to)
    PROVE  /\ tx # None => /\ wire # None /\ wire' = wire
                           /\ ~tx_done(p, tx) /\ ~sends(move)
           /\ tx = None => /\ wire = p.tx_q /\ (tx_done(p, tx) <=> wire # None)
                           /\ sends(move) => wire' = Head(queued) /\ wire' # None
                           /\ ~sends(move) => wire' = None
<1>1. p'.tx_q = tx /\ tx' = IF sends(move) THEN Head(queued) ELSE IF move THEN None ELSE tx
  BY ProbeStep, PathStep
<1>2. sends(move) => tx = None /\ Head(queued) \in Frames
  BY HeadTailProperties DEF sends, BoardType, PathType
<1>3. CASE tx # None
  BY <1>1, <1>2, <1>3 DEF wire, tx_done
<1>4. CASE tx = None
  BY <1>1, <1>2, <1>4, NoneIsNoFrame DEF wire, tx_done
<1> QED BY <1>3, <1>4

LEMMA QueuedStep ==
    ASSUME BoardType, NEW retire \in BOOLEAN, NEW move \in BOOLEAN, NEW to,
           Tick(retire, move, to), NEW m, NEW w, m \in Nat, w \in Nat,
           Bit(sends(move), m), Bit(kept(retire), w)
    PROVE  Len(queued) \in Nat /\ Len(queued') \in Nat /\ Len(queued') = Len(queued) - m + w
<1>1. PICK rd \in BOOLEAN, wr \in BOOLEAN : rd = sends(move) /\ wr = kept(retire)
  BY Booleans
<1>2. queued' = Moved(queued, rd, wr, Head(flight))
  BY <1>1, PathStep
<1>3. queued \in Seq(Frames) /\ flight \in Seq(Frames)
      /\ (rd => queued # <<>>) /\ (wr => flight # <<>>)
  BY <1>1 DEF BoardType, PathType, sends, kept, passes, retires
<1>4. wr => Head(flight) \in Frames
  BY <1>3, HeadTailProperties
<1>5. queued' \in Seq(Frames) /\ Grows(queued', queued, Read(queued, rd), wr, Head(flight))
  BY <1>1, <1>2, <1>3, <1>4, QueueStep
<1>6. Read(queued, rd) = m
  BY <1>1, <1>3 DEF Read, Bit
<1>7. Len(queued) \in Nat /\ Len(queued') \in Nat
  BY <1>3, <1>5, LenProperties
<1> QED BY <1>1, <1>5, <1>6, <1>7 DEF Grows, Bit

LEMMA OutCount ==
    ASSUME BoardType, NEW retire \in BOOLEAN, NEW move \in BOOLEAN, NEW to,
           Tick(retire, move, to), NEW m, NEW w, m \in Nat, w \in Nat,
           Bit(tx_done(p, tx), m), Bit(kept(retire), w)
    PROVE  Outstanding \in Nat /\ Outstanding' \in Nat /\ Outstanding' = Outstanding - m + w
<1>1. PICK n \in Nat : Bit(sends(move), n)
  <2>1. CASE sends(move)
    BY <2>1 DEF Bit
  <2>2. CASE ~sends(move)
    BY <2>2 DEF Bit
  <2> QED BY <2>1, <2>2
<1>2. Len(queued) \in Nat /\ Len(queued') \in Nat /\ Len(queued') = Len(queued) - n + w
  BY <1>1, QueuedStep
<1>3. PICK l \in Nat, l1 \in Nat : l = Len(queued) /\ l1 = Len(queued') /\ l1 = l - n + w
  BY <1>2
<1>4. CASE tx # None
  <2>1. m = 0 /\ n = 0 /\ Outstanding = 1 + l /\ Outstanding' = 1 + l1
    BY <1>1, <1>3, <1>4, WireStep DEF Bit, Outstanding, One
  <2> QED BY <2>1, <1>3
<1>5. CASE tx = None
  <2>1. Outstanding = m + l
    BY <1>3, <1>5, WireStep DEF Bit, Outstanding, One
  <2>2. Outstanding' = n + l1
    BY <1>1, <1>3, <1>5, WireStep DEF Bit, Outstanding, One
  <2> QED BY <2>1, <2>2, <1>1, <1>3
<1> QED BY <1>4, <1>5

LEMMA OutStep ==
    ASSUME BoardType, NEW retire \in BOOLEAN, NEW move \in BOOLEAN, NEW to,
           Tick(retire, move, to), ~starts, NEW a \in Int, Leaving(a),
           kept(retire) => Head(flight) = W[a + Outstanding],
           NEW m \in Nat, Bit(tx_done(p, tx), m)
    PROVE  Leaving(a + m)'
<1>1. PICK rd \in BOOLEAN, wr \in BOOLEAN : rd = sends(move) /\ wr = kept(retire)
  BY Booleans
<1>2. PICK n \in Nat, w \in Nat : Bit(rd, n) /\ Bit(wr, w)
  <2>1. \A b \in BOOLEAN : \E i \in Nat : Bit(b, i)
    <3>1. SUFFICES ASSUME NEW b \in BOOLEAN PROVE \E i \in Nat : Bit(b, i)
      OBVIOUS
    <3>2. CASE b
      BY <3>2 DEF Bit
    <3>3. CASE ~b
      BY <3>3 DEF Bit
    <3> QED BY <3>2, <3>3
  <2> QED BY <2>1
<1>3. queued' = Moved(queued, rd, wr, Head(flight))
  BY <1>1, PathStep
<1>4. queued \in Seq(Frames) /\ flight \in Seq(Frames)
      /\ (rd => queued # <<>>) /\ (wr => flight # <<>>)
  BY <1>1 DEF BoardType, PathType, sends, kept, passes, retires
<1>5. wr => Head(flight) \in Frames
  BY <1>4, HeadTailProperties
<1>6. PICK b \in Nat : b = One(wire # None)
  BY DEF One
<1>7. Window(queued, W, a + b) /\ (wire # None => wire = W[a])
  BY <1>6 DEF Leaving
<1>8. wr => Follows(Head(flight), queued, W, a + b)
  <2>1. Outstanding = b + Len(queued) /\ Len(queued) \in Nat
    BY <1>4, <1>6, LenProperties DEF Outstanding
  <2>2. a + Outstanding = (a + b) + Len(queued)
    BY <2>1, <1>6
  <2> QED BY <2>2, <1>1 DEF Follows
<1>9. Passed(queued', queued, W, a + b, n, w)
  <2>1. a + b \in Int
    BY <1>6
  <2> QED BY <2>1, <1>1, <1>2, <1>3, <1>4, <1>5, <1>7, <1>8, QueueMoves
<1>10. Window(queued', W, (a + b) + n)
  BY <1>9 DEF Passed
<1>11. W' = W
  BY SameW
<1>12. CASE tx # None
  <2>1. m = 0 /\ n = 0 /\ b = 1 /\ wire' = wire /\ wire # None
    BY <1>1, <1>2, <1>6, <1>12, WireStep DEF Bit, One
  <2>2. a + m = a /\ (a + b) + n = a + 1
    BY <2>1
  <2>3. Window(queued', W, a + 1) /\ wire' = W[a]
    BY <2>1, <2>2, <1>7, <1>10
  <2> QED BY <2>1, <2>2, <2>3, <1>11 DEF Leaving, Window, One
<1>13. CASE tx = None
  <2>1. m = b
    BY <1>6, <1>13, WireStep DEF Bit, One
  <2>2. CASE rd
    <3>1. n = 1 /\ wire' = Head(queued) /\ wire' # None
      BY <2>2, <1>1, <1>2, <1>13, WireStep DEF Bit
    <3>2. Head(queued) = W[a + b]
      <4>1. a + b \in Int
        BY <1>6
      <4> QED BY <4>1, <2>2, <1>4, <1>7, WindowHead
    <3>3. Window(queued', W, (a + m) + 1) /\ wire' = W[a + m]
      BY <2>1, <3>1, <3>2, <1>10
    <3> QED BY <3>1, <3>3, <1>11 DEF Leaving, Window, One
  <2>3. CASE ~rd
    <3>1. n = 0 /\ wire' = None
      BY <2>3, <1>1, <1>2, <1>13, WireStep DEF Bit
    <3>2. (a + b) + n = (a + m) + 0
      BY <2>1, <3>1, <1>6
    <3>3. Window(queued', W, (a + m) + 0)
      BY <3>2, <1>10
    <3> QED BY <3>1, <3>3, <1>11 DEF Leaving, Window, One
  <2> QED BY <2>2, <2>3
<1> QED BY <1>12, <1>13

LEMMA ClampStep ==
    ASSUME NEW i \in Int
    PROVE  /\ Clamp(i) \in Nat /\ Clamp(i) <= Count /\ (Clamp(i) > 0 => Clamp(i) <= i)
           /\ 0 <= i /\ i < Count => Clamp(i) = i /\ Clamp(i + 1) = i + 1
           /\ i < 0 \/ i >= Count => Clamp(i + 1) = Clamp(i)
           /\ i >= Count => Clamp(i) = Count
  BY TrialAssumption DEF Clamp

LEMMA GotStep ==
    ASSUME BoardType, NEW retire \in BOOLEAN, NEW move \in BOOLEAN, NEW to,
           Tick(retire, move, to), ~clears, NEW m, m \in Nat, Bit(pop(p, tx), m)
    PROVE  Got \in Nat /\ Len(p'.acc) = Got /\ Got' = Got + m
<1>1. PICK acc \in Seq(Pairs), r \in Pairs : acc = p.acc /\ r = <<p.fifo_out, p.tx_stamp>>
  BY DEF BoardType, ProbeType, Pairs
<1>2. p'.pop_q = pop(p, tx) /\ p'.acc = IF p.pop_q THEN Append(acc, r) ELSE acc
  BY <1>1, ProbeStep
<1>3. Len(acc) \in Nat /\ Len(Append(acc, r)) = Len(acc) + 1
  BY <1>1, AppendProperties
<1>4. Got = Len(acc) + One(p.pop_q) /\ Got' = Len(p'.acc) + One(p'.pop_q)
  BY <1>1 DEF Got
<1>5. Len(p'.acc) = Got
  BY <1>2, <1>3, <1>4 DEF One
<1>6. One(p'.pop_q) = m
  BY <1>2 DEF One, Bit
<1>7. Got \in Nat
  BY <1>3, <1>4 DEF One
<1> QED BY <1>4, <1>5, <1>6, <1>7

\* A stamp that is read is of a frame, when its end is seen, and of a stray, when it is
\* dropped.
LEMMA FrontPlace ==
    ASSUME BoardType, Count > 0, NEW z \in Int, Window(p.stamps, W, z), Window(p.v, Dropped, z),
           NEW m, m \in Nat, Bit(pop(p, tx), m), NEW n, n \in Nat, Bit(reads, n)
    PROVE  /\ Clamp(z + n) = Clamp(z) + m
           /\ pop(p, tx) => Clamp(z) = z /\ Head(p.stamps) = W[z]
<1>1. p.stamps \in Seq(Frames) /\ p.v \in Seq(BOOLEAN)
  BY DEF BoardType, ProbeType
<1>2. PICK st \in Seq(Frames), v \in Seq(BOOLEAN) : st = p.stamps /\ v = p.v
  BY <1>1
<1>3. /\ pop(p, tx) => v # <<>> /\ ~Head(v) /\ st # <<>>
      /\ drop_pop(p) => v # <<>> /\ Head(v)
  BY <1>2 DEF pop, drop_pop
<1>4. v # <<>> => Head(v) = Dropped[z]
  BY <1>2, WindowHead
<1>5. st # <<>> => Head(st) = W[z]
  BY <1>2, WindowHead
<1>6. Dropped[z] <=> z < 0 \/ z >= Count
  BY Places01
<1>7. Count \in Nat
  BY TrialAssumption
<1>8. CASE pop(p, tx)
  <2>1. m = 1 /\ n = 1 /\ ~Dropped[z] /\ Head(st) = W[z]
    BY <1>3, <1>4, <1>5, <1>8 DEF Bit, reads
  <2>2. 0 <= z /\ z < Count
    BY <2>1, <1>6, <1>7
  <2>3. Clamp(z) = z /\ Clamp(z + 1) = z + 1
    BY <2>2, ClampStep
  <2> QED BY <2>1, <2>3, <1>2
<1>9. CASE ~pop(p, tx) /\ drop_pop(p)
  <2>1. m = 0 /\ n = 1 /\ Dropped[z]
    BY <1>3, <1>4, <1>9 DEF Bit, reads
  <2>2. Clamp(z + 1) = Clamp(z) /\ Clamp(z) \in Nat
    BY <2>1, <1>6, ClampStep
  <2> QED BY <2>1, <2>2, <1>9
<1>10. CASE ~pop(p, tx) /\ ~drop_pop(p)
  <2>1. m = 0 /\ n = 0
    BY <1>10 DEF Bit, reads
  <2>2. Clamp(z) \in Nat
    BY ClampStep
  <2> QED BY <2>1, <2>2, <1>10
<1> QED BY <1>8, <1>9, <1>10

\* A frame that is retired passes, if it is one of the train.
LEMMA RetiredPlace ==
    ASSUME NEW xf, NEW retire, NEW m, NEW n,
           BoardType, Count > 0, xf \in Int, Window(flight, W, xf), retire \in BOOLEAN,
           m \in Nat, Bit(passes(retire), m), n \in Nat, Bit(retires(retire), n)
    PROVE  /\ Clamp(xf + n) = Clamp(xf) + m
           /\ passes(retire) => Clamp(xf) = xf /\ Head(flight) = W[xf]
<1>1. flight \in Seq(Frames) /\ Count \in Nat /\ train \in 0 .. 2
  BY TrialAssumption DEF BoardType, PathType
<1>2. flight # <<>> => Head(flight) = W[xf]
  BY <1>1, WindowHead
<1>3. xf < 0 \/ xf >= Count => W[xf] = Stray
  BY Places01
<1>4. 0 <= xf /\ xf < Count => W[xf] # Stray
  <2>1. SUFFICES ASSUME 0 <= xf, xf < Count PROVE W[xf] # Stray
    OBVIOUS
  <2>2. W[xf] = <<train, xf>> /\ <<train, xf>> \in (0 .. 2) \X Nat
    BY <2>1, <1>1, Places01
  <2> QED BY <2>2, TrialAssumption
<1>5. CASE passes(retire)
  <2>1. m = 1 /\ n = 1 /\ Head(flight) = W[xf] /\ W[xf] # Stray
    BY <1>2, <1>5 DEF Bit, passes, retires, drops
  <2>2. 0 <= xf /\ xf < Count
    BY <2>1, <1>1, <1>3
  <2>3. Clamp(xf) = xf /\ Clamp(xf + 1) = xf + 1
    BY <2>2, ClampStep
  <2> QED BY <2>1, <2>3
<1>6. CASE ~passes(retire) /\ retires(retire)
  <2>1. m = 0 /\ n = 1 /\ W[xf] = Stray
    BY <1>2, <1>6 DEF Bit, passes, retires, drops
  <2>2. xf < 0 \/ xf >= Count
    BY <2>1, <1>1, <1>4
  <2>3. Clamp(xf + 1) = Clamp(xf) /\ Clamp(xf) \in Nat
    BY <2>2, ClampStep
  <2> QED BY <2>1, <2>3, <1>6
<1>7. CASE ~passes(retire) /\ ~retires(retire)
  <2>1. m = 0 /\ n = 0
    BY <1>7 DEF Bit
  <2>2. Clamp(xf) \in Nat
    BY ClampStep
  <2> QED BY <2>1, <2>2, <1>7
<1> QED BY <1>5, <1>6, <1>7 DEF passes

LEMMA BitExists == ASSUME NEW b, b \in BOOLEAN PROVE \E i \in Nat : Bit(b, i)
<1>1. CASE b
  BY <1>1 DEF Bit
<1>2. CASE ~b
  BY <1>2 DEF Bit
<1> QED BY <1>1, <1>2

\* The pairs that are complete.
LEMMA AccWindow ==
    ASSUME BoardType, Count > 0, NEW retire \in BOOLEAN, NEW move \in BOOLEAN, NEW to,
           Tick(retire, move, to), ~starts, ~clears,
           Window(p.acc, Pair, 0),
           p.pop_q => p.fifo_out = W[Len(p.acc)] /\ p.tx_stamp = W[Len(p.acc)],
           pop(p, tx) => Head(p.stamps) = W[Got] /\ wire = W[Got]
    PROVE  /\ Window(p.acc, Pair, 0)'
           /\ p'.pop_q => p'.fifo_out = W'[Len(p'.acc)] /\ p'.tx_stamp = W'[Len(p'.acc)]
<1>1. W' = W /\ Pair' = Pair
  BY SameW
<1>2. Len(p'.acc) = Got
  <2>1. PICK m \in Nat : Bit(pop(p, tx), m)
    BY BitExists DEF pop
  <2> QED BY <2>1, GotStep
<1>3. ASSUME p'.pop_q
      PROVE  p'.fifo_out = W'[Len(p'.acc)] /\ p'.tx_stamp = W'[Len(p'.acc)]
  <2>1. pop(p, tx)
    BY <1>3, ProbeStep
  <2>2. reads /\ tx_done(p, tx) /\ p.stamps # <<>>
    BY <2>1 DEF reads, pop
  <2>3. p'.fifo_out = Head(p.stamps) /\ p'.tx_stamp = p.tx_q
    BY <2>2, ProbeStep DEF ReadPort
  <2>4. p.tx_q = wire
    BY <2>2 DEF wire, tx_done
  <2> QED BY <2>1, <2>3, <2>4, <1>1, <1>2
<1>4. Window(p'.acc, Pair, 0)
  <2>1. PICK acc \in Seq(Pairs), r \in Pairs : acc = p.acc /\ r = <<p.fifo_out, p.tx_stamp>>
    BY DEF BoardType, ProbeType, Pairs
  <2>2. p'.acc = IF p.pop_q THEN Append(acc, r) ELSE acc
    BY <2>1, ProbeStep
  <2>3. CASE p.pop_q
    <3>1. PICK l \in Nat : l = Len(acc)
      BY <2>1
    <3>2. r = Pair[l]
      <4>1. Pair[l] = <<W[l], W[l]>>
        BY <3>1, Places01
      <4> QED BY <4>1, <2>1, <2>3, <3>1
    <3>3. /\ Len(Append(acc, r)) = l + 1 /\ DOMAIN Append(acc, r) = 1 .. l + 1
          /\ Append(acc, r)[l + 1] = r
          /\ \A j \in 1 .. l : Append(acc, r)[j] = acc[j]
      BY <2>1, <3>1, AppendProperties
    <3>4. SUFFICES ASSUME NEW j \in 1 .. l + 1 PROVE Append(acc, r)[j] = Pair[0 + j - 1]
      BY <2>2, <2>3, <3>3 DEF Window
    <3>5. CASE j = l + 1
      <4>1. 0 + j - 1 = l
        BY <3>1, <3>5
      <4> QED BY <4>1, <3>2, <3>3, <3>5
    <3>6. CASE j # l + 1
      <4>1. j \in 1 .. l /\ DOMAIN acc = 1 .. l
        BY <2>1, <3>1, <3>6
      <4>2. acc[j] = Pair[0 + j - 1]
        BY <4>1, <2>1 DEF Window
      <4> QED BY <4>1, <4>2, <3>3
    <3> QED BY <3>5, <3>6
  <2>4. CASE ~p.pop_q
    BY <2>1, <2>2, <2>4
  <2> QED BY <2>3, <2>4
<1> QED BY <1>1, <1>3, <1>4 DEF Window

\* As long as each end that is seen makes a pair and each frame that passes is kept, no frame
\* is lost; else there are fewer to be sampled than passed.
LEMMA SampledStep ==
    ASSUME BoardType, Count > 0, NEW z \in Int, NEW xf \in Int, Sampled(z, xf),
           Window(p.stamps, W, z), Window(p.v, Dropped, z), Window(flight, W, xf),
           NEW retire \in BOOLEAN, NEW move \in BOOLEAN, NEW to,
           Tick(retire, move, to), ~starts, ~clears,
           NEW z1 \in Int, NEW xf1 \in Int, z1 = z + One(reads), xf1 = xf + One(retires(retire))
    PROVE  \/ Sampled(z1, xf1)'
           \/ Got' + Outstanding' < xf1 /\ Got' + Outstanding' < Count
<1>1. /\ Window(p.stamps, W, z) /\ Window(p.v, Dropped, z) /\ Window(flight, W, xf)
  OBVIOUS
<1>2. /\ Clamp(z) = Got /\ Clamp(xf) = Got + Outstanding /\ Window(p.acc, Pair, 0)
      /\ p.pop_q => p.fifo_out = W[Len(p.acc)] /\ p.tx_stamp = W[Len(p.acc)]
      /\ Leaving(Got)
  BY DEF Sampled
<1>3. PICK a \in Nat, o \in Nat, a1 \in Nat, o1 \in Nat :
         a = Got /\ o = Outstanding /\ a1 = Got' /\ o1 = Outstanding'
  <2>1. PICK m \in Nat, d \in Nat, w \in Nat :
           Bit(pop(p, tx), m) /\ Bit(tx_done(p, tx), d) /\ Bit(kept(retire), w)
    BY BitExists DEF pop, tx_done, kept, passes, retires
  <2>2. Got \in Nat /\ Got' = Got + m
    BY <2>1, GotStep
  <2>3. Outstanding \in Nat /\ Outstanding' \in Nat
    BY <2>1, OutCount
  <2>4. Got' \in Nat
    BY <2>1, <2>2
  <2> QED BY <2>2, <2>3, <2>4
<1>4. PICK m \in Nat, d \in Nat, w \in Nat, ps \in Nat, n \in Nat, r \in Nat :
         /\ Bit(pop(p, tx), m) /\ Bit(tx_done(p, tx), d) /\ Bit(kept(retire), w)
         /\ Bit(passes(retire), ps) /\ Bit(reads, n) /\ Bit(retires(retire), r)
  <2>1. /\ pop(p, tx) \in BOOLEAN /\ tx_done(p, tx) \in BOOLEAN /\ kept(retire) \in BOOLEAN
        /\ passes(retire) \in BOOLEAN /\ reads \in BOOLEAN /\ retires(retire) \in BOOLEAN
    BY DEF pop, tx_done, kept, passes, retires, reads
  <2>2. PICK m \in Nat, d \in Nat, w \in Nat :
           Bit(pop(p, tx), m) /\ Bit(tx_done(p, tx), d) /\ Bit(kept(retire), w)
    BY <2>1, BitExists
  <2>3. PICK ps \in Nat, n \in Nat, r \in Nat :
           Bit(passes(retire), ps) /\ Bit(reads, n) /\ Bit(retires(retire), r)
    BY <2>1, BitExists
  <2> QED BY <2>2, <2>3
<1>5. z1 = z + n /\ xf1 = xf + r
  <2>1. One(reads) = n /\ One(retires(retire)) = r
    BY <1>4 DEF Bit, One
  <2> QED BY <2>1
<1>6. a1 = a + m /\ o1 = o - d + w
  BY <1>3, <1>4, GotStep, OutCount
<1>7. /\ Clamp(z1) = a + m
      /\ pop(p, tx) => Clamp(z) = z /\ Head(p.stamps) = W[z]
  <2>1. /\ Clamp(z + n) = Clamp(z) + m
        /\ pop(p, tx) => Clamp(z) = z /\ Head(p.stamps) = W[z]
    BY <1>1, <1>4, FrontPlace
  <2> QED BY <2>1, <1>2, <1>3, <1>5
<1>8. /\ Clamp(xf1) = (a + o) + ps
      /\ passes(retire) => Clamp(xf) = xf /\ Head(flight) = W[xf]
  <2>1. /\ Clamp(xf + r) = Clamp(xf) + ps
        /\ passes(retire) => Clamp(xf) = xf /\ Head(flight) = W[xf]
    BY <1>1, <1>4, RetiredPlace
  <2> QED BY <2>1, <1>2, <1>3, <1>5
<1>9. m <= d /\ w <= ps
  <2>1. (pop(p, tx) => tx_done(p, tx)) /\ (kept(retire) => passes(retire))
    BY DEF pop, kept
  <2> QED BY <2>1, <1>4 DEF Bit
<1>10. CASE m = d /\ w = ps
  <2>1. Clamp(z1)' = Got' /\ Clamp(xf1)' = Got' + Outstanding'
    <3>1. Clamp(z1) = a1 /\ Clamp(xf1) = a1 + o1
      BY <1>3, <1>4, <1>6, <1>7, <1>8, <1>10
    <3> QED BY <3>1, <1>3 DEF Clamp
  <2>2. Leaving(Got)'
    <3>1. kept(retire) => Head(flight) = W[a + Outstanding]
      BY <1>2, <1>3, <1>8 DEF kept
    <3>2. Bit(tx_done(p, tx), m) /\ Leaving(a)
      BY <1>2, <1>3, <1>4, <1>10
    <3>3. Leaving(a + m)'
      BY <3>1, <3>2, <1>3, <1>4, OutStep
    <3>4. PICK c \in Nat : c = a + m /\ c = Got'
      BY <1>3, <1>4, <1>6
    <3>5. Leaving(c)'
      BY <3>3, <3>4
    <3> QED BY <3>4, <3>5 DEF Leaving
  <2>3. /\ Window(p.acc, Pair, 0)'
        /\ p'.pop_q => p'.fifo_out = W'[Len(p'.acc)] /\ p'.tx_stamp = W'[Len(p'.acc)]
    <3>1. pop(p, tx) => Head(p.stamps) = W[Got] /\ wire = W[Got]
      <4>1. SUFFICES ASSUME pop(p, tx) PROVE Head(p.stamps) = W[Got] /\ wire = W[Got]
        OBVIOUS
      <4>2. Head(p.stamps) = W[Got]
        BY <4>1, <1>2, <1>7
      <4>3. wire # None
        BY <4>1 DEF pop, tx_done, wire
      <4> QED BY <4>2, <4>3, <1>2 DEF Leaving
    <3> QED BY <3>1, <1>2, AccWindow
  <2> QED BY <2>1, <2>2, <2>3 DEF Sampled
<1>11. CASE ~(m = d /\ w = ps)
  <2>1. (a + o) + ps <= Count /\ ((a + o) + ps > 0 => (a + o) + ps <= xf1) /\ Count \in Nat
    BY <1>8, ClampStep, TrialAssumption
  <2>2. a1 + o1 < (a + o) + ps
    BY <1>3, <1>4, <1>6, <1>9, <1>11
  <2>3. a \in Nat /\ o \in Nat /\ ps \in Nat /\ a1 \in Nat /\ o1 \in Nat
    BY <1>3, <1>4
  <2>4. a1 + o1 < xf1 /\ a1 + o1 < Count
    BY <2>1, <2>2, <2>3
  <2> QED BY <2>4, <1>3
<1> QED BY <1>10, <1>11

LEMMA FlightStep ==
    ASSUME BoardType, NEW retire \in BOOLEAN, NEW move \in BOOLEAN, NEW to,
           Tick(retire, move, to), NEW r \in Nat, Bit(retires(retire), r),
           NEW e \in Nat, Bit(enters(to), e)
    PROVE  /\ Len(flight) \in Nat /\ Len(flight') \in Nat /\ Len(flight') = Len(flight) - r + e
           /\ DOMAIN flight = 1 .. Len(flight) /\ DOMAIN flight' = 1 .. Len(flight')
           /\ \A j \in DOMAIN flight' :
                 /\ flight'[j] = IF j + r <= Len(flight) THEN flight[j + r] ELSE Entering(to)
                 /\ j + r > Len(flight) => e = 1 /\ j + r = Len(flight) + 1
           /\ r = 1 => Len(flight) >= 1 /\ Head(flight) = flight[1]
<1>1. PICK rd \in BOOLEAN, wr \in BOOLEAN : rd = retires(retire) /\ wr = enters(to)
  BY Booleans
<1>2. flight' = Moved(flight, rd, wr, Entering(to))
  BY <1>1, PathStep DEF Moved, Rest, retires
<1>3. flight \in Seq(Frames) /\ Entering(to) \in Frames /\ (rd => flight # <<>>)
  BY <1>1, Lines DEF BoardType, PathType, retires
<1>4. flight' \in Seq(Frames) /\ Grows(flight', flight, Read(flight, rd), wr, Entering(to))
  BY <1>1, <1>2, <1>3, QueueStep
<1>5. Read(flight, rd) = r
  BY <1>1, <1>3 DEF Read, Bit
<1>6. Grows(flight', flight, r, wr, Entering(to))
  BY <1>4, <1>5
<1>7. Len(flight) \in Nat /\ Len(flight') \in Nat
      /\ DOMAIN flight = 1 .. Len(flight) /\ DOMAIN flight' = 1 .. Len(flight')
  BY <1>3, <1>4, LenProperties
<1>8. Len(flight') = Len(flight) - r + e
  BY <1>1, <1>6 DEF Grows, Bit
<1>9. \A j \in DOMAIN flight' :
         /\ flight'[j] = IF j + r <= Len(flight) THEN flight[j + r] ELSE Entering(to)
         /\ j + r > Len(flight) => e = 1 /\ j + r = Len(flight) + 1
  BY <1>1, <1>6 DEF Grows, Bit
<1>10. r = 1 => Len(flight) >= 1 /\ Head(flight) = flight[1]
  <2>1. SUFFICES ASSUME r = 1 PROVE Len(flight) >= 1 /\ Head(flight) = flight[1]
    OBVIOUS
  <2>2. flight # <<>>
    BY <2>1 DEF Bit, retires
  <2> QED BY <2>2, <1>3, HeadTailProperties, EmptySeq, LenProperties
<1> QED BY <1>7, <1>8, <1>9, <1>10

\* Fewer are sampled than are kept.
LEMMA CountStep ==
    ASSUME BoardType, NEW retire \in BOOLEAN, NEW move \in BOOLEAN, NEW to,
           Tick(retire, move, to), ~clears, NEW w \in Nat, Bit(kept(retire), w)
    PROVE  /\ Got + Outstanding \in Nat /\ Got' + Outstanding' \in Nat
           /\ Got' + Outstanding' <= (Got + Outstanding) + w
<1>1. PICK m \in Nat, d \in Nat : Bit(pop(p, tx), m) /\ Bit(tx_done(p, tx), d)
  BY BitExists DEF pop, tx_done
<1>2. m <= d
  <2>1. pop(p, tx) => tx_done(p, tx)
    BY DEF pop
  <2> QED BY <2>1, <1>1 DEF Bit
<1>3. Got \in Nat /\ Got' = Got + m
  BY <1>1, GotStep
<1>4. Outstanding \in Nat /\ Outstanding' \in Nat /\ Outstanding' = Outstanding - d + w
  BY <1>1, OutCount
<1>5. PICK a \in Nat, o \in Nat : a = Got /\ o = Outstanding
  BY <1>3, <1>4
<1>6. Got' = a + m /\ Outstanding' = o - d + w /\ o - d + w \in Nat
  BY <1>3, <1>4, <1>5
<1>7. a + o \in Nat /\ (a + m) + (o - d + w) \in Nat
      /\ (a + m) + (o - d + w) <= (a + o) + w
  BY <1>1, <1>2, <1>5, <1>6
<1> QED BY <1>5, <1>6, <1>7

\* What comes in, whether or not frames are lost.
LEMMA ComesIn ==
    ASSUME BoardType, GenRun, Count > 0, NEW y \in Int,
           gen_busy(g) => y = g.seq,
           ~gen_busy(g) => y >= Count /\ inframe \in {None, Stray},
           NEW retire \in BOOLEAN, NEW move \in BOOLEAN, NEW to \in StrayMoves,
           Tick(retire, move, to), ~starts, NEW e \in Nat, Bit(enters(to), e)
    PROVE  /\ gen_busy(g)' => y + e = g'.seq
           /\ ~gen_busy(g)' => y + e >= Count /\ inframe' \in {None, Stray}
           /\ Entering(to) # Stray => y \in 0 .. Count - 1
           /\ inframe = Stray => IF e = 1 THEN Entering(to) = Stray ELSE inframe' = Stray
           /\ y >= 0
<1>1. Count \in Nat /\ g.seq \in Nat
  BY TrialAssumption DEF BoardType, GenType
<1>2. inframe' = IF ~beat(to).valid THEN inframe
                 ELSE IF beat(to).last THEN None ELSE Entering(to)
  BY PathStep
<1>3. e = 1 <=> beat(to).valid /\ beat(to).last
  BY DEF Bit, enters
<1>4. inframe = Stray => IF e = 1 THEN Entering(to) = Stray ELSE inframe' = Stray
  BY <1>2, <1>3, TrialAssumption DEF Entering
<1>5. CASE gen_busy(g)
  <2>1. beat(to).valid = gen_tvalid(g) /\ beat(to).last = gen_tlast(g)
    BY <1>5, Lines
  <2>2. e = 1 <=> gen_tlast(g)
    BY <1>3, <2>1 DEF gen_tlast, gen_tvalid
  <2>3. e = One(gen_tlast(g))
    BY <2>2 DEF One, Bit
  <2>4. gen_busy(g)' => y + e = g'.seq
    BY <1>5, <2>3, GenRunTick
  <2>5. ~gen_busy(g)' => y + e >= Count /\ inframe' \in {None, Stray}
    <3>1. SUFFICES ASSUME ~gen_busy(g)' PROVE y + e >= Count /\ inframe' \in {None, Stray}
      OBVIOUS
    <3>2. gen_tlast(g) /\ g.seq + 1 = Count
      BY <1>5, <3>1, GenRunTick
    <3>3. inframe' = None
      BY <1>2, <2>1, <3>2 DEF gen_tlast
    <3> QED BY <1>1, <1>5, <2>2, <3>2, <3>3
  <2>6. y >= 0 /\ y \in 0 .. Count - 1
    BY <1>1, <1>5 DEF GenRun
  <2> QED BY <1>4, <2>4, <2>5, <2>6
<1>6. CASE ~gen_busy(g)
  <2>1. ~gen_busy(g)' /\ beat(to).frame = Stray
    BY <1>6, GenRunTick, Lines
  <2>2. Entering(to) = Stray
    BY <1>6, <2>1 DEF Entering
  <2>3. inframe' \in {None, Stray}
    BY <1>2, <1>6, <2>2
  <2>4. y >= 0 /\ y + e >= Count
    BY <1>1, <1>6
  <2> QED BY <1>4, <2>1, <2>2, <2>3, <2>4
<1> QED BY <1>5, <1>6

\* A loss is not made good.
LEMMA LossyStep ==
    ASSUME BoardType, GenRun, Count > 0, NEW y \in Int, Lossy(y),
           NEW retire \in BOOLEAN, NEW move \in BOOLEAN, NEW to \in StrayMoves,
           Tick(retire, move, to), ~starts, ~clears, NEW e \in Nat, Bit(enters(to), e)
    PROVE  Lossy(y + e)'
<1>1. PICK r \in Nat, w \in Nat : Bit(retires(retire), r) /\ Bit(kept(retire), w)
  <2>1. retires(retire) \in BOOLEAN /\ kept(retire) \in BOOLEAN
    BY Booleans
  <2> QED BY <2>1, BitExists
<1>2. w <= r /\ r <= 1 /\ e <= 1 /\ (w = 1 => Head(flight) # Stray) /\ w <= 1
  BY <1>1 DEF Bit, kept, passes, drops
<1>3. PICK l \in Nat, l1 \in Nat :
         /\ l = Len(flight) /\ l1 = Len(flight') /\ l1 = l - r + e
         /\ DOMAIN flight = 1 .. l /\ DOMAIN flight' = 1 .. l1
         /\ \A j \in DOMAIN flight' :
               /\ flight'[j] = IF j + r <= l THEN flight[j + r] ELSE Entering(to)
               /\ j + r > l => e = 1 /\ j + r = l + 1
         /\ r = 1 => l >= 1 /\ Head(flight) = flight[1]
  BY <1>1, FlightStep
<1>4. PICK c \in Nat, c1 \in Nat :
         c = Got + Outstanding /\ c1 = Got' + Outstanding' /\ c1 <= c + w
  BY <1>1, CountStep
<1>5. PICK xf \in Int, xf1 \in Int : xf = y - l /\ xf1 = xf + r
  <2>1. y - l \in Int /\ (y - l) + r \in Int
    BY <1>1, <1>3
  <2> QED BY <2>1
<1>6. (y + e) - Len(flight') = xf1 /\ y = xf + l
  <2>1. l \in Nat /\ l1 \in Nat /\ r \in Nat /\ xf \in Int /\ xf1 \in Int
        /\ xf = y - l /\ xf1 = xf + r /\ l1 = l - r + e
    BY <1>1, <1>3, <1>5
  <2>2. (y + e) - l1 = xf1 /\ y = xf + l
    BY <2>1
  <2> QED BY <2>2, <1>3
<1>7. /\ gen_busy(g)  => y = g.seq
      /\ ~gen_busy(g) => y >= Count /\ inframe \in {None, Stray}
      /\ \A j \in DOMAIN flight : flight[j] # Stray => xf + j - 1 \in 0 .. Count - 1
      /\ c < Count
      /\ \/ c < xf
         \/ c = 0 /\ y = 0 /\ inframe = Stray
         \/ c = 0 /\ y > 0 /\ xf <= 0 /\ flight[1 - xf] = Stray
  BY <1>3, <1>4, <1>5 DEF Lossy
<1>8. /\ gen_busy(g)' => y + e = g'.seq
      /\ ~gen_busy(g)' => y + e >= Count /\ inframe' \in {None, Stray}
      /\ Entering(to) # Stray => y \in 0 .. Count - 1
      /\ inframe = Stray => IF e = 1 THEN Entering(to) = Stray ELSE inframe' = Stray
      /\ y >= 0
  BY <1>7, ComesIn
<1>9. Count \in Nat
  BY TrialAssumption
<1>10. ASSUME NEW j \in DOMAIN flight', flight'[j] # Stray
       PROVE  xf1 + j - 1 \in 0 .. Count - 1
  <2>1. j \in Nat /\ j >= 1
    BY <1>3, <1>10
  <2>2. CASE j + r <= l
    <3>1. j + r \in DOMAIN flight /\ flight[j + r] # Stray
      BY <2>1, <2>2, <1>1, <1>3, <1>10
    <3>2. xf + (j + r) - 1 \in 0 .. Count - 1
      BY <3>1, <1>7
    <3>3. xf + (j + r) - 1 = xf1 + j - 1
      BY <2>1, <1>1, <1>5
    <3> QED BY <3>2, <3>3
  <2>3. CASE j + r > l
    <3>1. ~(j + r <= l) /\ j + r = l + 1
      BY <2>1, <2>3, <1>1, <1>3, <1>10
    <3>2. Entering(to) # Stray
      BY <3>1, <1>3, <1>10
    <3>3. xf1 + j - 1 = y
      BY <2>1, <3>1, <1>1, <1>3, <1>5
    <3> QED BY <3>2, <3>3, <1>8
  <2> QED BY <2>1, <2>2, <2>3, <1>1, <1>3
<1>11. w = 1 => xf >= 0 /\ xf < Count /\ flight[1] # Stray
  <2>1. SUFFICES ASSUME w = 1 PROVE xf >= 0 /\ xf < Count /\ flight[1] # Stray
    OBVIOUS
  <2>2. r = 1 /\ l >= 1 /\ flight[1] # Stray
    BY <2>1, <1>1, <1>2, <1>3
  <2>3. 1 \in DOMAIN flight
    BY <2>2, <1>3
  <2>4. xf + 1 - 1 \in 0 .. Count - 1
    BY <2>2, <2>3, <1>7
  <2> QED BY <2>2, <2>4, <1>5, <1>9
<1>12. /\ c1 < Count
       /\ \/ c1 < xf1
          \/ c1 = 0 /\ y + e = 0 /\ inframe' = Stray
          \/ c1 = 0 /\ y + e > 0 /\ xf1 <= 0 /\ flight'[1 - xf1] = Stray
  <2>1. CASE c < xf
    <3>1. w = 0 \/ w = 1
      BY <1>1, <1>2
    <3>2. c1 < xf1
      BY <2>1, <1>1, <1>2, <1>4, <1>5
    <3>3. c1 < Count
      BY <2>1, <3>1, <1>4, <1>5, <1>7, <1>9, <1>11
    <3> QED BY <3>2, <3>3
  <2>2. CASE c = 0 /\ y = 0 /\ inframe = Stray
    <3>1. w = 0
      BY <2>2, <1>1, <1>2, <1>3, <1>5, <1>11
    <3>2. c1 = 0 /\ c1 < Count
      BY <2>2, <3>1, <1>4, <1>9
    <3>3. CASE e = 0
      <4>1. y + e = 0 /\ inframe' = Stray
        BY <2>2, <3>3, <1>8
      <4> QED BY <3>2, <4>1
    <3>4. CASE e = 1
      <4>1. Entering(to) = Stray /\ y + e > 0
        BY <2>2, <3>4, <1>8
      <4>2. xf1 <= 0 /\ 1 - xf1 = l1 /\ l1 >= 1
        BY <2>2, <3>4, <1>1, <1>2, <1>3, <1>5
      <4>3. l1 \in DOMAIN flight' /\ ~(l1 + r <= l)
        BY <3>4, <4>2, <1>1, <1>3
      <4>4. flight'[l1] = Stray
        BY <4>1, <4>3, <1>3
      <4> QED BY <3>2, <4>1, <4>2, <4>4
    <3> QED BY <3>3, <3>4, <1>2
  <2>3. CASE c = 0 /\ y > 0 /\ xf <= 0 /\ flight[1 - xf] = Stray
    <3>1. w = 0
      <4>1. SUFFICES ASSUME w = 1 PROVE FALSE
        BY <1>1, <1>2
      <4>2. xf = 0 /\ flight[1] # Stray
        BY <2>3, <4>1, <1>5, <1>11
      <4>3. 1 - xf = 1
        BY <4>2
      <4> QED BY <2>3, <4>2, <4>3
    <3>2. c1 = 0 /\ c1 < Count
      BY <2>3, <3>1, <1>4, <1>9
    <3>3. CASE xf1 > 0
      BY <3>2, <3>3
    <3>4. CASE xf1 <= 0
      <4>1. PICK j \in Nat : j = 1 - xf1 /\ j + r = 1 - xf /\ j >= 1
        <5>1. 1 - xf1 \in Nat /\ (1 - xf1) + r = 1 - xf /\ 1 - xf1 >= 1
          BY <3>4, <1>1, <1>5
        <5> QED BY <5>1
      <4>2. j + r <= l /\ j <= l1 /\ j \in DOMAIN flight'
        <5>1. l \in Nat /\ l1 \in Nat /\ r \in Nat /\ xf \in Int /\ l1 = l - r + e
              /\ y = xf + l /\ y > 0 /\ j \in Nat /\ j >= 1 /\ j + r = 1 - xf
          BY <2>3, <4>1, <1>1, <1>3, <1>5, <1>6
        <5>2. j + r <= l /\ j <= l1 /\ j \in 1 .. l1
          BY <5>1
        <5> QED BY <5>2, <1>3
      <4>3. flight'[j] = flight[j + r]
        BY <4>2, <1>3
      <4>4. y + e > 0
        BY <2>3
      <4> QED BY <2>3, <3>2, <3>4, <4>1, <4>3, <4>4
    <3> QED BY <3>3, <3>4, <1>5
  <2> QED BY <2>1, <2>2, <2>3, <1>7
<1> QED BY <1>4, <1>6, <1>8, <1>10, <1>12 DEF Lossy

\* The train runs on: no frame is lost, or the first loss stays one.
LEMMA RunTick ==
    ASSUME BoardType, Count > 0, Run, NEW retire \in BOOLEAN, NEW move \in BOOLEAN,
           NEW to \in StrayMoves, Tick(retire, move, to), ~starts, ~clears, ~Overflow
    PROVE  Run' /\ (~gen_busy(g) => ~gen_busy(g)')
<1>1. GenRun /\ GenRun' /\ (~gen_busy(g) => ~gen_busy(g)')
  BY GenRunTick DEF Run
<1>2. PICK s \in Nat, e \in Nat : /\ s = IF rx_start(p, rx_line) THEN 1 ELSE 0
                                  /\ e = IF enters(to) THEN 1 ELSE 0
  OBVIOUS
<1>3. ASSUME NEW y \in Int, Lossy(y)
      PROVE  Run'
  <2>1. Bit(enters(to), e)
    BY <1>2 DEF Bit
  <2>2. Lossy(y + e)'
    BY <1>1, <1>2, <1>3, <2>1, LossyStep
  <2>3. y + e \in Int
    BY <1>2
  <2> QED BY <1>1, <2>2, <2>3 DEF Run
<1>4. ASSUME NEW k \in Int, NEW y \in Int, Exact(k, y)
      PROVE  Run'
  <2>1. OnLine(k, y) /\ InPath(k, y) /\ Sampled(k - Len(p.stamps), y - Len(flight))
    BY <1>4 DEF Exact
  <2>2. /\ OnLine(k + s, y + e)'
        /\ s = 1 => rx_line.frame = W[k]
        /\ e = 1 => Entering(to) = W[y]
    BY <1>1, <1>2, <2>1, LineStep
  <2>3. /\ InPath(k + s, y + e)'
        /\ (k + s) - Len(p'.stamps) = (k - Len(p.stamps)) + One(reads)
        /\ (y + e) - Len(flight') = (y - Len(flight)) + One(retires(retire))
    <3>1. PathOn(k, y, s, e, retire)
      BY <1>2, <2>1, <2>2, QueuesStep
    <3> QED BY <3>1 DEF PathOn
  <2>4. Len(p.stamps) \in Nat /\ Len(flight) \in Nat
    BY LenProperties DEF BoardType, ProbeType, PathType
  <2>5. PICK z \in Int, xf \in Int : z = k - Len(p.stamps) /\ xf = y - Len(flight)
    <3>1. k - Len(p.stamps) \in Int /\ y - Len(flight) \in Int
      BY <2>4
    <3> QED BY <3>1
  <2>6. PICK z1 \in Int, xf1 \in Int : z1 = z + One(reads) /\ xf1 = xf + One(retires(retire))
    <3>1. One(reads) \in Int /\ One(retires(retire)) \in Int
      BY DEF One
    <3>2. z + One(reads) \in Int /\ xf + One(retires(retire)) \in Int
      BY <2>5, <3>1
    <3> QED BY <3>2
  <2>7. PICK k1 \in Int, y1 \in Int : k1 = k + s /\ y1 = y + e
    <3>1. k + s \in Int /\ y + e \in Int
      BY <1>2
    <3> QED BY <3>1
  <2>8. k1 - Len(p'.stamps) = z1 /\ y1 - Len(flight') = xf1
    BY <2>3, <2>5, <2>6, <2>7
  <2>9. OnLine(k1, y1)' /\ InPath(k1, y1)'
    BY <2>2, <2>3, <2>7
  <2>10. \/ Sampled(z1, xf1)'
         \/ Got' + Outstanding' < xf1 /\ Got' + Outstanding' < Count
    <3>1. Sampled(z, xf)
      BY <2>1, <2>5
    <3>2. Window(p.stamps, W, z) /\ Window(p.v, Dropped, z) /\ Window(flight, W, xf)
      BY <2>1, <2>5 DEF InPath, Placed
    <3> QED BY <2>5, <2>6, <3>1, <3>2, SampledStep
  <2>11. CASE Sampled(z1, xf1)'
    <3>1. Exact(k1, y1)'
      BY <2>8, <2>9, <2>11 DEF Exact
    <3> QED BY <1>1, <2>7, <3>1 DEF Run
  <2>12. CASE Got' + Outstanding' < xf1 /\ Got' + Outstanding' < Count
    <3>1. /\ gen_busy(g)' => y1 = g'.seq
          /\ ~gen_busy(g)' => y1 >= Count /\ inframe' \in {None, Stray}
      BY <2>9 DEF OnLine
    <3>2. Window(flight', W', xf1)
      BY <2>8, <2>9 DEF InPath, Placed
    <3>3. \A j \in DOMAIN flight' : flight'[j] # Stray => xf1 + j - 1 \in 0 .. Count - 1
      <4>1. SUFFICES ASSUME NEW j \in DOMAIN flight', flight'[j] # Stray
                     PROVE  xf1 + j - 1 \in 0 .. Count - 1
        OBVIOUS
      <4>2. W' = W
        BY SameW
      <4>3. j \in Nat
        <5>1. PICK r \in Nat : Bit(retires(retire), r)
          BY Booleans, BitExists
        <5>2. Bit(enters(to), e)
          BY <1>2 DEF Bit
        <5>3. Len(flight') \in Nat /\ DOMAIN flight' = 1 .. Len(flight')
          BY <1>2, <5>1, <5>2, FlightStep
        <5> QED BY <4>1, <5>3
      <4>4. PICK i \in Int : i = xf1 + j - 1
        <5>1. xf1 + j - 1 \in Int
          BY <2>6, <4>3
        <5> QED BY <5>1
      <4>5. W[i] # Stray
        BY <3>2, <4>1, <4>2, <4>4 DEF Window
      <4>6. Count \in Nat /\ (i < 0 \/ i >= Count => W[i] = Stray)
        BY <4>4, Places01, TrialAssumption
      <4>7. i \in 0 .. Count - 1
        BY <4>4, <4>5, <4>6
      <4> QED BY <4>4, <4>7
    <3>4. Lossy(y1)'
      BY <2>8, <2>12, <3>1, <3>3 DEF Lossy
    <3> QED BY <1>1, <2>7, <3>4 DEF Run
  <2> QED BY <2>10, <2>11, <2>12
<1> QED BY <1>1, <1>3, <1>4 DEF Run
-----------------------------------------------------------------------------
(* The trial.                                                              *)

\* The trial has the pairs of all its frames only if it has lost none.
LEMMA AccOwn ==
    ASSUME BoardType, Count > 0, Run, Len(p.acc) = Count
    PROVE  p.acc = Own /\ g.gap_q = mid /\ g.size_q = Size
<1>1. g.gap_q = mid /\ g.size_q = Size
  BY DEF Run, GenRun
<1>2. p.acc \in Seq(Pairs) /\ Count \in Nat /\ queued \in Seq(Frames)
  BY TrialAssumption DEF BoardType, ProbeType, PathType
<1>3. ASSUME NEW y \in Int, Lossy(y)
      PROVE  FALSE
  <2>1. Got + Outstanding < Count
    BY <1>3 DEF Lossy
  <2>2. PICK b \in Nat, c \in Nat, l \in Nat :
           b = One(p.pop_q) /\ c = One(wire # None) /\ l = Len(queued)
    <3>1. One(p.pop_q) \in Nat /\ One(wire # None) \in Nat /\ Len(queued) \in Nat
      BY <1>2, LenProperties DEF One
    <3> QED BY <3>1
  <2>3. Got = Count + b /\ Outstanding = c + l
    BY <2>2 DEF Got, Outstanding
  <2>4. (Count + b) + (c + l) < Count
    BY <2>1, <2>3
  <2> QED BY <2>2, <2>4, <1>2
<1>4. ASSUME NEW k \in Int, NEW y \in Int, Exact(k, y)
      PROVE  p.acc = Own
  <2>1. Window(p.acc, Pair, 0)
    BY <1>4 DEF Exact, Sampled
  <2>2. PICK acc \in Seq(Pairs) : acc = p.acc
    BY <1>2
  <2>3. DOMAIN acc = 1 .. Count /\ acc = [i \in 1 .. Count |-> acc[i]]
    BY <1>2, <2>2
  <2>4. ASSUME NEW i \in 1 .. Count
        PROVE  acc[i] = <<<<train, i - 1>>, <<train, i - 1>>>>
    <3>1. acc[i] = Pair[0 + i - 1]
      BY <2>1, <2>2, <2>3 DEF Window
    <3>2. PICK j \in Int : j = i - 1 /\ j = 0 + i - 1 /\ 0 <= j /\ j < Count
      <4>1. i - 1 \in Int /\ i - 1 = 0 + i - 1 /\ 0 <= i - 1 /\ i - 1 < Count
        BY <1>2
      <4> QED BY <4>1
    <3>3. Pair[j] = <<W[j], W[j]>> /\ W[j] = <<train, j>>
      BY <3>2, Places01
    <3> QED BY <3>1, <3>2, <3>3
  <2>5. Own = [i \in 1 .. Count |-> <<<<train, i - 1>>, <<train, i - 1>>>>]
    BY DEF Own
  <2>6. [i \in 1 .. Count |-> acc[i]]
          = [i \in 1 .. Count |-> <<<<train, i - 1>>, <<train, i - 1>>>>]
    BY <2>4
  <2> QED BY <2>2, <2>3, <2>5, <2>6
<1> QED BY <1>1, <1>3, <1>4 DEF Run

LEMMA NoStart ==
    ASSUME BoardType, h.pc # "unstart" \/ g.start_q PROVE ~starts
<1>1. h.pc # "unstart" => "start" \notin ctl.cmd
  BY DEF BoardType, Commanded
<1> QED BY <1>1 DEF starts, begins, start_pulse

LEMMA MustStart ==
    ASSUME BoardType, Count > 0, Pre, h.pc = "unstart", ~g.start_q PROVE starts
<1>1. "start" \in ctl.cmd /\ ctl.bytes = Size /\ ctl.count = Count
  BY DEF BoardType, Commanded
<1>2. g.state = "IDLE" /\ Count # 0 /\ Size >= HeaderBytes
  BY TrialAssumption DEF Pre
<1> QED BY <1>1, <1>2 DEF starts, begins, start_pulse

\* The phases under one clock edge that does not clear the probe.
LEMMA PhaseTick ==
    ASSUME BoardType, Count > 0, Phase, NEW retire \in BOOLEAN, NEW move \in BOOLEAN,
           NEW to \in StrayMoves, Tick(retire, move, to), ~clears, ~Overflow,
           starts => stray # "envelope"
    PROVE  Phase'
<1>1. h' = h /\ mid' = mid /\ ticked' = TRUE /\ g'.start_q = ("start" \in ctl.cmd)
  BY PathStep, GenStep DEF mid
<1>2. Pre /\ ~starts => Pre' /\ g'.sent_count = g.sent_count
  BY PreTick
<1>3. Run /\ ~starts => Run' /\ (~gen_busy(g) => ~gen_busy(g)')
  BY RunTick
<1>4. h.pc = "unclear" => Pre'
  <2>1. SUFFICES ASSUME h.pc = "unclear" PROVE Pre'
    OBVIOUS
  <2>2. ~starts
    BY <2>1, NoStart
  <2>3. ticked
    <3>1. "clear" \in ctl.cmd
      BY <2>1 DEF BoardType, Commanded
    <3>2. p.clear_q
      BY <3>1 DEF clears, clear_pulse
    <3> QED BY <2>1, <3>2 DEF BoardType, Edges, PathType
  <2> QED BY <1>2, <2>1, <2>2, <2>3 DEF Phase
<1>5. h.pc \in {"configure", "count", "start"} => Pre'
  BY <1>2, NoStart DEF Phase
<1>6. h.pc = "unstart" => Run' /\ g'.start_q
  <2>1. SUFFICES ASSUME h.pc = "unstart" PROVE Run' /\ g'.start_q
    OBVIOUS
  <2>2. CASE Pre /\ ~g.start_q
    <3>1. starts
      BY <2>1, <2>2, MustStart
    <3> QED BY <2>1, <2>2, <3>1, TrainBegins
  <2>3. CASE Run /\ g.start_q
    <3>1. ~starts /\ "start" \in ctl.cmd
      BY <2>1, <2>3, NoStart DEF BoardType, Commanded
    <3> QED BY <1>1, <1>3, <2>3, <3>1
  <2>4. ~ticked => Pre /\ ~g.start_q
    BY <2>1 DEF Phase, BoardType, Edges, PathType
  <2>5. ticked => (Run /\ g.start_q) \/ (Pre /\ ~g.start_q)
    BY <2>1 DEF Phase
  <2> QED BY <2>2, <2>3, <2>4, <2>5
<1>7. h.pc = "poll" => Run' \/ (Pre' /\ g'.sent_count = 0)
  BY <1>2, <1>3, NoStart DEF Phase
<1>8. h.pc \in {"snapshot", "unsnapshot"} /\ ~h.late =>
         h.sent = Count /\ (Pre' \/ (Run' /\ ~gen_busy(g)'))
  BY <1>2, <1>3, NoStart DEF Phase
<1>9. h.pc \in {"judge", "unsnapshot"} /\ ~h.late => h.sent = Count /\ StatOK'
  <2>1. SUFFICES ASSUME h.pc \in {"judge", "unsnapshot"}, ~h.late
                 PROVE  h.sent = Count /\ StatOK'
    OBVIOUS
  <2>2. ~starts
    BY <2>1, NoStart
  <2>3. g'.gap_q = g.gap_q /\ g'.size_q = g.size_q /\ Own' = Own
    <3>1. train' = train
      BY <2>2, PathStep
    <3> QED BY <2>2, <3>1, GenStep DEF Own
  <2>4. h.sent = Count
    BY <2>1 DEF Phase
  <2>5. p'.stat = IF snapshot_pulse(p, "snapshot" \in ctl.cmd) THEN p.acc ELSE p.stat
    BY ProbeStep
  <2>6. CASE snapshot_pulse(p, "snapshot" \in ctl.cmd)
    <3>1. h.pc = "unsnapshot"
      BY <2>1, <2>6 DEF snapshot_pulse, BoardType, Commanded
    <3>2. Pre \/ Run
      BY <2>1, <3>1 DEF Phase
    <3>3. ASSUME Len(p.acc) = Count
          PROVE  p.acc = Own /\ g.gap_q = mid /\ g.size_q = Size
      <4>1. ~Pre
        <5>1. Pre => Len(p.acc) = 0
          BY DEF Pre, Quiet
        <5> QED BY <3>3, <5>1, TrialAssumption
      <4> QED BY <3>2, <3>3, <4>1, AccOwn
    <3> QED BY <1>1, <2>3, <2>4, <2>5, <2>6, <3>3 DEF StatOK
  <2>7. CASE ~snapshot_pulse(p, "snapshot" \in ctl.cmd)
    <3>1. h.pc = "judge" \/ ticked
      <4>1. SUFFICES ASSUME h.pc = "unsnapshot" PROVE ticked
        BY <2>1
      <4>2. p.snapshot_q
        BY <2>7, <4>1 DEF snapshot_pulse, BoardType, Commanded
      <4> QED BY <4>1, <4>2 DEF BoardType, Edges, PathType
    <3>2. StatOK
      BY <2>1, <3>1 DEF Phase
    <3> QED BY <1>1, <2>3, <2>4, <2>5, <2>7, <3>2 DEF StatOK
  <2> QED BY <2>6, <2>7
<1> QED BY <1>1, <1>4, <1>5, <1>6, <1>7, <1>8, <1>9 DEF Phase

LEMMA TrialTick ==
    ASSUME BoardType, Count > 0, TrialInv, NEW retire \in BOOLEAN, NEW move \in BOOLEAN,
           NEW to \in StrayMoves, Tick(retire, move, to)
    PROVE  TrialInv'
<1> SUFFICES ASSUME ~spoilt' PROVE Phase'
  BY DEF TrialInv
<1>1. CASE clears
  <2>1. Pre' /\ h' = h
    BY <1>1, ClearTick, PathStep
  <2>2. h.pc = "unclear"
    BY <1>1 DEF clears, clear_pulse, BoardType, Commanded
  <2> QED BY <2>1, <2>2 DEF Phase
<1>2. CASE ~clears
  <2>1. ~Spoils(starts, clears) /\ ~spoilt
    BY <1>2, PathStep
  <2>2. ~Overflow /\ (starts => stray # "envelope") /\ Phase
    BY <2>1 DEF Spoils, Overflow, TrialInv
  <2> QED BY <1>2, <2>2, PhaseTick
<1> QED BY <1>1, <1>2

LEMMA TrialReset ==
    ASSUME BoardType, Count > 0, TrialInv, Reset
    PROVE  BoardType' /\ TrialInv'
<1>1. /\ g' = ResetGen /\ p' = ResetProbe
      /\ inframe' = None /\ flight' = <<>> /\ queued' = <<>> /\ tx' = None 
      /\ stray' = IF stray \in Carried THEN "torn" ELSE "out"
      /\ ticked' = TRUE /\ ctl' = ctl /\ h' = h /\ train' = train
      /\ spoilt' = (spoilt \/ stray \in Carried)
  BY DEF Reset
<1>2. /\ g'.state = "IDLE" /\ g'.seq = 0 /\ g'.byte_idx = 0 /\ g'.sent_count = 0
      /\ g'.start_q = FALSE
  BY <1>1 DEF ResetGen
<1>3. /\ p'.rx_q = FALSE /\ p'.last_q = FALSE /\ p'.pop_q = FALSE
      /\ p'.clear_q = FALSE /\ p'.snapshot_q = FALSE
      /\ p'.tx_q = None /\ p'.fifo_out = None /\ p'.tx_stamp = None
      /\ p'.stamps = <<>> /\ p'.v = <<>> /\ p'.acc = <<>> /\ p'.stat = <<>>
  BY <1>1 DEF ResetProbe
<1>4. Len(<<>>) = 0 /\ 0 <= ProbeDepth
  BY ProbeAssumption
<1>5. GenType' /\ ProbeType'
  <2>1. GenType'
    <3>1. g'.start_q \in BOOLEAN
      BY <1>2, Zenon
    <3>2. g'.state \in {"IDLE", "SEND", "GAP"} /\ g'.seq \in Nat /\ g'.byte_idx \in Nat
          /\ g'.sent_count \in Nat
      BY <1>2
    <3> QED BY <3>1, <3>2 DEF GenType
  <2>2. None \in Maybe
    BY DEF Maybe
  <2>3. /\ p'.stamps \in Seq(Frames) /\ p'.v \in Seq(BOOLEAN)
        /\ p'.acc \in Seq(Pairs) /\ p'.stat \in Seq(Pairs) /\ Len(p'.stamps) <= ProbeDepth
    BY <1>3, <1>4, EmptySeq
  <2>4. ProbeType'
    BY <1>3, <2>2, <2>3 DEF ProbeType
  <2> QED BY <2>1, <2>4
<1>6. PathType'
  <2>1. spoilt' \in BOOLEAN
    BY <1>1, Zenon DEF BoardType, PathType
  <2> QED BY <1>1, <1>3, <2>1, EmptySeq DEF BoardType, PathType, Maybe
<1>7. Commanded' /\ Edges'
  BY <1>1, <1>2, <1>3 DEF BoardType, Commanded, Edges, mid
<1>8. stray \notin Carried => Quiet'
  <2>1. stray \notin Carried => Pending' = 0
    BY <1>1 DEF Pending
  <2> QED BY <1>1, <1>3, <1>4, <2>1, EmptySeq DEF Quiet
<1>9. stray \notin Carried => Pre' /\ g'.sent_count = 0 /\ ~g'.start_q
  BY <1>2, <1>8 DEF Pre
<1>10. StatOK'
  BY <1>3, <1>4 DEF StatOK
<1>11. Phase /\ stray \notin Carried => Phase'
  BY <1>1, <1>9, <1>10 DEF Phase
<1> QED BY <1>1, <1>5, <1>6, <1>7, <1>11 DEF BoardType, TrialInv

\* What the board is in does not change by an access, as long as the search stays.
LEMMA Standstill ==
    ASSUME UNCHANGED <<g, p, dp, train>>, UNCHANGED mid
    PROVE  /\ Pre' = Pre /\ Run' = Run /\ StatOK' = StatOK
<1>1. /\ g' = g /\ p' = p /\ inframe' = inframe /\ flight' = flight /\ queued' = queued
      /\ tx' = tx /\ stray' = stray /\ train' = train /\ mid' = mid
  BY DEF dp
<1>2. Pre' = Pre
  BY <1>1 DEF Pre, Quiet, Pending, One
<1>3. W' = W /\ Dropped' = Dropped /\ Pair' = Pair /\ Own' = Own
  BY <1>1 DEF W, Dropped, Pair, Own
<1>4. StatOK' = StatOK
  BY <1>1, <1>3 DEF StatOK
<1>5. GenRun' = GenRun /\ gen_busy(g)' = gen_busy(g)
  BY <1>1 DEF GenRun, gen_busy
<1>6. Got' = Got /\ wire' = wire /\ Outstanding' = Outstanding
  BY <1>1 DEF Got, wire, Outstanding, One
<1>7. ASSUME NEW y
      PROVE  Lossy(y)' <=> Lossy(y)
  BY <1>1, <1>6 DEF Lossy, gen_busy
<1>8. ASSUME NEW k, NEW y
      PROVE  Exact(k, y)' <=> Exact(k, y)
  <2>1. OnLine(k, y)' <=> OnLine(k, y)
    BY <1>1, <1>3 DEF OnLine, gen_busy, One
  <2>2. InPath(k, y)' <=> InPath(k, y)
    BY <1>1, <1>3 DEF InPath, Placed, Window
  <2>3. ASSUME NEW z, NEW xf
        PROVE  Sampled(z, xf)' <=> Sampled(z, xf)
    BY <1>1, <1>3, <1>6 DEF Sampled, Leaving, Window, Clamp, One
  <2>4. Sampled(k - Len(p.stamps), y - Len(flight))'
          <=> Sampled(k - Len(p.stamps), y - Len(flight))
    BY <1>1, <1>3, <1>6 DEF Sampled, Leaving, Window, Clamp, One
  <2> QED BY <2>1, <2>2, <2>4 DEF Exact
<1>9. Run' <=> Run
  BY <1>5, <1>7, <1>8 DEF Run
<1>10. Run' = Run
  BY <1>9 DEF Run
<1> QED BY <1>2, <1>4, <1>10

LEMMA WriteStep ==
    ASSUME HostType, NEW from, NEW registers, NEW to, Write(from, registers, to)
    PROVE  /\ h.pc = from /\ h'.pc = to /\ h'.low = h.low /\ h'.high = h.high
           /\ h'.sent = h.sent /\ h'.late = h.late /\ mid' = mid /\ ctl' = registers
           /\ Access(from)
  BY DEF HostType, Write, Access, mid

LEMMA CommandStep ==
    ASSUME HostType, Commanded, NEW from, NEW bits, NEW to, Command(from, bits, to)
    PROVE  /\ h.pc = from /\ h'.pc = to /\ h'.low = h.low /\ h'.high = h.high
           /\ h'.sent = h.sent /\ h'.late = h.late /\ mid' = mid
           /\ ctl' = [cmd |-> bits, gap |-> ctl.gap, bytes |-> ctl.bytes, count |-> ctl.count]
           /\ Access(from)
<1>1. Write(from, [ctl EXCEPT !.cmd = bits], to)
  BY DEF Command
<1>2. [ctl EXCEPT !.cmd = bits]
        = [cmd |-> bits, gap |-> ctl.gap, bytes |-> ctl.bytes, count |-> ctl.count]
  BY DEF Commanded
<1> QED BY <1>1, <1>2, WriteStep

\* The accesses of a trial, one by one.
LEMMA TrialHost ==
    ASSUME HostType, BoardType, Count > 0, TrialInv, Host
    PROVE  BoardType' /\ TrialInv'
<1>1. /\ Commanded /\ Edges
      /\ h.pc = "unclear" <=> "clear" \in ctl.cmd
      /\ h.pc \in {"count", "start", "unstart"} => ctl.gap = mid /\ ctl.bytes = Size
      /\ h.pc \in {"start", "unstart"} => ctl.count = Count
  BY DEF BoardType, Commanded
<1>2. ASSUME NEW from, Access(from), UNCHANGED mid
      PROVE  /\ GenType' /\ ProbeType' /\ PathType' /\ ticked' = FALSE /\ ticked
             /\ Pre' = Pre /\ Run' = Run /\ StatOK' = StatOK /\ spoilt' = spoilt
             /\ g' = g /\ p' = p
  <2>1. /\ ticked /\ ticked' = FALSE /\ UNCHANGED <<g, p, dp, train, spoilt>>
    BY <1>2 DEF Access
  <2>2. /\ g' = g /\ p' = p /\ inframe' = inframe /\ flight' = flight /\ queued' = queued
        /\ tx' = tx /\ stray' = stray /\ train' = train /\ spoilt' = spoilt
    BY <2>1 DEF dp
  <2>3. GenType' /\ ProbeType'
    BY <2>2 DEF BoardType, GenType, ProbeType, Maybe, Frames, Pairs
  <2>4. PathType'
    BY <2>1, <2>2 DEF BoardType, PathType, Maybe, Frames
  <2> QED BY <1>2, <2>1, <2>2, <2>3, <2>4, Standstill
<1>3. CASE Clear
  <2>1. Command("clear", {"clear"}, "unclear")
    BY <1>3 DEF Clear
  <2>2. Commanded'
    BY <2>1, <1>1, CommandStep DEF Commanded
  <2>3. h.pc = "clear" /\ h'.pc = "unclear"
    BY <2>1, <1>1, CommandStep
  <2>4. /\ GenType' /\ ProbeType' /\ PathType' /\ ticked' = FALSE /\ ticked /\ p' = p
    BY <2>1, <1>1, <1>2, CommandStep
  <2>5. Edges'
    BY <2>3, <2>4, <1>1 DEF Edges
  <2>6. Phase'
    BY <2>3, <2>4 DEF Phase
  <2> QED BY <2>2, <2>4, <2>5, <2>6 DEF BoardType, TrialInv
<1>4. CASE Unclear
  <2>1. Command("unclear", {}, "configure")
    BY <1>4 DEF Unclear
  <2>2. Commanded'
    BY <2>1, <1>1, CommandStep DEF Commanded
  <2>3. h.pc = "unclear" /\ h'.pc = "configure"
    BY <2>1, <1>1, CommandStep
  <2>4. /\ GenType' /\ ProbeType' /\ PathType' /\ ticked' = FALSE /\ ticked
        /\ Pre' = Pre /\ spoilt' = spoilt
    BY <2>1, <1>1, <1>2, CommandStep
  <2>5. Edges'
    BY <2>3, <2>4 DEF Edges
  <2>6. TrialInv'
    BY <2>3, <2>4 DEF TrialInv, Phase
  <2> QED BY <2>2, <2>4, <2>5, <2>6 DEF BoardType
<1>5. CASE Configure
  <2>1. Write("configure", [ctl EXCEPT !.gap = mid, !.bytes = Size], "count")
    BY <1>5 DEF Configure
  <2>2. /\ h.pc = "configure" /\ h'.pc = "count" /\ mid' = mid /\ Access("configure")
        /\ ctl' = [ctl EXCEPT !.gap = mid, !.bytes = Size]
    BY <2>1, WriteStep
  <2>3. ctl' = [cmd |-> ctl.cmd, gap |-> mid, bytes |-> Size, count |-> ctl.count]
    BY <2>2, <1>1 DEF Commanded
  <2>4. Commanded'
    BY <2>2, <2>3, <1>1 DEF Commanded
  <2>5. /\ GenType' /\ ProbeType' /\ PathType' /\ ticked' = FALSE /\ ticked
        /\ Pre' = Pre /\ spoilt' = spoilt
    BY <2>2, <1>2
  <2>6. Edges'
    BY <2>2, <2>5 DEF Edges
  <2>7. TrialInv'
    BY <2>2, <2>5 DEF TrialInv, Phase
  <2> QED BY <2>4, <2>5, <2>6, <2>7 DEF BoardType
<1>6. CASE SetCount
  <2>1. Write("count", [ctl EXCEPT !.count = Count], "start")
    BY <1>6 DEF SetCount
  <2>2. /\ h.pc = "count" /\ h'.pc = "start" /\ mid' = mid /\ Access("count")
        /\ ctl' = [ctl EXCEPT !.count = Count]
    BY <2>1, WriteStep
  <2>3. ctl' = [cmd |-> ctl.cmd, gap |-> ctl.gap, bytes |-> ctl.bytes, count |-> Count]
    BY <2>2, <1>1 DEF Commanded
  <2>4. Commanded'
    BY <2>2, <2>3, <1>1 DEF Commanded
  <2>5. /\ GenType' /\ ProbeType' /\ PathType' /\ ticked' = FALSE /\ ticked
        /\ Pre' = Pre /\ spoilt' = spoilt
    BY <2>2, <1>2
  <2>6. Edges'
    BY <2>2, <2>5 DEF Edges
  <2>7. TrialInv'
    BY <2>2, <2>5 DEF TrialInv, Phase
  <2> QED BY <2>4, <2>5, <2>6, <2>7 DEF BoardType
<1>7. CASE Start
  <2>1. Command("start", {"start"}, "unstart")
    BY <1>7 DEF Start
  <2>2. Commanded'
    BY <2>1, <1>1, CommandStep DEF Commanded
  <2>3. h.pc = "start" /\ h'.pc = "unstart"
    BY <2>1, <1>1, CommandStep
  <2>4. /\ GenType' /\ ProbeType' /\ PathType' /\ ticked' = FALSE /\ ticked
        /\ Pre' = Pre /\ spoilt' = spoilt /\ g' = g
    BY <2>1, <1>1, <1>2, CommandStep
  <2>5. Edges'
    BY <2>3, <2>4, <1>1 DEF Edges
  <2>6. TrialInv'
    BY <2>3, <2>4 DEF TrialInv, Phase
  <2> QED BY <2>2, <2>4, <2>5, <2>6 DEF BoardType
<1>8. CASE Unstart
  <2>1. Command("unstart", {}, "poll")
    BY <1>8 DEF Unstart
  <2>2. Commanded'
    BY <2>1, <1>1, CommandStep DEF Commanded
  <2>3. h.pc = "unstart" /\ h'.pc = "poll"
    BY <2>1, <1>1, CommandStep
  <2>4. /\ GenType' /\ ProbeType' /\ PathType' /\ ticked' = FALSE /\ ticked
        /\ Pre' = Pre /\ Run' = Run /\ spoilt' = spoilt /\ g' = g
    BY <2>1, <1>1, <1>2, CommandStep
  <2>5. Edges'
    BY <2>3, <2>4 DEF Edges
  <2>6. TrialInv'
    BY <2>3, <2>4 DEF TrialInv, Phase
  <2> QED BY <2>2, <2>4, <2>5, <2>6 DEF BoardType
<1>9. CASE Poll
  <2>1. /\ Access("poll") /\ ctl' = ctl
        /\ h' = [h EXCEPT !.pc = "snapshot", !.sent = g.sent_count,
                          !.late = g.sent_count < Count]
    BY <1>9 DEF Poll
  <2>2. /\ h.pc = "poll" /\ h'.pc = "snapshot" /\ mid' = mid
        /\ h'.sent = g.sent_count /\ h'.late = (g.sent_count < Count)
    BY <2>1 DEF HostType, Access, mid
  <2>3. /\ GenType' /\ ProbeType' /\ PathType' /\ ticked' = FALSE /\ ticked
        /\ Pre' = Pre /\ Run' = Run /\ spoilt' = spoilt /\ g' = g
    BY <2>1, <2>2, <1>2
  <2>4. Commanded' /\ Edges'
    BY <2>1, <2>2, <2>3, <1>1 DEF Commanded, Edges
  <2>5. ASSUME Phase, ~(g.sent_count < Count)
        PROVE  g.sent_count = Count /\ Run /\ ~gen_busy(g)
    <3>1. Run \/ (Pre /\ g.sent_count = 0)
      BY <2>2, <2>5 DEF Phase
    <3>2. Run /\ GenRun
      BY <2>5, <3>1 DEF Run
    <3>3. ~gen_busy(g)
      BY <2>5, <3>2 DEF GenRun
    <3> QED BY <3>2, <3>3 DEF GenRun
  <2>6. gen_busy(g)' = gen_busy(g)
    BY <2>3 DEF gen_busy
  <2>7. TrialInv'
    BY <2>2, <2>3, <2>5, <2>6 DEF TrialInv, Phase
  <2> QED BY <2>3, <2>4, <2>7 DEF BoardType
<1>10. CASE Snapshot
  <2>1. Command("snapshot", {"snapshot"}, "unsnapshot")
    BY <1>10 DEF Snapshot
  <2>2. Commanded'
    BY <2>1, <1>1, CommandStep DEF Commanded
  <2>3. /\ h.pc = "snapshot" /\ h'.pc = "unsnapshot"
        /\ h'.sent = h.sent /\ h'.late = h.late
    BY <2>1, <1>1, CommandStep
  <2>4. /\ GenType' /\ ProbeType' /\ PathType' /\ ticked' = FALSE /\ ticked
        /\ Pre' = Pre /\ Run' = Run /\ spoilt' = spoilt /\ g' = g /\ p' = p
    BY <2>1, <1>1, <1>2, CommandStep
  <2>5. Edges'
    BY <2>3, <2>4, <1>1 DEF Edges
  <2>6. gen_busy(g)' = gen_busy(g)
    BY <2>4 DEF gen_busy
  <2>7. TrialInv'
    BY <2>3, <2>4, <2>6 DEF TrialInv, Phase
  <2> QED BY <2>2, <2>4, <2>5, <2>7 DEF BoardType
<1>11. CASE Unsnapshot
  <2>1. Command("unsnapshot", {}, "judge")
    BY <1>11 DEF Unsnapshot
  <2>2. Commanded'
    BY <2>1, <1>1, CommandStep DEF Commanded
  <2>3. /\ h.pc = "unsnapshot" /\ h'.pc = "judge"
        /\ h'.sent = h.sent /\ h'.late = h.late
    BY <2>1, <1>1, CommandStep
  <2>4. /\ GenType' /\ ProbeType' /\ PathType' /\ ticked' = FALSE /\ ticked
        /\ StatOK' = StatOK /\ spoilt' = spoilt
    BY <2>1, <1>1, <1>2, CommandStep
  <2>5. Edges'
    BY <2>3, <2>4 DEF Edges
  <2>6. TrialInv'
    BY <2>3, <2>4 DEF TrialInv, Phase
  <2> QED BY <2>2, <2>4, <2>5, <2>6 DEF BoardType
<1>12. CASE Judge
  <2>1. /\ h.pc = "judge" /\ h'.pc \in {"clear", "done"} /\ ctl' = ctl /\ Access("judge")
    BY <1>12 DEF Judge, Access
  <2>2. /\ ticked' = FALSE /\ g' = g /\ p' = p /\ inframe' = inframe /\ flight' = flight
        /\ queued' = queued /\ tx' = tx /\ stray' = stray /\ train' = train /\ spoilt' = spoilt
    BY <2>1 DEF Access, dp
  <2>3. GenType' /\ ProbeType'
    BY <2>2 DEF BoardType, GenType, ProbeType, Maybe, Frames, Pairs
  <2>4. PathType'
    BY <2>2 DEF BoardType, PathType, Maybe, Frames
  <2>5. Commanded' /\ Edges'
    BY <2>1, <2>2, <1>1 DEF Commanded, Edges
  <2>6. Phase'
    BY <2>1, <2>2 DEF Phase
  <2> QED BY <2>3, <2>4, <2>5, <2>6 DEF BoardType, TrialInv
<1> QED BY <1>3, <1>4, <1>5, <1>6, <1>7, <1>8, <1>9, <1>10, <1>11, <1>12 DEF Host

LEMMA TrialInit == Count > 0 /\ Init => BoardType /\ TrialInv
<1> SUFFICES ASSUME Count > 0, Init PROVE BoardType /\ TrialInv
  OBVIOUS
<1>1. Len(<<>>) = 0 /\ 0 <= ProbeDepth
  BY ProbeAssumption
<1>2. GenType
  BY DEF Init, ResetGen, GenType
<1>3. None \in Maybe
  BY DEF Maybe
<1>4. ProbeType
  BY <1>1, <1>3, EmptySeq DEF Init, ResetProbe, ProbeType
<1>5. PathType
  <2>1. /\ inframe = None /\ flight = <<>> /\ queued = <<>> /\ tx = None /\ stray = "out"
        /\ train = 0 /\ ticked = TRUE /\ spoilt = FALSE
    BY DEF Init
  <2>2. flight \in Seq(Frames) /\ queued \in Seq(Frames)
    BY <2>1, EmptySeq
  <2>3. ticked \in BOOLEAN /\ spoilt \in BOOLEAN
    BY <2>1, Zenon
  <2> QED BY <2>1, <2>2, <2>3, <1>3 DEF PathType
<1>6. Commanded /\ Edges
  BY DEF Init, Commanded, Edges, ResetGen, ResetProbe
<1>7. Phase
  BY DEF Init, Phase
<1> QED BY <1>2, <1>4, <1>5, <1>6, <1>7 DEF BoardType, TrialInv

LEMMA TrialNext ==
    IInv /\ BoardType /\ TrialInv /\ Count > 0 /\ [Next]_vars => BoardType' /\ TrialInv'
<1> SUFFICES ASSUME IInv, BoardType, TrialInv, Count > 0, [Next]_vars
             PROVE  BoardType' /\ TrialInv'
  OBVIOUS
<1>1. ASSUME NEW retire \in BOOLEAN, NEW move \in BOOLEAN, NEW to \in StrayMoves,
             Tick(retire, move, to)
      PROVE  BoardType' /\ TrialInv'
  BY <1>1, TypeTick, TrialTick
<1>2. CASE Reset
  BY <1>2, TrialReset
<1>3. CASE Host
  BY <1>3, TrialHost DEF IInv
<1>4. CASE UNCHANGED vars
  <2>1. /\ g' = g /\ p' = p /\ ctl' = ctl /\ UNCHANGED dp /\ h' = h
        /\ ticked' = ticked /\ train' = train /\ spoilt' = spoilt
    BY <1>4 DEF vars, hist
  <2>2. /\ inframe' = inframe /\ flight' = flight /\ queued' = queued
        /\ tx' = tx /\ stray' = stray /\ mid' = mid
    BY <2>1 DEF dp, mid
  <2>3. GenType' /\ ProbeType'
    BY <2>1 DEF BoardType, GenType, ProbeType, Maybe, Frames, Pairs
  <2>4. PathType' /\ Commanded' /\ Edges'
    BY <2>1, <2>2 DEF BoardType, PathType, Maybe, Frames, Commanded, Edges
  <2>5. Pre' = Pre /\ Run' = Run /\ StatOK' = StatOK
    BY <2>1, <2>2, Standstill
  <2>6. gen_busy(g)' = gen_busy(g)
    BY <2>1 DEF gen_busy
  <2>7. TrialInv'
    BY <2>1, <2>5, <2>6 DEF TrialInv, Phase
  <2> QED BY <2>3, <2>4, <2>7 DEF BoardType
<1> QED BY <1>1, <1>2, <1>3, <1>4 DEF Next

LEMMA TrialSuffices == TrialInv => LosslessMeansOwn
  BY DEF TrialInv, Phase, StatOK, LosslessMeansOwn, Lossless

\* A trial that is judged lossless before its deadline has measured its own frames, and all
\* of them, for every size and number of frames (but none, of which every trial is lossless),
\* every range of gaps, depth of the queues, and number of strays and resets
\* (measure.py:255, latency_probe.sv:119-195).
THEOREM LosslessIsOwn == ASSUME Count # 0 PROVE Spec => []LosslessMeansOwn
<1>1. Count > 0
  BY TrialAssumption
<1>2. Init => IInv /\ BoardType /\ TrialInv
  BY <1>1, InitSearch, TrialInit
<1>3. IInv /\ BoardType /\ TrialInv /\ [Next]_vars => (IInv /\ BoardType /\ TrialInv)'
  BY <1>1, NextSearch, TrialNext
<1> QED BY <1>2, <1>3, TrialSuffices, PTL DEF Spec
=============================================================================
