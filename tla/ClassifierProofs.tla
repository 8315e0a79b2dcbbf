-------------------------- MODULE ClassifierProofs --------------------------
(***************************************************************************)
(* Proofs about the classifier, for every table, address length and depth. *)
(***************************************************************************)
EXTENDS ClassifierPort, SequenceTheorems, FiniteSetTheorems, WellFoundedInduction, TLAPS

\* Inductive: a full buffer takes nothing, since readiness promises a place; so the
\* fill follows the buffer.
BInv == /\ c.data \in Seq(Beat) /\ c.fill \in Nat
        /\ BufferRoom

LEMMA BInvInit == Init => BInv
<1> SUFFICES ASSUME Init PROVE BInv
  OBVIOUS
<1>1. c.data = <<>> /\ c.fill = 0 /\ c.s_tready = FALSE
  BY DEF Init, ResetClassifier
<1>2. <<>> \in Seq(Beat) /\ Len(<<>>) = 0
  BY EmptySeq
<1> QED BY <1>1, <1>2 DEF BInv, BufferRoom

\* One edge: what the buffer gains and loses, the fill gains and loses.
LEMMA BufferClock ==
    ASSUME BInv, NEW beat \in Offers, NEW rdy \in BOOLEAN,
           c' = ClassifierClocked(c, beat, rdy)
    PROVE  BInv'
<1> DEFINE x  == s_xfer(c, beat)
           rd == data_rd_en(c, rdy)
<1>1. /\ c'.data = After(c.data, BufDepth, x, beat, rd)
      /\ c'.fill = c.fill + (IF x THEN 1 ELSE 0) - (IF rd THEN 1 ELSE 0)
      /\ c'.s_tready = readyNext(c)
  BY DEF ClassifierClocked
<1>2. x => beat \in Beat /\ c.fill < BufDepth
  BY DEF s_xfer, Offers, BInv, BufferRoom
<1>3. rd => c.data # <<>>
  BY DEF data_rd_en
<1>4. BufDepth \in Nat /\ c.data \in Seq(Beat) /\ c.fill = Len(c.data)
  BY ClassifierAssumption DEF BInv, BufferRoom
<1> HIDE DEF x, rd
<1>5. /\ Rest(c.data, rd) \in Seq(Beat)
      /\ Len(Rest(c.data, rd)) = Len(c.data) - (IF rd THEN 1 ELSE 0)
  <2>1. CASE rd
    BY <1>3, <1>4, <2>1, HeadTailProperties, LenProperties DEF Rest
  <2>2. CASE ~rd
    BY <1>4, <2>2, LenProperties DEF Rest
  <2> QED BY <2>1, <2>2
<1>6. /\ Added(c.data, BufDepth, x, beat) \in Seq(Beat)
      /\ Len(Added(c.data, BufDepth, x, beat)) = IF x THEN 1 ELSE 0
  <2>1. CASE x
    <3>1. Added(c.data, BufDepth, x, beat) = <<beat>>
      BY <1>2, <1>4, <2>1 DEF Added
    <3>2. beat \in Beat
      BY <1>2, <2>1
    <3>3. <<beat>> \in Seq(Beat) /\ Len(<<beat>>) = 1
      BY <3>2
    <3> QED BY <2>1, <3>1, <3>3
  <2>2. CASE ~x
    BY <2>2, EmptySeq DEF Added
  <2> QED BY <2>1, <2>2
<1>7. /\ c'.data \in Seq(Beat)
      /\ Len(c'.data) = Len(Rest(c.data, rd)) + Len(Added(c.data, BufDepth, x, beat))
  BY <1>1, <1>5, <1>6, ConcatProperties DEF After
<1>8. PICK n \in Nat, m \in Nat, r \in 0 .. 1, a \in 0 .. 1 :
         /\ n = c.fill /\ n = Len(c.data) /\ m = Len(c'.data)
         /\ r = (IF rd THEN 1 ELSE 0) /\ a = (IF x THEN 1 ELSE 0)
  BY <1>4, <1>7, LenProperties
<1>9. c'.fill = Len(c'.data) /\ c'.fill \in Nat /\ m = n + a - r
  <2>1. m = (n - r) + a
    BY <1>5, <1>6, <1>7, <1>8
  <2>2. c'.fill = n + a - r
    BY <1>1, <1>8
  <2>3. (n - r) + a = n + a - r
    BY <1>8
  <2>4. c'.fill = m /\ m = n + a - r
    BY <2>1, <2>2, <2>3
  <2> QED BY <1>8, <2>4
<1>10. c'.s_tready => Len(c'.data) < BufDepth
  <2>1. c'.s_tready => n < BufDepth - 1
    BY <1>1, <1>8 DEF readyNext
  <2>2. ASSUME n < BufDepth - 1 PROVE m < BufDepth
    BY <1>4, <1>9, <2>2
  <2> QED BY <1>8, <2>1, <2>2
<1> QED BY <1>7, <1>9, <1>10 DEF BInv, BufferRoom

\* No byte meets a full buffer, and the fill counted beside it is right, for every
\* depth (classifier.sv:207, 232-233).
THEOREM BufferNeverFull == Spec => []BufferRoom
<1>1. BInv /\ [Next]_vars => BInv'
  <2> SUFFICES ASSUME BInv, [Next]_vars PROVE BInv'
    OBVIOUS
  <2>1. CASE \E beat \in Offers, rdy \in BOOLEAN : Clock(beat, rdy)
    BY <2>1, BufferClock DEF Clock
  <2>2. CASE Reset
    <3>1. c'.data = <<>> /\ c'.fill = 0 /\ c'.s_tready = FALSE
      BY <2>2 DEF Reset, ResetClassifier
    <3>2. <<>> \in Seq(Beat) /\ Len(<<>>) = 0
      BY EmptySeq
    <3> QED BY <3>1, <3>2 DEF BInv, BufferRoom
  <2>3. CASE UNCHANGED vars
    BY <2>3 DEF vars, BInv, BufferRoom
  <2> QED BY <2>1, <2>2, <2>3 DEF Next
<1>2. BInv => BufferRoom
  BY DEF BInv
<1> QED BY <1>1, <1>2, BInvInit, PTL DEF Spec
-----------------------------------------------------------------------------
(* Verdicts and data run apart, and meet again at the output.  Where they   *)
(* stand is told from everything accepted so far, as functions on the       *)
(* integers: beat k was D[k], of frame F[k], whose verdict was V[F[k]];     *)
(* among the beats up to k, S[k] were to be sent.  Of all beats r have been *)
(* read and the frames of w are judged; verdict g is the last one taken.    *)

Verdict == Dest \cup {None}
Sent    == [byte : Byte, last : BOOLEAN, dest : Dest]
Tag(b, d) == [byte |-> b.byte, last |-> b.last, dest |-> d]

\* The buffer holds what was accepted and not read; its end is the header h that is not
\* judged yet.
Kept(D, r, w, data, h) ==
    /\ r <= w /\ w + Len(h) = r + Len(data)
    /\ \A i \in 1 .. Len(data) : data[i] = D[r + i]
    /\ \A i \in 1 .. Len(h) : h[i] = D[w + i]

\* Frames are numbered as they come.
Numbered(D, F, r, w) ==
    /\ \A k \in r + 1 .. w : F[k + 1] = F[k] + (IF D[k].last THEN 1 ELSE 0)
    /\ \A i, k \in r + 1 .. w + 1 : i <= k => F[i] <= F[k] /\ F[k] - F[i] <= k - i

\* The verdicts that wait are those of the frames that follow the one in force; the next
\* beat read is of the frame in force as long as that one is open, else of the next.
Ranked(D, F, V, r, w, g, meta, open, dest, h, busy, j) ==
    /\ F[r + 1] = (IF open THEN g ELSE g + 1)
    /\ F[w + 1] = g + Len(meta) + (IF busy THEN 0 ELSE 1)
    /\ \A i \in 1 .. Len(meta) : meta[i] = V[g + i]
    /\ open => dest = V[g]
    /\ busy => h = <<>> /\ j = V[F[w + 1]]
    /\ w > r => (D[w].last <=> ~busy)
    /\ w = r /\ busy => open

\* What is still to be sent, in order and with its destination.
Sorted(D, F, V, S, r, w, q) ==
    /\ q \in Seq(Sent) /\ Len(q) = S[w] - S[r]
    /\ \A k \in r .. w - 1 : S[k + 1] = S[k] + (IF V[F[k + 1]] = None THEN 0 ELSE 1)
    /\ \A i, k \in r .. w : i <= k => S[i] <= S[k]
    /\ \A k \in r + 1 .. w : V[F[k]] # None => q[S[k] - S[r]] = Tag(D[k], V[F[k]])

Explained(data, meta, open, dest, q, h, busy, j) ==
    /\ data \in Seq(Beat) /\ meta \in Seq(Verdict) /\ h \in Seq(Beat)
    /\ open \in BOOLEAN /\ busy \in BOOLEAN
    /\ \E D \in [Int -> Beat], F, S \in [Int -> Int], V \in [Int -> Verdict],
          r, w, g \in Int :
          /\ Kept(D, r, w, data, h) /\ Numbered(D, F, r, w)
          /\ Ranked(D, F, V, r, w, g, meta, open, dest, h, busy, j)
          /\ Sorted(D, F, V, S, r, w, q)

\* No more verdicts wait than the buffer holds bytes.
LEMMA FewVerdicts ==
    ASSUME NEW data, NEW meta, NEW open, NEW dest, NEW q, NEW h, NEW busy, NEW j,
           Explained(data, meta, open, dest, q, h, busy, j)
    PROVE  Len(meta) <= Len(data)
<1>1. PICK D \in [Int -> Beat], F \in [Int -> Int], S \in [Int -> Int],
           V \in [Int -> Verdict], r \in Int, w \in Int, g \in Int :
          /\ Kept(D, r, w, data, h) /\ Numbered(D, F, r, w)
          /\ Ranked(D, F, V, r, w, g, meta, open, dest, h, busy, j)
          /\ Sorted(D, F, V, S, r, w, q)
  BY DEF Explained
<1>2. PICK n \in Nat, m \in Nat, l \in Nat : n = Len(data) /\ m = Len(meta) /\ l = Len(h)
  BY LenProperties DEF Explained
<1>3. r <= w /\ w + l = r + n
  BY <1>1, <1>2 DEF Kept
<1>4. /\ F[r + 1] = (IF open THEN g ELSE g + 1)
      /\ F[w + 1] = g + m + (IF busy THEN 0 ELSE 1)
      /\ w > r => (D[w].last <=> ~busy)
      /\ w = r /\ busy => open
      /\ open \in BOOLEAN /\ busy \in BOOLEAN
  BY <1>1, <1>2 DEF Ranked, Explained
<1>5. F[w + 1] - F[r + 1] <= w - r
  <2>1. r + 1 \in r + 1 .. w + 1 /\ w + 1 \in r + 1 .. w + 1 /\ r + 1 <= w + 1
    BY <1>3
  <2>2. F[w + 1] - F[r + 1] <= (w + 1) - (r + 1)
    BY <1>1, <2>1 DEF Numbered
  <2> QED BY <2>2
<1>6. w > r /\ busy => F[w + 1] - F[r + 1] <= w - r - 1
  <2> SUFFICES ASSUME w > r, busy PROVE F[w + 1] - F[r + 1] <= w - r - 1
    OBVIOUS
  <2>1. r + 1 \in r + 1 .. w + 1 /\ w \in r + 1 .. w + 1 /\ r + 1 <= w /\ w \in r + 1 .. w
    BY <1>3
  <2>2. F[w] - F[r + 1] <= w - (r + 1)
    BY <1>1, <2>1 DEF Numbered
  <2>3. F[w + 1] = F[w] + (IF D[w].last THEN 1 ELSE 0)
    BY <1>1, <2>1 DEF Numbered
  <2>4. ~D[w].last
    BY <1>4
  <2>5. F[w] \in Int /\ F[r + 1] \in Int
    OBVIOUS
  <2> QED BY <2>2, <2>3, <2>4, <2>5
<1>7. F[w + 1] \in Int /\ F[r + 1] \in Int
  OBVIOUS
<1>8. m <= w - r
  <2>1. CASE open
    BY <1>4, <1>5, <1>7, <2>1
  <2>2. CASE ~open /\ ~busy
    BY <1>4, <1>5, <1>7, <2>2
  <2>3. CASE ~open /\ busy
    <3>1. w > r
      BY <1>3, <1>4, <2>3
    <3> QED BY <1>4, <1>6, <1>7, <2>3, <3>1
  <2> QED BY <2>1, <2>2, <2>3
<1> QED BY <1>2, <1>3, <1>8

\* A beat is read: it is of the frame in force, which its last beat closes, and if that
\* frame is to be sent it is the first of those still to be.
LEMMA ReadExplained ==
    ASSUME NEW data, NEW meta, NEW dest, NEW q, NEW h, NEW busy, NEW j,
           Explained(data, meta, TRUE, dest, q, h, busy, j), data # <<>>
    PROVE  /\ dest # None => q # <<>> /\ Head(q) = Tag(Head(data), dest)
           /\ Explained(Tail(data), meta, ~Head(data).last, dest, Rest(q, dest # None), h, busy, j)
<1>1. PICK D \in [Int -> Beat], F \in [Int -> Int], S \in [Int -> Int],
           V \in [Int -> Verdict], r \in Int, w \in Int, g \in Int :
          /\ Kept(D, r, w, data, h) /\ Numbered(D, F, r, w)
          /\ Ranked(D, F, V, r, w, g, meta, TRUE, dest, h, busy, j)
          /\ Sorted(D, F, V, S, r, w, q)
  BY DEF Explained
<1>2. /\ data \in Seq(Beat) /\ meta \in Seq(Verdict) /\ q \in Seq(Sent) /\ h \in Seq(Beat)
      /\ busy \in BOOLEAN
  BY <1>1 DEF Explained, Sorted
<1>3. PICK n \in Nat, m \in Nat, l \in Nat : n = Len(data) /\ m = Len(meta) /\ l = Len(h)
  BY <1>2, LenProperties
<1>4. r <= w /\ w + l = r + n /\ n >= 1
  BY <1>1, <1>2, <1>3, EmptySeq DEF Kept
<1>5. /\ Head(data) = D[r + 1] /\ Head(data) \in Beat /\ Head(data).last \in BOOLEAN
      /\ Tail(data) \in Seq(Beat) /\ Len(Tail(data)) = n - 1
      /\ \A i \in 1 .. n - 1 : Tail(data)[i] = data[i + 1]
  <2>1. /\ Head(data) \in Beat /\ Tail(data) \in Seq(Beat) /\ Len(Tail(data)) = n - 1
        /\ \A i \in 1 .. Len(Tail(data)) : Tail(data)[i] = data[i + 1]
    BY <1>2, <1>3, HeadTailProperties
  <2>2. Head(data) = data[1] /\ data[1] = D[r + 1]
    BY <1>1, <1>2, <1>3, <1>4 DEF Kept
  <2>3. Head(data).last \in BOOLEAN
    BY <2>1 DEF Beat
  <2> QED BY <1>3, <2>1, <2>2, <2>3
<1>6. F[r + 1] = g /\ dest = V[g] /\ F[w + 1] = g + m + (IF busy THEN 0 ELSE 1)
  BY <1>1, <1>3 DEF Ranked
\* The header that is not judged is never read.
<1>7. r + 1 <= w
  <2>1. SUFFICES ASSUME r = w PROVE FALSE
    BY <1>4
  <2>2. g = g + m + (IF busy THEN 0 ELSE 1)
    BY <1>6, <2>1
  <2>3. busy
    BY <2>2
  <2>4. l = 0
    BY <1>1, <1>3, <2>3, EmptySeq DEF Ranked
  <2> QED BY <1>4, <2>1, <2>4
<1>8. S[r + 1] = S[r] + (IF dest = None THEN 0 ELSE 1)
  <2>1. r \in r .. w - 1
    BY <1>7
  <2> QED BY <1>1, <1>6, <2>1 DEF Sorted
<1>9. S[r] \in Int /\ S[r + 1] \in Int /\ S[w] \in Int /\ S[r + 1] <= S[w]
  <2>1. r + 1 \in r .. w /\ w \in r .. w
    BY <1>7
  <2>2. S[r + 1] <= S[w]
    BY <1>1, <1>7, <2>1 DEF Sorted
  <2> QED BY <2>2
<1>10. Len(q) = S[w] - S[r]
  BY <1>1 DEF Sorted
<1>11. ASSUME dest # None
       PROVE  q # <<>> /\ Head(q) = Tag(Head(data), dest)
  <2>1. Len(q) >= 1
    BY <1>8, <1>9, <1>10, <1>11
  <2>2. r + 1 \in r + 1 .. w /\ V[F[r + 1]] # None
    BY <1>6, <1>7, <1>11
  <2>3. q[S[r + 1] - S[r]] = Tag(D[r + 1], V[F[r + 1]])
    BY <1>1, <2>2 DEF Sorted
  <2>4. S[r + 1] - S[r] = 1
    BY <1>8, <1>9, <1>11
  <2>5. q[1] = Tag(D[r + 1], dest)
    BY <1>6, <2>3, <2>4
  <2>6. q # <<>> /\ Head(q) = q[1]
    BY <1>2, <2>1, EmptySeq
  <2> QED BY <1>5, <2>5, <2>6
<1>12. Kept(D, r + 1, w, Tail(data), h)
  <2>1. \A i \in 1 .. n - 1 : Tail(data)[i] = D[(r + 1) + i]
    <3> SUFFICES ASSUME NEW i \in 1 .. n - 1 PROVE Tail(data)[i] = D[(r + 1) + i]
      OBVIOUS
    <3>1. data[i + 1] = D[r + (i + 1)]
      BY <1>1, <1>3 DEF Kept
    <3>2. r + (i + 1) = (r + 1) + i
      OBVIOUS
    <3> QED BY <1>5, <3>1, <3>2
  <2>2. w + l = (r + 1) + (n - 1)
    BY <1>4
  <2>3. \A i \in 1 .. Len(h) : h[i] = D[w + i]
    BY <1>1 DEF Kept
  <2> QED BY <1>3, <1>5, <1>7, <2>1, <2>2, <2>3 DEF Kept
<1>13. Numbered(D, F, r + 1, w)
  <2>1. \A k \in (r + 1) + 1 .. w + 1 : k \in r + 1 .. w + 1
    OBVIOUS
  <2>2. \A k \in (r + 1) + 1 .. w : k \in r + 1 .. w
    OBVIOUS
  <2> QED BY <1>1, <2>1, <2>2 DEF Numbered
<1>14. Ranked(D, F, V, r + 1, w, g, meta, ~Head(data).last, dest, h, busy, j)
  <2>0. /\ Head(data).last \in BOOLEAN /\ Head(data).last = D[r + 1].last
        /\ Head(data).last <=> D[r + 1].last
    BY <1>5
  <2> DEFINE last == Head(data).last
             here == D[r + 1].last
  <2>b. last \in BOOLEAN /\ (last <=> here)
    BY <2>0
  <2>c. F[(r + 1) + 1] = F[r + 1] + (IF here THEN 1 ELSE 0)
    <3>1. r + 1 \in r + 1 .. w
      BY <1>7
    <3> QED BY <1>1, <3>1 DEF Numbered
  <2>d. w = r + 1 /\ busy => ~here
    <3>1. w > r => (D[w].last <=> ~busy)
      BY <1>1 DEF Ranked
    <3> QED BY <1>7, <3>1
  <2> HIDE DEF here
  <2> HIDE DEF last
  <2>2. F[(r + 1) + 1] = (IF ~last THEN g ELSE g + 1)
    <3>1. CASE last
      BY <1>6, <2>b, <2>c, <3>1
    <3>2. CASE ~last
      BY <1>6, <2>b, <2>c, <3>2
    <3> QED BY <3>1, <3>2
  <2>3. w = r + 1 /\ busy => ~last
    BY <2>b, <2>d
  <2>4. w > r + 1 => w > r
    OBVIOUS
  <2>5. Ranked(D, F, V, r + 1, w, g, meta, ~last, dest, h, busy, j)
    BY <1>1, <2>2, <2>3, <2>4 DEF Ranked
  <2> QED BY <2>5 DEF last
<1>s. PICK s0 \in Int, s1 \in Int, s2 \in Int : s0 = S[r] /\ s1 = S[r + 1] /\ s2 = S[w]
  BY <1>9
<1>a. PICK x \in Int, e \in Int : x = s1 - s0 /\ e = s2 - s1
  OBVIOUS
<1>b. Len(q) = e + x /\ x = (IF dest = None THEN 0 ELSE 1) /\ e >= 0
  <2>1. s1 = s0 + (IF dest = None THEN 0 ELSE 1) /\ s1 <= s2 /\ Len(q) = s2 - s0
    BY <1>8, <1>9, <1>10, <1>s
  <2> QED BY <1>a, <2>1
<1>15. /\ Rest(q, dest # None) \in Seq(Sent) /\ Len(Rest(q, dest # None)) = e
       /\ \A i \in 1 .. e : Rest(q, dest # None)[i] = q[i + x]
  <2>1. CASE dest # None
    <3>1. Rest(q, dest # None) = Tail(q) /\ q # <<>> /\ x = 1
      BY <1>b, <1>11, <2>1 DEF Rest
    <3>2. /\ Tail(q) \in Seq(Sent) /\ Len(Tail(q)) = Len(q) - 1
          /\ \A i \in 1 .. Len(Tail(q)) : Tail(q)[i] = q[i + 1]
      BY <1>2, <3>1, HeadTailProperties
    <3>3. Len(q) - 1 = e
      BY <1>b, <3>1
    <3> QED BY <3>1, <3>2, <3>3
  <2>2. CASE dest = None
    <3>1. Rest(q, dest # None) = q /\ x = 0 /\ Len(q) = e
      BY <1>b, <2>2 DEF Rest
    <3> QED BY <1>2, <3>1
  <2> QED BY <2>1, <2>2
<1>16. Sorted(D, F, V, S, r + 1, w, Rest(q, dest # None))
  <2>1. ASSUME NEW k \in (r + 1) + 1 .. w, V[F[k]] # None
        PROVE  Rest(q, dest # None)[S[k] - S[r + 1]] = Tag(D[k], V[F[k]])
    <3>1. k \in r + 1 .. w /\ k - 1 \in r .. w - 1 /\ k \in r .. w /\ r + 1 \in r .. w
          /\ k - 1 \in r .. w /\ w \in r .. w /\ r + 1 <= k - 1 /\ k <= w
      BY <1>7
    <3>2. q[S[k] - S[r]] = Tag(D[k], V[F[k]])
      BY <1>1, <2>1, <3>1 DEF Sorted
    <3>3. S[r + 1] <= S[k - 1] /\ S[k] <= S[w]
      BY <1>1, <3>1 DEF Sorted
    <3>4. PICK i \in Int : i = k - 1 /\ i + 1 = k
      OBVIOUS
    <3>5. S[i + 1] = S[i] + (IF V[F[i + 1]] = None THEN 0 ELSE 1)
      BY <1>1, <3>1, <3>4 DEF Sorted
    <3>6. S[k] = S[k - 1] + 1
      BY <2>1, <3>4, <3>5
    <3>7. S[k] \in Int /\ S[k - 1] \in Int
      OBVIOUS
    <3>8. S[k] - S[r + 1] \in 1 .. e /\ (S[k] - S[r + 1]) + x = S[k] - S[r]
      <4>1. PICK y \in Int : y = S[k]
        BY <3>7
      <4>2. s1 <= y - 1 /\ y <= s2
        BY <1>s, <3>3, <3>6, <3>7, <4>1
      <4>3. y - s1 \in 1 .. e /\ (y - s1) + x = y - s0
        BY <1>a, <4>2
      <4> QED BY <1>s, <4>1, <4>3
    <3> QED BY <1>15, <3>2, <3>8
  <2>2. \A k \in r + 1 .. w - 1 : k \in r .. w - 1
    OBVIOUS
  <2>3. \A k \in r + 1 .. w : k \in r .. w
    OBVIOUS
  <2>4. Len(Rest(q, dest # None)) = S[w] - S[r + 1]
    BY <1>s, <1>a, <1>15
  <2>5. Rest(q, dest # None) \in Seq(Sent)
    BY <1>15
  <2>6. \A k \in r + 1 .. w - 1 : S[k + 1] = S[k] + (IF V[F[k + 1]] = None THEN 0 ELSE 1)
    BY <1>1, <2>2 DEF Sorted
  <2>7. \A i, k \in r + 1 .. w : i <= k => S[i] <= S[k]
    BY <1>1, <2>3 DEF Sorted
  <2> QED BY <2>1, <2>4, <2>5, <2>6, <2>7 DEF Sorted
<1>17. Explained(Tail(data), meta, ~Head(data).last, dest, Rest(q, dest # None), h, busy, j)
  <2>1. (~Head(data).last) \in BOOLEAN /\ r + 1 \in Int
    OBVIOUS
  <2> QED BY <1>2, <1>5, <1>12, <1>13, <1>14, <1>15, <1>16, <2>1 DEF Explained
<1> QED BY <1>11, <1>17

\* The next verdict is taken, once the frame in force is closed.
LEMMA TakeExplained ==
    ASSUME NEW data, NEW meta, NEW dest, NEW q, NEW h, NEW busy, NEW j,
           Explained(data, meta, FALSE, dest, q, h, busy, j), meta # <<>>
    PROVE  Explained(data, Tail(meta), TRUE, Head(meta), q, h, busy, j)
<1>1. PICK D \in [Int -> Beat], F \in [Int -> Int], S \in [Int -> Int],
           V \in [Int -> Verdict], r \in Int, w \in Int, g \in Int :
          /\ Kept(D, r, w, data, h) /\ Numbered(D, F, r, w)
          /\ Ranked(D, F, V, r, w, g, meta, FALSE, dest, h, busy, j)
          /\ Sorted(D, F, V, S, r, w, q)
  BY DEF Explained
<1>2. /\ data \in Seq(Beat) /\ meta \in Seq(Verdict) /\ q \in Seq(Sent) /\ h \in Seq(Beat)
      /\ busy \in BOOLEAN
  BY <1>1 DEF Explained, Sorted
<1>3. PICK m \in Nat : m = Len(meta) /\ m >= 1
  BY <1>2, EmptySeq, LenProperties
<1>4. /\ Head(meta) = meta[1] /\ Tail(meta) \in Seq(Verdict) /\ Len(Tail(meta)) = m - 1
      /\ \A i \in 1 .. m - 1 : Tail(meta)[i] = meta[i + 1]
  BY <1>2, <1>3, HeadTailProperties
<1>5. \A i \in 1 .. m : meta[i] = V[g + i]
  BY <1>1, <1>3 DEF Ranked
<1>6. Head(meta) = V[g + 1]
  BY <1>3, <1>4, <1>5
<1>7. \A i \in 1 .. m - 1 : Tail(meta)[i] = V[(g + 1) + i]
  <2> SUFFICES ASSUME NEW i \in 1 .. m - 1 PROVE Tail(meta)[i] = V[(g + 1) + i]
    OBVIOUS
  <2>1. meta[i + 1] = V[g + (i + 1)]
    BY <1>5
  <2>2. g + (i + 1) = (g + 1) + i
    OBVIOUS
  <2> QED BY <1>4, <2>1, <2>2
<1>8. (g + 1) + (m - 1) = g + m
  OBVIOUS
<1>9. Ranked(D, F, V, r, w, g + 1, Tail(meta), TRUE, Head(meta), h, busy, j)
  <2>1. F[r + 1] = g + 1 /\ F[w + 1] = g + m + (IF busy THEN 0 ELSE 1)
    BY <1>1, <1>3 DEF Ranked
  <2> QED BY <1>1, <1>4, <1>6, <1>7, <1>8, <2>1 DEF Ranked
<1>10. g + 1 \in Int
  OBVIOUS
<1> QED BY <1>1, <1>2, <1>4, <1>9, <1>10 DEF Explained

\* A beat of a header comes.
LEMMA HeaderExplained ==
    ASSUME NEW data, NEW meta, NEW open, NEW dest, NEW q, NEW h, NEW j, NEW b \in Beat,
           Explained(data, meta, open, dest, q, h, FALSE, j)
    PROVE  Explained(Append(data, b), meta, open, dest, q, Append(h, b), FALSE, j)
<1>1. PICK D \in [Int -> Beat], F \in [Int -> Int], S \in [Int -> Int],
           V \in [Int -> Verdict], r \in Int, w \in Int, g \in Int :
          /\ Kept(D, r, w, data, h) /\ Numbered(D, F, r, w)
          /\ Ranked(D, F, V, r, w, g, meta, open, dest, h, FALSE, j)
          /\ Sorted(D, F, V, S, r, w, q)
  BY DEF Explained
<1>2. /\ data \in Seq(Beat) /\ meta \in Seq(Verdict) /\ q \in Seq(Sent) /\ h \in Seq(Beat)
      /\ open \in BOOLEAN
  BY <1>1 DEF Explained, Sorted
<1>3. PICK n \in Nat, l \in Nat : n = Len(data) /\ l = Len(h)
  BY <1>2, LenProperties
<1>4. r <= w /\ w + l = r + n
  BY <1>1, <1>3 DEF Kept
<1> DEFINE E == [D EXCEPT ![r + n + 1] = b]
<1>5. E \in [Int -> Beat] /\ E[r + n + 1] = b /\ \A k \in Int : k <= r + n => E[k] = D[k]
  OBVIOUS
<1> HIDE DEF E
<1>6. /\ Append(data, b) \in Seq(Beat) /\ Len(Append(data, b)) = n + 1
      /\ \A i \in 1 .. n : Append(data, b)[i] = data[i]
      /\ Append(data, b)[n + 1] = b
  BY <1>2, <1>3, AppendProperties
<1>7. /\ Append(h, b) \in Seq(Beat) /\ Len(Append(h, b)) = l + 1
      /\ \A i \in 1 .. l : Append(h, b)[i] = h[i]
      /\ Append(h, b)[l + 1] = b
  BY <1>2, <1>3, AppendProperties
<1>8. Kept(E, r, w, Append(data, b), Append(h, b))
  <2>1. ASSUME NEW i \in 1 .. n + 1 PROVE Append(data, b)[i] = E[r + i]
    <3>1. CASE i = n + 1
      BY <1>5, <1>6, <3>1
    <3>2. CASE i # n + 1
      <4>1. i \in 1 .. n /\ r + i <= r + n
        BY <3>2
      <4>2. data[i] = D[r + i]
        BY <1>1, <1>3, <4>1 DEF Kept
      <4> QED BY <1>5, <1>6, <4>1, <4>2
    <3> QED BY <3>1, <3>2
  <2>2. ASSUME NEW i \in 1 .. l + 1 PROVE Append(h, b)[i] = E[w + i]
    <3>1. CASE i = l + 1
      <4>1. w + i = r + n + 1
        BY <1>4, <3>1
      <4> QED BY <1>5, <1>7, <3>1, <4>1
    <3>2. CASE i # l + 1
      <4>1. i \in 1 .. l /\ w + i <= r + n
        BY <1>4, <3>2
      <4>2. h[i] = D[w + i]
        BY <1>1, <1>3, <4>1 DEF Kept
      <4> QED BY <1>5, <1>7, <4>1, <4>2
    <3> QED BY <3>1, <3>2
  <2>3. w + (l + 1) = r + (n + 1)
    BY <1>4
  <2> QED BY <1>4, <1>6, <1>7, <2>1, <2>2, <2>3 DEF Kept
<1>9. \A k \in r + 1 .. w : E[k] = D[k]
  BY <1>4, <1>5
<1>10. Numbered(E, F, r, w)
  BY <1>1, <1>9 DEF Numbered
<1>11. Ranked(E, F, V, r, w, g, meta, open, dest, Append(h, b), FALSE, j)
  <2>1. w > r => w \in r + 1 .. w
    OBVIOUS
  <2> QED BY <1>1, <1>9, <2>1 DEF Ranked
<1>12. Sorted(E, F, V, S, r, w, q)
  BY <1>1, <1>9 DEF Sorted
<1> QED BY <1>2, <1>5, <1>6, <1>7, <1>8, <1>10, <1>11, <1>12 DEF Explained

\* What a judged stretch h of a frame adds to what is to be sent.
Tags(h, v) == IF v = None THEN <<>> ELSE Tagged(h, v)

LEMMA TagsType ==
    ASSUME NEW h \in Seq(Beat), NEW v \in Verdict
    PROVE  /\ Tags(h, v) \in Seq(Sent) /\ Len(Tags(h, v)) = (IF v = None THEN 0 ELSE Len(h))
           /\ v # None => \A i \in 1 .. Len(h) : Tags(h, v)[i] = Tag(h[i], v)
<1>1. CASE v = None
  BY <1>1, EmptySeq DEF Tags
<1>2. CASE v # None
  <2>1. v \in Dest
    BY <1>2 DEF Verdict
  <2>2. PICK l \in Nat : l = Len(h)
    BY LenProperties
  <2>3. Tagged(h, v) = [i \in 1 .. l |-> Tag(h[i], v)]
    BY <2>2 DEF Tagged, Tag
  <2>4. \A i \in 1 .. l : Tag(h[i], v) \in Sent
    <3> SUFFICES ASSUME NEW i \in 1 .. l PROVE Tag(h[i], v) \in Sent
      OBVIOUS
    <3>1. h[i] \in Beat
      BY <2>2, ElementOfSeq
    <3> QED BY <2>1, <3>1 DEF Tag, Sent, Beat
  <2>5. Tagged(h, v) \in Seq(Sent) /\ Len(Tagged(h, v)) = l
    BY <2>3, <2>4, IsASeq
  <2> QED BY <1>2, <2>2, <2>3, <2>5 DEF Tags
<1> QED BY <1>1, <1>2

\* The beats of h follow w, and only the last of them may end a frame.
Block(D, w, h, l) ==
    /\ h \in Seq(Beat) /\ Len(h) = l /\ l >= 1
    /\ \A i \in 1 .. l : h[i] = D[w + i]
    /\ \A i \in 1 .. l - 1 : ~h[i].last

LEMMA BlockEnds ==
    ASSUME NEW D \in [Int -> Beat], NEW w \in Int, NEW l \in Nat, NEW h,
           Block(D, w, h, l)
    PROVE  /\ l >= 1 /\ D[w + l] = h[l]
           /\ \A k \in w + 1 .. w + l - 1 : ~D[k].last
<1>1. l >= 1 /\ D[w + l] = h[l]
  BY DEF Block
<1>2. ASSUME NEW k \in w + 1 .. w + l - 1 PROVE ~D[k].last
  <2>1. PICK i \in 1 .. l - 1 : k = w + i
    <3>1. k - w \in 1 .. l - 1 /\ k = w + (k - w)
      OBVIOUS
    <3> QED BY <3>1
  <2>2. i \in 1 .. l
    OBVIOUS
  <2>3. h[i] = D[k] /\ ~h[i].last
    BY <2>1, <2>2 DEF Block
  <2> QED BY <2>3
<1> QED BY <1>1, <1>2

\* They are numbered like those before.
LEMMA NumberedOn ==
    ASSUME NEW D \in [Int -> Beat], NEW F \in [Int -> Int], NEW r \in Int, NEW w \in Int,
           NEW l \in Nat, NEW h, r <= w, Block(D, w, h, l), Numbered(D, F, r, w)
    PROVE  \E G \in [Int -> Int] :
             /\ \A k \in Int : k <= w + 1 => G[k] = F[k]
             /\ \A k \in w + 1 .. w + l : G[k] = F[w + 1]
             /\ G[w + l + 1] = F[w + 1] + (IF h[l].last THEN 1 ELSE 0)
             /\ Numbered(D, G, r, w + l)
<1>1. PICK f \in Int, e \in 0 .. 1 : f = F[w + 1] /\ e = (IF h[l].last THEN 1 ELSE 0)
  <2>1. F[w + 1] \in Int /\ (IF h[l].last THEN 1 ELSE 0) \in 0 .. 1
    OBVIOUS
  <2> QED BY <2>1
<1>2. PICK G \in [Int -> Int] :
         \A k \in Int : G[k] = IF k <= w + 1 THEN F[k] ELSE IF k <= w + l THEN f ELSE f + e
  <2> DEFINE G == [k \in Int |-> IF k <= w + 1 THEN F[k] ELSE IF k <= w + l THEN f ELSE f + e]
  <2>1. \A k \in Int : (IF k <= w + 1 THEN F[k] ELSE IF k <= w + l THEN f ELSE f + e) \in Int
    OBVIOUS
  <2>2. G \in [Int -> Int]
    BY <2>1
  <2> QED BY <2>2
<1>3. /\ l >= 1 /\ D[w + l] = h[l]
      /\ \A k \in w + 1 .. w + l - 1 : ~D[k].last
  BY BlockEnds
<1>4. \A k \in Int : k <= w + 1 => G[k] = F[k]
  BY <1>2
<1>5. \A k \in w + 1 .. w + l : G[k] = f
  <2> SUFFICES ASSUME NEW k \in w + 1 .. w + l PROVE G[k] = f
    OBVIOUS
  <2>1. CASE k = w + 1
    BY <1>1, <1>2, <2>1
  <2>2. CASE k # w + 1
    BY <1>2, <2>2
  <2> QED BY <2>1, <2>2
<1>6. G[w + l + 1] = f + e
  <2>1. w + l + 1 \in Int /\ ~(w + l + 1 <= w + 1) /\ ~(w + l + 1 <= w + l)
    BY <1>3
  <2> QED BY <1>2, <2>1
<1>7. \A k \in r + 1 .. w + l : G[k + 1] = G[k] + (IF D[k].last THEN 1 ELSE 0)
  <2> SUFFICES ASSUME NEW k \in r + 1 .. w + l
               PROVE  G[k + 1] = G[k] + (IF D[k].last THEN 1 ELSE 0)
    OBVIOUS
  <2> k \in Int /\ k + 1 \in Int
    OBVIOUS
  <2>1. CASE k <= w
    <3>1. F[k + 1] = F[k] + (IF D[k].last THEN 1 ELSE 0)
      BY <2>1 DEF Numbered
    <3>2. G[k + 1] = F[k + 1] /\ G[k] = F[k]
      BY <1>4, <2>1
    <3> QED BY <3>1, <3>2
  <2>2. CASE k > w /\ k < w + l
    <3>1. k \in w + 1 .. w + l /\ k + 1 \in w + 1 .. w + l /\ k \in w + 1 .. w + l - 1
      BY <2>2
    <3>2. G[k] = f /\ G[k + 1] = f /\ ~D[k].last
      BY <1>3, <1>5, <3>1
    <3> QED BY <3>2
  <2>3. CASE k = w + l
    <3>1. k \in w + 1 .. w + l
      BY <1>3, <2>3
    <3>2. G[k] = f /\ G[k + 1] = f + e
      BY <1>5, <1>6, <2>3, <3>1
    <3>3. e = (IF D[k].last THEN 1 ELSE 0)
      BY <1>1, <1>3, <2>3
    <3> QED BY <3>2, <3>3
  <2> QED BY <2>1, <2>2, <2>3
<1>8. \A i, k \in r + 1 .. w + 1 : i <= k => F[i] <= F[k] /\ F[k] - F[i] <= k - i
  BY DEF Numbered
<1>9. ASSUME NEW i \in r + 1 .. w + l + 1, NEW k \in r + 1 .. w + l + 1, i <= k
      PROVE  G[i] <= G[k] /\ G[k] - G[i] <= k - i
  <2> i \in Int /\ k \in Int
    OBVIOUS
  <2>0. PICK x \in Int, y \in Int : x = G[i] /\ y = G[k]
    OBVIOUS
  <2>1. CASE k <= w + 1
    <3>1. i \in r + 1 .. w + 1 /\ k \in r + 1 .. w + 1
      BY <1>9, <2>1
    <3>2. G[i] = F[i] /\ G[k] = F[k]
      BY <1>4, <1>9, <2>1
    <3> QED BY <1>8, <1>9, <3>1, <3>2
  <2>2. CASE i <= w + 1 /\ k > w + 1
    <3>1. i \in r + 1 .. w + 1 /\ w + 1 \in r + 1 .. w + 1
      BY <2>2
    <3>2. F[i] <= F[w + 1] /\ F[w + 1] - F[i] <= (w + 1) - i
      BY <1>8, <2>2, <3>1
    <3>3. x <= f /\ f - x <= (w + 1) - i
      BY <1>1, <1>4, <2>0, <2>2, <3>2
    <3>4. y = (IF k <= w + l THEN f ELSE f + e)
      BY <1>2, <2>0, <2>2
    <3>5. x <= y /\ y - x <= k - i
      BY <2>2, <3>3, <3>4
    <3> QED BY <2>0, <3>5
  <2>3. CASE i > w + 1
    <3>1. /\ x = (IF i <= w + l THEN f ELSE f + e)
          /\ y = (IF k <= w + l THEN f ELSE f + e)
      BY <1>2, <1>9, <2>0, <2>3
    <3>2. x <= y /\ y - x <= k - i
      BY <1>9, <3>1
    <3> QED BY <2>0, <3>2
  <2> QED BY <2>1, <2>2, <2>3
<1>10. Numbered(D, G, r, w + l)
  BY <1>7, <1>9 DEF Numbered
<1> QED BY <1>1, <1>4, <1>5, <1>6, <1>10

\* And they are sorted, all alike.
LEMMA SortedOn ==
    ASSUME NEW D \in [Int -> Beat], NEW F \in [Int -> Int], NEW S \in [Int -> Int],
           NEW V \in [Int -> Verdict], NEW r \in Int, NEW w \in Int, NEW l \in Nat,
           NEW h, NEW v \in Verdict, NEW q, r <= w, Block(D, w, h, l), \A k \in w + 1 .. w + l : V[F[k]] = v,
           Sorted(D, F, V, S, r, w, q)
    PROVE  \E T \in [Int -> Int] : Sorted(D, F, V, T, r, w + l, q \o Tags(h, v))
<1>1. PICK s \in Int, a \in Int : s = S[w] /\ a = S[r]
  OBVIOUS
<1>2. PICK T \in [Int -> Int] :
         \A k \in Int : T[k] = IF k <= w THEN S[k] ELSE IF v = None THEN s ELSE s + (k - w)
  <2> DEFINE T == [k \in Int |-> IF k <= w THEN S[k] ELSE IF v = None THEN s ELSE s + (k - w)]
  <2>1. \A k \in Int : (IF k <= w THEN S[k] ELSE IF v = None THEN s ELSE s + (k - w)) \in Int
    OBVIOUS
  <2>2. T \in [Int -> Int]
    BY <2>1
  <2> QED BY <2>2
<1>3. \A k \in Int : k <= w => T[k] = S[k]
  BY <1>2
<1>4. \A k \in w .. w + l : T[k] = IF v = None THEN s ELSE s + (k - w)
  <2> SUFFICES ASSUME NEW k \in w .. w + l PROVE T[k] = IF v = None THEN s ELSE s + (k - w)
    OBVIOUS
  <2> k \in Int
    OBVIOUS
  <2>1. CASE k = w
    <3>1. T[k] = s /\ k - w = 0
      BY <1>1, <1>2, <2>1
    <3> QED BY <3>1
  <2>2. CASE k # w
    BY <1>2, <2>2
  <2> QED BY <2>1, <2>2
<1>5. /\ Len(q) = S[w] - S[r]
      /\ \A k \in r .. w - 1 : S[k + 1] = S[k] + (IF V[F[k + 1]] = None THEN 0 ELSE 1)
      /\ \A i, k \in r .. w : i <= k => S[i] <= S[k]
      /\ \A k \in r + 1 .. w : V[F[k]] # None => q[S[k] - S[r]] = Tag(D[k], V[F[k]])
  BY DEF Sorted
<1>6. l >= 1 /\ Len(h) = l /\ \A i \in 1 .. l : h[i] = D[w + i]
  BY DEF Block
<1>7. \A k \in r .. w + l - 1 : T[k + 1] = T[k] + (IF V[F[k + 1]] = None THEN 0 ELSE 1)
  <2> SUFFICES ASSUME NEW k \in r .. w + l - 1
               PROVE  T[k + 1] = T[k] + (IF V[F[k + 1]] = None THEN 0 ELSE 1)
    OBVIOUS
  <2> k \in Int /\ k + 1 \in Int
    OBVIOUS
  <2>1. CASE k < w
    <3>0. k \in r .. w - 1
      BY <2>1
    <3>1. S[k + 1] = S[k] + (IF V[F[k + 1]] = None THEN 0 ELSE 1)
      BY <1>5, <3>0
    <3>2. T[k + 1] = S[k + 1] /\ T[k] = S[k]
      BY <1>3, <2>1
    <3> QED BY <3>1, <3>2
  <2>2. CASE k >= w
    <3>1. k \in w .. w + l /\ k + 1 \in w .. w + l /\ k + 1 \in w + 1 .. w + l
      BY <2>2
    <3>2. V[F[k + 1]] = v
      BY <3>1
    <3>3. T[k] = (IF v = None THEN s ELSE s + (k - w))
      BY <1>4, <3>1
    <3>4. T[k + 1] = (IF v = None THEN s ELSE s + ((k + 1) - w))
      BY <1>4, <3>1
    <3>5. s + ((k + 1) - w) = (s + (k - w)) + 1 /\ s + 0 = s
      OBVIOUS
    <3> QED BY <3>2, <3>3, <3>4, <3>5
  <2> QED BY <2>1, <2>2
<1>8. ASSUME NEW i \in r .. w + l, NEW k \in r .. w + l, i <= k
      PROVE  T[i] <= T[k]
  <2> i \in Int /\ k \in Int
    OBVIOUS
  <2>0. PICK x \in Int, y \in Int : x = T[i] /\ y = T[k]
    OBVIOUS
  <2>1. CASE k <= w
    <3>1. i \in r .. w /\ k \in r .. w /\ T[i] = S[i] /\ T[k] = S[k]
      BY <1>3, <1>8, <2>1
    <3> QED BY <1>5, <1>8, <3>1
  <2>2. CASE i <= w /\ k > w
    <3>1. i \in r .. w /\ w \in r .. w /\ k \in w .. w + l
      BY <2>2
    <3>2. x <= s
      BY <1>1, <1>3, <1>5, <2>0, <2>2, <3>1
    <3>3. y = (IF v = None THEN s ELSE s + (k - w))
      BY <1>4, <2>0, <3>1
    <3>4. x <= y
      BY <2>2, <3>2, <3>3
    <3> QED BY <2>0, <3>4
  <2>3. CASE i > w
    <3>1. i \in w .. w + l /\ k \in w .. w + l
      BY <1>8, <2>3
    <3>2. /\ x = (IF v = None THEN s ELSE s + (i - w))
          /\ y = (IF v = None THEN s ELSE s + (k - w))
      BY <1>4, <2>0, <3>1
    <3>3. x <= y
      BY <1>8, <3>2
    <3> QED BY <2>0, <3>3
  <2> QED BY <2>1, <2>2, <2>3
<1>9. PICK m \in Nat : m = Len(q) /\ m = s - a
  <2>1. q \in Seq(Sent)
    BY DEF Sorted
  <2>2. Len(q) \in Nat
    BY <2>1, LenProperties
  <2> QED BY <1>1, <1>5, <2>2
<1>10. T[r] = a /\ T[w + l] = (IF v = None THEN s ELSE s + l)
  <2>1. w + l \in w .. w + l /\ (w + l) - w = l /\ r <= w
    OBVIOUS
  <2>2. T[r] = a
    BY <1>1, <1>3
  <2>3. T[w + l] = (IF v = None THEN s ELSE s + ((w + l) - w))
    BY <1>4, <2>1
  <2> QED BY <2>1, <2>2, <2>3
<1>11. /\ Tags(h, v) \in Seq(Sent) /\ Len(Tags(h, v)) = (IF v = None THEN 0 ELSE l)
       /\ v # None => \A i \in 1 .. l : Tags(h, v)[i] = Tag(h[i], v)
  <2>1. h \in Seq(Beat)
    BY DEF Block
  <2> QED BY <1>6, <2>1, TagsType
<1>12. PICK t \in Nat : t = Len(Tags(h, v)) /\ t = (IF v = None THEN 0 ELSE l)
  BY <1>11
<1>13. /\ q \o Tags(h, v) \in Seq(Sent) /\ Len(q \o Tags(h, v)) = m + t
       /\ \A i \in 1 .. m + t : (q \o Tags(h, v))[i] =
                                   IF i <= m THEN q[i] ELSE Tags(h, v)[i - m]
  <2>1. Tags(h, v) \in Seq(Sent)
    BY <1>11
  <2> DEFINE y == Tags(h, v)
  <2> HIDE DEF y
  <2>2. y \in Seq(Sent) /\ Len(y) = t
    BY <1>12, <2>1 DEF y
  <2>3. /\ q \o y \in Seq(Sent) /\ Len(q \o y) = m + t
        /\ \A i \in 1 .. m + t : (q \o y)[i] = IF i <= m THEN q[i] ELSE y[i - m]
    <3>1. q \in Seq(Sent)
      BY DEF Sorted
    <3>2. /\ q \o y \in Seq(Sent) /\ Len(q \o y) = Len(q) + Len(y)
          /\ \A i \in 1 .. Len(q) + Len(y) :
                (q \o y)[i] = IF i <= Len(q) THEN q[i] ELSE y[i - Len(q)]
      BY <2>2, <3>1, ConcatProperties
    <3> QED BY <1>9, <2>2, <3>2
  <2> QED BY <2>3 DEF y
<1> DEFINE z == q \o Tags(h, v)
<1>14. /\ Len(z) = m + t /\ \A i \in 1 .. m : z[i] = q[i]
       /\ v # None => \A i \in 1 .. l : z[m + i] = Tag(h[i], v)
  <2>1. \A i \in 1 .. m : i \in 1 .. m + t /\ i <= m
    OBVIOUS
  <2>2. ASSUME v # None, NEW i \in 1 .. l PROVE z[m + i] = Tag(h[i], v)
    <3>1. m + i \in 1 .. m + t /\ ~(m + i <= m) /\ (m + i) - m = i
      BY <1>12, <2>2
    <3>2. z[m + i] = Tags(h, v)[(m + i) - m]
      BY <1>13, <3>1
    <3> QED BY <1>11, <2>2, <3>1, <3>2
  <2> QED BY <1>13, <2>1, <2>2
<1> HIDE DEF z
<1>15. Len(z) = T[w + l] - T[r]
  <2>1. m + t = (IF v = None THEN s ELSE s + l) - a
    BY <1>9, <1>12
  <2> QED BY <1>10, <1>14, <2>1
<1>16. ASSUME NEW k \in r + 1 .. w + l, V[F[k]] # None
       PROVE  z[T[k] - T[r]] = Tag(D[k], V[F[k]])
  <2> k \in Int
    OBVIOUS
  <2>1. CASE k <= w
    <3>1. T[k] = S[k] /\ k \in r + 1 .. w
      BY <1>3, <2>1
    <3>2. q[S[k] - S[r]] = Tag(D[k], V[F[k]])
      BY <1>5, <1>16, <3>1
    <3>3. PICK i \in Int : i = k - 1 /\ i + 1 = k
      OBVIOUS
    <3>4. i \in r .. w - 1 /\ i \in r .. w /\ r \in r .. w /\ k \in r .. w /\ w \in r .. w
          /\ r <= i /\ k <= w
      BY <3>1, <3>3
    <3>5. S[i + 1] = S[i] + (IF V[F[i + 1]] = None THEN 0 ELSE 1)
      BY <1>5, <3>4
    <3>6. S[r] <= S[i] /\ S[k] <= S[w]
      BY <1>5, <3>4
    <3>7. PICK x \in Int, y \in Int : x = S[i] /\ y = S[k]
      OBVIOUS
    <3>8. y = x + 1
      BY <1>16, <3>3, <3>5, <3>7
    <3>9. a <= x /\ y <= s
      BY <1>1, <3>6, <3>7
    <3>10. y - a \in 1 .. m
      BY <1>9, <3>8, <3>9
    <3>11. q[y - a] = Tag(D[k], V[F[k]]) /\ T[k] - T[r] = y - a
      BY <1>1, <1>10, <3>1, <3>2, <3>7
    <3> QED BY <1>14, <3>10, <3>11
  <2>2. CASE k > w
    <3>1. k \in w + 1 .. w + l /\ k \in w .. w + l
      BY <2>2
    <3>2. V[F[k]] = v /\ v # None
      BY <1>16, <3>1
    <3>3. T[k] = s + (k - w)
      BY <1>4, <3>1, <3>2
    <3>4. PICK i \in 1 .. l : k = w + i
      <4>1. k - w \in 1 .. l /\ k = w + (k - w)
        BY <3>1
      <4> QED BY <4>1
    <3>5. T[k] - T[r] = m + i
      <4>1. (s + (k - w)) - a = m + i
        BY <1>9, <3>4
      <4> QED BY <1>10, <3>3, <4>1
    <3>6. h[i] = D[k]
      BY <1>6, <3>4
    <3> QED BY <1>14, <3>2, <3>5, <3>6
  <2> QED BY <2>1, <2>2
<1>17. Sorted(D, F, V, T, r, w + l, z)
  <2>1. z \in Seq(Sent)
    BY <1>13 DEF z
  <2> QED BY <1>7, <1>8, <1>15, <1>16, <2>1 DEF Sorted
<1> QED BY <1>17 DEF z

\* The frame that arrives is judged: its header h goes with what was judged before, and its
\* verdict waits behind the others.
LEMMA JudgeExplained ==
    ASSUME NEW data, NEW meta, NEW open, NEW dest, NEW q, NEW h, NEW j, NEW v \in Verdict,
           Explained(data, meta, open, dest, q, h, FALSE, j), h # <<>>,
           \A i \in 1 .. Len(h) - 1 : ~h[i].last
    PROVE  Explained(data, Append(meta, v), open, dest, q \o Tags(h, v), <<>>,
                     ~h[Len(h)].last, v)
<1>1. PICK D \in [Int -> Beat], F \in [Int -> Int], S \in [Int -> Int],
           V \in [Int -> Verdict], r \in Int, w \in Int, g \in Int :
          /\ Kept(D, r, w, data, h) /\ Numbered(D, F, r, w)
          /\ Ranked(D, F, V, r, w, g, meta, open, dest, h, FALSE, j)
          /\ Sorted(D, F, V, S, r, w, q)
  BY DEF Explained
<1>2. /\ data \in Seq(Beat) /\ meta \in Seq(Verdict) /\ h \in Seq(Beat)
      /\ open \in BOOLEAN
  BY DEF Explained
<1>3. PICK m \in Nat, l \in Nat : m = Len(meta) /\ l = Len(h) /\ l >= 1
  BY <1>2, LenProperties, EmptySeq
<1>4. r <= w /\ w + l = r + Len(data) /\ \A i \in 1 .. l : h[i] = D[w + i]
  BY <1>1, <1>3 DEF Kept
<1>5. Block(D, w, h, l)
  BY <1>2, <1>3, <1>4 DEF Block
<1>6. PICK x \in Int : x = F[w + 1]
  OBVIOUS
<1>7. /\ F[r + 1] = (IF open THEN g ELSE g + 1)
      /\ x = g + m + 1
      /\ \A i \in 1 .. m : meta[i] = V[g + i]
      /\ open => dest = V[g]
      /\ w > r => D[w].last
  BY <1>1, <1>3, <1>6 DEF Ranked
\* No frame before it has its number.
<1>8. ASSUME NEW k \in r + 1 .. w PROVE F[k] < x
  <2> k \in Int /\ k \in r + 1 .. w + 1 /\ w \in r + 1 .. w + 1 /\ w \in r + 1 .. w /\ k <= w
    OBVIOUS
  <2>1. F[k] <= F[w]
    BY <1>1 DEF Numbered
  <2>2. F[w + 1] = F[w] + (IF D[w].last THEN 1 ELSE 0)
    BY <1>1 DEF Numbered
  <2>3. D[w].last
    BY <1>4, <1>7
  <2>4. PICK a \in Int, b \in Int : a = F[k] /\ b = F[w]
    OBVIOUS
  <2> QED BY <1>6, <2>1, <2>2, <2>3, <2>4
<1>9. PICK W \in [Int -> Verdict] : W[x] = v /\ \A k \in Int : k # x => W[k] = V[k]
  <2> DEFINE W == [V EXCEPT ![x] = v]
  <2>1. W \in [Int -> Verdict] /\ W[x] = v /\ \A k \in Int : k # x => W[k] = V[k]
    OBVIOUS
  <2> QED BY <2>1
<1>10. ASSUME NEW k \in r + 1 .. w PROVE W[F[k]] = V[F[k]]
  <2> k \in Int
    OBVIOUS
  <2>1. PICK a \in Int : a = F[k]
    OBVIOUS
  <2> QED BY <1>8, <1>9, <2>1
<1>11. Sorted(D, F, W, S, r, w, q)
  <2>1. ASSUME NEW k \in r .. w - 1
        PROVE  S[k + 1] = S[k] + (IF W[F[k + 1]] = None THEN 0 ELSE 1)
    <3> k \in Int /\ k + 1 \in r + 1 .. w
      OBVIOUS
    <3> QED BY <1>1, <1>10 DEF Sorted
  <2> QED BY <1>1, <1>10, <2>1 DEF Sorted
<1>12. PICK G \in [Int -> Int] :
         /\ \A k \in Int : k <= w + 1 => G[k] = F[k]
         /\ \A k \in w + 1 .. w + l : G[k] = F[w + 1]
         /\ G[w + l + 1] = F[w + 1] + (IF h[l].last THEN 1 ELSE 0)
         /\ Numbered(D, G, r, w + l)
  BY <1>1, <1>4, <1>5, NumberedOn
<1>13. \A k \in w + 1 .. w + l : W[G[k]] = v
  BY <1>6, <1>9, <1>12
<1>14. Sorted(D, G, W, S, r, w, q)
  <2>1. ASSUME NEW k \in r .. w - 1 PROVE G[k + 1] = F[k + 1]
    <3> k \in Int /\ k + 1 <= w + 1
      OBVIOUS
    <3> QED BY <1>12
  <2>2. ASSUME NEW k \in r + 1 .. w PROVE G[k] = F[k]
    <3> k \in Int /\ k <= w + 1
      OBVIOUS
    <3> QED BY <1>12
  <2> QED BY <1>11, <2>1, <2>2 DEF Sorted
<1>15. PICK T \in [Int -> Int] : Sorted(D, G, W, T, r, w + l, q \o Tags(h, v))
  BY <1>4, <1>5, <1>13, <1>14, SortedOn
<1>16. /\ Append(meta, v) \in Seq(Verdict) /\ Len(Append(meta, v)) = m + 1
       /\ \A i \in 1 .. m : Append(meta, v)[i] = meta[i]
       /\ Append(meta, v)[m + 1] = v
  BY <1>2, <1>3, AppendProperties
<1>17. Kept(D, r, w + l, data, <<>>)
  <2>1. r <= w + l /\ (w + l) + 0 = r + Len(data) /\ Len(<<>>) = 0
    BY <1>4
  <2>2. \A i \in 1 .. Len(data) : data[i] = D[r + i]
    BY <1>1 DEF Kept
  <2>3. \A i \in 1 .. 0 : <<>>[i] = D[(w + l) + i]
    OBVIOUS
  <2> QED BY <2>1, <2>2, <2>3 DEF Kept
<1> DEFINE last == h[l].last
<1>18. last \in BOOLEAN /\ (D[w + l].last <=> last) /\ D[w + l] = h[l]
  <2>1. h[l] \in Beat
    BY <1>2, <1>3, ElementOfSeq
  <2>2. D[w + l] = h[l]
    BY <1>3, <1>4
  <2> QED BY <2>1, <2>2 DEF Beat
<1>19. G[w + l + 1] = x + (IF last THEN 1 ELSE 0)
  BY <1>6, <1>12
<1> HIDE DEF last
<1>20. Ranked(D, G, W, r, w + l, g, Append(meta, v), open, dest, <<>>, ~last, v)
  <2>1. G[r + 1] = (IF open THEN g ELSE g + 1)
    <3>1. r + 1 \in Int /\ r + 1 <= w + 1
      BY <1>4
    <3> QED BY <1>7, <1>12, <3>1
  <2>2. G[w + l + 1] = g + (m + 1) + (IF ~last THEN 0 ELSE 1)
    BY <1>7, <1>18, <1>19
  <2>3. \A i \in 1 .. m + 1 : Append(meta, v)[i] = W[g + i]
    <3> SUFFICES ASSUME NEW i \in 1 .. m + 1 PROVE Append(meta, v)[i] = W[g + i]
      OBVIOUS
    <3>1. CASE i = m + 1
      <4>1. g + i = x
        BY <1>7, <3>1
      <4> QED BY <1>9, <1>16, <3>1, <4>1
    <3>2. CASE i # m + 1
      <4>1. i \in 1 .. m /\ g + i \in Int /\ g + i # x
        BY <1>7, <3>2
      <4>2. W[g + i] = V[g + i]
        BY <1>9, <4>1
      <4> QED BY <1>7, <1>16, <4>1, <4>2
    <3> QED BY <3>1, <3>2
  <2>4. open => dest = W[g]
    <3>1. g # x
      BY <1>7
    <3> QED BY <1>7, <1>9, <3>1
  <2>5. ~last => v = W[G[(w + l) + 1]]
    <3>1. ~last => G[w + l + 1] = x
      BY <1>19
    <3> QED BY <1>9, <3>1
  <2>6. w + l > r /\ (D[w + l].last <=> ~(~last))
    BY <1>3, <1>4, <1>18
  <2>7. /\ \A i \in 1 .. Len(Append(meta, v)) : Append(meta, v)[i] = W[g + i]
        /\ G[w + l + 1] = g + Len(Append(meta, v)) + (IF ~last THEN 0 ELSE 1)
    BY <1>16, <2>2, <2>3
  <2> DEFINE busy == ~last
  <2>8. /\ D[w + l].last <=> ~busy
        /\ busy => v = W[G[(w + l) + 1]]
        /\ G[(w + l) + 1] = g + Len(Append(meta, v)) + (IF busy THEN 0 ELSE 1)
    BY <2>5, <2>6, <2>7
  <2> HIDE DEF busy
  <2>9. \A i \in 1 .. Len(Append(meta, v)) : Append(meta, v)[i] = W[g + i]
    BY <2>7
  <2>10. w + l > r /\ ~(w + l = r)
    BY <2>6
  <2>11. Ranked(D, G, W, r, w + l, g, Append(meta, v), open, dest, <<>>, busy, v)
    BY <2>1, <2>4, <2>8, <2>9, <2>10 DEF Ranked
  <2> QED BY <2>11 DEF busy
<1>21. Explained(data, Append(meta, v), open, dest, q \o Tags(h, v), <<>>, ~last, v)
  <2>1. w + l \in Int /\ (~last) \in BOOLEAN /\ <<>> \in Seq(Beat)
    BY EmptySeq
  <2> QED BY <1>1, <1>2, <1>12, <1>15, <1>16, <1>17, <1>20, <2>1 DEF Explained
<1> QED BY <1>3, <1>21 DEF last

\* A beat comes after the header of its frame, and is judged like it.
LEMMA BodyExplained ==
    ASSUME NEW data, NEW meta, NEW open, NEW dest, NEW q, NEW h, NEW j, NEW b \in Beat,
           Explained(data, meta, open, dest, q, h, TRUE, j), j \in Verdict
    PROVE  Explained(Append(data, b), meta, open, dest, q \o Tags(<<b>>, j), <<>>, ~b.last, j)
<1>1. PICK D \in [Int -> Beat], F \in [Int -> Int], S \in [Int -> Int],
           V \in [Int -> Verdict], r \in Int, w \in Int, g \in Int :
          /\ Kept(D, r, w, data, h) /\ Numbered(D, F, r, w)
          /\ Ranked(D, F, V, r, w, g, meta, open, dest, h, TRUE, j)
          /\ Sorted(D, F, V, S, r, w, q)
  BY DEF Explained
<1>2. /\ data \in Seq(Beat) /\ meta \in Seq(Verdict) /\ h = <<>>
      /\ open \in BOOLEAN
  BY <1>1 DEF Explained, Ranked
<1>3. PICK n \in Nat : n = Len(data)
  BY <1>2, LenProperties
<1>4. r <= w /\ w = r + n
  <2>1. Len(<<>>) = 0
    BY EmptySeq
  <2> QED BY <1>1, <1>2, <1>3, <2>1 DEF Kept
<1>5. PICK E \in [Int -> Beat] : E[w + 1] = b /\ \A k \in Int : k <= w => E[k] = D[k]
  <2> DEFINE E == [D EXCEPT ![w + 1] = b]
  <2>1. E \in [Int -> Beat] /\ E[w + 1] = b /\ \A k \in Int : k <= w => E[k] = D[k]
    OBVIOUS
  <2> QED BY <2>1
<1>6. ASSUME NEW k \in r + 1 .. w PROVE E[k] = D[k]
  <2> k \in Int /\ k <= w
    OBVIOUS
  <2> QED BY <1>5
<1>7. Numbered(E, F, r, w) /\ Sorted(E, F, V, S, r, w, q)
  <2>1. Numbered(E, F, r, w)
    BY <1>1, <1>6 DEF Numbered
  <2>2. Sorted(E, F, V, S, r, w, q)
    BY <1>1, <1>6 DEF Sorted
  <2> QED BY <2>1, <2>2
<1>8. <<b>> \in Seq(Beat) /\ Len(<<b>>) = 1 /\ <<b>>[1] = b
  OBVIOUS
<1>9. Block(E, w, <<b>>, 1)
  <2>1. \A i \in 1 .. 1 : <<b>>[i] = E[w + i]
    BY <1>5
  <2>2. \A i \in 1 .. 1 - 1 : ~<<b>>[i].last
    OBVIOUS
  <2> QED BY <1>8, <2>1, <2>2 DEF Block
<1> DEFINE last == b.last
<1>10. PICK G \in [Int -> Int] :
         /\ \A k \in Int : k <= w + 1 => G[k] = F[k]
         /\ \A k \in w + 1 .. w + 1 : G[k] = F[w + 1]
         /\ G[w + 1 + 1] = F[w + 1] + (IF <<b>>[1].last THEN 1 ELSE 0)
         /\ Numbered(E, G, r, w + 1)
  <2>1. PICK l \in Nat : l = 1
    OBVIOUS
  <2>2. PICK h1 : h1 = <<b>> /\ Block(E, w, h1, l)
    BY <1>9, <2>1
  <2>3. \E G \in [Int -> Int] :
           /\ \A k \in Int : k <= w + 1 => G[k] = F[k]
           /\ \A k \in w + 1 .. w + l : G[k] = F[w + 1]
           /\ G[w + l + 1] = F[w + 1] + (IF h1[l].last THEN 1 ELSE 0)
           /\ Numbered(E, G, r, w + l)
    <3>1. Numbered(E, F, r, w) /\ Block(E, w, h1, l) /\ r <= w
      BY <1>4, <1>7, <2>2
    <3> QED BY <3>1, NumberedOn
  <2> QED BY <2>1, <2>2, <2>3
<1>11. j = V[F[w + 1]]
  BY <1>1 DEF Ranked
<1>12. \A k \in w + 1 .. w + 1 : V[G[k]] = j
  BY <1>10, <1>11
<1>13. Sorted(E, G, V, S, r, w, q)
  <2>1. ASSUME NEW k \in r .. w - 1 PROVE G[k + 1] = F[k + 1]
    <3> k \in Int /\ k + 1 <= w + 1
      OBVIOUS
    <3> QED BY <1>10
  <2>2. ASSUME NEW k \in r + 1 .. w PROVE G[k] = F[k]
    <3> k \in Int /\ k <= w + 1
      OBVIOUS
    <3> QED BY <1>10
  <2> QED BY <1>7, <2>1, <2>2 DEF Sorted
<1>14. PICK T \in [Int -> Int] : Sorted(E, G, V, T, r, w + 1, q \o Tags(<<b>>, j))
  <2>1. 1 \in Nat
    OBVIOUS
  <2> QED BY <1>4, <1>9, <1>12, <1>13, <2>1, SortedOn
<1>15. /\ Append(data, b) \in Seq(Beat) /\ Len(Append(data, b)) = n + 1
       /\ \A i \in 1 .. n : Append(data, b)[i] = data[i]
       /\ Append(data, b)[n + 1] = b
  BY <1>2, <1>3, AppendProperties
<1>16. Kept(E, r, w + 1, Append(data, b), <<>>)
  <2>1. r <= w + 1 /\ (w + 1) + 0 = r + (n + 1) /\ Len(<<>>) = 0
    BY <1>4
  <2>2. \A i \in 1 .. n + 1 : Append(data, b)[i] = E[r + i]
    <3> SUFFICES ASSUME NEW i \in 1 .. n + 1 PROVE Append(data, b)[i] = E[r + i]
      OBVIOUS
    <3>1. CASE i = n + 1
      <4>1. r + i = w + 1
        BY <1>4, <3>1
      <4> QED BY <1>5, <1>15, <3>1, <4>1
    <3>2. CASE i # n + 1
      <4>1. i \in 1 .. n /\ r + i \in Int /\ r + i <= w
        BY <1>4, <3>2
      <4>2. data[i] = D[r + i]
        BY <1>1, <1>3, <4>1 DEF Kept
      <4>3. E[r + i] = D[r + i]
        BY <1>5, <4>1
      <4> QED BY <1>15, <4>1, <4>2, <4>3
    <3> QED BY <3>1, <3>2
  <2>3. \A i \in 1 .. 0 : <<>>[i] = E[(w + 1) + i]
    OBVIOUS
  <2> QED BY <1>15, <2>1, <2>2, <2>3 DEF Kept
<1>17. last \in BOOLEAN /\ (E[w + 1].last <=> last)
  BY <1>5 DEF Beat
<1>18. G[w + 1 + 1] = F[w + 1] + (IF last THEN 1 ELSE 0)
  BY <1>8, <1>10
<1> HIDE DEF last
<1>19. Ranked(E, G, V, r, w + 1, g, meta, open, dest, <<>>, ~last, j)
  <2>1. /\ F[r + 1] = (IF open THEN g ELSE g + 1)
        /\ F[w + 1] = g + Len(meta) + 0
        /\ \A i \in 1 .. Len(meta) : meta[i] = V[g + i]
        /\ open => dest = V[g]
    BY <1>1 DEF Ranked
  <2>2. PICK m \in Nat : m = Len(meta)
    BY <1>2, LenProperties
  <2>3. G[r + 1] = F[r + 1]
    <3>1. r + 1 \in Int /\ r + 1 <= w + 1
      BY <1>4
    <3> QED BY <1>10, <3>1
  <2>4. G[w + 1 + 1] = g + m + (IF ~last THEN 0 ELSE 1)
    BY <1>17, <1>18, <2>1, <2>2
  <2>5. ~last => j = V[G[(w + 1) + 1]]
    <3>1. ~last => G[w + 1 + 1] = F[w + 1]
      BY <1>18
    <3> QED BY <1>11, <3>1
  <2>6. w + 1 > r
    BY <1>4
  <2> QED BY <1>17, <2>1, <2>2, <2>3, <2>4, <2>5, <2>6 DEF Ranked
<1>20. Explained(Append(data, b), meta, open, dest, q \o Tags(<<b>>, j), <<>>, ~last, j)
  <2>1. w + 1 \in Int /\ (~last) \in BOOLEAN /\ <<>> \in Seq(Beat)
    BY EmptySeq
  <2> QED BY <1>2, <1>5, <1>10, <1>14, <1>15, <1>16, <1>19, <2>1 DEF Explained
<1> QED BY <1>20 DEF last
-----------------------------------------------------------------------------
(* The header, and the verdict on it.                                       *)

\* Among the entries that match one is the lowest, and it names a destination.
LEMMA MatchType == ASSUME NEW addr PROVE match(addr) \in Verdict
<1> DEFINE hits == {k \in DOMAIN Table : Table[k][1] = addr}
           Below(p) == {k \in hits : k < p}
           Family == {Below(p) : p \in hits}
<1>1. PICK n \in Nat : n = Len(Table)
  BY ClassifierAssumption, LenProperties
<1>2. /\ DOMAIN Table = 1 .. n /\ \A k \in 1 .. n : Table[k] \in Address \X Dest
  BY <1>1, ClassifierAssumption, LenProperties, ElementOfSeq
<1>3. CASE hits = {}
  BY <1>3 DEF match, Verdict
<1>4. CASE hits # {}
  <2>1. \E k \in hits : \A l \in hits : k <= l
    <3>1. IsFiniteSet(1 .. n) /\ hits \subseteq 1 .. n
      BY <1>1, <1>2, FS_Interval
    <3>2. IsWellFoundedOn(StrictSubsetOrdering(1 .. n), SUBSET (1 .. n))
      BY <3>1, FS_StrictSubsetOrderingWellFounded, FS_FiniteSubsetsOfFinite
    <3>3. Family \subseteq SUBSET (1 .. n) /\ Family # {}
      BY <1>4, <3>1
    <3>4. PICK b \in Family : \A s \in Family : <<s, b>> \notin StrictSubsetOrdering(1 .. n)
      <4> HIDE DEF Family
      <4> QED BY <3>2, <3>3, WFMin
    <3>5. PICK k \in hits : b = Below(k)
      OBVIOUS
    <3>6. \A l \in hits : l \in Int
      BY <3>1
    <3>7. ASSUME NEW l \in Below(k) PROVE FALSE
      <4>1. Below(l) \in Family /\ Below(l) \subseteq Below(k) /\ l \notin Below(l)
        BY <3>6
      <4>2. <<Below(l), Below(k)>> \in StrictSubsetOrdering(1 .. n)
        BY <3>1, <4>1 DEF StrictSubsetOrdering
      <4> QED BY <3>4, <3>5, <4>1, <4>2
    <3>8. \A l \in hits : k <= l
      BY <3>6, <3>7
    <3> QED BY <3>8
  <2> DEFINE k == CHOOSE k \in hits : \A l \in hits : k <= l
  <2>2. k \in hits
    BY <2>1
  <2>3. k \in 1 .. n
    BY <1>2, <2>2
  <2>4. Table[k][2] \in Dest
    BY <1>2, <2>3
  <2>5. match(addr) = Table[k][2]
    BY <1>4 DEF match
  <2> QED BY <2>4, <2>5 DEF Verdict
<1> QED BY <1>3, <1>4

LEMMA JudgedType == ASSUME NEW f PROVE Judged(f) \in Verdict
  BY MatchType DEF Judged, Verdict

\* The registers of the header capture tell what has come of the frame.
HInv == /\ arriving \in Seq(Beat) /\ Len(arriving) <= MacBytes
        /\ c.in_frame <=> arriving # <<>>
        /\ arriving # <<>> => /\ c.addr_cnt = Len(arriving)
                              /\ c.pushed <=> Len(arriving) = MacBytes
                              /\ c.addr_ok <=> Len(arriving) = MacBytes
        /\ c.addr \in Address
        /\ \A k \in 1 .. Len(arriving) : c.addr[k - 1] = arriving[k].byte /\ ~arriving[k].last

\* The frame with the beat that is offered; judged at this edge.
Now(beat) == Append(arriving, beat)
Decided(beat) == /\ s_xfer(c, beat) /\ Len(arriving) < MacBytes
                 /\ Len(Now(beat)) = MacBytes \/ beat.last

LEMMA Arriving ==
    ASSUME HInv, NEW beat \in Beat
    PROVE  /\ Len(arriving) \in Nat /\ arriving = <<>> <=> Len(arriving) = 0
           /\ Now(beat) \in Seq(Beat) /\ Len(Now(beat)) = Len(arriving) + 1
           /\ \A k \in 1 .. Len(arriving) : Now(beat)[k] = arriving[k]
           /\ Now(beat)[Len(arriving) + 1] = beat
<1>1. arriving \in Seq(Beat)
  BY DEF HInv
<1>2. Len(arriving) \in Nat
  BY <1>1, LenProperties
<1>3. arriving = <<>> <=> Len(arriving) = 0
  BY <1>1, EmptySeq
<1> QED BY <1>1, <1>2, <1>3, AppendProperties DEF Now

\* A verdict is written when the scoreboard judges, and it is the same.
LEMMA VerdictRight ==
    ASSUME HInv, NEW beat \in Offers, s_xfer(c, beat)
    PROVE  /\ beat \in Beat
           /\ meta_wr_en(c, beat) <=> Decided(beat)
           /\ Decided(beat) => verdict(c, beat) = Judged(Now(beat))
           /\ Len(arriving) = MacBytes => Judged(Now(beat)) = Judged(arriving)
           /\ hdr_last(c, beat) <=> Len(arriving) = MacBytes - 1
<1>1. beat \in Beat
  BY DEF s_xfer, Offers
<1>2. PICK l \in Nat : l = Len(arriving)
  BY <1>1, Arriving
<1>3. /\ arriving = <<>> <=> l = 0
      /\ Now(beat) \in Seq(Beat) /\ Len(Now(beat)) = l + 1
      /\ \A k \in 1 .. l : Now(beat)[k] = arriving[k]
      /\ Now(beat)[l + 1] = beat
  BY <1>1, <1>2, Arriving
<1>4. MacBytes \in Nat /\ MacBytes >= 2 /\ l <= MacBytes
  BY <1>2, ClassifierAssumption DEF HInv
<1>5. sof(c, beat) <=> l = 0
  BY <1>3 DEF sof, HInv
<1>6. l # 0 => c.addr_cnt = l /\ (c.pushed <=> l = MacBytes)
  BY <1>2, <1>3 DEF HInv
<1>7. hdr_last(c, beat) <=> l = MacBytes - 1
  <2>1. CASE l = 0
    BY <1>4, <1>5, <2>1 DEF hdr_last
  <2>2. CASE l # 0
    BY <1>4, <1>5, <1>6, <2>2 DEF hdr_last
  <2> QED BY <2>1, <2>2
<1>8. (sof(c, beat) \/ ~c.pushed) <=> l < MacBytes
  BY <1>4, <1>5, <1>6
<1>9. Decided(beat) <=> l < MacBytes /\ (l + 1 = MacBytes \/ beat.last)
  BY <1>2, <1>3 DEF Decided
<1>10. meta_wr_en(c, beat) <=> Decided(beat)
  BY <1>4, <1>7, <1>8, <1>9 DEF meta_wr_en
<1>11. ASSUME Decided(beat) PROVE verdict(c, beat) = Judged(Now(beat))
  <2>1. CASE l + 1 < MacBytes
    <3>1. ~hdr_last(c, beat) /\ Len(Now(beat)) < MacBytes
      BY <1>3, <1>4, <1>7, <2>1
    <3> QED BY <3>1 DEF verdict, Judged
  <2>2. CASE l + 1 = MacBytes
    <3> DEFINE seen == [k \in Index |-> Now(beat)[k + 1].byte]
    <3>1. c.addr \in Address /\ \A k \in 1 .. l : c.addr[k - 1] = arriving[k].byte
      BY <1>2 DEF HInv
    <3>2. addr_cmp(c, beat) \in Address
      BY <1>1, <3>1 DEF addr_cmp, Address, Beat
    <3>3. ASSUME NEW k \in Index PROVE addr_cmp(c, beat)[k] = Now(beat)[k + 1].byte
      <4>1. k \in Int /\ 0 <= k /\ k <= l
        BY <1>4, <2>2 DEF Index
      <4>2. CASE k = l
        <5>1. l = MacBytes - 1
          BY <1>4, <2>2
        <5>2. addr_cmp(c, beat)[MacBytes - 1] = beat.byte
          BY <3>1, <3>3, <4>2, <5>1 DEF addr_cmp, Address
        <5> QED BY <1>3, <4>2, <5>1, <5>2
      <4>3. CASE k # l
        <5>1. k + 1 \in 1 .. l /\ (k + 1) - 1 = k /\ k # MacBytes - 1
          BY <1>4, <2>2, <4>1, <4>3
        <5>2. addr_cmp(c, beat)[k] = c.addr[k]
          BY <3>1, <5>1 DEF addr_cmp, Address
        <5>3. c.addr[(k + 1) - 1] = arriving[k + 1].byte
          BY <3>1, <5>1
        <5> QED BY <1>3, <5>1, <5>2, <5>3
      <4> QED BY <4>2, <4>3
    <3>4. addr_cmp(c, beat) = seen
      BY <3>2, <3>3 DEF Address
    <3>5. hdr_last(c, beat) /\ ~(Len(Now(beat)) < MacBytes)
      BY <1>3, <1>4, <1>7, <2>2
    <3>6. verdict(c, beat) = match(addr_cmp(c, beat)) /\ Judged(Now(beat)) = match(seen)
      BY <3>5 DEF verdict, Judged
    <3> QED BY <3>4, <3>6
  <2> QED BY <1>4, <1>9, <1>11, <2>1, <2>2
<1>12. ASSUME l = MacBytes PROVE Judged(Now(beat)) = Judged(arriving)
  <2>1. \A k \in Index : Now(beat)[k + 1] = arriving[k + 1]
    <3> SUFFICES ASSUME NEW k \in Index PROVE Now(beat)[k + 1] = arriving[k + 1]
      OBVIOUS
    <3>1. k + 1 \in 1 .. l
      BY <1>4, <1>12 DEF Index
    <3> QED BY <1>3, <3>1
  <2>2. [k \in Index |-> Now(beat)[k + 1].byte] = [k \in Index |-> arriving[k + 1].byte]
    BY <2>1
  <2>3. ~(Len(Now(beat)) < MacBytes) /\ ~(Len(arriving) < MacBytes)
    BY <1>2, <1>3, <1>4, <1>12
  <2> QED BY <2>2, <2>3 DEF Judged
<1> QED BY <1>1, <1>2, <1>7, <1>10, <1>11, <1>12

\* One edge of the header capture.
LEMMA HeaderClock ==
    ASSUME HInv, NEW beat \in Offers, NEW rdy \in BOOLEAN, Clock(beat, rdy)
    PROVE  HInv'
<1>1. /\ c'.in_frame = (IF s_xfer(c, beat) THEN ~beat.last ELSE c.in_frame)
      /\ c'.addr = (IF sof(c, beat) THEN [c.addr EXCEPT ![0] = beat.byte]
                    ELSE IF hdr_fill(c, beat) THEN [c.addr EXCEPT ![c.addr_cnt] = beat.byte]
                    ELSE c.addr)
      /\ c'.addr_cnt = (IF sof(c, beat) THEN 1
                        ELSE IF hdr_fill(c, beat) THEN c.addr_cnt + 1 ELSE c.addr_cnt)
      /\ c'.addr_ok = (hdr_last(c, beat) \/ (c.addr_ok /\ ~sof(c, beat)))
      /\ c'.pushed = (meta_wr_en(c, beat) \/ (c.pushed /\ ~sof(c, beat)))
  BY DEF Clock, ClassifierClocked
<1>2. arriving' = IF s_xfer(c, beat) /\ beat.last THEN <<>>
                  ELSE IF s_xfer(c, beat) /\ ~(Len(Now(beat)) > MacBytes) THEN Now(beat)
                  ELSE arriving
  <2>1. arriving \in Seq(Beat) /\ Len(arriving) <= MacBytes /\ MacBytes \in Nat
    BY ClassifierAssumption DEF HInv
  <2>2. Len(arriving) \in Nat
    BY <2>1, LenProperties
  <2>3. ~(Len(arriving) > MacBytes)
    BY <2>1, <2>2
  <2> QED BY <2>3 DEF Clock, Account, Now
<1>3. /\ arriving \in Seq(Beat) /\ Len(arriving) <= MacBytes
      /\ c.in_frame <=> arriving # <<>>
      /\ arriving # <<>> => /\ c.addr_cnt = Len(arriving)
                            /\ c.pushed <=> Len(arriving) = MacBytes
                            /\ c.addr_ok <=> Len(arriving) = MacBytes
      /\ c.addr \in Address
      /\ \A k \in 1 .. Len(arriving) : c.addr[k - 1] = arriving[k].byte /\ ~arriving[k].last
  BY DEF HInv
<1>4. MacBytes \in Nat /\ MacBytes >= 2
  BY ClassifierAssumption
<1>5. CASE ~s_xfer(c, beat)
  <2>1. ~sof(c, beat) /\ ~hdr_fill(c, beat) /\ ~hdr_last(c, beat) /\ ~meta_wr_en(c, beat)
    BY <1>5 DEF sof, hdr_fill, hdr_last, meta_wr_en
  <2>2. /\ c'.in_frame = c.in_frame /\ c'.addr = c.addr /\ c'.addr_cnt = c.addr_cnt
        /\ arriving' = arriving
    BY <1>1, <1>2, <1>5, <2>1
  <2>3. (c'.addr_ok <=> c.addr_ok) /\ (c'.pushed <=> c.pushed)
    BY <1>1, <2>1
  <2> QED BY <1>3, <2>2, <2>3 DEF HInv
<1>6. CASE s_xfer(c, beat)
  <2>1. beat \in Beat /\ (meta_wr_en(c, beat) <=> Decided(beat))
        /\ (hdr_last(c, beat) <=> Len(arriving) = MacBytes - 1)
    BY <1>6, VerdictRight
  <2>2. PICK l \in Nat : l = Len(arriving)
    BY <2>1, Arriving
  <2>3. /\ arriving = <<>> <=> l = 0
        /\ Now(beat) \in Seq(Beat) /\ Len(Now(beat)) = l + 1
        /\ \A k \in 1 .. l : Now(beat)[k] = arriving[k]
        /\ Now(beat)[l + 1] = beat
    BY <2>1, <2>2, Arriving
  <2>4. beat.byte \in Byte /\ beat.last \in BOOLEAN
    BY <2>1 DEF Beat
  <2>5. l <= MacBytes
    BY <1>3, <2>2
  <2>6. (sof(c, beat) <=> l = 0) /\ (hdr_fill(c, beat) <=> l < MacBytes)
    <3>1. sof(c, beat) <=> l = 0
      BY <1>3, <1>6, <2>3 DEF sof
    <3>2. l # 0 => (c.addr_ok <=> l = MacBytes)
      BY <1>3, <2>2, <2>3
    <3>3. hdr_fill(c, beat) <=> (l = 0 \/ ~c.addr_ok)
      BY <1>6, <3>1 DEF hdr_fill
    <3> QED BY <1>4, <2>5, <3>1, <3>2, <3>3
  <2>7. /\ c'.addr \in Address
        /\ l < MacBytes => c'.addr[l] = beat.byte
        /\ \A k \in Index : k < l => c'.addr[k] = c.addr[k]
    <3>1. CASE l = 0
      <4>1. c'.addr = [c.addr EXCEPT ![0] = beat.byte] /\ 0 \in Index
        BY <1>1, <1>4, <2>6, <3>1 DEF Index
      <4>2. \A k \in Index : ~(k < 0)
        BY <1>4 DEF Index
      <4>3. c.addr \in [Index -> Byte]
        BY <1>3 DEF Address
      <4>4. c'.addr \in [Index -> Byte] /\ c'.addr[0] = beat.byte
        BY <2>4, <4>1, <4>3
      <4> QED BY <3>1, <4>2, <4>4 DEF Address
    <3>2. CASE l # 0 /\ l < MacBytes
      <4>1. c'.addr = [c.addr EXCEPT ![l] = beat.byte] /\ l \in Index
        BY <1>1, <1>3, <1>4, <2>2, <2>3, <2>6, <3>2 DEF Index
      <4>2. \A k \in Index : k < l => k # l
        BY <1>4 DEF Index
      <4>3. c.addr \in [Index -> Byte]
        BY <1>3 DEF Address
      <4>4. /\ c'.addr \in [Index -> Byte] /\ c'.addr[l] = beat.byte
            /\ \A k \in Index : k # l => c'.addr[k] = c.addr[k]
        BY <2>4, <4>1, <4>3
      <4> QED BY <4>2, <4>4 DEF Address
    <3>3. CASE l = MacBytes
      <4>1. c'.addr = c.addr
        BY <1>1, <1>4, <2>6, <3>3
      <4> QED BY <1>3, <3>3, <4>1
    <3> QED BY <1>4, <2>5, <3>1, <3>2, <3>3
  <2>8. CASE beat.last
    <3>1. arriving' = <<>> /\ (c'.in_frame <=> FALSE)
      BY <1>1, <1>2, <1>6, <2>8
    <3>2. <<>> \in Seq(Beat) /\ Len(<<>>) = 0
      BY EmptySeq
    <3> QED BY <1>4, <2>7, <3>1, <3>2 DEF HInv
  <2>9. CASE ~beat.last
    <3>1. c'.in_frame <=> TRUE
      BY <1>1, <1>6, <2>9
    <3>2. Decided(beat) <=> l + 1 = MacBytes
      <4>1. Decided(beat) <=> l < MacBytes /\ l + 1 = MacBytes
        BY <1>6, <2>2, <2>3, <2>9 DEF Decided
      <4> QED BY <1>4, <4>1
    <3>3. (l # 0 => (c.pushed <=> l = MacBytes)) /\ (l # 0 => (c.addr_ok <=> l = MacBytes))
      BY <1>3, <2>2, <2>3
    <3>a. /\ c'.pushed <=> meta_wr_en(c, beat) \/ (c.pushed /\ ~sof(c, beat))
          /\ c'.addr_ok <=> hdr_last(c, beat) \/ (c.addr_ok /\ ~sof(c, beat))
      BY <1>1
    <3>b. hdr_last(c, beat) <=> l + 1 = MacBytes
      BY <1>4, <2>1, <2>2
    <3>4. c'.pushed <=> l + 1 = MacBytes \/ l = MacBytes
      <4>1. CASE l = 0
        BY <1>4, <2>1, <2>6, <3>2, <3>a, <4>1
      <4>2. CASE l # 0
        BY <2>1, <2>6, <3>2, <3>3, <3>a, <4>2
      <4> QED BY <4>1, <4>2
    <3>5. c'.addr_ok <=> l + 1 = MacBytes \/ l = MacBytes
      <4>1. CASE l = 0
        BY <1>4, <2>6, <3>a, <3>b, <4>1
      <4>2. CASE l # 0
        BY <2>6, <3>3, <3>a, <3>b, <4>2
      <4> QED BY <4>1, <4>2
    <3>6. CASE l < MacBytes
      <4>1. arriving' = Now(beat)
        BY <1>2, <1>4, <1>6, <2>3, <2>9, <3>6
      <4>2. arriving' # <<>> /\ Len(arriving') = l + 1
        BY <2>3, <4>1, EmptySeq
      <4>3. c'.addr_cnt = l + 1
        <5>1. CASE l = 0
          BY <1>1, <2>6, <5>1
        <5>2. CASE l # 0
          BY <1>1, <1>3, <2>2, <2>3, <2>6, <3>6, <5>2
        <5> QED BY <5>1, <5>2
      <4>4. ASSUME NEW k \in 1 .. l + 1
            PROVE  c'.addr[k - 1] = arriving'[k].byte /\ ~arriving'[k].last
        <5> k \in Int
          OBVIOUS
        <5>1. CASE k = l + 1
          BY <2>3, <2>7, <2>9, <3>6, <4>1, <5>1
        <5>2. CASE k # l + 1
          <6>1. k \in 1 .. l /\ k - 1 \in Index /\ k - 1 < l
            BY <1>4, <2>5, <5>2 DEF Index
          <6>2. c.addr[k - 1] = arriving[k].byte /\ ~arriving[k].last
            BY <1>3, <2>2, <6>1
          <6> QED BY <2>3, <2>7, <4>1, <6>1, <6>2
        <5> QED BY <5>1, <5>2
      <4>5. (c'.pushed <=> l + 1 = MacBytes) /\ (c'.addr_ok <=> l + 1 = MacBytes)
        BY <1>4, <3>4, <3>5, <3>6
      <4>6. arriving' \in Seq(Beat) /\ l + 1 <= MacBytes
        BY <1>4, <2>3, <3>6, <4>1
      <4> QED BY <2>7, <3>1, <4>2, <4>3, <4>4, <4>5, <4>6 DEF HInv
    <3>7. CASE l = MacBytes
      <4>1. arriving' = arriving
        BY <1>2, <1>4, <1>6, <2>3, <2>9, <3>7
      <4>2. c'.addr_cnt = c.addr_cnt
        BY <1>1, <1>4, <2>6, <3>7
      <4>3. \A k \in 1 .. l : c'.addr[k - 1] = arriving[k].byte /\ ~arriving[k].last
        <5> SUFFICES ASSUME NEW k \in 1 .. l
                     PROVE  c'.addr[k - 1] = arriving[k].byte /\ ~arriving[k].last
          OBVIOUS
        <5>1. k - 1 \in Index /\ k - 1 < l
          BY <1>4, <3>7 DEF Index
        <5> QED BY <1>3, <2>2, <2>7, <5>1
      <4>4. arriving # <<>>
        BY <1>4, <2>3, <3>7
      <4>5. (c'.pushed <=> l = MacBytes) /\ (c'.addr_ok <=> l = MacBytes)
        BY <3>4, <3>5, <3>7
      <4>6. c'.addr_cnt = l /\ arriving \in Seq(Beat) /\ Len(arriving) = l /\ l <= MacBytes
        BY <1>3, <2>2, <4>2, <4>4
      <4>7. /\ arriving' \in Seq(Beat) /\ Len(arriving') = l /\ arriving' # <<>>
            /\ \A k \in 1 .. l : c'.addr[k - 1] = arriving'[k].byte /\ ~arriving'[k].last
        BY <4>1, <4>3, <4>4, <4>6
      <4>8. c'.addr \in Address
        BY <2>7
      <4>9. /\ Len(arriving') <= MacBytes /\ c'.addr_cnt = Len(arriving')
            /\ (c'.pushed <=> Len(arriving') = MacBytes)
            /\ (c'.addr_ok <=> Len(arriving') = MacBytes)
            /\ \A k \in 1 .. Len(arriving') :
                  c'.addr[k - 1] = arriving'[k].byte /\ ~arriving'[k].last
        BY <4>5, <4>6, <4>7
      <4>10. c'.in_frame <=> arriving' # <<>>
        BY <3>1, <4>7
      <4> QED BY <4>7, <4>8, <4>9, <4>10 DEF HInv
    <3> QED BY <1>4, <2>5, <3>6, <3>7
  <2> QED BY <2>4, <2>8, <2>9
<1> QED BY <1>5, <1>6
-----------------------------------------------------------------------------
(* The output: when a frame is in force, and what is shown of it.           *)

\* The frame in force has beats to come.
Open(s) == s.meta_live /\ ~(s.out.last /\ (s.m_tvalid \/ s.data_rd_q))

\* Only a frame that is sent is shown, and what was read is shown.
OInv == /\ c.meta_live \in BOOLEAN /\ c.m_tvalid \in BOOLEAN /\ c.data_rd_q \in BOOLEAN
        /\ c.from_bypass \in BOOLEAN /\ c.out \in Beat
        /\ c.bypass \in Verdict /\ c.meta_rd_data \in Verdict
        /\ c.m_tvalid => c.meta_live /\ meta_hit(c)
        /\ c.data_rd_q => c.meta_live /\ (meta_hit(c) => c.m_tvalid)

\* What one edge does to the frame in force: a beat of it is read, or it has ended and the
\* next verdict is taken, from the queue or around it, or neither.
LEMMA Outcome ==
    ASSUME OInv, NEW beat \in Offers, NEW rdy \in BOOLEAN,
           c' = ClassifierClocked(c, beat, rdy),
           c.data \in Seq(Beat), c.meta \in Seq(Verdict), verdict(c, beat) \in Verdict
    PROVE  /\ OInv'
           /\ data_rd_en(c, rdy) =>
                /\ Open(c) /\ c.data # <<>> /\ ~meta_rd_en(c, rdy) /\ ~bypassed(c, beat, rdy)
                /\ IF meta_hit(c) THEN out_free(c, rdy) ELSE ~c.m_tvalid
                /\ c'.out = Head(c.data) /\ Open(c') = ~Head(c.data).last
                /\ c'.m_tvalid = meta_hit(c)
           /\ ~data_rd_en(c, rdy) =>
                /\ Open(c') = (Open(c) \/ meta_rd_en(c, rdy) \/ bypassed(c, beat, rdy))
                /\ c'.out = c.out /\ c'.m_tvalid = (c.m_tvalid /\ ~out_free(c, rdy))
           /\ meta_rd_en(c, rdy) => ~Open(c) /\ c.meta # <<>> /\ out_free(c, rdy)
                                      /\ ~bypassed(c, beat, rdy)
           /\ bypassed(c, beat, rdy) => ~Open(c) /\ c.meta = <<>> /\ out_free(c, rdy)
                                          /\ meta_wr_en(c, beat)
           /\ meta_dest(c') = (IF meta_rd_en(c, rdy) THEN Head(c.meta)
                               ELSE IF bypassed(c, beat, rdy) THEN verdict(c, beat)
                               ELSE meta_dest(c))
<1> DEFINE rd   == data_rd_en(c, rdy)
           pop  == meta_rd_en(c, rdy)
           byp  == bypassed(c, beat, rdy)
           hit  == meta_hit(c)
           live == c.meta_live
           mv   == c.m_tvalid
           dq   == c.data_rd_q
           last == c.out.last
           fb   == c.from_bypass
           free == out_free(c, rdy)
<1>1. /\ c'.meta_live = ((pop \/ byp) \/ (live /\ ~ended(c, rdy)))
      /\ c'.m_tvalid = (IF free THEN rd /\ hit ELSE mv)
      /\ c'.data_rd_q = rd
      /\ c'.out = ReadPort(c.data, c.out, rd)
      /\ c'.from_bypass = (byp \/ (fb /\ ~pop))
      /\ c'.bypass = (IF byp THEN verdict(c, beat) ELSE c.bypass)
      /\ c'.meta_rd_data = ReadPort(c.meta, c.meta_rd_data, pop)
  BY DEF ClassifierClocked
<1>2. /\ live \in BOOLEAN /\ mv \in BOOLEAN /\ dq \in BOOLEAN /\ fb \in BOOLEAN /\ last \in BOOLEAN
      /\ mv => live /\ hit
      /\ dq => live /\ (hit => mv)
  BY DEF OInv, Beat
<1>3. last_out(c, rdy) <=> last /\ ((mv /\ rdy) \/ (dq /\ ~hit))
  BY DEF last_out, m_xfer
<1>4. ended(c, rdy) <=> live /\ last /\ (IF hit THEN mv /\ rdy ELSE dq)
  BY DEF ended, m_xfer
<1>5. free <=> ~mv \/ rdy
  BY DEF out_free
<1>6. rd <=> live /\ c.data # <<>> /\ ~last_out(c, rdy) /\ (IF hit THEN free ELSE ~mv)
  BY DEF data_rd_en
<1>7. /\ pop <=> c.meta # <<>> /\ free /\ (~live \/ last_out(c, rdy))
      /\ byp <=> c.meta = <<>> /\ free /\ (~live \/ last_out(c, rdy)) /\ meta_wr_en(c, beat)
  BY DEF meta_rd_en, bypassed, verdict_free
<1>8. Open(c) <=> live /\ ~(last /\ (mv \/ dq))
  BY DEF Open
<1>9. hit <=> meta_dest(c) # None
  BY DEF meta_hit
<1> HIDE DEF rd, pop, byp, hit, live, mv, dq, last, fb, free
<1>10. rd => Open(c) /\ c.data # <<>> /\ ~pop /\ ~byp /\ (IF hit THEN free ELSE ~mv)
  BY <1>2, <1>3, <1>5, <1>6, <1>7, <1>8
<1>11. pop => ~Open(c) /\ c.meta # <<>> /\ free /\ ~byp
  BY <1>2, <1>3, <1>7, <1>8
<1>12. byp => ~Open(c) /\ c.meta = <<>> /\ free /\ meta_wr_en(c, beat)
  BY <1>2, <1>3, <1>7, <1>8
<1>13. rd => c'.out = Head(c.data) /\ Head(c.data) \in Beat
  BY <1>1, <1>10, HeadTailProperties DEF ReadPort
<1>14. ~rd => c'.out = c.out
  BY <1>1 DEF ReadPort
<1>15. meta_dest(c') = (IF pop THEN Head(c.meta) ELSE IF byp THEN verdict(c, beat)
                        ELSE meta_dest(c))
  <2>1. CASE pop
    <3>1. (c'.from_bypass <=> FALSE) /\ c'.meta_rd_data = Head(c.meta)
      BY <1>1, <1>2, <1>11, <2>1 DEF ReadPort
    <3> QED BY <2>1, <3>1 DEF meta_dest
  <2>2. CASE byp
    <3>1. (c'.from_bypass <=> TRUE) /\ c'.bypass = verdict(c, beat) /\ ~pop
      BY <1>1, <1>11, <2>2
    <3> QED BY <2>2, <3>1 DEF meta_dest
  <2>3. CASE ~pop /\ ~byp
    <3>1. (c'.from_bypass <=> fb) /\ c'.bypass = c.bypass /\ c'.meta_rd_data = c.meta_rd_data
      BY <1>1, <1>2, <2>3 DEF ReadPort
    <3> QED BY <2>3, <3>1 DEF meta_dest, fb
  <2> QED BY <2>1, <2>2, <2>3
<1>16. c'.m_tvalid \in BOOLEAN /\ c'.meta_live \in BOOLEAN /\ c'.data_rd_q \in BOOLEAN
       /\ c'.from_bypass \in BOOLEAN
  <2>1. rd \in BOOLEAN
    BY DEF rd, data_rd_en
  <2>2. hit \in BOOLEAN
    BY DEF hit, meta_hit
  <2>3. c'.m_tvalid \in BOOLEAN
    BY <1>1, <1>2, <2>1, <2>2
  <2>4. c'.meta_live \in BOOLEAN /\ c'.data_rd_q \in BOOLEAN /\ c'.from_bypass \in BOOLEAN
    BY <1>1, <2>1
  <2> QED BY <2>3, <2>4
<1>17. rd => (c'.m_tvalid <=> hit) /\ (c'.meta_live <=> TRUE) /\ (c'.data_rd_q <=> TRUE)
  BY <1>1, <1>2, <1>3, <1>4, <1>5, <1>6
<1>18. ~rd => (c'.m_tvalid <=> mv /\ ~free) /\ (c'.data_rd_q <=> FALSE)
  BY <1>1, <1>2
<1>19. pop \/ byp => (c'.meta_live <=> TRUE) /\ (c'.m_tvalid <=> FALSE)
  BY <1>1, <1>10, <1>11, <1>12
<1>20. ~rd /\ ~pop /\ ~byp => (c'.meta_live <=> live /\ ~ended(c, rdy))
  BY <1>1
<1>21. Open(c') <=> c'.meta_live /\ ~(c'.out.last /\ (c'.m_tvalid \/ c'.data_rd_q))
  BY DEF Open
<1>22. rd => (Open(c') <=> ~Head(c.data).last)
  BY <1>13, <1>17, <1>21
<1>23. ~rd => (Open(c') <=> Open(c) \/ pop \/ byp)
  <2>1. ~rd => (c'.out.last <=> last)
    BY <1>14 DEF last
  <2>2. CASE pop \/ byp
    BY <1>10, <1>18, <1>19, <1>21, <2>2
  <2>3. CASE ~rd /\ ~pop /\ ~byp
    <3>0. /\ c'.out.last <=> last
          /\ c'.m_tvalid <=> mv /\ ~free
          /\ c'.data_rd_q <=> FALSE
      BY <1>18, <2>1, <2>3
    <3>1. Open(c') <=> c'.meta_live /\ ~(last /\ mv /\ ~free)
      BY <1>21, <3>0
    <3>2. c'.meta_live <=> live /\ ~ended(c, rdy)
      BY <1>20, <2>3
    <3>3. Open(c') <=> Open(c)
      <4>1. CASE hit
        BY <1>2, <1>4, <1>5, <1>8, <3>1, <3>2, <4>1
      <4>2. CASE ~hit
        BY <1>2, <1>4, <1>5, <1>8, <3>1, <3>2, <4>2
      <4> QED BY <4>1, <4>2
    <3> QED BY <2>3, <3>3
  <2>4. CASE rd
    BY <2>4
  <2> QED BY <2>2, <2>3, <2>4
<1>24. hit' <=> meta_dest(c') # None
  BY DEF hit, meta_hit
<1>25. ~pop /\ ~byp => (hit' <=> hit)
  BY <1>9, <1>15, <1>24
<1>26. OInv'
  <2>1. c'.out \in Beat
    BY <1>13, <1>14 DEF OInv
  <2>2. c'.bypass \in Verdict /\ c'.meta_rd_data \in Verdict
    <3>1. pop => Head(c.meta) \in Verdict
      BY <1>11, HeadTailProperties
    <3> QED BY <1>1, <3>1 DEF OInv, ReadPort
  <2>3. c'.m_tvalid => c'.meta_live /\ hit'
    <3>1. CASE rd
      BY <1>10, <1>17, <1>25, <3>1
    <3>2. CASE ~rd /\ (pop \/ byp)
      BY <1>19, <3>2
    <3>3. CASE ~rd /\ ~pop /\ ~byp
      BY <1>2, <1>4, <1>5, <1>18, <1>20, <1>25, <3>3
    <3> QED BY <3>1, <3>2, <3>3
  <2>4. c'.data_rd_q => c'.meta_live /\ (hit' => c'.m_tvalid)
    <3>1. CASE rd
      BY <1>10, <1>17, <1>25, <3>1
    <3>2. CASE ~rd
      BY <1>18, <3>2
    <3> QED BY <3>1, <3>2
  <2> QED BY <1>16, <2>1, <2>2, <2>3, <2>4 DEF OInv, hit
<1>27. Open(c') \in BOOLEAN
  BY DEF Open
<1>28. rd => Open(c') = ~Head(c.data).last /\ c'.m_tvalid = hit
  BY <1>16, <1>17, <1>22, <1>27 DEF hit, meta_hit
<1>29. ~rd => Open(c') = (Open(c) \/ pop \/ byp) /\ c'.m_tvalid = (mv /\ ~free)
  BY <1>16, <1>18, <1>23, <1>27
<1> QED BY <1>10, <1>11, <1>12, <1>13, <1>14, <1>15, <1>26, <1>28, <1>29
        DEF rd, pop, byp, hit, mv, free
-----------------------------------------------------------------------------
(* Both together.                                                           *)

Header == IF Len(arriving) < MacBytes THEN arriving ELSE <<>>
Busy   == Len(arriving) = MacBytes

Shown == /\ due \in Seq(Sent)
         /\ c.m_tvalid => due # <<>> /\ Head(due) = Tag(c.out, meta_dest(c))

\* Inductive.
CInv == /\ BInv /\ HInv /\ OInv /\ Shown
        /\ Explained(c.data, c.meta, Open(c), meta_dest(c), Rest(due, c.m_tvalid),
                     Header, Busy, Judged(arriving))

\* Between frames no verdict is kept for the next beat.
LEMMA IdleExplained ==
    ASSUME NEW data, NEW meta, NEW open, NEW dest, NEW q, NEW h, NEW i, NEW j,
           Explained(data, meta, open, dest, q, h, FALSE, j)
    PROVE  Explained(data, meta, open, dest, q, h, FALSE, i)
<1>1. PICK D \in [Int -> Beat], F \in [Int -> Int], S \in [Int -> Int],
           V \in [Int -> Verdict], r \in Int, w \in Int, g \in Int :
          /\ Kept(D, r, w, data, h) /\ Numbered(D, F, r, w)
          /\ Ranked(D, F, V, r, w, g, meta, open, dest, h, FALSE, j)
          /\ Sorted(D, F, V, S, r, w, q)
  BY DEF Explained
<1>2. Ranked(D, F, V, r, w, g, meta, open, dest, h, FALSE, i)
  BY <1>1 DEF Ranked
<1>3. /\ data \in Seq(Beat) /\ meta \in Seq(Verdict) /\ h \in Seq(Beat)
      /\ open \in BOOLEAN
  BY DEF Explained
<1> QED BY <1>1, <1>2, <1>3 DEF Explained

LEMMA EmptyExplained ==
    ASSUME NEW dest, NEW j
    PROVE  Explained(<<>>, <<>>, FALSE, dest, <<>>, <<>>, FALSE, j)
<1>1. PICK D \in [Int -> Beat] : TRUE
  <2>1. [byte |-> Pad, last |-> TRUE] \in Beat
    BY PadAssumption DEF Beat
  <2>2. [k \in Int |-> [byte |-> Pad, last |-> TRUE]] \in [Int -> Beat]
    BY <2>1
  <2> QED BY <2>2
<1>2. PICK F \in [Int -> Int] : \A k \in Int : F[k] = 1
  <2>1. [k \in Int |-> 1] \in [Int -> Int]
    OBVIOUS
  <2> QED BY <2>1
<1>3. PICK V \in [Int -> Verdict] : TRUE
  <2>1. [k \in Int |-> None] \in [Int -> Verdict]
    BY DEF Verdict
  <2> QED BY <2>1
<1>4. /\ <<>> \in Seq(Beat) /\ <<>> \in Seq(Verdict) /\ <<>> \in Seq(Sent)
      /\ Len(<<>>) = 0
  BY EmptySeq
<1>5. Kept(D, 0, 0, <<>>, <<>>)
  <2>1. \A i \in 1 .. 0 : <<>>[i] = D[0 + i]
    OBVIOUS
  <2> QED BY <1>4, <2>1 DEF Kept
<1>6. Numbered(D, F, 0, 0)
  BY <1>2 DEF Numbered
<1>7. Ranked(D, F, V, 0, 0, 0, <<>>, FALSE, dest, <<>>, FALSE, j)
  <2>1. \A i \in 1 .. 0 : <<>>[i] = V[0 + i]
    OBVIOUS
  <2> QED BY <1>2, <1>4, <2>1 DEF Ranked
<1>8. Sorted(D, F, V, F, 0, 0, <<>>)
  <2>1. F[0] - F[0] = 0
    BY <1>2
  <2> QED BY <1>2, <1>4, <2>1 DEF Sorted
<1>9. 0 \in Int
  OBVIOUS
<1> QED BY <1>1, <1>2, <1>3, <1>4, <1>5, <1>6, <1>7, <1>8, <1>9 DEF Explained

\* What is added behind leaves the front alone.
LEMMA RestConcat ==
    ASSUME NEW T, NEW a \in Seq(T), NEW b \in Seq(T), NEW p \in BOOLEAN, p => a # <<>>
    PROVE  /\ a \o b \in Seq(T)
           /\ Rest(a \o b, p) = Rest(a, p) \o b
           /\ p => a \o b # <<>> /\ Head(a \o b) = Head(a)
<1>1. a \o b \in Seq(T)
  BY ConcatProperties
<1>2. CASE ~p
  BY <1>1, <1>2 DEF Rest
<1>3. CASE p
  <2>1. PICK n \in Nat, m \in Nat : n = Len(a) /\ m = Len(b) /\ n >= 1
    BY <1>3, EmptySeq, LenProperties
  <2>2. /\ Len(a \o b) = n + m
        /\ \A i \in 1 .. n + m : (a \o b)[i] = IF i <= n THEN a[i] ELSE b[i - n]
    BY <2>1, ConcatProperties
  <2>3. a \o b # <<>> /\ a # <<>>
    BY <1>1, <1>3, <2>1, <2>2, EmptySeq
  <2>4. Head(a \o b) = (a \o b)[1] /\ Head(a) = a[1]
    BY <1>1, <2>3
  <2>5. (a \o b)[1] = a[1]
    <3>1. 1 \in 1 .. n + m /\ 1 <= n
      BY <2>1
    <3> QED BY <2>2, <3>1
  <2>6. /\ Tail(a \o b) \in Seq(T) /\ Len(Tail(a \o b)) = n + m - 1
        /\ \A i \in 1 .. n + m - 1 : Tail(a \o b)[i] = (a \o b)[i + 1]
    BY <1>1, <2>2, <2>3, HeadTailProperties
  <2>7. /\ Tail(a) \in Seq(T) /\ Len(Tail(a)) = n - 1
        /\ \A i \in 1 .. n - 1 : Tail(a)[i] = a[i + 1]
    BY <2>1, <2>3, HeadTailProperties
  <2>8. PICK l \in Nat : l = n - 1
    BY <2>1
  <2>9. /\ Tail(a) \o b \in Seq(T) /\ Len(Tail(a) \o b) = l + m
        /\ \A i \in 1 .. l + m : (Tail(a) \o b)[i] = IF i <= l THEN Tail(a)[i] ELSE b[i - l]
    BY <2>1, <2>7, <2>8, ConcatProperties
  <2>10. ASSUME NEW i \in 1 .. l + m PROVE Tail(a \o b)[i] = (Tail(a) \o b)[i]
    <3> i \in Int /\ i \in 1 .. n + m - 1 /\ i + 1 \in 1 .. n + m
      BY <2>8
    <3>1. CASE i <= l
      <4>1. i \in 1 .. n - 1 /\ i + 1 <= n
        BY <2>8, <3>1
      <4> QED BY <2>2, <2>6, <2>7, <2>9, <3>1, <4>1
    <3>2. CASE ~(i <= l)
      <4>1. ~(i + 1 <= n) /\ (i + 1) - n = i - l
        BY <2>8, <3>2
      <4> QED BY <2>2, <2>6, <2>9, <3>2, <4>1
    <3> QED BY <3>1, <3>2
  <2>11. Tail(a \o b) = Tail(a) \o b
    <3>1. Len(Tail(a \o b)) = l + m
      BY <2>6, <2>8
    <3> QED BY <2>6, <2>9, <2>10, <3>1, SeqEqual
  <2> QED BY <1>1, <1>3, <2>3, <2>4, <2>5, <2>11 DEF Rest
<1> QED BY <1>2, <1>3

\* The output side of one edge.
LEMMA OutClock ==
    ASSUME CInv, NEW beat \in Offers, NEW rdy \in BOOLEAN, Clock(beat, rdy)
    PROVE  /\ Rest(due, m_xfer(c, rdy)) \in Seq(Sent)
           /\ c'.m_tvalid =>
                /\ Rest(due, m_xfer(c, rdy)) # <<>>
                /\ Head(Rest(due, m_xfer(c, rdy))) = Tag(c'.out, meta_dest(c'))
           /\ Explained(Rest(c.data, data_rd_en(c, rdy)), Rest(c.meta, meta_rd_en(c, rdy)),
                        IF bypassed(c, beat, rdy) THEN FALSE ELSE Open(c'),
                        IF bypassed(c, beat, rdy) THEN meta_dest(c) ELSE meta_dest(c'),
                        Rest(Rest(due, m_xfer(c, rdy)), c'.m_tvalid),
                        Header, Busy, Judged(arriving))
<1> DEFINE rd   == data_rd_en(c, rdy)
           pop  == meta_rd_en(c, rdy)
           byp  == bypassed(c, beat, rdy)
           hit  == meta_hit(c)
           free == out_free(c, rdy)
           mx   == m_xfer(c, rdy)
           mv   == c.m_tvalid
           q    == Rest(due, mv)
           next == Rest(due, mx)
           dest == meta_dest(c)
           j    == Judged(arriving)
<1>1. /\ Explained(c.data, c.meta, Open(c), dest, q, Header, Busy, j)
      /\ due \in Seq(Sent) /\ mv \in BOOLEAN
      /\ mv => due # <<>> /\ Head(due) = Tag(c.out, dest)
      /\ OInv /\ c.data \in Seq(Beat) /\ c.meta \in Seq(Verdict)
  BY DEF CInv, Shown, OInv, Explained
<1>2. c' = ClassifierClocked(c, beat, rdy)
  BY DEF Clock
<1>3. verdict(c, beat) \in Verdict
  BY MatchType DEF verdict, Verdict
<1>4. /\ rd => /\ Open(c) /\ c.data # <<>> /\ ~pop /\ ~byp
               /\ IF hit THEN free ELSE ~mv
               /\ c'.out = Head(c.data) /\ Open(c') = ~Head(c.data).last
               /\ c'.m_tvalid = hit
      /\ ~rd => /\ Open(c') = (Open(c) \/ pop \/ byp)
                /\ c'.out = c.out /\ c'.m_tvalid = (mv /\ ~free)
      /\ pop => ~Open(c) /\ c.meta # <<>> /\ free /\ ~byp
      /\ byp => ~Open(c) /\ c.meta = <<>> /\ free
      /\ meta_dest(c') = (IF pop THEN Head(c.meta) ELSE IF byp THEN verdict(c, beat) ELSE dest)
  BY <1>1, <1>2, <1>3, Outcome
<1>5. (mx <=> mv /\ rdy) /\ (free <=> ~mv \/ rdy) /\ (hit <=> dest # None)
      /\ hit \in BOOLEAN /\ Open(c) \in BOOLEAN
  BY <1>1 DEF m_xfer, out_free, meta_hit, Open
<1>6. /\ free => next = q
      /\ ~free => next = due /\ mv
  BY <1>5 DEF Rest
<1>7. next \in Seq(Sent) /\ q \in Seq(Sent)
  BY <1>1, HeadTailProperties DEF Rest
<1> HIDE DEF rd, pop, byp, hit, free, mx, mv, q, next, dest, j
<1>8. CASE rd
  <2>1. Explained(c.data, c.meta, TRUE, dest, q, Header, Busy, j)
    <3>1. Open(c) = TRUE
      BY <1>4, <1>5, <1>8
    <3> QED BY <1>1, <3>1
  <2>2. /\ dest # None => q # <<>> /\ Head(q) = Tag(Head(c.data), dest)
        /\ Explained(Tail(c.data), c.meta, ~Head(c.data).last, dest, Rest(q, dest # None),
                     Header, Busy, j)
    BY <1>4, <1>8, <2>1, ReadExplained
  <2>3. /\ meta_dest(c') = dest /\ c'.out = Head(c.data) /\ Open(c') = ~Head(c.data).last
        /\ c'.m_tvalid = hit /\ ~pop /\ ~byp /\ c.data # <<>>
    BY <1>4, <1>8
  <2>4. Rest(c.data, rd) = Tail(c.data) /\ Rest(c.meta, pop) = c.meta
    BY <1>8, <2>3 DEF Rest
  <2>5. next = q
    BY <1>4, <1>5, <1>6, <1>8
  <2>6. Rest(next, c'.m_tvalid) = Rest(q, dest # None)
    BY <1>5, <2>3, <2>5
  <2>7. c'.m_tvalid => next # <<>> /\ Head(next) = Tag(c'.out, meta_dest(c'))
    BY <1>5, <2>2, <2>3, <2>5
  <2> QED BY <1>7, <2>2, <2>3, <2>4, <2>6, <2>7 DEF rd, pop, byp, mx, next, dest, j
<1>9. CASE ~rd
  <2>1. Rest(c.data, rd) = c.data
    BY <1>9 DEF Rest
  <2>2. Rest(next, c'.m_tvalid) = q
    <3>1. CASE free
      BY <1>4, <1>6, <1>9, <3>1 DEF Rest
    <3>2. CASE ~free
      <4>1. c'.m_tvalid = TRUE /\ mv = TRUE /\ next = due
        BY <1>1, <1>4, <1>6, <1>9, <3>2
      <4> QED BY <4>1 DEF q
    <3> QED BY <3>1, <3>2
  <2>3. c'.m_tvalid => next # <<>> /\ Head(next) = Tag(c'.out, meta_dest(c'))
    <3> SUFFICES ASSUME c'.m_tvalid
                 PROVE  next # <<>> /\ Head(next) = Tag(c'.out, meta_dest(c'))
      OBVIOUS
    <3>1. ~free /\ mv /\ c'.out = c.out
      BY <1>4, <1>9
    <3>2. ~pop /\ ~byp /\ meta_dest(c') = dest /\ next = due
      BY <1>4, <1>6, <3>1
    <3> QED BY <1>1, <3>1, <3>2
  <2>4. CASE pop
    <3>1. Explained(c.data, c.meta, FALSE, dest, q, Header, Busy, j)
      <4>1. Open(c) = FALSE
        BY <1>4, <1>5, <2>4
      <4> QED BY <1>1, <4>1
    <3>2. Explained(c.data, Tail(c.meta), TRUE, Head(c.meta), q, Header, Busy, j)
      BY <1>4, <2>4, <3>1, TakeExplained
    <3>3. Rest(c.meta, pop) = Tail(c.meta) /\ ~byp /\ Open(c') = TRUE /\ meta_dest(c') = Head(c.meta)
      <4>1. Open(c') = (Open(c) \/ pop \/ byp)
        BY <1>4, <1>9
      <4>2. Open(c') = TRUE
        BY <2>4, <4>1
      <4> QED BY <1>4, <2>4, <4>2 DEF Rest
    <3> QED BY <1>7, <2>1, <2>2, <2>3, <3>2, <3>3 DEF rd, pop, byp, mx, next, dest, j
  <2>5. CASE ~pop /\ byp
    <3>1. Open(c) = FALSE
      BY <1>4, <1>5, <2>5
    <3>2. Explained(c.data, c.meta, FALSE, dest, q, Header, Busy, j)
      BY <1>1, <3>1
    <3>3. Rest(c.meta, pop) = c.meta
      BY <2>5 DEF Rest
    <3> QED BY <1>7, <2>1, <2>2, <2>3, <2>5, <3>2, <3>3 DEF rd, pop, byp, mx, next, dest, j
  <2>6. CASE ~pop /\ ~byp
    <3>1. Rest(c.meta, pop) = c.meta /\ Open(c') = Open(c) /\ meta_dest(c') = dest
      <4>1. Open(c') = (Open(c) \/ pop \/ byp)
        BY <1>4, <1>9
      <4>2. Open(c') = Open(c)
        BY <1>5, <2>6, <4>1
      <4> QED BY <1>4, <2>6, <4>2 DEF Rest
    <3> QED BY <1>1, <1>7, <2>1, <2>2, <2>3, <2>6, <3>1 DEF rd, pop, byp, mx, next, dest, j
  <2> QED BY <2>4, <2>5, <2>6
<1> QED BY <1>8, <1>9

\* What the scoreboard makes of the edge: the frame that is arriving, and what comes due.
LEMMA Accounted ==
    ASSUME HInv, NEW beat \in Offers, NEW rdy \in BOOLEAN, Clock(beat, rdy)
    PROVE  /\ ~s_xfer(c, beat) =>
                /\ arriving' = arriving /\ ~meta_wr_en(c, beat)
                /\ due' = Rest(due, m_xfer(c, rdy)) \o <<>>
           /\ s_xfer(c, beat) /\ Len(arriving) < MacBytes /\ ~Decided(beat) =>
                /\ arriving' = Now(beat) /\ Len(Now(beat)) < MacBytes /\ ~beat.last
                /\ due' = Rest(due, m_xfer(c, rdy)) \o <<>>
           /\ s_xfer(c, beat) /\ Decided(beat) =>
                /\ arriving' = (IF beat.last THEN <<>> ELSE Now(beat))
                /\ Len(Now(beat)) <= MacBytes
                /\ ~beat.last => Len(Now(beat)) = MacBytes
                /\ due' = Rest(due, m_xfer(c, rdy)) \o Tags(Now(beat), Judged(Now(beat)))
           /\ s_xfer(c, beat) /\ ~(Len(arriving) < MacBytes) =>
                /\ arriving' = (IF beat.last THEN <<>> ELSE arriving)
                /\ Len(arriving) = MacBytes /\ ~Decided(beat)
                /\ due' = Rest(due, m_xfer(c, rdy)) \o Tags(<<beat>>, Judged(arriving))
<1> DEFINE next == Rest(due, m_xfer(c, rdy))
           x    == s_xfer(c, beat)
           now  == IF x THEN Now(beat) ELSE arriving
           dec  == x /\ Len(arriving) < MacBytes /\ (Len(now) = MacBytes \/ beat.last)
           more == IF dec THEN now ELSE IF x /\ Len(arriving) = MacBytes THEN <<beat>> ELSE <<>>
<1>1. /\ arriving' = IF x /\ beat.last THEN <<>> ELSE IF Len(now) > MacBytes THEN arriving ELSE now
      /\ due' = next \o Tags(more, Judged(now))
  BY DEF Clock, Account, Now, Tags
<1>2. PICK l \in Nat : l = Len(arriving) /\ l <= MacBytes
  BY LenProperties DEF HInv
<1>3. MacBytes \in Nat /\ MacBytes >= 2
  BY ClassifierAssumption
<1>4. x => beat \in Beat /\ Len(Now(beat)) = l + 1
  BY <1>2, Arriving, VerdictRight
<1>5. \A f : Tags(<<>>, Judged(f)) = <<>>
  <2> SUFFICES ASSUME NEW f PROVE Tags(<<>>, Judged(f)) = <<>>
    OBVIOUS
  <2>1. Judged(f) \in Verdict /\ <<>> \in Seq(Beat) /\ Len(<<>>) = 0
    BY JudgedType, EmptySeq
  <2>2. Tags(<<>>, Judged(f)) \in Seq(Sent) /\ Len(Tags(<<>>, Judged(f))) = 0
    BY <2>1, TagsType
  <2> QED BY <2>2, EmptySeq
<1>6. CASE ~x
  <2>1. arriving' = arriving
    BY <1>1, <1>2, <1>3, <1>6
  <2>2. more = <<>>
    BY <1>6
  <2>3. due' = next \o <<>>
    <3>1. Tags(more, Judged(now)) = <<>>
      BY <1>5, <2>2
    <3> QED BY <1>1, <3>1
  <2>4. ~meta_wr_en(c, beat)
    BY <1>6 DEF meta_wr_en, hdr_last
  <2> QED BY <1>6, <2>1, <2>3, <2>4
<1>7. CASE x /\ Len(arriving) < MacBytes /\ ~Decided(beat)
  <2>1. ~dec /\ ~(Len(arriving) = MacBytes) /\ ~beat.last /\ Len(Now(beat)) < MacBytes
    BY <1>2, <1>3, <1>4, <1>7 DEF Decided
  <2>2. now = Now(beat) /\ more = <<>>
    BY <1>7, <2>1
  <2>3. arriving' = Now(beat)
    BY <1>1, <1>2, <1>3, <1>4, <2>1, <2>2
  <2> QED BY <1>1, <1>5, <1>7, <2>1, <2>2, <2>3
<1>8. CASE x /\ Decided(beat)
  <2>1. dec /\ Len(arriving) < MacBytes /\ (Len(Now(beat)) = MacBytes \/ beat.last)
    BY <1>8 DEF Decided
  <2>2. now = Now(beat) /\ more = Now(beat) /\ Len(Now(beat)) <= MacBytes
    BY <1>2, <1>3, <1>4, <1>8, <2>1
  <2>3. arriving' = (IF beat.last THEN <<>> ELSE Now(beat))
    BY <1>1, <1>2, <1>3, <1>4, <1>8, <2>2
  <2> QED BY <1>1, <1>8, <2>1, <2>2, <2>3
<1>9. CASE x /\ ~(Len(arriving) < MacBytes)
  <2>1. Len(arriving) = MacBytes /\ ~dec /\ ~Decided(beat)
    BY <1>2, <1>3, <1>9 DEF Decided
  <2>2. now = Now(beat) /\ more = <<beat>> /\ Len(Now(beat)) > MacBytes
    BY <1>2, <1>3, <1>4, <1>9, <2>1
  <2>3. arriving' = (IF beat.last THEN <<>> ELSE arriving)
    BY <1>1, <1>9, <2>2
  <2>4. Judged(Now(beat)) = Judged(arriving)
    BY <1>9, <2>1, VerdictRight
  <2> QED BY <1>1, <1>9, <2>1, <2>2, <2>3, <2>4
<1> HIDE DEF x, next
<1>10. /\ (x /\ Len(arriving) < MacBytes /\ ~Decided(beat)) \/ (x /\ Decided(beat))
           \/ (x /\ ~(Len(arriving) < MacBytes)) \/ ~x
  OBVIOUS
<1> QED BY <1>6, <1>7, <1>8, <1>9, <1>10 DEF x, next, Decided

\* What one edge adds to the buffer and to the verdicts that wait: there is room for both.
LEMMA QueuesClock ==
    ASSUME CInv, NEW beat \in Offers, NEW rdy \in BOOLEAN,
           c' = ClassifierClocked(c, beat, rdy)
    PROVE  LET d == Rest(c.data, data_rd_en(c, rdy))
               m == Rest(c.meta, meta_rd_en(c, rdy))
           IN  /\ s_xfer(c, beat) => c'.data = Append(d, beat)
               /\ ~s_xfer(c, beat) => c'.data = d
               /\ s_xfer(c, beat) /\ meta_wr_en(c, beat) /\ ~bypassed(c, beat, rdy) =>
                    c'.meta = Append(m, verdict(c, beat))
               /\ ~meta_wr_en(c, beat) \/ bypassed(c, beat, rdy) => c'.meta = m
<1> DEFINE x    == s_xfer(c, beat)
           wr   == meta_wr_en(c, beat)
           byp  == bypassed(c, beat, rdy)
           d    == Rest(c.data, data_rd_en(c, rdy))
           m    == Rest(c.meta, meta_rd_en(c, rdy))
<1>1. /\ c'.data = d \o Added(c.data, BufDepth, x, beat)
      /\ c'.meta = m \o Added(c.meta, MetaDepth, wr /\ ~byp, verdict(c, beat))
  BY DEF ClassifierClocked, After
<1>2. /\ BInv /\ c.data \in Seq(Beat) /\ c.meta \in Seq(Verdict) /\ verdict(c, beat) \in Verdict
      /\ Len(c.meta) <= Len(c.data)
  BY FewVerdicts, MatchType DEF CInv, Explained, verdict, Verdict
<1>3. d \in Seq(Beat) /\ m \in Seq(Verdict)
  BY <1>2, HeadTailProperties DEF Rest
<1>4. x => /\ beat \in Beat
           /\ Len(c.data) # BufDepth /\ Len(c.meta) # MetaDepth
  <2> SUFFICES ASSUME x PROVE /\ beat \in Beat
                              /\ Len(c.data) # BufDepth /\ Len(c.meta) # MetaDepth
    OBVIOUS
  <2>1. beat \in Beat /\ Len(c.data) < BufDepth
    BY <1>2 DEF s_xfer, Offers, BInv, BufferRoom
  <2>2. Len(c.data) \in Nat /\ Len(c.meta) \in Nat /\ BufDepth \in Nat /\ MetaDepth \in Nat
        /\ MetaDepth >= BufDepth
    BY <1>2, LenProperties, ClassifierAssumption
  <2> QED BY <1>2, <2>1, <2>2
<1>5. x => c'.data = d \o <<beat>>
  BY <1>1, <1>4 DEF Added
<1>6. ~x => c'.data = d \o <<>>
  BY <1>1 DEF Added
<1>7. x /\ wr /\ ~byp => c'.meta = m \o <<verdict(c, beat)>>
  BY <1>1, <1>4 DEF Added
<1>8. ~wr \/ byp => c'.meta = m \o <<>>
  BY <1>1 DEF Added
<1>9. /\ d \o <<>> = d /\ m \o <<>> = m
      /\ x => Append(d, beat) = d \o <<beat>>
      /\ Append(m, verdict(c, beat)) = m \o <<verdict(c, beat)>>
  BY <1>2, <1>3, <1>4, ConcatEmptySeq, AppendIsConcat
<1> QED BY <1>5, <1>6, <1>7, <1>8, <1>9

\* A clock edge: what comes out comes out, then what arrives arrives.
LEMMA VerdictClock ==
    ASSUME CInv, NEW beat \in Offers, NEW rdy \in BOOLEAN, Clock(beat, rdy)
    PROVE  CInv'
<1> DEFINE x    == s_xfer(c, beat)
           wr   == meta_wr_en(c, beat)
           byp  == bypassed(c, beat, rdy)
           d    == Rest(c.data, data_rd_en(c, rdy))
           m    == Rest(c.meta, meta_rd_en(c, rdy))
           next == Rest(due, m_xfer(c, rdy))
           mv   == c'.m_tvalid
           q    == Rest(next, mv)
           open == IF byp THEN FALSE ELSE Open(c')
           dest == IF byp THEN meta_dest(c) ELSE meta_dest(c')
           j    == Judged(arriving)
           v    == Judged(Now(beat))
           Goal(t) == /\ t \in Seq(Sent) /\ due' = next \o t
                      /\ Explained(c'.data, c'.meta, Open(c'), meta_dest(c'), q \o t,
                                   Header', Busy', Judged(arriving)')
<1>1. /\ next \in Seq(Sent)
      /\ mv => next # <<>> /\ Head(next) = Tag(c'.out, meta_dest(c'))
      /\ Explained(d, m, open, dest, q, Header, Busy, j)
  BY OutClock
<1>2. /\ BInv /\ HInv /\ OInv /\ BInv' /\ HInv'
      /\ c' = ClassifierClocked(c, beat, rdy)
  BY BufferClock, HeaderClock DEF CInv, Clock
<1>3. /\ c.data \in Seq(Beat) /\ c.meta \in Seq(Verdict)
      /\ Explained(c.data, c.meta, Open(c), meta_dest(c), Rest(due, c.m_tvalid),
                   Header, Busy, j)
  BY DEF CInv, Explained
<1>4. j \in Verdict /\ v \in Verdict /\ verdict(c, beat) \in Verdict
  BY JudgedType, MatchType DEF verdict, Verdict
<1>5. /\ OInv' /\ mv \in BOOLEAN
      /\ byp => Open(c') = TRUE /\ meta_dest(c') = verdict(c, beat) /\ c.meta = <<>> /\ m = <<>>
                  /\ wr
  <2>1. /\ OInv'
        /\ ~data_rd_en(c, rdy) => Open(c') = (Open(c) \/ meta_rd_en(c, rdy) \/ byp)
        /\ data_rd_en(c, rdy) => ~byp
        /\ meta_rd_en(c, rdy) => ~byp
        /\ byp => c.meta = <<>> /\ wr
        /\ meta_dest(c') = (IF meta_rd_en(c, rdy) THEN Head(c.meta)
                            ELSE IF byp THEN verdict(c, beat) ELSE meta_dest(c))
    BY <1>2, <1>3, <1>4, Outcome
  <2>2. c.meta = <<>> => m = <<>>
    BY DEF Rest
  <2>3. mv \in BOOLEAN
    BY <2>1 DEF OInv
  <2> QED BY <2>1, <2>2, <2>3
<1>7. d \in Seq(Beat) /\ m \in Seq(Verdict) /\ q \in Seq(Sent)
  BY <1>1 DEF Explained, Sorted
<1>8. x => beat \in Beat
  BY DEF s_xfer, Offers
<1>9. /\ x => c'.data = Append(d, beat)
      /\ ~x => c'.data = d
      /\ x /\ wr /\ ~byp => c'.meta = Append(m, verdict(c, beat))
      /\ ~wr \/ byp => c'.meta = m
  BY <1>2, QueuesClock
<1>10. /\ <<>> \in Seq(Beat) /\ <<>> \in Seq(Sent) /\ Len(<<>>) = 0 /\ q \o <<>> = q
       /\ MacBytes \in Nat /\ MacBytes >= 2
       /\ Len(arriving) \in Nat /\ arriving \in Seq(Beat)
  <2>1. /\ <<>> \in Seq(Beat) /\ <<>> \in Seq(Sent) /\ Len(<<>>) = 0
    BY EmptySeq
  <2>2. q \o <<>> = q
    BY <1>7, ConcatEmptySeq
  <2>3. Len(arriving) \in Nat /\ arriving \in Seq(Beat)
    BY <1>2, LenProperties DEF HInv
  <2> QED BY <2>1, <2>2, <2>3, ClassifierAssumption
<1>11. byp => x
  BY <1>5 DEF meta_wr_en, hdr_last
<1>12. \E t : Goal(t)
  <2>1. CASE ~x
    <3>1. arriving' = arriving /\ ~wr /\ ~byp /\ due' = next \o <<>>
      BY <1>2, <1>5, <2>1, Accounted
    <3>2. /\ c'.data = d /\ c'.meta = m /\ open = Open(c') /\ dest = meta_dest(c')
          /\ Header' = Header /\ Busy' = Busy /\ Judged(arriving)' = j
      BY <1>9, <2>1, <3>1 DEF Header, Busy, Judged
    <3> HIDE DEF x, wr, byp, d, m, next, mv, q, open, dest, j, v
    <3>3. Goal(<<>>)
      BY <1>1, <1>10, <3>1, <3>2
    <3> QED BY <3>3
  <2>2. CASE x /\ Len(arriving) < MacBytes
    <3>1. Header = arriving /\ Busy = FALSE /\ beat \in Beat
      <4>1. ~(Len(arriving) = MacBytes)
        BY <1>10, <2>2
      <4> QED BY <1>8, <2>2, <4>1 DEF Header, Busy
    <3>2. Explained(Append(d, beat), m, open, dest, q, Now(beat), FALSE, j)
      <4>1. Explained(d, m, open, dest, q, arriving, FALSE, j)
        BY <1>1, <3>1
      <4> HIDE DEF x, wr, byp, d, m, next, mv, q, open, dest, j, v
      <4> QED BY <3>1, <4>1, HeaderExplained DEF Now
    <3>3. CASE ~Decided(beat)
      <4>1. /\ arriving' = Now(beat) /\ Len(Now(beat)) < MacBytes
            /\ due' = next \o <<>>
        BY <1>2, <2>2, <3>3, Accounted
      <4>2. ~wr /\ ~byp
        BY <1>2, <1>5, <2>2, <3>3, VerdictRight
      <4>3. /\ c'.data = Append(d, beat) /\ c'.meta = m
            /\ open = Open(c') /\ dest = meta_dest(c')
        BY <1>9, <2>2, <4>2
      <4>4. Header' = Now(beat) /\ Busy' = FALSE
        <5>1. ~(Len(Now(beat)) = MacBytes)
          BY <1>2, <1>10, <3>1, <4>1, Arriving
        <5> QED BY <4>1, <5>1 DEF Header, Busy
      <4> HIDE DEF x, wr, byp, d, m, next, mv, q, open, dest, j, v
      <4>5. Explained(Append(d, beat), m, open, dest, q, Now(beat), FALSE, Judged(arriving)')
        BY <3>2, IdleExplained
      <4>6. Goal(<<>>)
        BY <1>10, <4>1, <4>3, <4>4, <4>5
      <4> QED BY <4>6
    <3>4. CASE Decided(beat)
      <4>1. /\ arriving' = (IF beat.last THEN <<>> ELSE Now(beat))
            /\ Len(Now(beat)) <= MacBytes
            /\ ~beat.last => Len(Now(beat)) = MacBytes
            /\ due' = next \o Tags(Now(beat), v)
        BY <1>2, <2>2, <3>4, Accounted
      <4>2. wr /\ verdict(c, beat) = v
        BY <1>2, <2>2, <3>4, VerdictRight
      <4>3. /\ Now(beat) # <<>> /\ Now(beat) \in Seq(Beat)
            /\ \A i \in 1 .. Len(Now(beat)) - 1 : ~Now(beat)[i].last
            /\ Now(beat)[Len(Now(beat))] = beat
        <5>1. PICK l \in Nat : l = Len(arriving)
          BY <1>10
        <5>2. /\ Now(beat) \in Seq(Beat) /\ Len(Now(beat)) = l + 1
              /\ \A k \in 1 .. l : Now(beat)[k] = arriving[k]
              /\ Now(beat)[l + 1] = beat
          BY <1>2, <3>1, <5>1, Arriving
        <5>3. \A k \in 1 .. l : ~arriving[k].last
          BY <1>2, <5>1 DEF HInv
        <5>4. Now(beat) # <<>>
          BY <1>10, <5>2
        <5>5. l + 1 - 1 = l
          BY <5>1
        <5> QED BY <5>2, <5>3, <5>4, <5>5
      <4>4. Header' = <<>> /\ Busy' = ~beat.last
        <5>1. CASE beat.last
          <6>1. arriving' = <<>> /\ Len(<<>>) < MacBytes /\ Len(<<>>) # MacBytes
            BY <1>10, <4>1, <5>1
          <6>2. Header' = <<>> /\ Busy' = FALSE
            BY <6>1 DEF Header, Busy
          <6> QED BY <5>1, <6>2
        <5>2. CASE ~beat.last
          <6>1. arriving' = Now(beat) /\ ~(Len(Now(beat)) < MacBytes) /\ Len(Now(beat)) = MacBytes
            BY <1>10, <4>1, <5>2
          <6>2. Header' = <<>> /\ Busy' = TRUE
            BY <6>1 DEF Header, Busy
          <6>3. beat.last \in BOOLEAN
            BY <3>1 DEF Beat
          <6> QED BY <5>2, <6>2, <6>3
        <5> QED BY <5>1, <5>2
      <4>5. Tags(Now(beat), v) \in Seq(Sent)
        BY <1>4, <4>3, TagsType
      <4>6. c'.data = Append(d, beat)
        BY <1>9, <2>2
      <4>7. ~byp => c'.meta = Append(m, v) /\ open = Open(c') /\ dest = meta_dest(c')
        BY <1>9, <2>2, <4>2
      <4>8. byp => c'.meta = <<>> /\ m = <<>> /\ open = FALSE
                     /\ Open(c') = TRUE /\ meta_dest(c') = v
        BY <1>5, <1>9, <4>2
      <4>9. Judged(arriving)' = v \/ beat.last
        BY <4>1 DEF Judged
      <4> HIDE DEF x, wr, byp, d, m, next, mv, q, open, dest, j, v
      <4>10. Explained(Append(d, beat), Append(m, v), open, dest, q \o Tags(Now(beat), v), <<>>,
                       ~beat.last, v)
        BY <1>4, <3>2, <4>3, JudgeExplained
      <4>11. Explained(Append(d, beat), c'.meta, Open(c'), meta_dest(c'),
                       q \o Tags(Now(beat), v), <<>>, ~beat.last, v)
        <5>1. CASE ~byp
          BY <4>7, <4>10, <5>1
        <5>2. CASE byp
          <6>1. Append(m, v) = <<v>> /\ <<v>> # <<>> /\ Head(<<v>>) = v /\ Tail(<<v>>) = <<>>
            BY <4>8, <5>2
          <6>2. Explained(Append(d, beat), <<v>>, FALSE, dest, q \o Tags(Now(beat), v), <<>>,
                          ~beat.last, v)
            BY <4>8, <4>10, <5>2, <6>1
          <6>3. Explained(Append(d, beat), Tail(<<v>>), TRUE, Head(<<v>>),
                          q \o Tags(Now(beat), v), <<>>, ~beat.last, v)
            BY <6>1, <6>2, TakeExplained
          <6> QED BY <4>8, <5>2, <6>1, <6>3
        <5> QED BY <5>1, <5>2
      <4>12. Explained(Append(d, beat), c'.meta, Open(c'), meta_dest(c'),
                       q \o Tags(Now(beat), v), <<>>, ~beat.last, Judged(arriving)')
        <5>1. CASE beat.last
          <6>1. (~beat.last) = FALSE
            BY <5>1
          <6> QED BY <4>11, <6>1, IdleExplained
        <5>2. CASE ~beat.last
          BY <4>9, <4>11, <5>2
        <5> QED BY <5>1, <5>2
      <4>13. Goal(Tags(Now(beat), v))
        BY <4>1, <4>4, <4>5, <4>6, <4>12
      <4> QED BY <4>13
    <3> QED BY <3>3, <3>4
  <2>3. CASE x /\ ~(Len(arriving) < MacBytes)
    <3>1. /\ arriving' = (IF beat.last THEN <<>> ELSE arriving)
          /\ Len(arriving) = MacBytes /\ ~Decided(beat)
          /\ due' = next \o Tags(<<beat>>, j)
      BY <1>2, <2>3, Accounted
    <3>2. ~wr /\ ~byp
      BY <1>2, <1>5, <2>3, <3>1, VerdictRight
    <3>3. /\ c'.data = Append(d, beat) /\ c'.meta = m
          /\ open = Open(c') /\ dest = meta_dest(c')
      BY <1>9, <2>3, <3>2
    <3>4. Header = <<>> /\ Busy = TRUE /\ beat \in Beat
      BY <1>8, <2>3, <3>1 DEF Header, Busy
    <3>5. Header' = <<>> /\ Busy' = ~beat.last
      <4>1. CASE beat.last
        <5>1. arriving' = <<>> /\ Len(<<>>) < MacBytes /\ Len(<<>>) # MacBytes
          BY <1>10, <3>1, <4>1
        <5>2. Header' = <<>> /\ Busy' = FALSE
          BY <5>1 DEF Header, Busy
        <5> QED BY <4>1, <5>2
      <4>2. CASE ~beat.last
        <5>1. arriving' = arriving
          BY <3>1, <4>2
        <5>2. Header' = <<>> /\ Busy' = TRUE
          BY <3>1, <2>3, <5>1 DEF Header, Busy
        <5>3. beat.last \in BOOLEAN
          BY <3>4 DEF Beat
        <5> QED BY <4>2, <5>2, <5>3
      <4> QED BY <4>1, <4>2
    <3>6. Tags(<<beat>>, j) \in Seq(Sent)
      <4>1. <<beat>> \in Seq(Beat)
        BY <3>4
      <4> QED BY <1>4, <4>1, TagsType
    <3>7. Judged(arriving)' = j \/ beat.last
      BY <3>1 DEF Judged
    <3> HIDE DEF x, wr, byp, d, m, next, mv, q, open, dest, j, v
    <3>8. Explained(Append(d, beat), m, open, dest, q \o Tags(<<beat>>, j), <<>>, ~beat.last, j)
      <4>1. Explained(d, m, open, dest, q, <<>>, TRUE, j)
        BY <1>1, <3>4
      <4> QED BY <1>4, <3>4, <4>1, BodyExplained
    <3>9. Explained(Append(d, beat), m, open, dest, q \o Tags(<<beat>>, j), <<>>, ~beat.last,
                    Judged(arriving)')
      <4>1. CASE beat.last
        <5>1. (~beat.last) = FALSE
          BY <4>1
        <5> QED BY <3>8, <5>1, IdleExplained
      <4>2. CASE ~beat.last
        BY <3>7, <3>8, <4>2
      <4> QED BY <4>1, <4>2
    <3>10. Goal(Tags(<<beat>>, j))
      BY <3>1, <3>3, <3>5, <3>6, <3>9
    <3> QED BY <3>10
  <2> QED BY <2>1, <2>2, <2>3
<1>13. PICK t : Goal(t)
  BY <1>12
<1> HIDE DEF x, wr, byp, d, m, next, mv, open, dest, j, v
<1>14. /\ due' \in Seq(Sent) /\ Rest(due', mv) = q \o t
       /\ mv => due' # <<>> /\ Head(due') = Head(next)
  <2>1. t \in Seq(Sent) /\ due' = next \o t
    BY <1>13
  <2>2. mv => next # <<>>
    BY <1>1
  <2> QED BY <1>1, <1>5, <2>1, <2>2, RestConcat
<1>15. Shown'
  <2>1. mv => due' # <<>> /\ Head(due') = Tag(c'.out, meta_dest(c'))
    BY <1>1, <1>14
  <2> QED BY <1>14, <2>1 DEF Shown, mv, meta_dest, Tag
<1>16. Explained(c'.data, c'.meta, Open(c'), meta_dest(c'), Rest(due', mv),
                 Header', Busy', Judged(arriving)')
  BY <1>13, <1>14
<1> QED BY <1>2, <1>5, <1>15, <1>16 DEF CInv, mv, Open, meta_dest

\* Out of reset the classifier owes nothing, whatever the registers hold.
Fresh == /\ \E addr \in Address, d \in Verdict : c = ResetClassifier(addr, d)
         /\ arriving = <<>> /\ due = <<>>

LEMMA VerdictReset == Fresh => CInv
<1> SUFFICES ASSUME Fresh PROVE CInv
  OBVIOUS
<1>0. PICK addr \in Address, d \in Verdict : c = ResetClassifier(addr, d)
  BY DEF Fresh
<1>1. /\ c.data = <<>> /\ c.meta = <<>> /\ c.fill = 0 /\ c.s_tready = FALSE
      /\ c.in_frame = FALSE /\ c.addr = addr
      /\ c.meta_live = FALSE /\ c.m_tvalid = FALSE /\ c.data_rd_q = FALSE
      /\ c.from_bypass = FALSE /\ c.bypass = d /\ c.meta_rd_data = None
      /\ c.out = [byte |-> CHOOSE b \in Byte : TRUE, last |-> FALSE]
  BY <1>0 DEF ResetClassifier
<1>2. /\ arriving = <<>> /\ due = <<>>
      /\ <<>> \in Seq(Beat) /\ <<>> \in Seq(Sent) /\ Len(<<>>) = 0
      /\ MacBytes \in Nat /\ MacBytes >= 2
  BY EmptySeq, ClassifierAssumption DEF Fresh
<1>3. BInv
  BY <1>1, <1>2 DEF BInv, BufferRoom
<1>4. HInv
  <2>1. \A k \in 1 .. Len(arriving) : FALSE
    BY <1>2
  <2> QED BY <1>1, <1>2, <2>1 DEF HInv
<1>5. OInv
  <2>1. (CHOOSE b \in Byte : TRUE) \in Byte
    BY PadAssumption
  <2>2. c.out \in Beat
    BY <1>1, <2>1 DEF Beat
  <2> QED BY <1>1, <2>2 DEF OInv, Verdict
<1>6. Shown
  BY <1>1, <1>2 DEF Shown
<1>7. Header = <<>> /\ Busy = FALSE
  <2>1. Len(<<>>) < MacBytes /\ Len(<<>>) # MacBytes
    BY <1>2
  <2> QED BY <1>2, <2>1 DEF Header, Busy
<1>8. Open(c) = FALSE
  BY <1>1 DEF Open
<1>9. Rest(<<>>, c.m_tvalid) = <<>>
  BY DEF Rest
<1>10. Explained(c.data, c.meta, Open(c), meta_dest(c), Rest(due, c.m_tvalid),
                 Header, Busy, Judged(arriving))
  <2>1. Explained(<<>>, <<>>, FALSE, meta_dest(c), <<>>, <<>>, FALSE, Judged(arriving))
    BY EmptyExplained
  <2> QED BY <1>1, <1>2, <1>7, <1>8, <1>9, <2>1
<1> QED BY <1>3, <1>4, <1>5, <1>6, <1>10 DEF CInv, Open, meta_dest

LEMMA VerdictInit == Init => Fresh
  BY DEF Init, Fresh, Verdict

LEMMA VerdictStep == CInv /\ [Next]_vars => CInv'
<1> SUFFICES ASSUME CInv, [Next]_vars PROVE CInv'
  OBVIOUS
<1>1. CASE \E beat \in Offers, rdy \in BOOLEAN : Clock(beat, rdy)
  BY <1>1, VerdictClock
<1>2. CASE Reset
  <2>1. c.addr \in Address /\ c.bypass \in Verdict
    BY DEF CInv, HInv, OInv
  <2>2. Fresh'
    BY <1>2, <2>1 DEF Reset, Fresh
  <2>3. Fresh' => CInv'
    BY VerdictReset, PTL
  <2> QED BY <2>2, <2>3
<1>3. CASE UNCHANGED vars
  BY <1>3 DEF vars, CInv, BInv, BufferRoom, HInv, OInv, Shown, meta_hit, meta_dest, Open, Header, Busy, Judged
<1> QED BY <1>1, <1>2, <1>3 DEF Next

\* Readiness keeps no slot of the verdict queue, and none is needed: no more verdicts wait
\* than bytes, for every pair of depths that the code allows (classifier.sv:207, 232).
THEOREM VerdictsFit == Spec => []QueueRoom
<1>1. CInv => QueueRoom
  <2> SUFFICES ASSUME CInv PROVE QueueRoom
    OBVIOUS
  <2>1. BInv /\ c.meta \in Seq(Verdict) /\ Len(c.meta) <= Len(c.data)
    BY FewVerdicts DEF CInv, Explained
  <2>2. Len(c.data) \in Nat /\ Len(c.meta) \in Nat /\ BufDepth \in Nat /\ MetaDepth \in Nat
        /\ MetaDepth >= BufDepth
    BY <2>1, LenProperties, ClassifierAssumption DEF BInv
  <2>3. c.s_tready => Len(c.data) < BufDepth
    BY <2>1 DEF BInv, BufferRoom
  <2> QED BY <2>1, <2>2, <2>3 DEF QueueRoom
<1> QED BY <1>1, VerdictInit, VerdictReset, VerdictStep, PTL DEF Spec

\* Every byte shown is the one due next, with the destination the table has for the
\* address of its own frame, for every table (classifier.sv:126-139, 166-178, 211-229).
THEOREM ShownIsDue == Spec => []ShowsDue
<1>1. CInv => ShowsDue
  BY DEF CInv, Shown, ShowsDue, Tag
<1> QED BY <1>1, VerdictInit, VerdictReset, VerdictStep, PTL DEF Spec
-----------------------------------------------------------------------------
(* Counting misses: they wait in the queue, are read, and are counted.      *)

LEMMA QuotientOf ==
    ASSUME NEW M \in Nat \ {0}, NEW a \in Int
    PROVE  \E q \in Int : a = q * M + (a % M)
<1>1. a = M * (a \div M) + (a % M) /\ a \div M \in Int
  OBVIOUS
<1>2. PICK q \in Int, z \in Int : q = a \div M /\ z = a % M
  BY <1>1
<1>3. a = M * q + z
  BY <1>1, <1>2
<1>4. M * q = q * M
  OBVIOUS
<1>5. a = q * M + z
  BY <1>3, <1>4
<1> QED BY <1>2, <1>5

LEMMA AtLeastOnce == ASSUME NEW M \in Nat \ {0}, NEW d \in Nat \ {0} PROVE d * M >= M
  OBVIOUS

LEMMA RemainderOf ==
    ASSUME NEW M \in Nat \ {0}, NEW q \in Int, NEW r \in 0 .. M - 1
    PROVE  (q * M + r) % M = r
<1>1. PICK a \in Int : a = q * M + r
  OBVIOUS
<1>2. PICK p \in Int : a = p * M + (a % M)
  BY QuotientOf
<1>3. PICK s \in 0 .. M - 1 : s = a % M
  OBVIOUS
<1>4. q * M + r = p * M + s
  BY <1>1, <1>2, <1>3
<1>5. CASE q - p >= 1
  <2>1. PICK d \in Nat \ {0} : d = q - p
    BY <1>5
  <2>2. d * M = s - r
    <3>1. (q - p) * M = s - r
      BY <1>4
    <3> QED BY <2>1, <3>1
  <2> QED BY <2>2, AtLeastOnce
<1>6. CASE p - q >= 1
  <2>1. PICK d \in Nat \ {0} : d = p - q
    BY <1>6
  <2>2. d * M = r - s
    <3>1. (p - q) * M = r - s
      BY <1>4
    <3> QED BY <2>1, <3>1
  <2> QED BY <2>2, AtLeastOnce
<1>7. CASE p = q
  <2>1. q * M + r = q * M + s
    BY <1>4, <1>7
  <2>2. PICK z \in Int : z = q * M
    OBVIOUS
  <2>3. z + r = z + s
    BY <2>1, <2>2
  <2>4. r = s
    BY <2>3
  <2> QED BY <1>1, <1>3, <2>4
<1> QED BY <1>5, <1>6, <1>7

\* A remainder may be taken early.
LEMMA ModAdd ==
    ASSUME NEW M \in Nat \ {0}, NEW x \in Int, NEW y \in Int
    PROVE  ((x % M) + y) % M = (x + y) % M
<1>1. PICK r \in 0 .. M - 1 : r = x % M
  OBVIOUS
<1>2. PICK p \in Int : x = p * M + r
  BY <1>1, QuotientOf
<1>10. PICK b \in Int : b = r + y
  OBVIOUS
<1>3. PICK s \in 0 .. M - 1 : s = b % M
  OBVIOUS
<1>11. PICK q \in Int : b = q * M + s
  BY <1>3, QuotientOf
<1>4. r + y = q * M + s
  BY <1>10, <1>11
<1>5. (p + q) * M + s = x + y
  <2>1. (p + q) * M = p * M + q * M
    OBVIOUS
  <2>2. PICK u \in Int, v \in Int : u = p * M /\ v = q * M
    OBVIOUS
  <2>3. x = u + r /\ r + y = v + s
    BY <1>2, <1>4, <2>2
  <2>4. x + y = (u + v) + s
    BY <2>3
  <2> QED BY <2>1, <2>2, <2>4
<1>6. ((p + q) * M + s) % M = s
  <2>1. p + q \in Int
    OBVIOUS
  <2> QED BY <2>1, RemainderOf
<1> QED BY <1>1, <1>3, <1>5, <1>6, <1>10

Misses(s) == {k \in DOMAIN s : s[k] = None}

\* How many misses there are in a queue that is written to, and read from.
LEMMA MissesAppend ==
    ASSUME NEW s \in Seq(Verdict), NEW v \in Verdict
    PROVE  /\ IsFiniteSet(Misses(s)) /\ Cardinality(Misses(s)) \in Nat
           /\ Cardinality(Misses(Append(s, v))) =
                Cardinality(Misses(s)) + (IF v = None THEN 1 ELSE 0)
<1>1. PICK n \in Nat : n = Len(s) /\ DOMAIN s = 1 .. n
  BY LenProperties
<1>2. IsFiniteSet(Misses(s)) /\ Cardinality(Misses(s)) \in Nat
  <2>1. IsFiniteSet(1 .. n) /\ Misses(s) \subseteq 1 .. n
    BY <1>1, FS_Interval DEF Misses
  <2> QED BY <2>1, FS_Subset, FS_CardinalityType
<1>3. /\ DOMAIN Append(s, v) = 1 .. n + 1
      /\ \A k \in 1 .. n : Append(s, v)[k] = s[k]
      /\ Append(s, v)[n + 1] = v
  <2>1. Append(s, v) \in Seq(Verdict) /\ Len(Append(s, v)) = n + 1
    BY <1>1, AppendProperties
  <2>2. DOMAIN Append(s, v) = 1 .. n + 1
    BY <2>1, LenProperties
  <2> QED BY <1>1, <2>2, AppendProperties
<1>4. n + 1 \notin Misses(s) /\ 1 .. n + 1 = 1 .. n \cup {n + 1}
  BY <1>1 DEF Misses
<1>5. Misses(Append(s, v)) = Misses(s) \cup (IF v = None THEN {n + 1} ELSE {})
  <2>1. ASSUME NEW k \in 1 .. n + 1
        PROVE  k \in Misses(Append(s, v)) <=>
                 k \in Misses(s) \cup (IF v = None THEN {n + 1} ELSE {})
    <3>1. CASE k = n + 1
      BY <1>3, <1>4, <3>1 DEF Misses
    <3>2. CASE k \in 1 .. n
      <4>1. k # n + 1
        BY <3>2
      <4> QED BY <1>1, <1>3, <3>2, <4>1 DEF Misses
    <3> QED BY <1>4, <2>1, <3>1, <3>2
  <2>2. Misses(Append(s, v)) \subseteq 1 .. n + 1
    BY <1>3 DEF Misses
  <2>3. Misses(s) \cup (IF v = None THEN {n + 1} ELSE {}) \subseteq 1 .. n + 1
    BY <1>1, <1>4 DEF Misses
  <2> QED BY <2>1, <2>2, <2>3
<1>6. CASE v = None
  <2>1. Misses(Append(s, v)) = Misses(s) \cup {n + 1}
    BY <1>5, <1>6
  <2>2. Cardinality(Misses(s) \cup {n + 1}) = Cardinality(Misses(s)) + 1
    BY <1>2, <1>4, FS_AddElement
  <2> QED BY <1>2, <1>6, <2>1, <2>2
<1>7. CASE v # None
  <2>1. Misses(Append(s, v)) = Misses(s)
    BY <1>5, <1>7
  <2> QED BY <1>2, <1>7, <2>1
<1> QED BY <1>6, <1>7

LEMMA MissesTail ==
    ASSUME NEW s \in Seq(Verdict), s # <<>>
    PROVE  Cardinality(Misses(s)) =
             Cardinality(Misses(Tail(s))) + (IF Head(s) = None THEN 1 ELSE 0)
<1>1. PICK n \in Nat : n = Len(s) /\ n >= 1 /\ DOMAIN s = 1 .. n
  BY LenProperties, EmptySeq
<1>2. /\ Tail(s) \in Seq(Verdict) /\ DOMAIN Tail(s) = 1 .. n - 1 /\ Head(s) = s[1]
      /\ \A k \in 1 .. n - 1 : Tail(s)[k] = s[k + 1]
  <2>1. /\ Tail(s) \in Seq(Verdict) /\ Len(Tail(s)) = n - 1
        /\ \A k \in 1 .. n - 1 : Tail(s)[k] = s[k + 1]
    BY <1>1, HeadTailProperties
  <2>2. DOMAIN Tail(s) = 1 .. n - 1
    BY <2>1, LenProperties
  <2> QED BY <2>1, <2>2
<1>3. /\ IsFiniteSet(Misses(s)) /\ Cardinality(Misses(s)) \in Nat
      /\ IsFiniteSet(Misses(Tail(s))) /\ Cardinality(Misses(Tail(s))) \in Nat
  BY <1>2, MissesAppend DEF Verdict
<1>4. Cardinality(Misses(s) \ {1}) = Cardinality(Misses(Tail(s)))
  <2> DEFINE A == Misses(Tail(s))
             B == Misses(s) \ {1}
             f == [k \in A |-> k + 1]
  <2>1. A \subseteq 1 .. n - 1 /\ B \subseteq 2 .. n
    BY <1>1, <1>2 DEF Misses
  <2>2. ASSUME NEW k \in 1 .. n - 1 PROVE k \in A <=> k + 1 \in B
    <3>1. k + 1 \in 1 .. n /\ k + 1 # 1
      BY <1>1
    <3> QED BY <1>1, <1>2, <3>1 DEF Misses
  <2>3. ASSUME NEW l \in B PROVE \E k \in A : k + 1 = l
    <3>1. l \in 2 .. n
      BY <2>1
    <3>2. l - 1 \in 1 .. n - 1 /\ (l - 1) + 1 = l
      BY <1>1, <3>1
    <3> QED BY <2>2, <3>2
  <2>4. IsFiniteSet(A)
    BY <1>3
  <2> HIDE DEF A, B
  <2>5. f \in Bijection(A, B)
    <3>1. f \in [A -> B]
      BY <2>1, <2>2
    <3>2. \A k, l \in A : f[k] = f[l] => k = l
      BY <2>1
    <3>3. \A l \in B : \E k \in A : f[k] = l
      BY <2>3
    <3> QED BY <3>1, <3>2, <3>3 DEF Bijection, Injection, Surjection, IsInjective
  <2>6. ExistsBijection(A, B)
    BY <2>5 DEF ExistsBijection
  <2>7. Cardinality(B) = Cardinality(A)
    BY <2>4, <2>6, FS_Bijection
  <2> QED BY <2>7 DEF A, B
<1>5. 1 \in Misses(s) <=> Head(s) = None
  BY <1>1, <1>2 DEF Misses
<1>6. Cardinality(Misses(s) \ {1}) =
        IF 1 \in Misses(s) THEN Cardinality(Misses(s)) - 1 ELSE Cardinality(Misses(s))
  BY <1>3, FS_RemoveElement
<1> QED BY <1>3, <1>4, <1>5, <1>6

\* Inductive: a miss that is written is counted, waits, or was read just now.
MInv == /\ CInv /\ c.drop_cnt \in Nat /\ c.meta_rd_q \in BOOLEAN
        /\ MissesCounted

LEMMA MissClock ==
    ASSUME MInv, NEW beat \in Offers, NEW rdy \in BOOLEAN, Clock(beat, rdy)
    PROVE  MInv'
<1> DEFINE wr   == meta_wr_en(c, beat)
           pop  == meta_rd_en(c, rdy)
           byp  == bypassed(c, beat, rdy)
           m    == Rest(c.meta, pop)
           W(s) == Cardinality(Misses(s))
           One(b) == IF b THEN 1 ELSE 0
           made == wr /\ verdict(c, beat) = None
<1>1. /\ CInv /\ HInv /\ OInv /\ c.data \in Seq(Beat) /\ c.meta \in Seq(Verdict) /\ CInv'
      /\ c' = ClassifierClocked(c, beat, rdy)
      /\ verdict(c, beat) \in Verdict /\ CountMod \in Nat \ {0}
  BY VerdictClock, MatchType, ClassifierAssumption
  DEF MInv, CInv, Explained, Clock, verdict, Verdict
<1>2. missed' = IF made THEN (missed + 1) % CountMod ELSE missed
  <2>1. CASE ~s_xfer(c, beat)
    BY <2>1 DEF Clock, Account, meta_wr_en, hdr_last
  <2>2. CASE s_xfer(c, beat)
    <3>1. missed' = IF Decided(beat) /\ Judged(Now(beat)) = None
                    THEN (missed + 1) % CountMod ELSE missed
      BY <2>2 DEF Clock, Account, Decided, Now
    <3> QED BY <1>1, <2>2, <3>1, VerdictRight
  <2> QED BY <2>1, <2>2
<1>3. /\ c'.drop_cnt = (IF discarded(c) THEN (c.drop_cnt + 1) % CountMod ELSE c.drop_cnt)
      /\ c'.meta_rd_q = (pop \/ byp)
  BY <1>1 DEF ClassifierClocked
<1>4. /\ pop => c.meta # <<>> /\ ~byp
      /\ byp => c.meta = <<>> /\ wr
      /\ meta_dest(c') = (IF pop THEN Head(c.meta)
                          ELSE IF byp THEN verdict(c, beat) ELSE meta_dest(c))
  BY <1>1, Outcome
<1>5. wr => s_xfer(c, beat)
  BY DEF meta_wr_en, hdr_last
<1>6. /\ wr /\ ~byp => c'.meta = Append(m, verdict(c, beat))
      /\ ~wr \/ byp => c'.meta = m
  BY <1>1, <1>5, QueuesClock
<1>7. m \in Seq(Verdict) /\ c'.meta \in Seq(Verdict)
  <2>1. m \in Seq(Verdict)
    BY <1>1, HeadTailProperties DEF Rest
  <2> QED BY <1>1, <2>1 DEF CInv, Explained
<1>8. W(c.meta) \in Nat /\ W(m) \in Nat /\ W(c'.meta) \in Nat
  BY <1>1, <1>7, MissesAppend
<1>9. discarded(c') <=> c'.meta_rd_q /\ meta_dest(c') = None
  BY DEF discarded, meta_hit, meta_dest
<1>22. discarded(c') <=> (pop \/ byp) /\ meta_dest(c') = None
  BY <1>3, <1>9
<1> HIDE DEF wr, pop, byp
<1>10. W(c.meta) = W(m) + One(pop /\ Head(c.meta) = None)
  <2>1. CASE pop
    <3>1. m = Tail(c.meta) /\ c.meta # <<>>
      BY <1>4, <2>1 DEF Rest
    <3> QED BY <1>1, <2>1, <3>1, MissesTail
  <2>2. CASE ~pop
    BY <1>8, <2>2 DEF Rest
  <2> QED BY <2>1, <2>2
<1>11. W(c'.meta) = W(m) + One(made /\ ~byp)
  <2>1. CASE wr /\ ~byp
    BY <1>1, <1>6, <1>7, <2>1, MissesAppend
  <2>2. CASE ~wr \/ byp
    BY <1>6, <1>8, <2>2
  <2> QED BY <2>1, <2>2
<1>12. One(discarded(c')) = One(pop /\ Head(c.meta) = None) + One(made /\ byp)
  <2>1. CASE pop
    <3>1. ~byp /\ meta_dest(c') = Head(c.meta)
      BY <1>4, <2>1
    <3>2. discarded(c') <=> Head(c.meta) = None
      BY <1>22, <2>1, <3>1
    <3> QED BY <2>1, <3>1, <3>2
  <2>2. CASE ~pop /\ byp
    <3>1. wr /\ meta_dest(c') = verdict(c, beat)
      BY <1>4, <2>2
    <3>2. discarded(c') <=> made
      BY <1>22, <2>2, <3>1
    <3> QED BY <2>2, <3>2
  <2>3. CASE ~pop /\ ~byp
    <3>1. ~discarded(c')
      BY <1>22, <2>3
    <3> QED BY <2>3, <3>1
  <2> QED BY <2>1, <2>2, <2>3
<1>13. One(made) = One(made /\ byp) + One(made /\ ~byp)
  OBVIOUS
<1>14. PICK n \in Nat, l \in Nat, k \in 0 .. 1, i \in Nat, p \in 0 .. 1, u \in 0 .. 1 :
         /\ n = W(c.meta) /\ l = W(c'.meta) /\ k = One(discarded(c)) /\ i = c.drop_cnt
         /\ p = One(discarded(c')) /\ u = One(made)
  BY <1>8 DEF MInv
<1>15. l + p = n + u
  <2>1. PICK a \in 0 .. 1, b \in 0 .. 1, e \in 0 .. 1, y \in Nat :
          /\ a = One(pop /\ Head(c.meta) = None) /\ b = One(made /\ byp)
          /\ e = One(made /\ ~byp) /\ y = W(m)
    BY <1>8
  <2>2. n = y + a /\ l = y + e /\ p = a + b /\ u = b + e
    BY <1>10, <1>11, <1>12, <1>13, <1>14, <2>1
  <2> QED BY <2>2
<1>16. missed = (i + (n + k)) % CountMod
  BY <1>14 DEF MInv, MissesCounted, Waiting, Misses
<1> HIDE DEF made
<1>17. missed' = (i + (n + k) + u) % CountMod
  <2>1. CASE made
    <3>1. u = 1 /\ missed' = (missed + 1) % CountMod
      BY <1>2, <1>14, <2>1
    <3>2. (((i + (n + k)) % CountMod) + 1) % CountMod = (i + (n + k) + 1) % CountMod
      <4>1. PICK z \in Int : z = i + (n + k)
        BY <1>14
      <4>2. ((z % CountMod) + 1) % CountMod = (z + 1) % CountMod
        <5>1. CountMod \in Nat \ {0} /\ 1 \in Int
          BY ClassifierAssumption
        <5> QED BY <5>1, ModAdd, Zenon
      <4> QED BY <4>1, <4>2
    <3> QED BY <1>16, <3>1, <3>2
  <2>2. CASE ~made
    <3>1. u = 0 /\ missed' = missed
      BY <1>2, <1>14, <2>2
    <3>2. i + (n + k) + 0 = i + (n + k)
      BY <1>14
    <3> QED BY <1>16, <3>1, <3>2
  <2> QED BY <2>1, <2>2
<1>18. (c'.drop_cnt + (l + p)) % CountMod = ((i + k) + (l + p)) % CountMod
  <2>1. CASE discarded(c)
    <3>1. k = 1 /\ c'.drop_cnt = (i + 1) % CountMod
      BY <1>3, <1>14, <2>1
    <3>2. (((i + 1) % CountMod) + (l + p)) % CountMod = ((i + 1) + (l + p)) % CountMod
      <4>1. i + 1 \in Int /\ l + p \in Int
        BY <1>14
      <4> QED BY <1>1, <4>1, ModAdd
    <3> QED BY <3>1, <3>2
  <2>2. CASE ~discarded(c)
    <3>1. k = 0 /\ c'.drop_cnt = i
      BY <1>3, <1>14, <2>2
    <3>2. i + 0 = i
      BY <1>14
    <3> QED BY <3>1, <3>2
  <2> QED BY <2>1, <2>2
<1>19. (i + k) + (l + p) = i + (n + k) + u
  BY <1>15
<1>20. MissesCounted'
  <2>1. Waiting' = l + p
    BY <1>14 DEF Waiting, Misses, discarded, meta_hit, meta_dest
  <2>2. missed' = (c'.drop_cnt + (l + p)) % CountMod
    BY <1>17, <1>18, <1>19
  <2> QED BY <2>1, <2>2 DEF MissesCounted
<1>21. c'.drop_cnt \in Nat /\ c'.meta_rd_q \in BOOLEAN
  <2>1. i \in Nat /\ (i + 1) % CountMod \in Nat
    BY <1>1
  <2>2. c'.drop_cnt \in Nat
    BY <1>3, <1>14, <2>1
  <2> QED BY <1>3, <2>2
<1> QED BY <1>1, <1>20, <1>21 DEF MInv

LEMMA MissReset ==
    Fresh /\ c.drop_cnt = 0 /\ c.meta = <<>> /\ c.meta_rd_q = FALSE /\ missed = 0 => MInv
<1> SUFFICES ASSUME Fresh, c.drop_cnt = 0, c.meta = <<>>, c.meta_rd_q = FALSE, missed = 0
             PROVE  MInv
  OBVIOUS
<1>1. Misses(c.meta) = {}
  <2>1. DOMAIN <<>> = {}
    OBVIOUS
  <2> QED BY <2>1 DEF Misses
<1>2. Waiting = 0
  <2>1. Cardinality({}) = 0
    BY FS_EmptySet
  <2>2. ~discarded(c)
    BY DEF discarded
  <2> QED BY <1>1, <2>1, <2>2 DEF Waiting, Misses
<1>3. MissesCounted
  <2>1. 0 % CountMod = 0
    BY ClassifierAssumption
  <2>2. (c.drop_cnt + Waiting) % CountMod = 0 % CountMod
    BY <1>2
  <2> QED BY <2>1, <2>2 DEF MissesCounted
<1>4. c.drop_cnt \in Nat /\ c.meta_rd_q \in BOOLEAN
  <2>1. 0 \in Nat /\ FALSE \in BOOLEAN
    OBVIOUS
  <2> QED BY <2>1, Zenon
<1> QED BY <1>3, <1>4, VerdictReset DEF MInv

\* Every frame that is judged a miss is counted exactly once, also when its verdict goes
\* around the queue, and however the counter wraps (classifier.sv:110-112, 255-261).
THEOREM MissesAreCounted == Spec => []MissesCounted
<1> DEFINE Zero == Fresh /\ c.drop_cnt = 0 /\ c.meta = <<>> /\ c.meta_rd_q = FALSE /\ missed = 0
<1>1. Init => Zero
  <2> SUFFICES ASSUME Init PROVE Zero
    OBVIOUS
  <2>1. PICK addr \in Address, d \in Verdict : c = ResetClassifier(addr, d)
    BY DEF Init, Verdict
  <2>2. c.drop_cnt = 0 /\ c.meta = <<>> /\ c.meta_rd_q = FALSE
    BY <2>1 DEF ResetClassifier
  <2> QED BY <2>2, VerdictInit DEF Init
<1>2. MInv /\ [Next]_vars => MInv' \/ Zero'
  <2> SUFFICES ASSUME MInv, [Next]_vars PROVE MInv' \/ Zero'
    OBVIOUS
  <2>1. CASE \E beat \in Offers, rdy \in BOOLEAN : Clock(beat, rdy)
    BY <2>1, MissClock
  <2>2. CASE Reset
    <3>1. c.addr \in Address /\ c.bypass \in Verdict
      BY DEF MInv, CInv, HInv, OInv
    <3>2. Fresh'
      BY <2>2, <3>1 DEF Reset, Fresh
    <3>3. c'.drop_cnt = 0 /\ c'.meta = <<>> /\ c'.meta_rd_q = FALSE /\ missed' = 0
      BY <2>2 DEF Reset, ResetClassifier
    <3> QED BY <3>2, <3>3
  <2>3. CASE UNCHANGED vars
    <3>1. CInv'
      BY <2>3, VerdictStep DEF MInv
    <3> QED BY <2>3, <3>1 DEF vars, MInv, MissesCounted, Waiting, discarded, meta_hit, meta_dest
  <2> QED BY <2>1, <2>2, <2>3 DEF Next
<1>3. Zero => MInv
  BY MissReset
<1>4. MInv => MissesCounted
  BY DEF MInv
<1> HIDE DEF Zero
<1> QED BY <1>1, <1>2, <1>3, <1>4, PTL DEF Spec
=============================================================================
