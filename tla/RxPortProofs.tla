---------------------------- MODULE RxPortProofs ----------------------------
(***************************************************************************)
(* Proofs about the receive shim, for every table, address length and      *)
(* depth, and for frames of every length.                                  *)
(***************************************************************************)
EXTENDS RxPort, SequenceTheorems, TLAPS

\* The first n elements of q are G's after u.
Stretch(G, u, q, n) == \A i \in 1 .. n : q[i] = G[u + i]

\* Of the n elements of q, b are gone in d; e is new at the end if a is 1.
Moved(q, d, n, a, b, e) == /\ \A i \in 1 .. n - b : d[i] = q[i + b]
                           /\ a = 1 => d[n - b + 1] = e

\* A queue that is a stretch of G is one after the edge too, b elements further on.
LEMMA Shift ==
    ASSUME NEW G, NEW q, NEW d, NEW e, NEW n \in Nat, NEW u \in Int,
           NEW a \in 0 .. 1, NEW b \in 0 .. 1,
           b <= n, Stretch(G, u, q, n), Moved(q, d, n, a, b, e), a = 1 => e = G[u + n + 1]
    PROVE  Stretch(G, u + b, d, n - b + a)
<1> SUFFICES ASSUME NEW i \in 1 .. n - b + a PROVE d[i] = G[u + b + i]
  BY DEF Stretch
<1>1. CASE i <= n - b
  <2>1. i \in 1 .. n - b /\ i + b \in 1 .. n /\ u + (i + b) = u + b + i
    BY <1>1
  <2> QED BY <2>1 DEF Stretch, Moved
<1>2. CASE i > n - b
  <2>1. a = 1 /\ i = n - b + 1 /\ u + n + 1 = u + b + i
    BY <1>2
  <2> QED BY <2>1 DEF Moved
<1> QED BY <1>1, <1>2

\* The number of elements read.
Gone(q, rd) == IF rd /\ q # <<>> THEN 1 ELSE 0

\* A queue after an edge at which nothing is lost.
LEMMA AfterMoves ==
    ASSUME NEW S, NEW q \in Seq(S), NEW depth, NEW wr, NEW rd, NEW x,
           wr => x \in S /\ Len(q) # depth,
           NEW a \in 0 .. 1, NEW b \in 0 .. 1, a = 1 <=> wr, b = Gone(q, rd)
    PROVE  /\ After(q, depth, wr, x, rd) \in Seq(S)
           /\ b <= Len(q) /\ Len(After(q, depth, wr, x, rd)) = Len(q) - b + a
           /\ Moved(q, After(q, depth, wr, x, rd), Len(q), a, b, x)
<1>1. PICK n \in Nat : n = Len(q)
  BY LenProperties
<1>2. n = 0 <=> q = <<>>
  BY <1>1, EmptySeq
<1>3. b = IF rd /\ q # <<>> THEN 1 ELSE 0
  BY DEF Gone
<1>4. b <= n
  BY <1>2, <1>3
<1>5. PICK s : s = Rest(q, rd)
  OBVIOUS
<1>6. s \in Seq(S) /\ Len(s) = n - b /\ \A i \in 1 .. n - b : s[i] = q[i + b]
  <2>1. CASE rd /\ q # <<>>
    <3>1. s = Tail(q) /\ b = 1
      BY <1>3, <1>5, <2>1 DEF Rest
    <3>2. s \in Seq(S) /\ Len(s) = Len(q) - 1
      BY <2>1, <3>1, HeadTailProperties
    <3>3. \A i \in 1 .. Len(s) : s[i] = q[i + 1]
      BY <2>1, <3>1, HeadTailProperties
    <3> QED BY <1>1, <3>1, <3>2, <3>3
  <2>2. CASE ~(rd /\ q # <<>>)
    <3>1. s = q /\ b = 0
      BY <1>3, <1>5, <2>2 DEF Rest
    <3>2. \A i \in 1 .. n - b : i + b = i
      BY <3>1
    <3> QED BY <1>1, <3>1, <3>2
  <2> QED BY <2>1, <2>2
<1>7. CASE wr
  <2>1. After(q, depth, wr, x, rd) = s \o <<x>>
    BY <1>5, <1>7 DEF After, Added
  <2>2. s \o <<x>> = Append(s, x)
    BY <1>6, <1>7, AppendIsConcat
  <2>3. /\ Append(s, x) \in Seq(S) /\ Len(Append(s, x)) = Len(s) + 1
        /\ \A i \in 1 .. Len(s) : Append(s, x)[i] = s[i]
        /\ Append(s, x)[Len(s) + 1] = x
    BY <1>6, <1>7, AppendProperties
  <2>4. PICK d : d = Append(s, x)
    OBVIOUS
  <2>5. d \in Seq(S) /\ Len(d) = n - b + 1
    BY <1>6, <2>3, <2>4
  <2>6. \A i \in 1 .. n - b : d[i] = q[i + b]
    BY <1>6, <2>3, <2>4
  <2>7. d[n - b + 1] = x
    BY <1>6, <2>3, <2>4
  <2>8. Moved(q, d, n, a, b, x)
    BY <2>6, <2>7 DEF Moved
  <2>9. a = 1
    BY <1>7
  <2>10. d = After(q, depth, wr, x, rd)
    BY <2>1, <2>2, <2>4
  <2> QED BY <1>1, <1>4, <2>5, <2>8, <2>9, <2>10
<1>8. CASE ~wr
  <2>1. After(q, depth, wr, x, rd) = s \o <<>>
    BY <1>5, <1>8 DEF After, Added
  <2>2. After(q, depth, wr, x, rd) = s
    BY <1>6, <2>1, ConcatEmptySeq
  <2>3. a = 0 /\ n - b + a = n - b
    BY <1>8, <1>4
  <2>4. Moved(q, s, n, a, b, x)
    BY <1>6, <2>3 DEF Moved
  <2> QED BY <1>1, <1>4, <1>6, <2>2, <2>3, <2>4
<1> QED BY <1>7, <1>8

\* What a beat really is, and a verdict.
Actual  == Beat \ {None}
Verdict == {match(a) : a \in Address} \cup {None}

\* The last beat of the frame in force was read; the frame has beats to come.
Ends   == r.c.data_rd_q /\ r.c.out.last
Hit    == meta_hit(r.c)
Open   == r.c.meta_live /\ ~Ends
Reads  == Open /\ r.c.data # <<>>
Taken  == r.out_valid /\ r.c.s_tready
Judges == meta_wr_en(r.c, offered(r))
Renews == ~Open /\ (r.c.meta # <<>> \/ Judges)

\* The frame in force is a miss that is retired, though its end may be to come.
Retired == r.c.meta_live /\ ~Hit /\ ~r.c.meta_rd_q /\ ~drop_pulse(r)

\* What the registers, buffers and counts may hold.
Typed == /\ r.buf \in Seq(Actual) /\ (r.out_valid => r.rd_data \in Actual)
         /\ r.c.data \in Seq(Actual) /\ (r.c.data_rd_q => r.c.out \in Actual)
         /\ r.c.meta \in Seq(Verdict) /\ r.c.addr \in Address
         /\ r.v \in Seq(BOOLEAN)
         /\ r.c.fill = Len(r.c.data)
         /\ r.c.drop_cnt \in 0 .. CountMod - 1 /\ r.drop_cnt_q \in 0 .. CountMod - 1

\* What is read, ended and counted agrees with what is in force.
Ctl == /\ r.c.m_tvalid <=> r.c.data_rd_q /\ Hit
       /\ r.c.data_rd_q => r.c.meta_live
       /\ r.c.meta_rd_q => r.c.meta_live /\ ~r.c.data_rd_q
       /\ drop_pulse(r) => r.c.meta_live /\ ~r.c.meta_rd_q /\ ~Hit
       /\ ~r.drop_q_valid => r.c.drop_cnt = 0 /\ ~r.c.meta_rd_q
       /\ ~r.c.meta_live => r.c.meta = <<>>
       /\ r.c.s_tready => Len(r.c.data) + (IF r.c.data_rd_q THEN 1 ELSE 0) < BufDepth

\* The wires of the classifier, told from what is in force.
LEMMA Wires ==
    ASSUME Ctl, Typed
    PROVE  /\ s_xfer(r.c, offered(r)) <=> Taken
           /\ data_rd_en(r.c, TRUE) <=> Reads
           /\ meta_rd_en(r.c, TRUE) <=> r.c.meta # <<>> /\ ~Open
           /\ bypassed(r.c, offered(r), TRUE) <=> r.c.meta = <<>> /\ ~Open /\ Judges
           /\ ended(r.c, TRUE) <=> Ends
           /\ sent_last(r) <=> Ends /\ Hit
<1>1. last_out(r.c, TRUE) <=> Ends
  BY DEF last_out, m_xfer, Ctl, Ends, Hit
<1>2. out_free(r.c, TRUE)
  BY DEF out_free
<1>3. verdict_free(r.c, TRUE) <=> ~Open
  BY <1>1, <1>2 DEF verdict_free, Open
<1>4. s_xfer(r.c, offered(r)) <=> Taken
  BY DEF s_xfer, offered, Taken, Typed, Actual
<1>5. data_rd_en(r.c, TRUE) <=> Reads
  BY <1>1, <1>2 DEF data_rd_en, Reads, Open, Ctl, Hit
<1>6. meta_rd_en(r.c, TRUE) <=> r.c.meta # <<>> /\ ~Open
  BY <1>3 DEF meta_rd_en
<1>7. bypassed(r.c, offered(r), TRUE) <=> r.c.meta = <<>> /\ ~Open /\ Judges
  BY <1>3 DEF bypassed, Judges
<1>8. ended(r.c, TRUE) <=> Ends
  BY DEF ended, m_xfer, Ctl, Hit, Ends
<1>9. sent_last(r) <=> Ends /\ Hit
  BY DEF sent_last, Ctl, Ends
<1> QED BY <1>4, <1>5, <1>6, <1>7, <1>8, <1>9

\* What an edge does to the registers.
LEMMA Edge ==
    ASSUME Ctl, Typed, NEW beat, r' = RxClocked(r, beat)
    PROVE  /\ r'.c.meta_rd_q <=> Renews
           /\ r'.c.meta_live <=> Renews \/ Open
           /\ r'.c.data_rd_q <=> Reads
           /\ r'.c.m_tvalid <=> Reads /\ Hit
           /\ r'.c.s_tready <=> readyNext(r.c)
           /\ r'.c.drop_cnt = IF r.c.meta_rd_q /\ ~Hit THEN (r.c.drop_cnt + 1) % CountMod
                              ELSE r.c.drop_cnt
           /\ r'.drop_cnt_q = r.c.drop_cnt /\ r'.drop_q_valid
           /\ r'.c.out = IF Reads THEN Head(r.c.data) ELSE r.c.out
           /\ r'.c.data = After(r.c.data, BufDepth, Taken, offered(r), Reads)
           /\ r'.c.fill = r.c.fill + (IF Taken THEN 1 ELSE 0) - (IF Reads THEN 1 ELSE 0)
           /\ r'.c.meta = After(r.c.meta, MetaDepth, Judges /\ (Open \/ r.c.meta # <<>>),
                                verdict(r.c, offered(r)), ~Open)
<1> DEFINE k == r.c
           b == offered(r)
<1>1. r'.c = ClassifierClocked(k, b, TRUE)
  BY DEF RxClocked
<1>2. /\ r'.drop_cnt_q = k.drop_cnt /\ r'.drop_q_valid = TRUE
  BY DEF RxClocked
<1> HIDE DEF b
<1>3. /\ r'.c.meta_rd_q = (meta_rd_en(k, TRUE) \/ bypassed(k, b, TRUE))
      /\ r'.c.meta_live = (meta_rd_en(k, TRUE) \/ bypassed(k, b, TRUE)
                             \/ (k.meta_live /\ ~ended(k, TRUE)))
      /\ r'.c.data_rd_q = data_rd_en(k, TRUE)
      /\ r'.c.s_tready = readyNext(k)
  BY <1>1 DEF ClassifierClocked
<1>4. /\ r'.c.m_tvalid = (IF out_free(k, TRUE) THEN data_rd_en(k, TRUE) /\ meta_hit(k) ELSE k.m_tvalid)
      /\ r'.c.drop_cnt = (IF discarded(k) THEN (k.drop_cnt + 1) % CountMod ELSE k.drop_cnt)
      /\ r'.c.out = ReadPort(k.data, k.out, data_rd_en(k, TRUE))
  BY <1>1 DEF ClassifierClocked
<1>5. /\ r'.c.data = After(k.data, BufDepth, s_xfer(k, b), b, data_rd_en(k, TRUE))
      /\ r'.c.fill = k.fill + (IF s_xfer(k, b) THEN 1 ELSE 0) - (IF data_rd_en(k, TRUE) THEN 1 ELSE 0)
      /\ r'.c.meta = After(k.meta, MetaDepth, meta_wr_en(k, b) /\ ~bypassed(k, b, TRUE),
                           verdict(k, b), meta_rd_en(k, TRUE))
  BY <1>1 DEF ClassifierClocked
<1> USE DEF b
<1>6. /\ s_xfer(k, b) <=> Taken
      /\ data_rd_en(k, TRUE) <=> Reads
      /\ meta_rd_en(k, TRUE) <=> k.meta # <<>> /\ ~Open
      /\ bypassed(k, b, TRUE) <=> k.meta = <<>> /\ ~Open /\ Judges
      /\ ended(k, TRUE) <=> Ends
  BY Wires
<1> HIDE DEF b
<1>7. /\ r'.c.meta_rd_q <=> Renews
      /\ r'.c.meta_live <=> Renews \/ Open
      /\ r'.c.data_rd_q <=> Reads
      /\ r'.c.s_tready <=> readyNext(k)
  BY <1>3, <1>6 DEF Renews, Open
<1>8. /\ r'.c.m_tvalid <=> Reads /\ Hit
      /\ r'.c.drop_cnt = IF k.meta_rd_q /\ ~Hit THEN (k.drop_cnt + 1) % CountMod ELSE k.drop_cnt
  BY <1>4, <1>6 DEF out_free, Hit, discarded
<1>9. r'.c.out = IF Reads THEN Head(k.data) ELSE k.out
  <2>1. ReadPort(k.data, k.out, data_rd_en(k, TRUE)) = IF Reads THEN Head(k.data) ELSE k.out
    BY <1>6 DEF ReadPort, Reads
  <2> QED BY <1>4, <2>1
<1>10. r'.c.data = After(k.data, BufDepth, Taken, b, Reads)
  <2>1. After(k.data, BufDepth, s_xfer(k, b), b, data_rd_en(k, TRUE))
          = After(k.data, BufDepth, Taken, b, Reads)
    BY <1>6 DEF After, Rest, Added
  <2> QED BY <1>5, <2>1
<1>11. r'.c.fill = k.fill + (IF Taken THEN 1 ELSE 0) - (IF Reads THEN 1 ELSE 0)
  BY <1>5, <1>6
<1>12. r'.c.meta = After(k.meta, MetaDepth, Judges /\ (Open \/ k.meta # <<>>),
                         verdict(k, b), ~Open)
  <2>1. Rest(k.meta, meta_rd_en(k, TRUE)) = Rest(k.meta, ~Open)
    BY <1>6 DEF Rest
  <2>2. meta_wr_en(k, b) <=> Judges
    BY DEF Judges, b
  <2>3. Added(k.meta, MetaDepth, meta_wr_en(k, b) /\ ~bypassed(k, b, TRUE), verdict(k, b))
          = Added(k.meta, MetaDepth, Judges /\ (Open \/ k.meta # <<>>), verdict(k, b))
    BY <1>6, <2>2 DEF Added
  <2> QED BY <1>5, <2>1, <2>3 DEF After
<1> QED BY <1>2, <1>7, <1>8, <1>9, <1>10, <1>11, <1>12 DEF b

\* The verdict in force, and the header registers.
LEMMA EdgeVerdict ==
    ASSUME Ctl, Typed, NEW beat, r' = RxClocked(r, beat)
    PROVE  Hit' <=> IF Renews THEN (IF r.c.meta # <<>> THEN Head(r.c.meta)
                                    ELSE verdict(r.c, offered(r))) # None
                    ELSE Hit
<1> DEFINE k == r.c
           b == offered(r)
<1>1. r'.c = ClassifierClocked(k, b, TRUE)
  BY DEF RxClocked
<1>2. /\ meta_rd_en(k, TRUE) <=> k.meta # <<>> /\ ~Open
      /\ bypassed(k, b, TRUE) <=> k.meta = <<>> /\ ~Open /\ Judges
  BY Wires
<1> HIDE DEF b
<1>3. /\ r'.c.meta_rd_data = ReadPort(k.meta, k.meta_rd_data, meta_rd_en(k, TRUE))
      /\ r'.c.bypass = (IF bypassed(k, b, TRUE) THEN verdict(k, b) ELSE k.bypass)
      /\ r'.c.from_bypass = (bypassed(k, b, TRUE) \/ (k.from_bypass /\ ~meta_rd_en(k, TRUE)))
  BY <1>1 DEF ClassifierClocked
<1>4. meta_dest(r'.c) = IF Renews THEN (IF k.meta # <<>> THEN Head(k.meta) ELSE verdict(k, b))
                        ELSE meta_dest(k)
  <2>1. CASE Renews /\ k.meta # <<>>
    BY <1>2, <1>3, <2>1 DEF meta_dest, ReadPort, Renews
  <2>2. CASE Renews /\ k.meta = <<>>
    BY <1>2, <1>3, <2>2 DEF meta_dest, Renews
  <2>3. CASE ~Renews
    BY <1>2, <1>3, <2>3 DEF meta_dest, Renews, ReadPort
  <2> QED BY <2>1, <2>2, <2>3
<1>5. Hit' <=> meta_dest(r'.c) # None
  BY DEF Hit, meta_hit, meta_dest
<1>6. Hit <=> meta_dest(k) # None
  BY DEF Hit, meta_hit
<1> QED BY <1>4, <1>5, <1>6 DEF b

\* A changed count is a pulse, if the counter has more than one value.
LEMMA Changes ==
    ASSUME NEW M \in Nat, M > 1, NEW d \in 0 .. M - 1
    PROVE  (d + 1) % M # d /\ (d + 1) % M \in 0 .. M - 1
<1>1. CASE d = M - 1
  <2>1. M % M = 0
    OBVIOUS
  <2> QED BY <1>1, <2>1
<1>2. CASE d # M - 1
  <2>1. d + 1 \in 0 .. M - 1
    BY <1>2
  <2>2. (d + 1) % M = d + 1
    BY <2>1
  <2> QED BY <2>1, <2>2
<1> QED BY <1>1, <1>2

\* A drop is pulsed in the cycle after a miss comes in force: the count it is told from
\* wraps, but never to what it was.
LEMMA EdgePulse ==
    ASSUME Ctl, Typed, NEW beat, r' = RxClocked(r, beat)
    PROVE  drop_pulse(r)' <=> r.c.meta_rd_q /\ ~Hit
<1>1. /\ r'.c.drop_cnt = IF r.c.meta_rd_q /\ ~Hit THEN (r.c.drop_cnt + 1) % CountMod
                         ELSE r.c.drop_cnt
      /\ r'.drop_cnt_q = r.c.drop_cnt /\ r'.drop_q_valid
  BY Edge
<1>2. CountMod \in Nat /\ CountMod > 1 /\ r.c.drop_cnt \in 0 .. CountMod - 1
  BY ClassifierAssumption, RxAssumption DEF Typed
<1>3. (r.c.drop_cnt + 1) % CountMod # r.c.drop_cnt
  BY <1>2, Changes
<1>4. drop_pulse(r)' <=> r'.c.drop_cnt # r.c.drop_cnt
  BY <1>1 DEF drop_pulse
<1> QED BY <1>1, <1>3, <1>4

\* A queue after an edge holds what it held or is given, also when that is lost.
LEMMA AfterType ==
    ASSUME NEW S, NEW q \in Seq(S), NEW depth, NEW wr, NEW rd, NEW x, wr => x \in S
    PROVE  After(q, depth, wr, x, rd) \in Seq(S)
<1>1. Rest(q, rd) \in Seq(S)
  BY HeadTailProperties DEF Rest
<1>2. Added(q, depth, wr, x) \in Seq(S)
  <2>1. CASE wr
    <3>1. <<x>> \in Seq(S) /\ <<>> \in Seq(S)
      BY <2>1, EmptySeq
    <3> QED BY <3>1 DEF Added
  <2>2. CASE ~wr
    BY <2>2, EmptySeq DEF Added
  <2> QED BY <2>1, <2>2
<1> QED BY <1>1, <1>2, ConcatProperties DEF After

\* The parts of a beat.
LEMMA ActualBeat ==
    ASSUME NEW b \in Actual
    PROVE  b \in Beat /\ b # None /\ b.byte \in Byte /\ b.last \in BOOLEAN /\ b.err \in BOOLEAN
BY DEF Actual, Beat

\* Only a byte that is taken is judged.
LEMMA JudgesTaken ==
    ASSUME Ctl, Typed, Judges
    PROVE  Taken /\ offered(r) = r.rd_data /\ r.rd_data \in Actual
<1>1. s_xfer(r.c, offered(r))
  BY DEF Judges, meta_wr_en, hdr_last
<1>2. Taken
  BY <1>1, Wires
<1> QED BY <1>2 DEF Taken, offered, Typed

\* What is judged is an address, or that there is none.
LEMMA VerdictType ==
    ASSUME Ctl, Typed, Judges
    PROVE  verdict(r.c, offered(r)) \in Verdict
<1>1. r.rd_data.byte \in Byte /\ offered(r) = r.rd_data
  BY JudgesTaken, ActualBeat
<1>2. addr_cmp(r.c, offered(r)) \in Address
  BY <1>1 DEF addr_cmp, Typed, Address
<1>3. match(addr_cmp(r.c, offered(r))) \in Verdict
  BY <1>2 DEF Verdict
<1> QED BY <1>3 DEF verdict, Verdict

\* The address register holds an address.
LEMMA HeaderType ==
    ASSUME Ctl, Typed, NEW beat, r' = RxClocked(r, beat)
    PROVE  r'.c.addr \in Address
<1> DEFINE k == r.c
           b == offered(r)
<1>1. r'.c = ClassifierClocked(k, b, TRUE)
  BY DEF RxClocked
<1> HIDE DEF b
<1>2. r'.c.addr = IF sof(k, b) THEN [k.addr EXCEPT ![0] = b.byte]
                  ELSE IF hdr_fill(k, b) THEN [k.addr EXCEPT ![k.addr_cnt] = b.byte]
                  ELSE k.addr
  BY <1>1 DEF ClassifierClocked
<1>3. s_xfer(k, b) => b.byte \in Byte
  <2>1. s_xfer(k, b) => Taken
    BY Wires DEF b
  <2>2. Taken => b = r.rd_data /\ r.rd_data \in Actual
    BY DEF Taken, Typed, offered, b
  <2> QED BY <2>1, <2>2, ActualBeat
<1>4. \A z \in Byte : \A i : [k.addr EXCEPT ![i] = z] \in Address
  BY DEF Typed, Address
<1>5. sof(k, b) \/ hdr_fill(k, b) => s_xfer(k, b)
  BY DEF sof, hdr_fill
<1>6. CASE sof(k, b)
  BY <1>2, <1>3, <1>4, <1>5, <1>6
<1>7. CASE ~sof(k, b) /\ hdr_fill(k, b)
  BY <1>2, <1>3, <1>4, <1>5, <1>7
<1>8. CASE ~sof(k, b) /\ ~hdr_fill(k, b)
  BY <1>2, <1>8 DEF Typed
<1> QED BY <1>6, <1>7, <1>8

\* An edge keeps the types, and the fill count the number of beats stored.
LEMMA TypedStep ==
    ASSUME Ctl, Typed, NEW beat \in Beat \cup {None}, r' = RxClocked(r, beat)
    PROVE  Typed' /\ r'.c.fill + (IF Reads THEN 1 ELSE 0) = r.c.fill + (IF Taken THEN 1 ELSE 0)
<1>1. r'.buf \in Seq(Actual)
  <2>1. r'.buf = After(r.buf, ElasticDepth, beat # None, beat, buf_rd_en(r))
    BY DEF RxClocked
  <2>2. r.buf \in Seq(Actual) /\ (beat # None => beat \in Actual)
    BY DEF Typed, Actual
  <2> QED BY <2>1, <2>2, AfterType
<1>2. r'.out_valid => r'.rd_data \in Actual
  <2>1. /\ r'.rd_data = ReadPort(r.buf, r.rd_data, buf_rd_en(r))
        /\ r'.out_valid = (buf_rd_en(r) \/ (r.out_valid /\ ~r.c.s_tready))
    BY DEF RxClocked
  <2>2. r.buf # <<>> => Head(r.buf) \in Actual
    BY HeadTailProperties DEF Typed
  <2> QED BY <2>1, <2>2 DEF ReadPort, Typed, buf_rd_en
<1>3. Taken => offered(r) \in Actual
  BY DEF Taken, offered, Typed
<1>4. Reads => r.c.data # <<>>
  BY DEF Reads
<1>5. /\ r'.c.data \in Seq(Actual) /\ r'.c.fill = Len(r'.c.data)
      /\ r'.c.fill + (IF Reads THEN 1 ELSE 0) = r.c.fill + (IF Taken THEN 1 ELSE 0)
  <2>1. /\ r'.c.data = After(r.c.data, BufDepth, Taken, offered(r), Reads)
        /\ r'.c.fill = r.c.fill + (IF Taken THEN 1 ELSE 0) - (IF Reads THEN 1 ELSE 0)
    BY Edge
  <2>2. PICK n \in Nat : n = Len(r.c.data) /\ n = r.c.fill
    BY LenProperties DEF Typed
  <2>3. PICK k \in 0 .. 1, a \in 0 .. 1 :
           k = Gone(r.c.data, Reads) /\ (k = 1 <=> Reads) /\ (a = 1 <=> Taken)
    BY <1>4 DEF Gone
  <2>4. Taken => offered(r) \in Actual /\ Len(r.c.data) # BufDepth
    BY <1>3, <2>2, ClassifierAssumption DEF Ctl, Taken
  <2>5. r.c.data \in Seq(Actual)
    BY DEF Typed
  <2>6. r'.c.data \in Seq(Actual)
    BY <2>1, <2>4, <2>5, AfterType
  <2>7. Len(r'.c.data) = Len(r.c.data) - k + a
    BY <2>1, <2>3, <2>4, <2>5, AfterMoves
  <2>8. k = (IF Reads THEN 1 ELSE 0) /\ a = (IF Taken THEN 1 ELSE 0)
    BY <2>3
  <2>9. r'.c.fill = n + a - k /\ Len(r'.c.data) = n - k + a
    BY <2>1, <2>2, <2>7, <2>8
  <2>10. r'.c.fill + k = r.c.fill + a /\ r'.c.fill = Len(r'.c.data)
    BY <2>2, <2>9
  <2> QED BY <2>6, <2>8, <2>10
<1>6. r'.c.data_rd_q => r'.c.out \in Actual
  <2>1. r.c.data # <<>> => Head(r.c.data) \in Actual
    BY HeadTailProperties DEF Typed
  <2> QED BY <1>4, <2>1, Edge
<1>7. r'.c.meta \in Seq(Verdict)
  <2>1. r'.c.meta = After(r.c.meta, MetaDepth, Judges /\ (Open \/ r.c.meta # <<>>),
                          verdict(r.c, offered(r)), ~Open)
    BY Edge
  <2>2. r.c.meta \in Seq(Verdict)
    BY DEF Typed
  <2> QED BY <2>1, <2>2, VerdictType, AfterType
<1>8. r'.v \in Seq(BOOLEAN)
  <2>1. r'.v = After(r.v, VerdictDepth, v_wr_en(r), v_wr_en(r) /\ r.rd_data.err, v_pop(r))
    BY DEF RxClocked
  <2>2. r.v \in Seq(BOOLEAN) /\ (v_wr_en(r) /\ r.rd_data.err) \in BOOLEAN
    BY DEF Typed
  <2>3. After(r.v, VerdictDepth, v_wr_en(r), v_wr_en(r) /\ r.rd_data.err, v_pop(r)) \in Seq(BOOLEAN)
    BY <2>2, AfterType, Zenon
  <2> QED BY <2>1, <2>3
<1>9. r'.c.drop_cnt \in 0 .. CountMod - 1 /\ r'.drop_cnt_q \in 0 .. CountMod - 1
  <2>1. CountMod \in Nat /\ CountMod > 1 /\ r.c.drop_cnt \in 0 .. CountMod - 1
    BY ClassifierAssumption, RxAssumption DEF Typed
  <2>2. (r.c.drop_cnt + 1) % CountMod \in 0 .. CountMod - 1
    BY <2>1, Changes
  <2> QED BY <2>1, <2>2, Edge
<1>10. r'.c.addr \in Address
  BY HeaderType
<1> QED BY <1>1, <1>2, <1>5, <1>6, <1>7, <1>8, <1>9, <1>10 DEF Typed

\* An edge keeps what is in force in order.
LEMMA CtlStep ==
    ASSUME Ctl, Typed, NEW beat \in Beat \cup {None}, r' = RxClocked(r, beat)
    PROVE  Ctl'
<1>1. /\ r'.c.meta_rd_q <=> Renews
      /\ r'.c.meta_live <=> Renews \/ Open
      /\ r'.c.data_rd_q <=> Reads
      /\ r'.c.m_tvalid <=> Reads /\ Hit
      /\ drop_pulse(r)' <=> r.c.meta_rd_q /\ ~Hit
  BY Edge, EdgePulse
<1>2. ~Renews => (Hit' <=> Hit)
  BY EdgeVerdict
<1>3. Renews => ~Open
  BY DEF Renews
<1>4. Reads => Open
  BY DEF Reads
<1>5. r'.c.m_tvalid <=> r'.c.data_rd_q /\ Hit'
  BY <1>1, <1>2, <1>3, <1>4
<1>6. /\ r'.c.data_rd_q => r'.c.meta_live
      /\ r'.c.meta_rd_q => r'.c.meta_live /\ ~r'.c.data_rd_q
  BY <1>1, <1>3, <1>4
<1>7. drop_pulse(r)' => r'.c.meta_live /\ ~r'.c.meta_rd_q /\ ~Hit'
  <2>1. r.c.meta_rd_q => Open
    BY DEF Ctl, Open, Ends
  <2> QED BY <1>1, <1>2, <1>3, <2>1
<1>8. r'.drop_q_valid
  BY Edge
<1>9. ~r'.c.meta_live => r'.c.meta = <<>>
  <2>1. SUFFICES ASSUME ~Renews, ~Open PROVE r'.c.meta = <<>>
    BY <1>1
  <2>2. r.c.meta = <<>> /\ ~Judges
    BY <2>1 DEF Renews
  <2>3. After(<<>>, MetaDepth, FALSE, verdict(r.c, offered(r)), TRUE) = <<>>
    BY DEF After, Rest, Added
  <2> QED BY <2>1, <2>2, <2>3, Edge
<1>10. r'.c.s_tready => Len(r'.c.data) + (IF r'.c.data_rd_q THEN 1 ELSE 0) < BufDepth
  <2>1. /\ r'.c.fill + (IF Reads THEN 1 ELSE 0) = r.c.fill + (IF Taken THEN 1 ELSE 0)
        /\ r'.c.fill = Len(r'.c.data)
    BY TypedStep DEF Typed
  <2>2. r'.c.s_tready => r.c.fill < BufDepth - 1
    BY Edge DEF readyNext
  <2>3. PICK n \in Nat : n = r.c.fill
    BY LenProperties DEF Typed
  <2>4. BufDepth \in Nat
    BY ClassifierAssumption
  <2>5. PICK a \in 0 .. 1 : a = IF Taken THEN 1 ELSE 0
    OBVIOUS
  <2>6. PICK b \in 0 .. 1 : b = IF Reads THEN 1 ELSE 0
    OBVIOUS
  <2>7. PICK m \in Nat : m = Len(r'.c.data)
    BY TypedStep, LenProperties DEF Typed
  <2>8. m + b = n + a
    BY <2>1, <2>3, <2>5, <2>6, <2>7
  <2>9. (IF r'.c.data_rd_q THEN 1 ELSE 0) = b
    BY <1>1, <2>6
  <2>10. n < BufDepth - 1 => m + b < BufDepth
    BY <2>4, <2>8
  <2> QED BY <2>2, <2>3, <2>7, <2>9, <2>10
<1> QED BY <1>5, <1>6, <1>7, <1>8, <1>9, <1>10 DEF Ctl
-----------------------------------------------------------------------------
(* What is stored is told from everything that came, as functions on the    *)
(* integers: beat k was D[k], byte P[k] of frame F[k]; V says of a frame    *)
(* whether no entry has its address, X what its error bit is.  The buffer   *)
(* accepted w beats, the classifier took x of them and o of these were      *)
(* read; frame g is the last that came in force.                            *)

\* An address has two bytes at least.
LEMMA MacInt == MacBytes \in Int /\ MacBytes >= 2
BY ClassifierAssumption

\* The address that ends with beat k.
Header(D, k) == [i \in Index |-> D[k - MacBytes + 1 + i].byte]

\* Beats and frames are numbered as they come.
Numbered(D, F, P, o, w) ==
    /\ \A k \in o + 1 .. w : /\ F[k + 1] = F[k] + (IF D[k].last THEN 1 ELSE 0)
                             /\ P[k + 1] = IF D[k].last THEN 1 ELSE P[k] + 1
    /\ \A i, k \in o + 1 .. w + 1 : i <= k => /\ F[i] <= F[k] /\ F[k] <= F[i] + (k - i)
                                              /\ F[i] = F[k] => P[k] = P[i] + (k - i)
    /\ \A k \in o + 1 .. w + 1 : P[k] >= 1

\* What a beat still to be taken, or to be read, will say of its frame.
Foretold(D, F, P, V, X, o, x, w) ==
    /\ \A k \in o + 1 .. w : D[k].last => X[F[k]] = D[k].err
    /\ \A k \in x + 1 .. w : P[k] = MacBytes => (V[F[k]] <=> match(Header(D, k)) = None)
    /\ \A k \in x + 1 .. w : D[k].last /\ P[k] < MacBytes => V[F[k]]

\* The functions agree on what came before beat w + 1.
Agree(D, F, P, V, X, D2, F2, P2, V2, X2, w) ==
    /\ \A k \in Int : k <= w => D2[k] = D[k]
    /\ \A k \in Int : k <= w + 1 => F2[k] = F[k] /\ P2[k] = P[k]
    /\ \A f \in Int : f < F[w + 1] => V2[f] = V[f] /\ X2[f] = X[f]
    /\ P[w + 1] > MacBytes => V2[F[w + 1]] = V[F[w + 1]]

\* A frame's end is not followed by more of it.
LEMMA EndsFrame ==
    ASSUME NEW D \in [Int -> Actual], NEW F \in [Int -> Int], NEW P \in [Int -> Int],
           NEW o \in Int, NEW w \in Int, Numbered(D, F, P, o, w),
           NEW k \in o + 1 .. w, D[k].last
    PROVE  F[k] < F[w + 1]
<1>1. k + 1 \in o + 1 .. w + 1 /\ w + 1 \in o + 1 .. w + 1 /\ k + 1 <= w + 1
  OBVIOUS
<1>2. F[k + 1] <= F[w + 1]
  BY <1>1 DEF Numbered
<1>3. F[k + 1] = F[k] + 1
  BY DEF Numbered
<1>4. F[k] \in Int /\ F[k + 1] \in Int /\ F[w + 1] \in Int
  OBVIOUS
<1> QED BY <1>2, <1>3, <1>4

\* The stream may go on with b as the next beat.
Extends(D, F, P, V, X, o, x, w, b) ==
    \E D2 \in [Int -> Actual], F2, P2 \in [Int -> Int], V2, X2 \in [Int -> BOOLEAN] :
       /\ Agree(D, F, P, V, X, D2, F2, P2, V2, X2, w) /\ D2[w + 1] = b
       /\ Numbered(D2, F2, P2, o, w + 1) /\ Foretold(D2, F2, P2, V2, X2, o, x, w + 1)

\* One beat more.
LEMMA Extend ==
    ASSUME NEW D \in [Int -> Actual], NEW F \in [Int -> Int], NEW P \in [Int -> Int],
           NEW V \in [Int -> BOOLEAN], NEW X \in [Int -> BOOLEAN],
           NEW o \in Int, NEW x \in Int, NEW w \in Int, o <= x, x <= w, NEW b \in Actual,
           Numbered(D, F, P, o, w), Foretold(D, F, P, V, X, o, x, w)
    PROVE  Extends(D, F, P, V, X, o, x, w, b)
<1>1. b.last \in BOOLEAN /\ b.err \in BOOLEAN
  BY ActualBeat
<1>2. PICK D2 \in [Int -> Actual] : D2[w + 1] = b /\ \A k \in Int : k <= w => D2[k] = D[k]
  <2> DEFINE E == [D EXCEPT ![w + 1] = b]
  <2>1. E \in [Int -> Actual] /\ E[w + 1] = b /\ \A k \in Int : k <= w => E[k] = D[k]
    OBVIOUS
  <2> QED BY <2>1
<1>3. PICK F2 \in [Int -> Int] : /\ F2[w + 2] = F[w + 1] + (IF b.last THEN 1 ELSE 0)
                                 /\ \A k \in Int : k <= w + 1 => F2[k] = F[k]
  <2> DEFINE E == [F EXCEPT ![w + 2] = F[w + 1] + (IF b.last THEN 1 ELSE 0)]
  <2>1. /\ E \in [Int -> Int] /\ E[w + 2] = F[w + 1] + (IF b.last THEN 1 ELSE 0)
        /\ \A k \in Int : k <= w + 1 => E[k] = F[k]
    OBVIOUS
  <2> QED BY <2>1
<1>4. PICK P2 \in [Int -> Int] : /\ P2[w + 2] = IF b.last THEN 1 ELSE P[w + 1] + 1
                                 /\ \A k \in Int : k <= w + 1 => P2[k] = P[k]
  <2> DEFINE E == [P EXCEPT ![w + 2] = IF b.last THEN 1 ELSE P[w + 1] + 1]
  <2>1. /\ E \in [Int -> Int] /\ E[w + 2] = (IF b.last THEN 1 ELSE P[w + 1] + 1)
        /\ \A k \in Int : k <= w + 1 => E[k] = P[k]
    OBVIOUS
  <2> QED BY <2>1
<1>5. PICK y \in BOOLEAN : y <=> (P[w + 1] = MacBytes => match(Header(D2, w + 1)) = None)
  OBVIOUS
<1>6. PICK V2 \in [Int -> BOOLEAN] :
         /\ \A f \in Int : f # F[w + 1] => V2[f] = V[f]
         /\ P[w + 1] > MacBytes => V2[F[w + 1]] = V[F[w + 1]]
         /\ P[w + 1] <= MacBytes => V2[F[w + 1]] = y
  <2> DEFINE E == [V EXCEPT ![F[w + 1]] = IF P[w + 1] > MacBytes THEN V[F[w + 1]] ELSE y]
  <2>0. F[w + 1] \in Int /\ P[w + 1] \in Int /\ MacBytes \in Int
    <3> w + 1 \in Int
      OBVIOUS
    <3> QED BY MacInt
  <2>1. /\ E \in [Int -> BOOLEAN] /\ \A f \in Int : f # F[w + 1] => E[f] = V[f]
        /\ P[w + 1] > MacBytes => E[F[w + 1]] = V[F[w + 1]]
        /\ P[w + 1] <= MacBytes => E[F[w + 1]] = y
    BY <2>0
  <2> QED BY <2>1
<1>7. PICK X2 \in [Int -> BOOLEAN] :
         X2[F[w + 1]] = b.err /\ \A f \in Int : f # F[w + 1] => X2[f] = X[f]
  <2> DEFINE E == [X EXCEPT ![F[w + 1]] = b.err]
  <2>1. /\ E \in [Int -> BOOLEAN] /\ E[F[w + 1]] = b.err
        /\ \A f \in Int : f # F[w + 1] => E[f] = X[f]
    BY <1>1
  <2> QED BY <2>1
<1>8. Agree(D, F, P, V, X, D2, F2, P2, V2, X2, w)
  <2>1. \A f \in Int : f < F[w + 1] => f # F[w + 1]
    OBVIOUS
  <2> QED BY <1>2, <1>3, <1>4, <1>6, <1>7, <2>1 DEF Agree
<1>9. Numbered(D2, F2, P2, o, w + 1)
  <2>1. ASSUME NEW k \in o + 1 .. w + 1
        PROVE  /\ F2[k + 1] = F2[k] + (IF D2[k].last THEN 1 ELSE 0)
               /\ P2[k + 1] = IF D2[k].last THEN 1 ELSE P2[k] + 1
    <3>1. CASE k = w + 1
      <4>1. k \in Int /\ k <= w + 1 /\ k + 1 = w + 2
        BY <3>1
      <4>2. F2[k] = F[w + 1] /\ P2[k] = P[w + 1] /\ D2[k] = b
        BY <1>2, <1>3, <1>4, <3>1, <4>1
      <4>3. F2[k + 1] = F[w + 1] + (IF b.last THEN 1 ELSE 0)
        BY <1>3, <4>1
      <4>4. P2[k + 1] = IF b.last THEN 1 ELSE P[w + 1] + 1
        BY <1>4, <4>1
      <4> QED BY <4>2, <4>3, <4>4
    <3>2. CASE k # w + 1
      <4>1. k \in o + 1 .. w /\ k \in Int /\ k + 1 \in Int /\ k <= w + 1 /\ k + 1 <= w + 1 /\ k <= w
        BY <3>2
      <4>2. /\ F2[k] = F[k] /\ F2[k + 1] = F[k + 1] /\ D2[k] = D[k]
            /\ P2[k] = P[k] /\ P2[k + 1] = P[k + 1]
        BY <1>2, <1>3, <1>4, <4>1
      <4> QED BY <4>1, <4>2 DEF Numbered
    <3> QED BY <3>1, <3>2
  <2>2. ASSUME NEW i \in o + 1 .. w + 2, NEW k \in o + 1 .. w + 2, i <= k
        PROVE  /\ F2[i] <= F2[k] /\ F2[k] <= F2[i] + (k - i)
               /\ F2[i] = F2[k] => P2[k] = P2[i] + (k - i)
    <3>1. CASE k <= w + 1
      <4>1. i \in o + 1 .. w + 1 /\ k \in o + 1 .. w + 1
        BY <2>2, <3>1
      <4>2. F2[i] = F[i] /\ F2[k] = F[k] /\ P2[i] = P[i] /\ P2[k] = P[k]
        BY <1>3, <1>4, <4>1
      <4> QED BY <2>2, <4>1, <4>2 DEF Numbered
    <3>2. CASE i = w + 2
      <4>1. k = i /\ F2[i] \in Int /\ P2[i] \in Int
        BY <2>2, <3>2
      <4> QED BY <4>1
    <3>3. CASE k = w + 2 /\ i <= w + 1
      <4>1. i \in o + 1 .. w + 1 /\ w + 1 \in o + 1 .. w + 1 /\ i <= w + 1
        BY <3>3
      <4>2. F2[i] = F[i] /\ P2[i] = P[i]
        BY <1>3, <1>4, <4>1
      <4>3. PICK fi \in Int, fw \in Int, pi \in Int, pw \in Int :
               fi = F[i] /\ fw = F[w + 1] /\ pi = P[i] /\ pw = P[w + 1]
        <5> i \in Int /\ w + 1 \in Int
          OBVIOUS
        <5> QED OBVIOUS
      <4>4. fi <= fw /\ fw <= fi + ((w + 1) - i) /\ (fi = fw => pw = pi + ((w + 1) - i))
        BY <4>1, <4>3 DEF Numbered
      <4>5. F2[k] = fw + (IF b.last THEN 1 ELSE 0) /\ P2[k] = IF b.last THEN 1 ELSE pw + 1
        BY <1>3, <1>4, <3>3, <4>3
      <4>6. CASE b.last
        BY <3>3, <4>2, <4>3, <4>4, <4>5, <4>6
      <4>7. CASE ~b.last
        <5>1. F2[k] = fw /\ P2[k] = pw + 1
          BY <4>5, <4>7
        <5> QED BY <3>3, <4>2, <4>3, <4>4, <5>1
      <4> QED BY <4>6, <4>7
    <3> QED BY <3>1, <3>2, <3>3
  <2>3. ASSUME NEW k \in o + 1 .. w + 2 PROVE P2[k] >= 1
    <3>1. CASE k <= w + 1
      <4>1. k \in o + 1 .. w + 1 /\ P2[k] = P[k]
        BY <1>4, <3>1
      <4> QED BY <4>1 DEF Numbered
    <3>2. CASE k = w + 2
      <4>1. w + 1 \in o + 1 .. w + 1
        OBVIOUS
      <4>2. P[w + 1] >= 1 /\ P[w + 1] \in Int
        BY <4>1 DEF Numbered
      <4>3. P[w + 1] + 1 >= 1
        BY <4>2
      <4> QED BY <1>4, <3>2, <4>3
    <3> QED BY <3>1, <3>2
  <2>4. (w + 1) + 1 = w + 2
    OBVIOUS
  <2> QED BY <2>1, <2>2, <2>3, <2>4 DEF Numbered
<1>10. ASSUME NEW k \in o + 1 .. w
       PROVE  F2[k] = F[k] /\ P2[k] = P[k] /\ D2[k] = D[k] /\ D[k].last \in BOOLEAN
  <2>1. k \in Int /\ k <= w /\ k <= w + 1
    OBVIOUS
  <2> QED BY <1>2, <1>3, <1>4, <2>1, ActualBeat
<1>11. F2[w + 1] = F[w + 1] /\ P2[w + 1] = P[w + 1]
  BY <1>3, <1>4
<1>12. ASSUME NEW k \in o + 1 .. w + 1, D2[k].last PROVE X2[F2[k]] = D2[k].err
  <2>1. CASE k = w + 1
    BY <1>2, <1>7, <1>11, <2>1
  <2>2. CASE k # w + 1
    <3>1. k \in o + 1 .. w
      BY <2>2
    <3>2. D[k].last /\ F2[k] = F[k] /\ D2[k] = D[k]
      BY <1>10, <1>12, <3>1
    <3>3. F[k] < F[w + 1]
      BY <3>1, <3>2, EndsFrame
    <3>4. F[k] \in Int /\ F[k] # F[w + 1]
      BY <3>1, <3>3
    <3>5. X2[F[k]] = X[F[k]]
      BY <1>7, <3>4
    <3>6. X[F[k]] = D[k].err
      BY <3>1, <3>2 DEF Foretold
    <3> QED BY <3>2, <3>5, <3>6
  <2> QED BY <2>1, <2>2
<1>13. ASSUME NEW k \in x + 1 .. w
       PROVE  F[k] = F[w + 1] => /\ ~D[k].last
                                 /\ P[w + 1] <= MacBytes => P[k] # MacBytes
  <2>1. k \in o + 1 .. w /\ k \in o + 1 .. w + 1 /\ w + 1 \in o + 1 .. w + 1 /\ k <= w + 1
    OBVIOUS
  <2>2. F[k] = F[w + 1] => P[w + 1] = P[k] + ((w + 1) - k)
    BY <2>1 DEF Numbered
  <2>3. D[k].last => F[k] < F[w + 1]
    BY <2>1, EndsFrame
  <2>4. P[k] \in Int /\ P[w + 1] \in Int /\ MacBytes \in Int /\ F[k] \in Int /\ F[w + 1] \in Int
    <3> k \in Int /\ w + 1 \in Int
      OBVIOUS
    <3> QED BY MacInt
  <2> QED BY <2>2, <2>3, <2>4
<1>14. ASSUME NEW k \in x + 1 .. w + 1, P2[k] = MacBytes
       PROVE  V2[F2[k]] <=> match(Header(D2, k)) = None
  <2>1. CASE k = w + 1
    <3>1. P[w + 1] = MacBytes /\ P[w + 1] <= MacBytes
      BY <1>11, <1>14, <2>1, MacInt
    <3> QED BY <1>5, <1>6, <1>11, <2>1, <3>1
  <2>2. CASE k # w + 1
    <3>1. k \in x + 1 .. w /\ k \in o + 1 .. w /\ k \in Int /\ k <= w
      BY <2>2
    <3>2. F2[k] = F[k] /\ P[k] = MacBytes
      BY <1>10, <1>14, <3>1
    <3>3. V2[F[k]] = V[F[k]]
      <4>1. F[k] \in Int /\ F[w + 1] \in Int /\ P[w + 1] \in Int /\ MacBytes \in Int
        <5> k \in Int /\ w + 1 \in Int
          OBVIOUS
        <5> QED BY MacInt
      <4>2. F[k] = F[w + 1] => P[w + 1] > MacBytes
        BY <1>13, <3>1, <3>2, <4>1
      <4> QED BY <1>6, <4>1, <4>2
    <3>4. Header(D2, k) = Header(D, k)
      <4>1. ASSUME NEW i \in Index PROVE D2[k - MacBytes + 1 + i] = D[k - MacBytes + 1 + i]
        <5>1. k - MacBytes + 1 + i \in Int /\ k - MacBytes + 1 + i <= w
          BY <3>1, MacInt DEF Index
        <5> QED BY <1>2, <5>1
      <4> QED BY <4>1 DEF Header
    <3>5. V[F[k]] <=> match(Header(D, k)) = None
      BY <3>1, <3>2 DEF Foretold
    <3> QED BY <3>2, <3>3, <3>4, <3>5
  <2> QED BY <2>1, <2>2
<1>15. ASSUME NEW k \in x + 1 .. w + 1, D2[k].last, P2[k] < MacBytes PROVE V2[F2[k]]
  <2>1. CASE k = w + 1
    <3>1. P[w + 1] < MacBytes /\ P[w + 1] \in Int /\ MacBytes \in Int
      BY <1>11, <1>15, <2>1, MacInt
    <3>2. P[w + 1] <= MacBytes /\ P[w + 1] # MacBytes
      BY <3>1
    <3> QED BY <1>5, <1>6, <1>11, <2>1, <3>2
  <2>2. CASE k # w + 1
    <3>1. k \in x + 1 .. w /\ k \in o + 1 .. w
      BY <2>2
    <3>2. F2[k] = F[k] /\ P[k] < MacBytes /\ D[k].last
      BY <1>10, <1>15, <3>1
    <3>3. F[k] # F[w + 1] /\ F[k] \in Int
      BY <1>13, <3>1, <3>2
    <3>4. V2[F[k]] = V[F[k]]
      BY <1>6, <3>3
    <3>5. V[F[k]]
      BY <3>1, <3>2 DEF Foretold
    <3> QED BY <3>2, <3>4, <3>5
  <2> QED BY <2>1, <2>2
<1>16. Foretold(D2, F2, P2, V2, X2, o, x, w + 1)
  BY <1>12, <1>14, <1>15 DEF Foretold
<1> QED BY <1>2, <1>8, <1>9, <1>16 DEF Extends

\* The elastic buffer and its read port hold what is accepted and not taken.
Waits == IF r.out_valid THEN 1 ELSE 0
Holds(q, p, valid, byte, D, x, w) == /\ x + p <= w /\ Len(q) = w - x - p
                                     /\ valid => byte = D[x + 1]
                                     /\ Stretch(D, x + p, q, Len(q))
Elastic(D, x, w) == Holds(r.buf, Waits, r.out_valid, r.rd_data, D, x, w)

\* The data buffer holds what is taken and not read; the byte that is out, if it ends its
\* frame, has the frame's error bit.
Keeps(k, ends, D, X, o, x, g) == /\ o <= x /\ Len(k.data) = x - o
                                 /\ Stretch(D, o, k.data, Len(k.data))
                                 /\ ends => X[g] = k.out.err
Kept(D, X, o, x, g) == Keeps(r.c, Ends, D, X, o, x, g)

\* The header registers know how much of the frame was taken.
Captures(k, D, P, x) ==
    /\ k.in_frame <=> P[x + 1] > 1
    /\ P[x + 1] > 1 => /\ k.pushed <=> P[x + 1] > MacBytes
                       /\ k.addr_ok <=> P[x + 1] > MacBytes
    /\ P[x + 1] > 1 /\ P[x + 1] <= MacBytes =>
          /\ k.addr_cnt = P[x + 1] - 1
          /\ \A i \in 0 .. P[x + 1] - 2 : k.addr[i] = D[x + 2 - P[x + 1] + i].byte
Captured(D, P, x) == Captures(r.c, D, P, x)

\* The next byte read is of the frame in force as long as that is open, else begins the next;
\* the verdicts that wait are those of the frames that follow, up to the last judged.
Ranks(k, open, hit, F, P, V, o, x, g) ==
    /\ F[o + 1] = IF open THEN g ELSE g + 1
    /\ ~open => P[o + 1] = 1
    /\ F[x + 1] = g + Len(k.meta) + (IF P[x + 1] > MacBytes THEN 0 ELSE 1)
    /\ \A i \in 1 .. Len(k.meta) : V[g + i] <=> k.meta[i] = None
    /\ k.meta_live => (V[g] <=> ~hit)
Ranked(F, P, V, o, x, g) == Ranks(r.c, Open, Hit, F, P, V, o, x, g)

\* The error bits are those of the frames that ended, from the first on that is not retired;
\* or, while the end of a retired frame is still to come, from that one on.
Behind   == IF r.c.meta_live /\ ~(Retired /\ r.v_pend = 0) THEN 0 ELSE 1
First(g) == g + Behind
Counts(v, pend, early, first, F, X, x) ==
    /\ pend \in {0, 1} /\ (pend = 1 => early)
    /\ Len(v) = F[x + 1] - first
    /\ Stretch(X, first - 1, v, Len(v))
Errors(F, X, x, g) == Counts(r.v, r.v_pend, Retired /\ ~Ends, First(g), F, X, x)

Within(D, F, P, V, X, o, x, g) == /\ Kept(D, X, o, x, g) /\ Captured(D, P, x)
                                  /\ Ranked(F, P, V, o, x, g) /\ Errors(F, X, x, g)

\* What comes later changes nothing of it.
LEMMA SameWithin ==
    ASSUME Typed,
           NEW D \in [Int -> Actual], NEW F \in [Int -> Int], NEW P \in [Int -> Int],
           NEW V \in [Int -> BOOLEAN], NEW X \in [Int -> BOOLEAN],
           NEW D2 \in [Int -> Actual], NEW F2 \in [Int -> Int], NEW P2 \in [Int -> Int],
           NEW V2 \in [Int -> BOOLEAN], NEW X2 \in [Int -> BOOLEAN],
           NEW o \in Int, NEW x \in Int, NEW w \in Int, NEW g \in Int,
           x <= w, Numbered(D, F, P, o, w), Within(D, F, P, V, X, o, x, g),
           Agree(D, F, P, V, X, D2, F2, P2, V2, X2, w)
    PROVE  Within(D2, F2, P2, V2, X2, o, x, g)
<1>1. PICK n \in Nat, m \in Nat, l \in Nat :
         n = Len(r.c.data) /\ m = Len(r.c.meta) /\ l = Len(r.v)
  BY LenProperties DEF Typed
<1>2. o <= x /\ n = x - o
  BY <1>1 DEF Within, Kept, Keeps
<1>3. o + 1 \in Int /\ o + 1 <= w + 1 /\ x + 1 \in Int /\ x + 1 <= w + 1 /\ w + 1 \in Int
  BY <1>2
<1>4. /\ F2[o + 1] = F[o + 1] /\ F2[x + 1] = F[x + 1] /\ P2[x + 1] = P[x + 1]
  BY <1>3 DEF Agree
<1>5. PICK fo \in Int, fx \in Int, fw \in Int, px \in Int, pw \in Int :
         /\ fo = F[o + 1] /\ fx = F[x + 1] /\ fw = F[w + 1] /\ px = P[x + 1] /\ pw = P[w + 1]
  BY <1>3
<1>6. fo <= fx /\ fx <= fw /\ (fx = fw => pw = px + (w - x))
  <2>1. o + 1 \in o + 1 .. w + 1 /\ x + 1 \in o + 1 .. w + 1 /\ w + 1 \in o + 1 .. w + 1
    BY <1>2
  <2>2. o + 1 <= x + 1 /\ x + 1 <= w + 1
    BY <1>2
  <2>3. F[o + 1] <= F[x + 1]
    BY <2>1, <2>2 DEF Numbered
  <2>4. F[x + 1] <= F[w + 1] /\ (F[x + 1] = F[w + 1] => P[w + 1] = P[x + 1] + ((w + 1) - (x + 1)))
    BY <2>1, <2>2 DEF Numbered
  <2>5. (w + 1) - (x + 1) = w - x
    OBVIOUS
  <2> QED BY <1>5, <2>3, <2>4, <2>5
<1>7. Kept(D2, X2, o, x, g)
  <2>1. ASSUME NEW i \in 1 .. n PROVE r.c.data[i] = D2[o + i]
    <3>1. o + i \in Int /\ o + i <= w
      BY <1>2
    <3>2. r.c.data[i] = D[o + i]
      BY <1>1 DEF Within, Kept, Keeps, Stretch
    <3> QED BY <3>1, <3>2 DEF Agree
  <2>2. Ends => X2[g] = X[g]
    <3>1. Ends => fo = g + 1
      BY <1>5 DEF Within, Ranked, Ranks, Open
    <3>2. Ends => g < fw
      BY <1>6, <3>1
    <3> QED BY <1>5, <3>2 DEF Agree
  <2> QED BY <1>1, <2>1, <2>2 DEF Within, Kept, Keeps, Stretch
<1>8. Captured(D2, P2, x)
  <2>1. ASSUME px > 1, NEW i \in 0 .. px - 2 PROVE D2[x + 2 - px + i] = D[x + 2 - px + i]
    <3>1. x + 2 - px + i \in Int /\ x + 2 - px + i <= w
      OBVIOUS
    <3> QED BY <3>1 DEF Agree
  <2>2. Captured(D, P, x)
    BY DEF Within
  <2>3. P2[x + 1] = px /\ P[x + 1] = px
    BY <1>4, <1>5
  <2>4. /\ r.c.in_frame <=> px > 1
        /\ px > 1 => /\ r.c.pushed <=> px > MacBytes
                     /\ r.c.addr_ok <=> px > MacBytes
        /\ px > 1 /\ px <= MacBytes => r.c.addr_cnt = px - 1
    BY <2>2, <2>3 DEF Captured, Captures
  <2>5. ASSUME px > 1, px <= MacBytes, NEW i \in 0 .. px - 2
        PROVE  r.c.addr[i] = D2[x + 2 - px + i].byte
    <3>1. r.c.addr[i] = D[x + 2 - px + i].byte
      BY <2>2, <2>3, <2>5 DEF Captured, Captures
    <3> QED BY <2>1, <2>5, <3>1
  <2> QED BY <2>3, <2>4, <2>5 DEF Captured, Captures
<1>9. Ranked(F2, P2, V2, o, x, g)
  <2>1. fx = g + m + (IF px > MacBytes THEN 0 ELSE 1)
    BY <1>1, <1>5 DEF Within, Ranked, Ranks
  <2>2. ASSUME NEW f \in Int, f <= g + m PROVE V2[f] = V[f]
    <3>1. CASE f < fw
      BY <1>5, <3>1 DEF Agree
    <3>2. CASE f >= fw
      <4>1. f = fw /\ fx = fw /\ px > MacBytes
        BY <1>6, <2>1, <2>2, <3>2
      <4>2. pw > MacBytes
        BY <1>6, <4>1, MacInt
      <4> QED BY <1>5, <4>1, <4>2 DEF Agree
    <3> QED BY <1>5, <3>1, <3>2
  <2>3. \A i \in 1 .. m : g + i \in Int /\ g + i <= g + m
    OBVIOUS
  <2>4. g <= g + m
    OBVIOUS
  <2>5. Ranked(F, P, V, o, x, g)
    BY DEF Within
  <2>6. P2[o + 1] = P[o + 1]
    BY <1>3 DEF Agree
  <2> QED BY <1>1, <1>4, <2>2, <2>3, <2>4, <2>5, <2>6 DEF Ranked, Ranks
<1>10. Errors(F2, X2, x, g)
  <2>1. PICK u \in Int : u = First(g)
    BY DEF First, Behind
  <2>2. l = fx - u /\ \A i \in 1 .. l : r.v[i] = X[u - 1 + i]
    BY <1>1, <1>5, <2>1 DEF Within, Errors, Counts, Stretch
  <2>3. ASSUME NEW i \in 1 .. l PROVE X2[u - 1 + i] = X[u - 1 + i]
    <3>1. u - 1 + i \in Int /\ u - 1 + i < fw
      BY <1>6, <2>2
    <3> QED BY <1>5, <3>1 DEF Agree
  <2>4. Errors(F, X, x, g)
    BY DEF Within
  <2> QED BY <1>1, <1>4, <2>1, <2>2, <2>3, <2>4 DEF Errors, Counts, Stretch
<1> QED BY <1>7, <1>8, <1>9, <1>10 DEF Within

\* The data buffer after an edge.
LEMMA DataEdge ==
    ASSUME Ctl, Typed, NEW beat \in Beat \cup {None}, r' = RxClocked(r, beat),
           NEW a \in 0 .. 1, NEW b \in 0 .. 1, a = 1 <=> Taken, b = 1 <=> Reads
    PROVE  /\ b <= Len(r.c.data) /\ Len(r'.c.data) = Len(r.c.data) - b + a
           /\ Moved(r.c.data, r'.c.data, Len(r.c.data), a, b, r.rd_data)
           /\ Reads => r'.c.out = r.c.data[1]
<1>1. PICK q \in Seq(Actual) : q = r.c.data
  BY DEF Typed
<1>2. PICK e : e = offered(r)
  OBVIOUS
<1>3. Taken => e \in Actual /\ e = r.rd_data
  BY <1>2 DEF Taken, offered, Typed
<1>4. Taken => Len(q) # BufDepth
  <2>1. BufDepth \in Nat
    BY ClassifierAssumption
  <2>2. PICK n \in Nat : n = Len(q)
    BY LenProperties
  <2>3. PICK k \in 0 .. 1 : k = IF r.c.data_rd_q THEN 1 ELSE 0
    OBVIOUS
  <2>4. Taken => n + k < BufDepth
    BY <1>1, <2>2, <2>3 DEF Ctl, Taken
  <2> QED BY <2>1, <2>2, <2>4
<1>5. Reads => q # <<>>
  BY <1>1 DEF Reads
<1>6. b = Gone(q, Reads)
  BY <1>5 DEF Gone
<1>7. PICK d : d = After(q, BufDepth, Taken, e, Reads)
  OBVIOUS
<1>8. r'.c.data = d
  BY <1>1, <1>2, <1>7, Edge
<1>9. Taken => e \in Actual /\ Len(q) # BufDepth
  BY <1>3, <1>4
<1>10. b <= Len(q) /\ Len(d) = Len(q) - b + a
  BY <1>6, <1>7, <1>9, AfterMoves
<1>11. Moved(q, d, Len(q), a, b, e)
  BY <1>6, <1>7, <1>9, AfterMoves
<1>12. Moved(q, d, Len(q), a, b, r.rd_data)
  BY <1>3, <1>11 DEF Moved
<1>13. Reads => r'.c.out = q[1]
  <2>1. Reads => Head(q) = q[1]
    BY <1>5, HeadTailProperties
  <2>2. r'.c.out = IF Reads THEN Head(r.c.data) ELSE r.c.out
    BY Edge
  <2> QED BY <1>1, <2>1, <2>2
<1> QED BY <1>1, <1>8, <1>10, <1>12, <1>13

\* A byte that is read ends its frame, or the frame stays open.
LEMMA KeptStep ==
    ASSUME Ctl, Typed, NEW beat \in Beat \cup {None}, r' = RxClocked(r, beat),
           NEW D \in [Int -> Actual], NEW F \in [Int -> Int], NEW P \in [Int -> Int],
           NEW V \in [Int -> BOOLEAN], NEW X \in [Int -> BOOLEAN],
           NEW o \in Int, NEW x \in Int, NEW w \in Int, NEW g \in Int,
           NEW a \in 0 .. 1, NEW b \in 0 .. 1, NEW c \in 0 .. 1,
           a = 1 <=> Taken, b = 1 <=> Reads, c = 1 <=> Renews,
           x + a <= w, Taken => r.rd_data = D[x + 1],
           Foretold(D, F, P, V, X, o, x, w), Kept(D, X, o, x, g), Ranked(F, P, V, o, x, g)
    PROVE  /\ Kept(D, X, o + b, x + a, g + c)'
           /\ Ends' <=> Reads /\ D[o + 1].last
<1>0. PICK q : q = r.c.data
  OBVIOUS
<1>1. PICK n \in Nat : n = Len(q) /\ q = r.c.data
  BY <1>0, LenProperties DEF Typed
<1>2. n = x - o /\ Stretch(D, o, q, n)
  BY <1>1 DEF Kept, Keeps
<1>3. PICK d : d = r'.c.data
  OBVIOUS
<1>4. b <= n /\ Len(d) = n - b + a
  BY <1>1, <1>3, DataEdge
<1>5. Moved(q, d, n, a, b, r.rd_data)
  BY <1>1, <1>3, DataEdge
<1>6. a = 1 => r.rd_data = D[o + n + 1]
  <2>1. o + n + 1 = x + 1
    BY <1>2
  <2> QED BY <2>1
<1>7. Stretch(D, o + b, d, n - b + a)
  BY <1>2, <1>4, <1>5, <1>6, Shift
<1>8. Reads => r'.c.out = D[o + 1]
  <2>1. Reads => r'.c.out = q[1] /\ n >= 1
    BY <1>1, <1>4, DataEdge
  <2>2. n >= 1 => q[1] = D[o + 1]
    BY <1>2 DEF Stretch
  <2> QED BY <2>1, <2>2
<1>9. Ends' <=> Reads /\ D[o + 1].last
  <2>1. r'.c.data_rd_q <=> Reads
    BY Edge
  <2> QED BY <1>8, <2>1 DEF Ends
<1>10. Ends' => X[g + c] = r'.c.out.err
  <2> SUFFICES ASSUME Reads, D[o + 1].last PROVE X[g + c] = r'.c.out.err
    BY <1>9
  <2>1. Open /\ ~Renews
    BY DEF Reads, Renews
  <2>2. g + c = g /\ F[o + 1] = g
    BY <2>1 DEF Ranked, Ranks
  <2>3. o + 1 \in o + 1 .. w
    BY <1>2, <1>4
  <2>4. X[F[o + 1]] = D[o + 1].err
    BY <2>3 DEF Foretold
  <2> QED BY <1>8, <2>2, <2>4
<1>11. o + b <= x + a /\ n - b + a = (x + a) - (o + b)
  BY <1>2, <1>4
<1> QED BY <1>3, <1>4, <1>7, <1>9, <1>10, <1>11 DEF Kept, Keeps

\* The next byte completes the address.
HdrLast == r.c.in_frame /\ r.c.addr_cnt = MacBytes - 1

\* The header registers after an edge, told by the byte z that is taken.
LEMMA HeaderEdge ==
    ASSUME Ctl, Typed, NEW beat \in Beat \cup {None}, r' = RxClocked(r, beat),
           NEW z, z = r.rd_data
    PROVE  /\ Judges <=> Taken /\ (~r.c.in_frame \/ ~r.c.pushed) /\ (HdrLast \/ z.last)
           /\ Judges => verdict(r.c, offered(r)) =
                 IF HdrLast THEN match([r.c.addr EXCEPT ![MacBytes - 1] = z.byte]) ELSE None
           /\ r'.c.in_frame <=> IF Taken THEN ~z.last ELSE r.c.in_frame
           /\ r'.c.pushed <=> Judges \/ (r.c.pushed /\ ~(Taken /\ ~r.c.in_frame))
           /\ r'.c.addr_ok <=> (Taken /\ HdrLast) \/ (r.c.addr_ok /\ ~(Taken /\ ~r.c.in_frame))
           /\ r'.c.addr_cnt = IF Taken /\ ~r.c.in_frame THEN 1
                              ELSE IF Taken /\ ~r.c.addr_ok THEN r.c.addr_cnt + 1
                              ELSE r.c.addr_cnt
           /\ r'.c.addr = IF Taken /\ ~r.c.in_frame THEN [r.c.addr EXCEPT ![0] = z.byte]
                          ELSE IF Taken /\ ~r.c.addr_ok
                               THEN [r.c.addr EXCEPT ![r.c.addr_cnt] = z.byte]
                          ELSE r.c.addr
<1> DEFINE k == r.c
           b == offered(r)
<1>1. r'.c = ClassifierClocked(k, b, TRUE)
  BY DEF RxClocked
<1>2. s_xfer(k, b) <=> Taken
  BY Wires
<1>3. Taken => b = z
  BY DEF Taken, offered
<1> HIDE DEF b
<1>4. /\ sof(k, b) <=> Taken /\ ~k.in_frame
      /\ hdr_last(k, b) <=> Taken /\ HdrLast
      /\ hdr_fill(k, b) <=> Taken /\ (~k.in_frame \/ ~k.addr_ok)
  BY <1>2 DEF sof, hdr_last, hdr_fill, HdrLast
<1>5. meta_wr_en(k, b) <=> Judges
  BY DEF Judges, b
<1>6. Judges <=> Taken /\ (~k.in_frame \/ ~k.pushed) /\ (HdrLast \/ z.last)
  BY <1>2, <1>3, <1>4, <1>5 DEF meta_wr_en
<1>7. Judges => verdict(k, b) =
         IF HdrLast THEN match([k.addr EXCEPT ![MacBytes - 1] = z.byte]) ELSE None
  BY <1>3, <1>4, <1>6 DEF verdict, addr_cmp
<1>8. /\ r'.c.in_frame = (IF s_xfer(k, b) THEN ~b.last ELSE k.in_frame)
      /\ r'.c.pushed = (meta_wr_en(k, b) \/ (k.pushed /\ ~sof(k, b)))
      /\ r'.c.addr_ok = (hdr_last(k, b) \/ (k.addr_ok /\ ~sof(k, b)))
  BY <1>1 DEF ClassifierClocked
<1>9. /\ r'.c.addr_cnt = (IF sof(k, b) THEN 1
                          ELSE IF hdr_fill(k, b) THEN k.addr_cnt + 1 ELSE k.addr_cnt)
      /\ r'.c.addr = (IF sof(k, b) THEN [k.addr EXCEPT ![0] = b.byte]
                      ELSE IF hdr_fill(k, b) THEN [k.addr EXCEPT ![k.addr_cnt] = b.byte]
                      ELSE k.addr)
  BY <1>1 DEF ClassifierClocked
<1>10. /\ r'.c.in_frame <=> IF Taken THEN ~z.last ELSE k.in_frame
       /\ r'.c.pushed <=> Judges \/ (k.pushed /\ ~(Taken /\ ~k.in_frame))
       /\ r'.c.addr_ok <=> (Taken /\ HdrLast) \/ (k.addr_ok /\ ~(Taken /\ ~k.in_frame))
  BY <1>2, <1>3, <1>4, <1>5, <1>8
<1>11. r'.c.addr_cnt = IF Taken /\ ~k.in_frame THEN 1
                       ELSE IF Taken /\ ~k.addr_ok THEN k.addr_cnt + 1 ELSE k.addr_cnt
  BY <1>4, <1>9
<1>12. r'.c.addr = IF Taken /\ ~k.in_frame THEN [k.addr EXCEPT ![0] = z.byte]
                   ELSE IF Taken /\ ~k.addr_ok THEN [k.addr EXCEPT ![k.addr_cnt] = z.byte]
                   ELSE k.addr
  <2>1. CASE Taken /\ ~k.in_frame
    BY <1>3, <1>4, <1>9, <2>1
  <2>2. CASE Taken /\ k.in_frame /\ ~k.addr_ok
    BY <1>3, <1>4, <1>9, <2>2
  <2>3. CASE ~(Taken /\ ~k.in_frame) /\ ~(Taken /\ ~k.addr_ok)
    BY <1>4, <1>9, <2>3
  <2> QED BY <2>1, <2>2, <2>3
<1> QED BY <1>6, <1>7, <1>10, <1>11, <1>12 DEF b

\* A frame is judged once, with the byte that completes its address or that ends it before;
\* the verdict is the table's on its first bytes.
LEMMA JudgesRight ==
    ASSUME Ctl, Typed, NEW beat \in Beat \cup {None}, r' = RxClocked(r, beat),
           NEW D \in [Int -> Actual], NEW F \in [Int -> Int], NEW P \in [Int -> Int],
           NEW V \in [Int -> BOOLEAN], NEW X \in [Int -> BOOLEAN],
           NEW o \in Int, NEW x \in Int, NEW w \in Int,
           o <= x, x <= w, Taken => x < w /\ r.rd_data = D[x + 1],
           Numbered(D, F, P, o, w), Foretold(D, F, P, V, X, o, x, w), Captured(D, P, x)
    PROVE  /\ P[x + 1] \in Int /\ P[x + 1] >= 1
           /\ P[x + 1] <= MacBytes => (HdrLast <=> P[x + 1] = MacBytes)
           /\ Judges <=> Taken /\ P[x + 1] <= MacBytes /\ (P[x + 1] = MacBytes \/ r.rd_data.last)
           /\ Judges => (V[F[x + 1]] <=> verdict(r.c, offered(r)) = None)
<1>1. PICK p \in Int : p = P[x + 1]
  <2> x + 1 \in Int
    OBVIOUS
  <2> QED OBVIOUS
<1>2. p >= 1
  <2>1. x + 1 \in o + 1 .. w + 1
    OBVIOUS
  <2> QED BY <1>1, <2>1 DEF Numbered
<1>3. /\ r.c.in_frame <=> p > 1
      /\ p > 1 => (r.c.pushed <=> p > MacBytes)
      /\ p > 1 /\ p <= MacBytes => r.c.addr_cnt = p - 1
  BY <1>1 DEF Captured, Captures
<1>4. p <= MacBytes => (HdrLast <=> p = MacBytes)
  BY <1>2, <1>3, MacInt DEF HdrLast
<1>5. Judges <=> Taken /\ (~r.c.in_frame \/ ~r.c.pushed) /\ (HdrLast \/ r.rd_data.last)
  BY HeaderEdge
<1>6. (~r.c.in_frame \/ ~r.c.pushed) <=> p <= MacBytes
  BY <1>2, <1>3, MacInt
<1>7. Judges <=> Taken /\ p <= MacBytes /\ (p = MacBytes \/ r.rd_data.last)
  BY <1>4, <1>5, <1>6
<1>8. ASSUME Judges PROVE V[F[x + 1]] <=> verdict(r.c, offered(r)) = None
  <2>1. PICK z \in Actual : z = r.rd_data /\ z = D[x + 1]
    BY <1>7, <1>8 DEF Typed, Taken
  <2>2. x + 1 \in x + 1 .. w /\ p <= MacBytes
    BY <1>7, <1>8
  <2>3. verdict(r.c, offered(r)) =
           IF HdrLast THEN match([r.c.addr EXCEPT ![MacBytes - 1] = z.byte]) ELSE None
    BY <1>8, <2>1, HeaderEdge
  <2>4. CASE p = MacBytes
    <3>1. V[F[x + 1]] <=> match(Header(D, x + 1)) = None
      BY <1>1, <2>2, <2>4 DEF Foretold
    <3>2. \A i \in 0 .. MacBytes - 2 : r.c.addr[i] = D[x + 2 - MacBytes + i].byte
      BY <1>1, <2>4, MacInt DEF Captured, Captures
    <3>3. [r.c.addr EXCEPT ![MacBytes - 1] = z.byte] = Header(D, x + 1)
      <4>1. r.c.addr \in [Index -> Byte]
        BY DEF Typed, Address
      <4>2. ASSUME NEW i \in Index
            PROVE [r.c.addr EXCEPT ![MacBytes - 1] = z.byte][i] = D[(x + 1) - MacBytes + 1 + i].byte
        <5>1. CASE i = MacBytes - 1
          <6>1. (x + 1) - MacBytes + 1 + i = x + 1
            BY <5>1, MacInt
          <6>2. [r.c.addr EXCEPT ![MacBytes - 1] = z.byte][i] = z.byte
            BY <4>1, <5>1
          <6> QED BY <2>1, <6>1, <6>2
        <5>2. CASE i # MacBytes - 1
          <6>1. i \in 0 .. MacBytes - 2 /\ (x + 1) - MacBytes + 1 + i = x + 2 - MacBytes + i
            BY <5>2, MacInt DEF Index
          <6>2. [r.c.addr EXCEPT ![MacBytes - 1] = z.byte][i] = r.c.addr[i]
            BY <4>1, <5>2
          <6> QED BY <3>2, <6>1, <6>2
        <5> QED BY <5>1, <5>2
      <4>3. PICK f \in [Index -> Byte] : f = [r.c.addr EXCEPT ![MacBytes - 1] = z.byte]
        <5> z.byte \in Byte
          BY ActualBeat
        <5> QED BY <4>1
      <4>4. \A i \in Index : f[i] = D[(x + 1) - MacBytes + 1 + i].byte
        BY <4>2, <4>3
      <4>5. f = [i \in Index |-> f[i]]
        OBVIOUS
      <4>6. [i \in Index |-> f[i]] = [i \in Index |-> D[(x + 1) - MacBytes + 1 + i].byte]
        BY <4>4, Zenon
      <4> QED BY <4>3, <4>5, <4>6 DEF Header
    <3> QED BY <1>4, <2>2, <2>3, <2>4, <3>1, <3>3
  <2>5. CASE p # MacBytes
    <3>1. r.rd_data.last /\ p < MacBytes
      BY <1>7, <1>8, <2>2, <2>5, MacInt
    <3>2. V[F[x + 1]]
      BY <1>1, <2>1, <2>2, <3>1 DEF Foretold
    <3>3. ~HdrLast
      BY <1>4, <2>2, <2>5
    <3> QED BY <2>3, <3>2, <3>3
  <2> QED BY <2>4, <2>5
<1> QED BY <1>1, <1>2, <1>4, <1>7, <1>8

\* The registers go on with the byte that is taken.
LEMMA CapturedStep ==
    ASSUME Ctl, Typed, NEW beat \in Beat \cup {None}, r' = RxClocked(r, beat),
           NEW D \in [Int -> Actual], NEW F \in [Int -> Int], NEW P \in [Int -> Int],
           NEW V \in [Int -> BOOLEAN], NEW X \in [Int -> BOOLEAN],
           NEW o \in Int, NEW x \in Int, NEW w \in Int,
           NEW a \in 0 .. 1, a = 1 <=> Taken,
           o <= x, x + a <= w, Taken => r.rd_data = D[x + 1],
           Numbered(D, F, P, o, w), Foretold(D, F, P, V, X, o, x, w), Captured(D, P, x)
    PROVE  Captured(D, P, x + a)'
<1>1. PICK p \in Int : p = P[x + 1]
  <2> x + 1 \in Int
    OBVIOUS
  <2> QED OBVIOUS
<1>2. p >= 1 /\ (p <= MacBytes => (HdrLast <=> p = MacBytes))
  <2>1. x <= w /\ (Taken => x < w /\ r.rd_data = D[x + 1])
    OBVIOUS
  <2> QED BY <1>1, <2>1, JudgesRight
<1>3. /\ r.c.in_frame <=> p > 1
      /\ p > 1 => (r.c.pushed <=> p > MacBytes) /\ (r.c.addr_ok <=> p > MacBytes)
      /\ p > 1 /\ p <= MacBytes =>
            r.c.addr_cnt = p - 1 /\ \A i \in 0 .. p - 2 : r.c.addr[i] = D[x + 2 - p + i].byte
  BY <1>1 DEF Captured, Captures
<1>4. CASE ~Taken
  <2>1. x + a = x /\ ~Judges
    BY <1>4, JudgesTaken
  <2>2. /\ r'.c.in_frame <=> r.c.in_frame
        /\ r'.c.pushed <=> r.c.pushed
        /\ r'.c.addr_ok <=> r.c.addr_ok
        /\ r'.c.addr_cnt = r.c.addr_cnt
        /\ r'.c.addr = r.c.addr
    BY <1>4, <2>1, HeaderEdge
  <2>3. (P[x + a + 1] = p) /\ x + a = x
    BY <1>1, <2>1
  <2> QED BY <1>3, <2>2, <2>3 DEF Captured, Captures
<1>5. CASE Taken
  <2>1. PICK z \in Actual : z = r.rd_data /\ z = D[x + 1]
    BY <1>5 DEF Typed, Taken
  <2>2. P[x + 2] = IF z.last THEN 1 ELSE p + 1
    <3>1. x + 1 \in o + 1 .. w /\ (x + 1) + 1 = x + 2
      BY <1>5
    <3> QED BY <1>1, <2>1, <3>1 DEF Numbered
  <2>3. x + a = x + 1 /\ x + a + 1 = x + 2
    BY <1>5
  <2>4. /\ r'.c.in_frame <=> ~z.last
        /\ r'.c.pushed <=> Judges \/ (r.c.pushed /\ r.c.in_frame)
        /\ r'.c.addr_ok <=> HdrLast \/ (r.c.addr_ok /\ r.c.in_frame)
        /\ r'.c.addr_cnt = IF ~r.c.in_frame THEN 1
                           ELSE IF ~r.c.addr_ok THEN r.c.addr_cnt + 1 ELSE r.c.addr_cnt
        /\ r'.c.addr = IF ~r.c.in_frame THEN [r.c.addr EXCEPT ![0] = z.byte]
                       ELSE IF ~r.c.addr_ok THEN [r.c.addr EXCEPT ![r.c.addr_cnt] = z.byte]
                       ELSE r.c.addr
    BY <1>5, <2>1, HeaderEdge
  <2>5. CASE z.last
    <3>1. P[x + a + 1] = 1
      BY <2>2, <2>3, <2>5
    <3> QED BY <2>4, <2>5, <3>1 DEF Captured, Captures
  <2>6. CASE ~z.last
    <3>1. P[x + a + 1] = p + 1
      BY <2>2, <2>3, <2>6
    <3>2. Judges <=> p = MacBytes
      <4>1. x <= w /\ x < w /\ r.rd_data = D[x + 1]
        BY <1>5
      <4>2. Judges <=> Taken /\ p <= MacBytes /\ (p = MacBytes \/ r.rd_data.last)
        BY <1>1, <4>1, JudgesRight
      <4> QED BY <1>5, <2>1, <2>6, <4>2, MacInt
    <3>3. r'.c.in_frame /\ p + 1 > 1
      BY <1>2, <2>4, <2>6
    <3>4. r'.c.pushed <=> p + 1 > MacBytes
      BY <1>2, <1>3, <2>4, <3>2, MacInt
    <3>5. r'.c.addr_ok <=> p + 1 > MacBytes
      BY <1>2, <1>3, <2>4, MacInt DEF HdrLast
    <3>6. ASSUME p + 1 <= MacBytes
          PROVE  /\ r'.c.addr_cnt = p
                 /\ \A i \in 0 .. p - 1 : r'.c.addr[i] = D[x + 2 - p + i].byte
      <4>1. r.c.addr \in [Index -> Byte] /\ p - 1 \in Index /\ 0 \in Index
        <5>1. r.c.addr \in [Index -> Byte]
          BY DEF Typed, Address
        <5>2. p - 1 \in Index /\ 0 \in Index
          BY <1>2, <3>6, MacInt DEF Index
        <5> QED BY <5>1, <5>2
      <4>2. CASE p = 1
        <5>1. r'.c.addr_cnt = 1 /\ r'.c.addr = [r.c.addr EXCEPT ![0] = z.byte]
          BY <1>3, <2>4, <4>2
        <5>2. r'.c.addr[0] = z.byte
          BY <4>1, <5>1
        <5>3. \A i \in 0 .. p - 1 : i = 0 /\ x + 2 - p + i = x + 1
          BY <4>2
        <5> QED BY <2>1, <4>2, <5>1, <5>2, <5>3
      <4>3. CASE p > 1
        <5>1. r.c.in_frame /\ ~r.c.addr_ok /\ r.c.addr_cnt = p - 1
          BY <1>3, <3>6, <4>3, MacInt
        <5>2. r'.c.addr_cnt = p - 1 + 1 /\ r'.c.addr = [r.c.addr EXCEPT ![p - 1] = z.byte]
          BY <2>4, <5>1
        <5>3. ASSUME NEW i \in 0 .. p - 1 PROVE r'.c.addr[i] = D[x + 2 - p + i].byte
          <6>1. CASE i = p - 1
            <7>1. x + 2 - p + i = x + 1
              BY <6>1
            <7>2. r'.c.addr[i] = z.byte
              BY <4>1, <5>2, <6>1
            <7> QED BY <2>1, <7>1, <7>2
          <6>2. CASE i # p - 1
            <7>1. i \in 0 .. p - 2 /\ p <= MacBytes
              BY <3>6, <6>2, MacInt
            <7>2. r'.c.addr[i] = r.c.addr[i]
              <8>1. i \in Index
                BY <7>1, MacInt DEF Index
              <8> QED BY <4>1, <5>2, <6>2, <8>1
            <7> QED BY <1>3, <4>3, <7>1, <7>2
          <6> QED BY <6>1, <6>2
        <5> QED BY <5>2, <5>3
      <4> QED BY <1>2, <4>2, <4>3
    <3>7. \A i : (x + a) + 2 - (p + 1) + i = x + 2 - p + i \/ i \notin Int
      BY <2>3
    <3> QED BY <2>3, <3>1, <3>3, <3>4, <3>5, <3>6, <3>7 DEF Captured, Captures
  <2> QED BY <2>5, <2>6
<1> QED BY <1>4, <1>5

\* No more verdicts wait than the data buffer holds bytes; nor more error bits, but for that
\* of the end that is out.
LEMMA Room ==
    ASSUME Typed,
           NEW D \in [Int -> Actual], NEW F \in [Int -> Int], NEW P \in [Int -> Int],
           NEW V \in [Int -> BOOLEAN], NEW X \in [Int -> BOOLEAN],
           NEW o \in Int, NEW x \in Int, NEW w \in Int, NEW g \in Int,
           x <= w, Numbered(D, F, P, o, w), Within(D, F, P, V, X, o, x, g)
    PROVE  /\ Len(r.c.meta) <= Len(r.c.data)
           /\ Len(r.v) <= Len(r.c.data) + (IF Ends THEN 1 ELSE 0)
<1>1. PICK n \in Nat, m \in Nat, l \in Nat :
         n = Len(r.c.data) /\ m = Len(r.c.meta) /\ l = Len(r.v)
  BY LenProperties DEF Typed
<1>2. o <= x /\ n = x - o
  BY <1>1 DEF Within, Kept, Keeps
<1>3. PICK fo \in Int, fx \in Int, po \in Int, px \in Int, u \in Int :
         fo = F[o + 1] /\ fx = F[x + 1] /\ po = P[o + 1] /\ px = P[x + 1] /\ u = First(g)
  <2>1. o + 1 \in Int /\ x + 1 \in Int
    OBVIOUS
  <2>2. First(g) \in Int
    BY DEF First, Behind
  <2> QED BY <2>1, <2>2
<1>4. o + 1 \in o + 1 .. w + 1 /\ x + 1 \in o + 1 .. w + 1 /\ o + 1 <= x + 1
  BY <1>2
<1>5. fx <= fo + (x - o) /\ (fo = fx => px = po + (x - o))
  <2>1. F[x + 1] <= F[o + 1] + ((x + 1) - (o + 1))
    BY <1>4 DEF Numbered
  <2>2. F[o + 1] = F[x + 1] => P[x + 1] = P[o + 1] + ((x + 1) - (o + 1))
    BY <1>4 DEF Numbered
  <2> QED BY <1>3, <2>1, <2>2
<1>6. px > 1 /\ x > o => fx <= fo + (x - o) - 1
  <2> SUFFICES ASSUME px > 1, x > o PROVE fx <= fo + (x - o) - 1
    OBVIOUS
  <2>1. x \in o + 1 .. w /\ x \in o + 1 .. w + 1 /\ o + 1 <= x
    BY <1>2
  <2>2. F[x] <= F[o + 1] + (x - (o + 1))
    BY <1>4, <2>1 DEF Numbered
  <2>3. F[x + 1] = F[x] + (IF D[x].last THEN 1 ELSE 0) /\ P[x + 1] = IF D[x].last THEN 1 ELSE P[x] + 1
    BY <2>1 DEF Numbered
  <2>4. ~D[x].last
    BY <1>3, <2>3
  <2>5. F[x] \in Int
    OBVIOUS
  <2> QED BY <1>3, <2>2, <2>3, <2>4, <2>5
<1>7. /\ fo = IF Open THEN g ELSE g + 1
      /\ ~Open => po = 1
      /\ fx = g + m + (IF px > MacBytes THEN 0 ELSE 1)
  BY <1>1, <1>3 DEF Within, Ranked, Ranks
<1>8. m <= n
  <2>1. CASE px <= MacBytes
    <3>1. fx = g + m + 1
      BY <1>7, <2>1, MacInt
    <3>2. fo <= g + 1
      BY <1>7
    <3> QED BY <1>2, <1>5, <3>1, <3>2
  <2>2. CASE px > MacBytes /\ Open
    BY <1>2, <1>5, <1>7, <2>2
  <2>3. CASE px > MacBytes /\ ~Open
    <3>1. fx = g + m /\ fo = g + 1 /\ px > 1 /\ po = 1
      BY <1>7, <2>3, MacInt
    <3>2. x > o
      <4>1. SUFFICES ASSUME x = o PROVE FALSE
        BY <1>2
      <4>2. px = po
        BY <1>3, <4>1
      <4> QED BY <3>1, <4>2
    <3> QED BY <1>2, <1>6, <3>1, <3>2
  <2> QED BY <2>1, <2>2, <2>3, MacInt
<1>9. l <= n + (IF Ends THEN 1 ELSE 0)
  <2>1. l = fx - u
    BY <1>1, <1>3 DEF Within, Errors, Counts
  <2>2. u = g \/ u = g + 1
    BY <1>3 DEF First, Behind
  <2>3. CASE Ends
    <3>1. fo = g + 1
      BY <1>7, <2>3 DEF Open
    <3> QED BY <1>2, <1>5, <2>1, <2>2, <2>3, <3>1
  <2>4. CASE ~Ends
    <3>1. u = g => fo = g
      BY <1>3, <1>7, <2>4 DEF First, Behind, Open
    <3>2. fo <= g + 1
      BY <1>7
    <3> QED BY <1>2, <1>5, <2>1, <2>2, <2>4, <3>1, <3>2
  <2> QED BY <2>3, <2>4
<1> QED BY <1>1, <1>8, <1>9

\* Bits that stand for the same are the same.
LEMMA Bits ==
    ASSUME NEW y \in 0 .. 1, NEW s \in 0 .. 1, y = 1 <=> s = 1
    PROVE  y = s
OBVIOUS

\* A queue no longer than what is stored has room, even for one more.
LEMMA Under ==
    ASSUME NEW l \in Nat, NEW n \in Nat, NEW i \in 0 .. 1, NEW j \in 0 .. 1,
           NEW B \in Nat, NEW M \in Nat, l <= n + j, j <= i, n + i < B, M >= B
    PROVE  l < M
OBVIOUS

\* Fewer than the room there is.
LEMMA Below ==
    ASSUME NEW m \in Nat, NEW n \in Nat, NEW i \in 0 .. 1, NEW B \in Nat, NEW M \in Nat,
           m <= n, n + i < B, M >= B
    PROVE  m # M
OBVIOUS

\* What the edge does to the verdicts that wait.
LEMMA MetaEdge ==
    ASSUME Ctl, Typed, NEW beat \in Beat \cup {None}, r' = RxClocked(r, beat),
           Len(r.c.meta) <= Len(r.c.data),
           NEW y \in 0 .. 1, y = 1 <=> Judges /\ (Open \/ r.c.meta # <<>>),
           NEW k \in 0 .. 1, k = 1 <=> r.c.meta # <<>> /\ ~Open
    PROVE  /\ k <= Len(r.c.meta) /\ Len(r'.c.meta) = Len(r.c.meta) - k + y
           /\ Moved(r.c.meta, r'.c.meta, Len(r.c.meta), y, k, verdict(r.c, offered(r)))
<1>1. PICK q \in Seq(Verdict) : q = r.c.meta
  BY DEF Typed
<1>2. PICK e : e = verdict(r.c, offered(r))
  OBVIOUS
<1>3. Judges /\ (Open \/ r.c.meta # <<>>) => e \in Verdict /\ Len(q) # MetaDepth
  <2> SUFFICES ASSUME Judges PROVE e \in Verdict /\ Len(q) # MetaDepth
    OBVIOUS
  <2>1. Taken
    BY JudgesTaken
  <2>2. PICK n \in Nat, m \in Nat, i \in 0 .. 1 :
           n = Len(r.c.data) /\ m = Len(q) /\ i = IF r.c.data_rd_q THEN 1 ELSE 0
    BY LenProperties DEF Typed
  <2>3. n + i < BufDepth
    BY <2>1, <2>2 DEF Ctl, Taken
  <2>4. BufDepth \in Nat /\ MetaDepth \in Nat /\ MetaDepth >= BufDepth
    BY ClassifierAssumption
  <2>5. m <= n
    BY <1>1, <2>2
  <2>6. m # MetaDepth
    BY <2>2, <2>3, <2>4, <2>5, Below
  <2>7. e \in Verdict
    BY <1>2, VerdictType
  <2> QED BY <2>2, <2>6, <2>7
<1>4. k = Gone(q, ~Open)
  BY <1>1 DEF Gone
<1> DEFINE wr == Judges /\ (Open \/ r.c.meta # <<>>)
<1>5. PICK d : d = After(q, MetaDepth, wr, e, ~Open)
  OBVIOUS
<1>6. r'.c.meta = d
  BY <1>1, <1>2, <1>5, Edge
<1>7. k <= Len(q) /\ Len(d) = Len(q) - k + y
  <2>1. k <= Len(q)
    BY <1>3, <1>4, <1>5, AfterMoves
  <2>2. Len(d) = Len(q) - k + y
    <3>1. (wr => e \in Verdict /\ Len(q) # MetaDepth) /\ (y = 1 <=> wr)
      BY <1>3
    <3> HIDE DEF wr
    <3> QED BY <1>4, <1>5, <3>1, AfterMoves
  <2> QED BY <2>1, <2>2
<1>8. Moved(q, d, Len(q), y, k, e)
  BY <1>3, <1>4, <1>5, AfterMoves
<1> QED BY <1>1, <1>2, <1>6, <1>7, <1>8

\* A verdict comes in force when the frame before it has ended; those that wait are still
\* those of the frames that follow.
LEMMA RankedStep ==
    ASSUME Ctl, Typed, NEW beat \in Beat \cup {None}, r' = RxClocked(r, beat),
           NEW D \in [Int -> Actual], NEW F \in [Int -> Int], NEW P \in [Int -> Int],
           NEW V \in [Int -> BOOLEAN], NEW X \in [Int -> BOOLEAN],
           NEW o \in Int, NEW x \in Int, NEW w \in Int, NEW g \in Int,
           NEW a \in 0 .. 1, NEW b \in 0 .. 1, NEW c \in 0 .. 1,
           a = 1 <=> Taken, b = 1 <=> Reads, c = 1 <=> Renews,
           x + a <= w, Taken => r.rd_data = D[x + 1],
           Numbered(D, F, P, o, w), Foretold(D, F, P, V, X, o, x, w),
           Within(D, F, P, V, X, o, x, g)
    PROVE  Ranked(F, P, V, o + b, x + a, g + c)'
<1>1. PICK m \in Nat, n \in Nat : m = Len(r.c.meta) /\ n = Len(r.c.data)
  BY LenProperties DEF Typed
<1>2. o <= x /\ n = x - o /\ m <= n /\ x <= w
  <2>1. x <= w
    OBVIOUS
  <2> QED BY <1>1, <2>1, Room DEF Within, Kept, Keeps
<1>3. PICK fx \in Int, px \in Int : fx = F[x + 1] /\ px = P[x + 1]
  <2> x + 1 \in Int
    OBVIOUS
  <2> QED OBVIOUS
<1>4. /\ fx = g + m + (IF px > MacBytes THEN 0 ELSE 1)
      /\ \A i \in 1 .. m : V[g + i] <=> r.c.meta[i] = None
      /\ r.c.meta_live => (V[g] <=> ~Hit)
      /\ F[o + 1] = IF Open THEN g ELSE g + 1
      /\ ~Open => P[o + 1] = 1
  BY <1>1, <1>3 DEF Within, Ranked, Ranks
<1>5. /\ Judges <=> Taken /\ px <= MacBytes /\ (px = MacBytes \/ r.rd_data.last)
      /\ Judges => (V[fx] <=> verdict(r.c, offered(r)) = None)
  <2>1. o <= x /\ x <= w /\ (Taken => x < w /\ r.rd_data = D[x + 1]) /\ Captured(D, P, x)
    BY <1>2 DEF Within
  <2> QED BY <1>3, <2>1, JudgesRight
<1>6. PICK y \in 0 .. 1, k \in 0 .. 1 :
         /\ y = 1 <=> Judges /\ (Open \/ r.c.meta # <<>>)
         /\ k = 1 <=> r.c.meta # <<>> /\ ~Open
  <2> DEFINE yy == IF Judges /\ (Open \/ r.c.meta # <<>>) THEN 1 ELSE 0
             kk == IF r.c.meta # <<>> /\ ~Open THEN 1 ELSE 0
  <2>1. yy \in 0 .. 1 /\ kk \in 0 .. 1 /\ (yy = 1 <=> Judges /\ (Open \/ r.c.meta # <<>>))
        /\ (kk = 1 <=> r.c.meta # <<>> /\ ~Open)
    OBVIOUS
  <2> QED BY <2>1
<1>7. PICK e : e = verdict(r.c, offered(r))
  OBVIOUS
<1>8. k <= m /\ Len(r'.c.meta) = m - k + y /\ Moved(r.c.meta, r'.c.meta, m, y, k, e)
  BY <1>1, <1>2, <1>6, <1>7, MetaEdge
<1>9. m = 0 <=> r.c.meta = <<>>
  BY <1>1, EmptySeq DEF Typed
\* The first unread beat
<1>10. /\ F[(o + b) + 1] = IF Open' THEN g + c ELSE g + c + 1
       /\ ~Open' => P[(o + b) + 1] = 1
  <2>1. Ends' <=> Reads /\ D[o + 1].last
    BY KeptStep DEF Within
  <2>2. Open' <=> (Renews \/ Open) /\ ~Ends'
    BY Edge DEF Open
  <2>3. CASE Reads
    <3>1. Open /\ ~Renews /\ c = 0 /\ b = 1
      BY <2>3 DEF Reads, Renews
    <3>2. o + 1 \in o + 1 .. w
      <4>1. n >= 1
        BY <1>1, <2>3, DataEdge
      <4> QED BY <1>2, <4>1
    <3>3. /\ F[o + 1 + 1] = F[o + 1] + (IF D[o + 1].last THEN 1 ELSE 0)
          /\ P[o + 1 + 1] = IF D[o + 1].last THEN 1 ELSE P[o + 1] + 1
      BY <3>2 DEF Numbered
    <3>4. F[o + 1] = g
      BY <1>4, <3>1
    <3>5. (o + b) + 1 = o + 1 + 1 /\ g + c = g
      BY <3>1
    <3> QED BY <2>1, <2>2, <2>3, <3>1, <3>3, <3>4, <3>5
  <2>4. CASE ~Reads /\ Renews
    <3>1. ~Open /\ c = 1 /\ b = 0 /\ Open'
      BY <2>1, <2>2, <2>4 DEF Renews
    <3>2. (o + b) + 1 = o + 1
      BY <3>1
    <3> QED BY <1>4, <3>1, <3>2
  <2>5. CASE ~Reads /\ ~Renews
    <3>1. c = 0 /\ b = 0 /\ (Open' <=> Open)
      BY <2>1, <2>2, <2>5
    <3>2. (o + b) + 1 = o + 1 /\ g + c = g
      BY <3>1
    <3> QED BY <1>4, <3>1, <3>2
  <2> QED BY <2>3, <2>4, <2>5
\* The first byte not taken
<1>11. PICK s \in 0 .. 1 : s = 1 <=> Judges
  <2> DEFINE ss == IF Judges THEN 1 ELSE 0
  <2>1. ss \in 0 .. 1 /\ (ss = 1 <=> Judges)
    OBVIOUS
  <2> QED BY <2>1
<1>12. (g + c) + (m - k + y) = g + m + s
  <2>1. CASE Open
    <3>1. c = 0 /\ k = 0
      BY <1>6, <2>1 DEF Renews
    <3>2. y = s
      <4>1. y = 1 <=> s = 1
        BY <1>6, <1>11, <2>1
      <4> QED BY <4>1, Bits
    <3> QED BY <3>1, <3>2
  <2>2. CASE ~Open /\ r.c.meta # <<>>
    <3>1. c = 1 /\ k = 1
      BY <1>6, <2>2 DEF Renews
    <3>2. y = s
      <4>1. y = 1 <=> s = 1
        BY <1>6, <1>11, <2>2
      <4> QED BY <4>1, Bits
    <3> QED BY <3>1, <3>2
  <2>3. CASE ~Open /\ r.c.meta = <<>>
    <3>1. k = 0 /\ y = 0
      BY <1>6, <2>3
    <3>2. Renews <=> Judges
      BY <2>3 DEF Renews
    <3>3. c = s
      BY <1>11, <3>2
    <3> QED BY <3>1, <3>3
  <2> QED BY <2>1, <2>2, <2>3
<1>13. F[(x + a) + 1] = g + m + s + (IF P[(x + a) + 1] > MacBytes THEN 0 ELSE 1)
  <2>1. CASE ~Taken
    <3>1. a = 0 /\ s = 0
      BY <1>5, <1>11, <2>1
    <3>2. (x + a) + 1 = x + 1 /\ g + m + s = g + m
      BY <3>1
    <3> QED BY <1>3, <1>4, <3>2
  <2>2. CASE Taken
    <3>1. a = 1 /\ (x + a) + 1 = x + 1 + 1 /\ r.rd_data = D[x + 1] /\ x + 1 \in o + 1 .. w
      BY <1>2, <2>2
    <3>2. PICK z \in BOOLEAN : z = r.rd_data.last
      BY <2>2, ActualBeat DEF Typed, Taken
    <3>3. F[x + 1 + 1] = fx + (IF z THEN 1 ELSE 0) /\ P[x + 1 + 1] = IF z THEN 1 ELSE px + 1
      BY <1>3, <3>1, <3>2 DEF Numbered
    <3>4. s = 1 <=> px <= MacBytes /\ (px = MacBytes \/ z)
      BY <1>5, <1>11, <2>2, <3>2
    <3>5. CASE z
      <4>1. F[x + 1 + 1] = fx + 1 /\ P[x + 1 + 1] = 1 /\ ~(1 > MacBytes)
        BY <3>3, <3>5, MacInt
      <4>2. s = (IF px > MacBytes THEN 0 ELSE 1)
        BY <3>4, <3>5, MacInt
      <4> QED BY <1>4, <3>1, <4>1, <4>2
    <3>6. CASE ~z
      <4>1. F[x + 1 + 1] = fx /\ P[x + 1 + 1] = px + 1
        BY <3>3, <3>6
      <4>2. (IF px > MacBytes THEN 0 ELSE 1) = s + (IF px + 1 > MacBytes THEN 0 ELSE 1)
        BY <3>4, <3>6, MacInt
      <4> QED BY <1>4, <3>1, <4>1, <4>2
    <3> QED BY <3>5, <3>6
  <2> QED BY <2>1, <2>2
\* The verdicts that wait
<1>14. Judges => (V[g + m + 1] <=> e = None)
  <2> SUFFICES ASSUME Judges PROVE V[g + m + 1] <=> e = None
    OBVIOUS
  <2>1. fx = g + m + 1
    BY <1>4, <1>5, MacInt
  <2> QED BY <1>5, <1>7, <2>1
<1>15. \A i \in 1 .. m - k + y : V[g + c + i] <=> r'.c.meta[i] = None
  <2> SUFFICES ASSUME NEW i \in 1 .. m - k + y PROVE V[g + c + i] <=> r'.c.meta[i] = None
    OBVIOUS
  <2>1. m - k + y >= 1 => c = k
    <3>1. r.c.meta # <<>> \/ Open => c = k
      <4>1. CASE Open
        <5>1. c = 0 /\ k = 0
          BY <1>6, <4>1 DEF Renews
        <5> QED BY <5>1
      <4>2. CASE ~Open /\ r.c.meta # <<>>
        <5>1. c = 1 /\ k = 1
          BY <1>6, <4>2 DEF Renews
        <5> QED BY <5>1
      <4> QED BY <4>1, <4>2
    <3>2. r.c.meta = <<>> /\ ~Open => m = 0 /\ k = 0 /\ y = 0
      <4>1. r.c.meta = <<>> => m = 0
        BY <1>9
      <4>2. r.c.meta = <<>> /\ ~Open => k = 0 /\ y = 0
        BY <1>6
      <4> QED BY <4>1, <4>2
    <3>3. m = 0 /\ k = 0 /\ y = 0 => ~(m - k + y >= 1)
      OBVIOUS
    <3> QED BY <3>1, <3>2, <3>3
  <2>2. c = k
    BY <1>8, <2>1
  <2>3. CASE i <= m - k
    <3>1. i \in 1 .. m - k /\ i + k \in 1 .. m /\ g + (i + k) = g + c + i
      BY <2>2, <2>3
    <3>2. r'.c.meta[i] = r.c.meta[i + k]
      BY <1>8, <3>1 DEF Moved
    <3> QED BY <1>4, <3>1, <3>2
  <2>4. CASE i > m - k
    <3>1. i = m - k + 1 /\ y = 1 /\ g + c + i = g + m + 1
      BY <2>2, <2>4
    <3>2. r'.c.meta[i] = e /\ Judges
      BY <1>6, <1>8, <3>1 DEF Moved
    <3> QED BY <1>14, <3>1, <3>2
  <2> QED BY <2>3, <2>4
\* The verdict in force
<1>16. r'.c.meta_live => (V[g + c] <=> ~Hit')
  <2>1. /\ r'.c.meta_live <=> Renews \/ Open
        /\ Hit' <=> IF Renews THEN (IF r.c.meta # <<>> THEN Head(r.c.meta) ELSE e) # None ELSE Hit
    BY <1>7, Edge, EdgeVerdict
  <2>2. CASE Renews /\ r.c.meta # <<>>
    <3>1. Head(r.c.meta) = r.c.meta[1]
      <4>1. r.c.meta \in Seq(Verdict) /\ r.c.meta # <<>>
        BY <2>2 DEF Typed
      <4> QED BY <4>1, HeadTailProperties
    <3>2. 1 \in 1 .. m
      <4>1. m # 0
        BY <1>9, <2>2
      <4> QED BY <4>1
    <3>3. g + c = g + 1
      BY <2>2
    <3>4. V[g + 1] <=> r.c.meta[1] = None
      BY <1>4, <3>2
    <3> QED BY <2>1, <2>2, <3>1, <3>3, <3>4
  <2>3. CASE Renews /\ r.c.meta = <<>>
    <3>1. Judges /\ m = 0 /\ g + c = g + m + 1
      BY <1>9, <2>3 DEF Renews
    <3> QED BY <1>14, <2>1, <2>3, <3>1
  <2>4. CASE ~Renews
    <3>1. g + c = g /\ (Open => r.c.meta_live)
      BY <2>4 DEF Open
    <3> QED BY <1>4, <2>1, <2>4, <3>1
  <2> QED BY <2>2, <2>3, <2>4
<1> QED
  <2>1. PICK t : t = r'.c.meta
    OBVIOUS
  <2>2. Len(t) = m - k + y
    BY <1>8, <2>1
  <2>3. F[(x + a) + 1] = (g + c) + Len(t) + (IF P[(x + a) + 1] > MacBytes THEN 0 ELSE 1)
    BY <1>12, <1>13, <2>2
  <2>4. \A i \in 1 .. Len(t) : V[g + c + i] <=> t[i] = None
    BY <1>15, <2>1, <2>2
  <2> QED BY <1>10, <1>16, <2>1, <2>3, <2>4 DEF Ranked, Ranks

\* A frame is retired with the last byte of it that is sent, or when its drop is counted.
LEMMA RetiredEdge ==
    ASSUME Ctl, Typed, NEW beat \in Beat \cup {None}, r' = RxClocked(r, beat),
           NEW d \in 0 .. 1, NEW e \in 0 .. 1, d = 1 <=> frame_done(r), e = 1 <=> v_pop(r)
    PROVE  /\ r'.c.meta_live <=> Renews \/ Open
           /\ Retired' <=> ~Ends /\ (Retired \/ drop_pulse(r))
           /\ frame_done(r) <=> (Ends /\ Hit) \/ drop_pulse(r)
           /\ r'.v_pend = r.v_pend + d - e
<1>1. /\ r'.c.meta_rd_q <=> Renews
      /\ r'.c.meta_live <=> Renews \/ Open
      /\ drop_pulse(r)' <=> r.c.meta_rd_q /\ ~Hit
  BY Edge, EdgePulse
<1>2. ~Renews => (Hit' <=> Hit)
  BY EdgeVerdict
<1>3. Renews => ~Open
  BY DEF Renews
<1>4. Retired' <=> Open /\ ~Hit /\ ~r.c.meta_rd_q
  BY <1>1, <1>2, <1>3 DEF Retired
<1>5. Open /\ ~Hit /\ ~r.c.meta_rd_q <=> ~Ends /\ (Retired \/ drop_pulse(r))
  BY DEF Ctl, Open, Retired
<1>6. frame_done(r) <=> (Ends /\ Hit) \/ drop_pulse(r)
  BY Wires DEF frame_done
<1>7. r'.v_pend = r.v_pend + (IF frame_done(r) THEN 1 ELSE 0) - (IF v_pop(r) THEN 1 ELSE 0)
  BY DEF RxClocked
<1>8. d = (IF frame_done(r) THEN 1 ELSE 0) /\ e = (IF v_pop(r) THEN 1 ELSE 0)
  OBVIOUS
<1>9. r'.v_pend = r.v_pend + d - e
  BY <1>7, <1>8
<1> QED BY <1>1, <1>4, <1>5, <1>6, <1>9

\* The first frame whose error bit is wanted moves when a frame comes in force, or a bit is
\* taken.
LEMMA FirstStep ==
    ASSUME Ctl, Typed, NEW beat \in Beat \cup {None}, r' = RxClocked(r, beat),
           NEW c \in 0 .. 1, NEW e \in 0 .. 1,
           c = 1 <=> Renews, e = 1 <=> v_pop(r),
           r.v_pend \in {0, 1}, r.v_pend = 1 => Retired /\ ~Ends,
           (Ends \/ Ends') /\ Behind = 0 => r.v # <<>>
    PROVE  /\ r'.v_pend \in {0, 1} /\ (r'.v_pend = 1 => Retired' /\ ~Ends')
           /\ c + Behind' = Behind + e
<1>1. PICK d \in 0 .. 1 : d = 1 <=> frame_done(r)
  <2> DEFINE dd == IF frame_done(r) THEN 1 ELSE 0
  <2>1. dd \in 0 .. 1 /\ (dd = 1 <=> frame_done(r))
    OBVIOUS
  <2> QED BY <2>1
<1>2. /\ r'.c.meta_live <=> Renews \/ Open
      /\ Retired' <=> ~Ends /\ (Retired \/ drop_pulse(r))
      /\ frame_done(r) <=> (Ends /\ Hit) \/ drop_pulse(r)
      /\ r'.v_pend = r.v_pend + d - e
  BY <1>1, RetiredEdge
<1>3. e = 1 <=> r.v # <<>> /\ (d = 1 \/ r.v_pend = 1)
  BY <1>1 DEF v_pop
<1>4. Behind = IF r.c.meta_live /\ ~(Retired /\ r.v_pend = 0) THEN 0 ELSE 1
  BY DEF Behind
<1>5. Behind' = IF r'.c.meta_live /\ ~(Retired' /\ r'.v_pend = 0) THEN 0 ELSE 1
  BY DEF Behind
<1>6. /\ Ends => r.c.meta_live /\ ~Open
      /\ drop_pulse(r) => r.c.meta_live /\ ~Hit /\ ~Retired
      /\ Retired => r.c.meta_live /\ ~Hit
  BY DEF Ctl, Ends, Open, Retired
<1>7. Renews => ~Open
  BY DEF Renews
\* No frame is in force.
<1>8. CASE ~r.c.meta_live
  <2>1. ~Ends /\ ~drop_pulse(r) /\ ~Retired /\ ~Retired' /\ ~Open
    BY <1>2, <1>6, <1>8 DEF Open
  <2>2. d = 0 /\ r.v_pend = 0
    BY <1>1, <1>2, <2>1
  <2>3. e = 0
    BY <1>3, <2>2
  <2>4. r'.v_pend = 0 /\ Behind = 1
    BY <1>2, <1>4, <1>8, <2>2, <2>3
  <2>5. c + Behind' = 1
    <3>1. r'.c.meta_live <=> c = 1
      BY <1>2, <2>1
    <3> QED BY <1>5, <2>1, <3>1
  <2> QED BY <2>3, <2>4, <2>5
\* The frame in force ends.
<1>9. CASE Ends
  <2>1. r.c.meta_live /\ ~Open /\ ~Retired' /\ r.v_pend = 0
    BY <1>2, <1>6, <1>9
  <2>2. c + Behind' = 1
    <3>1. r'.c.meta_live <=> c = 1
      BY <1>2, <2>1
    <3> QED BY <1>5, <2>1, <3>1
  <2>3. CASE Retired
    <3>1. ~frame_done(r)
      BY <1>2, <1>6, <2>3
    <3>2. d = 0
      BY <1>1, <3>1
    <3>3. e = 0
      BY <1>3, <2>1, <3>2
    <3>4. Behind = 1
      BY <1>4, <2>1, <2>3
    <3>5. r'.v_pend = 0
      BY <1>2, <2>1, <3>2, <3>3
    <3> QED BY <2>2, <3>3, <3>4, <3>5
  <2>4. CASE ~Retired
    <3>1. Behind = 0
      BY <1>4, <2>1, <2>4
    <3>2. frame_done(r)
      BY <1>2, <1>9, <2>1, <2>4 DEF Ctl, Ends, Retired
    <3>3. d = 1 /\ r.v # <<>>
      BY <1>1, <1>9, <3>1, <3>2
    <3>4. e = 1
      BY <1>3, <3>3
    <3>5. r'.v_pend = 0
      BY <1>2, <2>1, <3>3, <3>4
    <3> QED BY <2>2, <3>1, <3>4, <3>5
  <2> QED BY <2>3, <2>4
\* It stays in force.
<1>10. CASE Open
  <2>1. r.c.meta_live /\ ~Ends /\ c = 0 /\ r'.c.meta_live
    BY <1>2, <1>7, <1>10 DEF Open
  <2>2. c + Behind' = IF ~(Retired' /\ r'.v_pend = 0) THEN 0 ELSE 1
    BY <1>5, <2>1
  <2>3. CASE ~Retired /\ ~drop_pulse(r)
    <3>1. ~Retired' /\ ~frame_done(r) /\ r.v_pend = 0
      BY <1>2, <2>1, <2>3
    <3>2. d = 0
      BY <1>1, <3>1
    <3>3. e = 0
      BY <1>3, <3>1, <3>2
    <3>4. Behind = 0
      BY <1>4, <2>1, <2>3
    <3>5. r'.v_pend = 0
      BY <1>2, <3>1, <3>2, <3>3
    <3> QED BY <2>2, <3>1, <3>3, <3>4, <3>5
  <2>4. CASE Retired /\ r.v_pend = 0
    <3>1. Retired' /\ ~frame_done(r)
      BY <1>2, <1>6, <2>1, <2>4
    <3>2. d = 0
      BY <1>1, <3>1
    <3>3. e = 0
      BY <1>3, <2>4, <3>2
    <3>4. Behind = 1
      BY <1>4, <2>1, <2>4
    <3>5. r'.v_pend = 0
      BY <1>2, <2>4, <3>2, <3>3
    <3> QED BY <2>2, <3>1, <3>3, <3>4, <3>5
  <2>5. CASE drop_pulse(r) \/ r.v_pend = 1
    <3>1. Retired' /\ Behind = 0
      BY <1>2, <1>4, <1>6, <2>1, <2>5
    <3>2. d + r.v_pend = 1
      <4>1. CASE drop_pulse(r)
        <5>1. d = 1 /\ r.v_pend = 0
          BY <1>1, <1>2, <1>6, <4>1
        <5> QED BY <5>1
      <4>2. CASE r.v_pend = 1
        <5>1. ~frame_done(r)
          BY <1>2, <1>6, <2>1, <4>2
        <5>2. d = 0
          BY <1>1, <5>1
        <5> QED BY <4>2, <5>2
      <4> QED BY <2>5, <4>1, <4>2
    <3>3. e = 1 <=> r.v # <<>>
      BY <1>3, <3>2
    <3>4. r'.v_pend = 1 - e
      BY <1>2, <3>2
    <3>5. e = 0 => ~Ends'
      BY <3>1, <3>3
    <3>6. c + Behind' = e
      BY <2>2, <3>1, <3>4
    <3>7. r'.v_pend \in {0, 1} /\ (r'.v_pend = 1 => e = 0)
      BY <3>4
    <3> QED BY <3>1, <3>5, <3>6, <3>7
  <2> QED BY <2>3, <2>4, <2>5
<1> QED BY <1>8, <1>9, <1>10 DEF Open

\* What the edge does to the error bits.
LEMMA BitsEdge ==
    ASSUME Ctl, Typed, NEW beat \in Beat \cup {None}, r' = RxClocked(r, beat),
           Len(r.v) <= Len(r.c.data) + (IF Ends THEN 1 ELSE 0),
           NEW s \in 0 .. 1, s = 1 <=> Taken /\ r.rd_data.last,
           NEW e \in 0 .. 1, e = 1 <=> v_pop(r)
    PROVE  /\ v_wr_en(r) => Len(r.v) < VerdictDepth
           /\ e <= Len(r.v) /\ Len(r'.v) = Len(r.v) - e + s
           /\ Moved(r.v, r'.v, Len(r.v), s, e, r.rd_data.err)
<1>1. PICK q \in Seq(BOOLEAN) : q = r.v
  BY DEF Typed
<1>2. v_wr_en(r) <=> Taken /\ r.rd_data.last
  BY Wires DEF v_wr_en
<1>3. PICK wr \in BOOLEAN : wr <=> v_wr_en(r)
  OBVIOUS
<1>4. PICK z \in BOOLEAN : z <=> v_wr_en(r) /\ r.rd_data.err
  OBVIOUS
<1>5. v_wr_en(r) => Len(q) < VerdictDepth
  <2> SUFFICES ASSUME v_wr_en(r) PROVE Len(q) < VerdictDepth
    OBVIOUS
  <2>1. PICK n \in Nat, l \in Nat, i \in 0 .. 1 :
           n = Len(r.c.data) /\ l = Len(q) /\ i = IF r.c.data_rd_q THEN 1 ELSE 0
    BY LenProperties DEF Typed
  <2>2. n + i < BufDepth
    BY <1>2, <2>1 DEF Ctl, Taken
  <2>3. PICK j \in 0 .. 1 : j = IF Ends THEN 1 ELSE 0
    OBVIOUS
  <2>4. l <= n + j
    BY <1>1, <2>1, <2>3
  <2>6. j <= i
    <3>1. Ends => i = 1
      BY <2>1 DEF Ends
    <3> QED BY <2>3, <3>1
  <2>5. BufDepth \in Nat /\ VerdictDepth \in Nat /\ VerdictDepth >= BufDepth
    BY ClassifierAssumption, RxAssumption
  <2>7. l < VerdictDepth
    BY <2>2, <2>4, <2>5, <2>6, Under
  <2> QED BY <2>1, <2>7
<1>6. PICK d : d = After(q, VerdictDepth, wr, z, v_pop(r))
  OBVIOUS
<1>7. r'.v = d
  <2>1. r'.v = After(r.v, VerdictDepth, v_wr_en(r), v_wr_en(r) /\ r.rd_data.err, v_pop(r))
    BY DEF RxClocked
  <2>2. wr = v_wr_en(r) /\ z = (v_wr_en(r) /\ r.rd_data.err)
    <3>1. v_wr_en(r) \in BOOLEAN
      BY DEF v_wr_en, s_xfer
    <3> QED BY <1>3, <1>4, <3>1
  <2> QED BY <1>1, <1>6, <2>1, <2>2
<1>8. wr => z \in BOOLEAN /\ Len(q) # VerdictDepth
  <2>1. Len(q) \in Nat /\ VerdictDepth \in Nat
    BY LenProperties, RxAssumption
  <2> QED BY <1>3, <1>5, <2>1
<1>9. e = Gone(q, v_pop(r))
  BY <1>1 DEF Gone, v_pop
<1>10. s = 1 <=> wr
  BY <1>2, <1>3
<1>11. e <= Len(q)
  BY <1>6, <1>8, <1>9, <1>10, AfterMoves
<1>12. Len(d) = Len(q) - e + s
  BY <1>6, <1>8, <1>9, <1>10, AfterMoves
<1>13. Moved(q, d, Len(q), s, e, z)
  BY <1>6, <1>8, <1>9, <1>10, AfterMoves
<1>14. s = 1 => z = r.rd_data.err
  <2>1. Taken => r.rd_data.err \in BOOLEAN
    BY ActualBeat DEF Typed, Taken
  <2> QED BY <1>2, <1>4, <2>1
<1>15. Moved(q, d, Len(q), s, e, r.rd_data.err)
  BY <1>13, <1>14 DEF Moved
<1> QED BY <1>1, <1>5, <1>7, <1>11, <1>12, <1>15

\* Each frame's error bit goes as the frame is retired, or as it comes in if that is later.
LEMMA ErrorsStep ==
    ASSUME Ctl, Typed, NEW beat \in Beat \cup {None}, r' = RxClocked(r, beat),
           NEW D \in [Int -> Actual], NEW F \in [Int -> Int], NEW P \in [Int -> Int],
           NEW V \in [Int -> BOOLEAN], NEW X \in [Int -> BOOLEAN],
           NEW o \in Int, NEW x \in Int, NEW w \in Int, NEW g \in Int,
           NEW a \in 0 .. 1, NEW b \in 0 .. 1, NEW c \in 0 .. 1,
           a = 1 <=> Taken, b = 1 <=> Reads, c = 1 <=> Renews,
           x + a <= w, Taken => r.rd_data = D[x + 1],
           Numbered(D, F, P, o, w), Foretold(D, F, P, V, X, o, x, w),
           Within(D, F, P, V, X, o, x, g)
    PROVE  Errors(F, X, x + a, g + c)'
<1>1. PICK l \in Nat, n \in Nat : l = Len(r.v) /\ n = Len(r.c.data)
  BY LenProperties DEF Typed
<1>2. PICK u \in Int, fo \in Int, fx \in Int : u = First(g) /\ fo = F[o + 1] /\ fx = F[x + 1]
  <2>1. First(g) \in Int /\ o + 1 \in Int /\ x + 1 \in Int
    BY DEF First, Behind
  <2> QED BY <2>1
<1>3. /\ r.v_pend \in {0, 1} /\ (r.v_pend = 1 => Retired /\ ~Ends)
      /\ l = fx - u /\ Stretch(X, u - 1, r.v, l)
  BY <1>1, <1>2 DEF Within, Errors, Counts
<1>4. o <= x /\ x <= w /\ n = x - o
  <2>1. x <= w
    OBVIOUS
  <2> QED BY <1>1, <2>1 DEF Within, Kept, Keeps
<1>5. PICK s \in 0 .. 1, e \in 0 .. 1 : (s = 1 <=> Taken /\ r.rd_data.last) /\ (e = 1 <=> v_pop(r))
  <2> DEFINE ss == IF Taken /\ r.rd_data.last THEN 1 ELSE 0
             ee == IF v_pop(r) THEN 1 ELSE 0
  <2>1. /\ ss \in 0 .. 1 /\ (ss = 1 <=> Taken /\ r.rd_data.last)
        /\ ee \in 0 .. 1 /\ (ee = 1 <=> v_pop(r))
    OBVIOUS
  <2> QED BY <2>1
<1>6. PICK d : d = r'.v
  OBVIOUS
<1>7. e <= l /\ Len(d) = l - e + s /\ Moved(r.v, d, l, s, e, r.rd_data.err)
  <2>1. Len(r.v) <= Len(r.c.data) + (IF Ends THEN 1 ELSE 0)
    BY <1>4, Room
  <2> QED BY <1>1, <1>5, <1>6, <2>1, BitsEdge
<1>8. F[(x + a) + 1] = fx + s
  <2>1. CASE ~Taken
    <3>1. a = 0 /\ s = 0
      BY <1>5, <2>1
    <3>2. (x + a) + 1 = x + 1 /\ fx + s = fx
      BY <3>1
    <3> QED BY <1>2, <3>2
  <2>2. CASE Taken
    <3>1. a = 1 /\ (x + a) + 1 = x + 1 + 1 /\ x + 1 \in o + 1 .. w /\ r.rd_data = D[x + 1]
      BY <1>4, <2>2
    <3>2. F[x + 1 + 1] = fx + (IF D[x + 1].last THEN 1 ELSE 0)
      BY <1>2, <3>1 DEF Numbered
    <3>3. s = IF D[x + 1].last THEN 1 ELSE 0
      BY <1>5, <2>2, <3>1
    <3> QED BY <3>1, <3>2, <3>3
  <2> QED BY <2>1, <2>2
<1>9. s = 1 => r.rd_data.err = X[(u - 1) + l + 1]
  <2> SUFFICES ASSUME s = 1 PROVE r.rd_data.err = X[(u - 1) + l + 1]
    OBVIOUS
  <2>1. Taken /\ r.rd_data.last
    BY <1>5
  <2>2. x + 1 \in o + 1 .. w /\ r.rd_data = D[x + 1]
    BY <1>4, <2>1
  <2>3. X[fx] = D[x + 1].err
    BY <1>2, <2>1, <2>2 DEF Foretold
  <2>4. (u - 1) + l + 1 = fx
    BY <1>3
  <2> QED BY <2>2, <2>3, <2>4
<1>10. Stretch(X, (u - 1) + e, d, l - e + s)
  <2>1. PICK t \in Int : t = u - 1
    OBVIOUS
  <2>2. Stretch(X, t, r.v, l) /\ (s = 1 => r.rd_data.err = X[t + l + 1])
    BY <1>3, <1>9, <2>1
  <2>3. Stretch(X, t + e, d, l - e + s)
    BY <1>7, <2>2, Shift
  <2> QED BY <2>1, <2>3
<1>0. l >= 1 => r.v # <<>>
  <2>1. r.v = <<>> => l = 0
    BY <1>1
  <2>2. l >= 1 => l # 0
    OBVIOUS
  <2> QED BY <2>1, <2>2
<1>11. (Ends \/ Ends') /\ Behind = 0 => r.v # <<>>
  <2> SUFFICES ASSUME Ends \/ Ends', Behind = 0 PROVE r.v # <<>>
    OBVIOUS
  <2>1. fx >= g + 1
    <3>1. CASE Ends
      <4>1. fo = g + 1
        BY <1>2, <3>1 DEF Within, Ranked, Ranks, Open
      <4>2. o + 1 \in o + 1 .. w + 1 /\ x + 1 \in o + 1 .. w + 1 /\ o + 1 <= x + 1
        BY <1>4
      <4>3. fo <= fx
        BY <1>2, <4>2 DEF Numbered
      <4> QED BY <4>1, <4>3
    <3>2. CASE Ends'
      <4>1. Reads /\ D[o + 1].last
        BY <3>2, KeptStep DEF Within
      <4>2. fo = g
        BY <1>2, <4>1 DEF Within, Ranked, Ranks, Reads
      <4>3. n >= 1
        BY <1>1, <4>1, DataEdge
      <4>4. o + 1 \in o + 1 .. x
        BY <1>4, <4>3
      <4>5. Numbered(D, F, P, o, x)
        <5>1. \A k \in Int : k <= x => k <= w
          BY <1>4
        <5>2. \A k \in o + 1 .. x : k \in o + 1 .. w
          BY <1>4
        <5>3. \A k \in o + 1 .. x + 1 : k \in o + 1 .. w + 1
          BY <1>4
        <5> QED BY <5>2, <5>3 DEF Numbered
      <4>6. F[o + 1] < F[x + 1]
        BY <4>1, <4>4, <4>5, EndsFrame
      <4> QED BY <1>2, <4>2, <4>6
    <3> QED BY <3>1, <3>2
  <2>2. u = g /\ l = fx - u
    BY <1>2, <1>3 DEF First
  <2> QED BY <1>0, <2>1, <2>2
<1>12. /\ r'.v_pend \in {0, 1} /\ (r'.v_pend = 1 => Retired' /\ ~Ends')
       /\ First(g + c)' = First(g) + e
  <2>1. r'.v_pend \in {0, 1}
    BY <1>3, <1>5, <1>11, FirstStep
  <2>2. r'.v_pend = 1 => Retired' /\ ~Ends'
    BY <1>3, <1>5, <1>11, FirstStep
  <2>3. c + Behind' = Behind + e
    BY <1>3, <1>5, <1>11, FirstStep
  <2>4. First(g + c)' = (g + c) + Behind' /\ First(g) = g + Behind
    BY DEF First
  <2>5. Behind \in 0 .. 1 /\ Behind' \in 0 .. 1
    BY DEF Behind
  <2>6. (g + c) + Behind' = (g + Behind) + e
    <3>1. PICK p \in 0 .. 1, q \in 0 .. 1 : p = Behind /\ q = Behind'
      BY <2>5
    <3>2. c + q = p + e
      BY <2>3, <3>1
    <3>3. (g + c) + q = (g + p) + e
      BY <3>2
    <3> QED BY <3>1, <3>3
  <2>7. First(g + c)' = First(g) + e
    BY <2>4, <2>6
  <2> QED BY <2>1, <2>2, <2>7
<1>13. PICK u2 \in Int : u2 = First(g + c)' /\ u2 = u + e
  BY <1>2, <1>12
<1>14. l - e + s = (fx + s) - u2 /\ (u - 1) + e = u2 - 1
  BY <1>3, <1>13
<1>15. Len(d) = F[(x + a) + 1] - u2 /\ Stretch(X, u2 - 1, d, Len(d))
  <2>1. Len(d) = F[(x + a) + 1] - u2
    BY <1>7, <1>8, <1>14
  <2>2. Stretch(X, u2 - 1, d, Len(d))
    BY <1>7, <1>10, <1>14
  <2> QED BY <2>1, <2>2
<1> QED BY <1>6, <1>12, <1>13, <1>15 DEF Errors, Counts

\* The elastic buffer accepts a byte unless it is full, and passes it on.
LEMMA ElasticStep ==
    ASSUME Typed, NEW beat \in Beat \cup {None}, r' = RxClocked(r, beat),
           NEW D \in [Int -> Actual], NEW x \in Int, NEW w \in Int,
           NEW a \in 0 .. 1, NEW i \in 0 .. 1,
           a = 1 <=> Taken, i = 1 <=> beat # None /\ ~buf_full(r),
           Elastic(D, x, w), i = 1 => D[w + 1] = beat
    PROVE  /\ Elastic(D, x + a, w + i)'
           /\ x + a <= w /\ (Taken => r.rd_data = D[x + 1])
<1>1. PICK q \in Seq(Actual), n \in Nat : q = r.buf /\ n = Len(q)
  BY LenProperties DEF Typed
<1>2. PICK p \in 0 .. 1 : p = Waits
  BY DEF Waits
<1>3. /\ x + p <= w /\ n = w - x - p /\ Stretch(D, x + p, q, n)
      /\ r.out_valid => r.rd_data = D[x + 1]
  BY <1>1, <1>2 DEF Elastic, Holds
<1>4. p = 1 <=> r.out_valid
  BY <1>2 DEF Waits
<1>5. PICK rd \in BOOLEAN : rd <=> buf_rd_en(r)
  OBVIOUS
<1>6. rd <=> q # <<>> /\ (~r.out_valid \/ r.c.s_tready)
  BY <1>1, <1>5 DEF buf_rd_en
<1>7. PICK wr \in BOOLEAN : wr <=> beat # None /\ ~buf_full(r)
  OBVIOUS
<1>8. PICK h \in 0 .. 1 : h = Gone(q, rd)
  BY DEF Gone
<1>9. h = 1 <=> rd
  BY <1>6, <1>8 DEF Gone
<1>10. PICK d : d = After(q, ElasticDepth, wr, beat, rd)
  OBVIOUS
<1>11. r'.buf = d
  <2>1. r'.buf = After(r.buf, ElasticDepth, beat # None, beat, buf_rd_en(r))
    BY DEF RxClocked
  <2>2. Added(q, ElasticDepth, beat # None, beat) = Added(q, ElasticDepth, wr, beat)
    BY <1>1, <1>7 DEF Added, buf_full
  <2>3. Rest(q, buf_rd_en(r)) = Rest(q, rd)
    BY <1>5 DEF Rest
  <2> QED BY <1>1, <1>10, <2>1, <2>2, <2>3 DEF After
<1>12. (wr => beat \in Actual /\ Len(q) # ElasticDepth) /\ (i = 1 <=> wr)
  BY <1>1, <1>7 DEF Actual, buf_full
<1>13. h <= n
  BY <1>1, <1>8, <1>10, <1>12, AfterMoves
<1>14. Len(d) = n - h + i
  BY <1>1, <1>8, <1>10, <1>12, AfterMoves
<1>15. Moved(q, d, n, i, h, beat)
  BY <1>1, <1>8, <1>10, <1>12, AfterMoves
<1>16. i = 1 => beat = D[(x + p) + n + 1]
  <2>1. (x + p) + n + 1 = w + 1
    BY <1>3
  <2> QED BY <2>1
<1>17. Stretch(D, (x + p) + h, d, n - h + i)
  <2>1. PICK t \in Int : t = x + p
    OBVIOUS
  <2>2. Stretch(D, t, q, n) /\ (i = 1 => beat = D[t + n + 1])
    BY <1>3, <1>16, <2>1
  <2>3. Stretch(D, t + h, d, n - h + i)
    BY <1>13, <1>15, <2>2, Shift
  <2> QED BY <2>1, <2>3
<1>18. r'.out_valid <=> rd \/ (r.out_valid /\ ~r.c.s_tready)
  BY <1>5 DEF RxClocked
<1>19. PICK p2 \in 0 .. 1 : p2 = Waits' /\ (p2 = 1 <=> r'.out_valid)
  BY DEF Waits
<1>20. a + p2 = p + h
  <2>1. CASE Taken
    <3>1. a = 1 /\ p = 1 /\ (p2 = 1 <=> h = 1)
      BY <1>4, <1>9, <1>18, <1>19, <2>1 DEF Taken
    <3> QED BY <3>1
  <2>2. CASE r.out_valid /\ ~r.c.s_tready
    <3>1. a = 0 /\ p = 1 /\ h = 0 /\ p2 = 1
      BY <1>4, <1>6, <1>9, <1>18, <1>19, <2>2 DEF Taken
    <3> QED BY <3>1
  <2>3. CASE ~r.out_valid
    <3>1. a = 0 /\ p = 0 /\ (p2 = 1 <=> h = 1)
      BY <1>4, <1>9, <1>18, <1>19, <2>3 DEF Taken
    <3> QED BY <3>1
  <2> QED BY <2>1, <2>2, <2>3 DEF Taken
<1>21. r'.out_valid => r'.rd_data = D[(x + a) + 1]
  <2>1. r'.rd_data = IF rd THEN Head(q) ELSE r.rd_data
    <3>1. r'.rd_data = ReadPort(r.buf, r.rd_data, buf_rd_en(r))
      BY DEF RxClocked
    <3> QED BY <1>1, <1>5, <1>6, <3>1 DEF ReadPort
  <2>2. CASE rd
    <3>1. Head(q) = q[1] /\ h = 1
      BY <1>6, <1>9, <2>2, HeadTailProperties
    <3>2. 1 \in 1 .. n
      BY <1>13, <3>1
    <3>3. q[1] = D[x + p + 1]
      BY <1>3, <3>2 DEF Stretch
    <3>4. a = p
      <4>1. p = 1 <=> a = 1
        BY <1>4, <1>6, <2>2 DEF Taken
      <4> QED BY <4>1
    <3> QED BY <2>1, <2>2, <3>1, <3>3, <3>4
  <2>3. CASE ~rd
    <3>1. r'.out_valid => r.out_valid /\ ~Taken
      BY <1>18, <2>3 DEF Taken
    <3>2. r'.out_valid => a = 0
      BY <3>1
    <3>3. a = 0 => (x + a) + 1 = x + 1
      OBVIOUS
    <3> QED BY <1>3, <2>1, <2>3, <3>1, <3>2, <3>3
  <2> QED BY <2>2, <2>3
<1>22. /\ (x + a) + p2 <= w + i
       /\ Len(d) = (w + i) - (x + a) - p2 /\ (x + p) + h = (x + a) + p2
       /\ n - h + i = Len(d)
  <2>1. (x + a) + p2 = (x + p) + h
    BY <1>20
  <2>2. n - h + i = (w + i) - (x + a) - p2
    BY <1>3, <2>1
  <2>3. (x + a) + p2 <= w + i
    BY <1>3, <1>13, <2>1
  <2> QED BY <1>14, <2>1, <2>2, <2>3
<1>23. Elastic(D, x + a, w + i)'
  BY <1>11, <1>17, <1>19, <1>21, <1>22 DEF Elastic, Holds
<1>24. x + a <= w /\ (Taken => r.rd_data = D[x + 1])
  <2>1. a <= p
    BY <1>4 DEF Taken
  <2> QED BY <1>3, <2>1 DEF Taken
<1> QED BY <1>23, <1>24

\* An edge keeps what the classifier's port holds.
LEMMA WithinStep ==
    ASSUME Ctl, Typed, NEW beat \in Beat \cup {None}, r' = RxClocked(r, beat),
           NEW D \in [Int -> Actual], NEW F \in [Int -> Int], NEW P \in [Int -> Int],
           NEW V \in [Int -> BOOLEAN], NEW X \in [Int -> BOOLEAN],
           NEW o \in Int, NEW x \in Int, NEW w \in Int, NEW g \in Int,
           NEW a \in 0 .. 1, NEW b \in 0 .. 1, NEW c \in 0 .. 1,
           a = 1 <=> Taken, b = 1 <=> Reads, c = 1 <=> Renews,
           x + a <= w, Taken => r.rd_data = D[x + 1],
           Numbered(D, F, P, o, w), Foretold(D, F, P, V, X, o, x, w),
           Within(D, F, P, V, X, o, x, g)
    PROVE  Within(D, F, P, V, X, o + b, x + a, g + c)'
<1>1. Kept(D, X, o + b, x + a, g + c)'
  <2>1. Kept(D, X, o, x, g) /\ Ranked(F, P, V, o, x, g)
    BY DEF Within
  <2> QED BY <2>1, KeptStep DEF Kept
<1>2. Captured(D, P, x + a)'
  <2>1. Captured(D, P, x) /\ o <= x
    BY DEF Within, Kept, Keeps
  <2> QED BY <2>1, CapturedStep DEF Captured
<1>3. Ranked(F, P, V, o + b, x + a, g + c)'
  BY RankedStep DEF Ranked
<1>4. Errors(F, X, x + a, g + c)'
  BY ErrorsStep DEF Errors, First
<1> QED BY <1>1, <1>2, <1>3, <1>4 DEF Within
-----------------------------------------------------------------------------
\* The scoreboard holds the verdicts on the frames that are judged and not retired.
Unretired == IF r.c.meta_live /\ ~Retired THEN 1 ELSE 0

\* Is the frame that arrives, of which p - 1 bytes came, not judged yet?
Unjudged(p) == IF p > MacBytes THEN 0 ELSE 1

\* Frame u was the last retired; q has the verdicts after it, arr the frame that arrives.
Owes(arr, q, over, u, D, F, P, V, w) ==
    /\ ~over
    /\ P[w + 1] = Len(arr) + 1 /\ Stretch(D, w - Len(arr), arr, Len(arr))
    /\ Len(q) = F[w + 1] - Unjudged(P[w + 1]) - u /\ Stretch(V, u, q, Len(q))
Scored(D, F, P, V, w, g) ==
    ~lost => Owes(arriving, owed, r.over_active, g - Unretired, D, F, P, V, w)

Scores == arriving \in Seq(Beat) /\ owed \in Seq(BOOLEAN)

\* What comes later changes nothing of what is owed.
LEMMA SameOwes ==
    ASSUME NEW arr \in Seq(Beat), NEW q \in Seq(BOOLEAN), NEW over, NEW u \in Int,
           NEW D \in [Int -> Actual], NEW F \in [Int -> Int], NEW P \in [Int -> Int],
           NEW V \in [Int -> BOOLEAN], NEW X \in [Int -> BOOLEAN],
           NEW D2 \in [Int -> Actual], NEW F2 \in [Int -> Int], NEW P2 \in [Int -> Int],
           NEW V2 \in [Int -> BOOLEAN], NEW X2 \in [Int -> BOOLEAN], NEW w \in Int,
           Owes(arr, q, over, u, D, F, P, V, w),
           Agree(D, F, P, V, X, D2, F2, P2, V2, X2, w)
    PROVE  Owes(arr, q, over, u, D2, F2, P2, V2, w)
<1>1. PICK n \in Nat, l \in Nat, f \in Int, p \in Int :
         n = Len(arr) /\ l = Len(q) /\ f = F[w + 1] /\ p = P[w + 1]
  <2>1. w + 1 \in Int /\ Len(arr) \in Nat /\ Len(q) \in Nat
    BY LenProperties
  <2> QED BY <2>1
<1>2. F2[w + 1] = f /\ P2[w + 1] = p
  <2>1. w + 1 \in Int /\ w + 1 <= w + 1
    OBVIOUS
  <2> QED BY <1>1, <2>1 DEF Agree
<1>3. Stretch(D2, w - n, arr, n)
  <2>1. ASSUME NEW i \in 1 .. n PROVE arr[i] = D2[(w - n) + i]
    <3>1. (w - n) + i \in Int /\ (w - n) + i <= w
      OBVIOUS
    <3>2. arr[i] = D[(w - n) + i]
      BY <1>1 DEF Owes, Stretch
    <3> QED BY <3>1, <3>2 DEF Agree
  <2> QED BY <2>1 DEF Stretch
<1>4. l = f - Unjudged(p) - u
  BY <1>1 DEF Owes
<1>5. Stretch(V2, u, q, l)
  <2>1. ASSUME NEW i \in 1 .. l PROVE q[i] = V2[u + i]
    <3>1. q[i] = V[u + i]
      BY <1>1 DEF Owes, Stretch
    <3>2. CASE u + i < f
      <4>1. u + i \in Int
        OBVIOUS
      <4> QED BY <1>1, <3>1, <3>2, <4>1 DEF Agree
    <3>3. CASE u + i >= f
      <4>1. u + i = f /\ p > MacBytes
        BY <1>4, <3>3 DEF Unjudged
      <4> QED BY <1>1, <3>1, <4>1 DEF Agree
    <3> QED BY <3>2, <3>3
  <2> QED BY <2>1 DEF Stretch
<1> QED BY <1>1, <1>2, <1>3, <1>4, <1>5 DEF Owes

\* A frame that is retired was in force and not retired before.
LEMMA UnretiredEdge ==
    ASSUME Ctl, Typed, NEW beat \in Beat \cup {None}, r' = RxClocked(r, beat),
           NEW c \in 0 .. 1, NEW d \in 0 .. 1, c = 1 <=> Renews, d = 1 <=> frame_done(r)
    PROVE  /\ c + Unretired = Unretired' + d
           /\ d = 1 => Unretired = 1
<1>1. PICK e \in 0 .. 1 : e = 1 <=> v_pop(r)
  <2> DEFINE ee == IF v_pop(r) THEN 1 ELSE 0
  <2>1. ee \in 0 .. 1 /\ (ee = 1 <=> v_pop(r))
    OBVIOUS
  <2> QED BY <2>1
<1>2. /\ r'.c.meta_live <=> Renews \/ Open
      /\ Retired' <=> ~Ends /\ (Retired \/ drop_pulse(r))
      /\ frame_done(r) <=> (Ends /\ Hit) \/ drop_pulse(r)
  BY <1>1, RetiredEdge
<1>3. PICK n \in 0 .. 1, m \in 0 .. 1 :
         /\ n = Unretired /\ (n = 1 <=> r.c.meta_live /\ ~Retired)
         /\ m = Unretired' /\ (m = 1 <=> r'.c.meta_live /\ ~Retired')
  <2> DEFINE n == Unretired
             m == Unretired'
  <2>1. /\ n \in 0 .. 1 /\ (n = 1 <=> r.c.meta_live /\ ~Retired)
        /\ m \in 0 .. 1 /\ (m = 1 <=> r'.c.meta_live /\ ~Retired')
    BY DEF Unretired
  <2> QED BY <2>1
<1>4. /\ Ends => r.c.meta_live /\ ~Open
      /\ drop_pulse(r) => r.c.meta_live /\ ~Hit /\ ~Retired
      /\ Retired => r.c.meta_live /\ ~Hit
      /\ Renews => ~Open
  BY DEF Ctl, Ends, Open, Retired, Renews
<1>5. CASE ~r.c.meta_live
  <2>1. n = 0 /\ d = 0 /\ (m = 1 <=> c = 1)
    BY <1>2, <1>3, <1>4, <1>5 DEF Open
  <2>2. c + n = m + d
    BY <2>1
  <2> QED BY <1>3, <2>1, <2>2
<1>6. CASE Ends
  <2>1. m = 1 <=> c = 1
    BY <1>2, <1>3, <1>4, <1>6
  <2>2. n = 1 <=> d = 1
    BY <1>2, <1>3, <1>4, <1>6 DEF Ctl, Ends, Retired
  <2>3. c + n = m + d
    BY <2>1, <2>2
  <2> QED BY <1>3, <2>2, <2>3
<1>7. CASE Open
  <2>1. c = 0
    BY <1>4, <1>7
  <2>2. /\ m = 1 <=> ~Retired /\ ~drop_pulse(r)
        /\ n = 1 <=> ~Retired
        /\ d = 1 <=> drop_pulse(r)
    BY <1>2, <1>3, <1>7 DEF Open
  <2>3. n = m + d /\ (d = 1 => n = 1)
    BY <1>4, <2>2
  <2>4. c + n = m + d
    BY <2>1, <2>3
  <2> QED BY <1>3, <2>3, <2>4
<1> QED BY <1>5, <1>6, <1>7 DEF Open

\* A byte judges its frame if it completes the address, or ends the frame before that.
LEMMA CountJudged ==
    ASSUME NEW f \in Int, NEW p \in Int, NEW z \in BOOLEAN, NEW s \in 0 .. 1,
           s = 1 <=> p <= MacBytes /\ (p = MacBytes \/ z),
           NEW f2, f2 = f + (IF z THEN 1 ELSE 0), NEW p2, p2 = IF z THEN 1 ELSE p + 1
    PROVE  f2 - Unjudged(p2) = f - Unjudged(p) + s
BY MacInt DEF Unjudged

\* The frame that arrives, with its next byte b.
Grown(now, arr, b) == /\ now \in Seq(Beat) /\ Len(now) = Len(arr) + 1
                      /\ \A i \in 1 .. Len(arr) : now[i] = arr[i]
                      /\ now[Len(arr) + 1] = b

\* A byte more is the last of the frame that arrives.
LEMMA Grows ==
    ASSUME NEW arr \in Seq(Beat), NEW b \in Actual
    PROVE  Grown(Append(arr, b), arr, b)
BY AppendProperties, ActualBeat DEF Grown

\* What is decided about the frame that arrives, and when: v is the verdict on it.
Judging(arr, b, now, D, w, p, v) ==
    /\ arr \in Seq(Beat) /\ b \in Actual /\ w \in Int /\ v \in BOOLEAN
    /\ Grown(now, arr, b) /\ D[w + 1] = b
    /\ p = MacBytes => (v <=> match(Header(D, w + 1)) = None)
    /\ b.last /\ p < MacBytes => v
    /\ p = Len(arr) + 1 /\ Stretch(D, w - Len(arr), arr, Len(arr))
    /\ Len(arr) < MacBytes /\ (Len(now) = MacBytes \/ b.last)

\* The scoreboard's verdict on a frame is the one on its address, and that of a runt is a drop.
LEMMA Decides ==
    ASSUME NEW arr, NEW b, NEW now, NEW D, NEW w, NEW p, NEW v,
           Judging(arr, b, now, D, w, p, v)
    PROVE  Dropped(now) = v
<1>1. /\ arr \in Seq(Beat) /\ b \in Actual /\ w \in Int /\ v \in BOOLEAN
      /\ Grown(now, arr, b) /\ D[w + 1] = b
      /\ p = MacBytes => (v <=> match(Header(D, w + 1)) = None)
      /\ b.last /\ p < MacBytes => v
      /\ p = Len(arr) + 1 /\ Stretch(D, w - Len(arr), arr, Len(arr))
      /\ Len(arr) < MacBytes /\ (Len(now) = MacBytes \/ b.last)
  BY DEF Judging
<1>2. PICK n \in Nat : n = Len(arr)
  BY <1>1, LenProperties
<1>3. /\ Len(now) = n + 1 /\ \A i \in 1 .. n : now[i] = arr[i]
      /\ now[n + 1] = b
  BY <1>1, <1>2 DEF Grown
<1>5. CASE n + 1 = MacBytes
  <2>1. v <=> match(Header(D, w + 1)) = None
    BY <1>1, <1>2, <1>5
  <2>2. ASSUME NEW i \in Index PROVE now[i + 1].byte = D[(w + 1) - MacBytes + 1 + i].byte
    <3>1. CASE i + 1 <= n
      <4>1. i + 1 \in 1 .. n /\ (w - n) + (i + 1) = (w + 1) - MacBytes + 1 + i
        BY <1>1, <1>5, <3>1 DEF Index
      <4>2. arr[i + 1] = D[(w - n) + (i + 1)]
        BY <1>1, <1>2, <4>1 DEF Stretch
      <4>3. now[i + 1] = arr[i + 1]
        BY <1>3, <4>1
      <4>4. D[(w - n) + (i + 1)] = D[(w + 1) - MacBytes + 1 + i]
        BY <4>1
      <4> QED BY <4>2, <4>3, <4>4, Zenon
    <3>2. CASE i + 1 > n
      <4>1. i + 1 = n + 1 /\ (w + 1) - MacBytes + 1 + i = w + 1
        <5>1. i \in Int /\ i <= MacBytes - 1
          BY MacInt DEF Index
        <5>2. i = n
          BY <1>5, <3>2, <5>1, MacInt
        <5>3. (w + 1) - MacBytes + 1 + i = w + 1
          BY <1>1, <1>5, <5>2, MacInt
        <5> QED BY <5>2, <5>3
      <4>2. now[i + 1] = b
        BY <1>3, <4>1
      <4>3. D[(w + 1) - MacBytes + 1 + i] = b
        BY <1>1, <4>1
      <4> QED BY <4>2, <4>3
    <3>3. i \in Int
      BY DEF Index
    <3> QED BY <3>1, <3>2, <3>3
  <2>3. [i \in Index |-> now[i + 1].byte] = Header(D, w + 1)
    BY <2>2, Zenon DEF Header
  <2>4. ~(Len(now) < MacBytes)
    BY <1>3, <1>5, MacInt
  <2>5. Dropped(now) <=> match(Header(D, w + 1)) = None
    BY <2>3, <2>4 DEF Dropped
  <2>6. Dropped(now) \in BOOLEAN
    BY DEF Dropped
  <2> QED BY <1>1, <2>1, <2>5, <2>6
<1>6. CASE n + 1 # MacBytes
  <2>1. Len(now) < MacBytes /\ b.last /\ n + 1 < MacBytes
    BY <1>1, <1>2, <1>3, <1>6, MacInt
  <2>2. v
    BY <1>1, <1>2, <2>1
  <2>3. Dropped(now)
    BY <2>1 DEF Dropped
  <2>4. Dropped(now) \in BOOLEAN
    BY DEF Dropped
  <2> QED BY <1>1, <2>2, <2>3, <2>4
<1> QED BY <1>5, <1>6

\* The frame that arrives.
LEMMA ArrivingStep ==
    ASSUME NEW b \in Actual, NEW arr \in Seq(Beat), NEW now, Grown(now, arr, b),
           NEW arr2, arr2 = IF b.last THEN <<>> ELSE now,
           NEW D, NEW w \in Int, D[w + 1] = b,
           Stretch(D, w - Len(arr), arr, Len(arr))
    PROVE  /\ arr2 \in Seq(Beat) /\ Len(arr2) = IF b.last THEN 0 ELSE Len(arr) + 1
           /\ Stretch(D, (w + 1) - Len(arr2), arr2, Len(arr2))
<1>1. PICK n \in Nat : n = Len(arr)
  BY LenProperties
<1>2. CASE b.last
  <2>1. arr2 = <<>> /\ Len(arr2) = 0 /\ arr2 \in Seq(Beat)
    BY <1>2, EmptySeq
  <2> QED BY <1>2, <2>1 DEF Stretch
<1>3. CASE ~b.last
  <2>1. /\ arr2 \in Seq(Beat) /\ Len(arr2) = n + 1 /\ arr2[n + 1] = b
        /\ \A i \in 1 .. n : arr2[i] = arr[i]
    BY <1>1, <1>3 DEF Grown
  <2>2. ASSUME NEW i \in 1 .. n + 1 PROVE arr2[i] = D[((w + 1) - (n + 1)) + i]
    <3>1. CASE i = n + 1
      <4>1. ((w + 1) - (n + 1)) + i = w + 1
        BY <3>1
      <4> QED BY <2>1, <3>1, <4>1
    <3>2. CASE i # n + 1
      <4>1. i \in 1 .. n /\ ((w + 1) - (n + 1)) + i = (w - n) + i
        BY <3>2
      <4>2. arr[i] = D[(w - n) + i]
        BY <1>1, <4>1 DEF Stretch
      <4> QED BY <2>1, <4>1, <4>2
    <3> QED BY <3>1, <3>2
  <2> QED BY <1>1, <1>3, <2>1, <2>2 DEF Stretch
<1> QED BY <1>2, <1>3

\* The frame that is retired is the oldest on the scoreboard.
LEMMA OldestOwed ==
    ASSUME Ctl, Typed, Scores, frame_done(r), ~lost,
           NEW D \in [Int -> Actual], NEW F \in [Int -> Int], NEW P \in [Int -> Int],
           NEW V \in [Int -> BOOLEAN], NEW X \in [Int -> BOOLEAN],
           NEW o \in Int, NEW x \in Int, NEW w \in Int, NEW g \in Int,
           x <= w, Numbered(D, F, P, o, w), Within(D, F, P, V, X, o, x, g),
           Scored(D, F, P, V, w, g)
    PROVE  owed # <<>> /\ owed[1] = V[g] /\ r.c.meta_live
<1>1. PICK l \in Nat, m \in Nat : l = Len(owed) /\ m = Len(r.c.meta)
  BY LenProperties DEF Scores, Typed
<1>2. r.c.meta_live /\ ~Retired
  BY Wires DEF frame_done, Retired, Ctl, Ends
<1>3. Unretired = 1
  BY <1>2 DEF Unretired
<1>4. PICK fx \in Int, px \in Int, fw \in Int, pw \in Int :
         fx = F[x + 1] /\ px = P[x + 1] /\ fw = F[w + 1] /\ pw = P[w + 1]
  <2> x + 1 \in Int /\ w + 1 \in Int
    OBVIOUS
  <2> QED OBVIOUS
<1>5. l = fw - Unjudged(pw) - (g - 1) /\ Stretch(V, g - 1, owed, l)
  BY <1>1, <1>3, <1>4 DEF Scored, Owes
<1>6. fx - Unjudged(px) = g + m
  <2>1. fx = g + m + (IF px > MacBytes THEN 0 ELSE 1)
    BY <1>1, <1>4 DEF Within, Ranked, Ranks
  <2> QED BY <2>1 DEF Unjudged
<1>7. fx <= fw /\ (fx = fw => pw = px + (w - x))
  <2>0. o <= x
    BY DEF Within, Kept, Keeps
  <2>1. x + 1 \in o + 1 .. w + 1 /\ w + 1 \in o + 1 .. w + 1 /\ x + 1 <= w + 1
    BY <2>0
  <2>2. F[x + 1] <= F[w + 1] /\ (F[x + 1] = F[w + 1] => P[w + 1] = P[x + 1] + ((w + 1) - (x + 1)))
    BY <2>1 DEF Numbered
  <2>3. (w + 1) - (x + 1) = w - x
    OBVIOUS
  <2> QED BY <1>4, <2>2, <2>3
<1>8. fx - Unjudged(px) <= fw - Unjudged(pw)
  BY <1>7, MacInt DEF Unjudged
<1>9. l >= 1
  <2>1. Unjudged(px) \in Int /\ Unjudged(pw) \in Int
    BY DEF Unjudged
  <2> QED BY <1>5, <1>6, <1>8, <2>1
<1>10. owed[1] = V[g]
  <2>1. 1 \in 1 .. l /\ (g - 1) + 1 = g
    BY <1>9
  <2> QED BY <1>5, <2>1 DEF Stretch
<1>11. owed # <<>>
  <2>1. owed = <<>> => l = 0
    BY <1>1
  <2>2. l # 0
    BY <1>9
  <2> QED BY <2>1, <2>2
<1> QED BY <1>2, <1>10, <1>11

\* The scoreboard after an edge at which no byte is lost.
Goes(q, d, n, a, b, e) == b <= n /\ Len(d) = n - b + a /\ Moved(q, d, n, a, b, e)

\* A queue after an edge at which nothing is lost, as Goes says it.
LEMMA AfterGoes ==
    ASSUME NEW S, NEW q \in Seq(S), NEW depth, NEW wr, NEW rd, NEW x,
           wr => x \in S /\ Len(q) # depth,
           NEW a \in 0 .. 1, NEW b \in 0 .. 1, a = 1 <=> wr, b = Gone(q, rd),
           NEW d, d = After(q, depth, wr, x, rd), NEW n, n = Len(q)
    PROVE  d \in Seq(S) /\ Goes(q, d, n, a, b, x)
BY AfterMoves DEF Goes

\* q has the l verdicts after u.
Owing(V, u, q, l) == q \in Seq(BOOLEAN) /\ Len(q) = l /\ Stretch(V, u, q, l)

\* d verdicts are taken from q, and s of value z are added.
Feeds(V, u, q, l, rd, d, wr, s, z, none) ==
    /\ Owing(V, u, q, l) /\ u \in Int /\ l \in Nat
    /\ rd \in BOOLEAN /\ (rd => q # <<>>) /\ d \in 0 .. 1 /\ (d = 1 <=> rd)
    /\ wr \in BOOLEAN /\ s \in 0 .. 1 /\ (s = 1 <=> wr)
    /\ z \in BOOLEAN /\ (wr => z = V[u + l + 1]) /\ l # none

\* The scoreboard after verdicts are taken from it and added.
LEMMA OwedStep ==
    ASSUME NEW V, NEW u, NEW q, NEW l, NEW rd, NEW d, NEW wr, NEW s, NEW z, NEW none,
           Feeds(V, u, q, l, rd, d, wr, s, z, none)
    PROVE  Owing(V, u + d, After(q, none, wr, z, rd), l - d + s)
<1>1. PICK q2 : q2 = After(q, none, wr, z, rd)
  OBVIOUS
<1>2. /\ q \in Seq(BOOLEAN) /\ l = Len(q) /\ Stretch(V, u, q, l)
      /\ u \in Int /\ l \in Nat
      /\ rd \in BOOLEAN /\ (rd => q # <<>>) /\ d \in 0 .. 1 /\ (d = 1 <=> rd)
      /\ wr \in BOOLEAN /\ s \in 0 .. 1 /\ (s = 1 <=> wr)
      /\ z \in BOOLEAN /\ (wr => z = V[u + l + 1]) /\ l # none
  BY DEF Feeds, Owing
<1>4. d = Gone(q, rd)
  <2>1. CASE rd
    <3>1. d = 1
      BY <1>2, <2>1
    <3> QED BY <1>2, <2>1, <3>1 DEF Gone
  <2>2. CASE ~rd
    <3>1. d = 0
      BY <1>2, <2>2
    <3> QED BY <2>2, <3>1 DEF Gone
  <2> QED BY <1>2, <2>1, <2>2
<1>5. q2 \in Seq(BOOLEAN) /\ Goes(q, q2, l, s, d, z)
  <2>1. wr => z \in BOOLEAN /\ Len(q) # none
    BY <1>2
  <2> QED BY <1>1, <1>2, <1>4, <2>1, AfterGoes
<1>6. d <= l /\ Len(q2) = l - d + s /\ Moved(q, q2, l, s, d, z)
  BY <1>5 DEF Goes
<1>7. Stretch(V, u + d, q2, l - d + s)
  <2>1. s = 1 => z = V[u + l + 1]
    BY <1>2
  <2> QED BY <1>2, <1>6, <2>1, Shift
<1> QED BY <1>1, <1>5, <1>6, <1>7 DEF Owing

\* What the next beat says of its frame, if it is the one that decides.
Decided(D, F, P, V, k) ==
    /\ F[k + 1] = F[k] + (IF D[k].last THEN 1 ELSE 0)
    /\ P[k + 1] = IF D[k].last THEN 1 ELSE P[k] + 1
    /\ P[k] = MacBytes => (V[F[k]] <=> match(Header(D, k)) = None)
    /\ D[k].last /\ P[k] < MacBytes => V[F[k]]

Numbers == [Int -> Int]
Flags == [Int -> BOOLEAN]

\* Functions on the integers give numbers at every beat.
LEMMA NumbersAt == \A f \in Numbers, k \in Int : f[k + 1] \in Int
BY DEF Numbers

\* The address is complete with byte MacBytes.
LEMMA MacNext == \A k \in Int : k < MacBytes <=> k + 1 <= MacBytes
BY MacInt

\* The place of the next byte of a frame.
LEMMA NextPlace ==
    ASSUME NEW n \in Int, NEW z, NEW p, p = n + 1, NEW l, l = IF z THEN 0 ELSE n + 1,
           NEW p2, p2 = IF z THEN 1 ELSE p + 1
    PROVE  p2 = l + 1
OBVIOUS

\* The scoreboard before an edge at which d verdicts are taken from it, and after it.
Before(arr, q, over, u, D, F, P, V, w, rd, d, none) ==
    /\ arr \in Seq(Beat) /\ q \in Seq(BOOLEAN) /\ Owes(arr, q, over, u, D, F, P, V, w)
    /\ u \in Int /\ w \in Int /\ F \in Numbers /\ P \in Numbers /\ V \in Flags
    /\ rd \in BOOLEAN /\ (rd => q # <<>>) /\ d \in 0 .. 1 /\ (d = 1 <=> rd)
    /\ Len(q) # none
Due(arr, q, u, D, F, P, V, w) ==
    arr \in Seq(Beat) /\ q \in Seq(BOOLEAN) /\ Owes(arr, q, FALSE, u, D, F, P, V, w)

\* The next byte of the stream is b, and now the frame it belongs to.
Comes(arr, b, now, arr2, wr, D, F, P, V, w) ==
    /\ b \in Actual /\ D[w + 1] = b /\ Decided(D, F, P, V, w + 1)
    /\ Grown(now, arr, b) /\ arr2 = (IF b.last THEN <<>> ELSE now)
    /\ wr \in BOOLEAN
    /\ wr <=> Len(arr) < MacBytes /\ (Len(now) = MacBytes \/ b.last)

\* A byte arrives.
LEMMA OwesStep ==
    ASSUME NEW arr, NEW q, NEW over, NEW u, NEW D, NEW F, NEW P, NEW V, NEW w,
           NEW rd, NEW d, NEW none, Before(arr, q, over, u, D, F, P, V, w, rd, d, none),
           NEW b, NEW now, NEW arr2, NEW wr, Comes(arr, b, now, arr2, wr, D, F, P, V, w)
    PROVE  Due(arr2, After(q, none, wr, Dropped(now), rd), u + d, D, F, P, V, w + 1)
<1> SUFFICES ASSUME arr \in Seq(Beat), q \in Seq(BOOLEAN), Owes(arr, q, over, u, D, F, P, V, w),
                    u \in Int, w \in Int, F \in Numbers, P \in Numbers, V \in Flags,
                    rd \in BOOLEAN, rd => q # <<>>, d \in 0 .. 1, d = 1 <=> rd, Len(q) # none,
                    b \in Actual, D[w + 1] = b, Decided(D, F, P, V, w + 1),
                    Grown(now, arr, b), arr2 = IF b.last THEN <<>> ELSE now, wr \in BOOLEAN,
                    wr <=> Len(arr) < MacBytes /\ (Len(now) = MacBytes \/ b.last),
                    NEW q2, q2 = After(q, none, wr, Dropped(now), rd)
             PROVE  Due(arr2, q2, u + d, D, F, P, V, w + 1)
  BY Zenon DEF Before, Comes
<1>1. PICK n \in Nat, l \in Nat : n = Len(arr) /\ l = Len(q)
  BY LenProperties
<1>2. PICK f \in Int, p \in Int : f = F[w + 1] /\ p = P[w + 1]
  <2>1. F[w + 1] \in Int /\ P[w + 1] \in Int
    BY NumbersAt
  <2> QED BY <2>1
<1>3. /\ p = n + 1 /\ Stretch(D, w - n, arr, n)
      /\ l = f - Unjudged(p) - u /\ Stretch(V, u, q, l)
  BY <1>1, <1>2 DEF Owes
<1>4. PICK s \in 0 .. 1 : s = 1 <=> wr
  <2> DEFINE ss == IF wr THEN 1 ELSE 0
  <2>1. ss \in 0 .. 1 /\ (ss = 1 <=> wr)
    OBVIOUS
  <2> QED BY <2>1
<1>5. PICK y \in BOOLEAN : y = b.last
  BY ActualBeat
<1>6. PICK f2 \in Int, p2 \in Int : f2 = F[w + 1 + 1] /\ p2 = P[w + 1 + 1]
  <2>1. w + 1 \in Int
    OBVIOUS
  <2>2. F[w + 1 + 1] \in Int /\ P[w + 1 + 1] \in Int
    BY <2>1, NumbersAt
  <2> QED BY <2>2
<1>7. f2 = f + (IF y THEN 1 ELSE 0) /\ p2 = IF y THEN 1 ELSE p + 1
  BY <1>2, <1>5, <1>6 DEF Decided
<1>8. wr <=> p <= MacBytes /\ (p = MacBytes \/ y)
  <2>1. Len(now) = n + 1
    BY <1>1 DEF Grown
  <2>2. wr <=> n < MacBytes /\ (n + 1 = MacBytes \/ y)
    BY <1>1, <1>5, <2>1
  <2>3. n < MacBytes <=> n + 1 <= MacBytes
    BY MacNext
  <2> QED BY <1>3, <2>2, <2>3
<1>9. /\ arr2 \in Seq(Beat) /\ Len(arr2) = IF y THEN 0 ELSE n + 1
      /\ Stretch(D, (w + 1) - Len(arr2), arr2, Len(arr2))
  <2>1. Stretch(D, w - Len(arr), arr, Len(arr))
    BY <1>1, <1>3
  <2> QED BY <1>1, <1>5, <2>1, ArrivingStep
<1>10. PICK z : z = Dropped(now)
  OBVIOUS
<1>11. z \in BOOLEAN
  BY <1>10 DEF Dropped
<1>12. wr => z = V[u + l + 1]
  <2> SUFFICES ASSUME wr PROVE z = V[u + l + 1]
    OBVIOUS
  <2>1. Dropped(now) = V[f]
    <3>1. p = Len(arr) + 1 /\ Stretch(D, w - Len(arr), arr, Len(arr))
      BY <1>1, <1>3
    <3>2. /\ p = MacBytes => (V[f] <=> match(Header(D, w + 1)) = None)
          /\ b.last /\ p < MacBytes => V[f]
      BY <1>2 DEF Decided
    <3>3. V[f] \in BOOLEAN
      BY DEF Flags
    <3>4. Judging(arr, b, now, D, w, p, V[f])
      BY <3>1, <3>2, <3>3 DEF Judging
    <3> QED BY <3>4, Decides
  <2>2. u + l + 1 = f
    BY <1>3, <1>8, MacInt DEF Unjudged
  <2> QED BY <1>2, <1>10, <2>1, <2>2
<1>13. Owing(V, u + d, q2, l - d + s)
  <2>1. Owing(V, u, q, l) /\ l # none
    BY <1>1, <1>3 DEF Owing
  <2>2. Feeds(V, u, q, l, rd, d, wr, s, z, none)
    BY <1>4, <1>11, <1>12, <2>1 DEF Feeds
  <2>3. Owing(V, u + d, After(q, none, wr, z, rd), l - d + s)
    BY <2>2, OwedStep
  <2> QED BY <1>10, <2>3
<1>14. l - d + s = f2 - Unjudged(p2) - (u + d)
  <2>1. f2 - Unjudged(p2) = f - Unjudged(p) + s
    BY <1>4, <1>7, <1>8, CountJudged
  <2>2. PICK k \in Int, h \in Int : k = f - Unjudged(p) /\ h = f2 - Unjudged(p2)
    BY DEF Unjudged
  <2>3. l = k - u /\ h = k + s
    BY <1>3, <2>1, <2>2
  <2>4. l - d + s = h - (u + d)
    BY <2>3
  <2> QED BY <2>2, <2>4
<1>15. p2 = Len(arr2) + 1
  BY <1>3, <1>5, <1>7, <1>9, NextPlace
<1> QED BY <1>6, <1>9, <1>13, <1>14, <1>15 DEF Owes, Owing, Due

\* Nothing arrives.
LEMMA OwesIdle ==
    ASSUME NEW arr, NEW q, NEW over, NEW u, NEW D, NEW F, NEW P, NEW V, NEW w,
           NEW rd, NEW d, NEW none, Before(arr, q, over, u, D, F, P, V, w, rd, d, none)
    PROVE  Due(arr, After(q, none, FALSE, FALSE, rd), u + d, D, F, P, V, w)
<1> SUFFICES ASSUME arr \in Seq(Beat), q \in Seq(BOOLEAN), Owes(arr, q, over, u, D, F, P, V, w),
                    u \in Int, w \in Int, F \in Numbers, P \in Numbers, V \in Flags,
                    rd \in BOOLEAN, rd => q # <<>>, d \in 0 .. 1, d = 1 <=> rd, Len(q) # none,
                    NEW q2, q2 = After(q, none, FALSE, FALSE, rd)
             PROVE  Due(arr, q2, u + d, D, F, P, V, w)
  BY Zenon DEF Before
<1>1. PICK l \in Nat : l = Len(q)
  BY LenProperties
<1>2. PICK k \in Int : k = F[w + 1] - Unjudged(P[w + 1])
  <2>1. F[w + 1] \in Int
    BY NumbersAt
  <2>2. Unjudged(P[w + 1]) \in Int
    BY DEF Unjudged
  <2>3. F[w + 1] - Unjudged(P[w + 1]) \in Int
    BY <2>1, <2>2
  <2> QED BY <2>3
<1>3. l = k - u /\ Stretch(V, u, q, l)
  BY <1>1, <1>2 DEF Owes
<1>4. Owing(V, u + d, q2, l - d + 0)
  <2>1. Owing(V, u, q, l) /\ l # none
    BY <1>1, <1>3 DEF Owing
  <2>2. Feeds(V, u, q, l, rd, d, FALSE, 0, FALSE, none)
    BY <2>1 DEF Feeds
  <2>3. Owing(V, u + d, After(q, none, FALSE, FALSE, rd), l - d + 0)
    BY <2>2, OwedStep
  <2> QED BY <2>3
<1>5. l - d + 0 = k - (u + d)
  BY <1>3
<1> QED BY <1>2, <1>4, <1>5 DEF Owes, Owing, Due

\* An edge keeps the scoreboard right, unless a byte is lost.
LEMMA ScoredStep ==
    ASSUME Ctl, Typed, Scores, NEW beat \in Beat \cup {None}, Clock(beat),
           NEW D \in [Int -> Actual], NEW F \in [Int -> Int], NEW P \in [Int -> Int],
           NEW V \in [Int -> BOOLEAN], NEW X \in [Int -> BOOLEAN],
           NEW o \in Int, NEW x \in Int, NEW w \in Int, NEW g \in Int,
           NEW i \in 0 .. 1, NEW c \in 0 .. 1,
           i = 1 <=> beat # None /\ ~buf_full(r), c = 1 <=> Renews,
           i = 1 => D[w + 1] = beat /\ Decided(D, F, P, V, w + 1),
           frame_done(r) /\ ~lost => owed # <<>>,
           Scored(D, F, P, V, w, g)
    PROVE  /\ arriving' \in Seq(Beat) /\ owed' \in Seq(BOOLEAN)
           /\ ~lost' => Owes(arriving', owed', r'.over_active, (g + c) - Unretired',
                             D, F, P, V, w + i)
<1> DEFINE now     == IF beat = None THEN arriving ELSE Append(arriving, beat)
           decided == beat # None /\ Len(arriving) < MacBytes
                        /\ (Len(now) = MacBytes \/ beat.last)
           gaveUp  == lost \/ overflows(r, beat)
<1>1. /\ arriving' = IF beat = None THEN arriving ELSE IF beat.last THEN <<>> ELSE now
      /\ owed' = IF gaveUp THEN <<>>
                 ELSE Rest(owed, frame_done(r)) \o (IF decided THEN <<Dropped(now)>> ELSE <<>>)
      /\ lost' = gaveUp
      /\ r' = RxClocked(r, beat)
  BY DEF Clock, Account
<1>2. arriving \in Seq(Beat) /\ owed \in Seq(BOOLEAN)
  BY DEF Scores
<1>3. arriving' \in Seq(Beat)
  <2>1. beat # None => Append(arriving, beat) \in Seq(Beat)
    BY <1>2, AppendProperties
  <2> QED BY <1>1, <1>2, <2>1, EmptySeq
<1>4. CASE gaveUp
  <2>1. owed' = <<>> /\ lost'
    BY <1>1, <1>4
  <2> QED BY <1>3, <2>1, EmptySeq
<1>5. CASE ~gaveUp
  <2>1. ~lost /\ ~overflows(r, beat) /\ ~lost'
    BY <1>1, <1>5
  <2>2. PICK u \in Int : u = g - Unretired
    BY DEF Unretired
  <2>3. Owes(arriving, owed, r.over_active, u, D, F, P, V, w)
    BY <2>1, <2>2 DEF Scored
  <2>4. ~r'.over_active
    <3>1. ~r.over_active
      BY <2>3 DEF Owes
    <3> QED BY <1>1, <2>1, <3>1 DEF RxClocked
  <2>5. PICK rd \in BOOLEAN, d \in 0 .. 1 : (rd <=> frame_done(r)) /\ (d = 1 <=> rd)
    <3> DEFINE dd == IF frame_done(r) THEN 1 ELSE 0
               re == IF frame_done(r) THEN TRUE ELSE FALSE
    <3>1. dd \in 0 .. 1 /\ re \in BOOLEAN /\ (re <=> frame_done(r)) /\ (dd = 1 <=> re)
      OBVIOUS
    <3> QED BY <3>1
  <2>6. (g + c) - Unretired' = u + d
    <3>1. PICK a1 \in 0 .. 1, a2 \in 0 .. 1 : a1 = Unretired /\ a2 = Unretired'
      BY DEF Unretired
    <3>2. d = 1 <=> frame_done(r)
      BY <2>5
    <3>3. c + a1 = a2 + d
      BY <1>1, <3>1, <3>2, UnretiredEdge
    <3>4. (g + c) - a2 = (g - a1) + d
      BY <3>3
    <3> QED BY <2>2, <3>1, <3>4
  <2>7. rd => owed # <<>>
    BY <2>1, <2>5
  <2>8. Rest(owed, frame_done(r)) = Rest(owed, rd)
    BY <2>5 DEF Rest
  <2>9. PICK arr2, q2, ov : arr2 = arriving' /\ q2 = owed' /\ ov = r'.over_active
    OBVIOUS
  <2>12. PICK none \in Int : none = -1
    OBVIOUS
  <2>13. Len(owed) # none
    <3>1. Len(owed) \in Nat
      BY <1>2, LenProperties
    <3> QED BY <2>12, <3>1
  <2>14. Before(arriving, owed, r.over_active, u, D, F, P, V, w, rd, d, none)
    BY <1>2, <2>3, <2>5, <2>7, <2>13 DEF Before, Numbers, Flags
  <2>10. CASE beat = None
    <3>1. arr2 = arriving /\ q2 = After(owed, none, FALSE, FALSE, rd) /\ w + i = w
      <4>1. w + i = w
        BY <2>10
      <4>2. q2 = Rest(owed, rd) \o <<>>
        BY <1>1, <1>5, <2>8, <2>9, <2>10
      <4>3. q2 = After(owed, none, FALSE, FALSE, rd)
        BY <4>2 DEF After, Added
      <4> QED BY <1>1, <2>9, <2>10, <4>1, <4>3
    <3>2. Due(arr2, q2, u + d, D, F, P, V, w)
      BY <2>14, <3>1, OwesIdle
    <3>3. q2 \in Seq(BOOLEAN) /\ Owes(arr2, q2, ov, u + d, D, F, P, V, w)
      BY <2>4, <2>9, <3>2 DEF Owes, Due
    <3> QED BY <1>3, <2>6, <2>9, <3>1, <3>2, <3>3
  <2>11. CASE beat # None
    <3>1. i = 1 /\ beat \in Actual /\ w + i = w + 1
      <4>1. i = 1
        BY <2>1, <2>11 DEF overflows
      <4> QED BY <2>11, <4>1 DEF Actual
    <3>2. PICK wr \in BOOLEAN : wr <=> decided
      OBVIOUS
    <3>9. PICK new : new = Append(arriving, beat) /\ Grown(new, arriving, beat)
      BY <1>2, <3>1, Grows
    <3>3. arr2 = IF beat.last THEN <<>> ELSE new
      BY <1>1, <2>9, <2>11, <3>9
    <3>4. wr <=> Len(arriving) < MacBytes /\ (Len(new) = MacBytes \/ beat.last)
      BY <2>11, <3>2, <3>9
    <3>5. q2 = After(owed, none, wr, Dropped(new), rd)
      <4>1. q2 = Rest(owed, rd) \o (IF wr THEN <<Dropped(new)>> ELSE <<>>)
        BY <1>1, <1>5, <2>8, <2>9, <2>11, <3>2, <3>9
      <4> QED BY <2>13, <4>1 DEF After, Added
    <3>6. D[w + 1] = beat /\ Decided(D, F, P, V, w + 1)
      BY <3>1
    <3>10. Comes(arriving, beat, new, arr2, wr, D, F, P, V, w)
      BY <3>1, <3>3, <3>4, <3>6, <3>9 DEF Comes
    <3>7. Due(arr2, q2, u + d, D, F, P, V, w + 1)
      BY <2>14, <3>5, <3>10, OwesStep
    <3>8. q2 \in Seq(BOOLEAN) /\ Owes(arr2, q2, ov, u + d, D, F, P, V, w + 1)
      BY <2>4, <2>9, <3>7 DEF Owes, Due
    <3> QED BY <1>3, <2>6, <2>9, <3>1, <3>7, <3>8
  <2> QED BY <2>10, <2>11
<1> QED BY <1>4, <1>5
-----------------------------------------------------------------------------
\* As long as no two frames touched, the buffer never holds more than one byte, and what the
\* classifier has taken keeps it busy for no longer than it takes to tell a frame's address:
\* a byte costs it a cycle, and a frame's end one more.
EndsBit == IF Ends THEN 1 ELSE 0
Eased(q, valid, byte, k, e, je, lo, F, o, x) ==
    /\ ~lo
    /\ ~k.s_tready => ~valid /\ q = <<>>
    /\ Len(q) <= 1
    /\ valid /\ byte.last => q = <<>>
    /\ je <=> q # <<>> /\ q[1].last
    /\ (x - o) + (F[x + 1] - F[o + 1]) + e <= MacBytes + 1
    /\ Len(k.data) <= MacBytes
    /\ valid => (x - o) + (F[x + 1] - F[o + 1]) + e <= MacBytes
Timing(F, o, x) == ~touching => Eased(r.buf, r.out_valid, r.rd_data, r.c, EndsBit,
                                      justEnded, lost, F, o, x)

\* A buffer that holds one byte at most, and no more once a frame ended, passes it on at once.
LEMMA EasedBuffer ==
    ASSUME Typed, NEW beat \in Beat \cup {None}, r' = RxClocked(r, beat),
           Len(r.buf) <= 1, ~r.c.s_tready => ~r.out_valid /\ r.buf = <<>>,
           justEnded <=> r.buf # <<>> /\ r.buf[1].last,
           ~(justEnded /\ beat # None), justEnded' <=> beat # None /\ beat.last
    PROVE  /\ ~overflows(r, beat)
           /\ Len(r'.buf) <= 1
           /\ r'.out_valid <=> r.buf # <<>>
           /\ r'.out_valid /\ r'.rd_data.last => r'.buf = <<>>
           /\ justEnded' <=> r'.buf # <<>> /\ r'.buf[1].last
<1>1. PICK q \in Seq(Actual) : q = r.buf
  BY DEF Typed
<1>2. q = <<>> \/ (Len(q) = 1 /\ q # <<>>)
  <2>1. Len(q) \in Nat /\ (Len(q) = 0 => q = <<>>) /\ (q = <<>> => Len(q) = 0)
    BY LenProperties, EmptySeq
  <2>2. PICK n \in Nat : n = Len(q)
    BY <2>1
  <2>3. n <= 1
    BY <1>1, <2>2
  <2>4. n = 0 \/ n = 1
    BY <2>3
  <2> QED BY <2>1, <2>2, <2>4
<1>3. buf_rd_en(r) <=> q # <<>>
  BY <1>1 DEF buf_rd_en
<1>4. Len(q) # ElasticDepth
  <2>1. ElasticDepth # 0 /\ ElasticDepth # 1
    BY RxAssumption
  <2>2. q = <<>> => Len(q) = 0
    BY EmptySeq
  <2> QED BY <1>2, <2>1, <2>2
<1>5. ~overflows(r, beat)
  BY <1>1, <1>4 DEF overflows, buf_full
<1>6. Rest(q, buf_rd_en(r)) = <<>>
  <2>1. CASE q = <<>>
    BY <2>1 DEF Rest
  <2>2. CASE Len(q) = 1 /\ q # <<>>
    <3>1. Tail(q) \in Seq(Actual) /\ Len(Tail(q)) = 0
      BY <2>2, HeadTailProperties
    <3>2. Tail(q) = <<>>
      BY <3>1, EmptySeq
    <3> QED BY <1>3, <2>2, <3>2 DEF Rest
  <2> QED BY <1>2, <2>1, <2>2
<1>7. r'.buf = IF beat # None THEN <<beat>> ELSE <<>>
  <2>1. r'.buf = After(r.buf, ElasticDepth, beat # None, beat, buf_rd_en(r))
    BY DEF RxClocked
  <2>2. r'.buf = <<>> \o Added(q, ElasticDepth, beat # None, beat)
    BY <1>1, <1>6, <2>1 DEF After
  <2>3. CASE beat # None
    <3>1. r'.buf = <<>> \o <<beat>>
      BY <1>4, <2>2, <2>3 DEF Added
    <3>2. <<beat>> \in Seq(Beat)
      BY <2>3
    <3> QED BY <2>3, <3>1, <3>2, ConcatEmptySeq
  <2>4. CASE beat = None
    <3>1. r'.buf = <<>> \o <<>>
      BY <2>2, <2>4 DEF Added
    <3>2. <<>> \in Seq(Beat)
      BY EmptySeq
    <3> QED BY <2>4, <3>1, <3>2, ConcatEmptySeq
  <2> QED BY <2>3, <2>4
<1>8. r'.out_valid <=> q # <<>>
  BY <1>1, <1>3 DEF RxClocked
<1>9. q # <<>> => r'.rd_data = q[1]
  <2> SUFFICES ASSUME q # <<>> PROVE r'.rd_data = q[1]
    OBVIOUS
  <2>1. r'.rd_data = ReadPort(r.buf, r.rd_data, buf_rd_en(r))
    BY DEF RxClocked
  <2>2. Head(q) = q[1]
    BY HeadTailProperties
  <2> QED BY <1>1, <1>3, <2>1, <2>2 DEF ReadPort
<1>10. r'.out_valid /\ r'.rd_data.last => r'.buf = <<>>
  BY <1>1, <1>7, <1>8, <1>9
<1>11. Len(r'.buf) <= 1 /\ (justEnded' <=> r'.buf # <<>> /\ r'.buf[1].last)
  <2>1. CASE beat # None
    <3>1. r'.buf = <<beat>> /\ Len(<<beat>>) = 1 /\ <<beat>>[1] = beat /\ <<beat>> # <<>>
      BY <1>7, <2>1
    <3> QED BY <2>1, <3>1
  <2>2. CASE beat = None
    <3>1. r'.buf = <<>> /\ Len(<<>>) = 0
      BY <1>7, <2>2
    <3> QED BY <2>2, <3>1
  <2> QED BY <2>1, <2>2
<1> QED BY <1>1, <1>5, <1>8, <1>10, <1>11

\* When the classifier neither reads nor ends a frame, it holds no more than bytes of one
\* frame that is not judged yet.
Quiet(meta, F, P, o, x) ==
    /\ o <= x /\ F[x + 1] = F[o + 1]
    /\ x = o \/ (meta = <<>> /\ P[x + 1] = 1 + (x - o) /\ P[x + 1] <= MacBytes)

\* It is so whenever nothing is read though bytes may be there.
LEMMA Waiting ==
    ASSUME Ctl, Typed, ~Ends, ~Reads,
           NEW D, NEW F \in [Int -> Int], NEW P \in [Int -> Int], NEW V, NEW X,
           NEW o \in Int, NEW x \in Int, NEW w \in Int, NEW g \in Int,
           x <= w, Numbered(D, F, P, o, w), Within(D, F, P, V, X, o, x, g)
    PROVE  Quiet(r.c.meta, F, P, o, x)
<1>1. PICK n \in Nat : n = Len(r.c.data)
  BY LenProperties DEF Typed
<1>2. o <= x /\ n = x - o
  BY <1>1 DEF Within, Kept, Keeps
<1>3. CASE r.c.meta_live
  <2>1. r.c.data = <<>>
    BY <1>3 DEF Reads, Open
  <2>2. n = 0
    BY <1>1, <2>1, EmptySeq
  <2>3. x = o
    BY <1>2, <2>2
  <2> QED BY <1>2, <2>3 DEF Quiet
<1>4. CASE ~r.c.meta_live
  <2>1. r.c.meta = <<>> /\ Len(r.c.meta) = 0 /\ ~Open
    BY <1>4, EmptySeq DEF Ctl, Open
  <2>2. PICK fo \in Int, fx \in Int, px \in Int :
           fo = F[o + 1] /\ fx = F[x + 1] /\ px = P[x + 1]
    <3>1. o + 1 \in Int /\ x + 1 \in Int
      OBVIOUS
    <3> QED BY <3>1
  <2>3. /\ fo = g + 1 /\ P[o + 1] = 1
        /\ fx = g + (IF px > MacBytes THEN 0 ELSE 1)
    <3>1. fo = g + 1 /\ P[o + 1] = 1
      BY <2>1, <2>2 DEF Within, Ranked, Ranks
    <3>2. PICK m \in Int : m = Len(r.c.meta) /\ m = 0
      BY <2>1
    <3>3. fx = g + m + (IF px > MacBytes THEN 0 ELSE 1)
      BY <2>2, <3>2 DEF Within, Ranked, Ranks
    <3>4. fx = g + (IF px > MacBytes THEN 0 ELSE 1)
      BY <3>2, <3>3
    <3> QED BY <3>1, <3>4
  <2>4. fo <= fx /\ (fo = fx => px = P[o + 1] + ((x + 1) - (o + 1)))
    <3>1. o + 1 \in o + 1 .. w + 1 /\ x + 1 \in o + 1 .. w + 1 /\ o + 1 <= x + 1
      BY <1>2
    <3> QED BY <2>2, <3>1 DEF Numbered
  <2>5. px <= MacBytes /\ fx = fo
    <3>1. px > MacBytes => fx = g
      BY <2>3
    <3>2. ~(px > MacBytes)
      BY <2>3, <2>4, <3>1
    <3> QED BY <2>3, <3>2, MacInt
  <2>6. px = 1 + (x - o)
    BY <2>3, <2>4, <2>5
  <2> QED BY <1>2, <2>1, <2>2, <2>5, <2>6 DEF Quiet
<1> QED BY <1>3, <1>4

\* The time the classifier still needs: what comes and goes in a cycle.
LEMMA Load ==
    ASSUME NEW n \in Nat, NEW f \in Nat, NEW a \in 0 .. 1, NEW b \in 0 .. 1, NEW e \in 0 .. 1,
           NEW s \in 0 .. 1, NEW m \in Int, m >= 2, b + e <= 1, s <= a,
           n <= m, a = 1 => n + f + e <= m, n + f + e <= m + 1,
           b + e = 0 => f = 0 /\ n <= m - 1
    PROVE  /\ n + f + a + s - b <= m + 1 /\ (s = 0 => n + f + a + s - b <= m)
           /\ n + a - b <= m
<1>1. CASE b + e = 0
  <2>1. b = 0 /\ f = 0 /\ n + 1 <= m
    BY <1>1
  <2>2. n + f + a + s - b = n + a + s
    BY <2>1
  <2>3. n + a - b = n + a
    BY <2>1
  <2> QED BY <2>1, <2>2, <2>3
<1>2. CASE b + e = 1 /\ a = 0
  <2>1. s = 0
    BY <1>2
  <2>2. n + f + a + s - b = (n + f + e) - 1
    BY <1>2, <2>1
  <2>3. n + a - b <= n
    BY <1>2
  <2> QED BY <2>1, <2>2, <2>3
<1>3. CASE b + e = 1 /\ a = 1
  <2>1. n + f + a + s - b = (n + f + e) + s
    BY <1>3
  <2>2. n + f + e <= m
    BY <1>3
  <2>3. n + a - b = n + e
    BY <1>3
  <2>4. n + e <= m
    BY <2>2
  <2> QED BY <2>1, <2>2, <2>3, <2>4
<1>4. (b + e = 0) \/ b + e = 1
  OBVIOUS
<1> QED BY <1>1, <1>2, <1>3, <1>4

\* As long as no two frames touch, the buffer and the classifier keep up.
LEMMA TimingStep ==
    ASSUME Ctl, Typed, NEW beat \in Beat \cup {None}, Clock(beat),
           NEW D \in [Int -> Actual], NEW F \in [Int -> Int], NEW P \in [Int -> Int],
           NEW V \in [Int -> BOOLEAN], NEW X \in [Int -> BOOLEAN],
           NEW o \in Int, NEW x \in Int, NEW w \in Int, NEW g \in Int,
           NEW a \in 0 .. 1, NEW b \in 0 .. 1, NEW c \in 0 .. 1,
           a = 1 <=> Taken, b = 1 <=> Reads, c = 1 <=> Renews,
           x + a <= w, Taken => r.rd_data = D[x + 1],
           Numbered(D, F, P, o, w), Foretold(D, F, P, V, X, o, x, w),
           Within(D, F, P, V, X, o, x, g), Timing(F, o, x)
    PROVE  Timing(F, o + b, x + a)'
<1> SUFFICES ASSUME ~touching' PROVE Eased(r.buf, r.out_valid, r.rd_data, r.c, EndsBit,
                                           justEnded, lost, F, o + b, x + a)'
  BY DEF Timing
<1>0. ~Ends /\ ~Reads => Quiet(r.c.meta, F, P, o, x)
  <2>1. x <= w
    OBVIOUS
  <2> QED BY <2>1, Waiting
<1>1. /\ ~touching /\ ~(justEnded /\ beat # None)
      /\ justEnded' <=> beat # None /\ beat.last
      /\ lost' <=> lost \/ overflows(r, beat)
      /\ r' = RxClocked(r, beat)
  BY DEF Clock, Account
<1>2. PICK n \in Nat, e \in 0 .. 1 : n = Len(r.c.data) /\ e = EndsBit
  <2>1. Len(r.c.data) \in Nat
    BY LenProperties DEF Typed
  <2>2. EndsBit \in 0 .. 1
    BY DEF EndsBit
  <2> QED BY <2>1, <2>2
<1>3. PICK fo \in Int, fx \in Int, fo2 \in Int, fx2 \in Int :
         /\ fo = F[o + 1] /\ fx = F[x + 1]
         /\ fo2 = F[(o + b) + 1] /\ fx2 = F[(x + a) + 1]
  <2>1. o + 1 \in Int /\ x + 1 \in Int /\ (o + b) + 1 \in Int /\ (x + a) + 1 \in Int
    OBVIOUS
  <2> QED BY <2>1
<1>4. /\ o <= x /\ n = x - o
  BY <1>2 DEF Within, Kept, Keeps
<1>5. /\ ~lost
      /\ ~r.c.s_tready => ~r.out_valid /\ r.buf = <<>>
      /\ Len(r.buf) <= 1
      /\ r.out_valid /\ r.rd_data.last => r.buf = <<>>
      /\ justEnded <=> r.buf # <<>> /\ r.buf[1].last
      /\ n + (fx - fo) + e <= MacBytes + 1 /\ n <= MacBytes
      /\ r.out_valid => n + (fx - fo) + e <= MacBytes
  <2>1. Eased(r.buf, r.out_valid, r.rd_data, r.c, EndsBit, justEnded, lost, F, o, x)
    BY <1>1 DEF Timing
  <2> QED BY <1>2, <1>3, <1>4, <2>1 DEF Eased
<1>6. /\ ~overflows(r, beat)
      /\ Len(r'.buf) <= 1
      /\ r'.out_valid <=> r.buf # <<>>
      /\ r'.out_valid /\ r'.rd_data.last => r'.buf = <<>>
      /\ justEnded' <=> r'.buf # <<>> /\ r'.buf[1].last
  BY <1>1, <1>5, EasedBuffer
<1>7. PICK s \in 0 .. 1 : s = 1 <=> Taken /\ r.rd_data.last
  <2> DEFINE ss == IF Taken /\ r.rd_data.last THEN 1 ELSE 0
  <2>1. ss \in 0 .. 1 /\ (ss = 1 <=> Taken /\ r.rd_data.last)
    OBVIOUS
  <2> QED BY <2>1
<1>8. fx2 = fx + s
  <2>1. CASE Taken
    <3>1. (x + a) + 1 = x + 1 + 1 /\ x + 1 \in o + 1 .. w /\ r.rd_data = D[x + 1]
      BY <1>4, <2>1
    <3>2. F[x + 1 + 1] = fx + (IF D[x + 1].last THEN 1 ELSE 0)
      BY <1>3, <3>1 DEF Numbered
    <3>3. s = IF D[x + 1].last THEN 1 ELSE 0
      BY <1>7, <2>1, <3>1
    <3> QED BY <1>3, <3>1, <3>2, <3>3
  <2>2. CASE ~Taken
    <3>1. (x + a) + 1 = x + 1 /\ s = 0
      BY <1>7, <2>2
    <3> QED BY <1>3, <3>1
  <2> QED BY <2>1, <2>2
<1>9. PICK t \in 0 .. 1 : t = 1 <=> Reads /\ D[o + 1].last
  <2> DEFINE tt == IF Reads /\ D[o + 1].last THEN 1 ELSE 0
  <2>1. tt \in 0 .. 1 /\ (tt = 1 <=> Reads /\ D[o + 1].last)
    OBVIOUS
  <2> QED BY <2>1
<1>10. b <= n /\ Len(r'.c.data) = n - b + a
  BY <1>1, <1>2, DataEdge
<1>11. fo2 = fo + t
  <2>1. CASE Reads
    <3>1. (o + b) + 1 = o + 1 + 1 /\ o + 1 \in o + 1 .. w
      <4>1. b = 1
        BY <2>1
      <4>2. o + 1 <= x /\ x <= w
        <5>1. 1 <= n
          BY <1>10, <4>1
        <5>2. o + 1 <= x
          BY <1>4, <5>1
        <5>3. x <= w
          OBVIOUS
        <5> QED BY <5>2, <5>3
      <4> QED BY <4>1, <4>2
    <3>2. F[o + 1 + 1] = fo + (IF D[o + 1].last THEN 1 ELSE 0)
      BY <1>3, <3>1 DEF Numbered
    <3>3. t = IF D[o + 1].last THEN 1 ELSE 0
      BY <1>9, <2>1
    <3> QED BY <1>3, <3>1, <3>2, <3>3
  <2>2. CASE ~Reads
    <3>1. (o + b) + 1 = o + 1 /\ t = 0
      BY <1>9, <2>2
    <3> QED BY <1>3, <3>1
  <2> QED BY <2>1, <2>2
<1>12. EndsBit' = t
  <2>1. Kept(D, X, o, x, g) /\ Ranked(F, P, V, o, x, g)
    BY DEF Within
  <2>2. Ends' <=> Reads /\ D[o + 1].last
    BY <1>1, <2>1, KeptStep
  <2> QED BY <1>9, <2>2 DEF EndsBit
<1>13. fo <= fx
  <2>1. o + 1 \in o + 1 .. w + 1 /\ x + 1 \in o + 1 .. w + 1 /\ o + 1 <= x + 1
    BY <1>4
  <2> QED BY <1>3, <2>1 DEF Numbered
<1>14. b + e <= 1 /\ s <= a
  <2>1. e = 1 => b = 0
    BY <1>2 DEF EndsBit, Reads, Open
  <2>2. s = 1 => a = 1
    BY <1>7
  <2> QED BY <2>1, <2>2
<1>15. b + e = 0 => fx - fo = 0 /\ n <= MacBytes - 1
  <2> SUFFICES ASSUME b = 0, e = 0 PROVE fx - fo = 0 /\ n <= MacBytes - 1
    OBVIOUS
  <2>1. ~Ends /\ ~Reads /\ x <= w
    <3>1. ~Ends
      BY <1>2 DEF EndsBit
    <3>2. x <= w
      OBVIOUS
    <3> QED BY <3>1, <3>2
  <2>2. /\ F[x + 1] = F[o + 1]
        /\ x = o \/ (P[x + 1] = 1 + (x - o) /\ P[x + 1] <= MacBytes)
    <3>1. Quiet(r.c.meta, F, P, o, x)
      BY <1>0, <2>1
    <3> QED BY <3>1 DEF Quiet
  <2>3. x = o => n <= MacBytes - 1
    BY <1>4, MacInt
  <2>4. 1 + (x - o) <= MacBytes => n <= MacBytes - 1
    BY <1>4, MacInt
  <2> QED BY <1>3, <2>2, <2>3, <2>4
<1>16. PICK f \in Nat : f = fx - fo
  BY <1>13
<1>17. /\ n + f + a + s - b <= MacBytes + 1
       /\ s = 0 => n + f + a + s - b <= MacBytes
       /\ n + a - b <= MacBytes
  <2>1. a = 1 => n + f + e <= MacBytes
    BY <1>5, <1>16 DEF Taken
  <2>2. n + f + e <= MacBytes + 1 /\ n <= MacBytes
    BY <1>5, <1>16
  <2>3. b + e = 0 => f = 0 /\ n <= MacBytes - 1
    BY <1>15, <1>16
  <2> QED BY <1>14, <2>1, <2>2, <2>3, MacInt, Load
<1>18. ((x + a) - (o + b)) + (fx2 - fo2) + t = n + f + a + s - b
  BY <1>4, <1>8, <1>11, <1>16
<1>19. r'.out_valid => s = 0
  <2> SUFFICES ASSUME r'.out_valid, s = 1 PROVE FALSE
    OBVIOUS
  <2>1. r.out_valid /\ r.rd_data.last
    BY <1>7 DEF Taken
  <2> QED BY <1>5, <1>6, <2>1
<1>20. Len(r'.c.data) <= MacBytes
  BY <1>10, <1>17
<1>21. r'.c.s_tready
  <2>1. r'.c.s_tready <=> readyNext(r.c)
    BY <1>1, Edge
  <2>2. PICK m \in Nat : m = Len(r.c.meta)
    BY LenProperties DEF Typed
  <2>3. m <= n
    <3>1. x <= w
      OBVIOUS
    <3>2. Len(r.c.meta) <= Len(r.c.data)
      BY <3>1, Room
    <3> QED BY <1>2, <2>2, <3>2
  <2>4. /\ BufDepth \in Nat /\ MetaDepth \in Nat
        /\ MetaDepth >= BufDepth /\ BufDepth >= MacBytes + 2
    BY ClassifierAssumption, RxAssumption
  <2>5. n < BufDepth - 1 /\ m # MetaDepth
    <3>1. PICK h \in Int, y \in Int, z \in Int : h = MacBytes /\ y = BufDepth /\ z = MetaDepth
      BY <2>4, MacInt
    <3>2. n <= h /\ z >= y /\ y >= h + 2
      BY <1>5, <2>4, <3>1
    <3>3. n < y - 1 /\ m # z
      BY <2>3, <3>2
    <3> QED BY <3>1, <3>3
  <2>6. r.c.fill = n
    BY <1>2 DEF Typed
  <2> QED BY <2>1, <2>2, <2>5, <2>6 DEF readyNext
<1>22. ~lost'
  BY <1>1, <1>5, <1>6
<1>23. /\ ((x + a) - (o + b)) + (F[(x + a) + 1] - F[(o + b) + 1]) + EndsBit' <= MacBytes + 1
       /\ r'.out_valid => ((x + a) - (o + b)) + (F[(x + a) + 1] - F[(o + b) + 1]) + EndsBit' <= MacBytes
  <2>1. ((x + a) - (o + b)) + (F[(x + a) + 1] - F[(o + b) + 1]) + EndsBit' = n + f + a + s - b
    BY <1>3, <1>12, <1>18
  <2> QED BY <1>17, <1>19, <2>1
<1> QED BY <1>6, <1>20, <1>21, <1>22, <1>23 DEF Eased
-----------------------------------------------------------------------------
\* All that is known of the stream: its beats D, the frame F and the place P of each, the
\* verdict V on each frame and its error bit X; o beats were read from the data buffer, x
\* were taken, w arrived, and g is the frame in force.
Told(D, F, P, V, X, o, x, w, g) ==
    /\ Numbered(D, F, P, o, w) /\ Foretold(D, F, P, V, X, o, x, w)
    /\ Elastic(D, x, w) /\ Within(D, F, P, V, X, o, x, g)
    /\ Scored(D, F, P, V, w, g) /\ Timing(F, o, x)

\* The same with the beat, if any, that arrives at the next edge.
Stands(D, F, P, V, X, o, x, w, g, i, beat) ==
    /\ Numbered(D, F, P, o, w + i) /\ Foretold(D, F, P, V, X, o, x, w + i)
    /\ Elastic(D, x, w) /\ Within(D, F, P, V, X, o, x, g)
    /\ Scored(D, F, P, V, w, g) /\ Timing(F, o, x)
    /\ i = 1 => D[w + 1] = beat /\ Decided(D, F, P, V, w + 1)

\* What is known of a stretch of the stream is known of a part of it.
LEMMA Less ==
    ASSUME NEW D, NEW F, NEW P, NEW V, NEW X, NEW o \in Int, NEW x \in Int, NEW w \in Int,
           NEW o2 \in Int, NEW x2 \in Int, NEW w2 \in Int, o <= o2, x <= x2, w2 <= w,
           Numbered(D, F, P, o, w), Foretold(D, F, P, V, X, o, x, w)
    PROVE  Numbered(D, F, P, o2, w2) /\ Foretold(D, F, P, V, X, o2, x2, w2)
<1>1. \A k \in o2 + 1 .. w2 : k \in o + 1 .. w
  OBVIOUS
<1>2. \A k \in o2 + 1 .. w2 + 1 : k \in o + 1 .. w + 1
  OBVIOUS
<1>3. \A k \in x2 + 1 .. w2 : k \in x + 1 .. w
  OBVIOUS
<1>4. Numbered(D, F, P, o2, w2)
  BY <1>1, <1>2 DEF Numbered
<1>5. Foretold(D, F, P, V, X, o2, x2, w2)
  BY <1>1, <1>3 DEF Foretold
<1> QED BY <1>4, <1>5

\* The order of the counts.
LEMMA Counted ==
    ASSUME Typed, NEW D, NEW F, NEW P, NEW V, NEW X,
           NEW o \in Int, NEW x \in Int, NEW w \in Int, NEW g \in Int,
           Elastic(D, x, w), Within(D, F, P, V, X, o, x, g)
    PROVE  o <= x /\ x <= w
<1>1. o <= x
  BY DEF Within, Kept, Keeps
<1>2. x + Waits <= w /\ Waits \in 0 .. 1
  BY DEF Elastic, Holds, Waits
<1>3. PICK p \in 0 .. 1 : p = Waits
  BY <1>2
<1>4. x + p <= w
  BY <1>2, <1>3
<1> QED BY <1>1, <1>4

\* What comes later changes nothing of the buffer.
LEMMA SameElastic ==
    ASSUME Typed, NEW D, NEW F, NEW P, NEW V, NEW X, NEW D2, NEW F2, NEW P2, NEW V2, NEW X2,
           NEW x \in Int, NEW w \in Int,
           Elastic(D, x, w), Agree(D, F, P, V, X, D2, F2, P2, V2, X2, w)
    PROVE  Elastic(D2, x, w)
<1>1. PICK p \in 0 .. 1, n \in Nat : p = Waits /\ n = Len(r.buf) /\ (p = 1 <=> r.out_valid)
  <2>1. Len(r.buf) \in Nat
    BY LenProperties DEF Typed
  <2>2. Waits \in 0 .. 1 /\ (Waits = 1 <=> r.out_valid)
    BY DEF Waits
  <2> QED BY <2>1, <2>2
<1>2. /\ x + p <= w /\ n = w - x - p /\ (r.out_valid => r.rd_data = D[x + 1])
      /\ Stretch(D, x + p, r.buf, n)
  BY <1>1 DEF Elastic, Holds
<1>3. r.out_valid => r.rd_data = D2[x + 1]
  <2> SUFFICES ASSUME r.out_valid PROVE r.rd_data = D2[x + 1]
    OBVIOUS
  <2>1. p = 1
    BY <1>1
  <2>2. x + 1 \in Int /\ x + 1 <= w
    BY <1>2, <2>1
  <2>3. D2[x + 1] = D[x + 1]
    BY <2>2 DEF Agree
  <2> QED BY <1>2, <2>3
<1>4. Stretch(D2, x + p, r.buf, n)
  <2>1. ASSUME NEW i \in 1 .. n PROVE r.buf[i] = D2[(x + p) + i]
    <3>1. (x + p) + i \in Int /\ (x + p) + i <= w
      BY <1>2
    <3>2. r.buf[i] = D[(x + p) + i]
      BY <1>2 DEF Stretch
    <3>3. D2[(x + p) + i] = D[(x + p) + i]
      BY <3>1 DEF Agree
    <3> QED BY <3>2, <3>3
  <2> QED BY <2>1 DEF Stretch
<1> QED BY <1>1, <1>2, <1>3, <1>4 DEF Elastic, Holds

\* Nor of the timing.
LEMMA SameTiming ==
    ASSUME NEW D, NEW F, NEW P, NEW V, NEW X, NEW D2, NEW F2, NEW P2, NEW V2, NEW X2,
           NEW o \in Int, NEW x \in Int, NEW w \in Int, o <= x, x <= w,
           Timing(F, o, x), Agree(D, F, P, V, X, D2, F2, P2, V2, X2, w)
    PROVE  Timing(F2, o, x)
<1>1. /\ o + 1 \in Int /\ o + 1 <= w + 1
      /\ x + 1 \in Int /\ x + 1 <= w + 1
  OBVIOUS
<1>2. F2[o + 1] = F[o + 1] /\ F2[x + 1] = F[x + 1]
  BY <1>1 DEF Agree
<1> QED BY <1>2 DEF Timing, Eased

\* Nor of the scoreboard.
LEMMA SameScored ==
    ASSUME Scores,
           NEW D \in [Int -> Actual], NEW F \in [Int -> Int], NEW P \in [Int -> Int],
           NEW V \in [Int -> BOOLEAN], NEW X \in [Int -> BOOLEAN],
           NEW D2 \in [Int -> Actual], NEW F2 \in [Int -> Int], NEW P2 \in [Int -> Int],
           NEW V2 \in [Int -> BOOLEAN], NEW X2 \in [Int -> BOOLEAN],
           NEW w \in Int, NEW g \in Int,
           Scored(D, F, P, V, w, g), Agree(D, F, P, V, X, D2, F2, P2, V2, X2, w)
    PROVE  Scored(D2, F2, P2, V2, w, g)
<1>1. PICK u \in Int : u = g - Unretired
  BY DEF Unretired
<1>2. arriving \in Seq(Beat) /\ owed \in Seq(BOOLEAN)
  BY DEF Scores
<1>3. Owes(arriving, owed, r.over_active, u, D, F, P, V, w)
        => Owes(arriving, owed, r.over_active, u, D2, F2, P2, V2, w)
  BY <1>2, SameOwes
<1> QED BY <1>1, <1>3 DEF Scored

\* Some stream stands so.
GoesOn(o, x, w, g, i, b) ==
    \E D \in [Int -> Actual], F, P \in [Int -> Int], V, X \in [Int -> BOOLEAN] :
       Stands(D, F, P, V, X, o, x, w, g, i, b)

\* Whatever byte comes next, a stream goes on with it.
LEMMA Arrives ==
    ASSUME Typed, Scores, NEW b \in Actual,
           NEW D \in [Int -> Actual], NEW F \in [Int -> Int], NEW P \in [Int -> Int],
           NEW V \in [Int -> BOOLEAN], NEW X \in [Int -> BOOLEAN],
           NEW o \in Int, NEW x \in Int, NEW w \in Int, NEW g \in Int,
           Told(D, F, P, V, X, o, x, w, g)
    PROVE  GoesOn(o, x, w, g, 1, b)
<1>1. /\ Numbered(D, F, P, o, w) /\ Foretold(D, F, P, V, X, o, x, w)
      /\ Elastic(D, x, w) /\ Within(D, F, P, V, X, o, x, g)
      /\ Scored(D, F, P, V, w, g) /\ Timing(F, o, x)
  BY DEF Told
<1>2. o <= x /\ x <= w
  BY <1>1, Counted
<1>3. PICK D2 \in [Int -> Actual], F2 \in [Int -> Int], P2 \in [Int -> Int],
           V2 \in [Int -> BOOLEAN], X2 \in [Int -> BOOLEAN] :
              /\ Agree(D, F, P, V, X, D2, F2, P2, V2, X2, w) /\ D2[w + 1] = b
              /\ Numbered(D2, F2, P2, o, w + 1) /\ Foretold(D2, F2, P2, V2, X2, o, x, w + 1)
  <2>1. Numbered(D, F, P, o, w) /\ Foretold(D, F, P, V, X, o, x, w)
    BY <1>1
  <2>2. Extends(D, F, P, V, X, o, x, w, b)
    BY <1>2, <2>1, Extend
  <2> QED BY <2>2 DEF Extends
<1>4. Elastic(D2, x, w)
  BY <1>1, <1>3, SameElastic
<1>5. Within(D2, F2, P2, V2, X2, o, x, g)
  BY <1>1, <1>2, <1>3, SameWithin
<1>6. Scored(D2, F2, P2, V2, w, g)
  BY <1>1, <1>3, SameScored
<1>7. Timing(F2, o, x)
  BY <1>1, <1>2, <1>3, SameTiming
<1>8. Decided(D2, F2, P2, V2, w + 1)
  <2>1. w + 1 \in o + 1 .. w + 1 /\ w + 1 \in x + 1 .. w + 1
    BY <1>2
  <2>2. /\ F2[w + 1 + 1] = F2[w + 1] + (IF D2[w + 1].last THEN 1 ELSE 0)
        /\ P2[w + 1 + 1] = IF D2[w + 1].last THEN 1 ELSE P2[w + 1] + 1
    BY <1>3, <2>1 DEF Numbered
  <2>3. /\ P2[w + 1] = MacBytes => (V2[F2[w + 1]] <=> match(Header(D2, w + 1)) = None)
        /\ D2[w + 1].last /\ P2[w + 1] < MacBytes => V2[F2[w + 1]]
    BY <1>3, <2>1 DEF Foretold
  <2> QED BY <2>2, <2>3 DEF Decided
<1>9. Stands(D2, F2, P2, V2, X2, o, x, w, g, 1, b)
  BY <1>3, <1>4, <1>5, <1>6, <1>7, <1>8 DEF Stands
<1> QED BY <1>3, <1>9 DEF GoesOn

\* With no byte, the stream is as it was.
LEMMA Stays ==
    ASSUME NEW D \in [Int -> Actual], NEW F \in [Int -> Int], NEW P \in [Int -> Int],
           NEW V \in [Int -> BOOLEAN], NEW X \in [Int -> BOOLEAN],
           NEW o, NEW x, NEW w \in Int, NEW g, NEW beat, Told(D, F, P, V, X, o, x, w, g)
    PROVE  GoesOn(o, x, w, g, 0, beat)
<1>1. w + 0 = w /\ 0 # 1
  OBVIOUS
<1>2. Stands(D, F, P, V, X, o, x, w, g, 0, beat)
  BY <1>1 DEF Told, Stands
<1> QED BY <1>2 DEF GoesOn

\* An edge keeps it all.
LEMMA ToldStep ==
    ASSUME Ctl, Typed, Scores, NEW beat \in Beat \cup {None}, Clock(beat),
           NEW D \in [Int -> Actual], NEW F \in [Int -> Int], NEW P \in [Int -> Int],
           NEW V \in [Int -> BOOLEAN], NEW X \in [Int -> BOOLEAN],
           NEW o \in Int, NEW x \in Int, NEW w \in Int, NEW g \in Int, NEW i \in 0 .. 1,
           i = 1 <=> beat # None /\ ~buf_full(r),
           Stands(D, F, P, V, X, o, x, w, g, i, beat),
           NEW a \in 0 .. 1, NEW b \in 0 .. 1, NEW c \in 0 .. 1,
           a = 1 <=> Taken, b = 1 <=> Reads, c = 1 <=> Renews
    PROVE  Scores' /\ Told(D, F, P, V, X, o + b, x + a, w + i, g + c)'
<1>1. r' = RxClocked(r, beat)
  BY DEF Clock
<1>2. /\ Numbered(D, F, P, o, w + i) /\ Foretold(D, F, P, V, X, o, x, w + i)
      /\ Elastic(D, x, w) /\ Within(D, F, P, V, X, o, x, g)
      /\ Scored(D, F, P, V, w, g) /\ Timing(F, o, x)
      /\ i = 1 => D[w + 1] = beat /\ Decided(D, F, P, V, w + 1)
  BY DEF Stands
<1>3. o <= x /\ x <= w
  BY <1>2, Counted
<1>4. Elastic(D, x + a, w + i)'
  BY <1>1, <1>2, ElasticStep DEF Elastic
<1>5. x + a <= w /\ (Taken => r.rd_data = D[x + 1])
  BY <1>1, <1>2, ElasticStep
<1>6. PICK w2 \in Int : w2 = w + i /\ w <= w2 /\ x + a <= w2 /\ x <= w2
  BY <1>3, <1>5
<1>7. Numbered(D, F, P, o, w2) /\ Foretold(D, F, P, V, X, o, x, w2)
  BY <1>2, <1>6
<1>8. Within(D, F, P, V, X, o + b, x + a, g + c)'
  BY <1>1, <1>2, <1>5, <1>6, <1>7, WithinStep DEF Within
<1>9. Timing(F, o + b, x + a)'
  BY <1>2, <1>5, <1>6, <1>7, TimingStep DEF Timing
<1>10. Numbered(D, F, P, o + b, w2) /\ Foretold(D, F, P, V, X, o + b, x + a, w2)
  <2>1. o <= o + b /\ x <= x + a
    OBVIOUS
  <2> QED BY <1>6, <1>7, <2>1, Less
<1>11. Numbered(D, F, P, o, w)
  <2>1. o <= o /\ x <= x
    OBVIOUS
  <2> QED BY <1>6, <1>7, <2>1, Less
<1>12. frame_done(r) /\ ~lost => owed # <<>>
  BY <1>2, <1>3, <1>11, OldestOwed
<1>13. /\ arriving' \in Seq(Beat) /\ owed' \in Seq(BOOLEAN)
       /\ ~lost' => Owes(arriving', owed', r'.over_active, (g + c) - Unretired', D, F, P, V, w + i)
  BY <1>2, <1>12, ScoredStep
<1>14. Scored(D, F, P, V, w + i, g + c)'
  BY <1>13 DEF Scored
<1>15. Numbered(D, F, P, o + b, w + i) /\ Foretold(D, F, P, V, X, o + b, x + a, w + i)
  BY <1>6, <1>10
<1> QED BY <1>4, <1>8, <1>9, <1>13, <1>14, <1>15 DEF Told, Scores

\* The inductive invariant: some stream explains the state.
Sound == /\ Ctl /\ Typed /\ Scores
         /\ \E D \in [Int -> Actual], F, P \in [Int -> Int], V, X \in [Int -> BOOLEAN],
               o, x, w, g \in Int : Told(D, F, P, V, X, o, x, w, g)

\* After reset: nothing came, and the first frame will be the one after frame 0.
Fresh == /\ \E addr \in Address : \E bypass : r = ResetRx(ResetClassifier(addr, bypass))
         /\ arriving = <<>> /\ owed = <<>> /\ touching = FALSE
         /\ justEnded = FALSE /\ lost = FALSE

\* A stream in which nothing came yet explains the state after a reset.
LEMMA FreshIsSound == Fresh => Sound
<1> SUFFICES ASSUME Fresh PROVE Sound
  OBVIOUS
<1>0. PICK addr \in Address : \E bypass : r = ResetRx(ResetClassifier(addr, bypass))
  BY DEF Fresh
<1>1. PICK bypass : r = ResetRx(ResetClassifier(addr, bypass))
  BY <1>0
<1>2. /\ r.buf = <<>> /\ r.out_valid = FALSE /\ r.v = <<>> /\ r.v_pend = 0
      /\ r.drop_cnt_q = 0 /\ r.drop_q_valid = FALSE /\ r.over_active = FALSE
  BY <1>1 DEF ResetRx
<1>3. /\ r.c.data = <<>> /\ r.c.meta = <<>> /\ r.c.fill = 0 /\ r.c.addr \in Address
      /\ r.c.meta_live = FALSE /\ r.c.meta_rd_q = FALSE /\ r.c.data_rd_q = FALSE
      /\ r.c.m_tvalid = FALSE /\ r.c.s_tready = FALSE /\ r.c.in_frame = FALSE
      /\ r.c.drop_cnt = 0
  BY <1>1 DEF ResetRx, ResetClassifier
<1>4. ~Ends /\ ~Open /\ ~Retired /\ ~drop_pulse(r)
  BY <1>2, <1>3 DEF Ends, Open, Retired, drop_pulse
<1>5. \A S : <<>> \in Seq(S)
  BY EmptySeq
<1>6. Len(<<>>) = 0
  OBVIOUS
<1>7. CountMod \in Nat /\ CountMod > 1 /\ BufDepth \in Nat /\ BufDepth > 0 /\ MacBytes >= 2
      /\ MacBytes \in Int
  BY ClassifierAssumption, RxAssumption
<1>8. Ctl
  BY <1>2, <1>3, <1>4, <1>6, <1>7 DEF Ctl
<1>9. Typed
  <2>1. 0 \in 0 .. CountMod - 1
    BY <1>7
  <2> QED BY <1>2, <1>3, <1>5, <1>6, <2>1 DEF Typed
<1>10. Scores
  BY <1>5 DEF Fresh, Scores
<1>11. PICK b \in Actual : TRUE
  <2>0. PICK d \in Byte : TRUE
    BY PortAssumption
  <2> DEFINE y == [byte |-> d, last |-> FALSE, err |-> FALSE]
             z == [byte |-> d, last |-> TRUE, err |-> FALSE]
  <2>1. y \in Beat /\ z \in Beat
    BY <2>0 DEF Beat
  <2>2. y.last # z.last
    OBVIOUS
  <2>3. y # z
    BY <2>2
  <2> HIDE DEF y, z
  <2>4. y \in Actual \/ z \in Actual
    BY <2>1, <2>3 DEF Actual
  <2> QED BY <2>4
<1> DEFINE D == [k \in Int |-> b]
           F == [k \in Int |-> 1]
           V == [k \in Int |-> FALSE]
<1>12. /\ D \in [Int -> Actual] /\ F \in [Int -> Int] /\ V \in [Int -> BOOLEAN]
       /\ \A k \in Int : F[k] = 1
  OBVIOUS
<1> HIDE DEF D, F, V
<1>13. Numbered(D, F, F, 0, 0) /\ Foretold(D, F, F, V, V, 0, 0, 0)
  <2>1. 0 + 1 .. 0 = {} /\ 0 + 1 .. 0 + 1 = {1}
    OBVIOUS
  <2> QED BY <1>12, <2>1 DEF Numbered, Foretold
<1>14. Elastic(D, 0, 0)
  <2>1. Waits = 0
    BY <1>2 DEF Waits
  <2> QED BY <1>2, <1>6, <2>1 DEF Elastic, Holds, Stretch
<1>15. F[0 + 1] = 1
  BY <1>12
<1>16. Within(D, F, F, V, V, 0, 0, 0)
  <2>1. Kept(D, V, 0, 0, 0)
    BY <1>3, <1>4, <1>6 DEF Kept, Keeps, Stretch
  <2>2. Captured(D, F, 0)
    BY <1>3, <1>15 DEF Captured, Captures
  <2>3. Ranked(F, F, V, 0, 0, 0)
    <3>1. ~(1 > MacBytes)
      BY <1>7
    <3> QED BY <1>3, <1>4, <1>6, <1>15, <3>1 DEF Ranked, Ranks
  <2>4. Errors(F, V, 0, 0)
    <3>1. First(0) = 1
      BY <1>3 DEF First, Behind
    <3> QED BY <1>2, <1>4, <1>6, <1>15, <3>1 DEF Errors, Counts, Stretch
  <2> QED BY <2>1, <2>2, <2>3, <2>4 DEF Within
<1>17. Scored(D, F, F, V, 0, 0)
  <2>1. Unretired = 0
    BY <1>3 DEF Unretired
  <2>2. Unjudged(1) = 1
    BY <1>7 DEF Unjudged
  <2>3. arriving = <<>> /\ owed = <<>>
    BY DEF Fresh
  <2>4. Owes(arriving, owed, r.over_active, 0 - 0, D, F, F, V, 0)
    BY <1>2, <1>6, <1>15, <2>2, <2>3 DEF Owes, Stretch
  <2> QED BY <2>1, <2>4 DEF Scored
<1>18. Timing(F, 0, 0)
  <2>1. EndsBit = 0
    BY <1>4 DEF EndsBit
  <2>2. (0 - 0) + (F[0 + 1] - F[0 + 1]) + 0 = 0
    BY <1>15
  <2>3. justEnded = FALSE /\ lost = FALSE
    BY DEF Fresh
  <2>4. Len(r.buf) <= 1 /\ Len(r.c.data) <= MacBytes /\ 0 <= MacBytes /\ 0 <= MacBytes + 1
    BY <1>2, <1>3, <1>6, <1>7
  <2> QED BY <1>2, <1>3, <2>1, <2>2, <2>3, <2>4 DEF Timing, Eased
<1>19. Told(D, F, F, V, V, 0, 0, 0, 0)
  BY <1>13, <1>14, <1>16, <1>17, <1>18 DEF Told
<1> QED BY <1>8, <1>9, <1>10, <1>12, <1>19 DEF Sound

\* The initial state is fresh.
LEMMA InitSound == Init => Sound
<1> SUFFICES ASSUME Init PROVE Sound
  OBVIOUS
<1>1. PICK addr \in Address : r = ResetRx(ResetClassifier(addr, None))
  BY DEF Init
<1>2. Fresh
  BY <1>1 DEF Fresh, Init
<1> QED BY <1>2, FreshIsSound

\* Every step is explained by the stream, or by one that goes on.
LEMMA NextSound == Sound /\ [Next]_vars => Sound'
<1> SUFFICES ASSUME Sound, [Next]_vars PROVE Sound'
  OBVIOUS
<1>1. Ctl /\ Typed /\ Scores
  BY DEF Sound
<1>2. PICK D \in [Int -> Actual], F \in [Int -> Int], P \in [Int -> Int],
           V \in [Int -> BOOLEAN], X \in [Int -> BOOLEAN],
           o \in Int, x \in Int, w \in Int, g \in Int : Told(D, F, P, V, X, o, x, w, g)
  BY DEF Sound
<1>3. ASSUME NEW beat \in Offers, Clock(beat) PROVE Sound'
  <2>1. beat \in Beat \cup {None} /\ r' = RxClocked(r, beat)
    BY <1>3 DEF Offers, Clock
  <2>2. Ctl' /\ Typed'
    BY <1>1, <2>1, CtlStep, TypedStep
  <2>3. PICK i \in 0 .. 1 : i = 1 <=> beat # None /\ ~buf_full(r)
    <3> DEFINE ii == IF beat # None /\ ~buf_full(r) THEN 1 ELSE 0
    <3>1. ii \in 0 .. 1 /\ (ii = 1 <=> beat # None /\ ~buf_full(r))
      OBVIOUS
    <3> QED BY <3>1
  <2>4. GoesOn(o, x, w, g, i, beat)
    <3>1. CASE i = 1
      <4>1. beat \in Actual
        BY <2>1, <2>3, <3>1 DEF Actual
      <4>2. GoesOn(o, x, w, g, 1, beat)
        BY <1>1, <1>2, <4>1, Arrives
      <4> QED BY <3>1, <4>2
    <3>2. CASE i = 0
      <4>1. GoesOn(o, x, w, g, 0, beat)
        BY <1>2, Stays
      <4> QED BY <3>2, <4>1
    <3> QED BY <3>1, <3>2
  <2>5. PICK D2 \in [Int -> Actual], F2 \in [Int -> Int], P2 \in [Int -> Int],
             V2 \in [Int -> BOOLEAN], X2 \in [Int -> BOOLEAN] :
                Stands(D2, F2, P2, V2, X2, o, x, w, g, i, beat)
    BY <2>4 DEF GoesOn
  <2>6. PICK a \in 0 .. 1, b \in 0 .. 1, c \in 0 .. 1 :
           (a = 1 <=> Taken) /\ (b = 1 <=> Reads) /\ (c = 1 <=> Renews)
    <3> DEFINE aa == IF Taken THEN 1 ELSE 0
               bb == IF Reads THEN 1 ELSE 0
               cc == IF Renews THEN 1 ELSE 0
    <3>1. /\ aa \in 0 .. 1 /\ (aa = 1 <=> Taken)
          /\ bb \in 0 .. 1 /\ (bb = 1 <=> Reads)
          /\ cc \in 0 .. 1 /\ (cc = 1 <=> Renews)
      OBVIOUS
    <3> HIDE DEF aa, bb, cc
    <3> QED BY <3>1
  <2>7. Scores' /\ Told(D2, F2, P2, V2, X2, o + b, x + a, w + i, g + c)'
    BY <1>1, <1>3, <2>1, <2>3, <2>5, <2>6, ToldStep DEF Told, Scores
  <2>8. o + b \in Int /\ x + a \in Int /\ w + i \in Int /\ g + c \in Int
    OBVIOUS
  <2> QED BY <2>2, <2>7, <2>8 DEF Sound
<1>4. CASE Reset
  <2>1. Fresh'
    BY <1>1, <1>4 DEF Reset, Fresh, Typed
  <2>2. Fresh' => Sound'
    BY FreshIsSound, PTL
  <2> QED BY <2>1, <2>2
<1>5. CASE UNCHANGED vars
  <2>1. Ctl' /\ Typed' /\ Scores'
    BY <1>1, <1>5 DEF vars, Ctl, Typed, Scores, Ends, Hit
  <2>2. Told(D, F, P, V, X, o, x, w, g)'
    BY <1>2, <1>5 DEF vars, Told, Elastic, Waits, Within, Kept, Captured, Ranked, Errors,
         First, Behind, Retired, Scored, Unretired, Timing, EndsBit, Open, Ends, Hit
  <2> QED BY <2>1, <2>2 DEF Sound
<1> QED BY <1>3, <1>4, <1>5 DEF Next

\* Some stream explains every state: what is held, read and counted is what came, in order.
THEOREM SoundHolds == Spec => []Sound
<1>1. Init => Sound
  BY InitSound
<1>2. Sound /\ [Next]_vars => Sound'
  BY NextSound
<1> QED BY <1>1, <1>2, PTL DEF Spec

\* The error bit shown at the last byte of a frame is the frame's own: the queue's head is
\* the bit of the frame in force, which the byte that is out ends.
THEOREM OwnVerdictHolds == Spec => []OwnVerdict
<1>1. ASSUME Sound PROVE OwnVerdict
  <2> SUFFICES ASSUME sent_last(r) PROVE r.v # <<>> /\ v_head(r) = r.c.out.err
    BY DEF OwnVerdict
  <2>1. Ctl /\ Typed
    BY <1>1 DEF Sound
  <2>2. PICK D \in [Int -> Actual], F \in [Int -> Int], P \in [Int -> Int],
             V \in [Int -> BOOLEAN], X \in [Int -> BOOLEAN],
             o \in Int, x \in Int, w \in Int, g \in Int : Told(D, F, P, V, X, o, x, w, g)
    BY <1>1 DEF Sound
  <2>3. /\ Numbered(D, F, P, o, w) /\ Elastic(D, x, w) /\ Within(D, F, P, V, X, o, x, g)
    BY <2>2 DEF Told
  <2>4. o <= x /\ x <= w
    BY <2>1, <2>3, Counted
  <2>5. Ends /\ Hit
    BY <2>1, Wires
  <2>6. First(g) = g + 0
    <3>1. r.c.meta_live /\ ~Retired
      BY <2>1, <2>5 DEF Ctl, Ends, Retired
    <3> QED BY <3>1 DEF First, Behind
  <2>7. PICK l \in Nat, fo \in Int, fx \in Int : l = Len(r.v) /\ fo = F[o + 1] /\ fx = F[x + 1]
    <3>1. Len(r.v) \in Nat
      BY <2>1, LenProperties DEF Typed
    <3>2. o + 1 \in Int /\ x + 1 \in Int
      OBVIOUS
    <3>3. F[o + 1] \in Int /\ F[x + 1] \in Int
      BY <3>2
    <3> QED BY <3>1, <3>3
  <2>8. l = fx - g /\ Stretch(X, g - 1, r.v, l)
    BY <2>3, <2>6, <2>7 DEF Within, Errors, Counts
  <2>9. fo = g + 1 /\ fo <= fx
    <3>1. fo = g + 1
      BY <2>3, <2>5, <2>7 DEF Within, Ranked, Ranks, Open
    <3>2. o + 1 \in o + 1 .. w + 1 /\ x + 1 \in o + 1 .. w + 1 /\ o + 1 <= x + 1
      BY <2>4
    <3> QED BY <2>3, <2>7, <3>1, <3>2 DEF Numbered
  <2>10. l >= 1
    BY <2>8, <2>9
  <2>11. r.v[1] = X[g]
    <3>1. 1 \in 1 .. l /\ (g - 1) + 1 = g
      BY <2>10
    <3> QED BY <2>8, <3>1 DEF Stretch
  <2>12. X[g] = r.c.out.err
    BY <2>3, <2>5 DEF Within, Kept, Keeps
  <2>13. r.v \in Seq(BOOLEAN) /\ r.v # <<>> /\ Head(r.v) = r.v[1]
    <3>1. r.v = <<>> => l = 0
      BY <2>7
    <3>2. l # 0
      BY <2>10
    <3>3. r.v \in Seq(BOOLEAN)
      BY <2>1 DEF Typed
    <3>4. r.v # <<>>
      BY <3>1, <3>2
    <3>5. Head(r.v) = r.v[1]
      BY <3>3, <3>4, HeadTailProperties
    <3> QED BY <3>3, <3>4, <3>5
  <2> QED BY <2>11, <2>12, <2>13 DEF v_head
<1> QED BY <1>1, SoundHolds, PTL

\* No error bit meets a full queue: a bit waits for each frame that ends in the data buffer or
\* at its read port, and the classifier takes no byte when the buffer is full.
THEOREM VerdictRoomHolds == Spec => []VerdictRoom
<1>1. ASSUME Sound PROVE VerdictRoom
  <2> SUFFICES ASSUME v_wr_en(r) PROVE Len(r.v) < VerdictDepth
    BY DEF VerdictRoom
  <2>1. Ctl /\ Typed
    BY <1>1 DEF Sound
  <2>2. PICK D \in [Int -> Actual], F \in [Int -> Int], P \in [Int -> Int],
             V \in [Int -> BOOLEAN], X \in [Int -> BOOLEAN],
             o \in Int, x \in Int, w \in Int, g \in Int : Told(D, F, P, V, X, o, x, w, g)
    BY <1>1 DEF Sound
  <2>3. Numbered(D, F, P, o, w) /\ Elastic(D, x, w) /\ Within(D, F, P, V, X, o, x, g)
    BY <2>2 DEF Told
  <2>4. x <= w
    BY <2>1, <2>3, Counted
  <2>5. Len(r.v) <= Len(r.c.data) + (IF Ends THEN 1 ELSE 0)
    BY <2>1, <2>3, <2>4, Room
  <2>6. r.c.s_tready
    BY <2>1, Wires DEF v_wr_en, Taken
  <2>7. PICK n \in Nat, l \in Nat, i \in 0 .. 1, e \in 0 .. 1 :
           /\ n = Len(r.c.data) /\ l = Len(r.v)
           /\ i = (IF r.c.data_rd_q THEN 1 ELSE 0) /\ e = IF Ends THEN 1 ELSE 0
    <3>1. Len(r.c.data) \in Nat /\ Len(r.v) \in Nat
      BY <2>1, LenProperties DEF Typed
    <3>2. (IF r.c.data_rd_q THEN 1 ELSE 0) \in 0 .. 1 /\ (IF Ends THEN 1 ELSE 0) \in 0 .. 1
      OBVIOUS
    <3> QED BY <3>1, <3>2
  <2>8. n + i < BufDepth
    BY <2>1, <2>6, <2>7 DEF Ctl
  <2>9. e <= i
    <3>1. e = 1 => Ends
      BY <2>7
    <3>2. r.c.data_rd_q => i = 1
      BY <2>7
    <3>3. e = 1 => i = 1
      BY <3>1, <3>2 DEF Ends
    <3> QED BY <3>3
  <2>10. l <= n + e
    BY <2>5, <2>7
  <2>11. BufDepth \in Nat /\ VerdictDepth \in Nat /\ VerdictDepth >= BufDepth
    BY ClassifierAssumption, RxAssumption
  <2>12. l < VerdictDepth
    <3>1. PICK y \in Int, z \in Int : y = BufDepth /\ z = VerdictDepth
      BY <2>11
    <3>2. n + i < y /\ z >= y
      BY <2>8, <2>11, <3>1
    <3>3. l < z
      BY <2>9, <2>10, <3>2
    <3> QED BY <3>1, <3>3
  <2> QED BY <2>7, <2>12
<1> QED BY <1>1, SoundHolds, PTL

\* Frames are retired one by one, in the order they came and as what they are: what is
\* retired is the frame in force, and the scoreboard's oldest entry is its verdict.
THEOREM RetiredInOrderHolds == Spec => []RetiredInOrder
<1>1. ASSUME Sound PROVE RetiredInOrder
  <2> SUFFICES ASSUME NEW beat \in Offers, ~lost, retire_valid(r, beat)
               PROVE  /\ owed # <<>> /\ Head(owed) = retire_drop(r, beat)
                      /\ ~(sent_last(r) /\ drop_pulse(r))
    BY DEF RetiredInOrder
  <2>1. Ctl /\ Typed /\ Scores
    BY <1>1 DEF Sound
  <2>2. PICK D \in [Int -> Actual], F \in [Int -> Int], P \in [Int -> Int],
             V \in [Int -> BOOLEAN], X \in [Int -> BOOLEAN],
             o \in Int, x \in Int, w \in Int, g \in Int : Told(D, F, P, V, X, o, x, w, g)
    BY <1>1 DEF Sound
  <2>3. /\ Numbered(D, F, P, o, w) /\ Elastic(D, x, w) /\ Within(D, F, P, V, X, o, x, g)
        /\ Scored(D, F, P, V, w, g)
    BY <2>2 DEF Told
  <2>4. x <= w
    BY <2>1, <2>3, Counted
  <2>5. ~lost_pulse(r, beat)
    BY <2>3 DEF Scored, Owes, lost_pulse
  <2>6. frame_done(r)
    BY <2>5 DEF retire_valid
  <2>7. owed # <<>> /\ owed[1] = V[g] /\ r.c.meta_live
    BY <2>1, <2>3, <2>4, <2>6, OldestOwed
  <2>8. V[g] <=> ~Hit
    BY <2>3, <2>7 DEF Within, Ranked, Ranks
  <2>9. (sent_last(r) => Hit) /\ (drop_pulse(r) => ~Hit)
    BY <2>1, Wires DEF Ctl
  <2>10. drop_pulse(r) <=> ~Hit
    BY <2>6, <2>9 DEF frame_done
  <2>11. retire_drop(r, beat) <=> V[g]
    BY <2>5, <2>8, <2>10 DEF retire_drop
  <2>12. retire_drop(r, beat) \in BOOLEAN /\ V[g] \in BOOLEAN
    BY DEF retire_drop, drop_pulse, lost_pulse
  <2>13. Head(owed) = owed[1]
    BY <2>1, <2>7, HeadTailProperties DEF Scores
  <2> QED BY <2>7, <2>9, <2>11, <2>12, <2>13
<1> QED BY <1>1, SoundHolds, PTL

\* One idle cycle after each frame is all the buffer needs.
THEOREM IdleIsEnoughHolds == Spec => []IdleIsEnough
<1>1. ASSUME Sound PROVE IdleIsEnough
  BY <1>1 DEF Sound, Told, Timing, Eased, IdleIsEnough
<1> QED BY <1>1, SoundHolds, PTL

\* A queue that a read leaves as it is was not read, if nothing was added.
LEMMA Unread ==
    ASSUME NEW S, NEW q \in Seq(S), NEW depth, NEW x, NEW rd, rd => q # <<>>,
           After(q, depth, FALSE, x, rd) = q
    PROVE  ~rd
<1> SUFFICES ASSUME rd PROVE FALSE
  OBVIOUS
<1>1. /\ q # <<>> /\ Tail(q) \in Seq(S) /\ Len(q) \in Nat
      /\ Len(Tail(q)) = Len(q) - 1
  BY HeadTailProperties, LenProperties
<1>2. After(q, depth, FALSE, x, rd) = Tail(q) \o <<>>
  BY <1>1 DEF After, Rest, Added
<1>3. Tail(q) = q
  BY <1>1, <1>2, ConcatEmptySeq
<1>4. Len(q) = Len(q) - 1
  BY <1>1, <1>3
<1> QED BY <1>1, <1>4

\* Where an edge without a beat changes nothing, nothing is taken, read, renewed or retired.
LEMMA Settled ==
    ASSUME Ctl, Typed, RxClocked(r, None) = r, Len(r.c.meta) <= Len(r.c.data)
    PROVE  /\ ~Taken /\ ~Reads /\ ~Ends /\ ~buf_rd_en(r)
           /\ r.c.s_tready <=> readyNext(r.c)
           /\ Open \/ r.c.meta = <<>>
<1> DEFINE k == r.c
           b == offered(r)
<1>1. /\ r.buf = After(r.buf, ElasticDepth, FALSE, None, buf_rd_en(r))
      /\ r.out_valid <=> buf_rd_en(r) \/ (r.out_valid /\ ~r.c.s_tready)
      /\ k = ClassifierClocked(k, b, TRUE)
  <2> DEFINE n == RxClocked(r, None)
  <2>1. (None # None) = FALSE
    OBVIOUS
  <2>2. /\ n.buf = After(r.buf, ElasticDepth, None # None, None, buf_rd_en(r))
        /\ n.out_valid = (buf_rd_en(r) \/ (r.out_valid /\ ~r.c.s_tready))
        /\ n.c = ClassifierClocked(k, b, TRUE)
    BY DEF RxClocked
  <2>3. n = r
    OBVIOUS
  <2> HIDE DEF n
  <2>4. /\ r.buf = After(r.buf, ElasticDepth, None # None, None, buf_rd_en(r))
        /\ r.out_valid = (buf_rd_en(r) \/ (r.out_valid /\ ~r.c.s_tready))
        /\ r.c = ClassifierClocked(k, b, TRUE)
    BY <2>2, <2>3
  <2> QED BY <2>1, <2>4
<1>2. ~buf_rd_en(r)
  <2>1. r.buf \in Seq(Actual) /\ (buf_rd_en(r) => r.buf # <<>>)
    BY DEF Typed, buf_rd_en
  <2> QED BY <1>1, <2>1, Unread
<1>3. ~Taken
  BY <1>1, <1>2 DEF Taken
<1> HIDE DEF b
<1>4. /\ k.fill = k.fill + (IF s_xfer(k, b) THEN 1 ELSE 0) - (IF data_rd_en(k, TRUE) THEN 1 ELSE 0)
      /\ k.data_rd_q = data_rd_en(k, TRUE) /\ k.s_tready = readyNext(k)
      /\ k.meta = After(k.meta, MetaDepth, meta_wr_en(k, b) /\ ~bypassed(k, b, TRUE),
                        verdict(k, b), meta_rd_en(k, TRUE))
  <2> DEFINE n == ClassifierClocked(k, b, TRUE)
  <2>1. n.fill = k.fill + (IF s_xfer(k, b) THEN 1 ELSE 0) - (IF data_rd_en(k, TRUE) THEN 1 ELSE 0)
    BY DEF ClassifierClocked
  <2>2. n.data_rd_q = data_rd_en(k, TRUE) /\ n.s_tready = readyNext(k)
    BY DEF ClassifierClocked
  <2>3. n.meta = After(k.meta, MetaDepth, meta_wr_en(k, b) /\ ~bypassed(k, b, TRUE),
                       verdict(k, b), meta_rd_en(k, TRUE))
    BY DEF ClassifierClocked
  <2>4. n = k
    BY <1>1
  <2> HIDE DEF n
  <2> QED BY <2>1, <2>2, <2>3, <2>4
<1>5. /\ s_xfer(k, b) <=> Taken
      /\ data_rd_en(k, TRUE) <=> Reads
      /\ meta_rd_en(k, TRUE) <=> k.meta # <<>> /\ ~Open
  BY Wires DEF b
<1>6. ~Reads
  <2>1. k.fill \in Nat
    BY LenProperties DEF Typed
  <2>2. k.fill = k.fill + 0 - (IF Reads THEN 1 ELSE 0)
    BY <1>3, <1>4, <1>5
  <2> QED BY <2>1, <2>2
<1>7. ~k.data_rd_q
  BY <1>4, <1>5, <1>6
<1>8. ~Judges
  BY <1>3, JudgesTaken
<1>9. Open \/ k.meta = <<>>
  <2>1. (meta_wr_en(k, b) /\ ~bypassed(k, b, TRUE)) = FALSE
    BY <1>8 DEF Judges, b
  <2>2. After(k.meta, MetaDepth, FALSE, verdict(k, b), meta_rd_en(k, TRUE)) = k.meta
    BY <1>4, <2>1
  <2>3. k.meta \in Seq(Verdict) /\ (meta_rd_en(k, TRUE) => k.meta # <<>>)
    BY <1>5 DEF Typed
  <2>4. ~meta_rd_en(k, TRUE)
    BY <2>2, <2>3, Unread
  <2> QED BY <1>5, <2>4
<1> QED BY <1>2, <1>3, <1>4, <1>6, <1>7, <1>9 DEF Ends

\* When the source is silent and an edge changes nothing more, every frame has been retired
\* and no error bit and no early end is left over: a frame still in force would wait for bytes
\* that did not come, and one not yet in force would be there to be judged.
THEOREM NothingLeftHolds == Spec => []NothingLeft
<1>1. ASSUME Sound PROVE NothingLeft
  <2> SUFFICES ASSUME ~lost, arriving = <<>>, RxClocked(r, None) = r
               PROVE  owed = <<>> /\ r.v = <<>> /\ r.v_pend = 0
    BY DEF NothingLeft
  <2>1. Ctl /\ Typed /\ Scores
    BY <1>1 DEF Sound
  <2>2. PICK D \in [Int -> Actual], F \in [Int -> Int], P \in [Int -> Int],
             V \in [Int -> BOOLEAN], X \in [Int -> BOOLEAN],
             o \in Int, x \in Int, w \in Int, g \in Int : Told(D, F, P, V, X, o, x, w, g)
    BY <1>1 DEF Sound
  <2>3. /\ Numbered(D, F, P, o, w) /\ Elastic(D, x, w) /\ Within(D, F, P, V, X, o, x, g)
        /\ Scored(D, F, P, V, w, g)
    BY <2>2 DEF Told
  <2>4. o <= x /\ x <= w
    BY <2>1, <2>3, Counted
  <2>5. Len(r.c.meta) <= Len(r.c.data)
    BY <2>1, <2>3, <2>4, Room
  <2>6. /\ ~Taken /\ ~Reads /\ ~Ends /\ ~buf_rd_en(r)
        /\ r.c.s_tready <=> readyNext(r.c)
        /\ Open \/ r.c.meta = <<>>
    BY <2>1, <2>5, Settled
  <2>7. Quiet(r.c.meta, F, P, o, x)
    BY <2>1, <2>3, <2>4, <2>6, Waiting
  <2>8. PICK n \in Nat, m \in Nat : n = Len(r.c.data) /\ m = Len(r.c.meta)
    BY <2>1, LenProperties DEF Typed
  <2>9. n = x - o
    BY <2>3, <2>8 DEF Within, Kept, Keeps
  <2>10. n <= MacBytes - 1
    <3>1. x = o => n <= MacBytes - 1
      BY <2>9, MacInt
    <3>2. x # o => 1 + (x - o) <= MacBytes
      BY <2>7 DEF Quiet
    <3>3. 1 + (x - o) <= MacBytes => n <= MacBytes - 1
      BY <2>9, MacInt
    <3> QED BY <3>1, <3>2, <3>3
  <2>11. r.c.s_tready
    <3>1. /\ BufDepth \in Nat /\ MetaDepth \in Nat
          /\ MetaDepth >= BufDepth /\ BufDepth >= MacBytes + 2
      BY ClassifierAssumption, RxAssumption
    <3>2. PICK h \in Int, y \in Int, z \in Int : h = MacBytes /\ y = BufDepth /\ z = MetaDepth
      BY <3>1, MacInt
    <3>3. n <= h - 1 /\ z >= y /\ y >= h + 2 /\ m <= n
      BY <2>5, <2>8, <2>10, <3>1, <3>2
    <3>4. n < y - 1 /\ m # z
      BY <3>3
    <3>5. r.c.fill = n
      BY <2>1, <2>8 DEF Typed
    <3> QED BY <2>6, <2>8, <3>2, <3>4, <3>5 DEF readyNext
  <2>12. ~r.out_valid /\ r.buf = <<>>
    BY <2>6, <2>11 DEF Taken, buf_rd_en
  <2>13. w = x
    <3>1. Waits = 0 /\ Len(r.buf) = 0
      BY <2>12, EmptySeq DEF Waits
    <3>2. 0 = w - x - 0
      BY <2>3, <3>1 DEF Elastic, Holds
    <3> QED BY <3>2
  <2>14. PICK fo \in Int, fx \in Int, u \in Int :
            fo = F[o + 1] /\ fx = F[x + 1] /\ u = g - Unretired
    <3>1. o + 1 \in Int /\ x + 1 \in Int
      OBVIOUS
    <3>2. F[o + 1] \in Int /\ F[x + 1] \in Int
      BY <3>1
    <3>3. g - Unretired \in Int
      BY DEF Unretired
    <3> QED BY <3>2, <3>3
  <2>15. P[x + 1] = 1 /\ Len(owed) = fx - Unjudged(1) - u
    <3>1. Len(arriving) = 0
      BY EmptySeq
    <3>2. P[w + 1] = 0 + 1 /\ Len(owed) = F[w + 1] - Unjudged(P[w + 1]) - u
      BY <2>3, <2>14, <3>1 DEF Scored, Owes
    <3> QED BY <2>13, <2>14, <3>2
  <2>16. Unjudged(1) = 1 /\ ~(1 > MacBytes)
    BY MacInt DEF Unjudged
  <2>17. fx = g + m + 1
    <3>1. fx = g + m + (IF P[x + 1] > MacBytes THEN 0 ELSE 1)
      BY <2>3, <2>8, <2>14 DEF Within, Ranked, Ranks
    <3> QED BY <2>15, <2>16, <3>1
  <2>18. fx = fo
    BY <2>7, <2>14 DEF Quiet
  <2>19. ~Open
    <3> SUFFICES ASSUME Open PROVE FALSE
      OBVIOUS
    <3>1. fo = g
      BY <2>3, <2>14 DEF Within, Ranked, Ranks
    <3> QED BY <2>17, <2>18, <3>1
  <2>20. ~r.c.meta_live /\ m = 0
    <3>1. r.c.meta = <<>>
      BY <2>6, <2>19
    <3> QED BY <2>6, <2>8, <2>19, <3>1, EmptySeq DEF Open
  <2>21. r.v = <<>> /\ r.v_pend = 0
    <3>1. First(g) = g + 1 /\ ~Retired
      BY <2>20 DEF First, Behind, Retired
    <3>2. Len(r.v) = fx - (g + 1) /\ r.v_pend = 0
      BY <2>3, <2>14, <3>1 DEF Within, Errors, Counts
    <3>3. fx - (g + 1) = 0
      BY <2>17, <2>20
    <3>4. r.v \in Seq(BOOLEAN) /\ Len(r.v) = 0
      BY <2>1, <3>2, <3>3 DEF Typed
    <3> QED BY <3>2, <3>4, EmptySeq
  <2>22. owed = <<>>
    <3>1. Unretired = 0
      BY <2>20 DEF Unretired
    <3>2. u = g - 0
      BY <2>14, <3>1
    <3>3. fx - 1 - u = 0
      BY <2>17, <2>20, <3>2
    <3>4. owed \in Seq(BOOLEAN) /\ Len(owed) = 0
      BY <2>1, <2>15, <2>16, <3>3 DEF Scores
    <3> QED BY <3>4, EmptySeq
  <2> QED BY <2>21, <2>22
<1> QED BY <1>1, SoundHolds, PTL
=============================================================================
