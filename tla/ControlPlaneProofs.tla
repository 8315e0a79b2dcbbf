-------------------------- MODULE ControlPlaneProofs --------------------------
(***************************************************************************)
(* Proofs about the registers behind the serial line: for every file and   *)
(* word size, every set of addresses and words, and every number of lost   *)
(* bytes, killed programs and resets.                                      *)
(***************************************************************************)
EXTENDS ControlPlane, SequenceTheorems, TLAPS

WordSet == [1 .. NumBytes -> Int]

BridgeSet ==
    [state : {"GET_CMD", "GET_ADDR", "GET_DATA", "DO_WRITE", "DO_READ", "SEND"},
     awvalid : BOOLEAN, wvalid : BOOLEAN, arvalid : BOOLEAN,
     tx_valid : BOOLEAN, tx_byte : Int, count : Int, send_len : Int,
     is_read : BOOLEAN, addr : Int, shift : WordSet]

FileSet ==
    [awready : BOOLEAN, wready : BOOLEAN, arready : BOOLEAN, bvalid : BOOLEAN,
     rvalid : BOOLEAN, rdata : WordSet, regs : [RwIndex -> WordSet]]

HostSet == [doing : {"idle", "gone", "read", "write"}, addr : Int, word : WordSet]

TInv == /\ m \in BridgeSet /\ s \in FileSet /\ h \in HostSet
        /\ status \in [RwIndex -> WordSet]
        /\ toBoard \in Seq(Int) /\ sending \in Seq(Int) /\ inbox \in Seq(Int)
        /\ clean \in BOOLEAN /\ seen \subseteq WordSet

\* A word is a sequence of NumBytes bytes; shifting a byte in drops the first.
LEMMA WordSeq ==
    ASSUME NEW w \in WordSet
    PROVE  w \in Seq(Int) /\ Len(w) = NumBytes /\ w # <<>>
<1>1. NumBytes \in Nat /\ NumBytes > 0
  BY BridgeAssumption
<1>2. w \in Seq(Int)
  BY <1>1, SeqDef DEF WordSet
<1>3. Len(w) \in Nat /\ DOMAIN w = 1 .. Len(w) /\ DOMAIN w = 1 .. NumBytes
  BY <1>2, LenProperties DEF WordSet
<1>4. Len(w) = NumBytes
  <2>1. PICK n \in Nat : n = Len(w) /\ 1 .. n = 1 .. NumBytes
    BY <1>3
  <2>2. NumBytes \in 1 .. n /\ (n > 0 => n \in 1 .. NumBytes)
    BY <1>1, <2>1
  <2>3. n = NumBytes
    BY <1>1, <2>2
  <2> QED BY <2>1, <2>3
<1> QED BY <1>1, <1>2, <1>4, EmptySeq

LEMMA ShiftedWord ==
    ASSUME NEW w \in WordSet, NEW byte \in Int
    PROVE  LET t == Append(Tail(w), byte)
           IN  /\ t \in WordSet /\ t[NumBytes] = byte
               /\ \A k \in 1 .. NumBytes - 1 : t[k] = w[k + 1]
<1> DEFINE t == Append(Tail(w), byte)
<1>1. NumBytes \in Nat /\ NumBytes > 0
  BY BridgeAssumption
<1>2. w \in Seq(Int) /\ Len(w) = NumBytes /\ w # <<>>
  BY WordSeq
<1>3. /\ Tail(w) \in Seq(Int) /\ Len(Tail(w)) = NumBytes - 1
      /\ \A k \in 1 .. NumBytes - 1 : Tail(w)[k] = w[k + 1]
  BY <1>2, HeadTailProperties
<1>4. /\ t \in Seq(Int) /\ Len(t) = NumBytes /\ t[NumBytes] = byte
      /\ \A k \in 1 .. NumBytes - 1 : t[k] = Tail(w)[k]
  BY <1>1, <1>3
<1>5. t \in [1 .. NumBytes -> Int]
  BY <1>4, LenProperties
<1> QED BY <1>3, <1>4, <1>5 DEF WordSet

LEMMA ZerosWord == Zeros \in WordSet
  BY DEF Zeros, WordSet

LEMMA IndexRange ==
    ASSUME NEW a \in Int
    PROVE  /\ index(a) \in 0 .. 2 * NumRw - 1
           /\ index(a) \notin RwIndex => index(a) - NumRw \in RwIndex
<1>1. NumRw \in Nat /\ NumRw > 0 /\ 2 * NumRw \in Nat /\ 2 * NumRw > 0
  BY CsrAssumption
<1>2. \A k \in Nat : k > 0 => a % k \in 0 .. k - 1
  OBVIOUS
<1>3. index(a) \in 0 .. 2 * NumRw - 1
  BY <1>1, <1>2 DEF index
<1> QED BY <1>1, <1>3 DEF RwIndex

LEMMA ShownWord ==
    ASSUME NEW a \in Int, NEW regs \in [RwIndex -> WordSet], NEW upper \in [RwIndex -> WordSet]
    PROVE  Shown(index(a), regs, upper) \in WordSet
  BY IndexRange DEF Shown
-----------------------------------------------------------------------------
(* One clock edge of the bridge and of the file.                           *)

LEMMA BridgeByState ==
    ASSUME m \in BridgeSet, NEW rx, NEW tx_ready
    PROVE  /\ m.state = "GET_CMD"  => BridgeClocked(m, s, rx, tx_ready) = GetCmd(m, rx)
           /\ m.state = "GET_ADDR" => BridgeClocked(m, s, rx, tx_ready) = GetAddr(m, rx)
           /\ m.state = "GET_DATA" => BridgeClocked(m, s, rx, tx_ready) = GetData(m, rx)
           /\ m.state = "DO_WRITE" => BridgeClocked(m, s, rx, tx_ready) = DoWrite(m, s)
           /\ m.state = "DO_READ"  => BridgeClocked(m, s, rx, tx_ready) = DoRead(m, s)
           /\ m.state = "SEND"     => BridgeClocked(m, s, rx, tx_ready) = Send(m, tx_ready)
           /\ m.state \in {"GET_CMD", "GET_ADDR", "GET_DATA", "DO_WRITE", "DO_READ", "SEND"}
  BY DEF BridgeClocked, BridgeSet

LEMMA BridgeUpdate ==
    ASSUME NEW t \in BridgeSet
    PROVE  /\ \A x \in BOOLEAN : /\ [t EXCEPT !.awvalid = x] \in BridgeSet
                                 /\ [t EXCEPT !.wvalid = x] \in BridgeSet
                                 /\ [t EXCEPT !.arvalid = x] \in BridgeSet
                                 /\ [t EXCEPT !.tx_valid = x] \in BridgeSet
                                 /\ [t EXCEPT !.is_read = x] \in BridgeSet
           /\ \A x \in Int : /\ [t EXCEPT !.tx_byte = x] \in BridgeSet
                             /\ [t EXCEPT !.count = x] \in BridgeSet
                             /\ [t EXCEPT !.send_len = x] \in BridgeSet
                             /\ [t EXCEPT !.addr = x] \in BridgeSet
           /\ \A x \in WordSet : [t EXCEPT !.shift = x] \in BridgeSet
           /\ \A x \in {"GET_CMD", "GET_ADDR", "GET_DATA", "DO_WRITE", "DO_READ", "SEND"} :
                 [t EXCEPT !.state = x] \in BridgeSet
           /\ t.shift \in WordSet /\ t.count \in Int
<1>1. ASSUME NEW x \in BOOLEAN
      PROVE  /\ [t EXCEPT !.awvalid = x] \in BridgeSet
             /\ [t EXCEPT !.wvalid = x] \in BridgeSet
             /\ [t EXCEPT !.arvalid = x] \in BridgeSet
             /\ [t EXCEPT !.tx_valid = x] \in BridgeSet
             /\ [t EXCEPT !.is_read = x] \in BridgeSet
  BY DEF BridgeSet
<1>2. ASSUME NEW x \in Int
      PROVE  /\ [t EXCEPT !.tx_byte = x] \in BridgeSet
             /\ [t EXCEPT !.count = x] \in BridgeSet
             /\ [t EXCEPT !.send_len = x] \in BridgeSet
             /\ [t EXCEPT !.addr = x] \in BridgeSet
  BY DEF BridgeSet
<1>3. ASSUME NEW x \in WordSet PROVE [t EXCEPT !.shift = x] \in BridgeSet
  BY DEF BridgeSet
<1>4. ASSUME NEW x \in {"GET_CMD", "GET_ADDR", "GET_DATA", "DO_WRITE", "DO_READ", "SEND"}
      PROVE  [t EXCEPT !.state = x] \in BridgeSet
  BY DEF BridgeSet
<1>5. t.shift \in WordSet /\ t.count \in Int
  BY DEF BridgeSet
<1> QED BY <1>1, <1>2, <1>3, <1>4, <1>5

LEMMA BridgeTypes ==
    ASSUME m \in BridgeSet, s \in FileSet, NEW rx \in SUBSET Int, NEW tx_ready \in BOOLEAN
    PROVE  BridgeClocked(m, s, rx, tx_ready) \in BridgeSet
<1>1. NumBytes \in Int /\ CmdRead \in Int /\ CmdWrite \in Int /\ WriteAck \in Int
  BY BridgeAssumption
<1>2. m.shift \in WordSet /\ m.count + 1 \in Int /\ s.rdata \in WordSet
  BY DEF FileSet, BridgeSet
<1>3. rx # {} => (CHOOSE byte \in rx : TRUE) \in Int
  OBVIOUS
<1>4. rx # {} => Shifted(m, CHOOSE byte \in rx : TRUE) \in WordSet
  BY <1>2, <1>3, ShiftedWord DEF Shifted
<1>5. Shifted(m, 0) \in WordSet
  BY <1>2, ShiftedWord DEF Shifted
<1>6. Head(m.shift) \in Int
  BY <1>2, WordSeq, HeadTailProperties
<1>7. [Zeros EXCEPT ![1] = WriteAck] \in WordSet
  BY <1>1, ZerosWord DEF WordSet
<1> DEFINE St == {"GET_CMD", "GET_ADDR", "GET_DATA", "DO_WRITE", "DO_READ", "SEND"}
<1>8. GetCmd(m, rx) \in BridgeSet
  <2> DEFINE read == CmdRead \in rx
  <2>1. read \in BOOLEAN
    OBVIOUS
  <2>2. GetCmd(m, rx) = IF rx \cap {CmdRead, CmdWrite} = {} THEN [m EXCEPT !.count = 0]
                        ELSE [[[m EXCEPT !.count = 0] EXCEPT !.is_read = read]
                                EXCEPT !.state = "GET_ADDR"]
    BY DEF GetCmd
  <2> HIDE DEF read
  <2>3. [m EXCEPT !.count = 0] \in BridgeSet
    BY DEF BridgeSet
  <2>4. [[m EXCEPT !.count = 0] EXCEPT !.is_read = read] \in BridgeSet
    BY <2>1, <2>3, BridgeUpdate
  <2>5. [[[m EXCEPT !.count = 0] EXCEPT !.is_read = read] EXCEPT !.state = "GET_ADDR"] \in BridgeSet
    BY <2>4, BridgeUpdate
  <2> QED BY <2>2, <2>3, <2>5
<1>9. GetAddr(m, rx) \in BridgeSet
  BY <1>3 DEF BridgeSet, GetAddr
<1>10. GetData(m, rx) \in BridgeSet
  <2> DEFINE full == m.count = NumBytes - 1
             word == Shifted(m, CHOOSE byte \in rx : TRUE)
             next == IF full THEN "DO_WRITE" ELSE "GET_DATA"
             m1   == [[m EXCEPT !.shift = word] EXCEPT !.count = m.count + 1]
             m2   == [[m1 EXCEPT !.awvalid = full] EXCEPT !.wvalid = full]
  <2>1. full \in BOOLEAN /\ next \in St
    OBVIOUS
  <2>2. GetData(m, rx) = IF rx = {} THEN m ELSE [m2 EXCEPT !.state = next]
    BY DEF GetData
  <2> HIDE DEF full, word, next
  <2>3. rx # {} => m1 \in BridgeSet
    BY <1>2, <1>4, BridgeUpdate DEF word
  <2> HIDE DEF m1
  <2>4. rx # {} => m2 \in BridgeSet
    BY <2>1, <2>3, BridgeUpdate
  <2> HIDE DEF m2
  <2> QED BY <2>1, <2>2, <2>4, BridgeUpdate
<1>11. ASSUME NEW t \in BridgeSet, NEW w \in WordSet, NEW n \in Int
       PROVE  [t EXCEPT !.shift = w, !.send_len = n, !.count = 0, !.state = "SEND"] \in BridgeSet
  <2> DEFINE t1 == [[t EXCEPT !.shift = w] EXCEPT !.send_len = n]
             t2 == [t1 EXCEPT !.count = 0]
  <2>1. [t EXCEPT !.shift = w, !.send_len = n, !.count = 0, !.state = "SEND"]
          = [t2 EXCEPT !.state = "SEND"]
    OBVIOUS
  <2>2. t1 \in BridgeSet
    BY BridgeUpdate
  <2> HIDE DEF t1
  <2>3. t2 \in BridgeSet
    BY <2>2 DEF BridgeSet
  <2> HIDE DEF t2
  <2> QED BY <2>1, <2>3, BridgeUpdate
<1>12. DoWrite(m, s) \in BridgeSet
  <2> DEFINE aw == m.awvalid /\ ~s.awready
             w  == m.wvalid /\ ~s.wready
             taken == [[m EXCEPT !.awvalid = aw] EXCEPT !.wvalid = w]
  <2>1. aw \in BOOLEAN /\ w \in BOOLEAN
    OBVIOUS
  <2>2. DoWrite(m, s) = IF s.bvalid
        THEN [taken EXCEPT !.shift = [Zeros EXCEPT ![1] = WriteAck],
                           !.send_len = 1, !.count = 0, !.state = "SEND"]
        ELSE taken
    BY DEF DoWrite
  <2> HIDE DEF aw, w
  <2>3. taken \in BridgeSet
    BY <2>1, BridgeUpdate
  <2> HIDE DEF taken
  <2>4. [taken EXCEPT !.shift = [Zeros EXCEPT ![1] = WriteAck],
                      !.send_len = 1, !.count = 0, !.state = "SEND"] \in BridgeSet
    <3> DEFINE ack == [Zeros EXCEPT ![1] = WriteAck]
    <3>1. ack \in WordSet /\ 1 \in Int
      BY <1>7
    <3> HIDE DEF ack
    <3>2. [taken EXCEPT !.shift = ack, !.send_len = 1, !.count = 0, !.state = "SEND"] \in BridgeSet
      BY <1>11, <2>3, <3>1
    <3> QED BY <3>2 DEF ack
  <2> QED BY <2>2, <2>3, <2>4
<1>13. DoRead(m, s) \in BridgeSet
  <2> DEFINE ar == m.arvalid /\ ~s.arready
             taken == [m EXCEPT !.arvalid = ar]
  <2>1. ar \in BOOLEAN
    OBVIOUS
  <2>2. DoRead(m, s) = IF s.rvalid
        THEN [taken EXCEPT !.shift = s.rdata,
                           !.send_len = NumBytes, !.count = 0, !.state = "SEND"]
        ELSE taken
    BY DEF DoRead
  <2> HIDE DEF ar
  <2>3. taken \in BridgeSet
    BY <2>1, BridgeUpdate
  <2> HIDE DEF taken
  <2>4. [taken EXCEPT !.shift = s.rdata,
                      !.send_len = NumBytes, !.count = 0, !.state = "SEND"] \in BridgeSet
    BY <1>1, <1>2, <1>11, <2>3
  <2> QED BY <2>2, <2>3, <2>4
<1>14. Send(m, tx_ready) \in BridgeSet
  <2> DEFINE next == IF m.count = m.send_len - 1 THEN "GET_CMD" ELSE "SEND"
             word == Shifted(m, 0)
             m1 == [[m EXCEPT !.tx_valid = TRUE] EXCEPT !.tx_byte = Head(m.shift)]
             m2 == [[m EXCEPT !.tx_valid = FALSE] EXCEPT !.shift = word]
             m3 == [[m2 EXCEPT !.count = m.count + 1] EXCEPT !.state = next]
  <2>1. next \in St
    OBVIOUS
  <2>2. Send(m, tx_ready) = IF ~tx_ready THEN m ELSE IF ~m.tx_valid THEN m1 ELSE m3
    BY DEF Send
  <2> HIDE DEF next, word
  <2>3. m1 \in BridgeSet
    BY <1>6, BridgeUpdate
  <2>4. m2 \in BridgeSet
    BY <1>5, BridgeUpdate DEF word
  <2> HIDE DEF m1, m2
  <2>5. m3 \in BridgeSet
    BY <1>2, <2>1, <2>4, BridgeUpdate
  <2> HIDE DEF m3
  <2> QED BY <2>2, <2>3, <2>5
<1> QED BY <1>8, <1>9, <1>10, <1>12, <1>13, <1>14, BridgeByState

(* The registers of the bridge after an edge, by the state it was in.      *)

LEMMA CmdEdge ==
    ASSUME m \in BridgeSet, NEW rx, m' = GetCmd(m, rx)
    PROVE  /\ m'.state = IF rx \cap {CmdRead, CmdWrite} = {} THEN m.state ELSE "GET_ADDR"
           /\ rx \cap {CmdRead, CmdWrite} # {} => (m'.is_read <=> CmdRead \in rx)
           /\ m'.count = 0 /\ m'.tx_valid = m.tx_valid /\ m'.shift = m.shift
           /\ m'.awvalid = m.awvalid /\ m'.wvalid = m.wvalid /\ m'.arvalid = m.arvalid
  BY DEF BridgeSet, GetCmd

LEMMA AddrEdge ==
    ASSUME m \in BridgeSet, NEW rx, m' = GetAddr(m, rx)
    PROVE  /\ m'.awvalid = m.awvalid /\ m'.wvalid = m.wvalid /\ m'.tx_valid = m.tx_valid
           /\ m'.shift = m.shift /\ m'.count = m.count
           /\ rx = {} => m' = m
           /\ rx # {} => /\ m'.state = IF m.is_read THEN "DO_READ" ELSE "GET_DATA"
                         /\ m'.arvalid = m.is_read
                         /\ m'.addr = CHOOSE byte \in rx : TRUE
  BY DEF BridgeSet, GetAddr

LEMMA DataEdge ==
    ASSUME m \in BridgeSet, NEW rx, m' = GetData(m, rx)
    PROVE  /\ m'.arvalid = m.arvalid /\ m'.tx_valid = m.tx_valid /\ m'.addr = m.addr
           /\ rx = {} => m' = m
           /\ rx # {} => /\ m'.state = IF m.count = NumBytes - 1 THEN "DO_WRITE" ELSE "GET_DATA"
                         /\ m'.awvalid <=> m.count = NumBytes - 1
                         /\ m'.wvalid <=> m.count = NumBytes - 1
                         /\ m'.count = m.count + 1
                         /\ m'.shift = Shifted(m, CHOOSE byte \in rx : TRUE)
  BY DEF BridgeSet, GetData

LEMMA WriteEdge ==
    ASSUME m \in BridgeSet, m' = DoWrite(m, s)
    PROVE  /\ m'.awvalid <=> m.awvalid /\ ~s.awready
           /\ m'.wvalid <=> m.wvalid /\ ~s.wready
           /\ m'.arvalid = m.arvalid /\ m'.tx_valid = m.tx_valid /\ m'.addr = m.addr
           /\ m'.state = IF s.bvalid THEN "SEND" ELSE m.state
           /\ m'.shift = IF s.bvalid THEN [Zeros EXCEPT ![1] = WriteAck] ELSE m.shift
           /\ s.bvalid => m'.send_len = 1 /\ m'.count = 0
  BY DEF BridgeSet, DoWrite

LEMMA ReadEdge ==
    ASSUME m \in BridgeSet, m' = DoRead(m, s)
    PROVE  /\ m'.arvalid <=> m.arvalid /\ ~s.arready
           /\ m'.awvalid = m.awvalid /\ m'.wvalid = m.wvalid
           /\ m'.tx_valid = m.tx_valid /\ m'.addr = m.addr
           /\ m'.state = IF s.rvalid THEN "SEND" ELSE m.state
           /\ s.rvalid => m'.shift = s.rdata /\ m'.send_len = NumBytes /\ m'.count = 0
  BY DEF BridgeSet, DoRead

LEMMA SendEdge ==
    ASSUME m \in BridgeSet, NEW tx_ready \in BOOLEAN, m' = Send(m, tx_ready)
    PROVE  /\ m'.awvalid = m.awvalid /\ m'.wvalid = m.wvalid /\ m'.arvalid = m.arvalid
           /\ m'.send_len = m.send_len
           /\ ~tx_ready => m' = m
           /\ tx_ready /\ ~m.tx_valid =>
                /\ m'.state = m.state /\ m'.tx_valid /\ m'.tx_byte = Head(m.shift)
                /\ m'.shift = m.shift /\ m'.count = m.count
           /\ tx_ready /\ m.tx_valid =>
                /\ m'.state = IF m.count = m.send_len - 1 THEN "GET_CMD" ELSE "SEND"
                /\ ~m'.tx_valid /\ m'.shift = Shifted(m, 0) /\ m'.count = m.count + 1
  BY DEF BridgeSet, Send

LEMMA FileTypes ==
    ASSUME m \in BridgeSet, s \in FileSet, status \in [RwIndex -> WordSet]
    PROVE  CsrClocked(s, m, status) \in FileSet
<1>1. regsNext(s, m) \in [RwIndex -> WordSet]
  BY DEF regsNext, BridgeSet, FileSet
<1>2. m.addr \in Int
  BY DEF BridgeSet
<1>3. index(m.addr) \notin RwIndex => status[index(m.addr) - NumRw] \in WordSet
  BY <1>2, IndexRange
<1>4. index(m.addr) \in RwIndex => s.regs[index(m.addr)] \in WordSet
  BY DEF FileSet
<1>5. wr_xfer(s, m) \in BOOLEAN /\ rd_xfer(s, m) \in BOOLEAN
  BY DEF wr_xfer, rd_xfer, FileSet, BridgeSet
<1> HIDE DEF wr_xfer, rd_xfer
<1> QED BY <1>1, <1>3, <1>4, <1>5 DEF FileSet, BridgeSet, CsrClocked, rdataNext

LEMMA WordsAreWords == Word \subseteq WordSet
  BY HostAssumption DEF WordSet

LEMMA TickTypes ==
    ASSUME TInv, NEW comes \in BOOLEAN, NEW arrives \in BOOLEAN,
           NEW upper \in [RwIndex -> Word], Tick(comes, arrives, upper)
    PROVE  TInv'
<1> DEFINE rx == IF comes /\ toBoard # <<>> THEN {Head(toBoard)} ELSE {}
           tx_ready == sending = <<>>
<1>1. rx \in SUBSET Int /\ tx_ready \in BOOLEAN
  BY HeadTailProperties DEF TInv
<1>2. /\ m' = BridgeClocked(m, s, rx, tx_ready) /\ s' = CsrClocked(s, m, status)
      /\ status' = upper /\ UNCHANGED <<h, clean>>
      /\ toBoard' = IF comes THEN Tail(toBoard) ELSE toBoard
      /\ comes => toBoard # <<>>
      /\ sending' = IF arrives THEN <<>>
                      ELSE IF m.tx_valid /\ tx_ready THEN <<m.tx_byte>> ELSE sending
      /\ inbox' = inbox \o (IF arrives THEN sending ELSE <<>>)
      /\ seen' = IF h.doing = "read" THEN seen \cup {Shown(index(h.addr), s'.regs, upper)}
                   ELSE {}
  BY DEF Tick
<1> HIDE DEF rx, tx_ready
<1>3. m' \in BridgeSet
  BY <1>1, <1>2, BridgeTypes DEF TInv
<1>4. s' \in FileSet /\ status' \in [RwIndex -> WordSet]
  BY <1>2, FileTypes, WordsAreWords DEF TInv
<1>5. toBoard' \in Seq(Int)
  BY <1>2, HeadTailProperties DEF TInv
<1>6. sending' \in Seq(Int)
  <2>1. m.tx_byte \in Int
    BY DEF TInv, BridgeSet
  <2>2. <<>> \in Seq(Int) /\ <<m.tx_byte>> \in Seq(Int)
    BY <2>1, EmptySeq
  <2> QED BY <1>2, <2>2 DEF TInv
<1>7. inbox' \in Seq(Int)
  <2>1. (IF arrives THEN sending ELSE <<>>) \in Seq(Int)
    BY EmptySeq DEF TInv
  <2> QED BY <1>2, <2>1, ConcatProperties DEF TInv
<1>8. seen' \subseteq WordSet
  <2>1. s'.regs \in [RwIndex -> WordSet] /\ h.addr \in Int /\ upper \in [RwIndex -> WordSet]
    BY <1>2, <1>4 DEF FileSet, HostSet, TInv
  <2>2. Shown(index(h.addr), s'.regs, upper) \in WordSet
    BY <2>1, ShownWord
  <2> QED BY <1>2, <2>2 DEF TInv
<1> QED BY <1>2, <1>3, <1>4, <1>5, <1>6, <1>7, <1>8 DEF TInv

LEMMA IdleTypes == Idle \in HostSet /\ Gone \in HostSet
                   /\ Idle.doing = "idle" /\ Gone.doing = "gone"
  BY ZerosWord DEF Idle, Gone, HostSet

\* A command is a sequence of bytes: its letter, its address, its word.
LEMMA CommandBytes ==
    ASSUME NEW x \in Int, NEW a \in Int, NEW w \in Seq(Int)
    PROVE  /\ <<x, a>> = <<x>> \o (<<a>> \o <<>>)
           /\ <<x, a>> \o w = <<x>> \o (<<a>> \o w)
           /\ <<x, a>> \in Seq(Int) /\ <<x, a>> \o w \in Seq(Int)
<1>1. <<x>> \in Seq(Int) /\ <<a>> \in Seq(Int) /\ Len(<<x>>) = 1 /\ Len(<<a>>) = 1
  OBVIOUS
<1>2. <<x, a>> \in Seq(Int) /\ Len(<<x, a>>) = 2
  OBVIOUS
<1>3. <<x>> \o <<a>> = <<x, a>>
  <2>1. /\ <<x>> \o <<a>> \in Seq(Int) /\ Len(<<x>> \o <<a>>) = 2
        /\ \A i \in 1 .. 2 : (<<x>> \o <<a>>)[i] = IF i <= 1 THEN <<x>>[i] ELSE <<a>>[i - 1]
    BY <1>1, ConcatProperties
  <2>2. \A i \in 1 .. 2 : (<<x>> \o <<a>>)[i] = <<x, a>>[i]
    BY <2>1
  <2> QED BY <1>2, <2>1, <2>2, SeqEqual
<1>4. <<a>> \o <<>> = <<a>>
  BY <1>1, ConcatEmptySeq
<1>5. (<<x>> \o <<a>>) \o w = <<x>> \o (<<a>> \o w)
  BY <1>1, ConcatAssociative
<1>6. <<x, a>> \o w \in Seq(Int)
  BY <1>2, ConcatProperties
<1> QED BY <1>2, <1>3, <1>4, <1>5, <1>6

LEMMA IssueTypes ==
    ASSUME TInv, NEW doing \in {"read", "write"}, NEW addr \in Address, NEW word \in WordSet,
           NEW bytes \in Seq(Int), Issue(doing, addr, word, bytes)
    PROVE  TInv'
<1>1. addr \in Int
  BY HostAssumption
<1>2. h' \in HostSet
  BY <1>1 DEF Issue, HostSet
<1>3. toBoard' \in Seq(Int) /\ inbox' \in Seq(Int)
  BY ConcatProperties, EmptySeq DEF Issue, TInv
<1>4. seen' \subseteq WordSet
  <2>1. s.regs \in [RwIndex -> WordSet]
    BY DEF TInv, FileSet
  <2>2. Shown(index(addr), s.regs, status) \in WordSet
    BY <1>1, <2>1, ShownWord DEF TInv
  <2> QED BY <2>2 DEF Issue
<1>5. clean' \in BOOLEAN
  BY DEF Issue
<1> QED BY <1>2, <1>3, <1>4, <1>5 DEF Issue, TInv

\* What a host sends: a letter, an address it uses, and the word of a write.
LEMMA Commands ==
    ASSUME NEW addr \in Address
    PROVE  /\ Read(addr) => Issue("read", addr, Zeros, <<CmdRead>> \o (<<addr>> \o <<>>))
           /\ \A word \in Word : Write(addr, word) =>
                 Issue("write", addr, word, <<CmdWrite>> \o (<<addr>> \o word))
           /\ <<CmdRead>> \o (<<addr>> \o <<>>) \in Seq(Int)
           /\ \A word \in Word : <<CmdWrite>> \o (<<addr>> \o word) \in Seq(Int)
<1>1. CmdRead \in Int /\ CmdWrite \in Int /\ addr \in Int
  BY BridgeAssumption, HostAssumption
<1>2. <<CmdRead, addr>> = <<CmdRead>> \o (<<addr>> \o <<>>) /\ <<CmdRead, addr>> \in Seq(Int)
  BY <1>1, CommandBytes, EmptySeq
<1>3. ASSUME NEW word \in Word
      PROVE  /\ <<CmdWrite, addr>> \o word = <<CmdWrite>> \o (<<addr>> \o word)
             /\ <<CmdWrite, addr>> \o word \in Seq(Int)
  BY <1>1, CommandBytes, WordSeq, WordsAreWords
<1> QED BY <1>2, <1>3 DEF Read, Write

LEMMA ResetTypes ==
    /\ ResetBridge \in BridgeSet
    /\ \A regs \in [RwIndex -> WordSet], rdata \in WordSet : ResetCsr(regs, rdata) \in FileSet
<1>1. ResetBridge \in BridgeSet
  BY ZerosWord DEF ResetBridge, BridgeSet
<1>2. ASSUME NEW regs \in [RwIndex -> WordSet], NEW rdata \in WordSet
      PROVE  ResetCsr(regs, rdata) \in FileSet
  BY DEF ResetCsr, FileSet
<1> QED BY <1>1, <1>2

LEMMA TInvInit == Init => TInv
<1> SUFFICES ASSUME Init PROVE TInv
  OBVIOUS
<1>1. [k \in RwIndex |-> Zeros] \in [RwIndex -> WordSet]
  BY ZerosWord
<1>2. s \in FileSet
  BY <1>1, ZerosWord, ResetTypes DEF Init
<1>3. status \in [RwIndex -> WordSet]
  BY WordsAreWords DEF Init
<1>4. <<>> \in Seq(Int)
  BY EmptySeq
<1> QED BY <1>2, <1>3, <1>4, IdleTypes, ResetTypes DEF Init, TInv

LEMMA TInvStep == TInv /\ [Next]_vars => TInv'
<1> SUFFICES ASSUME TInv, [Next]_vars PROVE TInv'
  OBVIOUS
<1>1. CASE Ticks
  BY <1>1, TickTypes DEF Ticks
<1>2. ASSUME NEW addr \in Address, Read(addr) PROVE TInv'
  BY <1>2, Commands, IssueTypes, ZerosWord
<1>3. ASSUME NEW addr \in Address, NEW word \in Word, Write(addr, word) PROVE TInv'
  BY <1>3, Commands, IssueTypes, WordsAreWords
<1>4. CASE Return
  BY <1>4, IdleTypes DEF Return, TInv
<1>5. CASE Timeout
  BY <1>5, IdleTypes DEF Timeout, TInv
<1>6. CASE Restart
  BY <1>6, IdleTypes DEF Restart, TInv
<1>7. CASE Kill
  BY <1>7, IdleTypes, EmptySeq DEF Kill, Fault, TInv
<1>8. CASE Noise
  <2>1. toBoard' \in Seq(Int) /\ sending' \in Seq(Int)
    BY <1>8, HeadTailProperties, EmptySeq DEF Noise, TInv
  <2> QED BY <1>8, <2>1 DEF Noise, Fault, TInv
<1>9. CASE Reset
  <2>1. regsNext(s, m) \in [RwIndex -> WordSet] /\ rdataNext(s, m, status) \in WordSet
    <3>1. CsrClocked(s, m, status) \in FileSet
      BY FileTypes DEF TInv
    <3> QED BY <3>1 DEF FileSet, CsrClocked
  <2>2. m' \in BridgeSet /\ s' \in FileSet /\ sending' \in Seq(Int)
    BY <1>9, <2>1, ResetTypes, EmptySeq DEF Reset, CsrCleared
  <2>3. Shown(index(h.addr), s'.regs, status) \in WordSet
    <3>1. s'.regs \in [RwIndex -> WordSet] /\ h.addr \in Int
      BY <2>2 DEF FileSet, HostSet, TInv
    <3> QED BY <3>1, ShownWord DEF TInv
  <2>4. seen' \subseteq WordSet
    BY <1>9, <2>3 DEF Reset, TInv
  <2> QED BY <1>9, <2>2, <2>4 DEF Reset, Fault, TInv
<1>10. CASE UNCHANGED vars
  BY <1>10 DEF vars, TInv
<1> QED BY <1>1, <1>2, <1>3, <1>4, <1>5, <1>6, <1>7, <1>8, <1>9, <1>10 DEF Next, Host
-----------------------------------------------------------------------------
(* The phases of a command.                                                *)

\* Where the bridge is, the handshakes with the register file stand accordingly.
Quiet == /\ ~m.awvalid /\ ~m.wvalid /\ ~m.arvalid
         /\ ~s.awready /\ ~s.wready /\ ~s.arready /\ ~s.bvalid /\ ~s.rvalid

Writing == /\ ~m.arvalid /\ ~s.arready /\ ~s.rvalid
           /\ m.awvalid <=> m.wvalid
           /\ s.awready <=> s.wready
           /\ s.bvalid <=> ~m.awvalid
           /\ s.bvalid => ~s.awready

Reading == /\ ~m.awvalid /\ ~m.wvalid /\ ~s.awready /\ ~s.wready /\ ~s.bvalid
           /\ s.rvalid <=> ~m.arvalid
           /\ s.rvalid => ~s.arready

Handshake == CASE m.state = "DO_WRITE" -> Writing
               [] m.state = "DO_READ"  -> Reading
               [] OTHER                -> Quiet

\* What the host has got or is about to.
got == inbox \o sending

InForce == index(h.addr) \in RwIndex => s.regs[index(h.addr)] = h.word

\* The command: its letter, its address, its word.
letter == IF h.doing = "read" THEN CmdRead ELSE CmdWrite
data == IF h.doing = "read" THEN <<>> ELSE h.word

\* The command is on its way to the register file.
AwaitsLetter == m.state = "GET_CMD" /\ toBoard = <<letter>> \o (<<h.addr>> \o data)

AwaitsAddr == /\ m.state = "GET_ADDR" /\ toBoard = <<h.addr>> \o data
              /\ m.is_read <=> h.doing = "read"
              /\ m.count = 0

AwaitsData ==
    /\ m.state = "GET_DATA" /\ h.doing = "write" /\ m.addr = h.addr
    /\ m.count \in 0 .. NumBytes - 1 /\ Len(toBoard) = NumBytes - m.count
    /\ \A k \in 1 .. NumBytes - m.count : toBoard[k] = h.word[m.count + k]
    /\ \A k \in 1 .. m.count : m.shift[NumBytes - m.count + k] = h.word[k]

Access ==
    /\ toBoard = <<>> /\ m.addr = h.addr
    /\ \/ m.state = "DO_WRITE" /\ h.doing = "write" /\ m.shift = h.word
          /\ (s.bvalid => InForce)
       \/ m.state = "DO_READ" /\ h.doing = "read" /\ (s.rvalid => s.rdata \in seen)

Asking == got = <<>> /\ (AwaitsLetter \/ AwaitsAddr \/ AwaitsData \/ Access)

\* The answers that are right.
Right == IF h.doing = "read" THEN seen
         ELSE {r \in {<<WriteAck>>} : InForce}

\* The answer r is on its way back, or has left the bridge.
Sending(r) ==
    /\ m.state = "SEND" /\ m.send_len = Len(r) /\ m.count \in 0 .. Len(r) - 1
    /\ Len(got) = m.count /\ \A k \in 1 .. m.count : got[k] = r[k]
    /\ \A k \in 1 .. Len(r) - m.count : m.shift[k] = r[m.count + k]
    /\ m.tx_valid => m.tx_byte = m.shift[1]

Sent(r) == m.state = "GET_CMD" /\ got = r

Answering == toBoard = <<>> /\ \E r \in Right : Sending(r) \/ Sent(r)

\* A command that is not disturbed goes through its phases, and between two commands
\* nothing is left of the first.
Undisturbed ==
    clean => IF h.doing \in {"read", "write"} THEN Asking \/ Answering
             ELSE m.state = "GET_CMD" /\ toBoard = <<>> /\ sending = <<>>

\* What the register shows now has been seen, and only a bridge that sends has a byte
\* to send.
Always == /\ Handshake
          /\ m.tx_valid => m.state = "SEND"
          /\ h.doing = "read" => Shown(index(h.addr), s.regs, status) \in seen

\* The flags of the two ends over an edge, by the state of the bridge.
LEMMA HandshakeStep ==
    ASSUME TInv, Handshake, NEW rx \in SUBSET Int, NEW tx_ready \in BOOLEAN,
           m' = BridgeClocked(m, s, rx, tx_ready), s' = CsrClocked(s, m, status)
    PROVE  Handshake'
<1>1. /\ m \in BridgeSet /\ s \in FileSet
      /\ m.state \in {"GET_CMD", "GET_ADDR", "GET_DATA", "DO_WRITE", "DO_READ", "SEND"}
  BY DEF TInv, BridgeSet
<1>2. /\ s'.awready <=> ~s.awready /\ m.awvalid /\ m.wvalid
      /\ s'.wready <=> ~s.wready /\ m.awvalid /\ m.wvalid
      /\ s'.arready <=> ~s.arready /\ m.arvalid
      /\ s'.bvalid <=> wr_xfer(s, m)
      /\ s'.rvalid <=> rd_xfer(s, m)
  BY DEF CsrClocked
<1>0. m.state \in {"GET_CMD", "GET_ADDR", "GET_DATA", "SEND"} =>
        Quiet /\ ~wr_xfer(s, m) /\ ~rd_xfer(s, m)
  BY DEF Handshake, Quiet, wr_xfer, rd_xfer
<1>3. CASE m.state = "GET_CMD"
  <2>1. m' = GetCmd(m, rx)
    BY <1>1, <1>3, BridgeByState
  <2>2. m'.state \in {"GET_CMD", "GET_ADDR"} /\ ~m'.awvalid /\ ~m'.wvalid /\ ~m'.arvalid
    BY <2>1, <1>0, <1>1, <1>3, CmdEdge DEF Quiet
  <2> QED BY <2>2, <1>0, <1>2, <1>3 DEF Handshake, Quiet
<1>4. CASE m.state = "GET_ADDR"
  <2>1. m' = GetAddr(m, rx)
    BY <1>1, <1>4, BridgeByState
  <2>2. CASE rx = {}
    <3>1. m' = m
      BY <2>1, <2>2, <1>1, AddrEdge
    <3> QED BY <3>1, <1>0, <1>2, <1>4 DEF Handshake, Quiet
  <2>3. CASE rx # {}
    <3>1. /\ m'.state = IF m.is_read THEN "DO_READ" ELSE "GET_DATA"
          /\ m'.arvalid = m.is_read /\ ~m'.awvalid /\ ~m'.wvalid
      BY <2>1, <2>3, <1>0, <1>1, <1>4, AddrEdge DEF Quiet
    <3> QED BY <3>1, <1>0, <1>2, <1>4 DEF Handshake, Quiet, Reading
  <2> QED BY <2>2, <2>3
<1>5. CASE m.state = "GET_DATA"
  <2>1. m' = GetData(m, rx)
    BY <1>1, <1>5, BridgeByState
  <2>2. CASE rx = {}
    <3>1. m' = m
      BY <2>1, <2>2, <1>1, DataEdge
    <3> QED BY <3>1, <1>0, <1>2, <1>5 DEF Handshake, Quiet
  <2>3. CASE rx # {}
    <3>1. /\ m'.state = IF m.count = NumBytes - 1 THEN "DO_WRITE" ELSE "GET_DATA"
          /\ m'.awvalid <=> m.count = NumBytes - 1
          /\ m'.wvalid <=> m.count = NumBytes - 1
          /\ ~m'.arvalid
      BY <2>1, <2>3, <1>0, <1>1, <1>5, DataEdge DEF Quiet
    <3> QED BY <3>1, <1>0, <1>2, <1>5 DEF Handshake, Quiet, Writing
  <2> QED BY <2>2, <2>3
<1>6. CASE m.state = "DO_WRITE"
  <2>1. m' = DoWrite(m, s)
    BY <1>1, <1>6, BridgeByState
  <2>2. /\ m'.awvalid <=> m.awvalid /\ ~s.awready
        /\ m'.wvalid <=> m.wvalid /\ ~s.wready
        /\ m'.arvalid = m.arvalid
        /\ m'.state = IF s.bvalid THEN "SEND" ELSE "DO_WRITE"
    BY <2>1, <1>1, <1>6, WriteEdge
  <2>3. Writing
    BY <1>6 DEF Handshake
  <2> QED BY <2>2, <2>3, <1>2 DEF Handshake, Quiet, Writing, wr_xfer, rd_xfer
<1>7. CASE m.state = "DO_READ"
  <2>1. m' = DoRead(m, s)
    BY <1>1, <1>7, BridgeByState
  <2>2. /\ m'.arvalid <=> m.arvalid /\ ~s.arready
        /\ m'.awvalid = m.awvalid /\ m'.wvalid = m.wvalid
        /\ m'.state = IF s.rvalid THEN "SEND" ELSE "DO_READ"
    BY <2>1, <1>1, <1>7, ReadEdge
  <2>3. Reading
    BY <1>7 DEF Handshake
  <2> QED BY <2>2, <2>3, <1>2 DEF Handshake, Quiet, Reading, wr_xfer, rd_xfer
<1>8. CASE m.state = "SEND"
  <2>1. m' = Send(m, tx_ready)
    BY <1>1, <1>8, BridgeByState
  <2>2. /\ ~m'.awvalid /\ ~m'.wvalid /\ ~m'.arvalid
        /\ m'.state \in {"GET_CMD", "SEND"}
    BY <2>1, <1>0, <1>1, <1>8, SendEdge DEF Quiet
  <2> QED BY <2>2, <1>0, <1>2, <1>8 DEF Handshake, Quiet
<1> QED BY <1>1, <1>3, <1>4, <1>5, <1>6, <1>7, <1>8

\* What an edge does, in one place.
EdgeFacts(comes, arrives, upper, rx) ==
    /\ m' = BridgeClocked(m, s, rx, sending = <<>>)
    /\ s' = CsrClocked(s, m, status) /\ status' = upper
    /\ h' = h /\ clean' = clean
    /\ rx \in SUBSET Int
    /\ IF comes THEN /\ toBoard # <<>> /\ rx = {Head(toBoard)} /\ toBoard' = Tail(toBoard)
                     /\ m.state \notin {"DO_WRITE", "DO_READ"}
                ELSE rx = {} /\ toBoard' = toBoard
    /\ arrives => sending # <<>>
    /\ sending' = IF arrives THEN <<>>
                  ELSE IF m.tx_valid /\ sending = <<>> THEN <<m.tx_byte>> ELSE sending
    /\ inbox' = inbox \o (IF arrives THEN sending ELSE <<>>)
    /\ seen' = IF h.doing = "read" THEN seen \cup {Shown(index(h.addr), s'.regs, upper)}
               ELSE {}

LEMMA TickFacts ==
    ASSUME TInv, NEW comes \in BOOLEAN, NEW arrives \in BOOLEAN,
           NEW upper \in [RwIndex -> Word], Tick(comes, arrives, upper)
    PROVE  \E rx : EdgeFacts(comes, arrives, upper, rx)
<1> DEFINE rx == IF comes /\ toBoard # <<>> THEN {Head(toBoard)} ELSE {}
<1>1. rx \in SUBSET Int
  BY HeadTailProperties DEF TInv
<1>2. /\ comes => toBoard # <<>> /\ rx = {Head(toBoard)} /\ m.state \notin {"DO_WRITE", "DO_READ"}
      /\ ~comes => rx = {}
  BY DEF Tick
<1>3. m' = BridgeClocked(m, s, rx, sending = <<>>)
  BY DEF Tick
<1> HIDE DEF rx
<1>4. EdgeFacts(comes, arrives, upper, rx)
  BY <1>1, <1>2, <1>3 DEF Tick, EdgeFacts
<1> QED BY <1>4

\* A byte the bridge hands over is one the host will get.
LEMMA GotStep ==
    ASSUME TInv, NEW comes, NEW arrives \in BOOLEAN, NEW upper, NEW rx,
           EdgeFacts(comes, arrives, upper, rx)
    PROVE  got' = IF m.tx_valid /\ sending = <<>> THEN got \o <<m.tx_byte>> ELSE got
<1>1. inbox \in Seq(Int) /\ sending \in Seq(Int) /\ got \in Seq(Int)
  BY ConcatProperties DEF TInv, got
<1>2. CASE arrives
  <2>1. sending # <<>> /\ inbox' = got /\ sending' = <<>>
    BY <1>2 DEF EdgeFacts, got
  <2>2. got \o <<>> = got
    BY <1>1, ConcatEmptySeq
  <2> QED BY <2>1, <2>2 DEF got
<1>3. CASE ~arrives
  <2>1. inbox' = inbox \o <<>>
    BY <1>3 DEF EdgeFacts
  <2>2. inbox \o <<>> = inbox
    BY <1>1, ConcatEmptySeq
  <2>3. sending' = IF m.tx_valid /\ sending = <<>> THEN <<m.tx_byte>> ELSE sending
    BY <1>3 DEF EdgeFacts
  <2> QED BY <2>1, <2>2, <2>3 DEF got
<1> QED BY <1>2, <1>3

LEMMA AlwaysTick ==
    ASSUME TInv, Always, NEW comes \in BOOLEAN, NEW arrives \in BOOLEAN, NEW upper, NEW rx,
           EdgeFacts(comes, arrives, upper, rx)
    PROVE  Always'
<1>1. Handshake'
  BY HandshakeStep DEF EdgeFacts, Always
<1>2. m'.tx_valid => m'.state = "SEND"
  <2> DEFINE tx_ready == sending = <<>>
  <2>1. /\ m \in BridgeSet /\ tx_ready \in BOOLEAN
        /\ m' = BridgeClocked(m, s, rx, tx_ready)
    BY DEF TInv, EdgeFacts
  <2> HIDE DEF tx_ready
  <2>2. CASE m.state = "SEND"
    <3>1. m' = Send(m, tx_ready)
      BY <2>1, <2>2, BridgeByState
    <3> QED BY <2>1, <2>2, <3>1, SendEdge
  <2>3. CASE m.state # "SEND"
    <3>1. ~m.tx_valid
      BY <2>3 DEF Always
    <3>2. CASE m.state = "GET_CMD"
      BY <3>1, <3>2, <2>1, BridgeByState, CmdEdge
    <3>3. CASE m.state = "GET_ADDR"
      BY <3>1, <3>3, <2>1, BridgeByState, AddrEdge
    <3>4. CASE m.state = "GET_DATA"
      <4>1. m' = GetData(m, rx)
        BY <3>4, <2>1, BridgeByState
      <4> QED BY <3>1, <2>1, <4>1, DataEdge
    <3>5. CASE m.state = "DO_WRITE"
      BY <3>1, <3>5, <2>1, BridgeByState, WriteEdge
    <3>6. CASE m.state = "DO_READ"
      BY <3>1, <3>6, <2>1, BridgeByState, ReadEdge
    <3> QED BY <2>1, <2>3, <3>2, <3>3, <3>4, <3>5, <3>6, BridgeByState
  <2> QED BY <2>2, <2>3
<1>3. h'.doing = "read" => Shown(index(h'.addr), s'.regs, status') \in seen'
  BY DEF EdgeFacts
<1> QED BY <1>1, <1>2, <1>3 DEF Always, Shown

LEMMA AlwaysStep == TInv /\ Always /\ [Next]_vars => Always'
<1> SUFFICES ASSUME TInv, Always, [Next]_vars PROVE Always'
  OBVIOUS
<1>1. CASE Ticks
  BY <1>1, TickFacts, AlwaysTick DEF Ticks
<1>2. ASSUME m' = m, s' = s,
             h'.doing = "read" => Shown(index(h'.addr), s.regs, status') \in seen'
      PROVE  Always'
  BY <1>2 DEF Always, Handshake, Quiet, Writing, Reading, Shown
<1>3. ASSUME NEW doing \in {"read", "write"}, NEW addr, NEW word, NEW bytes,
             Issue(doing, addr, word, bytes)
      PROVE  Always'
  BY <1>2, <1>3 DEF Issue
<1>4. CASE Return \/ Timeout \/ Restart \/ Kill \/ Noise \/ UNCHANGED vars
  <2>1. m' = m /\ s' = s /\ status' = status /\ seen' = seen
    BY <1>4 DEF Return, Timeout, Restart, Kill, Noise, Fault, vars
  <2>2. h' = h \/ h'.doing # "read"
    BY <1>4, IdleTypes DEF Return, Timeout, Restart, Kill, Noise, vars
  <2> QED BY <1>2, <2>1, <2>2 DEF Always
<1>5. CASE Reset
  <2>1. /\ m' = ResetBridge /\ s' = CsrCleared(s, m, status) /\ h' = h /\ status' = status
        /\ h.doing = "read" => Shown(index(h.addr), s'.regs, status) \in seen'
    BY <1>5 DEF Reset, Fault
  <2>2. Handshake' /\ m'.state = "GET_CMD" /\ ~m'.tx_valid
    BY <2>1 DEF ResetBridge, ResetCsr, CsrCleared, Handshake, Quiet
  <2> QED BY <2>1, <2>2 DEF Always, Shown
<1> QED BY <1>1, <1>3, <1>4, <1>5 DEF Next, Host, Read, Write

LEMMA AlwaysInit == Init => Always
  BY DEF Init, ResetBridge, ResetCsr, Idle, Always, Handshake, Quiet
-----------------------------------------------------------------------------
(* A command that is not disturbed, edge by edge.                          *)

LEMMA ConsProperties ==
    ASSUME NEW x \in Int, NEW q \in Seq(Int)
    PROVE  /\ <<x>> \o q \in Seq(Int) /\ <<x>> \o q # <<>>
           /\ Head(<<x>> \o q) = x /\ Tail(<<x>> \o q) = q
<1>1. <<x>> \in Seq(Int) /\ Len(<<x>>) = 1 /\ Len(q) \in Nat
  BY LenProperties
<1>2. /\ <<x>> \o q \in Seq(Int) /\ Len(<<x>> \o q) = 1 + Len(q)
      /\ \A i \in 1 .. 1 + Len(q) : (<<x>> \o q)[i] = IF i <= 1 THEN <<x>>[i] ELSE q[i - 1]
  BY <1>1, ConcatProperties
<1>3. <<x>> \o q # <<>> /\ (<<x>> \o q)[1] = x
  BY <1>1, <1>2
<1>4. /\ Tail(<<x>> \o q) \in Seq(Int) /\ Len(Tail(<<x>> \o q)) = Len(q)
      /\ \A i \in 1 .. Len(q) : Tail(<<x>> \o q)[i] = (<<x>> \o q)[i + 1]
  BY <1>1, <1>2, <1>3, HeadTailProperties
<1>5. \A i \in 1 .. Len(q) : Tail(<<x>> \o q)[i] = q[i]
  BY <1>1, <1>2, <1>4
<1>6. Tail(<<x>> \o q) = q
  BY <1>4, <1>5, SeqEqual
<1> QED BY <1>2, <1>3, <1>6

Command == h.doing \in {"read", "write"}

LEMMA CommandType ==
    ASSUME TInv
    PROVE  /\ letter \in Int /\ h.addr \in Int /\ data \in Seq(Int)
           /\ h.word \in WordSet
           /\ <<h.addr>> \o data \in Seq(Int)
<1>1. letter \in Int
  BY BridgeAssumption DEF letter
<1>2. h.addr \in Int /\ h.word \in WordSet
  BY DEF TInv, HostSet
<1>3. data \in Seq(Int)
  BY <1>2, WordSeq, EmptySeq DEF data
<1> QED BY <1>1, <1>2, <1>3, ConsProperties

\* What an answer that is right looks like.
LEMMA RightType ==
    ASSUME TInv, NEW r \in Right
    PROVE  /\ r \in Seq(Int) /\ Len(r) \in 1 .. NumBytes
           /\ Len(r) = IF h.doing = "read" THEN NumBytes ELSE 1
<1>1. NumBytes \in Nat /\ NumBytes > 0 /\ WriteAck \in Int
  BY BridgeAssumption
<1>2. CASE h.doing = "read"
  <2>1. r \in WordSet
    BY <1>2 DEF Right, TInv
  <2> QED BY <1>1, <1>2, <2>1, WordSeq
<1>3. CASE h.doing # "read"
  <2>1. r = <<WriteAck>>
    BY <1>3 DEF Right
  <2> QED BY <1>1, <1>3, <2>1
<1> QED BY <1>2, <1>3

\* What was right stays right, unless the file is being written.
LEMMA RightStays ==
    ASSUME TInv, NEW comes, NEW arrives, NEW upper, NEW rx,
           EdgeFacts(comes, arrives, upper, rx), ~wr_xfer(s, m), Command
    PROVE  /\ \A r \in Right : r \in Right'
           /\ s'.regs = s.regs /\ (InForce => InForce') /\ (h.doing = "read" => seen \subseteq seen')
<1>1. s'.regs = s.regs
  BY DEF EdgeFacts, CsrClocked, regsNext
<1>2. h' = h /\ (InForce => InForce')
  BY <1>1 DEF EdgeFacts, InForce
<1>3. h.doing = "read" => seen \subseteq seen'
  BY DEF EdgeFacts
<1> QED BY <1>1, <1>2, <1>3 DEF Right, Command

\* The command comes in.
LEMMA LetterStep ==
    ASSUME TInv, Always, Command, got = <<>>, AwaitsLetter,
           NEW comes \in BOOLEAN, NEW arrives \in BOOLEAN, NEW upper, NEW rx,
           EdgeFacts(comes, arrives, upper, rx)
    PROVE  got' = <<>> /\ (AwaitsLetter' \/ AwaitsAddr')
<1>1. ~m.tx_valid /\ m \in BridgeSet /\ h' = h /\ letter' = letter /\ data' = data
  BY DEF Always, AwaitsLetter, TInv, EdgeFacts, letter, data
<1>2. got' = <<>>
  BY <1>1, GotStep
<1>3. m' = GetCmd(m, rx)
  BY <1>1, BridgeByState DEF EdgeFacts, AwaitsLetter
<1>4. CASE ~comes
  <2>1. rx = {} /\ toBoard' = toBoard
    BY <1>4 DEF EdgeFacts
  <2>2. m'.state = "GET_CMD"
    BY <2>1, <1>1, <1>3, CmdEdge DEF AwaitsLetter
  <2> QED BY <1>1, <1>2, <2>1, <2>2 DEF AwaitsLetter
<1>5. CASE comes
  <2>1. rx = {letter} /\ toBoard' = <<h.addr>> \o data
    BY <1>5, CommandType, ConsProperties DEF EdgeFacts, AwaitsLetter
  <2>2. letter \in {CmdRead, CmdWrite} /\ (CmdRead \in {letter} <=> h.doing = "read")
    BY BridgeAssumption DEF letter
  <2>3. m'.state = "GET_ADDR" /\ (m'.is_read <=> h.doing = "read") /\ m'.count = 0
    BY <2>1, <2>2, <1>1, <1>3, CmdEdge
  <2> QED BY <1>1, <1>2, <2>1, <2>3 DEF AwaitsAddr
<1> QED BY <1>4, <1>5

LEMMA AddrStep ==
    ASSUME TInv, Always, Command, got = <<>>, AwaitsAddr,
           NEW comes \in BOOLEAN, NEW arrives \in BOOLEAN, NEW upper, NEW rx,
           EdgeFacts(comes, arrives, upper, rx)
    PROVE  got' = <<>> /\ (AwaitsAddr' \/ AwaitsData' \/ Access')
<1>1. ~m.tx_valid /\ m \in BridgeSet /\ h' = h /\ letter' = letter /\ data' = data
  BY DEF Always, AwaitsAddr, TInv, EdgeFacts, letter, data
<1>2. got' = <<>>
  BY <1>1, GotStep
<1>3. m' = GetAddr(m, rx)
  BY <1>1, BridgeByState DEF EdgeFacts, AwaitsAddr
<1>4. CASE ~comes
  <2>1. m' = m /\ toBoard' = toBoard
    BY <1>1, <1>3, <1>4, AddrEdge DEF EdgeFacts
  <2> QED BY <1>1, <1>2, <2>1 DEF AwaitsAddr
<1>5. CASE comes
  <2>1. rx = {h.addr} /\ toBoard' = data
    BY <1>5, CommandType, ConsProperties DEF EdgeFacts, AwaitsAddr
  <2>2. (CHOOSE byte \in {h.addr} : TRUE) = h.addr
    OBVIOUS
  <2>3. /\ m'.state = IF m.is_read THEN "DO_READ" ELSE "GET_DATA"
        /\ m'.addr = h.addr /\ m'.count = 0 /\ (m.is_read <=> h.doing = "read")
    <3>1. rx # {} /\ m.count = 0 /\ (m.is_read <=> h.doing = "read")
      BY <2>1 DEF AwaitsAddr
    <3> QED BY <2>1, <2>2, <3>1, <1>1, <1>3, AddrEdge
  <2>4. CASE h.doing = "read"
    <3>1. ~s'.rvalid
      BY DEF EdgeFacts, CsrClocked, rd_xfer, Always, Handshake, Quiet, AwaitsAddr
    <3> QED BY <1>1, <1>2, <2>1, <2>3, <2>4, <3>1 DEF Access, data
  <2>5. CASE h.doing # "read"
    <3>1. toBoard' = h.word /\ h.doing = "write" /\ m'.state = "GET_DATA"
      BY <2>1, <2>3, <2>5 DEF data, Command
    <3>2. h.word \in WordSet /\ Len(h.word) = NumBytes /\ NumBytes \in Nat /\ NumBytes > 0
      BY CommandType, WordSeq, BridgeAssumption
    <3>3. 0 \in 0 .. NumBytes - 1 /\ NumBytes - 0 = NumBytes /\ 1 .. 0 = {}
      BY <3>2
    <3>4. \A k \in 1 .. NumBytes : h.word[k] = h.word[0 + k]
      OBVIOUS
    <3>5. AwaitsData'
      BY <1>1, <2>3, <3>1, <3>2, <3>3, <3>4 DEF AwaitsData
    <3> QED BY <1>2, <3>5
  <2> QED BY <2>4, <2>5
<1> QED BY <1>4, <1>5

LEMMA DataStep ==
    ASSUME TInv, Always, Command, got = <<>>, AwaitsData,
           NEW comes \in BOOLEAN, NEW arrives \in BOOLEAN, NEW upper, NEW rx,
           EdgeFacts(comes, arrives, upper, rx)
    PROVE  got' = <<>> /\ (AwaitsData' \/ Access')
<1>1. ~m.tx_valid /\ m \in BridgeSet /\ h' = h
  BY DEF Always, AwaitsData, TInv, EdgeFacts
<1>2. got' = <<>>
  BY <1>1, GotStep
<1>3. m' = GetData(m, rx)
  BY <1>1, BridgeByState DEF EdgeFacts, AwaitsData
<1>4. CASE ~comes
  <2>1. m' = m /\ toBoard' = toBoard
    BY <1>1, <1>3, <1>4, DataEdge DEF EdgeFacts
  <2> QED BY <1>1, <1>2, <2>1 DEF AwaitsData
<1>5. CASE comes
  <2> DEFINE byte == h.word[m.count + 1]
  <2>0. /\ NumBytes \in Nat /\ NumBytes > 0 /\ m.count \in 0 .. NumBytes - 1
        /\ h.word \in WordSet /\ Len(h.word) = NumBytes
        /\ m.shift \in WordSet /\ toBoard \in Seq(Int) /\ toBoard # <<>>
    <3>1. NumBytes \in Nat /\ NumBytes > 0
      BY BridgeAssumption
    <3>2. h.word \in WordSet /\ Len(h.word) = NumBytes
      BY CommandType, WordSeq
    <3>3. m.shift \in WordSet
      BY <1>1 DEF BridgeSet
    <3>4. m.count \in 0 .. NumBytes - 1 /\ toBoard \in Seq(Int) /\ toBoard # <<>>
      BY <1>5 DEF AwaitsData, TInv, EdgeFacts
    <3> QED BY <3>1, <3>2, <3>3, <3>4
  <2>1. /\ Head(toBoard) = byte /\ byte \in Int
        /\ Tail(toBoard) \in Seq(Int) /\ Len(Tail(toBoard)) = NumBytes - (m.count + 1)
        /\ \A k \in 1 .. NumBytes - (m.count + 1) : Tail(toBoard)[k] = h.word[(m.count + 1) + k]
    <3>1. /\ Len(toBoard) = NumBytes - m.count
          /\ \A k \in 1 .. NumBytes - m.count : toBoard[k] = h.word[m.count + k]
      BY DEF AwaitsData
    <3>2. /\ Tail(toBoard) \in Seq(Int) /\ Len(Tail(toBoard)) = NumBytes - (m.count + 1)
          /\ \A k \in 1 .. NumBytes - (m.count + 1) : Tail(toBoard)[k] = toBoard[k + 1]
      BY <2>0, <3>1, HeadTailProperties
    <3>3. Head(toBoard) = toBoard[1] /\ toBoard[1] = byte
      BY <2>0, <3>1
    <3>4. \A k \in 1 .. NumBytes - (m.count + 1) : toBoard[k + 1] = h.word[(m.count + 1) + k]
      <4> TAKE k \in 1 .. NumBytes - (m.count + 1)
      <4>1. k + 1 \in 1 .. NumBytes - m.count /\ m.count + (k + 1) = (m.count + 1) + k
        BY <2>0
      <4> QED BY <3>1, <4>1
    <3>5. byte \in Int
      BY <2>0 DEF WordSet
    <3> QED BY <3>2, <3>3, <3>4, <3>5
  <2> HIDE DEF byte
  <2>2. /\ rx = {byte} /\ toBoard' = Tail(toBoard)
    BY <1>5, <2>1 DEF EdgeFacts
  <2>3. (CHOOSE b \in {byte} : TRUE) = byte
    OBVIOUS
  <2>4. /\ m'.state = IF m.count = NumBytes - 1 THEN "DO_WRITE" ELSE "GET_DATA"
        /\ m'.count = m.count + 1 /\ m'.addr = m.addr
        /\ m'.shift = Append(Tail(m.shift), byte)
    BY <2>2, <2>3, <1>1, <1>3, DataEdge DEF Shifted
  <2>5. /\ m'.shift \in WordSet /\ m'.shift[NumBytes] = byte
        /\ \A k \in 1 .. NumBytes - 1 : m'.shift[k] = m.shift[k + 1]
    <3> DEFINE t == Append(Tail(m.shift), byte)
    <3>1. t \in WordSet /\ t[NumBytes] = byte /\ \A k \in 1 .. NumBytes - 1 : t[k] = m.shift[k + 1]
      BY <2>0, <2>1, ShiftedWord
    <3>2. m'.shift = t
      BY <2>4
    <3> HIDE DEF t
    <3> QED BY <3>1, <3>2
  <2>6. \A k \in 1 .. m.count + 1 : m'.shift[NumBytes - (m.count + 1) + k] = h.word[k]
    <3> TAKE k \in 1 .. m.count + 1
    <3>1. CASE k = m.count + 1
      <4>1. NumBytes - (m.count + 1) + k = NumBytes
        BY <2>0, <3>1
      <4> QED BY <2>5, <3>1, <4>1 DEF byte
    <3>2. CASE k # m.count + 1
      <4>1. /\ k \in 1 .. m.count
            /\ NumBytes - (m.count + 1) + k \in 1 .. NumBytes - 1
            /\ (NumBytes - (m.count + 1) + k) + 1 = NumBytes - m.count + k
        <5>1. PICK n \in Int, c \in Int : n = NumBytes /\ c = m.count /\ 0 <= c /\ c <= n - 1
          <6>1. NumBytes \in Int /\ m.count \in Int /\ 0 <= m.count /\ m.count <= NumBytes - 1
            BY <2>0
          <6> QED BY <6>1
        <5>2. k \in 1 .. c + 1 /\ k # c + 1
          BY <5>1, <3>2
        <5>3. k \in Int /\ 1 <= k /\ k <= c
          BY <5>2
        <5>4. /\ k \in 1 .. c /\ n - (c + 1) + k \in 1 .. n - 1
              /\ (n - (c + 1) + k) + 1 = n - c + k
          BY <5>1, <5>3
        <5> QED BY <5>1, <5>4
      <4>2. m.shift[NumBytes - m.count + k] = h.word[k]
        BY <4>1 DEF AwaitsData
      <4>3. m'.shift[NumBytes - (m.count + 1) + k] = m.shift[(NumBytes - (m.count + 1) + k) + 1]
        BY <2>5, <4>1
      <4> QED BY <4>1, <4>2, <4>3
    <3> QED BY <3>1, <3>2
  <2>7. CASE m.count # NumBytes - 1
    <3>1. m.count + 1 \in 0 .. NumBytes - 1
      BY <2>0, <2>7
    <3>2. /\ m'.state = "GET_DATA" /\ m'.count = m.count + 1 /\ m'.addr = h'.addr
          /\ h'.doing = "write"
      BY <1>1, <2>4, <2>7 DEF AwaitsData
    <3>3. AwaitsData'
      BY <1>1, <2>1, <2>2, <2>6, <3>1, <3>2 DEF AwaitsData
    <3> QED BY <1>2, <3>3
  <2>8. CASE m.count = NumBytes - 1
    <3>1. toBoard' = <<>>
      <4>1. Len(Tail(toBoard)) = 0
        BY <2>0, <2>1, <2>8
      <4> QED BY <2>1, <2>2, <4>1, EmptySeq
    <3>2. m'.shift = h.word
      <4>1. \A k \in 1 .. NumBytes : m'.shift[k] = h.word[k]
        <5> TAKE k \in 1 .. NumBytes
        <5>1. NumBytes - (m.count + 1) + k = k /\ k \in 1 .. m.count + 1
          BY <2>0, <2>8
        <5> QED BY <2>6, <5>1
      <4> QED BY <2>0, <2>5, <4>1 DEF WordSet
    <3>3. ~s'.bvalid
      BY DEF EdgeFacts, CsrClocked, wr_xfer, Always, Handshake, Quiet, AwaitsData
    <3>4. m'.state = "DO_WRITE" /\ m'.addr = h'.addr /\ h'.doing = "write"
      BY <1>1, <2>4, <2>8 DEF AwaitsData
    <3>5. Access'
      BY <1>1, <3>1, <3>2, <3>3, <3>4 DEF Access
    <3> QED BY <1>2, <3>5
  <2> QED BY <2>7, <2>8
<1> QED BY <1>4, <1>5

\* The register is accessed, and the answer is taken.
LEMMA AccessStep ==
    ASSUME TInv, Always, Command, got = <<>>, Access,
           NEW comes \in BOOLEAN, NEW arrives \in BOOLEAN, NEW upper, NEW rx,
           EdgeFacts(comes, arrives, upper, rx)
    PROVE  (got' = <<>> /\ Access') \/ Answering'
<1>1. ~m.tx_valid /\ m \in BridgeSet /\ h' = h /\ m.addr = h.addr
  BY DEF Always, Access, TInv, EdgeFacts
<1>2. got' = <<>> /\ Len(<<>>) = 0
  BY <1>1, GotStep, EmptySeq
<1>3. ~comes /\ toBoard' = <<>>
  BY DEF EdgeFacts, Access
<1>4. h.doing = "read" => Shown(index(h.addr), s.regs, status) \in seen
  BY DEF Always
<1>5. NumBytes \in Nat /\ NumBytes > 0
  BY BridgeAssumption
<1>6. CASE m.state = "DO_WRITE"
  <2>1. h.doing = "write" /\ m.shift = h.word /\ (s.bvalid => InForce) /\ Writing
    BY <1>6 DEF Access, Always, Handshake
  <2>2. m' = DoWrite(m, s)
    BY <1>1, <1>6, BridgeByState DEF EdgeFacts
  <2>3. CASE ~s.bvalid
    <3>1. m'.state = "DO_WRITE" /\ m'.shift = h.word /\ m'.addr = h.addr
      BY <1>1, <1>6, <2>1, <2>2, <2>3, WriteEdge
    <3>2. s'.bvalid => InForce'
      <4> SUFFICES ASSUME s'.bvalid, index(h.addr) \in RwIndex
                   PROVE  s'.regs[index(h.addr)] = h.word
        BY <1>1 DEF InForce
      <4>1. wr_xfer(s, m)
        BY DEF EdgeFacts, CsrClocked
      <4>2. s'.regs = [s.regs EXCEPT ![index(h.addr)] = h.word]
        BY <4>1, <1>1, <2>1 DEF EdgeFacts, CsrClocked, regsNext
      <4>3. s.regs \in [RwIndex -> WordSet]
        BY DEF TInv, FileSet
      <4> QED BY <4>2, <4>3
    <3> QED BY <1>1, <1>2, <1>3, <2>1, <3>1, <3>2 DEF Access
  <2>4. CASE s.bvalid
    <3> DEFINE r == <<WriteAck>>
    <3>1. /\ m'.state = "SEND" /\ m'.shift = [Zeros EXCEPT ![1] = WriteAck]
          /\ m'.send_len = 1 /\ m'.count = 0 /\ ~m'.tx_valid
      BY <1>1, <1>6, <2>2, <2>4, WriteEdge
    <3>2. m'.shift[1] = WriteAck
      BY <3>1, <1>5 DEF Zeros
    <3>3. ~wr_xfer(s, m)
      BY <2>1, <2>4 DEF Writing, wr_xfer
    <3>4. InForce'
      BY <3>3, <2>1, <2>4, RightStays
    <3>5. r \in Right'
      BY <3>4, <2>1, <1>1 DEF Right
    <3>6. Len(r) = 1 /\ r[1] = WriteAck
      OBVIOUS
    <3> HIDE DEF r
    <3>7. /\ m'.send_len = Len(r) /\ m'.count \in 0 .. Len(r) - 1 /\ Len(got') = m'.count
          /\ \A k \in 1 .. m'.count : got'[k] = r[k]
      BY <1>2, <3>1, <3>6
    <3>8. \A k \in 1 .. Len(r) - m'.count : m'.shift[k] = r[m'.count + k]
      BY <3>1, <3>2, <3>6
    <3>9. Sending(r)'
      BY <3>1, <3>7, <3>8 DEF Sending
    <3> QED BY <1>3, <3>5, <3>9 DEF Answering
  <2> QED BY <2>3, <2>4
<1>7. CASE m.state # "DO_WRITE"
  <2>1. m.state = "DO_READ" /\ h.doing = "read" /\ (s.rvalid => s.rdata \in seen) /\ Reading
    BY <1>7 DEF Access, Always, Handshake
  <2>2. m' = DoRead(m, s)
    BY <1>1, <2>1, BridgeByState DEF EdgeFacts
  <2>3. ~wr_xfer(s, m)
    BY <2>1 DEF Reading, wr_xfer
  <2>4. seen \subseteq seen'
    BY <2>1, <2>3, RightStays
  <2>5. CASE ~s.rvalid
    <3>1. m'.state = "DO_READ" /\ m'.addr = h.addr
      BY <1>1, <2>1, <2>2, <2>5, ReadEdge
    <3>2. s'.rvalid => s'.rdata \in seen'
      <4>1. rd_xfer(s, m) => s'.rdata = Shown(index(m.addr), s.regs, status)
        BY DEF EdgeFacts, CsrClocked, rdataNext, Shown
      <4>2. s'.rvalid <=> rd_xfer(s, m)
        BY DEF EdgeFacts, CsrClocked, rdataNext
      <4> QED BY <4>1, <4>2, <1>1, <1>4, <2>1, <2>4
    <3> QED BY <1>1, <1>2, <1>3, <2>1, <3>1, <3>2 DEF Access
  <2>6. CASE s.rvalid
    <3>0. PICK r : r = s.rdata
      OBVIOUS
    <3>1. /\ m'.state = "SEND" /\ m'.shift = r
          /\ m'.send_len = NumBytes /\ m'.count = 0 /\ ~m'.tx_valid
      BY <1>1, <2>1, <2>2, <2>6, <3>0, ReadEdge
    <3>2. r \in WordSet /\ Len(r) = NumBytes
      <4>1. r \in WordSet
        BY <3>0 DEF TInv, FileSet
      <4> QED BY <4>1, WordSeq
    <3>3. r \in Right'
      BY <1>1, <2>1, <2>4, <2>6, <3>0 DEF Right
    <3>4. /\ m'.send_len = Len(r) /\ m'.count \in 0 .. Len(r) - 1 /\ Len(got') = m'.count
          /\ \A k \in 1 .. m'.count : got'[k] = r[k]
      BY <1>2, <1>5, <3>1, <3>2
    <3>5. \A k \in 1 .. Len(r) - m'.count : m'.shift[k] = r[m'.count + k]
      BY <1>5, <3>1, <3>2
    <3>6. Sending(r)'
      BY <3>1, <3>4, <3>5 DEF Sending
    <3> QED BY <1>3, <3>3, <3>6 DEF Answering
  <2> QED BY <2>5, <2>6
<1> QED BY <1>6, <1>7

\* The answer goes out.
LEMMA SendingStep ==
    ASSUME TInv, Always, Command, NEW r \in Right, Sending(r),
           NEW comes \in BOOLEAN, NEW arrives \in BOOLEAN, NEW upper, NEW rx,
           EdgeFacts(comes, arrives, upper, rx)
    PROVE  Sending(r)' \/ Sent(r)'
<1> DEFINE tx_ready == sending = <<>>
           c == m.count
<1>1. /\ m \in BridgeSet /\ m.state = "SEND" /\ m' = Send(m, tx_ready)
  BY BridgeByState DEF EdgeFacts, TInv, Sending
<1>2. /\ m.send_len = Len(r) /\ c \in 0 .. Len(r) - 1
      /\ Len(got) = c /\ \A k \in 1 .. c : got[k] = r[k]
      /\ \A k \in 1 .. Len(r) - c : m.shift[k] = r[c + k]
      /\ m.tx_valid => m.tx_byte = m.shift[1]
  BY DEF Sending
<1>3. /\ r \in Seq(Int) /\ Len(r) \in 1 .. NumBytes /\ NumBytes \in Nat
      /\ m.shift \in WordSet /\ got \in Seq(Int)
  <2>1. r \in Seq(Int) /\ Len(r) \in 1 .. NumBytes /\ NumBytes \in Nat
    BY RightType, BridgeAssumption
  <2>2. m.shift \in WordSet
    BY <1>1 DEF BridgeSet
  <2>3. got \in Seq(Int)
    BY ConcatProperties DEF got, TInv
  <2> QED BY <2>1, <2>2, <2>3
<1>4. got' = IF m.tx_valid /\ tx_ready THEN got \o <<m.tx_byte>> ELSE got
  BY GotStep
<1>5. tx_ready \in BOOLEAN
  OBVIOUS
<1> HIDE DEF tx_ready, c
<1>6. CASE ~tx_ready
  <2>1. m' = m /\ got' = got
    BY <1>1, <1>4, <1>5, <1>6, SendEdge
  <2> QED BY <2>1, <1>1, <1>2 DEF Sending, c
<1>7. CASE tx_ready /\ ~m.tx_valid
  <2>1. /\ m'.state = "SEND" /\ m'.tx_byte = Head(m.shift) /\ m'.shift = m.shift
        /\ m'.count = m.count /\ m'.send_len = m.send_len /\ got' = got
    BY <1>1, <1>4, <1>5, <1>7, SendEdge
  <2>2. Head(m.shift) = m.shift[1]
    OBVIOUS
  <2> QED BY <2>1, <2>2, <1>2 DEF Sending, c
<1>8. CASE tx_ready /\ m.tx_valid
  <2>1. /\ m'.state = IF c = Len(r) - 1 THEN "GET_CMD" ELSE "SEND"
        /\ ~m'.tx_valid /\ m'.shift = Append(Tail(m.shift), 0) /\ m'.count = c + 1
        /\ m'.send_len = Len(r)
    BY <1>1, <1>2, <1>5, <1>8, SendEdge DEF Shifted, c
  <2>2. PICK n \in Int, l \in Int : /\ n = c /\ l = Len(r) /\ 0 <= n /\ n <= l - 1
                                    /\ l <= NumBytes
    <3>1. c \in Int /\ Len(r) \in Int /\ 0 <= c /\ c <= Len(r) - 1 /\ Len(r) <= NumBytes
      BY <1>2, <1>3
    <3> QED BY <3>1
  <2>3. m.tx_byte = r[n + 1] /\ m.tx_byte \in Int
    <3>1. 1 \in 1 .. l - n /\ n + 1 \in 1 .. l
      BY <2>2
    <3>2. m.shift[1] = r[n + 1]
      BY <3>1, <2>2, <1>2
    <3>3. m.tx_byte \in Int
      BY <1>1 DEF BridgeSet
    <3> QED BY <3>2, <3>3, <1>2, <1>8
  <2>4. /\ got' \in Seq(Int) /\ Len(got') = n + 1
        /\ \A k \in 1 .. n + 1 : got'[k] = r[k]
    <3> DEFINE b == m.tx_byte
    <3>1. got' = got \o <<b>>
      BY <1>4, <1>8
    <3>2. <<b>> \in Seq(Int) /\ Len(<<b>>) = 1 /\ <<b>>[1] = b
      BY <2>3
    <3> HIDE DEF b
    <3>3. /\ got \o <<b>> \in Seq(Int) /\ Len(got \o <<b>>) = n + 1
          /\ \A k \in 1 .. n + 1 : (got \o <<b>>)[k] = IF k <= n THEN got[k] ELSE <<b>>[k - n]
      BY <3>2, <1>2, <1>3, <2>2, ConcatProperties
    <3>4. ASSUME NEW k \in 1 .. n + 1 PROVE (got \o <<b>>)[k] = r[k]
      <4>1. CASE k <= n
        <5>1. k \in 1 .. c
          BY <4>1, <2>2
        <5> QED BY <5>1, <4>1, <3>3, <1>2
      <4>2. CASE ~(k <= n)
        <5>1. k = n + 1 /\ k - n = 1
          BY <4>2, <2>2
        <5> QED BY <5>1, <4>2, <3>2, <3>3, <2>3 DEF b
      <4> QED BY <4>1, <4>2
    <3> QED BY <3>1, <3>3, <3>4
  <2>5. CASE n = l - 1
    <3>1. got' = r
      <4>1. Len(got') = Len(r) /\ \A k \in 1 .. Len(got') : got'[k] = r[k]
        BY <2>2, <2>4, <2>5
      <4> QED BY <4>1, <1>3, <2>4, SeqEqual
    <3> QED BY <3>1, <2>1, <2>2, <2>5 DEF Sent
  <2>6. CASE n # l - 1
    <3>1. /\ m'.state = "SEND" /\ m'.send_len = Len(r) /\ ~m'.tx_valid
          /\ m'.count = n + 1 /\ n + 1 \in 0 .. Len(r) - 1
      BY <2>1, <2>2, <2>6
    <3>2. ASSUME NEW k \in 1 .. Len(r) - (n + 1) PROVE m'.shift[k] = r[(n + 1) + k]
      <4>1. /\ k \in 1 .. NumBytes - 1 /\ k + 1 \in 1 .. Len(r) - c
            /\ c + (k + 1) = (n + 1) + k
        <5>1. k \in Int /\ 1 <= k /\ k <= l - (n + 1)
          BY <2>2
        <5> QED BY <5>1, <2>2, <1>3
      <4>2. m'.shift[k] = m.shift[k + 1]
        <5>1. PICK b \in Int : b = 0
          OBVIOUS
        <5> DEFINE t == Append(Tail(m.shift), b)
        <5>2. \A j \in 1 .. NumBytes - 1 : t[j] = m.shift[j + 1]
          BY <1>3, ShiftedWord
        <5>3. m'.shift = t
          BY <5>1, <2>1
        <5> HIDE DEF t
        <5> QED BY <4>1, <5>2, <5>3
      <4>3. m.shift[k + 1] = r[c + (k + 1)]
        BY <4>1, <1>2
      <4> QED BY <4>1, <4>2, <4>3
    <3> QED BY <3>1, <3>2, <2>4 DEF Sending
  <2> QED BY <2>5, <2>6
<1> QED BY <1>6, <1>7, <1>8

\* A bridge with nothing to do does nothing.
LEMMA RestStep ==
    ASSUME TInv, Always, m.state = "GET_CMD", toBoard = <<>>,
           NEW comes \in BOOLEAN, NEW arrives \in BOOLEAN, NEW upper, NEW rx,
           EdgeFacts(comes, arrives, upper, rx)
    PROVE  /\ m'.state = "GET_CMD" /\ toBoard' = <<>> /\ got' = got
           /\ sending = <<>> => sending' = <<>>
<1>1. ~m.tx_valid /\ m \in BridgeSet /\ rx = {} /\ toBoard' = <<>>
  BY DEF Always, TInv, EdgeFacts
<1>2. m' = GetCmd(m, rx)
  BY <1>1, BridgeByState DEF EdgeFacts
<1>3. m'.state = "GET_CMD"
  BY <1>1, <1>2, CmdEdge
<1>4. got' = got
  BY <1>1, GotStep
<1>5. sending = <<>> => sending' = <<>>
  BY <1>1 DEF EdgeFacts
<1> QED BY <1>1, <1>3, <1>4, <1>5

LEMMA NotWriting ==
    ASSUME Always, m.state \notin {"DO_WRITE"}
    PROVE  ~wr_xfer(s, m)
  BY DEF Always, Handshake, Quiet, Reading, wr_xfer

LEMMA UndisturbedTick ==
    ASSUME TInv, Always, Undisturbed, clean,
           NEW comes \in BOOLEAN, NEW arrives \in BOOLEAN, NEW upper, NEW rx,
           EdgeFacts(comes, arrives, upper, rx)
    PROVE  Undisturbed'
<1>1. h' = h
  BY DEF EdgeFacts
<1>2. CASE ~Command
  BY <1>1, <1>2, RestStep DEF Undisturbed, Command
<1>3. CASE Command
  <2> SUFFICES Asking' \/ Answering'
    BY <1>1, <1>3 DEF Undisturbed, Command
  <2>1. CASE Asking
    BY <2>1, <1>3, LetterStep, AddrStep, DataStep, AccessStep DEF Asking
  <2>2. ASSUME toBoard = <<>>, NEW r \in Right, Sending(r) PROVE Answering'
    <3>1. Sending(r)' \/ Sent(r)'
      BY <2>2, <1>3, SendingStep
    <3>2. m.state = "SEND"
      BY <2>2 DEF Sending
    <3>3. r \in Right'
      BY <3>2, <1>3, NotWriting, RightStays
    <3>4. toBoard' = <<>>
      BY <2>2 DEF EdgeFacts
    <3> QED BY <3>1, <3>3, <3>4 DEF Answering
  <2>3. ASSUME toBoard = <<>>, NEW r \in Right, Sent(r) PROVE Answering'
    <3>1. m'.state = "GET_CMD" /\ toBoard' = <<>> /\ got' = got /\ m.state = "GET_CMD"
      BY <2>3, RestStep DEF Sent
    <3>2. r \in Right'
      BY <3>1, <1>3, NotWriting, RightStays
    <3>3. Sent(r)'
      BY <2>3, <3>1 DEF Sent
    <3> QED BY <3>1, <3>2, <3>3 DEF Answering
  <2>4. Asking \/ Answering
    BY <1>3 DEF Undisturbed, Command
  <2> QED BY <2>1, <2>2, <2>3, <2>4 DEF Answering
<1> QED BY <1>2, <1>3

\* When the host has all it waits for, or nothing moves any more, the answer is there,
\* it is a right one, and nothing else is.
LEMMA AnswerIsThere ==
    ASSUME TInv, Always, Undisturbed, clean, Command,
           Answered \/ (AtRest /\ toBoard = <<>>)
    PROVE  /\ m.state = "GET_CMD" /\ toBoard = <<>> /\ sending = <<>>
           /\ inbox \in Right
<1>1. inbox \in Seq(Int) /\ sending \in Seq(Int)
  BY DEF TInv
<1>2. PICK a \in Nat, b \in Nat : a = Len(inbox) /\ b = Len(sending) /\ Len(got) = a + b
  BY <1>1, ConcatProperties, LenProperties DEF got
<1>3. /\ NumBytes \in Nat /\ NumBytes > 0 /\ (inbox # <<>> => a > 0) /\ Len(<<>>) = 0
      /\ (b = 0 => sending = <<>>)
  BY <1>1, <1>2, BridgeAssumption, EmptySeq
<1>4. Answered => a >= (IF h.doing = "read" THEN NumBytes ELSE 1)
  BY <1>2, <1>3 DEF Answered
<1>5. ASSUME Asking PROVE FALSE
  <2>1. ~Answered
    BY <1>2, <1>3, <1>4, <1>5 DEF Asking
  <2>2. AtRest /\ toBoard = <<>>
    BY <2>1
  <2>3. /\ <<letter>> \o (<<h.addr>> \o data) # <<>>
        /\ <<h.addr>> \o data # <<>>
    BY CommandType, ConsProperties
  <2>4. AwaitsData
    BY <1>5, <2>2, <2>3 DEF Asking, AwaitsLetter, AwaitsAddr, Access, AtRest
  <2> QED BY <1>3, <2>2, <2>4 DEF AwaitsData
<1>6. PICK r \in Right : toBoard = <<>> /\ (Sending(r) \/ Sent(r))
  BY <1>5 DEF Undisturbed, Command, Answering
<1>7. Len(r) \in Nat /\ Len(r) = IF h.doing = "read" THEN NumBytes ELSE 1
  BY <1>3, RightType
<1>8. Sent(r)
  <2> SUFFICES ASSUME Sending(r) PROVE FALSE
    BY <1>6
  <2>1. m.state = "SEND" /\ a + b <= Len(r) - 1
    BY <1>2 DEF Sending
  <2> QED BY <2>1, <1>2, <1>4, <1>7 DEF AtRest
<1>9. got = r /\ m.state = "GET_CMD"
  BY <1>8 DEF Sent
<1>10. sending = <<>>
  <2>1. Answered => b = 0
    BY <1>2, <1>4, <1>7, <1>9
  <2> QED BY <2>1, <1>3 DEF AtRest
<1>11. inbox = r
  BY <1>1, <1>9, <1>10, ConcatEmptySeq DEF got
<1> QED BY <1>6, <1>9, <1>10, <1>11

LEMMA UndisturbedIssue ==
    ASSUME TInv, Always, NEW doing \in {"read", "write"}, NEW addr, NEW word, NEW bytes,
           Issue(doing, addr, word, bytes),
           bytes = <<IF doing = "read" THEN CmdRead ELSE CmdWrite>>
                     \o (<<addr>> \o (IF doing = "read" THEN <<>> ELSE word)),
           bytes \in Seq(Int)
    PROVE  Undisturbed'
<1> SUFFICES ASSUME clean' PROVE Undisturbed'
  BY DEF Undisturbed
<1>1. /\ AtRest /\ m.state = "GET_CMD" /\ m' = m /\ sending' = sending /\ inbox' = <<>>
      /\ toBoard' = toBoard \o bytes
      /\ h' = [doing |-> doing, addr |-> addr, word |-> word]
  BY DEF Issue
<1>2. toBoard = <<>> /\ sending = <<>>
  BY <1>1 DEF AtRest
<1>3. toBoard' = bytes
  BY <1>1, <1>2, ConcatEmptySeq
<1>4. got' = <<>>
  BY <1>1, <1>2, ConcatEmptySeq, EmptySeq DEF got
<1>5. h'.doing = doing /\ h'.addr = addr /\ h'.word = word
  BY <1>1
<1>6. AwaitsLetter'
  BY <1>1, <1>3, <1>5 DEF AwaitsLetter, letter, data
<1> QED BY <1>4, <1>5, <1>6 DEF Undisturbed, Asking

LEMMA UndisturbedStep == TInv /\ Always /\ Undisturbed /\ [Next]_vars => Undisturbed'
<1> SUFFICES ASSUME TInv, Always, Undisturbed, [Next]_vars PROVE Undisturbed'
  OBVIOUS
<1>1. CASE Ticks
  <2>1. CASE clean
    BY <1>1, <2>1, TickFacts, UndisturbedTick DEF Ticks
  <2>2. CASE ~clean
    BY <1>1, <2>2 DEF Ticks, Tick, Undisturbed
  <2> QED BY <2>1, <2>2
<1>2. ASSUME NEW addr \in Address, Read(addr) PROVE Undisturbed'
  BY <1>2, Commands, UndisturbedIssue
<1>3. ASSUME NEW addr \in Address, NEW word \in Word, Write(addr, word) PROVE Undisturbed'
  BY <1>3, Commands, UndisturbedIssue
<1>4. ASSUME Return \/ Timeout PROVE Undisturbed'
  <2> SUFFICES ASSUME clean PROVE Undisturbed'
    BY <1>4 DEF Return, Timeout, Undisturbed
  <2>1. Command
    BY <1>4 DEF Return, Timeout, Answered, Command
  <2>2. CASE Return
    <3>1. m.state = "GET_CMD" /\ toBoard = <<>> /\ sending = <<>>
      BY <2>1, <2>2, AnswerIsThere DEF Return
    <3>2. h'.doing \notin {"read", "write"}
      BY <2>2, IdleTypes DEF Return
    <3> QED BY <2>2, <3>1, <3>2 DEF Return, Undisturbed
  <2>3. CASE Timeout
    <3>1. inbox \in Right /\ ~Answered
      BY <2>1, <2>3, AnswerIsThere DEF Timeout, AtRest
    <3>2. Len(inbox) = IF h.doing = "read" THEN NumBytes ELSE 1
      BY <3>1, RightType
    <3>3. inbox # <<>> /\ NumBytes \in Nat
      BY <3>1, RightType, EmptySeq, BridgeAssumption
    <3> QED BY <2>1, <3>1, <3>2, <3>3 DEF Answered, Command
  <2> QED BY <1>4, <2>2, <2>3
<1>5. CASE Restart
  <2>1. h.doing = "gone" /\ h'.doing = "idle"
    BY <1>5, IdleTypes DEF Restart
  <2> QED BY <1>5, <2>1 DEF Restart, Undisturbed
<1>6. CASE Kill \/ Noise \/ Reset
  BY <1>6 DEF Kill, Noise, Reset, Fault, Undisturbed
<1>7. CASE UNCHANGED vars
  <2>1. /\ m' = m /\ s' = s /\ h' = h /\ toBoard' = toBoard /\ sending' = sending
        /\ inbox' = inbox /\ clean' = clean /\ seen' = seen
    BY <1>7 DEF vars
  <2>2. got' = got /\ letter' = letter /\ data' = data /\ InForce' = InForce
    BY <2>1 DEF got, letter, data, InForce
  <2>3. Asking' <=> Asking
    BY <2>1, <2>2 DEF Asking, AwaitsLetter, AwaitsAddr, AwaitsData, Access
  <2>4. Right' = Right
    BY <2>1, <2>2 DEF Right
  <2>5. Answering' <=> Answering
    <3>1. ASSUME NEW r PROVE Sending(r)' <=> Sending(r)
      BY <2>1, <2>2 DEF Sending
    <3>2. ASSUME NEW r PROVE Sent(r)' <=> Sent(r)
      BY <2>1, <2>2 DEF Sent
    <3> QED BY <2>1, <2>4, <3>1, <3>2 DEF Answering
  <2> QED BY <2>1, <2>3, <2>5 DEF Undisturbed
<1> QED BY <1>1, <1>2, <1>3, <1>4, <1>5, <1>6, <1>7 DEF Next, Host

LEMMA UndisturbedInit == Init => Undisturbed
  BY IdleTypes DEF Init, ResetBridge, Undisturbed

LEMMA PhaseInvariant == Spec => [](TInv /\ Always /\ Undisturbed)
<1>1. Init => TInv /\ Always /\ Undisturbed
  BY TInvInit, AlwaysInit, UndisturbedInit
<1>2. TInv /\ Always /\ Undisturbed /\ [Next]_vars => (TInv /\ Always /\ Undisturbed)'
  BY TInvStep, AlwaysStep, UndisturbedStep
<1> QED BY <1>1, <1>2, PTL DEF Spec
-----------------------------------------------------------------------------
\* A read that was not disturbed returns a value the register has shown while it
\* lasted, and never bytes of two (axil_csr.sv:104, uart_axil.sv:158).
THEOREM ReadsAreExact == Spec => []ReadExact
<1>1. ASSUME TInv, Always, Undisturbed PROVE ReadExact
  <2> SUFFICES ASSUME clean, h.doing = "read", Answered
               PROVE  SubSeq(inbox, 1, NumBytes) \in seen
    BY DEF ReadExact
  <2>1. inbox \in Right
    BY <1>1, AnswerIsThere DEF Command
  <2>2. inbox \in seen /\ inbox \in Seq(Int) /\ Len(inbox) = NumBytes
    BY <1>1, <2>1, RightType DEF Right
  <2>3. SubSeq(inbox, 1, Len(inbox)) = inbox
    BY <2>2, SubSeqFull
  <2> QED BY <2>2, <2>3
<1> QED BY <1>1, PhaseInvariant, PTL

\* A write that was not disturbed is in force when it is acknowledged (uart_axil.sv:142).
THEOREM AcksAreTrue == Spec => []AckedInForce
<1>1. ASSUME TInv, Always, Undisturbed PROVE AckedInForce
  <2> SUFFICES ASSUME clean, h.doing = "write", Answered
               PROVE  Head(inbox) = WriteAck /\ InForce
    BY DEF AckedInForce, InForce
  <2>1. inbox \in Right
    BY <1>1, AnswerIsThere DEF Command
  <2>2. inbox = <<WriteAck>> /\ InForce
    BY <2>1 DEF Right
  <2> QED BY <2>2
<1> QED BY <1>1, PhaseInvariant, PTL

\* A command that was not disturbed is answered in full, with no byte left over for the
\* next command to take for its answer (uart_axil.sv:160-172).
THEOREM AnswersAreWhole == Spec => []OneAnswer
<1>1. ASSUME TInv, Always, Undisturbed PROVE OneAnswer
  <2> SUFFICES ASSUME clean, Command, AtRest, toBoard = <<>>
               PROVE  Len(inbox) = IF h.doing = "read" THEN NumBytes ELSE 1
    BY DEF OneAnswer, Command
  <2>1. inbox \in Right
    BY <1>1, AnswerIsThere
  <2> QED BY <1>1, <2>1, RightType
<1> QED BY <1>1, PhaseInvariant, PTL
-----------------------------------------------------------------------------
(* What has come in, whatever happened before: the command so far.         *)

Heard ==
    /\ heard \in Seq(Int)
    /\ m.state = "GET_CMD"  => heard = <<>>
    /\ m.state = "GET_ADDR" => /\ Len(heard) = 1 /\ m.count = 0
                               /\ ~m.is_read => heard[1] = CmdWrite
    /\ m.state \in {"GET_DATA", "DO_WRITE"} =>
          /\ Len(heard) = m.count + 2 /\ heard[1] = CmdWrite /\ heard[2] = m.addr
          /\ m.count \in 0 .. NumBytes
          /\ m.state = "DO_WRITE" <=> m.count = NumBytes
          /\ \A k \in 1 .. m.count : m.shift[NumBytes - m.count + k] = heard[k + 2]

LEMMA Extend ==
    ASSUME NEW q \in Seq(Int), NEW b \in Int
    PROVE  /\ q \o <<b>> \in Seq(Int) /\ Len(q \o <<b>>) = Len(q) + 1
           /\ (q \o <<b>>)[Len(q) + 1] = b
           /\ \A k \in 1 .. Len(q) : (q \o <<b>>)[k] = q[k]
<1>1. <<b>> \in Seq(Int) /\ Len(<<b>>) = 1 /\ <<b>>[1] = b /\ Len(q) \in Nat
  BY LenProperties
<1>2. /\ q \o <<b>> \in Seq(Int) /\ Len(q \o <<b>>) = Len(q) + 1
      /\ \A k \in 1 .. Len(q) + 1 : (q \o <<b>>)[k] = IF k <= Len(q) THEN q[k] ELSE <<b>>[k - Len(q)]
  BY <1>1, ConcatProperties
<1>3. (q \o <<b>>)[Len(q) + 1] = <<b>>[(Len(q) + 1) - Len(q)]
  BY <1>1, <1>2
<1>4. (Len(q) + 1) - Len(q) = 1
  BY <1>1
<1> QED BY <1>1, <1>2, <1>3, <1>4

\* One edge of the bridge, with the byte that comes in at it, if one does.
LEMMA HeardTick ==
    ASSUME TInv, Heard, NEW comes \in BOOLEAN, NEW arrives \in BOOLEAN,
           NEW upper \in [RwIndex -> Word], Tick(comes, arrives, upper)
    PROVE  Heard'
<1> DEFINE b == Head(toBoard)
           rx == IF comes THEN {b} ELSE {}
<1>1. /\ m \in BridgeSet /\ heard \in Seq(Int) /\ NumBytes \in Nat /\ NumBytes > 0
  BY BridgeAssumption DEF TInv, Heard
<1>2. comes => b \in Int /\ m.state \notin {"DO_WRITE", "DO_READ"}
  BY HeadTailProperties DEF TInv, Tick
<1>3. PICK tx_ready \in BOOLEAN : m' = BridgeClocked(m, s, rx, tx_ready)
  BY DEF Tick
<1>4. heard' = IF m'.state \in {"GET_CMD", "SEND"} THEN <<>>
               ELSE IF comes THEN heard \o <<b>> ELSE heard
  BY <1>1, ConcatEmptySeq DEF Tick
<1>5. comes => (CHOOSE byte \in rx : TRUE) = b
  OBVIOUS
<1>6. /\ rx = {} <=> ~comes
      /\ comes => rx = {b}
  OBVIOUS
<1>7. comes => /\ heard \o <<b>> \in Seq(Int) /\ Len(heard \o <<b>>) = Len(heard) + 1
               /\ (heard \o <<b>>)[Len(heard) + 1] = b
               /\ \A k \in 1 .. Len(heard) : (heard \o <<b>>)[k] = heard[k]
  BY <1>1, <1>2, Extend
<1> HIDE DEF b, rx
<1>8. heard' \in Seq(Int)
  BY <1>1, <1>4, <1>7, EmptySeq
<1>9. CASE m.state = "GET_CMD"
  <2>1. m' = GetCmd(m, rx) /\ heard = <<>>
    BY <1>1, <1>3, <1>9, BridgeByState DEF Heard
  <2>2. /\ m'.state = IF rx \cap {CmdRead, CmdWrite} = {} THEN "GET_CMD" ELSE "GET_ADDR"
        /\ rx \cap {CmdRead, CmdWrite} # {} => (m'.is_read <=> CmdRead \in rx)
        /\ m'.count = 0
    BY <2>1, <1>1, <1>9, CmdEdge
  <2>3. CASE rx \cap {CmdRead, CmdWrite} = {}
    BY <2>2, <2>3, <1>4, <1>8 DEF Heard
  <2>4. CASE rx \cap {CmdRead, CmdWrite} # {}
    <3>1. comes /\ b \in {CmdRead, CmdWrite} /\ (CmdRead \in rx <=> b = CmdRead)
      BY <2>4, <1>6
    <3>2. Len(heard') = 1 /\ heard'[1] = b
      BY <3>1, <2>1, <2>2, <2>4, <1>4, <1>7, EmptySeq
    <3> QED BY <3>1, <3>2, <2>2, <2>4, <1>8 DEF Heard
  <2> QED BY <2>3, <2>4
<1>10. CASE m.state = "GET_ADDR"
  <2>1. m' = GetAddr(m, rx) /\ Len(heard) = 1 /\ m.count = 0 /\ (~m.is_read => heard[1] = CmdWrite)
    BY <1>1, <1>3, <1>10, BridgeByState DEF Heard
  <2>2. CASE ~comes
    <3>1. m' = m /\ heard' = heard
      BY <2>1, <2>2, <1>1, <1>4, <1>6, <1>10, AddrEdge
    <3> QED BY <3>1 DEF Heard
  <2>3. CASE comes
    <3>1. /\ m'.state = IF m.is_read THEN "DO_READ" ELSE "GET_DATA"
          /\ m'.addr = b /\ m'.count = 0
      BY <2>1, <2>3, <1>1, <1>5, <1>6, AddrEdge
    <3>2. /\ heard' = heard \o <<b>> /\ Len(heard') = 2 /\ heard'[2] = b
          /\ heard'[1] = heard[1]
      BY <2>1, <2>3, <3>1, <1>4, <1>7
    <3> QED BY <2>1, <3>1, <3>2, <1>1, <1>8 DEF Heard
  <2> QED BY <2>2, <2>3
<1>11. CASE m.state = "GET_DATA"
  <2>1. /\ m' = GetData(m, rx)
        /\ Len(heard) = m.count + 2 /\ heard[1] = CmdWrite /\ heard[2] = m.addr
        /\ m.count \in 0 .. NumBytes - 1
        /\ \A k \in 1 .. m.count : m.shift[NumBytes - m.count + k] = heard[k + 2]
    BY <1>1, <1>3, <1>11, BridgeByState DEF Heard
  <2>2. CASE ~comes
    <3>1. m' = m /\ heard' = heard
      BY <2>1, <2>2, <1>1, <1>4, <1>6, <1>11, DataEdge
    <3> QED BY <3>1 DEF Heard
  <2>3. CASE comes
    <3>1. /\ m'.state = IF m.count = NumBytes - 1 THEN "DO_WRITE" ELSE "GET_DATA"
          /\ m'.addr = m.addr /\ m'.count = m.count + 1 /\ m'.shift = Shifted(m, b)
      BY <2>1, <2>3, <1>1, <1>5, <1>6, DataEdge
    <3>2. /\ m'.shift[NumBytes] = b
          /\ \A k \in 1 .. NumBytes - 1 : m'.shift[k] = m.shift[k + 1]
      <4>1. m.shift \in WordSet /\ b \in Int
        BY <2>3, <1>1, <1>2 DEF BridgeSet
      <4>2. /\ Append(Tail(m.shift), b)[NumBytes] = b
            /\ \A k \in 1 .. NumBytes - 1 : Append(Tail(m.shift), b)[k] = m.shift[k + 1]
        BY <4>1, ShiftedWord
      <4>3. m'.shift = Append(Tail(m.shift), b)
        BY <3>1 DEF Shifted
      <4> QED BY <4>2, <4>3
    <3>3. PICK n \in 0 .. NumBytes - 1 : n = m.count
      BY <2>1
    <3>4. /\ heard' = heard \o <<b>> /\ Len(heard') = n + 3 /\ heard'[n + 3] = b
          /\ \A k \in 1 .. n + 2 : heard'[k] = heard[k]
      <4>1. heard' = heard \o <<b>>
        BY <2>3, <3>1, <1>4
      <4>2. Len(heard) = n + 2 /\ Len(heard) + 1 = n + 3
        BY <2>1, <3>3
      <4> QED BY <2>3, <4>1, <4>2, <1>7
    <3>5. heard'[1] = CmdWrite /\ heard'[2] = m'.addr
      BY <2>1, <3>1, <3>3, <3>4
    <3>6. ASSUME NEW k \in 1 .. n + 1
          PROVE  m'.shift[NumBytes - (n + 1) + k] = heard'[k + 2]
      <4>1. CASE k = n + 1
        <5>1. NumBytes - (n + 1) + k = NumBytes /\ k + 2 = n + 3
          BY <4>1, <1>1
        <5> QED BY <5>1, <3>2, <3>4
      <4>2. CASE k # n + 1
        <5>1. k \in 1 .. n /\ NumBytes - (n + 1) + k \in 1 .. NumBytes - 1 /\ k + 2 \in 1 .. n + 2
              /\ (NumBytes - (n + 1) + k) + 1 = NumBytes - n + k
          BY <4>2, <1>1
        <5>2. m'.shift[NumBytes - (n + 1) + k] = m.shift[NumBytes - n + k]
          BY <5>1, <3>2
        <5>3. m.shift[NumBytes - n + k] = heard[k + 2]
          BY <5>1, <2>1, <3>3
        <5> QED BY <5>1, <5>2, <5>3, <3>4
      <4> QED BY <4>1, <4>2
    <3>7. Len(heard') = m'.count + 2 /\ m'.count \in 0 .. NumBytes /\ m'.count = n + 1
          /\ (m'.state = "DO_WRITE" <=> m'.count = NumBytes)
      <4>1. m'.count = n + 1 /\ (n + 1) + 2 = n + 3 /\ n + 1 \in 0 .. NumBytes
        BY <3>1, <3>3, <1>1
      <4>2. m'.state = "DO_WRITE" <=> n = NumBytes - 1
        BY <3>1, <3>3
      <4>3. n + 1 = NumBytes <=> n = NumBytes - 1
        BY <1>1
      <4> QED BY <3>4, <4>1, <4>2, <4>3
    <3>8. \A k \in 1 .. m'.count : m'.shift[NumBytes - m'.count + k] = heard'[k + 2]
      BY <3>6, <3>7
    <3>9. m'.state \notin {"GET_CMD", "GET_ADDR"}
      BY <3>1
    <3> QED BY <3>5, <3>7, <3>8, <3>9, <1>8 DEF Heard
  <2> QED BY <2>2, <2>3
<1>12. CASE m.state = "DO_WRITE"
  <2>1. m' = DoWrite(m, s) /\ ~comes
    BY <1>1, <1>2, <1>3, <1>12, BridgeByState
  <2>2. CASE s.bvalid
    <3>1. m'.state = "SEND"
      BY <2>1, <2>2, <1>1, WriteEdge
    <3> QED BY <3>1, <1>8 DEF Heard
  <2>3. CASE ~s.bvalid
    <3>1. /\ m'.state = m.state /\ m'.addr = m.addr /\ m'.shift = m.shift
          /\ m'.count = m.count
      BY <2>1, <2>3, <1>1 DEF DoWrite, BridgeSet
    <3>2. heard' = heard
      BY <2>1, <3>1, <1>4, <1>12
    <3> QED BY <3>1, <3>2, <1>12 DEF Heard
  <2> QED BY <2>2, <2>3
<1>13. CASE m.state = "DO_READ"
  <2>1. m'.state \in {"SEND", "DO_READ"}
    BY <1>1, <1>3, <1>13, BridgeByState, ReadEdge
  <2> QED BY <2>1, <1>8 DEF Heard
<1>14. CASE m.state = "SEND"
  <2>1. m'.state \in {"SEND", "GET_CMD"}
    <3>1. m' = Send(m, tx_ready)
      BY <1>1, <1>3, <1>14, BridgeByState
    <3> QED BY <3>1, <1>1, <1>14, SendEdge
  <2> QED BY <2>1, <1>4, <1>8 DEF Heard
<1> QED BY <1>1, <1>9, <1>10, <1>11, <1>12, <1>13, <1>14, BridgeByState

LEMMA HeardStep == TInv /\ Heard /\ [Next]_vars => Heard'
<1> SUFFICES ASSUME TInv, Heard, [Next]_vars PROVE Heard'
  OBVIOUS
<1>1. CASE Ticks
  BY <1>1, HeardTick DEF Ticks
<1>2. CASE Reset
  BY <1>2, EmptySeq DEF Reset, ResetBridge, Heard
<1>3. ASSUME m' = m, heard' = heard PROVE Heard'
  BY <1>3 DEF Heard
<1>4. CASE Host \/ Kill \/ Noise \/ UNCHANGED vars
  BY <1>3, <1>4 DEF Host, Read, Write, Issue, Return, Timeout, Restart, Kill, Noise, vars
<1> QED BY <1>1, <1>2, <1>4 DEF Next

LEMMA HeardInvariant == Spec => []Heard
<1>1. Init => Heard
  BY EmptySeq DEF Init, ResetBridge, Heard
<1>2. Spec => []TInv
  BY PhaseInvariant, PTL
<1> QED BY <1>1, <1>2, HeardStep, PTL DEF Spec

\* After any number of lost bytes, killed programs and resets, a register changes only by
\* a whole write command that came in byte by byte, at the address and to the word in it
\* (axil_csr.sv:97-103, uart_axil.sv:111-143); and, where nothing was disturbed, by the
\* command the host is at.
THEOREM OnlyWritesWrite == Spec => OnlyWritten
<1> DEFINE Whole == /\ Len(heard) = NumBytes + 2 /\ heard[1] = CmdWrite
                    /\ s'.regs = [s.regs EXCEPT ![index(heard[2])] = SubSeq(heard, 3, NumBytes + 2)]
           Own == clean => h.doing = "write" /\ heard = <<CmdWrite, h.addr>> \o h.word
<1>1. ASSUME TInv, Always, Undisturbed, Heard, [Next]_vars, s'.regs # s.regs
      PROVE  Whole /\ Own
  <2>1. s'.regs = regsNext(s, m)
    <3>1. Ticks \/ Reset
      BY <1>1 DEF Next, Host, Read, Write, Issue, Return, Timeout, Restart, Kill, Noise, vars
    <3> QED BY <3>1 DEF Ticks, Tick, CsrClocked, Reset, CsrCleared, ResetCsr
  <2>2. wr_xfer(s, m) /\ s'.regs = [s.regs EXCEPT ![index(m.addr)] = m.shift]
    BY <2>1, <1>1 DEF regsNext
  <2>3. m.state = "DO_WRITE"
    BY <1>1, <2>2, NotWriting
  <2>4. /\ NumBytes \in Nat /\ NumBytes > 0 /\ heard \in Seq(Int)
        /\ Len(heard) = NumBytes + 2 /\ heard[1] = CmdWrite /\ heard[2] = m.addr
        /\ \A k \in 1 .. NumBytes : m.shift[k] = heard[k + 2]
    <3>1. /\ NumBytes \in Nat /\ NumBytes > 0 /\ m.count = NumBytes
          /\ \A k \in 1 .. m.count : m.shift[NumBytes - m.count + k] = heard[k + 2]
      BY <1>1, <2>3, BridgeAssumption DEF Heard
    <3>2. \A k \in 1 .. NumBytes : NumBytes - NumBytes + k = k
      BY <3>1
    <3> QED BY <3>1, <3>2, <1>1, <2>3 DEF Heard
  <2>5. m.shift \in Seq(Int) /\ Len(m.shift) = NumBytes
    BY <1>1, WordSeq DEF TInv, BridgeSet
  <2>6. SubSeq(heard, 3, NumBytes + 2) = m.shift
    <3> DEFINE t == SubSeq(heard, 3, NumBytes + 2)
    <3>1. /\ t \in Seq(Int) /\ Len(t) = NumBytes
          /\ \A k \in 1 .. NumBytes : t[k] = heard[k + 2]
      <4>1. 3 \in 1 .. Len(heard) + 1 /\ NumBytes + 2 \in 3 - 1 .. Len(heard)
        BY <2>4
      <4>2. /\ t \in Seq(Int) /\ Len(t) = (NumBytes + 2) - 3 + 1
            /\ \A k \in 1 .. (NumBytes + 2) - 3 + 1 : t[k] = heard[3 + k - 1]
        BY <4>1, <2>4, SubSeqProperties
      <4>3. (NumBytes + 2) - 3 + 1 = NumBytes /\ \A k \in 1 .. NumBytes : 3 + k - 1 = k + 2
        BY <2>4
      <4> QED BY <4>2, <4>3
    <3> HIDE DEF t
    <3>2. \A k \in 1 .. Len(t) : t[k] = m.shift[k]
      BY <3>1, <2>4
    <3>3. t = m.shift
      BY <3>1, <3>2, <2>5, SeqEqual
    <3> QED BY <3>3 DEF t
  <2>7. Whole
    BY <2>2, <2>4, <2>6
  <2>8. ASSUME clean PROVE h.doing = "write" /\ heard = <<CmdWrite, h.addr>> \o h.word
    <3>1. Access
      BY <1>1, <2>3, <2>8 DEF Undisturbed, Asking, Answering, AwaitsLetter, AwaitsAddr,
                              AwaitsData, Sending, Sent
    <3>2. h.doing = "write" /\ m.addr = h.addr /\ m.shift = h.word
      BY <3>1, <2>3 DEF Access
    <3> DEFINE two == <<CmdWrite, h.addr>>
               t   == two \o h.word
    <3>3. two \in Seq(Int) /\ Len(two) = 2 /\ two[1] = CmdWrite /\ two[2] = h.addr
      <4>1. CmdWrite \in Int /\ h.addr \in Int
        BY <1>1, BridgeAssumption DEF TInv, HostSet
      <4> QED BY <4>1
    <3> HIDE DEF two
    <3>4. /\ t \in Seq(Int) /\ Len(t) = 2 + NumBytes
          /\ \A k \in 1 .. 2 + NumBytes : t[k] = IF k <= 2 THEN two[k] ELSE h.word[k - 2]
      <4>1. h.word \in Seq(Int) /\ Len(h.word) = NumBytes
        BY <2>5, <3>2
      <4>2. /\ t \in Seq(Int) /\ Len(t) = Len(two) + Len(h.word)
            /\ \A k \in 1 .. Len(two) + Len(h.word) :
                  t[k] = IF k <= Len(two) THEN two[k] ELSE h.word[k - Len(two)]
        BY <3>3, <4>1, ConcatProperties
      <4> QED BY <3>3, <4>1, <4>2
    <3> HIDE DEF t
    <3>5. ASSUME NEW k \in 1 .. Len(heard) PROVE heard[k] = t[k]
      <4>1. CASE k = 1
        BY <4>1, <3>3, <3>4, <2>4
      <4>2. CASE k = 2
        BY <4>2, <3>2, <3>3, <3>4, <2>4
      <4>3. CASE k > 2
        <5>1. k - 2 \in 1 .. NumBytes /\ (k - 2) + 2 = k /\ ~(k <= 2) /\ k \in 1 .. 2 + NumBytes
          BY <4>3, <2>4
        <5>2. h.word[k - 2] = heard[k]
          BY <5>1, <2>4, <3>2
        <5> QED BY <5>1, <5>2, <3>4
      <4> QED BY <4>1, <4>2, <4>3, <2>4
    <3>6. heard = t
      BY <3>4, <3>5, <2>4, SeqEqual
    <3> QED BY <3>2, <3>6 DEF t, two
  <2> QED BY <2>7, <2>8
<1>2. TInv /\ Always /\ Undisturbed /\ Heard /\ [Next]_vars
        => [s'.regs # s.regs => Whole /\ Own]_vars
  BY <1>1
<1> QED BY <1>2, PhaseInvariant, HeardInvariant, PTL DEF Spec, OnlyWritten
=============================================================================
