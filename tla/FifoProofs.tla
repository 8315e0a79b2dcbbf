----------------------------- MODULE FifoProofs -----------------------------
(***************************************************************************)
(* The circular buffer implements the bounded queue that every other       *)
(* module uses in its place, for every depth.                              *)
(***************************************************************************)
EXTENDS SyncFifo, SequenceTheorems, TLAPS

LEMMA DepthIsNat == Depth \in Nat /\ Depth > 0
  BY DepthAssumption

\* Only the words between the pointers are held, and their places are in the memory.
LEMMA Slots ==
  ASSUME TypeOK
  PROVE  /\ count \in Nat /\ rd_ptr \in Nat /\ wr_ptr \in Nat
         /\ \A i \in 0 .. count : slot(rd_ptr + i) \in Address
         /\ slot(rd_ptr) = addr(rd_ptr) /\ slot(rd_ptr + count) = addr(wr_ptr)
         /\ addr(rd_ptr) \in Address /\ addr(wr_ptr) \in Address
  BY DepthIsNat DEF TypeOK, Pointer, Address, count, slot, addr

\* The next word is written next to the others.
LEMMA SlotsApart ==
  ASSUME TypeOK, count < Depth, NEW i \in 0 .. count - 1
  PROVE  slot(rd_ptr + i) # addr(wr_ptr)
  BY DepthIsNat DEF TypeOK, Pointer, count, slot, addr

\* The wrap bits tell a full buffer from an empty one.
LEMMA FullEmpty ==
  ASSUME TypeOK
  PROVE  (full <=> count = Depth) /\ (empty <=> count = 0)
  BY DepthIsNat DEF TypeOK, Pointer, count, full, empty, addr, wrap

\* One step of a pointer is one place.
LEMMA Step ==
  ASSUME TypeOK, count > 0, NEW i \in 0 .. count - 1
  PROVE  /\ inc(rd_ptr) \in Pointer
         /\ slot(inc(rd_ptr) + i) = slot(rd_ptr + (i + 1))
  BY DepthIsNat DEF TypeOK, Pointer, count, slot, addr, inc

LEMMA Contents ==
  ASSUME TypeOK
  PROVE  /\ contents \in Seq(Data) /\ Len(contents) = count
         /\ \A i \in 1 .. count : contents[i] = mem[slot(rd_ptr + i - 1)]
         /\ contents = <<>> <=> count = 0
<1>1. count \in Nat /\ \A i \in 1 .. count : slot(rd_ptr + i - 1) \in Address
  BY Slots
<1>2. \A i \in 1 .. count : mem[slot(rd_ptr + i - 1)] \in Data
  BY <1>1 DEF TypeOK
<1>3. contents \in [1 .. count -> Data]
  BY <1>2 DEF contents
<1>4. contents \in Seq(Data)
  BY <1>1, <1>3, SeqDef
<1>5. Len(contents) = count
  BY <1>1, <1>3, <1>4, LenProperties
<1>6. contents = <<>> <=> count = 0
  BY <1>4, <1>5, EmptySeq
<1> QED BY <1>4, <1>5, <1>6 DEF contents
-----------------------------------------------------------------------------
LEMMA InitFifo == Init => TypeOK /\ Queue!Init
<1> SUFFICES ASSUME Init PROVE TypeOK /\ Queue!Init
  OBVIOUS
<1>1. TypeOK
  BY DepthIsNat, ZeroAssumption DEF Init, TypeOK, Pointer, count
<1>2. contents = <<>>
  BY <1>1, Contents DEF Init, count
<1> QED BY <1>1, <1>2 DEF Init, Queue!Init

\* What an edge does to the registers.
LEMMA EdgeRegisters ==
  ASSUME TypeOK, NEW wr_en \in BOOLEAN, NEW rd_en \in BOOLEAN, NEW d \in Data,
         Clock(wr_en, d, rd_en)
  PROVE  LET wr == wr_en /\ count # Depth
             rd == rd_en /\ count # 0
         IN  /\ mem' = IF wr THEN [mem EXCEPT ![addr(wr_ptr)] = d] ELSE mem
             /\ wr_ptr' = IF wr THEN inc(wr_ptr) ELSE wr_ptr
             /\ rd_ptr' = IF rd THEN inc(rd_ptr) ELSE rd_ptr
             /\ rd_data' = IF rd THEN mem[addr(rd_ptr)] ELSE rd_data
             /\ TypeOK'
             /\ count' = count + (IF wr THEN 1 ELSE 0) - (IF rd THEN 1 ELSE 0)
<1> DEFINE wr == wr_en /\ count # Depth
           rd == rd_en /\ count # 0
<1>1. /\ mem' = IF wr THEN [mem EXCEPT ![addr(wr_ptr)] = d] ELSE mem
      /\ wr_ptr' = IF wr THEN inc(wr_ptr) ELSE wr_ptr
      /\ rd_ptr' = IF rd THEN inc(rd_ptr) ELSE rd_ptr
      /\ rd_data' = IF rd THEN mem[addr(rd_ptr)] ELSE rd_data
  BY FullEmpty DEF Clock, WritePort, ReadPort
<1>2. /\ wr_ptr' \in Pointer /\ rd_ptr' \in Pointer
      /\ count' = count + (IF wr THEN 1 ELSE 0) - (IF rd THEN 1 ELSE 0)
      /\ count' \in 0 .. Depth
  BY <1>1, DepthIsNat DEF TypeOK, Pointer, count, inc
<1>3. mem' \in [Address -> Data] /\ rd_data' \in Data
  BY <1>1, Slots DEF TypeOK
<1> QED BY <1>1, <1>2, <1>3 DEF TypeOK

LEMMA EdgeIsQueueEdge ==
  ASSUME TypeOK, NEW wr_en \in BOOLEAN, NEW rd_en \in BOOLEAN, NEW d \in Data,
         Clock(wr_en, d, rd_en)
  PROVE  Queue!Clock(wr_en, d, rd_en)
<1> DEFINE wr == wr_en /\ count # Depth
           rd == rd_en /\ count # 0
           left == count - (IF rd THEN 1 ELSE 0)
           rest == Queue!Rest(contents, rd_en)
           added == Queue!Added(contents, Depth, wr_en, d)
<1>1. /\ mem' = IF wr THEN [mem EXCEPT ![addr(wr_ptr)] = d] ELSE mem
      /\ rd_ptr' = IF rd THEN inc(rd_ptr) ELSE rd_ptr
      /\ rd_data' = IF rd THEN mem[addr(rd_ptr)] ELSE rd_data
      /\ TypeOK'
      /\ count' = left + (IF wr THEN 1 ELSE 0)
  BY EdgeRegisters, Slots
<1>2. /\ contents \in Seq(Data) /\ Len(contents) = count
      /\ \A i \in 1 .. count : contents[i] = mem[slot(rd_ptr + i - 1)]
      /\ contents = <<>> <=> count = 0
  BY Contents
<1>3. /\ contents' \in Seq(Data) /\ Len(contents') = count'
      /\ \A i \in 1 .. count' : contents'[i] = mem'[slot(rd_ptr + i - 1)']
  <2>1. (TypeOK => /\ contents \in Seq(Data) /\ Len(contents) = count
                   /\ \A i \in 1 .. count : contents[i] = mem[slot(rd_ptr + i - 1)])'
    BY Contents, PTL
  <2> QED BY <1>1, <2>1
<1>4. /\ rest \in Seq(Data) /\ Len(rest) = left /\ left \in Nat
      /\ \A i \in 1 .. left : rest[i] = mem[slot(rd_ptr' + i - 1)]
  <2>1. CASE rd
    <3>1. rest = Tail(contents) /\ contents # <<>> /\ left = count - 1 /\ count \in Nat /\ count > 0
      BY <2>1, <1>2, Slots DEF Queue!Rest
    <3>2. /\ rest \in Seq(Data) /\ Len(rest) = left
          /\ \A i \in 1 .. left : rest[i] = contents[i + 1]
      BY <3>1, <1>2, HeadTailProperties
    <3>3. ASSUME NEW i \in 1 .. left PROVE rest[i] = mem[slot(rd_ptr' + i - 1)]
      <4>1. rest[i] = mem[slot(rd_ptr + i)] /\ i - 1 \in 0 .. count - 1 /\ i \in Nat /\ i > 0
        BY <3>1, <3>2, <1>2, Slots
      <4>2. slot(inc(rd_ptr) + (i - 1)) = slot(rd_ptr + i) /\ inc(rd_ptr) \in Nat
        BY <4>1, <3>1, Step, Slots, DepthIsNat DEF Pointer
      <4>3. rd_ptr' + i - 1 = inc(rd_ptr) + (i - 1)
        BY <2>1, <1>1, <4>1, <4>2
      <4> QED BY <4>1, <4>2, <4>3
    <3> QED BY <3>1, <3>2, <3>3
  <2>2. CASE ~rd
    <3>1. rest = contents /\ left = count /\ rd_ptr' = rd_ptr
      BY <2>2, <1>1, <1>2, Slots DEF Queue!Rest
    <3> QED BY <3>1, <1>2, Slots
  <2> QED BY <2>1, <2>2
<1>5. /\ added \in Seq(Data) /\ added = IF wr THEN <<d>> ELSE <<>>
      /\ Len(added) = IF wr THEN 1 ELSE 0
  BY <1>2 DEF Queue!Added
<1>6. /\ rest \o added \in Seq(Data) /\ Len(rest \o added) = count'
      /\ \A i \in 1 .. count' : (rest \o added)[i] = IF i <= left THEN rest[i] ELSE added[i - left]
  BY <1>1, <1>4, <1>5, ConcatProperties
<1>7. ASSUME NEW i \in 1 .. count' PROVE contents'[i] = (rest \o added)[i]
  <2>1. contents'[i] = mem'[slot(rd_ptr' + i - 1)]
    BY <1>3 DEF slot, addr
  <2>2. rd_ptr' \in Nat /\ rd_ptr \in Nat /\ count \in Nat /\ i \in Nat
    BY <1>1, Slots, DepthIsNat DEF TypeOK, Pointer, count
  <2>3. CASE i <= left
    <3>1. slot(rd_ptr' + i - 1) \in Address /\ (wr => slot(rd_ptr' + i - 1) # addr(wr_ptr))
      BY <2>2, <2>3, <1>1, DepthIsNat DEF TypeOK, Pointer, Address, count, slot, addr, inc
    <3>2. mem'[slot(rd_ptr' + i - 1)] = mem[slot(rd_ptr' + i - 1)]
      BY <3>1, <1>1, Slots DEF TypeOK
    <3> QED BY <2>1, <2>3, <3>2, <1>4, <1>6
  <2>4. CASE ~(i <= left)
    <3>1. wr /\ i = left + 1
      BY <2>2, <2>4, <1>1, <1>4
    <3>2. slot(rd_ptr' + i - 1) = addr(wr_ptr)
      <4>1. slot(rd_ptr + count) = addr(wr_ptr)
        BY Slots
      <4>2. CASE rd
        <5>1. rd_ptr' + i - 1 = inc(rd_ptr) + (count - 1) /\ count > 0 /\ inc(rd_ptr) \in Nat
          BY <4>2, <3>1, <2>2, <1>1, DepthIsNat DEF inc
        <5>2. slot(inc(rd_ptr) + (count - 1)) = slot(rd_ptr + ((count - 1) + 1))
          BY <5>1, <2>2, Step
        <5> QED BY <5>1, <5>2, <4>1, <2>2
      <4>3. CASE ~rd
        BY <4>1, <4>3, <3>1, <2>2, <1>1
      <4> QED BY <4>2, <4>3
    <3>3. mem'[addr(wr_ptr)] = d
      BY <3>1, <1>1, Slots DEF TypeOK
    <3>4. (rest \o added)[i] = d
      <4>1. (rest \o added)[i] = added[i - left]
        BY <2>4, <1>6
      <4>2. i - left = 1
        BY <3>1, <1>4, <2>2
      <4>3. added = <<d>>
        BY <3>1, <1>5
      <4>4. added[1] = d
        BY <4>3
      <4> HIDE DEF added, rest, left
      <4> QED BY <4>1, <4>2, <4>4
    <3> QED BY <2>1, <3>2, <3>3, <3>4
  <2> QED BY <2>3, <2>4
<1>8. contents' = rest \o added
  BY <1>3, <1>6, <1>7, SeqEqual
<1>9. rd_data' = Queue!ReadPort(contents, rd_data, rd_en)
  <2>1. CASE rd
    <3>1. contents # <<>> /\ Head(contents) = contents[1] /\ 1 \in 1 .. count
      BY <2>1, <1>2, Slots
    <3>2. contents[1] = mem[addr(rd_ptr)]
      BY <3>1, <1>2, Slots
    <3> QED BY <2>1, <3>1, <3>2, <1>1 DEF Queue!ReadPort
  <2>2. CASE ~rd
    BY <2>2, <1>1, <1>2 DEF Queue!ReadPort
  <2> QED BY <2>1, <2>2
<1> QED BY <1>8, <1>9 DEF Queue!Clock, Queue!After
-----------------------------------------------------------------------------
LEMMA NextFifo == TypeOK /\ [Next]_vars => TypeOK' /\ [Queue!Next]_<<contents, rd_data>>
<1> SUFFICES ASSUME TypeOK, [Next]_vars
             PROVE  TypeOK' /\ [Queue!Next]_<<contents, rd_data>>
  OBVIOUS
<1>1. ASSUME NEW wr_en \in BOOLEAN, NEW rd_en \in BOOLEAN, NEW d \in Data,
             Clock(wr_en, d, rd_en)
      PROVE  TypeOK' /\ Queue!Next
  <2>1. TypeOK'
    BY <1>1, EdgeRegisters
  <2>2. Queue!Clock(wr_en, d, rd_en)
    BY <1>1, EdgeIsQueueEdge
  <2> QED BY <2>1, <2>2 DEF Queue!Next
<1>2. CASE Reset
  <2>1. TypeOK' /\ count' = 0
    BY <1>2, DepthIsNat, ZeroAssumption DEF Reset, TypeOK, Pointer, count
  <2>2. (TypeOK /\ count = 0 => contents = <<>>)'
    BY Contents, PTL
  <2>3. contents' = <<>>
    BY <2>1, <2>2
  <2> QED BY <1>2, <2>1, <2>3 DEF Reset, Queue!Next, Queue!Reset
<1>3. CASE UNCHANGED vars
  <2>1. TypeOK' /\ rd_data' = rd_data /\ contents' = contents
    BY <1>3 DEF vars, TypeOK, contents, count, slot, addr
  <2> QED BY <2>1
<1> QED BY <1>1, <1>2, <1>3 DEF Next

\* The circular buffer is a bounded queue with a registered read port: pointers with a
\* wrap bit, which meet both when it is empty and when it is full, lose, repeat and
\* reorder no word (sync_fifo.sv:24-48).
THEOREM BufferIsQueue == Spec => RefinesQueue
<1> QED BY InitFifo, NextFifo, PTL DEF Spec, RefinesQueue, Queue!Spec

\* And full and empty, computed from the pointers alone, are those of the queue: neither
\* is ever raised early or late (sync_fifo.sv:24-27).
THEOREM FlagsAreExact == Spec => []FlagsExact
<1>1. TypeOK => FlagsExact
  <2> SUFFICES ASSUME TypeOK PROVE FlagsExact
    OBVIOUS
  <2>1. full = Queue!full
    <3>1. (full <=> count = Depth) /\ Len(contents) = count
      BY FullEmpty, Contents
    <3>2. full \in BOOLEAN /\ Queue!full \in BOOLEAN
      BY DEF full, Queue!full
    <3> QED BY <3>1, <3>2 DEF Queue!full
  <2>2. empty = Queue!empty
    <3>1. (empty <=> count = 0) /\ (contents = <<>> <=> count = 0)
      BY FullEmpty, Contents
    <3>2. empty \in BOOLEAN /\ Queue!empty \in BOOLEAN
      BY DEF empty, Queue!empty
    <3> QED BY <3>1, <3>2 DEF Queue!empty
  <2> QED BY <2>1, <2>2 DEF FlagsExact
<1> QED BY <1>1, InitFifo, NextFifo, PTL DEF Spec
=============================================================================
