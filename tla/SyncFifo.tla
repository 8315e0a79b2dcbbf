------------------------------ MODULE SyncFifo ------------------------------
(***************************************************************************)
(* rtl/sync_fifo.sv: the circular buffer under every queue of the data     *)
(* path.  The two pointers carry one bit more than an address, so that a   *)
(* full buffer and an empty one, whose addresses agree, can be told apart. *)
(***************************************************************************)
EXTENDS Integers, Sequences

CONSTANTS Data,     \* values of a word
          Zero,     \* the all-zero word, to which reset clears rd_data
          Depth     \* parameter DEPTH

ASSUME ZeroAssumption == Zero \in Data

\* The pointers wrap where their bits end, so the code's DEPTH must be a power
\* of two; every instance in rtl/ is 16 or 2048.
ASSUME DepthAssumption == /\ Depth \in Nat \ {0}
                          /\ \E w \in 0 .. Depth : Depth = 2 ^ w

VARIABLES mem,      \* the memory, never reset
          wr_ptr,   \* Aw+1 bits: the top one is the wrap bit
          rd_ptr,
          rd_data   \* registered read port

vars == <<mem, wr_ptr, rd_ptr, rd_data>>

Address == 0 .. Depth - 1
Pointer == 0 .. 2 * Depth - 1

\* ptr[AW-1:0], ptr[AW] and ptr + 1 in Aw+1 bits
addr(ptr) == IF ptr >= Depth THEN ptr - Depth ELSE ptr
wrap(ptr) == ptr >= Depth
inc(ptr)  == IF ptr = 2 * Depth - 1 THEN 0 ELSE ptr + 1

\* Mistake: the last place is never used.
full_Early == IF wr_ptr >= rd_ptr THEN wr_ptr - rd_ptr >= Depth - 1
                                  ELSE wr_ptr - rd_ptr + 2 * Depth >= Depth - 1

full  == wrap(wr_ptr) # wrap(rd_ptr) /\ addr(wr_ptr) = addr(rd_ptr)
empty == wr_ptr = rd_ptr
count == IF wr_ptr >= rd_ptr THEN wr_ptr - rd_ptr
                             ELSE wr_ptr - rd_ptr + 2 * Depth

\* Power-up: the memory holds anything; reset precedes every use, so the
\* state just after it is the first one modelled.
Init == /\ mem \in [Address -> Data]
        /\ wr_ptr = 0
        /\ rd_ptr = 0
        /\ rd_data = Zero

\* Mistake: the write is not refused by a full buffer.
WritePort_Unguarded(wr_en, wr_data) ==
    \/ /\ wr_en
       /\ mem' = [mem EXCEPT ![addr(wr_ptr)] = wr_data]
       /\ wr_ptr' = inc(wr_ptr)
    \/ ~wr_en /\ UNCHANGED <<mem, wr_ptr>>

WritePort(wr_en, wr_data) ==
    \/ /\ wr_en /\ ~full
       /\ mem' = [mem EXCEPT ![addr(wr_ptr)] = wr_data]
       /\ wr_ptr' = inc(wr_ptr)
    \/ /\ ~wr_en \/ full
       /\ UNCHANGED <<mem, wr_ptr>>

ReadPort(rd_en) ==
    \/ /\ rd_en /\ ~empty
       /\ rd_data' = mem[addr(rd_ptr)]
       /\ rd_ptr' = inc(rd_ptr)
    \/ /\ ~rd_en \/ empty
       /\ UNCHANGED <<rd_data, rd_ptr>>

\* One clock edge: both ports act on the state before it.
Clock(wr_en, wr_data, rd_en) == WritePort(wr_en, wr_data) /\ ReadPort(rd_en)

\* Mistake: the pointers have no reset branch.
Reset_DataOnly == rd_data' = Zero /\ UNCHANGED <<mem, wr_ptr, rd_ptr>>

\* rst_n low: pointers return to zero, the memory keeps what it held.
Reset == /\ wr_ptr' = 0 /\ rd_ptr' = 0
         /\ rd_data' = Zero
         /\ UNCHANGED mem

Next == \/ \E wr_en, rd_en \in BOOLEAN, d \in Data : Clock(wr_en, d, rd_en)
        \/ Reset

Spec == Init /\ [][Next]_vars
-----------------------------------------------------------------------------
\* The pointers stay in Aw+1 bits and never drift further apart than DEPTH, so
\* count is the number of words held and full, empty describe it.
TypeOK == /\ mem \in [Address -> Data]
          /\ wr_ptr \in Pointer
          /\ rd_ptr \in Pointer
          /\ rd_data \in Data
          /\ count \in 0 .. Depth

\* The words between the read and the write pointer, oldest first.
slot(p)  == IF p >= 2 * Depth THEN p - 2 * Depth ELSE addr(p)
contents == [i \in 1 .. count |-> mem[slot(rd_ptr + i - 1)]]

Queue == INSTANCE FifoQueue WITH queue <- contents

\* Whatever the order of reads, writes, simultaneous reads and writes, and
\* resets, and however often the pointers wrap, the buffer behaves as a bounded
\* queue: no word is lost, repeated, reordered or resurrected by a reset.
RefinesQueue == Queue!Spec

\* What the users of the buffer are shown of it is the queue's own: full is raised
\* neither a word early, or its last place would never be used, nor late, and empty
\* at once when the last word leaves, also where the pointers have wrapped
\* (sync_fifo.sv:24-27).
FlagsExact == full = Queue!full /\ empty = Queue!empty
=============================================================================
