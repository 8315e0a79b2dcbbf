----------------------------- MODULE CreditLink -----------------------------
(***************************************************************************)
(* Credit flow control: rtl/credit_sender.sv at one end, rtl/credit_fifo.sv *)
(* at the other.  One step is one clock edge.  What joins the two is       *)
(*                                                                         *)
(* pipes   as in formal/credit_link.sv, which hold beats and credits back  *)
(*         for any number of cycles, at least one, or                      *)
(* wires   as in rtl/datapath_top.sv: what is sent is received and what is *)
(*         drained is returned in the same cycle.                          *)
(***************************************************************************)
EXTENDS Integers, Sequences

CONSTANTS Data,     \* values of a beat (the data path's byte, user and last bits)
          Zero,     \* the all-zero beat
          Depth     \* parameter DEPTH of both ends (CREDIT_DEPTH)

ASSUME CreditAssumption == Depth \in Nat \ {0} /\ Zero \in Data

VARIABLES wired,          \* the ends are joined by wires (never changes)
          credits,        \* credit_sender: beats it may still send
          fwd,            \* beats in the forward pipe, oldest first
          ret,            \* credits in the return pipe
          queue,          \* credit_fifo.u_fifo: words held
          rd_data,        \* credit_fifo.u_fifo: registered read port
          out_valid,      \* credit_fifo: rd_data holds a beat not yet taken
          taken,          \* history: last beat accepted from the source
          given,          \* history: last beat the destination took
          odd             \* history: parity of the beats it took

vars == <<wired, credits, fwd, ret, queue, rd_data, out_valid, taken, given, odd>>

Fifo == INSTANCE FifoQueue

Init == /\ wired \in BOOLEAN
        /\ credits = Depth
        /\ fwd = <<>> /\ ret = 0
        /\ Fifo!Init
        /\ out_valid = FALSE
        /\ taken = Zero /\ given = Zero /\ odd = FALSE
-----------------------------------------------------------------------------
\* Combinational outputs
src_ready    == credits # 0
credit_drain(dst_ready) == out_valid /\ dst_ready

\* Mistake: a beat sent in the cycle a credit comes back still costs one.
Sender_NetNegative(tx_valid, credit_return) ==
    credits' = IF tx_valid THEN credits - 1
               ELSE IF credit_return THEN credits + 1 ELSE credits

\* Mistake: a beat sent in the cycle a credit comes back gains one.
Sender_NetPositive(tx_valid, credit_return) ==
    credits' = IF credit_return THEN credits + 1
               ELSE IF tx_valid THEN credits - 1 ELSE credits

\* credit_sender: simultaneous events net zero.
Sender(tx_valid, credit_return) ==
    \/ tx_valid /\ ~credit_return /\ credits' = credits - 1
    \/ ~tx_valid /\ credit_return /\ credits' = credits + 1
    \/ tx_valid = credit_return /\ credits' = credits

\* Mistake: the held beat is overwritten by the next read.
rd_en_Eager(dst_ready) == ~Fifo!empty

\* Mistake: the first beat is not fetched ahead of the destination.
rd_en_NoPrefetch(dst_ready) == ~Fifo!empty /\ out_valid /\ dst_ready

rd_en(dst_ready) == ~Fifo!empty /\ (~out_valid \/ dst_ready)

\* credit_fifo: the queue, and the beat waiting at its read port.
Receiver(rx_valid, rx_data, dst_ready) ==
    /\ Fifo!Clock(rx_valid, rx_data, rd_en(dst_ready))
    /\ out_valid' = (rd_en(dst_ready) \/ (out_valid /\ ~dst_ready))

\* What the two handshakes of this edge showed the outside.
History(tx_valid, src_data, dst_ready) ==
    /\ taken' = IF tx_valid THEN src_data ELSE taken
    /\ given' = IF credit_drain(dst_ready) THEN rd_data ELSE given
    /\ odd' = (odd # credit_drain(dst_ready))
-----------------------------------------------------------------------------
\* What arrives at the receiver, and whether a credit arrives at the sender.  A pipe
\* delivers or not, and never what entered it in this cycle.
rx_valid(tx_valid, fwd_deliver) == IF wired THEN tx_valid ELSE fwd_deliver /\ fwd # <<>>
rx_data(src_data) == IF wired THEN src_data ELSE Head(fwd)
credit_return(drain, ret_deliver) == IF wired THEN drain ELSE ret_deliver /\ ret # 0

\* What the pipes hold after the edge; nothing is ever held by a wire.
Forward(tx_valid, src_data, arrives) ==
    fwd' = IF wired THEN fwd
           ELSE (IF arrives THEN Tail(fwd) ELSE fwd)
                  \o (IF tx_valid THEN <<src_data>> ELSE <<>>)

Return(drain, returned) ==
    \/ drain /\ ~returned /\ ret' = ret + 1
    \/ ~drain /\ returned /\ ret' = ret - 1
    \/ drain = returned /\ ret' = ret

\* A clock edge.  The source offers a beat or not, the pipes deliver or not, the
\* destination is ready or not.
Edge(src_valid, src_data, fwd_deliver, ret_deliver, dst_ready) ==
    LET tx_valid == src_valid /\ src_ready
        arrives  == rx_valid(tx_valid, fwd_deliver)
        drain    == credit_drain(dst_ready)
        returned == credit_return(drain, ret_deliver)
    IN  /\ Sender(tx_valid, returned)
        /\ Forward(tx_valid, src_data, arrives)
        /\ Return(drain, returned)
        /\ Receiver(arrives, rx_data(src_data), dst_ready)
        /\ History(tx_valid, src_data, dst_ready)
        /\ UNCHANGED wired

\* Mistake: the sender is reset without the receiver.
Reset_SenderOnly == /\ credits' = Depth
                    /\ UNCHANGED <<wired, fwd, ret, queue, rd_data, out_valid, taken, given, odd>>

\* rst_n low: both ends and whatever is between them.
Reset == /\ credits' = Depth
         /\ fwd' = <<>> /\ ret' = 0
         /\ Fifo!Reset
         /\ out_valid' = FALSE
         /\ taken' = Zero /\ given' = Zero /\ odd' = FALSE
         /\ UNCHANGED wired

Next == \/ \E sv, fd, rd, dr \in BOOLEAN, d \in Data : Edge(sv, d, fd, rd, dr)
        \/ Reset

Spec == Init /\ [][Next]_vars
-----------------------------------------------------------------------------
held == IF out_valid THEN 1 ELSE 0

\* Each register within the range its width was chosen for; a wire holds nothing.
TypeOK == /\ wired \in BOOLEAN
          /\ credits \in 0 .. Depth
          /\ fwd \in Seq(Data) /\ Len(fwd) <= Depth
          /\ ret \in 0 .. Depth
          /\ wired => fwd = <<>> /\ ret = 0
          /\ Fifo!TypeOK
          /\ out_valid \in BOOLEAN
          /\ taken \in Data /\ given \in Data /\ odd \in BOOLEAN

\* Every one of the Depth credits is somewhere: with the sender, riding on a
\* beat in the forward pipe, on a beat held by the receiver, or coming back.
\* Simultaneous sends and returns, in any combination, neither mint nor burn
\* one (credit_sender.sv:28-31, credit_fifo.sv:43-53; credit_link.sv:77).
Conservation == credits + Len(fwd) + Len(queue) + held + ret = Depth

\* A beat that arrives always finds room: while the queue is full nothing is on its
\* way and nothing can be sent, or it would be dropped silently (credit_fifo.sv:61,
\* sync_fifo.sv:35).
NoOverflow == Fifo!full => fwd = <<>> /\ credits = 0
=============================================================================
