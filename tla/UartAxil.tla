------------------------------ MODULE UartAxil ------------------------------
(***************************************************************************)
(* rtl/uart_axil.sv: turns bytes from the serial line into register        *)
(* accesses and sends the answers back.  A read is the letter R and an     *)
(* address, answered by a word; a write is the letter W, an address and a  *)
(* word, answered by the letter K.  Words go least byte first.  There is   *)
(* no end mark and no timeout.  As operators on a record whose fields have *)
(* the names of the registers; a word is the sequence of its bytes.        *)
(***************************************************************************)
EXTENDS AxilCsr, Sequences

CONSTANTS CmdRead, CmdWrite, WriteAck,  \* R, W, K
          NumBytes                      \* bytes per word (4)

ASSUME BridgeAssumption == /\ NumBytes \in Nat \ {0} /\ CmdRead # CmdWrite
                           /\ {CmdRead, CmdWrite, WriteAck} \subseteq Nat

Zeros == [k \in 1 .. NumBytes |-> 0]

ResetBridge ==
    [state |-> "GET_CMD", awvalid |-> FALSE, wvalid |-> FALSE, arvalid |-> FALSE,
     tx_valid |-> FALSE, tx_byte |-> 0, count |-> 0, send_len |-> 0,
     is_read |-> FALSE, addr |-> 0, shift |-> Zeros]

Shifted(m, byte) == Append(Tail(m.shift), byte)

(* One clock edge in each state.  rx is the set of bytes that come in: none or one. *)

\* Mistake: what is not a read is taken for a write.
GetCmd_AnyByte(m, rx) ==
    IF rx = {} THEN [m EXCEPT !.count = 0]
    ELSE [m EXCEPT !.count = 0, !.is_read = CmdRead \in rx, !.state = "GET_ADDR"]

\* Mistake: the count of the bytes sent last is kept.
GetCmd_KeepsCount(m, rx) ==
    IF rx \cap {CmdRead, CmdWrite} = {} THEN m
    ELSE [m EXCEPT !.is_read = CmdRead \in rx, !.state = "GET_ADDR"]

GetCmd(m, rx) ==
    IF rx \cap {CmdRead, CmdWrite} = {} THEN [m EXCEPT !.count = 0]
    ELSE [m EXCEPT !.count = 0, !.is_read = CmdRead \in rx, !.state = "GET_ADDR"]

GetAddr(m, rx) ==
    IF rx = {} THEN m
    ELSE [m EXCEPT !.addr = CHOOSE byte \in rx : TRUE, !.arvalid = m.is_read,
                   !.state = IF m.is_read THEN "DO_READ" ELSE "GET_DATA"]

GetData(m, rx) ==
    IF rx = {} THEN m
    ELSE LET full == m.count = NumBytes - 1
         IN  [m EXCEPT !.shift = Shifted(m, CHOOSE byte \in rx : TRUE), !.count = @ + 1,
                       !.awvalid = full, !.wvalid = full,
                       !.state = IF full THEN "DO_WRITE" ELSE "GET_DATA"]

DoWrite(m, s) ==
    LET taken == [m EXCEPT !.awvalid = @ /\ ~s.awready, !.wvalid = @ /\ ~s.wready]
    IN  IF s.bvalid
        THEN [taken EXCEPT !.shift = [Zeros EXCEPT ![1] = WriteAck],
                           !.send_len = 1, !.count = 0, !.state = "SEND"]
        ELSE taken

\* Mistake: the word is taken along with the address, a cycle early.
DoRead_Early(m, s) ==
    LET taken == [m EXCEPT !.arvalid = @ /\ ~s.arready]
    IN  IF rd_xfer(s, m)
        THEN [taken EXCEPT !.shift = s.rdata,
                           !.send_len = NumBytes, !.count = 0, !.state = "SEND"]
        ELSE taken

DoRead(m, s) ==
    LET taken == [m EXCEPT !.arvalid = @ /\ ~s.arready]
    IN  IF s.rvalid
        THEN [taken EXCEPT !.shift = s.rdata,
                           !.send_len = NumBytes, !.count = 0, !.state = "SEND"]
        ELSE taken

\* Mistake: a byte is counted when it is offered, and again when it is taken.
Send_Early(m, tx_ready) ==
    IF ~tx_ready THEN m
    ELSE IF ~m.tx_valid THEN [m EXCEPT !.tx_valid = TRUE, !.tx_byte = Head(m.shift),
                                       !.count = @ + 1]
    ELSE [m EXCEPT !.tx_valid = FALSE, !.shift = Shifted(m, 0),
                   !.state = IF m.count >= m.send_len - 1 THEN "GET_CMD" ELSE "SEND"]

Send(m, tx_ready) ==
    IF ~tx_ready THEN m
    ELSE IF ~m.tx_valid THEN [m EXCEPT !.tx_valid = TRUE, !.tx_byte = Head(m.shift)]
    ELSE [m EXCEPT !.tx_valid = FALSE, !.shift = Shifted(m, 0), !.count = @ + 1,
                   !.state = IF m.count = m.send_len - 1 THEN "GET_CMD" ELSE "SEND"]

BridgeClocked(m, s, rx, tx_ready) ==
    CASE m.state = "GET_CMD"  -> GetCmd(m, rx)
      [] m.state = "GET_ADDR" -> GetAddr(m, rx)
      [] m.state = "GET_DATA" -> GetData(m, rx)
      [] m.state = "DO_WRITE" -> DoWrite(m, s)
      [] m.state = "DO_READ"  -> DoRead(m, s)
      [] m.state = "SEND"     -> Send(m, tx_ready)
=============================================================================
