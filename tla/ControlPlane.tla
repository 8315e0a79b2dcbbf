---------------------------- MODULE ControlPlane ----------------------------
(***************************************************************************)
(* Registers over the serial line: the host (read_register,                *)
(* write_register of host/measure.py), the line, the bridge (UartAxil) and *)
(* the register file (AxilCsr), with what can go wrong between them: bytes *)
(* are lost, the program is killed within a command, the board is reset.   *)
(*                                                                         *)
(* Time: a byte on the line takes ten thousand clock cycles, an access to  *)
(* a register less than ten, so no byte comes in during one.  The host     *)
(* waits two seconds for an answer and a program takes far longer to start *)
(* than a command: by then the line is quiet.                              *)
(***************************************************************************)
EXTENDS UartAxil

CONSTANTS Address,  \* addresses the host uses
          Word,     \* values the host writes and the board shows
          Faults    \* bound: bytes lost, programs killed and resets

ASSUME HostAssumption == /\ Faults \in Nat
                         /\ Word \subseteq [1 .. NumBytes -> Int]
                         /\ Address \subseteq Nat /\ Address \cap {CmdRead, CmdWrite} = {}

VARIABLES m,        \* the bridge
          s,        \* the register file
          status,   \* what its upper half shows
          toBoard,  \* bytes on their way to the board
          sending,  \* the byte the uart of the board is sending, if any
          inbox,    \* bytes the host has received
          h,        \* the host: what it does, the address, the word
          clean,    \* history: the command began with the bridge at rest, and no
                    \* fault has happened since
          seen,     \* history: what the register has shown since the command began
          heard,    \* history: bytes that have come in since the bridge last waited
                    \* for a command or answered one
          faults    \* faults still to come

vars == <<m, s, status, toBoard, sending, inbox, h, clean, seen, heard, faults>>

Idle == [doing |-> "idle", addr |-> 0, word |-> Zeros]
Gone == [Idle EXCEPT !.doing = "gone"]

Init == /\ m = ResetBridge /\ s = ResetCsr([k \in RwIndex |-> Zeros], Zeros)
        /\ status \in [RwIndex -> Word]
        /\ toBoard = <<>> /\ sending = <<>> /\ inbox = <<>>
        /\ h = Idle /\ clean = TRUE /\ seen = {} /\ heard = <<>>
        /\ faults = Faults
-----------------------------------------------------------------------------
\* What a register holds.
Shown(i, regs, upper) == IF i \in RwIndex THEN regs[i] ELSE upper[i - NumRw]

AtRest == /\ toBoard = <<>> /\ sending = <<>> /\ ~m.tx_valid
          /\ m.state \in {"GET_CMD", "GET_ADDR", "GET_DATA"}

\* One clock edge: a byte comes in or not, the byte that is sent arrives or not, and the
\* upper half shows what it likes.
Tick(comes, arrives, upper) ==
    LET rx == IF comes /\ toBoard # <<>> THEN {Head(toBoard)} ELSE {}
        tx_ready == sending = <<>>
    IN  /\ comes => toBoard # <<>> /\ m.state \notin {"DO_WRITE", "DO_READ"}
        /\ arrives => sending # <<>>
        /\ m' = BridgeClocked(m, s, rx, tx_ready)
        /\ s' = CsrClocked(s, m, status)
        /\ status' = upper
        /\ toBoard' = IF comes THEN Tail(toBoard) ELSE toBoard
        /\ sending' = IF arrives THEN <<>>
                      ELSE IF m.tx_valid /\ tx_ready THEN <<m.tx_byte>> ELSE sending
        /\ inbox' = inbox \o (IF arrives THEN sending ELSE <<>>)
        /\ seen' = IF h.doing = "read" THEN seen \cup {Shown(index(h.addr), s'.regs, upper)}
                   ELSE {}
        /\ heard' = IF m'.state \in {"GET_CMD", "SEND"} THEN <<>>
                    ELSE heard \o (IF comes THEN <<Head(toBoard)>> ELSE <<>>)
        /\ UNCHANGED <<h, clean, faults>>

\* Received bytes are thrown away, then the command is sent.
Issue(doing, addr, word, bytes) ==
    /\ h = Idle
    /\ h' = [doing |-> doing, addr |-> addr, word |-> word]
    /\ toBoard' = toBoard \o bytes /\ inbox' = <<>>
    /\ clean' = (AtRest /\ m.state = "GET_CMD")
    /\ seen' = IF doing = "read" THEN {Shown(index(addr), s.regs, status)} ELSE {}
    /\ UNCHANGED <<m, s, status, sending, heard, faults>>

Read(addr)        == Issue("read", addr, Zeros, <<CmdRead, addr>>)
Write(addr, word) == Issue("write", addr, word, <<CmdWrite, addr>> \o word)

Answered == \/ h.doing = "read" /\ Len(inbox) >= NumBytes
            \/ h.doing = "write" /\ inbox # <<>>

\* A program ends when the answer to a write is not the letter K.
Return == /\ Answered
          /\ h' = IF h.doing = "write" /\ Head(inbox) # WriteAck THEN Gone ELSE Idle
          /\ UNCHANGED <<m, s, status, toBoard, sending, inbox, clean, seen, heard,
                          faults>>

\* It ends when the answer is not complete in time (measure.py:195, 205).
Timeout == /\ h.doing \in {"read", "write"} /\ ~Answered /\ AtRest /\ h' = Gone
           /\ UNCHANGED <<m, s, status, toBoard, sending, inbox, clean, seen, heard,
                          faults>>

\* And is started again.
Restart == /\ h = Gone /\ AtRest /\ h' = Idle
           /\ UNCHANGED <<m, s, status, toBoard, sending, inbox, clean, seen, heard,
                          faults>>

Fault == faults > 0 /\ faults' = faults - 1 /\ clean' = FALSE /\ UNCHANGED status

\* The program is killed: the rest of its command is not sent.
Kill == /\ Fault /\ h' = Gone /\ toBoard' = <<>>
        /\ UNCHANGED <<m, s, sending, inbox, seen, heard>>

Noise == /\ Fault
         /\ \/ toBoard # <<>> /\ toBoard' = Tail(toBoard) /\ UNCHANGED sending
            \/ sending # <<>> /\ sending' = <<>> /\ UNCHANGED toBoard
         /\ UNCHANGED <<m, s, inbox, h, seen, heard>>

\* The write or read of a register that was due is still made.
Reset == /\ Fault /\ m' = ResetBridge /\ s' = CsrCleared(s, m, status)
         /\ sending' = <<>> /\ heard' = <<>>
         /\ seen' = IF h.doing = "read" THEN seen \cup {Shown(index(h.addr), s'.regs, status)}
                    ELSE {}
         /\ UNCHANGED <<toBoard, inbox, h>>

Host == \/ \E addr \in Address : Read(addr) \/ \E word \in Word : Write(addr, word)
        \/ Return \/ Timeout \/ Restart

Ticks == \E comes, arrives \in BOOLEAN, upper \in [RwIndex -> Word] :
            Tick(comes, arrives, upper)

Next == Ticks \/ Host \/ Kill \/ Noise \/ Reset

Spec == Init /\ [][Next]_vars

\* The line and the bridge go on, a byte that is on the line gets through, and so does
\* the host, which tries again and again.
Onward == \E upper \in [RwIndex -> Word] :
             Tick(toBoard # <<>> /\ m.state \notin {"DO_WRITE", "DO_READ"}, sending # <<>>, upper)

FairSpec == Spec /\ WF_vars(Onward) /\ WF_vars(Host)
-----------------------------------------------------------------------------
\* A read that was not disturbed returns a value the register has shown while it lasted,
\* never bytes of two values (axil_csr.sv:104, uart_axil.sv:158).
ReadExact == clean /\ h.doing = "read" /\ Answered => SubSeq(inbox, 1, NumBytes) \in seen

\* A write that was not disturbed is in force when it is acknowledged.
AckedInForce ==
    clean /\ h.doing = "write" /\ Answered =>
        /\ Head(inbox) = WriteAck
        /\ index(h.addr) \in RwIndex => s.regs[index(h.addr)] = h.word

\* A command that was not disturbed is answered, with no byte missing and none over that
\* the next command would take for its answer.
OneAnswer ==
    clean /\ h.doing \in {"read", "write"} /\ AtRest /\ toBoard = <<>> =>
        Len(inbox) = IF h.doing = "read" THEN NumBytes ELSE 1

\* Whatever has been lost, cut short or reset, a register changes only by a whole write
\* command, W, its address and its word, that came in byte by byte: none has more bytes
\* than it should, or bytes of an earlier one.  If nothing was disturbed, it is the
\* command the host is at (axil_csr.sv:97-103, uart_axil.sv:111-143).
OnlyWritten ==
    [][s'.regs # s.regs =>
          /\ Len(heard) = NumBytes + 2 /\ heard[1] = CmdWrite
          /\ s'.regs = [s.regs EXCEPT ![index(heard[2])] = SubSeq(heard, 3, NumBytes + 2)]
          /\ clean => h.doing = "write" /\ heard = <<CmdWrite, h.addr>> \o h.word]_vars

\* After the last fault, a host that only tries again is soon understood: each command
\* it sends uses up some of what the bridge still waits for, and no byte but the first
\* looks like a command.
Resyncs == <>[](h.doing \in {"read", "write"} => clean)
=============================================================================
