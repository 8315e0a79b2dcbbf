------------------------------ MODULE AxilCsr ------------------------------
(***************************************************************************)
(* rtl/axil_csr.sv: a file of registers behind an AXI4-Lite port.  The     *)
(* lower half is written and read by the host and drives the data path,    *)
(* the upper half shows its state.  As operators on a record:              *)
(*                                                                         *)
(*   awready, wready, arready    the file takes an address, a word, an     *)
(*                               address to read                           *)
(*   bvalid, rvalid, rdata       its answers                               *)
(*   regs                        the lower half, which no reset clears     *)
(*                                                                         *)
(* Words are opaque.  The strobes are all ones (uart_axil.sv:87), so a     *)
(* write replaces a word.  m is the state of the master, which is always   *)
(* ready for an answer (uart_axil.sv:88, 91).                              *)
(***************************************************************************)
EXTENDS Integers

CONSTANTS NumRw     \* registers in each half (16)

ASSUME CsrAssumption == NumRw \in Nat \ {0}

RwIndex == 0 .. NumRw - 1

ResetCsr(regs, rdata) ==
    [awready |-> FALSE, wready |-> FALSE, arready |-> FALSE,
     bvalid |-> FALSE, rvalid |-> FALSE, rdata |-> rdata, regs |-> regs]

\* Word addresses wrap at the top of the file.
index(addr) == addr % (2 * NumRw)

wr_xfer(s, m) == s.awready /\ m.awvalid /\ s.wready /\ m.wvalid
rd_xfer(s, m) == s.arready /\ m.arvalid

\* Mistake: a write to the upper half lands in the lower.
regsNext_Aliased(s, m) ==
    IF wr_xfer(s, m) THEN [s.regs EXCEPT ![index(m.addr) % NumRw] = m.shift] ELSE s.regs

\* The upper half is read only.
regsNext(s, m) ==
    IF wr_xfer(s, m) /\ index(m.addr) \in RwIndex
    THEN [s.regs EXCEPT ![index(m.addr)] = m.shift] ELSE s.regs

\* status is what the upper half shows.
rdataNext(s, m, status) ==
    IF ~rd_xfer(s, m) THEN s.rdata
    ELSE IF index(m.addr) \in RwIndex THEN s.regs[index(m.addr)]
    ELSE status[index(m.addr) - NumRw]

\* One clock edge.
CsrClocked(s, m, status) ==
    [awready |-> ~s.awready /\ m.awvalid /\ m.wvalid,
     wready  |-> ~s.wready /\ m.awvalid /\ m.wvalid,
     arready |-> ~s.arready /\ m.arvalid,
     bvalid  |-> wr_xfer(s, m),
     rvalid  |-> rd_xfer(s, m),
     rdata   |-> rdataNext(s, m, status),
     regs    |-> regsNext(s, m)]

\* An edge with rst_n low clears the flags; an access that is due takes effect even so.
CsrCleared(s, m, status) == ResetCsr(regsNext(s, m), rdataNext(s, m, status))
=============================================================================
