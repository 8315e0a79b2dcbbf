----------------------------- MODULE AxisSwitch -----------------------------
(***************************************************************************)
(* rtl/axis_switch.sv: inputs are matched to outputs in two stages, each a *)
(* row of rr_arbiters: every free output grants one of the free inputs     *)
(* that has a frame for it, every input accepts one of its grants.  The    *)
(* pairing lasts until the input has sent the last beat of a frame.        *)
(*                                                                         *)
(* paired[j] stands for in_busy[j] and in_out[j]: the output input j is    *)
(* paired with, or None.                                                   *)
(***************************************************************************)
EXTENDS RoundRobin, AxisSkid

CONSTANTS NIn, NOut     \* parameters N_IN and N_OUT

ASSUME SwitchAssumption == NIn \in Nat \ {0} /\ NOut \in Nat \ {0}

In  == 0 .. NIn - 1
Out == 0 .. NOut - 1

VARIABLES paired,       \* the pairing in force
          gmask,        \* the grant arbiters' masks, one per output
          amask,        \* the accept arbiters' masks, one per input
          sk            \* the skid of each output

switchVars == <<paired, gmask, amask, sk>>

SwitchInit == /\ paired = [j \in In |-> None]
              /\ gmask = [i \in Out |-> In]
              /\ amask = [j \in In |-> Out]
              /\ sk = [i \in Out |-> Empty]

\* Mistake: a taken output keeps granting.
req_TakenOutput(navail) == [i \in Out |-> {j \in In : i \in navail[j] /\ paired[j] = None}]

\* Unmatched only.  navail[j] is what input j has a frame for.
req(navail) == [i \in Out |-> {j \in In : /\ i \in navail[j]
                                          /\ paired[j] = None
                                          /\ \A k \in In : paired[k] # i}]

\* The grant stage, over the requests r.
gnt(r) == [i \in Out |-> rr_grant(r[i], gmask[i])]

\* The accept stage, over the grants g.
acc(g) == [j \in In |-> rr_grant({i \in Out : j \in g[i]}, amask[j])]

\* hold is low; the grant was won if the input granted accepted it.
gmaskNext(g, a) == [i \in Out |-> IF \E j \in g[i] : i \in a[j]
                                  THEN Above(In, g[i]) ELSE gmask[i]]

amaskNext(a) == [j \in In |-> IF a[j] # {} THEN Above(Out, a[j]) ELSE amask[j]]

ready(j) == paired[j] # None /\ s_tready(sk[paired[j]])

\* beat[j] is what input j offers (None: s_tvalid low).
xfer(beat, j) == beat[j] # None /\ ready(j)

\* Mistake: the pairing ends with the last beat offered, taken or not.
pairedNext_Offered(beat, a) ==
    [j \in In |-> IF paired[j] # None
                  THEN IF beat[j] # None /\ beat[j].last THEN None ELSE paired[j]
                  ELSE IF a[j] # {} THEN CHOOSE i \in a[j] : TRUE ELSE None]

pairedNext(beat, a) ==
    [j \in In |-> IF paired[j] # None
                  THEN IF xfer(beat, j) /\ beat[j].last THEN None ELSE paired[j]
                  ELSE IF a[j] # {} THEN CHOOSE i \in a[j] : TRUE ELSE None]

\* The mux of an output ORs the beats of the inputs paired with it; that there
\* is only one is what Matching says, so any of them will do here.
muxed(beat, i) == LET from == {j \in In : paired[j] = i /\ beat[j] # None}
                  IN  IF from = {} THEN None ELSE beat[CHOOSE j \in from : TRUE]

\* One clock edge.  rdy is the set of outputs whose reader is ready.
SwitchClock(navail, beat, rdy) ==
    LET g == gnt(req(navail))
        a == acc(g)
    IN  /\ paired' = pairedNext(beat, a)
        /\ gmask' = gmaskNext(g, a)
        /\ amask' = amaskNext(a)
        /\ sk' = [i \in Out |-> Clocked(sk[i], muxed(beat, i), i \in rdy)]

SwitchReset == /\ paired' = [j \in In |-> None]
               /\ gmask' = [i \in Out |-> In]
               /\ amask' = [j \in In |-> Out]
               /\ sk' = [i \in Out |-> Empty]

\* No output listens to two inputs (axis_switch.sv:263).
Matching == \A j, k \in In : paired[j] = paired[k] /\ paired[j] # None => j = k
=============================================================================
