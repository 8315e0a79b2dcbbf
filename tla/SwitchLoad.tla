----------------------------- MODULE SwitchLoad -----------------------------
(***************************************************************************)
(* The switch under full load, as the harness of tb/axis_switch_tb.sv      *)
(* drives it: every input always has a frame for every output, all frames  *)
(* are FrameLen beats long, and the readers stall as they like.            *)
(***************************************************************************)
EXTENDS AxisSwitch

CONSTANT FrameLen       \* parameter PKT_LEN of the harness

VARIABLE pos            \* pos[j]: the next beat of the frame input j is sending

loadVars == <<paired, gmask, amask, sk, pos>>

Init == SwitchInit /\ pos = [j \in In |-> 0]

\* Every queue is backlogged.
navail == [j \in In |-> Out]

\* The queue an input is paired for serves; the others wait.
beat == [j \in In |-> IF paired[j] = None THEN None
                      ELSE [src |-> j, last |-> pos[j] = FrameLen - 1]]

Clock(rdy) ==
    /\ SwitchClock(navail, beat, rdy)
    /\ pos' = [j \in In |-> IF ~xfer(beat, j) THEN pos[j]
                            ELSE IF beat[j].last THEN 0 ELSE pos[j] + 1]

Next == \E rdy \in SUBSET Out : Clock(rdy)

Spec == Init /\ [][Next]_loadVars

\* Every reader is ready again and again.
FairSpec == Spec /\ \A i \in Out : WF_loadVars(\E rdy \in SUBSET Out : i \in rdy /\ Clock(rdy))
-----------------------------------------------------------------------------
\* Each flow, from one input to one output, is served again and again under full
\* load, as the harness expects of the switch (tb/axis_switch_tb.sv:190).
EveryFlowServed == \A j \in In, i \in Out : []<>(paired[j] = i)
=============================================================================
