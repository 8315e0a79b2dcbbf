------------------------------ MODULE AxisSkid ------------------------------
(***************************************************************************)
(* rtl/axis_skid.sv: a register slice with one place of slack, so that     *)
(* s_tready can be a register.  Its state is one record, for the switch    *)
(* has an array of them; None stands for a register whose valid bit is low *)
(* and a beat carries its data and last together.                          *)
(***************************************************************************)
CONSTANT None           \* no beat

\* m: the output register; skid: the place of slack
Empty == [m |-> None, skid |-> None]

s_tready(sk) == sk.skid = None

out_free(sk, m_tready) == sk.m = None \/ m_tready

\* skid is filled by a transfer the stalled output has no room for, and emptied
\* into the output once that moves.
NextSkid(sk, beat, m_tready) ==
    IF beat # None /\ s_tready(sk) /\ ~out_free(sk, m_tready) THEN beat
    ELSE IF out_free(sk, m_tready) THEN None
    ELSE sk.skid

\* Mistake: a fresh beat overtakes the one in the place of slack.
NextM_Overtake(sk, beat, m_tready) ==
    IF ~out_free(sk, m_tready) THEN sk.m
    ELSE IF beat # None THEN beat ELSE sk.skid

NextM(sk, beat, m_tready) ==
    IF ~out_free(sk, m_tready) THEN sk.m
    ELSE IF sk.skid # None THEN sk.skid ELSE beat

\* One clock edge: beat is what the source offers (None: s_tvalid low).
Clocked(sk, beat, m_tready) == [m    |-> NextM(sk, beat, m_tready),
                                skid |-> NextSkid(sk, beat, m_tready)]
=============================================================================
