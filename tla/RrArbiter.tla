------------------------------ MODULE RrArbiter ------------------------------
(***************************************************************************)
(* rtl/rr_arbiter.sv: a round-robin arbiter whose winner may hold its      *)
(* grant, and whose pointer moves only when the grant was won.             *)
(*                                                                         *)
(* The environment keeps to the contract of the module: a requester keeps  *)
(* its request up until it has been granted and released                   *)
(* (rr_arbiter.sv:110-116).                                                *)
(***************************************************************************)
EXTENDS RoundRobin

CONSTANT N              \* parameter N, the number of requesters

ASSUME ArbiterAssumption == N \in Nat \ {0}

Ports == 0 .. N - 1

VARIABLES mask,         \* ports above the last winner
          holding,      \* the grant is held
          held_grant,
          reqs,         \* input req: the requests standing in this cycle
          beaten        \* history: beaten[p], those released while p waited, once
                        \* or more and twice or more

arbVars == <<mask, holding, held_grant, reqs, beaten>>

grant == IF holding THEN held_grant ELSE rr_grant(reqs, mask)

NoOne == [once |-> {}, twice |-> {}]

ArbInit == /\ mask = Ports
           /\ holding = FALSE
           /\ held_grant = {}       \* not reset; never read before it is written
           /\ reqs \in SUBSET Ports
           /\ beaten = [p \in Ports |-> NoOne]

\* Mistake: the pointer moves when a grant is given, won or not.
NextMask_Eager(won) == IF grant # {} THEN Above(Ports, grant) ELSE mask

NextMask(won) == IF grant # {} /\ won THEN Above(Ports, grant) ELSE mask

\* Mistake: the winner is caught only when the grant is first given away.
Held_Stale == IF grant = {} THEN rr_grant(reqs, mask) ELSE held_grant

Held == IF holding THEN held_grant ELSE rr_grant(reqs, mask)

\* Released in this cycle: granted, won and not held.
released(hold, won) == IF won /\ ~hold THEN grant ELSE {}

\* A port waits from its request until it wins its grant: a grant that is lost
\* before it was won is no service.
Overtaken(hold, won) ==
    [p \in Ports |->
        IF p \notin reqs \/ (won /\ p \in grant) THEN NoOne
        ELSE [once  |-> beaten[p].once \cup released(hold, won),
              twice |-> beaten[p].twice \cup (beaten[p].once \cap released(hold, won))]]

\* One clock edge.  After it the requests that stand are those not released and
\* any new ones.
ArbClock(hold, won, fresh) ==
    /\ mask' = NextMask(won)
    /\ holding' = IF grant # {} THEN hold ELSE holding
    /\ held_grant' = Held
    /\ reqs' = (reqs \ released(hold, won)) \cup fresh
    /\ beaten' = Overtaken(hold, won)

\* rst_n low.  It resets the requesters too; held_grant keeps what it holds.
ArbReset == /\ mask' = Ports
            /\ holding' = FALSE
            /\ UNCHANGED held_grant
            /\ reqs' = {}
            /\ beaten' = [p \in Ports |-> NoOne]

ArbNext == \/ \E hold, won \in BOOLEAN, fresh \in SUBSET Ports : ArbClock(hold, won, fresh)
           \/ ArbReset

ArbSpec == ArbInit /\ [][ArbNext]_arbVars

\* A winner uses its grant and lets go of it in the end (MaxStick and MaxBurst
\* of the module's contract).
ArbFairSpec == /\ ArbSpec
               /\ WF_arbVars(/\ grant # {}
                             /\ \E fresh \in SUBSET Ports : ArbClock(FALSE, TRUE, fresh))
-----------------------------------------------------------------------------
\* The mask is a run of ports up to the highest (rr_arbiter.sv:137).
ArbTypeOK == /\ mask \in {p .. N - 1 : p \in 0 .. N}
             /\ holding \in BOOLEAN
             /\ held_grant \in SUBSET Ports
             /\ reqs \in SUBSET Ports
             /\ beaten \in [Ports -> [once : SUBSET Ports, twice : SUBSET Ports]]

\* At most one port is granted and only one that asks, also while a grant is
\* held over many cycles (rr_arbiter.sv:134-138).
GrantSound == /\ grant \subseteq reqs
              /\ \A p, q \in grant : p = q
              /\ reqs # {} => grant # {}

\* No port is served twice while another waits: whatever mixture of held, lost
\* and won grants the arbiter goes through, a requester is overtaken at most
\* once by each of the others (the sharp form of the bounded wait asserted at
\* rr_arbiter.sv:120).
NoSecondTurn == \A p \in Ports : beaten[p].twice = {}

\* Every requester is granted in the end: a request goes away only by being
\* granted and released, unless a reset takes it away.
EveryoneServed == \A p \in Ports : p \in reqs ~> (p \in grant \/ p \notin reqs)
=============================================================================
