----------------------------- MODULE RoundRobin -----------------------------
(***************************************************************************)
(* The combinational part of rtl/rr_arbiter.sv.  A vector of request or    *)
(* grant bits is the set of the ports whose bit is set; mask is the set of *)
(* ports above the last winner.                                            *)
(***************************************************************************)
EXTENDS Integers

\* x & (~x + 1): the lowest bit of x
Lowest(x) == {p \in x : \A q \in x : p <= q}

\* Mistake: the rotation never wraps.
rr_grant_NoWrap(req, mask) == Lowest(req \cap mask)

\* Mistake: the mask is ignored, so that the lowest port always wins.
rr_grant_Fixed(req, mask) == Lowest(req)

rr_grant(req, mask) ==
    IF req \cap mask = {} THEN Lowest(req) ELSE Lowest(req \cap mask)

\* Mistake: the ports below the one granted.
Above_Below(ports, grant) == {p \in ports : \A g \in grant : p < g}

\* ~(grant | (grant - 1)): the ports above the one granted
Above(ports, grant) == {p \in ports : \A g \in grant : p > g}
=============================================================================
