------------------------------ MODULE MCRxPort ------------------------------
(* Values for TLC: one address that matches. *)
EXTENDS RxPort

At(x, y) == [k \in 0 .. 1 |-> IF k = 0 THEN x ELSE y]
OneEntry == << <<At(1, 0), "d0">> >>
=============================================================================
