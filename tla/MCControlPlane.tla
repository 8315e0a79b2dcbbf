--------------------------- MODULE MCControlPlane ---------------------------
(* Values for TLC: two-byte words whose bytes tell the words apart.  The      *)
(* letters are numbers that index the upper half, as R and W do.            *)
EXTENDS ControlPlane

Words == {<<0, 0>>, <<1, 1>>}
=============================================================================
