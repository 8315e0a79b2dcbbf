------------------------------ MODULE MCSwSeam ------------------------------
(* Values for TLC: which flows carry frames. *)
EXTENDS SwSeam

ThreeFlows == {<<0, 0>>, <<0, 1>>, <<1, 0>>}
=============================================================================
