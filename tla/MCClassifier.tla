---------------------------- MODULE MCClassifier ----------------------------
(* Values for TLC: a table with two entries and one that is shadowed. *)
EXTENDS ClassifierPort

At(x, y) == [k \in 0 .. 1 |-> IF k = 0 THEN x ELSE y]
TwoEntries == << <<At(1, 0), "d0">>, <<At(1, 1), "d1">>, <<At(1, 0), "d1">> >>
=============================================================================
