--------------------------- MODULE MCSchemaUpgrade ---------------------------
(* Two functions of one name in each of two files, on two lines or on one. *)
EXTENDS SchemaUpgrade

CONSTANTS f1, f2, upper, lower

MCFiles == {f1, f2}
MCTwins == {upper, lower}
TwoLines == [s \in MCTwins |-> IF s = upper THEN 1 ELSE 9]
OneLine == [s \in MCTwins |-> 1]
MCLayouts == {TwoLines, OneLine}
MCPlace == [s \in MCTwins |-> IF s = upper THEN 0 ELSE 1]
\* Hashes sort as they like: here neither old nor new ids sort by place.
MCOldId == [s \in MCTwins |-> IF s = upper THEN 4 ELSE 1]
MCNewId == [n \in {0, 1} |-> IF n = 0 THEN 3 ELSE 2]
=============================================================================
