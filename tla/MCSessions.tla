---------------------------- MODULE MCSessions ----------------------------
(* Sessions for TLC.                                                       *)
EXTENDS Sessions

\* Two agents that were started from different places.
SomeParent == [s \in Sessions |-> IF s = "b" THEN 2 ELSE 1]
=============================================================================
