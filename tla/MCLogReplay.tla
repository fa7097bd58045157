---------------------------- MODULE MCLogReplay -----------------------------
(* Two predicates and one point: every operation works point by point.     *)
EXTENDS LogReplay

CONSTANT a

MCPreds == {1, 2}
MCPoints == {a}
=============================================================================
