------------------------------ MODULE MCNodeIds -----------------------------
(* Three nodes, of which some are in the sequence and some in the map, and *)
(* two workers that may be exchanged.                                      *)
EXTENDS NodeIds, TLC

MCNodes == {1, 2, 3}
MCWorkers == Permutations(Threads)
=============================================================================
