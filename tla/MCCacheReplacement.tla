------------------------- MODULE MCCacheReplacement -------------------------
(***************************************************************************)
(* CacheReplacement on a small instance: three predicates, one of which    *)
(* the index lacks at the start and that commits name, streams that may be *)
(* exchanged, and a budget that holds some but not all of them.            *)
(***************************************************************************)
EXTENDS CacheReplacement

MCKeys == {1, 2, 3}
MCIndexed == {1, 2}
MCUpdated == {3}
MCStreams == Permutations(Channels)
=============================================================================
