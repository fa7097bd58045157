----------------------------- MODULE MCStreams ------------------------------
(***************************************************************************)
(* A predicate of three points, one that is new with the updates; node 3   *)
(* has no real id, node 1 has another one outside.  Two variables give two *)
(* rows a part to plain and cached streams, and one to sorted ones.        *)
(***************************************************************************)
EXTENDS Streams, TLC

Config(n, s, f) == [no_caching |-> n, sort_results |-> s, has_fic |-> f]
MCConfigs == {Config(FALSE, FALSE, TRUE), Config(TRUE, TRUE, FALSE)}

MCPoints == (1..3) \X (1..2)
MCInitial == 1 :> {<<2, 2>>, <<2, 1>>, <<3, 2>>}
MCRealId == 1 :> 20 @@ 2 :> 2
MCRequests == {{1, 3}}
MCPatterns ==
  {[p |-> 1, s |-> NodeAny, o |-> NodeAny], [p |-> 1, s |-> 2, o |-> 2],
   [p |-> 3, s |-> 2, o |-> NodeAny], [p |-> 3, s |-> 2, o |-> 1]}
MCCommits ==
  {[p |-> 1, add |-> {<<1, 1>>}, del |-> {<<2, 2>>}], [p |-> 3, add |-> {<<2, 1>>}, del |-> NoTree],
   [p |-> 3, add |-> NoTree, del |-> {<<2, 1>>}]}
MCGarbled == {{<<2, 2>>}}
=============================================================================
