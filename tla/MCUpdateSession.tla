-------------------------- MODULE MCUpdateSession ---------------------------
(***************************************************************************)
(* Two predicates, 8 in the index and 9 new; batches that add to both,     *)
(* delete from both what others add or the index has, and name the node 0, *)
(* and one that asks for a deletion that delete_triple gets wrong.         *)
(***************************************************************************)
EXTENDS UpdateSession, TLC

MCInitialIds == <<5, 8>>
MCInitialIndex == 2 :> {<<1, 1>>}
MCBatches ==
  {[add |-> {<<5, 8, 6>>, <<6, 9, 6>>}, del |-> {}],
   [add |-> {}, del |-> {<<5, 8, 5>>, <<6, 9, 6>>, <<0, 8, 5>>}],
   [add |-> {<<5, 8, 5>>}, del |-> {<<6, 8, 5>>}]}
MCGarbled == {{}}
UpdateIds == Permutations(Sessions)
=============================================================================
