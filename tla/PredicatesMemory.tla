-------------------------- MODULE PredicatesMemory --------------------------
(***************************************************************************)
(* The trees in memory: PredicatesIndexCacheMD's predicates,               *)
(* dirty_predicates and new_predicates, and what merging the records of    *)
(* the log does to them (PredicatesCacheManagerImpl).                      *)
(***************************************************************************)
EXTENDS Naturals, Sequences, SequencesExt, PredicateUpdates

With(f, k, v) == [j \in DOMAIN f \cup {k} |-> IF j = k THEN v ELSE f[j]]
Restricted(f, S) == [j \in DOMAIN f \cap S |-> f[j]]

EmptyMem == [trees |-> << >>, dirty |-> {}, new |-> {}]

\* has_predicate_active
Active(m, p) == p \in DOMAIN m.trees \cup m.new

\* add_predicate
AddPredicate(m, p) ==
  [trees |-> With(m.trees, p, {}), dirty |-> m.dirty \cup {p}, new |-> m.new \cup {p}]

\* Mutant: the predicate leaves memory and stays dirty.
DiscardedStaysDirty(m, S) ==
  [m EXCEPT !.trees = Restricted(@, DOMAIN m.trees \ S)]

\* discard_in_memory_predicate
Discarded(m, S) ==
  [trees |-> Restricted(m.trees, DOMAIN m.trees \ S),
   dirty |-> m.dirty \ S, new |-> m.new \ S]

(***************************************************************************)
(* merge_add_tree and merge_delete_tree, of the records us in their order. *)
(* Adding points to a predicate that is not active creates it; deleting    *)
(* points from one does nothing.  A predicate that a later record creates  *)
(* starts empty, so that what the records before it delete is not missed.  *)
(***************************************************************************)
MergeRecords(m, us) ==
  LET named   == {us[i].p : i \in DOMAIN us}
      created == {us[i].p : i \in {j \in DOMAIN us :
                     us[j].add # NoTree /\ ~Active(m, us[j].p)}}
      merged  == created \cup {p \in named : Active(m, p)}
      before(p) == IF p \in created THEN {} ELSE m.trees[p]
  IN  [trees |-> [p \in DOMAIN m.trees \cup created |->
                    IF p \in merged THEN ApplyAll(before(p), us, p)
                                    ELSE m.trees[p]],
       dirty |-> m.dirty \cup merged,
       new   |-> m.new \cup created]

\* Mutant: the batch is logged and memory does not follow.
MergeBatchIgnored(m, us) == m

\* The predicates of a batch that are in memory.
InMemory(m, us) == {p \in {us[i].p : i \in DOMAIN us} : Active(m, p)}

\* Mutant: the trees follow and are not marked dirty.
MergeBatchStaysClean(m, us) ==
  [m EXCEPT !.trees = [p \in DOMAIN @ |-> IF p \in InMemory(m, us) THEN ApplyAll(@[p], us, p) ELSE @[p]]]

\* PredicatesCacheManagerImpl::merge_update, of a batch that was just logged:
\* the records of predicates that are not active are passed over.
MergeBatch(m, us) ==
  [trees |-> [p \in DOMAIN m.trees |-> IF p \in InMemory(m, us) THEN ApplyAll(m.trees[p], us, p)
                                                               ELSE m.trees[p]],
   dirty |-> m.dirty \cup InMemory(m, us), new |-> m.new]

=============================================================================
