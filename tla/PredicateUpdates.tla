-------------------------- MODULE PredicateUpdates --------------------------
(***************************************************************************)
(* The records of the updates log.  A k2-tree is the set of points it      *)
(* holds.  A record names a predicate and carries a tree of points to add, *)
(* a tree of points to delete, or both; NoTree is a null tree pointer      *)
(* (K2TreeUpdates, UpdatesLoggerImpl::PredicateUpdate).                    *)
(***************************************************************************)
EXTENDS Naturals, Sequences, SequencesExt

CONSTANTS
  Points,   \* what a k2-tree may hold
  NoTree    \* a null K2TreeMixed pointer

ASSUME NoTreeAssumption == \A t \in SUBSET Points : t # NoTree

Trees == SUBSET Points

\* K2TreeUpdates::get_kind
Kind(u) ==
  CASE u.add # NoTree /\ u.del # NoTree -> "BOTH_UPDATE"
    [] u.add # NoTree /\ u.del = NoTree -> "INSERT_UPDATE"
    [] u.add = NoTree /\ u.del # NoTree -> "DELETE_UPDATE"
    [] OTHER -> "NO_UPDATE"

Updates(P) == [p : P, add : Trees \cup {NoTree}, del : Trees \cup {NoTree}]

PointsOf(t) == IF t = NoTree THEN {} ELSE t

(***************************************************************************)
(* What a record means for the tree of its predicate: the points are added *)
(* first and then deleted (UpdatesLoggerImpl::merge_update and             *)
(* PredicatesCacheManagerImpl::merge_update).                              *)
(***************************************************************************)
ApplyUpdate(tree, u) == (tree \cup PointsOf(u.add)) \ PointsOf(u.del)

\* The places of the records of p.
Concerning(us, p) == {i \in DOMAIN us : us[i].p = p}

(***************************************************************************)
(* The records of p applied to a tree in the order of the log leave the    *)
(* points of the tree that none deletes, and the points that one adds and  *)
(* that neither it nor a later one deletes.                                *)
(***************************************************************************)
ApplyAll(tree, us, p) ==
  LET ours == Concerning(us, p)
      kept(x, i) == \A j \in ours : j >= i => x \notin PointsOf(us[j].del)
  IN  {x \in tree : kept(x, 1)} \cup UNION {{x \in PointsOf(us[i].add) : kept(x, i)} : i \in ours}

\* Mutant: the deletions of the second record come before its additions.
MergeWithDeletesFirst(u, v) ==
  [p   |-> u.p,
   add |-> IF u.add = NoTree THEN NoTree ELSE (u.add \ PointsOf(v.del)) \cup PointsOf(v.add),
   del |-> IF u.del = NoTree THEN NoTree ELSE (u.del \cup PointsOf(v.del)) \ PointsOf(v.add)]

\* Mutant: an added point stays in the tree of deletions.
MergeWithKeepsDeletions(u, v) ==
  [p   |-> u.p,
   add |-> IF u.add = NoTree THEN NoTree ELSE (u.add \cup PointsOf(v.add)) \ PointsOf(v.del),
   del |-> IF u.del = NoTree THEN NoTree ELSE u.del \cup PointsOf(v.del)]

(***************************************************************************)
(* PredicateUpdate::merge_with, point by point: an added point leaves the  *)
(* tree of deletions and enters the tree of additions, a deleted point the *)
(* other way round, each only when this record has that tree.              *)
(***************************************************************************)
MergeWith(u, v) ==
  LET adds == PointsOf(v.add)
      dels == PointsOf(v.del)
      add1 == IF u.add = NoTree THEN NoTree ELSE u.add \cup adds
      del1 == IF u.del = NoTree THEN NoTree ELSE u.del \ adds
  IN  [p   |-> u.p,
       add |-> IF u.add = NoTree THEN NoTree ELSE add1 \ dels,
       del |-> IF u.del = NoTree THEN NoTree ELSE del1 \cup dels]

(***************************************************************************)
(* compact_predicate merges each record of a predicate into the first: of  *)
(* the trees that the first has, additions keep what was added and not     *)
(* deleted later, deletions what was deleted and not added later.          *)
(***************************************************************************)
CompactRecords(us) ==
  LET adds(i) == PointsOf(us[i].add)
      dels(i) == PointsOf(us[i].del)
      place == DOMAIN us
  IN  [p   |-> us[1].p,
       add |-> IF us[1].add = NoTree THEN NoTree
               ELSE UNION {{x \in adds(i) : \A j \in place : j >= i /\ j > 1 => x \notin dels(j)} : i \in place},
       del |-> IF us[1].del = NoTree THEN NoTree
               ELSE UNION {{x \in dels(i) : \A j \in place : j > i => x \notin adds(j)} : i \in place}]

=============================================================================
