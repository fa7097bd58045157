-------------------------- MODULE LogReplay_proofs --------------------------
(***************************************************************************)
(* What compact_predicate computes, proved for every set of predicates and *)
(* points and every number of records: the loop is a state machine, so the *)
(* induction over the records is the induction of an invariant.  The       *)
(* lemmas about one more record and about merge_with come first.           *)
(***************************************************************************)
EXTENDS LogReplay, TLAPS

\* One more record: ApplyAll is the loop that applies one after the other.
LEMMA ApplyAllAppend ==
  ASSUME NEW S, NEW us \in Seq(S), NEW u \in S, NEW tree, NEW p
  PROVE  ApplyAll(tree, Append(us, u), p)
           = IF u.p = p THEN ApplyUpdate(ApplyAll(tree, us, p), u) ELSE ApplyAll(tree, us, p)
<1> DEFINE vs == Append(us, u)
           n == Len(us) + 1
           kept(w, x, i) == \A j \in Concerning(w, p) : j >= i => x \notin PointsOf(w[j].del)
           in(w, x) == \/ x \in tree /\ kept(w, x, 1)
                       \/ \E i \in Concerning(w, p) : x \in PointsOf(w[i].add) /\ kept(w, x, i)
<1>1. /\ Len(us) \in Nat /\ DOMAIN us = 1..Len(us)
      /\ DOMAIN vs = 1..n /\ vs[n] = u /\ \A i \in DOMAIN us : vs[i] = us[i]
  OBVIOUS
<1>2. ASSUME NEW w, NEW x PROVE x \in ApplyAll(tree, w, p) <=> in(w, x)
  BY DEF ApplyAll
<1>4. Concerning(vs, p) = Concerning(us, p) \cup (IF u.p = p THEN {n} ELSE {})
  BY <1>1 DEF Concerning
<1>5. /\ \A i \in Concerning(us, p) : vs[i] = us[i] /\ ~ (i >= n) /\ n >= i
      /\ n >= n /\ n >= 1
  BY <1>1 DEF Concerning
<1> HIDE DEF vs, n
<1>6. CASE u.p # p
  <2>1. Concerning(vs, p) = Concerning(us, p)
    BY <1>4, <1>6
  <2>2. \A x : in(vs, x) <=> in(us, x)
    BY <1>5, <2>1
  <2>3. \A x : x \in ApplyAll(tree, vs, p) <=> x \in ApplyAll(tree, us, p)
    <3> HIDE DEF in
    <3> QED
      BY <1>2, <2>2
  <2> QED
    BY <1>6, <2>3 DEF vs
<1>7. CASE u.p = p
  <2>1. Concerning(vs, p) = Concerning(us, p) \cup {n}
    BY <1>4, <1>7
  <2>2. \A x : kept(vs, x, n) <=> x \notin PointsOf(u.del)
    BY <1>1, <1>5, <2>1
  <2>3. \A x : kept(vs, x, 1) <=> kept(us, x, 1) /\ x \notin PointsOf(u.del)
    BY <1>1, <1>5, <2>1
  <2>4. \A x : \A i \in Concerning(us, p) : kept(vs, x, i) <=> kept(us, x, i) /\ x \notin PointsOf(u.del)
    BY <1>1, <1>5, <2>1
  <2>5. ASSUME NEW x PROVE in(vs, x) <=> (in(us, x) \/ x \in PointsOf(u.add)) /\ x \notin PointsOf(u.del)
    <3> HIDE DEF kept
    <3> QED
      BY <1>1, <1>5, <2>1, <2>2, <2>3, <2>4
  <2>6. \A x : x \in ApplyAll(tree, vs, p) <=> x \in ApplyUpdate(ApplyAll(tree, us, p), u)
    <3> HIDE DEF in
    <3> QED
      BY <1>2, <2>5 DEF ApplyUpdate
  <2> QED
    BY <1>7, <2>6 DEF vs
<1> QED
  BY <1>6, <1>7

\* Records that add nothing to p leave an empty tree empty; a tree with no
\* records stays as it is.
LEMMA ApplyAllNothing ==
  ASSUME NEW us, NEW p, NEW tree
  PROVE  /\ (\A i \in Concerning(us, p) : us[i].add = NoTree) => ApplyAll({}, us, p) = {}
         /\ Concerning(us, p) = {} => ApplyAll(tree, us, p) = tree
BY DEF ApplyAll, PointsOf

\* The parts of MergeRecords.
CreatedBy(m, us) == {us[i].p : i \in {j \in DOMAIN us : us[j].add # NoTree /\ ~Active(m, us[j].p)}}
MergedBy(m, us) == CreatedBy(m, us) \cup {p \in {us[i].p : i \in DOMAIN us} : Active(m, p)}
TreeBefore(m, us, p) == IF p \in CreatedBy(m, us) THEN {} ELSE m.trees[p]
TreesAfter(m, us) ==
  [p \in DOMAIN m.trees \cup CreatedBy(m, us) |->
     IF p \in MergedBy(m, us) THEN ApplyAll(TreeBefore(m, us, p), us, p) ELSE m.trees[p]]

LEMMA MergeRecordsParts ==
  ASSUME NEW m, NEW us
  PROVE  MergeRecords(m, us) = [trees |-> TreesAfter(m, us), dirty |-> m.dirty \cup MergedBy(m, us),
                                new |-> m.new \cup CreatedBy(m, us)]
BY DEF MergeRecords, TreesAfter, TreeBefore, MergedBy, CreatedBy

(***************************************************************************)
(* merge_with makes a record of the same predicate and of the same kind:   *)
(* it changes the trees that are there and creates none.                   *)
(***************************************************************************)
LEMMA MergeWithType ==
  ASSUME NEW u \in Records, NEW v \in Records
  PROVE  /\ MergeWith(u, v) \in Records
         /\ MergeWith(u, v).p = u.p
         /\ Kind(MergeWith(u, v)) = Kind(u)
<1>1. /\ u \in Updates(Preds) /\ v \in Updates(Preds)
      /\ Kind(u) # "NO_UPDATE"
  BY DEF Records
<1>2. MergeWith(u, v) \in Updates(Preds) /\ MergeWith(u, v).p = u.p
  BY <1>1 DEF MergeWith, Updates, Trees, PointsOf
<1>3. /\ (MergeWith(u, v).add = NoTree) <=> (u.add = NoTree)
      /\ (MergeWith(u, v).del = NoTree) <=> (u.del = NoTree)
  <2>1. u.add \in (SUBSET Points) \cup {NoTree} /\ u.del \in (SUBSET Points) \cup {NoTree}
    BY <1>1 DEF Updates, Trees
  <2>2. PointsOf(v.add) \in SUBSET Points /\ PointsOf(v.del) \in SUBSET Points
    BY <1>1 DEF Updates, Trees, PointsOf
  <2> QED
    BY <2>1, <2>2, NoTreeAssumption DEF MergeWith
<1>4. Kind(MergeWith(u, v)) = Kind(u)
  BY <1>3 DEF Kind
<1> QED
  BY <1>1, <1>2, <1>4 DEF Records

(***************************************************************************)
(* When the first record carries both trees, or both records are of one    *)
(* kind, the merged record does what the two do one after the other.       *)
(***************************************************************************)
LEMMA MergeWithComposes ==
  ASSUME NEW u \in Records, NEW v \in Records, NEW S \in Trees,
         Kind(u) = "BOTH_UPDATE" \/ Kind(v) = Kind(u)
  PROVE  ApplyUpdate(S, MergeWith(u, v)) = ApplyUpdate(ApplyUpdate(S, u), v)
<1>1. u \in Updates(Preds) /\ v \in Updates(Preds) /\ Kind(u) # "NO_UPDATE"
  BY DEF Records
<1> DEFINE w == MergeWith(u, v)
<1>2. CASE Kind(u) = "BOTH_UPDATE"
  <2>1. u.add # NoTree /\ u.del # NoTree
    BY <1>2 DEF Kind
  <2>2. u.add \in SUBSET Points /\ u.del \in SUBSET Points
    BY <1>1, <2>1 DEF Updates, Trees
  <2>3. /\ w.add = (u.add \cup PointsOf(v.add)) \ PointsOf(v.del)
        /\ w.del = (u.del \ PointsOf(v.add)) \cup PointsOf(v.del)
    BY <2>1 DEF MergeWith
  <2>4. PointsOf(v.add) \in SUBSET Points /\ PointsOf(v.del) \in SUBSET Points
    BY <1>1 DEF Updates, Trees, PointsOf
  <2>5. PointsOf(w.add) = w.add /\ PointsOf(w.del) = w.del
    BY <2>2, <2>3, <2>4, NoTreeAssumption DEF PointsOf
  <2>6. PointsOf(u.add) = u.add /\ PointsOf(u.del) = u.del
    BY <2>1 DEF PointsOf
  <2> QED
    BY <2>3, <2>5, <2>6 DEF ApplyUpdate
<1>3. CASE Kind(v) = Kind(u) /\ Kind(u) # "BOTH_UPDATE"
  <2>1. \/ u.add # NoTree /\ u.del = NoTree /\ v.add # NoTree /\ v.del = NoTree
        \/ u.add = NoTree /\ u.del # NoTree /\ v.add = NoTree /\ v.del # NoTree
    BY <1>1, <1>3 DEF Kind
  <2>2. CASE u.add # NoTree /\ u.del = NoTree /\ v.add # NoTree /\ v.del = NoTree
    <3>1. u.add \in SUBSET Points /\ v.add \in SUBSET Points
      BY <1>1, <2>2 DEF Updates, Trees
    <3>2. w.add = u.add \cup v.add /\ w.del = NoTree
      BY <2>2 DEF MergeWith, PointsOf
    <3> QED
      BY <2>2, <3>1, <3>2, NoTreeAssumption DEF ApplyUpdate, PointsOf
  <2>3. CASE u.add = NoTree /\ u.del # NoTree /\ v.add = NoTree /\ v.del # NoTree
    <3>1. u.del \in SUBSET Points /\ v.del \in SUBSET Points
      BY <1>1, <2>3 DEF Updates, Trees
    <3>2. w.del = u.del \cup v.del /\ w.add = NoTree
      BY <2>3 DEF MergeWith, PointsOf
    <3> QED
      BY <2>3, <3>1, <3>2, NoTreeAssumption DEF ApplyUpdate, PointsOf
  <2> QED
    BY <2>1, <2>2, <2>3
<1> QED
  BY <1>2, <1>3

(***************************************************************************)
(* A record that a tree already holds, and another one that is then        *)
(* applied: the tree holds what the two are merged into.                   *)
(***************************************************************************)
LEMMA MergeWithAbsorbed ==
  ASSUME NEW u \in Records, NEW v \in Records, NEW T \in Trees,
         ApplyUpdate(T, u) = T
  PROVE  ApplyUpdate(ApplyUpdate(T, v), MergeWith(u, v)) = ApplyUpdate(T, v)
<1>1. u \in Updates(Preds) /\ v \in Updates(Preds)
  BY DEF Records
<1> DEFINE w == MergeWith(u, v)
<1>2. PointsOf(v.add) \in SUBSET Points /\ PointsOf(v.del) \in SUBSET Points
  BY <1>1 DEF Updates, Trees, PointsOf
<1>3. PointsOf(w.add) = IF u.add = NoTree THEN {}
                        ELSE (u.add \cup PointsOf(v.add)) \ PointsOf(v.del)
  <2>1. CASE u.add = NoTree
    BY <2>1 DEF MergeWith, PointsOf
  <2>2. CASE u.add # NoTree
    <3>1. u.add \in SUBSET Points
      BY <1>1, <2>2 DEF Updates, Trees
    <3>2. w.add = (u.add \cup PointsOf(v.add)) \ PointsOf(v.del)
      BY <2>2 DEF MergeWith
    <3>3. w.add # NoTree
      BY <3>1, <3>2, <1>2, NoTreeAssumption
    <3> QED
      BY <2>2, <3>2, <3>3 DEF PointsOf
  <2> QED
    BY <2>1, <2>2
<1>4. PointsOf(w.del) = IF u.del = NoTree THEN {}
                        ELSE (u.del \ PointsOf(v.add)) \cup PointsOf(v.del)
  <2>1. CASE u.del = NoTree
    BY <2>1 DEF MergeWith, PointsOf
  <2>2. CASE u.del # NoTree
    <3>1. u.del \in SUBSET Points
      BY <1>1, <2>2 DEF Updates, Trees
    <3>2. w.del = (u.del \ PointsOf(v.add)) \cup PointsOf(v.del)
      BY <2>2 DEF MergeWith
    <3>3. w.del # NoTree
      BY <3>1, <3>2, <1>2, NoTreeAssumption
    <3> QED
      BY <2>2, <3>2, <3>3 DEF PointsOf
  <2> QED
    BY <2>1, <2>2
<1>5. T = (T \cup PointsOf(u.add)) \ PointsOf(u.del)
  BY DEF ApplyUpdate
<1>6. /\ PointsOf(u.add) = IF u.add = NoTree THEN {} ELSE u.add
      /\ PointsOf(u.del) = IF u.del = NoTree THEN {} ELSE u.del
  BY DEF PointsOf
<1>7. ApplyUpdate(T, v) = (T \cup PointsOf(v.add)) \ PointsOf(v.del)
  BY DEF ApplyUpdate
<1>8. \A x : x \in PointsOf(w.add) /\ x \notin PointsOf(w.del) => x \in ApplyUpdate(T, v)
  BY <1>3, <1>4, <1>5, <1>6, <1>7
<1>9. \A x : x \in PointsOf(w.del) => x \notin ApplyUpdate(T, v)
  BY <1>4, <1>5, <1>6, <1>7
<1> QED
  BY <1>8, <1>9 DEF ApplyUpdate

-----------------------------------------------------------------------------
KindsRead == {"BOTH_UPDATE", "INSERT_UPDATE", "DELETE_UPDATE"}

\* The types of what the compaction and its auxiliary variables hold.
CompactionTypes ==
  /\ merged \in [Preds -> Records \cup {NoRecord}]
  /\ base \in [Preds -> Trees]
  /\ applied \in [Preds -> Trees]
  /\ kinds \in [Preds -> SUBSET KindsRead]

\* kinds knows the record that was read first, whose kind merged keeps.
KindsKnowFirst ==
  \A p \in Preds :
    IF merged[p] = NoRecord
      THEN kinds[p] = {} /\ applied[p] = base[p]
      ELSE Kind(merged[p]) \in kinds[p]

CompactionInv ==
  CompactionTypes /\ KindsKnowFirst /\ CompactionKeepsMeaning /\ ReplayChangesNothing

\* A record applied to a tree of points makes a tree of points.
LEMMA ApplyUpdateType ==
  ASSUME NEW T \in Trees, NEW u \in Records
  PROVE  ApplyUpdate(T, u) \in Trees
BY DEF ApplyUpdate, Trees, Records, Updates, PointsOf

\* A record that was just applied changes nothing when it is applied again.
LEMMA ApplyTwice ==
  ASSUME NEW T \in Trees, NEW u \in Records
  PROVE  ApplyUpdate(ApplyUpdate(T, u), u) = ApplyUpdate(T, u)
BY DEF ApplyUpdate

LEMMA InitCompaction == Init => CompactionInv
<1> SUFFICES ASSUME Init PROVE CompactionInv
  OBVIOUS
<1>1. CompactionTypes
  BY DEF Init, CompactionTypes
<1>2. KindsKnowFirst
  BY DEF Init, KindsKnowFirst
<1>3. CompactionKeepsMeaning /\ ReplayChangesNothing
  BY DEF Init, CompactionKeepsMeaning, ReplayChangesNothing
<1> QED
  BY <1>1, <1>2, <1>3 DEF CompactionInv

LEMMA StepCompaction ==
  ASSUME CompactionInv, [Next]_vars
  PROVE  CompactionInv'
<1>1. CASE UNCHANGED vars
  BY <1>1 DEF vars, CompactionInv, CompactionTypes, KindsKnowFirst,
              CompactionKeepsMeaning, ReplayChangesNothing
<1>2. CASE Next
  <2>1. PICK u \in Records : ReadRecord(u)
    BY <1>2 DEF Next
  <2>2. u.p \in Preds
    BY DEF Records, Updates
  <2> DEFINE q == u.p
  <2>3. /\ merged' = [merged EXCEPT ![q] = MergedAfter(merged[q], u)]
        /\ applied' = [applied EXCEPT ![q] = ApplyUpdate(applied[q], u)]
        /\ kinds' = [kinds EXCEPT ![q] = kinds[q] \cup {Kind(u)}]
        /\ base' = base
    BY <2>1 DEF ReadRecord
  <2>4. /\ merged \in [Preds -> Records \cup {NoRecord}]
        /\ base \in [Preds -> Trees]
        /\ applied \in [Preds -> Trees]
        /\ kinds \in [Preds -> SUBSET KindsRead]
    BY DEF CompactionInv, CompactionTypes
  <2> HIDE DEF q
  <2>5. q \in Preds
    BY <2>2 DEF q
  <2>6. /\ merged'[q] = MergedAfter(merged[q], u)
        /\ applied'[q] = ApplyUpdate(applied[q], u)
        /\ kinds'[q] = kinds[q] \cup {Kind(u)}
    BY <2>3, <2>4, <2>5
  <2>7. \A p \in Preds : p # q =>
          merged'[p] = merged[p] /\ applied'[p] = applied[p] /\ kinds'[p] = kinds[p]
    BY <2>3, <2>4, <2>5
  <2>8. /\ MergedAfter(merged[q], u) \in Records
        /\ merged[q] # NoRecord => Kind(merged'[q]) = Kind(merged[q])
        /\ merged[q] = NoRecord => merged'[q] = u
    BY <2>4, <2>5, <2>6, MergeWithType DEF MergedAfter
  <2>9. CompactionTypes'
    <3>1. ApplyUpdate(applied[q], u) \in Trees
      BY <2>4, <2>5, ApplyUpdateType
    <3>2. Kind(u) \in KindsRead
      BY DEF Kind, KindsRead, Records
    <3> QED
      BY <2>3, <2>4, <2>5, <2>8, <3>1, <3>2 DEF CompactionTypes
  <2>10. merged'[q] # NoRecord
    BY <2>6, <2>8, NoRecordAssumption
  <2>11. KindsKnowFirst'
    <3>1. Kind(merged'[q]) \in kinds'[q]
      BY <2>5, <2>6, <2>8 DEF CompactionInv, KindsKnowFirst
    <3> QED
      BY <2>3, <2>7, <2>10, <3>1 DEF CompactionInv, KindsKnowFirst
  <2>12. CompactionKeepsMeaning'
    <3>1. ASSUME Kind(merged'[q]) = "BOTH_UPDATE" \/ kinds'[q] = {Kind(merged'[q])}
          PROVE  ApplyUpdate(base[q], merged'[q]) = applied'[q]
      <4>1. CASE merged[q] = NoRecord
        <5>1. applied[q] = base[q] /\ merged'[q] = u
          BY <2>5, <2>8, <4>1 DEF CompactionInv, KindsKnowFirst
        <5> QED
          BY <5>1, <2>6
      <4>2. CASE merged[q] # NoRecord
        <5>1. merged[q] \in Records /\ merged'[q] = MergeWith(merged[q], u)
          BY <2>4, <2>5, <2>6, <4>2 DEF MergedAfter
        <5>2. Kind(merged[q]) \in kinds[q]
          BY <2>5, <4>2 DEF CompactionInv, KindsKnowFirst
        <5>3. \/ Kind(merged[q]) = "BOTH_UPDATE"
              \/ kinds[q] = {Kind(merged[q])} /\ Kind(u) = Kind(merged[q])
          BY <2>6, <2>8, <3>1, <4>2, <5>2
        <5>4. ApplyUpdate(base[q], merged[q]) = applied[q]
          BY <2>5, <4>2, <5>3 DEF CompactionInv, CompactionKeepsMeaning
        <5>5. base[q] \in Trees
          BY <2>4, <2>5
        <5>6. ApplyUpdate(base[q], MergeWith(merged[q], u))
                = ApplyUpdate(ApplyUpdate(base[q], merged[q]), u)
          BY <5>1, <5>3, <5>5, MergeWithComposes
        <5> QED
          BY <2>6, <5>1, <5>4, <5>6
      <4> QED
        BY <4>1, <4>2
    <3> QED
      BY <2>3, <2>7, <3>1 DEF CompactionInv, CompactionKeepsMeaning
  <2>13. ReplayChangesNothing'
    <3>1. ApplyUpdate(applied'[q], merged'[q]) = applied'[q]
      <4>1. applied[q] \in Trees
        BY <2>4, <2>5
      <4>2. CASE merged[q] = NoRecord
        BY <2>6, <2>8, <4>1, <4>2, ApplyTwice
      <4>3. CASE merged[q] # NoRecord
        <5>1. merged[q] \in Records /\ merged'[q] = MergeWith(merged[q], u)
          BY <2>4, <2>5, <2>6, <4>3 DEF MergedAfter
        <5>2. ApplyUpdate(applied[q], merged[q]) = applied[q]
          BY <2>5, <4>3 DEF CompactionInv, ReplayChangesNothing
        <5> QED
          BY <2>6, <4>1, <5>1, <5>2, MergeWithAbsorbed
      <4> QED
        BY <4>2, <4>3
    <3> QED
      BY <2>7, <3>1 DEF CompactionInv, ReplayChangesNothing
  <2> QED
    BY <2>9, <2>11, <2>12, <2>13 DEF CompactionInv
<1> QED
  BY <1>1, <1>2

(***************************************************************************)
(* However many records a predicate has, the record that compact_predicate *)
(* makes of them means what they mean when they are of one kind or the     *)
(* first carries both trees (UpdatesLoggerImpl.cpp:321-351, 418-451).      *)
(***************************************************************************)
THEOREM CompactionCorrect == Spec => []CompactionKeepsMeaning
<1>1. CompactionInv => CompactionKeepsMeaning
  BY DEF CompactionInv
<1> QED
  BY InitCompaction, StepCompaction, <1>1, PTL DEF Spec

(***************************************************************************)
(* However many records a predicate has and of whatever kinds they are,    *)
(* the compacted record changes nothing in a tree that holds them all: the *)
(* log may be read again over an index that was saved before it was        *)
(* cleaned.                                                                *)
(***************************************************************************)
THEOREM CompactedReplayIdempotent == Spec => []ReplayChangesNothing
<1>1. CompactionInv => ReplayChangesNothing
  BY DEF CompactionInv
<1> QED
  BY InitCompaction, StepCompaction, <1>1, PTL DEF Spec

-----------------------------------------------------------------------------
(* The replay.                                                             *)

\* What merge_update of the logger does to the three containers.
LEMMA MergeUpdateFields ==
  ASSUME NEW T, NEW D, NEW N, T = [q \in DOMAIN T |-> T[q]], N \subseteq DOMAIN T, NEW u
  PROVE  MergeUpdate([trees |-> T, dirty |-> D, new |-> N], u)
           = IF u.p \in DOMAIN T
               THEN [trees |-> [T EXCEPT ![u.p] = ApplyUpdate(T[u.p], u)],
                     dirty |-> IF u.add = NoTree /\ u.del = NoTree THEN D ELSE D \cup {u.p}, new |-> N]
               ELSE IF u.add # NoTree
               THEN [trees |-> With(T, u.p, ApplyUpdate({}, u)), dirty |-> D \cup {u.p}, new |-> N \cup {u.p}]
               ELSE [trees |-> T, dirty |-> D, new |-> N]
<1> DEFINE m == [trees |-> T, dirty |-> D, new |-> N]
           added == IF u.add = NoTree THEN m ELSE MergeAddTree(m, u.p, u.add)
           result == IF u.del = NoTree THEN added ELSE MergeDeleteTree(added, u.p, u.del)
<1>1. Active(m, u.p) <=> u.p \in DOMAIN T
  BY DEF Active
<1>2. CASE u.p \in DOMAIN T
  <2>1. u.add # NoTree => added = [trees |-> [T EXCEPT ![u.p] = T[u.p] \cup u.add], dirty |-> D \cup {u.p}, new |-> N]
    BY <1>1, <1>2 DEF MergeAddTree
  <2>2. Active(added, u.p)
    BY <1>1, <1>2, <2>1 DEF Active
  <2>3. result = [trees |-> [T EXCEPT ![u.p] = ApplyUpdate(T[u.p], u)],
                  dirty |-> IF u.add = NoTree /\ u.del = NoTree THEN D ELSE D \cup {u.p}, new |-> N]
    <3>1. CASE u.add = NoTree /\ u.del = NoTree
      <4>1. ApplyUpdate(T[u.p], u) = T[u.p]
        BY <3>1 DEF ApplyUpdate, PointsOf
      <4>2. [T EXCEPT ![u.p] = T[u.p]] = T
        OBVIOUS
      <4> QED
        BY <3>1, <4>1, <4>2
    <3>2. CASE u.add # NoTree /\ u.del = NoTree
      <4>1. ApplyUpdate(T[u.p], u) = T[u.p] \cup u.add
        BY <3>2 DEF ApplyUpdate, PointsOf
      <4> QED
        BY <2>1, <3>2, <4>1
    <3>3. CASE u.add = NoTree /\ u.del # NoTree
      <4>1. ApplyUpdate(T[u.p], u) = T[u.p] \ u.del
        BY <3>3 DEF ApplyUpdate, PointsOf
      <4> QED
        BY <1>1, <1>2, <3>3, <4>1 DEF MergeDeleteTree
    <3>4. CASE u.add # NoTree /\ u.del # NoTree
      <4>1. ApplyUpdate(T[u.p], u) = (T[u.p] \cup u.add) \ u.del
        BY <3>4 DEF ApplyUpdate, PointsOf
      <4> DEFINE T1 == [T EXCEPT ![u.p] = T[u.p] \cup u.add]
      <4>2. added = [trees |-> T1, dirty |-> D \cup {u.p}, new |-> N]
        BY <2>1, <3>4
      <4>3. result = [trees |-> [T1 EXCEPT ![u.p] = T1[u.p] \ u.del], dirty |-> (D \cup {u.p}) \cup {u.p}, new |-> N]
        <5> HIDE DEF T1, added
        <5> QED
          BY <2>2, <3>4, <4>2 DEF MergeDeleteTree
      <4>4. [T1 EXCEPT ![u.p] = T1[u.p] \ u.del] = [T EXCEPT ![u.p] = (T[u.p] \cup u.add) \ u.del]
        BY <1>2
      <4>5. (D \cup {u.p}) \cup {u.p} = D \cup {u.p}
        OBVIOUS
      <4> QED
        BY <3>4, <4>1, <4>3, <4>4, <4>5
    <3> QED
      BY <3>1, <3>2, <3>3, <3>4
  <2> QED
    BY <1>2, <2>3 DEF MergeUpdate
<1>3. CASE u.p \notin DOMAIN T /\ u.add # NoTree
  <2> DEFINE T1 == With(T, u.p, u.add)
  <2>1. added = [trees |-> T1, dirty |-> D \cup {u.p}, new |-> N \cup {u.p}]
    <3>1. AddPredicate(m, u.p) = [trees |-> With(T, u.p, {}), dirty |-> D \cup {u.p}, new |-> N \cup {u.p}]
      BY DEF AddPredicate
    <3>2. [With(T, u.p, {}) EXCEPT ![u.p] = With(T, u.p, {})[u.p] \cup u.add] = With(T, u.p, u.add)
      BY DEF With
    <3>3. (D \cup {u.p}) \cup {u.p} = D \cup {u.p}
      OBVIOUS
    <3>4. added = [AddPredicate(m, u.p) EXCEPT !.trees[u.p] = @ \cup u.add, !.dirty = @ \cup {u.p}]
      BY <1>1, <1>3 DEF MergeAddTree
    <3>5. added = [trees |-> [With(T, u.p, {}) EXCEPT ![u.p] = With(T, u.p, {})[u.p] \cup u.add],
                   dirty |-> (D \cup {u.p}) \cup {u.p}, new |-> N \cup {u.p}]
      <4> DEFINE T0 == With(T, u.p, {})
      <4>1. added = [[trees |-> T0, dirty |-> D \cup {u.p}, new |-> N \cup {u.p}]
                       EXCEPT !.trees[u.p] = @ \cup u.add, !.dirty = @ \cup {u.p}]
        BY <3>1, <3>4
      <4> HIDE DEF added, T0
      <4>2. added = [trees |-> [T0 EXCEPT ![u.p] = T0[u.p] \cup u.add],
                     dirty |-> (D \cup {u.p}) \cup {u.p}, new |-> N \cup {u.p}]
        BY <4>1
      <4> QED
        BY <4>2 DEF T0
    <3> QED
      BY <3>2, <3>3, <3>5
  <2>2. CASE u.del = NoTree
    <3>1. ApplyUpdate({}, u) = u.add
      BY <1>3, <2>2 DEF ApplyUpdate, PointsOf
    <3> QED
      BY <1>3, <2>1, <2>2, <3>1 DEF MergeUpdate
  <2>3. CASE u.del # NoTree
    <3>1. ApplyUpdate({}, u) = u.add \ u.del
      BY <1>3, <2>3 DEF ApplyUpdate, PointsOf
    <3>2. Active(added, u.p)
      BY <2>1 DEF Active
    <3>3. result = [trees |-> [T1 EXCEPT ![u.p] = T1[u.p] \ u.del], dirty |-> (D \cup {u.p}) \cup {u.p}, new |-> N \cup {u.p}]
      <4> HIDE DEF T1, added
      <4> QED
        BY <2>1, <2>3, <3>2 DEF MergeDeleteTree
    <3>4. [T1 EXCEPT ![u.p] = T1[u.p] \ u.del] = With(T, u.p, u.add \ u.del)
      BY DEF With
    <3>5. (D \cup {u.p}) \cup {u.p} = D \cup {u.p}
      OBVIOUS
    <3> QED
      BY <1>3, <3>1, <3>3, <3>4, <3>5 DEF MergeUpdate
  <2> QED
    BY <2>2, <2>3
<1>4. CASE u.p \notin DOMAIN T /\ u.add = NoTree
  BY <1>1, <1>4 DEF MergeUpdate, MergeDeleteTree
<1> QED
  BY <1>2, <1>3, <1>4

\* merge_update of the next record takes MergeRecords one record further.
LEMMA MergeRecordsAppend ==
  ASSUME NEW m, m.new \subseteq DOMAIN m.trees, m.dirty \subseteq DOMAIN m.trees,
         NEW us \in Seq(Records), NEW u \in Records
  PROVE  MergeUpdate(MergeRecords(m, us), u) = MergeRecords(m, Append(us, u))
<1> DEFINE vs == Append(us, u)
           C == CreatedBy(m, us)
           M == MergedBy(m, us)
           T == TreesAfter(m, us)
           q == u.p
           in == q \in DOMAIN m.trees
           plus == IF u.add # NoTree /\ ~in THEN {q} ELSE {}
<1>1. /\ Len(us) \in Nat /\ DOMAIN us = 1..Len(us) /\ DOMAIN vs = DOMAIN us \cup {Len(us) + 1}
      /\ vs[Len(us) + 1] = u /\ \A i \in DOMAIN us : vs[i] = us[i]
  OBVIOUS
<1>2. \A p : Active(m, p) <=> p \in DOMAIN m.trees
  BY DEF Active
<1>3. u.add # NoTree \/ u.del # NoTree
  BY DEF Records, Kind
<1>4. CreatedBy(m, vs) = C \cup plus
  <2> HIDE DEF vs
  <2>1. ASSUME NEW p PROVE p \in CreatedBy(m, vs) <=> p \in C \/ (p = q /\ u.add # NoTree /\ ~in)
    <3>1. p \in CreatedBy(m, vs) <=> \E i \in DOMAIN vs : vs[i].p = p /\ vs[i].add # NoTree /\ ~Active(m, vs[i].p)
      BY DEF CreatedBy
    <3>2. p \in C <=> \E i \in DOMAIN us : us[i].p = p /\ us[i].add # NoTree /\ ~Active(m, us[i].p)
      BY DEF CreatedBy
    <3> HIDE DEF C
    <3> QED
      BY <1>1, <1>2, <3>1, <3>2
  <2> QED
    BY <2>1
<1>5. MergedBy(m, vs) = M \cup (IF in \/ u.add # NoTree THEN {q} ELSE {})
  <2>1. ASSUME NEW p PROVE p \in {vs[i].p : i \in DOMAIN vs} <=> p = q \/ p \in {us[i].p : i \in DOMAIN us}
    <3> HIDE DEF vs
    <3> QED
      BY <1>1
  <2> HIDE DEF vs
  <2> QED
    BY <1>2, <1>4, <2>1 DEF MergedBy
<1>6. /\ DOMAIN T = DOMAIN m.trees \cup C
      /\ \A p \in DOMAIN T : T[p] = IF p \in M THEN ApplyAll(TreeBefore(m, us, p), us, p) ELSE m.trees[p]
      /\ T = [p \in DOMAIN T |-> T[p]]
  BY DEF TreesAfter
<1>7. /\ DOMAIN TreesAfter(m, vs) = DOMAIN m.trees \cup CreatedBy(m, vs)
      /\ \A p \in DOMAIN TreesAfter(m, vs) :
           TreesAfter(m, vs)[p] = IF p \in MergedBy(m, vs) THEN ApplyAll(TreeBefore(m, vs, p), vs, p) ELSE m.trees[p]
      /\ TreesAfter(m, vs) = [p \in DOMAIN TreesAfter(m, vs) |-> TreesAfter(m, vs)[p]]
  BY DEF TreesAfter
<1>8. /\ C \cap DOMAIN m.trees = {} /\ C \subseteq M
      /\ \A p : (p \in DOMAIN m.trees \/ p \in C) /\ p \notin M => Concerning(us, p) = {}
      /\ \A p : p \notin DOMAIN m.trees /\ p \notin C => \A i \in Concerning(us, p) : us[i].add = NoTree
      /\ M \subseteq DOMAIN m.trees \cup C
  BY <1>2 DEF CreatedBy, MergedBy, Concerning
<1>9. \A p, t : ApplyAll(t, vs, p) = IF q = p THEN ApplyUpdate(ApplyAll(t, us, p), u) ELSE ApplyAll(t, us, p)
  BY ApplyAllAppend
<1> HIDE DEF vs, C, M, T
<1>10. ASSUME NEW p \in DOMAIN T, p # q
       PROVE  p \in DOMAIN TreesAfter(m, vs) /\ TreesAfter(m, vs)[p] = T[p]
  <2>1. TreeBefore(m, vs, p) = TreeBefore(m, us, p)
    BY <1>4, <1>10 DEF TreeBefore, C
  <2>2. p \in MergedBy(m, vs) <=> p \in M
    BY <1>5, <1>10
  <2> QED
    BY <1>4, <1>6, <1>7, <1>9, <1>10, <2>1, <2>2
<1>11. ASSUME q \in DOMAIN T \/ u.add # NoTree
       PROVE  /\ q \in DOMAIN TreesAfter(m, vs)
              /\ TreesAfter(m, vs)[q] = ApplyUpdate(IF q \in DOMAIN T THEN T[q] ELSE {}, u)
  <2>1. q \in DOMAIN TreesAfter(m, vs) /\ q \in MergedBy(m, vs)
    BY <1>4, <1>5, <1>6, <1>7, <1>8, <1>11
  <2>2. TreesAfter(m, vs)[q] = ApplyUpdate(ApplyAll(TreeBefore(m, vs, q), us, q), u)
    BY <1>7, <1>9, <2>1
  <2>3. CASE in
    <3>1. TreeBefore(m, vs, q) = m.trees[q] /\ TreeBefore(m, us, q) = m.trees[q]
      BY <1>4, <1>8, <2>3 DEF TreeBefore, C
    <3>2. T[q] = ApplyAll(m.trees[q], us, q)
      BY <1>6, <1>8, <2>3, <3>1, ApplyAllNothing
    <3> QED
      BY <1>6, <2>1, <2>2, <2>3, <3>1, <3>2
  <2>4. CASE ~in /\ q \in C
    <3>1. TreeBefore(m, vs, q) = {} /\ TreeBefore(m, us, q) = {}
      BY <1>4, <2>4 DEF TreeBefore, C
    <3>2. q \in DOMAIN T /\ T[q] = ApplyAll({}, us, q)
      BY <1>6, <1>8, <2>4, <3>1
    <3> QED
      BY <2>1, <2>2, <3>1, <3>2
  <2>5. CASE ~in /\ q \notin C
    <3>1. q \notin DOMAIN T /\ u.add # NoTree
      BY <1>6, <1>11, <2>5
    <3>2. TreeBefore(m, vs, q) = {}
      BY <1>4, <2>5, <3>1 DEF TreeBefore
    <3>3. ApplyAll({}, us, q) = {}
      BY <1>8, <2>5, ApplyAllNothing
    <3> QED
      BY <2>1, <2>2, <3>1, <3>2, <3>3
  <2> QED
    BY <2>3, <2>4, <2>5
<1>12. MergeRecords(m, us) = [trees |-> T, dirty |-> m.dirty \cup M, new |-> m.new \cup C]
  BY MergeRecordsParts DEF T, M, C
<1>13. MergeRecords(m, vs) = [trees |-> TreesAfter(m, vs), dirty |-> m.dirty \cup MergedBy(m, vs),
                              new |-> m.new \cup CreatedBy(m, vs)]
  BY MergeRecordsParts
<1>14. m.new \cup C \subseteq DOMAIN T
  BY <1>6
<1> DEFINE D0 == m.dirty \cup M
           N0 == m.new \cup C
<1>15. MergeUpdate([trees |-> T, dirty |-> D0, new |-> N0], u)
          = IF q \in DOMAIN T
              THEN [trees |-> [T EXCEPT ![q] = ApplyUpdate(T[q], u)],
                    dirty |-> IF u.add = NoTree /\ u.del = NoTree THEN D0 ELSE D0 \cup {q}, new |-> N0]
              ELSE IF u.add # NoTree
              THEN [trees |-> With(T, q, ApplyUpdate({}, u)), dirty |-> D0 \cup {q}, new |-> N0 \cup {q}]
              ELSE [trees |-> T, dirty |-> D0, new |-> N0]
  <2> HIDE DEF D0, N0
  <2>1. N0 \subseteq DOMAIN T
    BY <1>14 DEF N0
  <2> QED
    BY <1>6, <2>1, MergeUpdateFields
<1>16. CASE q \in DOMAIN T
  <2>1. DOMAIN TreesAfter(m, vs) = DOMAIN T
    BY <1>4, <1>6, <1>7, <1>16
  <2>2. TreesAfter(m, vs) = [T EXCEPT ![q] = ApplyUpdate(T[q], u)]
    BY <1>6, <1>7, <1>10, <1>11, <1>16, <2>1
  <2>3. m.dirty \cup MergedBy(m, vs) = D0 \cup {q}
    BY <1>5, <1>6, <1>8, <1>16
  <2>4. m.new \cup CreatedBy(m, vs) = N0
    BY <1>4, <1>6, <1>16
  <2> QED
    BY <1>3, <1>12, <1>13, <1>15, <1>16, <2>2, <2>3, <2>4 DEF vs
<1>17. CASE q \notin DOMAIN T /\ u.add # NoTree
  <2>1. DOMAIN TreesAfter(m, vs) = DOMAIN T \cup {q}
    BY <1>4, <1>6, <1>7, <1>17
  <2>2. TreesAfter(m, vs) = With(T, q, ApplyUpdate({}, u))
    BY <1>7, <1>10, <1>11, <1>17, <2>1 DEF With
  <2>3. m.dirty \cup MergedBy(m, vs) = D0 \cup {q} /\ m.new \cup CreatedBy(m, vs) = N0 \cup {q}
    BY <1>4, <1>5, <1>6, <1>17
  <2> QED
    BY <1>12, <1>13, <1>15, <1>17, <2>2, <2>3 DEF vs
<1>18. CASE q \notin DOMAIN T /\ u.add = NoTree
  <2>1. CreatedBy(m, vs) = C /\ MergedBy(m, vs) = M
    BY <1>4, <1>5, <1>6, <1>18
  <2>2. DOMAIN TreesAfter(m, vs) = DOMAIN T
    BY <1>6, <1>7, <2>1
  <2>3. TreesAfter(m, vs) = T
    BY <1>6, <1>7, <1>10, <1>18, <2>2
  <2> QED
    BY <1>12, <1>13, <1>15, <1>18, <2>1, <2>3 DEF vs
<1> QED
  BY <1>16, <1>17, <1>18

ReplayInv ==
  /\ start.new \subseteq DOMAIN start.trees /\ start.dirty \subseteq DOMAIN start.trees
  /\ records \in Seq(Records)
  /\ ReplayMatchesMerge

(***************************************************************************)
(* However many records there are, and whatever is in memory before,       *)
(* merging them one by one ends where MergeRecords says: a predicate is    *)
(* created at its first added tree and the deletions before it are lost on *)
(* nothing (merge_op_tree, recover_predicate).  MergeRecords is what       *)
(* PredicatesStore takes a replay to be.                                   *)
(***************************************************************************)
THEOREM ReplayIsMerge == Spec => []ReplayMatchesMerge
<1>1. Init => ReplayInv
  <2> SUFFICES ASSUME Init PROVE ReplayInv
    OBVIOUS
  <2>1. start.new \subseteq DOMAIN start.trees /\ start.dirty \subseteq DOMAIN start.trees
    BY DEF Init
  <2>2. start = [trees |-> start.trees, dirty |-> start.dirty, new |-> start.new]
         /\ start.trees = [p \in DOMAIN start.trees |-> start.trees[p]]
    <3>1. PICK t \in UNION {[P -> Trees] : P \in SUBSET Preds}, d \in SUBSET Preds, n \in SUBSET Preds :
            start = [trees |-> t, dirty |-> d, new |-> n]
      BY DEF Init, Memories
    <3>2. PICK P \in SUBSET Preds : t \in [P -> Trees]
      OBVIOUS
    <3> QED
      BY <3>1, <3>2
  <2>3. CreatedBy(start, << >>) = {} /\ MergedBy(start, << >>) = {}
    BY DEF CreatedBy, MergedBy
  <2>4. TreesAfter(start, << >>) = start.trees
    BY <2>2, <2>3 DEF TreesAfter
  <2>5. MergeRecords(start, << >>) = start
    BY <2>2, <2>3, <2>4, MergeRecordsParts
  <2> QED
    BY <2>1, <2>5 DEF Init, ReplayInv, ReplayMatchesMerge
<1>2. ReplayInv /\ [Next]_vars => ReplayInv'
  <2> SUFFICES ASSUME ReplayInv, [Next]_vars PROVE ReplayInv'
    OBVIOUS
  <2>1. CASE UNCHANGED vars
    BY <2>1 DEF vars, ReplayInv, ReplayMatchesMerge
  <2>2. CASE Next
    <3>1. PICK u \in Records : ReadRecord(u)
      BY <2>2 DEF Next
    <3>2. records' = Append(records, u) /\ mem' = MergeUpdate(mem, u) /\ start' = start
      BY <3>1 DEF ReadRecord
    <3>3. MergeUpdate(MergeRecords(start, records), u) = MergeRecords(start, Append(records, u))
      BY MergeRecordsAppend DEF ReplayInv
    <3>4. records' \in Seq(Records)
      BY <3>2 DEF ReplayInv
    <3> QED
      BY <3>2, <3>3, <3>4 DEF ReplayInv, ReplayMatchesMerge
  <2> QED
    BY <2>1, <2>2
<1>3. ReplayInv => ReplayMatchesMerge
  BY DEF ReplayInv
<1> QED
  BY <1>1, <1>2, <1>3, PTL DEF Spec
=============================================================================
