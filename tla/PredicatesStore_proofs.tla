----------------------- MODULE PredicatesStore_proofs -----------------------
(***************************************************************************)
(* SyncFindsTrees and CleanMatchesDisk (StoreInv), LoadedCurrent and       *)
(* LoggedIsDurable (FilesInv), for every set of predicates, every batch    *)
(* and any number of updates, evictions, syncs and crashes; NothingLost    *)
(* for a server that starts with everything in memory (ResidentInv).       *)
(* Before them, the lemmas about applying and compacting records that the  *)
(* invariants rest on.                                                     *)
(***************************************************************************)
EXTENDS PredicatesStore, SequenceTheorems, WellFoundedInduction, TLAPS

-----------------------------------------------------------------------------
(* Applying records.                                                       *)

\* One more record: ApplyAll is the loop that applies one after the other.
LEMMA ApplyAllAppend ==
  ASSUME NEW S, NEW us \in Seq(S), NEW u \in S, NEW tree, NEW p
  PROVE  ApplyAll(tree, Append(us, u), p)
           = IF u.p = p THEN ApplyUpdate(ApplyAll(tree, us, p), u) ELSE ApplyAll(tree, us, p)
<1> DEFINE vs == Append(us, u)
           n == Len(us) + 1
           kept(w, x, i) == \A j \in Concerning(w, p) : j >= i => x \notin PointsOf(w[j].del)
           in(w, x) == \/ x \in tree /\ kept(w, x, 1)
                       \/ \E i \in Concerning(w, p) : x \in PointsOf(w[i].add) /\ kept(w, x, i)
<1>1. /\ Len(us) \in Nat /\ DOMAIN us = 1..Len(us)
      /\ DOMAIN vs = 1..n /\ vs[n] = u /\ \A i \in DOMAIN us : vs[i] = us[i]
  OBVIOUS
<1>2. ASSUME NEW w, NEW x PROVE x \in ApplyAll(tree, w, p) <=> in(w, x)
  BY DEF ApplyAll
<1>4. Concerning(vs, p) = Concerning(us, p) \cup (IF u.p = p THEN {n} ELSE {})
  BY <1>1 DEF Concerning
<1>5. /\ \A i \in Concerning(us, p) : vs[i] = us[i] /\ ~ (i >= n) /\ n >= i
      /\ n >= n /\ n >= 1
  BY <1>1 DEF Concerning
<1> HIDE DEF vs, n
<1>6. CASE u.p # p
  <2>1. Concerning(vs, p) = Concerning(us, p)
    BY <1>4, <1>6
  <2>2. \A x : in(vs, x) <=> in(us, x)
    BY <1>5, <2>1
  <2>3. \A x : x \in ApplyAll(tree, vs, p) <=> x \in ApplyAll(tree, us, p)
    <3> HIDE DEF in
    <3> QED
      BY <1>2, <2>2
  <2> QED
    BY <1>6, <2>3 DEF vs
<1>7. CASE u.p = p
  <2>1. Concerning(vs, p) = Concerning(us, p) \cup {n}
    BY <1>4, <1>7
  <2>2. \A x : kept(vs, x, n) <=> x \notin PointsOf(u.del)
    BY <1>1, <1>5, <2>1
  <2>3. \A x : kept(vs, x, 1) <=> kept(us, x, 1) /\ x \notin PointsOf(u.del)
    BY <1>1, <1>5, <2>1
  <2>4. \A x : \A i \in Concerning(us, p) : kept(vs, x, i) <=> kept(us, x, i) /\ x \notin PointsOf(u.del)
    BY <1>1, <1>5, <2>1
  <2>5. ASSUME NEW x PROVE in(vs, x) <=> (in(us, x) \/ x \in PointsOf(u.add)) /\ x \notin PointsOf(u.del)
    <3> HIDE DEF kept
    <3> QED
      BY <1>1, <1>5, <2>1, <2>2, <2>3, <2>4
  <2>6. \A x : x \in ApplyAll(tree, vs, p) <=> x \in ApplyUpdate(ApplyAll(tree, us, p), u)
    <3> HIDE DEF in
    <3> QED
      BY <1>2, <2>5 DEF ApplyUpdate
  <2> QED
    BY <1>7, <2>6 DEF vs
<1> QED
  BY <1>6, <1>7

\* Records that add nothing to p leave an empty tree empty; a tree with no
\* records stays as it is.
LEMMA ApplyAllNothing ==
  ASSUME NEW us, NEW p, NEW tree
  PROVE  /\ (\A i \in Concerning(us, p) : us[i].add = NoTree) => ApplyAll({}, us, p) = {}
         /\ Concerning(us, p) = {} => ApplyAll(tree, us, p) = tree
BY DEF ApplyAll, PointsOf

\* The points of ApplyAll, one by one.
KeptFrom(us, p, x, i) == \A j \in Concerning(us, p) : j >= i => x \notin PointsOf(us[j].del)

LEMMA ApplyAllMember ==
  ASSUME NEW us, NEW p, NEW tree, NEW x
  PROVE  x \in ApplyAll(tree, us, p) <=>
           \/ x \in tree /\ KeptFrom(us, p, x, 1)
           \/ \E i \in Concerning(us, p) : x \in PointsOf(us[i].add) /\ KeptFrom(us, p, x, i)
BY DEF ApplyAll, KeptFrom

\* Records that were just applied change nothing when they are applied again.
LEMMA ApplyAllTwice ==
  ASSUME NEW us, NEW p, NEW tree
  PROVE  ApplyAll(ApplyAll(tree, us, p), us, p) = ApplyAll(tree, us, p)
<1> DEFINE once == ApplyAll(tree, us, p)
           twice == ApplyAll(once, us, p)
<1>1. ASSUME NEW x PROVE x \in twice <=> x \in once
  <2>1. x \in once <=> \/ x \in tree /\ KeptFrom(us, p, x, 1)
                       \/ \E i \in Concerning(us, p) : x \in PointsOf(us[i].add) /\ KeptFrom(us, p, x, i)
    BY ApplyAllMember
  <2>2. x \in twice <=> \/ x \in once /\ KeptFrom(us, p, x, 1)
                        \/ \E i \in Concerning(us, p) : x \in PointsOf(us[i].add) /\ KeptFrom(us, p, x, i)
    <3> HIDE DEF once
    <3> QED
      BY ApplyAllMember
  <2> HIDE DEF once, twice
  <2> QED
    BY <2>1, <2>2
<1> HIDE DEF once, twice
<1>2. twice = once
  BY <1>1
<1> QED
  BY <1>2 DEF once, twice

-----------------------------------------------------------------------------
(* Compacting records.                                                     *)

\* Among some of the places of a sequence there is a last one.
LEMMA LastOf ==
  ASSUME NEW n \in Nat, NEW T, T \subseteq 1..n, T # {}
  PROVE  \E x \in T : \A y \in T : y <= x
<1> DEFINE R == OpToRel(<, Nat)
           D == {n - y : y \in T}
<1>1. D \subseteq Nat /\ D # {}
  <2>1. \A y \in T : y \in Nat /\ y <= n /\ n - y \in Nat
    OBVIOUS
  <2>2. \A d \in D : d \in Nat
    BY <2>1
  <2>3. PICK y \in T : TRUE
    OBVIOUS
  <2>4. n - y \in D
    OBVIOUS
  <2> QED
    BY <2>2, <2>4
<1>2. \E d \in D : \A e \in D : <<e, d>> \notin R
  <2> HIDE DEF D
  <2> QED
    BY <1>1, NatLessThanWellFounded, WFMin, Zenon
<1>3. \A d, e \in Nat : e < d => <<e, d>> \in R
  BY DEF OpToRel
<1> HIDE DEF R
<1>4. PICK x \in T : \A e \in D : <<e, n - x>> \notin R
  BY <1>2
<1>5. ASSUME NEW y \in T PROVE y <= x
  <2>1. n - y \in D /\ n - y \in Nat /\ n - x \in Nat /\ x \in Nat /\ y \in Nat
    OBVIOUS
  <2>2. ~ (n - y < n - x)
    BY <1>3, <1>4, <2>1
  <2> QED
    BY <2>1, <2>2
<1> QED
  BY <1>5

\* The points of the compacted record, one by one.
LEMMA CompactMember ==
  ASSUME NEW us, NEW x
  PROVE  LET c == CompactRecords(us) IN
         /\ us[1].add # NoTree =>
              (x \in c.add <=> \E i \in DOMAIN us : /\ x \in PointsOf(us[i].add)
                                 /\ \A j \in DOMAIN us : j >= i /\ j > 1 => x \notin PointsOf(us[j].del))
         /\ us[1].del # NoTree =>
              (x \in c.del <=> \E i \in DOMAIN us : /\ x \in PointsOf(us[i].del)
                                 /\ \A j \in DOMAIN us : j > i => x \notin PointsOf(us[j].add))
         /\ us[1].add = NoTree => c.add = NoTree
         /\ us[1].del = NoTree => c.del = NoTree
BY DEF CompactRecords

(***************************************************************************)
(* The compacted record is a record of the predicate of the first, with    *)
(* the trees that the first has.                                           *)
(***************************************************************************)
LEMMA CompactType ==
  ASSUME NEW P, NEW us \in Seq(Updates(P)), us # << >>
  PROVE  /\ CompactRecords(us) \in Updates(P)
         /\ CompactRecords(us).p = us[1].p
         /\ Kind(CompactRecords(us)) = Kind(us[1])
<1> DEFINE c == CompactRecords(us)
<1>1. /\ 1 \in DOMAIN us /\ us[1] \in Updates(P)
      /\ \A i \in DOMAIN us : us[i] \in Updates(P)
  OBVIOUS
<1>2. \A i \in DOMAIN us : PointsOf(us[i].add) \subseteq Points /\ PointsOf(us[i].del) \subseteq Points
  BY <1>1 DEF Updates, Trees, PointsOf
<1>3. /\ c = [p |-> us[1].p, add |-> c.add, del |-> c.del]
      /\ c.p = us[1].p
  BY DEF CompactRecords
<1>4. us[1].add # NoTree => c.add \in Trees
  <2> SUFFICES ASSUME us[1].add # NoTree PROVE \A x \in c.add : x \in Points
    BY DEF Trees
  <2> QED
    BY <1>2, CompactMember
<1>5. us[1].del # NoTree => c.del \in Trees
  <2> SUFFICES ASSUME us[1].del # NoTree PROVE \A x \in c.del : x \in Points
    BY DEF Trees
  <2> QED
    BY <1>2, CompactMember
<1>6. /\ us[1].add = NoTree <=> c.add = NoTree
      /\ us[1].del = NoTree <=> c.del = NoTree
      /\ c.add \in Trees \cup {NoTree} /\ c.del \in Trees \cup {NoTree}
  BY <1>4, <1>5, CompactMember, NoTreeAssumption DEF Trees
<1> HIDE DEF c
<1>7. c \in Updates(P)
  BY <1>1, <1>3, <1>6 DEF Updates
<1>8. Kind(c) = Kind(us[1])
  BY <1>6 DEF Kind
<1> QED
  BY <1>3, <1>7, <1>8 DEF c

\* The trees of the compacted record.
LEMMA CompactPoints ==
  ASSUME NEW P, NEW us \in Seq(Updates(P)), us # << >>, NEW x
  PROVE  LET c == CompactRecords(us) IN
         /\ x \in PointsOf(c.add) <=>
              /\ us[1].add # NoTree
              /\ \E i \in DOMAIN us : /\ x \in PointsOf(us[i].add)
                                      /\ \A j \in DOMAIN us : j >= i /\ j > 1 => x \notin PointsOf(us[j].del)
         /\ x \in PointsOf(c.del) <=>
              /\ us[1].del # NoTree
              /\ \E i \in DOMAIN us : /\ x \in PointsOf(us[i].del)
                                      /\ \A j \in DOMAIN us : j > i => x \notin PointsOf(us[j].add)
<1> DEFINE c == CompactRecords(us)
<1>1. Kind(c) = Kind(us[1])
  BY CompactType
<1>2. /\ us[1].add = NoTree <=> c.add = NoTree
      /\ us[1].del = NoTree <=> c.del = NoTree
  <2> HIDE DEF c
  <2> QED
    BY <1>1 DEF Kind
<1>3. /\ us[1].add # NoTree => PointsOf(c.add) = c.add
      /\ us[1].del # NoTree => PointsOf(c.del) = c.del
      /\ us[1].add = NoTree => PointsOf(c.add) = {}
      /\ us[1].del = NoTree => PointsOf(c.del) = {}
  BY <1>2 DEF PointsOf
<1> HIDE DEF c
<1>4. /\ us[1].add # NoTree =>
              (x \in c.add <=> \E i \in DOMAIN us : /\ x \in PointsOf(us[i].add)
                                 /\ \A j \in DOMAIN us : j >= i /\ j > 1 => x \notin PointsOf(us[j].del))
      /\ us[1].del # NoTree =>
              (x \in c.del <=> \E i \in DOMAIN us : /\ x \in PointsOf(us[i].del)
                                 /\ \A j \in DOMAIN us : j > i => x \notin PointsOf(us[j].add))
  BY CompactMember DEF c
<1>5. x \in PointsOf(c.add) <=>
              /\ us[1].add # NoTree
              /\ \E i \in DOMAIN us : /\ x \in PointsOf(us[i].add)
                                      /\ \A j \in DOMAIN us : j >= i /\ j > 1 => x \notin PointsOf(us[j].del)
  BY <1>3, <1>4, Zenon
<1>6. x \in PointsOf(c.del) <=>
              /\ us[1].del # NoTree
              /\ \E i \in DOMAIN us : /\ x \in PointsOf(us[i].del)
                                      /\ \A j \in DOMAIN us : j > i => x \notin PointsOf(us[j].add)
  BY <1>3, <1>4, Zenon
<1> QED
  BY <1>5, <1>6 DEF c

(***************************************************************************)
(* Whatever the kinds of the records: a tree that has them all holds what  *)
(* the compacted record adds and does not delete, and nothing of what it   *)
(* deletes.                                                                *)
(***************************************************************************)
LEMMA CompactWithin ==
  ASSUME NEW P, NEW us \in Seq(Updates(P)), us # << >>, NEW p,
         \A i \in DOMAIN us : us[i].p = p, NEW tree, NEW x
  PROVE  LET c == CompactRecords(us) IN
         /\ x \in PointsOf(c.del) => x \notin ApplyAll(tree, us, p)
         /\ x \in PointsOf(c.add) /\ x \notin PointsOf(c.del) => x \in ApplyAll(tree, us, p)
<1> DEFINE c == CompactRecords(us)
           T == ApplyAll(tree, us, p)
<1>1. DOMAIN us = 1..Len(us) /\ Len(us) \in Nat /\ 1 \in DOMAIN us
  OBVIOUS
<1>2. Concerning(us, p) = DOMAIN us
  BY DEF Concerning
<1>3. x \in T <=> \/ x \in tree /\ KeptFrom(us, p, x, 1)
                  \/ \E i \in DOMAIN us : x \in PointsOf(us[i].add) /\ KeptFrom(us, p, x, i)
  BY <1>2, ApplyAllMember
<1>4. \A i : KeptFrom(us, p, x, i) <=> \A j \in DOMAIN us : j >= i => x \notin PointsOf(us[j].del)
  BY <1>2 DEF KeptFrom
<1>5. x \in PointsOf(c.add) =>
        \E i \in DOMAIN us : /\ x \in PointsOf(us[i].add)
                             /\ \A j \in DOMAIN us : j >= i /\ j > 1 => x \notin PointsOf(us[j].del)
  BY CompactPoints
<1>6. x \in PointsOf(c.del) <=>
        /\ us[1].del # NoTree
        /\ \E i \in DOMAIN us : /\ x \in PointsOf(us[i].del)
                                /\ \A j \in DOMAIN us : j > i => x \notin PointsOf(us[j].add)
  BY CompactPoints
<1> HIDE DEF c, T
<1>7. ASSUME x \in PointsOf(c.del) PROVE x \notin T
  <2>1. PICK i \in DOMAIN us : /\ x \in PointsOf(us[i].del)
                               /\ \A j \in DOMAIN us : j > i => x \notin PointsOf(us[j].add)
    BY <1>6, <1>7
  <2>2. ~ KeptFrom(us, p, x, 1)
    BY <1>1, <1>4, <2>1
  <2>3. ASSUME NEW k \in DOMAIN us, x \in PointsOf(us[k].add) PROVE ~ KeptFrom(us, p, x, k)
    <3>1. i >= k
      BY <1>1, <2>1, <2>3
    <3> QED
      BY <1>4, <2>1, <3>1
  <2> QED
    BY <1>3, <2>2, <2>3
<1>8. ASSUME x \in PointsOf(c.add), x \notin PointsOf(c.del) PROVE x \in T
  <2>1. PICK i \in DOMAIN us : /\ x \in PointsOf(us[i].add)
                               /\ \A j \in DOMAIN us : j >= i /\ j > 1 => x \notin PointsOf(us[j].del)
    BY <1>5, <1>8
  <2>2. CASE KeptFrom(us, p, x, i)
    BY <1>3, <2>1, <2>2
  <2>3. CASE ~ KeptFrom(us, p, x, i)
    <3>1. i = 1 /\ x \in PointsOf(us[1].del) /\ \A j \in DOMAIN us : j > 1 => x \notin PointsOf(us[j].del)
      BY <1>1, <1>4, <2>1, <2>3
    <3>2. us[1].del # NoTree
      BY <3>1 DEF PointsOf
    <3>3. PICK k \in DOMAIN us : k > 1 /\ x \in PointsOf(us[k].add)
      BY <1>1, <1>6, <1>8, <3>1, <3>2
    <3>4. KeptFrom(us, p, x, k)
      BY <1>1, <1>4, <3>1, <3>3
    <3> QED
      BY <1>3, <3>3, <3>4
  <2> QED
    BY <2>2, <2>3
<1> QED
  BY <1>7, <1>8 DEF c, T

(***************************************************************************)
(* A compacted record that is replayed over a tree that has all its        *)
(* records changes nothing.                                                *)
(***************************************************************************)
LEMMA CompactAbsorbed ==
  ASSUME NEW P, NEW us \in Seq(Updates(P)), us # << >>, NEW p,
         \A i \in DOMAIN us : us[i].p = p, NEW tree
  PROVE  ApplyUpdate(ApplyAll(tree, us, p), CompactRecords(us)) = ApplyAll(tree, us, p)
<1> DEFINE c == CompactRecords(us)
           T == ApplyAll(tree, us, p)
<1>1. ASSUME NEW x
      PROVE  /\ x \in PointsOf(c.del) => x \notin T
             /\ x \in PointsOf(c.add) /\ x \notin PointsOf(c.del) => x \in T
  BY CompactWithin
<1> HIDE DEF c, T
<1>2. ApplyUpdate(T, c) = T
  BY <1>1 DEF ApplyUpdate
<1> QED
  BY <1>2 DEF c, T

(***************************************************************************)
(* When merge_with drops no tree, the compacted record does to any tree    *)
(* what the records do one after the other.                                *)
(***************************************************************************)
LEMMA CompactMeans ==
  ASSUME NEW P, NEW us \in Seq(Updates(P)), us # << >>, NEW p,
         \A i \in DOMAIN us : us[i].p = p,
         ~DropsTrees(us), NEW tree
  PROVE  ApplyUpdate(tree, CompactRecords(us)) = ApplyAll(tree, us, p)
<1> DEFINE c == CompactRecords(us)
           T == ApplyAll(tree, us, p)
<1>1. DOMAIN us = 1..Len(us) /\ Len(us) \in Nat /\ 1 \in DOMAIN us
  OBVIOUS
<1>2. Concerning(us, p) = DOMAIN us
  BY DEF Concerning
<1>3. \A i \in DOMAIN us : /\ us[1].add = NoTree => us[i].add = NoTree
                           /\ us[1].del = NoTree => us[i].del = NoTree
  BY DEF DropsTrees
<1>4. ASSUME NEW x PROVE x \in T <=> (x \in tree \/ x \in PointsOf(c.add)) /\ x \notin PointsOf(c.del)
  <2>1. x \in T <=> \/ x \in tree /\ KeptFrom(us, p, x, 1)
                    \/ \E i \in DOMAIN us : x \in PointsOf(us[i].add) /\ KeptFrom(us, p, x, i)
    BY <1>2, ApplyAllMember
  <2>2. \A i : KeptFrom(us, p, x, i) <=> \A j \in DOMAIN us : j >= i => x \notin PointsOf(us[j].del)
    BY <1>2 DEF KeptFrom
  <2>3. x \in PointsOf(c.add) <=>
          /\ us[1].add # NoTree
          /\ \E i \in DOMAIN us : /\ x \in PointsOf(us[i].add)
                                  /\ \A j \in DOMAIN us : j >= i /\ j > 1 => x \notin PointsOf(us[j].del)
    BY CompactPoints
  <2>4. x \in PointsOf(c.del) <=>
          /\ us[1].del # NoTree
          /\ \E i \in DOMAIN us : /\ x \in PointsOf(us[i].del)
                                  /\ \A j \in DOMAIN us : j > i => x \notin PointsOf(us[j].add)
    BY CompactPoints
  <2>5. /\ x \in PointsOf(c.del) => x \notin T
        /\ x \in PointsOf(c.add) /\ x \notin PointsOf(c.del) => x \in T
    BY CompactWithin
  <2> HIDE DEF c, T
  <2>6. ASSUME x \in T PROVE x \in tree \/ x \in PointsOf(c.add)
    <3>1. CASE x \in tree
      BY <3>1
    <3>2. CASE x \notin tree
      <4>1. PICK i \in DOMAIN us : x \in PointsOf(us[i].add) /\ KeptFrom(us, p, x, i)
        BY <2>1, <2>6, <3>2
      <4>2. us[1].add # NoTree
        BY <1>3, <4>1 DEF PointsOf
      <4> QED
        BY <2>2, <2>3, <4>1, <4>2
    <3> QED
      BY <3>1, <3>2
  <2>7. ASSUME x \in tree, x \notin PointsOf(c.del) PROVE x \in T
    <3> DEFINE D == {j \in DOMAIN us : x \in PointsOf(us[j].del)}
    <3>1. CASE D = {}
      BY <2>1, <2>2, <2>7, <3>1
    <3>2. CASE D # {}
      <4>1. PICK k \in D : \A j \in D : j <= k
        <5>1. D \subseteq 1..Len(us)
          BY <1>1
        <5> HIDE DEF D
        <5> QED
          BY <1>1, <3>2, <5>1, LastOf
      <4>2. us[1].del # NoTree
        BY <1>3 DEF PointsOf
      <4>3. PICK i \in DOMAIN us : i > k /\ x \in PointsOf(us[i].add)
        BY <2>4, <2>7, <4>2
      <4>4. KeptFrom(us, p, x, i)
        <5>1. ASSUME NEW j \in DOMAIN us, j >= i, x \in PointsOf(us[j].del) PROVE FALSE
          <6>1. j \in D /\ j <= k
            BY <4>1, <5>1
          <6> QED
            BY <1>1, <4>3, <5>1, <6>1
        <5> QED
          BY <2>2, <5>1
      <4> QED
        BY <2>1, <4>3, <4>4
    <3> QED
      BY <3>1, <3>2
  <2> QED
    BY <2>5, <2>6, <2>7
<1> HIDE DEF c, T
<1>5. ApplyUpdate(tree, c) = T
  BY <1>4 DEF ApplyUpdate
<1> QED
  BY <1>5 DEF c, T

(***************************************************************************)
(* CompactRecords is the loop of compact_predicate: one record is kept as  *)
(* it is, and merge_with takes in the next.                                *)
(***************************************************************************)
LEMMA CompactLoop ==
  ASSUME NEW P, NEW u \in Updates(P)
  PROVE  /\ CompactRecords(<<u>>) = u
         /\ \A us \in Seq(Updates(P)) : us # << >> =>
              CompactRecords(Append(us, u)) = MergeWith(CompactRecords(us), u)
<1>1. CompactRecords(<<u>>) = u
  <2> DEFINE us == <<u>>
             c == CompactRecords(us)
  <2>1. us \in Seq(Updates(P)) /\ us # << >> /\ DOMAIN us = {1} /\ us[1] = u
    OBVIOUS
  <2>2. /\ u.add = NoTree => c.add = NoTree
        /\ u.del = NoTree => c.del = NoTree
    BY <2>1, CompactMember
  <2>3. ASSUME u.add # NoTree PROVE c.add = u.add
    <3>1. ASSUME NEW x PROVE x \in c.add <=> x \in u.add
      <4>1. x \in c.add <=> \E i \in DOMAIN us : /\ x \in PointsOf(us[i].add)
                                 /\ \A j \in DOMAIN us : j >= i /\ j > 1 => x \notin PointsOf(us[j].del)
        BY <2>1, <2>3, CompactMember
      <4> HIDE DEF us, c
      <4> QED
        BY <2>1, <2>3, <4>1 DEF PointsOf
    <3>2. c.add \in Trees /\ u.add \in Trees
      <4>1. c \in Updates(P) /\ Kind(c) = Kind(u)
        BY <2>1, CompactType
      <4> HIDE DEF c
      <4> QED
        BY <2>3, <4>1 DEF Updates, Kind
    <3> HIDE DEF c
    <3> QED
      BY <3>1, <3>2 DEF Trees
  <2>4. ASSUME u.del # NoTree PROVE c.del = u.del
    <3>1. ASSUME NEW x PROVE x \in c.del <=> x \in u.del
      <4>1. x \in c.del <=> \E i \in DOMAIN us : /\ x \in PointsOf(us[i].del)
                                 /\ \A j \in DOMAIN us : j > i => x \notin PointsOf(us[j].add)
        BY <2>1, <2>4, CompactMember
      <4> HIDE DEF us, c
      <4> QED
        BY <2>1, <2>4, <4>1 DEF PointsOf
    <3>2. c.del \in Trees /\ u.del \in Trees
      <4>1. c \in Updates(P) /\ Kind(c) = Kind(u)
        BY <2>1, CompactType
      <4> HIDE DEF c
      <4> QED
        BY <2>4, <4>1 DEF Updates, Kind
    <3> HIDE DEF c
    <3> QED
      BY <3>1, <3>2 DEF Trees
  <2>5. c \in Updates(P) /\ c.p = u.p
    BY <2>1, CompactType
  <2> HIDE DEF c
  <2>6. c = u
    BY <2>2, <2>3, <2>4, <2>5 DEF Updates
  <2> QED
    BY <2>6 DEF c
<1>2. ASSUME NEW us \in Seq(Updates(P)), us # << >>
      PROVE  CompactRecords(Append(us, u)) = MergeWith(CompactRecords(us), u)
  <2> DEFINE vs == Append(us, u)
             n == Len(us) + 1
             b == CompactRecords(us)
             c == CompactRecords(vs)
             w == MergeWith(b, u)
  <2>1. /\ Len(us) \in Nat /\ DOMAIN us = 1..Len(us) /\ 1 \in DOMAIN us
        /\ n \in Nat /\ DOMAIN vs = DOMAIN us \cup {n} /\ vs[n] = u
        /\ \A i \in DOMAIN us : vs[i] = us[i] /\ i < n
        /\ vs \in Seq(Updates(P)) /\ vs # << >> /\ n > 1
    BY <1>2
  <2>2. /\ b \in Updates(P) /\ b.p = us[1].p /\ Kind(b) = Kind(us[1])
        /\ c \in Updates(P) /\ c.p = us[1].p /\ Kind(c) = Kind(us[1])
    BY <1>2, <2>1, CompactType
  <2>3. /\ w = [p |-> b.p, add |-> w.add, del |-> w.del]
        /\ b.add = NoTree => w.add = NoTree
        /\ b.del = NoTree => w.del = NoTree
        /\ b.add # NoTree => w.add = (b.add \cup PointsOf(u.add)) \ PointsOf(u.del)
        /\ b.del # NoTree => w.del = (b.del \ PointsOf(u.add)) \cup PointsOf(u.del)
    BY DEF MergeWith
  <2>4. ASSUME us[1].add # NoTree, NEW x
        PROVE  x \in c.add <=> (x \in b.add \/ x \in PointsOf(u.add)) /\ x \notin PointsOf(u.del)
    <3>1. x \in c.add <=> \E i \in DOMAIN vs : /\ x \in PointsOf(vs[i].add)
                                 /\ \A j \in DOMAIN vs : j >= i /\ j > 1 => x \notin PointsOf(vs[j].del)
      BY <2>1, <2>4, CompactMember, ZenonT(60)
    <3>2. x \in b.add <=> \E i \in DOMAIN us : /\ x \in PointsOf(us[i].add)
                                 /\ \A j \in DOMAIN us : j >= i /\ j > 1 => x \notin PointsOf(us[j].del)
      BY <2>4, CompactMember
    <3> HIDE DEF vs, n, b, c
    <3>3. \A i \in DOMAIN us : i \in Nat /\ n >= i /\ ~ (i >= n)
      BY <2>1
    <3>4. n >= n
      BY <2>1
    <3> QED
      BY <2>1, <3>1, <3>2, <3>3, <3>4
  <2>5. ASSUME us[1].del # NoTree, NEW x
        PROVE  x \in c.del <=> (x \in b.del /\ x \notin PointsOf(u.add)) \/ x \in PointsOf(u.del)
    <3>1. x \in c.del <=> \E i \in DOMAIN vs : /\ x \in PointsOf(vs[i].del)
                                 /\ \A j \in DOMAIN vs : j > i => x \notin PointsOf(vs[j].add)
      BY <2>1, <2>5, CompactMember, ZenonT(60)
    <3>2. x \in b.del <=> \E i \in DOMAIN us : /\ x \in PointsOf(us[i].del)
                                 /\ \A j \in DOMAIN us : j > i => x \notin PointsOf(us[j].add)
      BY <2>5, CompactMember
    <3> HIDE DEF vs, n, b, c
    <3>3. \A i \in DOMAIN us : n > i /\ ~ (i > n)
      BY <2>1
    <3>4. ~ (n > n)
      BY <2>1
    <3> QED
      BY <2>1, <3>1, <3>2, <3>3, <3>4
  <2> HIDE DEF vs, n, b, c, w
  <2>6. /\ b.add = NoTree <=> us[1].add = NoTree
        /\ b.del = NoTree <=> us[1].del = NoTree
        /\ c.add = NoTree <=> us[1].add = NoTree
        /\ c.del = NoTree <=> us[1].del = NoTree
    BY <2>2 DEF Kind
  <2>7. c.add = w.add
    <3>1. CASE us[1].add = NoTree
      BY <2>3, <2>6, <3>1
    <3>2. CASE us[1].add # NoTree
      <4>1. c.add \in SUBSET Points /\ w.add = (b.add \cup PointsOf(u.add)) \ PointsOf(u.del)
        BY <2>2, <2>3, <2>6, <3>2 DEF Updates, Trees
      <4>2. \A x : x \in c.add <=> x \in w.add
        BY <2>4, <3>2, <4>1
      <4> QED
        BY <4>1, <4>2
    <3> QED
      BY <3>1, <3>2
  <2>8. c.del = w.del
    <3>1. CASE us[1].del = NoTree
      BY <2>3, <2>6, <3>1
    <3>2. CASE us[1].del # NoTree
      <4>1. c.del \in SUBSET Points /\ w.del = (b.del \ PointsOf(u.add)) \cup PointsOf(u.del)
        BY <2>2, <2>3, <2>6, <3>2 DEF Updates, Trees
      <4>2. \A x : x \in c.del <=> x \in w.del
        BY <2>5, <3>2, <4>1
      <4> QED
        BY <4>1, <4>2
    <3> QED
      BY <3>1, <3>2
  <2>9. c = [p |-> c.p, add |-> c.add, del |-> c.del]
    BY <2>2 DEF Updates
  <2>10. c = w
    BY <2>2, <2>3, <2>7, <2>8, <2>9
  <2> QED
    BY <2>10 DEF c, w, vs, b
<1> QED
  BY <1>1, <1>2

-----------------------------------------------------------------------------
(* Merging records into the trees in memory.                               *)

\* The parts of MergeRecords.
CreatedBy(m, us) == {us[i].p : i \in {j \in DOMAIN us : us[j].add # NoTree /\ ~Active(m, us[j].p)}}
MergedBy(m, us) == CreatedBy(m, us) \cup {p \in {us[i].p : i \in DOMAIN us} : Active(m, p)}
TreeBefore(m, us, p) == IF p \in CreatedBy(m, us) THEN {} ELSE m.trees[p]
TreesAfter(m, us) ==
  [p \in DOMAIN m.trees \cup CreatedBy(m, us) |->
     IF p \in MergedBy(m, us) THEN ApplyAll(TreeBefore(m, us, p), us, p) ELSE m.trees[p]]

LEMMA MergeRecordsParts ==
  ASSUME NEW m, NEW us
  PROVE  MergeRecords(m, us) = [trees |-> TreesAfter(m, us), dirty |-> m.dirty \cup MergedBy(m, us),
                                new |-> m.new \cup CreatedBy(m, us)]
BY DEF MergeRecords, TreesAfter, TreeBefore, MergedBy, CreatedBy


(***************************************************************************)
(* Records of one predicate change its tree alone, and create it when they *)
(* add to it.                                                              *)
(***************************************************************************)
LEMMA MergeRecordsOfOne ==
  ASSUME NEW m, NEW us, NEW p, m.new \subseteq DOMAIN m.trees, \A i \in DOMAIN us : us[i].p = p
  PROVE  LET r == MergeRecords(m, us)
             old == IF p \in DOMAIN m.trees THEN m.trees[p] ELSE {}
         IN  /\ DOMAIN m.trees \subseteq DOMAIN r.trees
             /\ DOMAIN r.trees \subseteq DOMAIN m.trees \cup {p}
             /\ \A q \in DOMAIN m.trees : q # p => r.trees[q] = m.trees[q]
             /\ p \in DOMAIN r.trees => r.trees[p] = ApplyAll(old, us, p)
             /\ p \notin DOMAIN r.trees => ApplyAll({}, us, p) = {}
<1> DEFINE C == CreatedBy(m, us)
           M == MergedBy(m, us)
           T == TreesAfter(m, us)
<1>1. MergeRecords(m, us).trees = T
  BY MergeRecordsParts
<1>2. \A q : Active(m, q) <=> q \in DOMAIN m.trees
  BY DEF Active
<1>3. /\ C \subseteq {p} /\ C \cap DOMAIN m.trees = {} /\ M \subseteq {p}
      /\ C \subseteq M
      /\ p \in DOMAIN m.trees /\ p \notin M => DOMAIN us = {}
      /\ p \notin DOMAIN m.trees /\ p \notin C => \A i \in DOMAIN us : us[i].add = NoTree
  BY <1>2 DEF CreatedBy, MergedBy
<1>4. /\ DOMAIN T = DOMAIN m.trees \cup C
      /\ \A q \in DOMAIN T : T[q] = IF q \in M THEN ApplyAll(TreeBefore(m, us, q), us, q) ELSE m.trees[q]
  BY DEF TreesAfter
<1>5. Concerning(us, p) = DOMAIN us
  BY DEF Concerning
<1> HIDE DEF C, M, T
<1>6. /\ p \in DOMAIN m.trees => TreeBefore(m, us, p) = m.trees[p]
      /\ p \in C => TreeBefore(m, us, p) = {}
  BY <1>3 DEF TreeBefore, C
<1>7. ASSUME p \in DOMAIN T
      PROVE  T[p] = ApplyAll(IF p \in DOMAIN m.trees THEN m.trees[p] ELSE {}, us, p)
  <2>1. CASE p \in M
    BY <1>3, <1>4, <1>6, <1>7, <2>1
  <2>2. CASE p \notin M
    <3>1. p \in DOMAIN m.trees /\ Concerning(us, p) = {} /\ T[p] = m.trees[p]
      BY <1>3, <1>4, <1>5, <1>7, <2>2
    <3> QED
      BY <3>1, ApplyAllNothing
  <2> QED
    BY <2>1, <2>2
<1>8. p \notin DOMAIN T => ApplyAll({}, us, p) = {}
  BY <1>3, <1>4, <1>5, ApplyAllNothing
<1> QED
  BY <1>1, <1>3, <1>4, <1>7, <1>8

\* A predicate that no record names is left alone.
LEMMA MergeRecordsOthers ==
  ASSUME NEW m, NEW us, NEW q, \A i \in DOMAIN us : us[i].p # q
  PROVE  /\ q \in DOMAIN MergeRecords(m, us).trees <=> q \in DOMAIN m.trees
         /\ q \in DOMAIN m.trees => MergeRecords(m, us).trees[q] = m.trees[q]
<1>1. MergeRecords(m, us).trees = TreesAfter(m, us)
  BY MergeRecordsParts
<1>2. q \notin CreatedBy(m, us) /\ q \notin MergedBy(m, us)
  BY DEF CreatedBy, MergedBy
<1> QED
  BY <1>1, <1>2 DEF TreesAfter

-----------------------------------------------------------------------------
(* Memory and the index file.                                              *)

\* A record of the three containers.
MemShape(m) == m = [trees |-> m.trees, dirty |-> m.dirty, new |-> m.new]

\* The containers fit together, for an index that lists the predicates md.
Consistent(m, md) ==
  /\ m.new \subseteq m.dirty
  /\ m.dirty \subseteq DOMAIN m.trees
  /\ DOMAIN m.trees \subseteq m.new \cup md

\* What is not dirty is what the file holds.
CleanIn(m, file) == \A p \in DOMAIN m.trees \ m.dirty : m.trees[p] = IndexTree(file, p)

GoodMem(m, md, file) == MemShape(m) /\ Consistent(m, md) /\ CleanIn(m, file)

(***************************************************************************)
(* While a sync is between sync_to_stream and the rename, the metadata     *)
(* already describes the .tmp file, which agrees with the clean trees.     *)
(***************************************************************************)
TmpIsNextIndex ==
  pc \in {"sync_unlink", "sync_rename"} =>
    /\ DOMAIN tmp.trees = metadata
    /\ \A p \in DOMAIN mem.trees \ mem.dirty : tmp.trees[p] = mem.trees[p]

\* A tree in memory is that of a new predicate or of one that the metadata lists.
TreesKnown == pc \notin {"down", "failed"} => DOMAIN mem.trees \subseteq mem.new \cup metadata

StoreInv ==
  /\ MemShape(mem)
  /\ pc = "down" => mem = EmptyMem
  /\ SyncFindsTrees
  /\ TreesKnown
  /\ CleanMatchesDisk
  /\ TmpIsNextIndex

-----------------------------------------------------------------------------
(* The operations on the trees in memory.                                  *)

\* Whatever records are merged, what they touch becomes dirty and stays there.
LEMMA MergeRecordsGood ==
  ASSUME NEW m, NEW md, NEW file, NEW us, GoodMem(m, md, file)
  PROVE  GoodMem(MergeRecords(m, us), md, file)
<1> DEFINE named   == {us[i].p : i \in DOMAIN us}
           created == {us[i].p : i \in {j \in DOMAIN us :
                         us[j].add # NoTree /\ ~Active(m, us[j].p)}}
           merged  == created \cup {p \in named : Active(m, p)}
           before(p) == IF p \in created THEN {} ELSE m.trees[p]
           trees  == [p \in DOMAIN m.trees \cup created |->
                        IF p \in merged THEN ApplyAll(before(p), us, p)
                                        ELSE m.trees[p]]
           r == MergeRecords(m, us)
<1>1. r = [trees |-> trees, dirty |-> m.dirty \cup merged, new |-> m.new \cup created]
  BY DEF MergeRecords
<1>2. merged \subseteq DOMAIN m.trees \cup created
  BY DEF Active, GoodMem, Consistent
<1>3. created \subseteq merged
  OBVIOUS
<1>4. DOMAIN trees = DOMAIN m.trees \cup created
  OBVIOUS
<1>5. \A p \in DOMAIN trees \ (m.dirty \cup merged) :
        p \in DOMAIN m.trees \ m.dirty /\ trees[p] = m.trees[p]
  BY <1>3
<1> HIDE DEF named, created, merged, before, trees
<1>6. MemShape(r)
  BY <1>1 DEF MemShape
<1>7. Consistent(r, md)
  BY <1>1, <1>2, <1>3, <1>4, <1>5 DEF Consistent, GoodMem
<1>8. CleanIn(r, file)
  BY <1>1, <1>5 DEF CleanIn, GoodMem
<1> QED
  BY <1>6, <1>7, <1>8 DEF GoodMem

\* A batch changes trees that it marks dirty.
LEMMA MergeBatchGood ==
  ASSUME NEW m, NEW md, NEW file, NEW us, GoodMem(m, md, file)
  PROVE  GoodMem(MergeBatch(m, us), md, file)
<1> DEFINE ours  == InMemory(m, us)
           trees == [p \in DOMAIN m.trees |-> IF p \in ours THEN ApplyAll(m.trees[p], us, p)
                                                             ELSE m.trees[p]]
<1>1. MergeBatch(m, us) = [trees |-> trees, dirty |-> m.dirty \cup ours, new |-> m.new]
  BY DEF MergeBatch
<1>2. ours \subseteq DOMAIN m.trees
  BY DEF InMemory, Active, GoodMem, Consistent
<1>3. \A p \in DOMAIN m.trees \ (m.dirty \cup ours) : trees[p] = m.trees[p]
  OBVIOUS
<1>4. DOMAIN trees = DOMAIN m.trees
  OBVIOUS
<1> HIDE DEF ours, trees
<1> QED
  BY <1>1, <1>2, <1>3, <1>4 DEF GoodMem, MemShape, Consistent, CleanIn

\* A new predicate is dirty.
LEMMA AddPredicateGood ==
  ASSUME NEW m, NEW md, NEW file, NEW p, GoodMem(m, md, file)
  PROVE  GoodMem(AddPredicate(m, p), md, file)
BY DEF GoodMem, MemShape, Consistent, CleanIn, AddPredicate, With

\* A predicate that is discarded leaves all three containers.
LEMMA DiscardedGood ==
  ASSUME NEW m, NEW md, NEW file, NEW S, GoodMem(m, md, file)
  PROVE  GoodMem(Discarded(m, S), md, file)
BY DEF GoodMem, MemShape, Consistent, CleanIn, Discarded, Restricted

\* Replaying the log keeps the containers in order.
LEMMA RecoveredGood ==
  ASSUME NEW m, NEW md, NEW file, NEW p, GoodMem(m, md, file)
  PROVE  GoodMem(Recovered(m, p), md, file)
BY MergeRecordsGood DEF Recovered

\* Loading puts the tree of the file in place, dirty or not, and replays the log.
LEMMA LoadedSingleGood ==
  ASSUME NEW m, NEW p, GoodMem(m, metadata, index)
  PROVE  GoodMem(LoadedSingle(m, p), metadata, index)
<1> DEFINE loaded == [m EXCEPT !.trees = With(m.trees, p, IndexTree(index, p))]
           start == IF p \in metadata THEN loaded ELSE m
<1>1. GoodMem(start, metadata, index)
  <2>1. CASE p \notin metadata
    BY <2>1
  <2>2. CASE p \in metadata
    <3>1. loaded = [trees |-> With(m.trees, p, IndexTree(index, p)),
                    dirty |-> m.dirty, new |-> m.new]
      BY DEF GoodMem, MemShape
    <3> HIDE DEF loaded
    <3>2. GoodMem(loaded, metadata, index)
      BY <2>2, <3>1 DEF GoodMem, MemShape, Consistent, CleanIn, With
    <3> QED
      BY <2>2, <3>2
  <2> QED
    BY <2>1, <2>2
<1>2. LoadedSingle(m, p) = IF p \in DOMAIN offsets_map THEN Recovered(start, p) ELSE start
  BY DEF LoadedSingle
<1> QED
  BY <1>1, <1>2, RecoveredGood

LEMMA FetchedGood ==
  ASSUME NEW m, NEW p, GoodMem(m, metadata, index)
  PROVE  GoodMem(Fetched(m, p), metadata, index)
<1> DEFINE one == IF p \in DOMAIN m.trees THEN m ELSE LoadedSingle(m, p)
<1>1. GoodMem(one, metadata, index)
  BY LoadedSingleGood
<1>2. GoodMem(Recovered(AddPredicate(one, p), p), metadata, index)
  BY <1>1, AddPredicateGood, RecoveredGood
<1> QED
  BY <1>1, <1>2 DEF Fetched

LEMMA EmptyMemGood ==
  ASSUME NEW md, NEW file
  PROVE  GoodMem(EmptyMem, md, file) /\ DOMAIN EmptyMem.trees = {}
BY DEF GoodMem, MemShape, Consistent, CleanIn, EmptyMem

-----------------------------------------------------------------------------
\* The steps at which the metadata describes the index file.
Settled == pc \notin {"down", "failed", "sync_unlink", "sync_rename"}

LEMMA SettledMem ==
  ASSUME StoreInv, Settled
  PROVE  GoodMem(mem, metadata, index) /\ metadata = IndexPreds(index)
BY DEF StoreInv, TreesKnown, Settled, SyncFindsTrees, CleanMatchesDisk, GoodMem, Consistent, CleanIn

\* A step from one settled place to another that keeps the index.
LEMMA SettledStep ==
  ASSUME StoreInv, Settled, Settled', UNCHANGED <<index, metadata>>,
         GoodMem(mem', metadata, index)
  PROVE  StoreInv'
<1>1. metadata = IndexPreds(index)
  BY SettledMem
<1> QED
  BY <1>1 DEF StoreInv, TreesKnown, Settled, SyncFindsTrees, CleanMatchesDisk, TmpIsNextIndex,
              GoodMem, Consistent, CleanIn

\* A step that stops the process.
LEMMA FailedStep ==
  ASSUME StoreInv, Settled, pc' = "failed", UNCHANGED <<index, metadata, mem>>
  PROVE  StoreInv'
BY DEF StoreInv, TreesKnown, Settled, SyncFindsTrees, CleanMatchesDisk, TmpIsNextIndex, MemShape

\* sync_to_stream
LEMMA SerialiseStep ==
  ASSUME StoreInv, Settled, Serialise, UNCHANGED <<index, mem>>
  PROVE  StoreInv'
<1>1. GoodMem(mem, metadata, index)
  BY SettledMem
<1>2. /\ tmp'.trees = [p \in mem.new \cup metadata |-> TreeToWrite(p)]
      /\ metadata' = mem.new \cup metadata
      /\ pc' = "sync_unlink"
  BY DEF Serialise
<1>3. \A p \in DOMAIN mem.trees \ mem.dirty :
        p \in metadata /\ tmp'.trees[p] = mem.trees[p]
  BY <1>1, <1>2 DEF GoodMem, Consistent, CleanIn, TreeToWrite
<1>4. TmpIsNextIndex'
  BY <1>2, <1>3 DEF TmpIsNextIndex
<1>5. SyncFindsTrees' /\ TreesKnown' /\ CleanMatchesDisk'
  BY <1>1, <1>2 DEF TreesKnown, SyncFindsTrees, CleanMatchesDisk, GoodMem, Consistent, CleanIn
<1>6. MemShape(mem)' /\ (pc = "down" => mem = EmptyMem)'
  BY <1>1, <1>2 DEF GoodMem, MemShape
<1> QED
  BY <1>4, <1>5, <1>6 DEF StoreInv

LEMMA InitStore == Init => StoreInv
<1> SUFFICES ASSUME Init PROVE StoreInv
  OBVIOUS
<1>1. GoodMem(mem, metadata, index)
  <2>1. CASE ~NoCaching
    BY <2>1, EmptyMemGood DEF Init
  <2>2. CASE NoCaching
    <3>1. mem = [trees |-> index.trees, dirty |-> {}, new |-> {}]
      BY <2>2 DEF Init, LoadedAll
    <3> QED
      BY <3>1 DEF Init, GoodMem, MemShape, Consistent, CleanIn, IndexTree, IndexPreds
  <2> QED
    BY <2>1, <2>2
<1> QED
  BY <1>1 DEF Init, StoreInv, TreesKnown, SyncFindsTrees, CleanMatchesDisk, TmpIsNextIndex, GoodMem,
              Consistent, CleanIn

LEMMA LogStepInv ==
  ASSUME StoreInv, LogStep
  PROVE  StoreInv'
<1> USE DEF files, logger, bounds
<1>1. ASSUME NEW us \in Batches, LogOpen(us) PROVE StoreInv'
  BY <1>1, SettledMem, SettledStep DEF LogOpen, Settled
<1>5. CASE LogRecord
  BY <1>5, SettledMem, SettledStep DEF LogRecord, Settled
<1>2. CASE LogOffsetsUnlink
  BY <1>2, SettledMem, SettledStep DEF LogOffsetsUnlink, Settled
<1>3. CASE LogOffsetsRename
  BY <1>3, SettledMem, SettledStep DEF LogOffsetsRename, Settled
<1>4. CASE LogMerge
  <2>1. Settled /\ Settled' /\ UNCHANGED <<index, metadata>> /\ mem' = MergeBatch(mem, batch)
    BY <1>4 DEF LogMerge, Settled
  <2>2. GoodMem(mem', metadata, index)
    BY <2>1, SettledMem, MergeBatchGood
  <2> QED
    BY <2>1, <2>2, SettledStep
<1> QED
  BY <1>1, <1>2, <1>3, <1>4, <1>5 DEF LogStep

LEMMA LoadStepInv ==
  ASSUME StoreInv, LoadStep
  PROVE  StoreInv'
<1> USE DEF files, logger, bounds
<1>1. PICK p \in Preds : FetchK2Tree(p) \/ RetrieveKey(p) \/ LoadGarbage(p) \/ DiscardKey(p)
  BY DEF LoadStep
<1>2. CASE FetchK2Tree(p)
  BY <1>2, SettledMem, SettledStep, FetchedGood DEF FetchK2Tree, Settled
<1>3. CASE RetrieveKey(p)
  BY <1>3, SettledMem, SettledStep, LoadedSingleGood DEF RetrieveKey, Settled
<1>4. CASE LoadGarbage(p)
  BY <1>4, FailedStep DEF LoadGarbage, Settled
<1>5. CASE DiscardKey(p)
  BY <1>5, SettledMem, SettledStep, DiscardedGood DEF DiscardKey, Settled
<1> QED
  BY <1>1, <1>2, <1>3, <1>4, <1>5

LEMMA CommitIndexInv ==
  ASSUME StoreInv, SyncUnlink \/ SyncRename
  PROVE  StoreInv'
<1> USE DEF files, logger, bounds
<1>1. CASE SyncUnlink
  BY <1>1 DEF SyncUnlink, TreesKnown, StoreInv, SyncFindsTrees, CleanMatchesDisk, TmpIsNextIndex, MemShape
<1>2. CASE SyncRename
  <2>1. /\ pc = "sync_rename" /\ pc' \in {"compact", "bulk_discard"}
        /\ index' = tmp /\ UNCHANGED <<mem, metadata>>
    BY <1>2 DEF SyncRename
  <2>2. /\ MemShape(mem) /\ Consistent(mem, metadata)
        /\ DOMAIN tmp.trees = metadata
        /\ \A p \in DOMAIN mem.trees \ mem.dirty : tmp.trees[p] = mem.trees[p]
    BY <2>1 DEF StoreInv, TreesKnown, SyncFindsTrees, TmpIsNextIndex, Consistent
  <2>3. IndexPreds(index') = metadata /\ CleanIn(mem, index')
    BY <2>1, <2>2 DEF IndexPreds, IndexTree, CleanIn, Consistent
  <2> QED
    BY <2>1, <2>2, <2>3 DEF StoreInv, TreesKnown, SyncFindsTrees, CleanMatchesDisk, TmpIsNextIndex,
                            MemShape, Consistent, CleanIn
<1> QED
  BY <1>1, <1>2

LEMMA CompactInv ==
  ASSUME StoreInv,
         \/ \E p \in Preds : CompactPredicate(p) \/ CompactThrows(p)
         \/ CompactOffsetsUnlink \/ CompactOffsetsRename
         \/ CompactMetaUnlink \/ CompactMetaRename
         \/ CompactLogUnlink \/ CompactLogRename
  PROVE  StoreInv'
<1> USE DEF files, logger, bounds
<1>1. ASSUME NEW p \in Preds, CompactPredicate(p) PROVE StoreInv'
  <2>1. Settled /\ Settled' /\ UNCHANGED <<index, metadata, mem>>
    BY <1>1 DEF CompactPredicate, Settled
  <2> QED
    BY <2>1, SettledMem, SettledStep
<1>2. ASSUME NEW p \in Preds, CompactThrows(p) PROVE StoreInv'
  BY <1>2, FailedStep DEF CompactThrows, Settled
<1>3. CASE CompactOffsetsUnlink
  BY <1>3, SettledMem, SettledStep DEF CompactOffsetsUnlink, Settled
<1>4. CASE CompactOffsetsRename
  BY <1>4, SettledMem, SettledStep DEF CompactOffsetsRename, Settled
<1>5. CASE CompactMetaUnlink
  BY <1>5, SettledMem, SettledStep DEF CompactMetaUnlink, Settled
<1>6. CASE CompactMetaRename
  BY <1>6, SettledMem, SettledStep DEF CompactMetaRename, Settled
<1>7. CASE CompactLogUnlink
  BY <1>7, SettledMem, SettledStep DEF CompactLogUnlink, Settled
<1>8. CASE CompactLogRename
  BY <1>8, SettledMem, SettledStep DEF CompactLogRename, Settled
<1> QED
  BY <1>1, <1>2, <1>3, <1>4, <1>5, <1>6, <1>7, <1>8

LEMMA BulkInv ==
  ASSUME StoreInv,
         \/ \E p \in Preds : BulkSkip(p) \/ \E reached \in BOOLEAN : BulkFetch(p, reached)
         \/ BulkEnd \/ BulkSerialise \/ BulkDiscard
         \/ CleanLog \/ CleanMeta \/ CleanOffsets
  PROVE  StoreInv'
<1> USE DEF files, logger, bounds
<1>1. ASSUME NEW p \in Preds, BulkSkip(p) PROVE StoreInv'
  BY <1>1, SettledMem, SettledStep DEF BulkSkip, Settled
<1>2. ASSUME NEW p \in Preds, NEW reached \in BOOLEAN, BulkFetch(p, reached) PROVE StoreInv'
  BY <1>2, SettledMem, SettledStep, FetchedGood DEF BulkFetch, Settled
<1>3. CASE BulkEnd
  BY <1>3, SettledMem, SettledStep DEF BulkEnd, Settled
<1>4. CASE BulkSerialise
  BY <1>4, SerialiseStep DEF BulkSerialise, Settled
<1>5. CASE BulkDiscard
  BY <1>5, SettledMem, SettledStep, DiscardedGood DEF BulkDiscard, Settled
<1>6. CASE CleanLog
  BY <1>6, SettledMem, SettledStep DEF CleanLog, Settled
<1>7. CASE CleanMeta
  BY <1>7, SettledMem, SettledStep DEF CleanMeta, Settled
<1>8. CASE CleanOffsets
  BY <1>8, SettledMem, SettledStep DEF CleanOffsets, Settled
<1> QED
  BY <1>1, <1>2, <1>3, <1>4, <1>5, <1>6, <1>7, <1>8

LEMMA CrashInv ==
  ASSUME StoreInv, Crash \/ Restart
  PROVE  StoreInv'
<1> USE DEF files, logger, bounds
<1>1. CASE Crash
  <2>1. mem' = EmptyMem /\ pc' = "down"
    BY <1>1 DEF Crash
  <2>2. MemShape(EmptyMem) /\ DOMAIN EmptyMem.trees = {}
    BY EmptyMemGood DEF GoodMem
  <2> QED
    BY <2>1, <2>2 DEF StoreInv, TreesKnown, SyncFindsTrees, CleanMatchesDisk, TmpIsNextIndex
<1>2. CASE Restart
  <2>1. pc = "down" /\ mem = EmptyMem /\ metadata' = IndexPreds(index) /\ index' = index
    BY <1>2 DEF Restart, StoreInv
  <2>2. \/ pc' = "failed" /\ mem' = EmptyMem
        \/ pc' = "idle" /\ mem' = IF NoCaching THEN LoadedAll(index) ELSE EmptyMem
    BY <1>2, <2>1 DEF Restart
  <2>3. GoodMem(LoadedAll(index), IndexPreds(index), index)
    BY DEF LoadedAll, GoodMem, MemShape, Consistent, CleanIn, IndexTree, IndexPreds
  <2>4. GoodMem(mem', metadata', index')
    BY <2>1, <2>2, <2>3, EmptyMemGood
  <2> QED
    BY <2>1, <2>2, <2>4 DEF StoreInv, TreesKnown, SyncFindsTrees, CleanMatchesDisk, TmpIsNextIndex,
                            GoodMem, Consistent, CleanIn
<1> QED
  BY <1>1, <1>2

LEMMA NextStore ==
  ASSUME StoreInv, [Next]_vars
  PROVE  StoreInv'
<1>1. CASE UNCHANGED vars
  BY <1>1 DEF vars, TreesKnown, StoreInv, SyncFindsTrees, CleanMatchesDisk, TmpIsNextIndex, MemShape
<1>2. CASE FullSyncBegin
  BY <1>2, SerialiseStep DEF FullSyncBegin, Settled, files
<1>3. CASE SyncStep
  BY <1>2, <1>3, CommitIndexInv, CompactInv, BulkInv DEF SyncStep
<1> QED
  BY <1>1, <1>3, LogStepInv, LoadStepInv, CrashInv DEF Next

(***************************************************************************)
(* sync_to_stream never dereferences a tree that is not in memory and      *)
(* never asks the metadata for a predicate it lacks, whatever was logged,  *)
(* loaded, evicted, synced and however often the process crashed           *)
(* (PredicatesIndexCacheMD.cpp:162-190).                                   *)
(***************************************************************************)
THEOREM SyncSafe == Spec => []SyncFindsTrees
<1>1. StoreInv => SyncFindsTrees
  BY DEF StoreInv
<1> QED
  BY InitStore, NextStore, <1>1, PTL DEF Spec

(***************************************************************************)
(* A tree that sync_to_stream copies from the old file instead of taking   *)
(* it from memory is the one in memory (PredicatesIndexCacheMD.cpp:        *)
(* 166-177).                                                               *)
(***************************************************************************)
THEOREM CleanTreesAreStored == Spec => []CleanMatchesDisk
<1>1. StoreInv => CleanMatchesDisk
  BY DEF StoreInv
<1> QED
  BY InitStore, NextStore, <1>1, PTL DEF Spec

-----------------------------------------------------------------------------
(***************************************************************************)
(* What was logged is neither lost nor hidden, but for the predicates that *)
(* stale and lost name.                                                    *)
(***************************************************************************)

\* What a log may hold.
Logged == Updates(Preds)

\* The predicates whose offsets lead to all that was logged for them.
Sound == Preds \ (stale \cup lost)

\* A map of offsets: no predicate has an empty list.
Shape(om) ==
  \/ om = NoOffsets
  \/ om \in [DOMAIN om -> Seq(Nat \X Nat) \ {<< >>}] /\ DOMAIN om \subseteq Preds

(***************************************************************************)
(* The offsets om of p lead to records of p in the file, which make of the *)
(* tree of the index idx the given one.                                    *)
(***************************************************************************)
Leads(file, om, p) ==
  \A i \in DOMAIN OffsetsOf(om, p) :
    InFile(file, OffsetsOf(om, p)[i]) /\ RecordAt(file, OffsetsOf(om, p)[i]).p = p

Fit(file, om, idx, p, tree) ==
  /\ Leads(file, om, p)
  /\ ApplyAll(IndexTree(idx, p), RecordsAt(file, OffsetsOf(om, p)), p) = tree

Fits(S, file, om, idx, t) == \A p \in S : Fit(file, om, idx, p, t[p])

LogFile(file) == file = Absent \/ file \in Seq(Seq(Logged))

\* The list of offsets of a predicate is a sequence.
LEMMA OffsetsType ==
  ASSUME NEW om, Shape(om), NEW p
  PROVE  /\ OffsetsOf(om, p) \in Seq(Nat \X Nat)
         /\ p \in DOMAIN om => OffsetsOf(om, p) = om[p] /\ om[p] # << >> /\ 1 \in DOMAIN om[p]
         /\ p \notin DOMAIN om => OffsetsOf(om, p) = << >>
         /\ DOMAIN om \subseteq Preds
<1>1. DOMAIN NoOffsets = {}
  BY DEF NoOffsets
<1>2. ASSUME p \in DOMAIN om PROVE om[p] \in Seq(Nat \X Nat) /\ om[p] # << >>
  BY <1>1, <1>2 DEF Shape
<1>3. \A s \in Seq(Nat \X Nat) : s # << >> => 1 \in DOMAIN s
  OBVIOUS
<1>4. DOMAIN om \subseteq Preds
  BY <1>1 DEF Shape
<1> QED
  BY <1>2, <1>3, <1>4 DEF OffsetsOf

\* The records at the offsets of a predicate.
LEMMA RecordsType ==
  ASSUME NEW file, LogFile(file), NEW om, Shape(om), NEW p, Leads(file, om, p)
  PROVE  LET os == OffsetsOf(om, p)
             us == RecordsAt(file, os)
         IN  /\ us \in Seq(Logged) /\ us \in Seq(Updates(Preds))
             /\ DOMAIN us = DOMAIN os
             /\ Len(us) = Len(os)
             /\ \A i \in DOMAIN us : us[i] \in Logged /\ us[i].p = p
             /\ Concerning(us, p) = DOMAIN us
<1> DEFINE os == OffsetsOf(om, p)
           us == RecordsAt(file, os)
<1>1. os \in Seq(Nat \X Nat) /\ DOMAIN os = 1..Len(os) /\ Len(os) \in Nat
  BY OffsetsType
<1>2. us = [i \in 1..Len(os) |-> RecordAt(file, os[i])]
  BY <1>1 DEF RecordsAt
<1>3. ASSUME NEW i \in 1..Len(os) PROVE RecordAt(file, os[i]) \in Logged /\ RecordAt(file, os[i]).p = p
  <2>1. InFile(file, os[i]) /\ RecordAt(file, os[i]).p = p
    BY <1>1 DEF Leads
  <2>2. file \in Seq(Seq(Logged))
    BY <2>1 DEF LogFile, InFile
  <2> QED
    BY <2>1, <2>2 DEF InFile, RecordAt
<1> HIDE DEF us
<1>4. us \in Seq(Logged) /\ DOMAIN us = 1..Len(os) /\ Len(us) = Len(os)
  BY <1>1, <1>2, <1>3
<1>5. \A i \in DOMAIN us : us[i] \in Logged /\ us[i].p = p
  BY <1>2, <1>3, <1>4
<1>6. Logged \subseteq Updates(Preds)
  BY DEF Logged
<1>7. us \in Seq(Updates(Preds))
  BY <1>4, <1>6
<1>8. Concerning(us, p) = DOMAIN us
  BY <1>5 DEF Concerning
<1> QED
  BY <1>1, <1>4, <1>5, <1>7, <1>8 DEF us

\* A predicate without offsets has its tree in the index.
LEMMA FitNone ==
  ASSUME NEW file, NEW om, Shape(om), NEW idx, NEW p, NEW tree,
         p \notin DOMAIN om \/ file = Absent
  PROVE  /\ Fit(file, om, idx, p, tree) => IndexTree(idx, p) = tree
         /\ p \notin DOMAIN om /\ IndexTree(idx, p) = tree => Fit(file, om, idx, p, tree)
<1> DEFINE os == OffsetsOf(om, p)
<1>1. ASSUME Leads(file, om, p) PROVE os = << >>
  <2>1. CASE p \notin DOMAIN om
    BY <2>1, OffsetsType
  <2>2. CASE file = Absent /\ p \in DOMAIN om
    BY <1>1, <2>2, OffsetsType DEF Leads, InFile
  <2> QED
    BY <2>1, <2>2
<1>2. Concerning(RecordsAt(file, << >>), p) = {}
  BY DEF Concerning, RecordsAt
<1>3. ApplyAll(IndexTree(idx, p), RecordsAt(file, << >>), p) = IndexTree(idx, p)
  BY <1>2, ApplyAllNothing
<1>4. p \notin DOMAIN om => os = << >> /\ Leads(file, om, p)
  BY OffsetsType DEF Leads
<1> QED
  BY <1>1, <1>3, <1>4 DEF Fit

\* The records of a predicate change nothing in the tree that they make.
LEMMA FitAgain ==
  ASSUME NEW file, NEW om, NEW idx, NEW idx2, NEW p, NEW tree,
         Fit(file, om, idx, p, tree), IndexTree(idx2, p) = tree
  PROVE  Fit(file, om, idx2, p, tree)
BY ApplyAllTwice DEF Fit

\* A file that has all that another one has.
Extends(file, file2) ==
  file # Absent =>
    /\ file2 # Absent
    /\ \A b \in DOMAIN file : /\ b \in DOMAIN file2
                              /\ \A i \in DOMAIN file[b] : i \in DOMAIN file2[b] /\ file2[b][i] = file[b][i]

\* Offsets into a log remain good when it grows.
LEMMA FitGrows ==
  ASSUME NEW file, NEW file2, Extends(file, file2), NEW om, NEW idx, NEW p, NEW tree,
         Fit(file, om, idx, p, tree)
  PROVE  /\ Fit(file2, om, idx, p, tree)
         /\ RecordsAt(file2, OffsetsOf(om, p)) = RecordsAt(file, OffsetsOf(om, p))
<1> DEFINE os == OffsetsOf(om, p)
<1>1. \A i \in DOMAIN os : /\ InFile(file2, os[i])
                           /\ RecordAt(file2, os[i]) = RecordAt(file, os[i])
                           /\ RecordAt(file, os[i]).p = p
  BY DEF Fit, Leads, InFile, RecordAt, Extends
<1> HIDE DEF os
<1>2. RecordsAt(file2, os) = RecordsAt(file, os)
  BY <1>1 DEF RecordsAt
<1> QED
  BY <1>1, <1>2 DEF Fit, Leads, os

(***************************************************************************)
(* A record is written behind the others of its predicate, and the trees   *)
(* follow; the other predicates do not see it.                             *)
(***************************************************************************)
LEMMA FitRecord ==
  ASSUME NEW file, LogFile(file), NEW om, Shape(om), NEW idx, NEW p, NEW tree,
         Fit(file, om, idx, p, tree),
         NEW o \in Nat \X Nat, InFile(file, o), NEW q, RecordAt(file, o).p = q
  PROVE  LET om2 == With(om, q, Append(OffsetsOf(om, q), o)) IN
         Fit(file, om2, idx, p, IF p = q THEN ApplyUpdate(tree, RecordAt(file, o)) ELSE tree)
<1> DEFINE os == OffsetsOf(om, q)
           om2 == With(om, q, Append(os, o))
           u == RecordAt(file, o)
<1>1. os \in Seq(Nat \X Nat)
  BY OffsetsType
<1>2. CASE p # q
  <2>1. OffsetsOf(om2, p) = OffsetsOf(om, p)
    BY <1>2 DEF OffsetsOf, With
  <2> HIDE DEF om2
  <2> QED
    BY <1>2, <2>1 DEF Fit, Leads, om2
<1>3. CASE p = q
  <2> DEFINE us == RecordsAt(file, os)
             vs == RecordsAt(file, Append(os, o))
  <2>1. OffsetsOf(om2, p) = Append(os, o)
    BY <1>3 DEF OffsetsOf, With
  <2>2. Leads(file, om, p)
    BY DEF Fit
  <2>3. us \in Seq(Logged) /\ Len(us) = Len(os) /\ DOMAIN us = 1..Len(os) /\ Len(os) \in Nat
    BY <1>1, <1>3, <2>2, RecordsType
  <2>4. u \in Logged
    <3>1. file \in Seq(Seq(Logged))
      BY DEF LogFile, InFile
    <3> QED
      BY <3>1 DEF InFile, RecordAt
  <2>5. /\ DOMAIN Append(os, o) = 1..(Len(os) + 1)
        /\ Append(os, o)[Len(os) + 1] = o
        /\ \A i \in 1..Len(os) : Append(os, o)[i] = os[i]
    BY <1>1
  <2>6. vs = Append(us, u)
    <3>1. vs = [i \in 1..(Len(os) + 1) |-> RecordAt(file, Append(os, o)[i])]
      BY <2>5 DEF RecordsAt
    <3>2. us = [i \in 1..Len(os) |-> RecordAt(file, os[i])]
      BY <1>1 DEF RecordsAt
    <3>3. \A i \in 1..(Len(os) + 1) : vs[i] = IF i = Len(os) + 1 THEN u ELSE us[i]
      BY <2>3, <2>5, <3>1, <3>2
    <3> HIDE DEF us, vs, u
    <3>4. vs \in Seq(Logged) /\ Len(vs) = Len(us) + 1
      <4>1. \A i \in 1..(Len(os) + 1) : vs[i] \in Logged
        BY <2>3, <2>4, <3>3 DEF u
      <4> QED
        BY <2>3, <3>1, <4>1
    <3>5. /\ Append(us, u) \in Seq(Logged) /\ Len(Append(us, u)) = Len(us) + 1
          /\ \A i \in 1..(Len(us) + 1) : Append(us, u)[i] = IF i = Len(us) + 1 THEN u ELSE us[i]
      BY <2>3, <2>4 DEF u
    <3> QED
      BY <2>3, <3>3, <3>4, <3>5, SeqEqual
  <2>7. Leads(file, om2, p)
    <3>1. \A i \in 1..(Len(os) + 1) :
            InFile(file, Append(os, o)[i]) /\ RecordAt(file, Append(os, o)[i]).p = p
      <4>1. \A i \in 1..Len(os) : InFile(file, os[i]) /\ RecordAt(file, os[i]).p = p
        BY <1>1, <1>3, <2>2 DEF Leads
      <4>2. \A i \in 1..(Len(os) + 1) : i = Len(os) + 1 \/ i \in 1..Len(os)
        BY <2>3
      <4> HIDE DEF os
      <4> QED
        BY <1>3, <2>5, <4>1, <4>2
    <3> HIDE DEF om2
    <3> QED
      BY <2>1, <2>5, <3>1 DEF Leads
  <2>8. ApplyAll(IndexTree(idx, p), Append(us, u), p) = ApplyUpdate(ApplyAll(IndexTree(idx, p), us, p), u)
    <3> HIDE DEF us, u
    <3>1. u.p = p
      BY <1>3 DEF u
    <3> QED
      BY <2>3, <2>4, <3>1, ApplyAllAppend
  <2>9. ApplyAll(IndexTree(idx, p), us, p) = tree
    BY <1>3 DEF Fit
  <2> HIDE DEF om2, us, vs, u
  <2>10. Fit(file, om2, idx, p, ApplyUpdate(tree, u))
    BY <2>1, <2>6, <2>7, <2>8, <2>9 DEF Fit, vs
  <2> QED
    BY <1>3, <2>10 DEF om2, u
<1> QED
  BY <1>2, <1>3

-----------------------------------------------------------------------------
(* Reading a predicate.                                                    *)

\* Of the trees of m only that of p changes, to the given one.
Loads(m, r, p, tree) ==
  /\ DOMAIN m.trees \subseteq DOMAIN r.trees
  /\ DOMAIN r.trees \subseteq DOMAIN m.trees \cup {p}
  /\ \A q \in DOMAIN m.trees : q # p => r.trees[q] = m.trees[q]
  /\ p \in DOMAIN r.trees => r.trees[p] = tree

\* Where there are offsets there is a log.
LEMMA LogThere ==
  ASSUME NEW file, NEW om, Shape(om), NEW p \in DOMAIN om, Leads(file, om, p)
  PROVE  file # Absent
BY OffsetsType DEF Leads, InFile

\* Replaying the records of p over its tree.
LEMMA RecoveredTree ==
  ASSUME NEW m, NEW p, m.new \subseteq DOMAIN m.trees, log # Absent, LogFile(log),
         Shape(offsets_map), Leads(log, offsets_map, p), NEW tree,
         tree = ApplyAll(IF p \in DOMAIN m.trees THEN m.trees[p] ELSE {},
                         RecordsAt(log, OffsetsOf(offsets_map, p)), p)
  PROVE  Loads(m, Recovered(m, p), p, tree)
<1> DEFINE us == RecordsAt(log, OffsetsOf(offsets_map, p))
<1>1. \A i \in DOMAIN us : us[i].p = p
  BY RecordsType
<1>2. Recovered(m, p) = MergeRecords(m, us)
  BY DEF Recovered
<1> HIDE DEF us
<1>3. tree = ApplyAll(IF p \in DOMAIN m.trees THEN m.trees[p] ELSE {}, us, p)
  BY DEF us
<1>4. LET r == MergeRecords(m, us)
             old == IF p \in DOMAIN m.trees THEN m.trees[p] ELSE {}
      IN  /\ DOMAIN m.trees \subseteq DOMAIN r.trees
          /\ DOMAIN r.trees \subseteq DOMAIN m.trees \cup {p}
          /\ \A q \in DOMAIN m.trees : q # p => r.trees[q] = m.trees[q]
          /\ p \in DOMAIN r.trees => r.trees[p] = ApplyAll(old, us, p)
          /\ p \notin DOMAIN r.trees => ApplyAll({}, us, p) = {}
  BY <1>1, MergeRecordsOfOne, Zenon
<1> QED
  BY <1>2, <1>3, <1>4 DEF Loads

(***************************************************************************)
(* load_single_predicate: the tree of the index with the records of the    *)
(* log, or, for a new predicate, the tree in memory with the records once  *)
(* more.                                                                   *)
(***************************************************************************)
LEMMA LoadedSingleTree ==
  ASSUME NEW m, NEW p, GoodMem(m, metadata, index), metadata = IndexPreds(index),
         LogFile(log), Shape(offsets_map), NEW tree, Fit(log, offsets_map, index, p, tree),
         p \in DOMAIN m.trees => m.trees[p] = tree
  PROVE  /\ Loads(m, LoadedSingle(m, p), p, tree)
         /\ p \in metadata => p \in DOMAIN LoadedSingle(m, p).trees
<1> DEFINE us == RecordsAt(log, OffsetsOf(offsets_map, p))
           loaded == [m EXCEPT !.trees = With(m.trees, p, IndexTree(index, p))]
           start == IF p \in metadata THEN loaded ELSE m
<1>1. LoadedSingle(m, p) = IF p \in DOMAIN offsets_map THEN Recovered(start, p) ELSE start
  BY DEF LoadedSingle
<1>2. m.new \subseteq DOMAIN m.trees
  BY DEF GoodMem, Consistent
<1>3. loaded.trees = With(m.trees, p, IndexTree(index, p)) /\ loaded.new = m.new
  BY DEF GoodMem, MemShape
<1>4. p \notin metadata => IndexTree(index, p) = {}
  BY DEF IndexTree
<1>5. /\ start.new \subseteq DOMAIN start.trees
      /\ DOMAIN m.trees \subseteq DOMAIN start.trees
      /\ DOMAIN start.trees \subseteq DOMAIN m.trees \cup {p}
      /\ p \in metadata => p \in DOMAIN start.trees /\ start.trees[p] = IndexTree(index, p)
      /\ p \notin metadata => start = m
      /\ \A q \in DOMAIN m.trees : q # p => start.trees[q] = m.trees[q]
  BY <1>2, <1>3 DEF With
<1> HIDE DEF start
<1>6. CASE p \notin DOMAIN offsets_map
  <2>1. IndexTree(index, p) = tree
    BY <1>6, FitNone
  <2> QED
    BY <1>1, <1>5, <1>6, <2>1 DEF Loads
<1>7. CASE p \in DOMAIN offsets_map
  <2>1. log # Absent /\ Leads(log, offsets_map, p)
    BY <1>7, LogThere DEF Fit
  <2>2. ApplyAll(IndexTree(index, p), us, p) = tree
    BY DEF Fit
  <2>3. tree = ApplyAll(tree, us, p)
    BY <2>2, ApplyAllTwice
  <2>4. tree = ApplyAll(IF p \in DOMAIN start.trees THEN start.trees[p] ELSE {}, us, p)
    <3>1. CASE p \in metadata
      BY <1>5, <2>2, <3>1
    <3>2. CASE p \notin metadata /\ p \in DOMAIN m.trees
      BY <1>5, <2>3, <3>2
    <3>3. CASE p \notin metadata /\ p \notin DOMAIN m.trees
      BY <1>4, <1>5, <2>2, <3>3
    <3> QED
      BY <3>1, <3>2, <3>3
  <2>5. Loads(start, Recovered(start, p), p, tree)
    BY <1>5, <2>1, <2>4, RecoveredTree
  <2> QED
    BY <1>1, <1>5, <1>7, <2>5 DEF Loads
<1> QED
  BY <1>6, <1>7

\* fetch_k2tree: a predicate that is known is in memory afterwards.
LEMMA FetchedTree ==
  ASSUME NEW m, NEW p, GoodMem(m, metadata, index), metadata = IndexPreds(index),
         LogFile(log), Shape(offsets_map), NEW tree, Fit(log, offsets_map, index, p, tree),
         p \notin DOMAIN m.trees
  PROVE  /\ Loads(m, Fetched(m, p), p, tree)
         /\ p \in metadata \cup DOMAIN offsets_map => p \in DOMAIN Fetched(m, p).trees
<1> DEFINE one == LoadedSingle(m, p)
           added == AddPredicate(one, p)
<1>1. Fetched(m, p) = IF ~Active(one, p) /\ p \in DOMAIN offsets_map THEN Recovered(added, p) ELSE one
  BY DEF Fetched
<1>2. Loads(m, one, p, tree) /\ (p \in metadata => p \in DOMAIN one.trees)
  BY LoadedSingleTree
<1>3. one.new \subseteq DOMAIN one.trees
  BY LoadedSingleGood DEF GoodMem, Consistent
<1>4. Active(one, p) <=> p \in DOMAIN one.trees
  BY <1>3 DEF Active
<1> HIDE DEF one
<1>5. added.trees = With(one.trees, p, {}) /\ added.new = one.new \cup {p}
  BY DEF AddPredicate
<1>6. /\ added.new \subseteq DOMAIN added.trees
      /\ DOMAIN added.trees = DOMAIN one.trees \cup {p}
      /\ p \in DOMAIN added.trees /\ added.trees[p] = {}
      /\ \A q \in DOMAIN one.trees : q # p => added.trees[q] = one.trees[q]
  BY <1>3, <1>5 DEF With
<1> HIDE DEF added
<1>7. CASE ~Active(one, p) /\ p \in DOMAIN offsets_map
  <2>1. log # Absent /\ Leads(log, offsets_map, p)
    BY <1>7, LogThere DEF Fit
  <2>2. IndexTree(index, p) = {}
    BY <1>2, <1>4, <1>7 DEF IndexTree
  <2>3. tree = ApplyAll(IF p \in DOMAIN added.trees THEN added.trees[p] ELSE {},
                        RecordsAt(log, OffsetsOf(offsets_map, p)), p)
    BY <1>6, <2>2 DEF Fit
  <2>4. Loads(added, Recovered(added, p), p, tree)
    BY <1>6, <2>1, <2>3, RecoveredTree
  <2> QED
    BY <1>1, <1>2, <1>6, <1>7, <2>4 DEF Loads
<1>8. CASE Active(one, p) \/ p \notin DOMAIN offsets_map
  BY <1>1, <1>2, <1>4, <1>8
<1> QED
  BY <1>7, <1>8

(***************************************************************************)
(* Whatever the offsets of p lead to, a load leaves alone the predicates   *)
(* that no record names.                                                   *)
(***************************************************************************)
Same(m, r, q) ==
  /\ q \in DOMAIN r.trees <=> q \in DOMAIN m.trees
  /\ q \in DOMAIN m.trees => r.trees[q] = m.trees[q]

LEMMA RecoveredOthers ==
  ASSUME NEW m, NEW p, NEW q, q # p, q \notin Misread(p)
  PROVE  Same(m, Recovered(m, p), q)
<1>1. CASE log = Absent
  BY <1>1 DEF Recovered, Same
<1>2. CASE log # Absent
  <2> DEFINE us == RecordsAt(log, OffsetsOf(offsets_map, p))
  <2>1. \A i \in DOMAIN us : us[i].p # q
    BY <1>2 DEF Misread
  <2>2. Recovered(m, p) = MergeRecords(m, us)
    BY <1>2 DEF Recovered
  <2> HIDE DEF us
  <2> QED
    BY <2>1, <2>2, MergeRecordsOthers DEF Same
<1> QED
  BY <1>1, <1>2

LEMMA LoadOthers ==
  ASSUME NEW m, NEW p, NEW q, q # p, q \notin Misread(p), MemShape(m)
  PROVE  Same(m, LoadedSingle(m, p), q) /\ Same(m, Fetched(m, p), q)
<1> DEFINE loaded == [m EXCEPT !.trees = With(m.trees, p, IndexTree(index, p))]
           start == IF p \in metadata THEN loaded ELSE m
           one == IF p \in DOMAIN m.trees THEN m ELSE LoadedSingle(m, p)
           added == AddPredicate(one, p)
<1>1. LoadedSingle(m, p) = IF p \in DOMAIN offsets_map THEN Recovered(start, p) ELSE start
  BY DEF LoadedSingle
<1>2. loaded.trees = With(m.trees, p, IndexTree(index, p))
  BY DEF MemShape
<1>3. Same(m, start, q)
  BY <1>2 DEF Same, With
<1> HIDE DEF start
<1>4. Same(m, LoadedSingle(m, p), q)
  BY <1>1, <1>3, RecoveredOthers DEF Same
<1>5. Same(m, one, q)
  BY <1>4 DEF Same
<1>6. Fetched(m, p) = IF ~Active(one, p) /\ p \in DOMAIN offsets_map THEN Recovered(added, p) ELSE one
  BY DEF Fetched
<1> HIDE DEF one
<1>7. Same(one, added, q)
  BY DEF Same, AddPredicate, With
<1> HIDE DEF added
<1>8. Same(m, Fetched(m, p), q)
  BY <1>5, <1>6, <1>7, RecoveredOthers DEF Same
<1> QED
  BY <1>4, <1>8

\* The load of a predicate that is sound reads its records alone.
LEMMA SoundMisread ==
  ASSUME NEW p \in Sound, LogFile(log), Shape(offsets_map), Leads(log, offsets_map, p)
  PROVE  Misread(p) = {}
<1>1. p \notin stale
  BY DEF Sound
<1>2. \A i \in DOMAIN RecordsAt(log, OffsetsOf(offsets_map, p)) :
        RecordsAt(log, OffsetsOf(offsets_map, p))[i].p = p
  BY RecordsType
<1> QED
  BY <1>1, <1>2 DEF Misread

-----------------------------------------------------------------------------
(* Writing the log and compacting it.                                      *)

LEMMA LogNotAbsent ==
  ASSUME NEW file \in Seq(Seq(Logged))
  PROVE  file # Absent
<1>1. file \in Seq(Seq(Updates(Preds)))
  BY DEF Logged
<1> QED
  BY <1>1, AbsentAssumption

LEMMA OffsetsNotAbsent ==
  ASSUME NEW om, Shape(om)
  PROVE  (IF om = Absent THEN NoOffsets ELSE om) = om
<1>1. CASE om = NoOffsets
  BY <1>1
<1>2. CASE om \in [DOMAIN om -> Seq(Nat \X Nat) \ {<< >>}] /\ DOMAIN om \subseteq Preds
  <2>1. om \in [DOMAIN om -> Seq(Nat \X Nat)]
    BY <1>2
  <2> QED
    BY <1>2, <2>1, AbsentAssumption
<1> QED
  BY <1>1, <1>2 DEF Shape

LEMMA ShapeWith ==
  ASSUME NEW om, Shape(om), NEW p \in Preds, NEW os \in Seq(Nat \X Nat), os # << >>
  PROVE  Shape(With(om, p, os)) /\ DOMAIN With(om, p, os) = DOMAIN om \cup {p}
<1> DEFINE om2 == With(om, p, os)
<1>1. DOMAIN om2 = DOMAIN om \cup {p}
  BY DEF With
<1>2. DOMAIN om \subseteq Preds
  BY OffsetsType
<1>3. \A q \in DOMAIN om : om[q] \in Seq(Nat \X Nat) \ {<< >>}
  <2> TAKE q \in DOMAIN om
  <2>1. OffsetsOf(om, q) \in Seq(Nat \X Nat) /\ OffsetsOf(om, q) = om[q] /\ om[q] # << >>
    BY OffsetsType
  <2> QED
    BY <2>1
<1>4. om2 \in [DOMAIN om2 -> Seq(Nat \X Nat) \ {<< >>}]
  BY <1>1, <1>3 DEF With
<1> QED
  BY <1>1, <1>2, <1>4 DEF Shape

\* A log grows by a batch at its end, or by a record at the end of its last batch.
LEMMA LogGrows ==
  ASSUME NEW file \in Seq(Seq(Logged))
  PROVE  /\ \A us \in Seq(Logged) : /\ Append(file, us) \in Seq(Seq(Logged))
                                    /\ Extends(file, Append(file, us))
         /\ \A n \in DOMAIN file, u \in Logged :
              LET file2 == [file EXCEPT ![n] = Append(file[n], u)]
                  o == <<n, Len(file[n]) + 1>>
              IN  /\ file2 \in Seq(Seq(Logged)) /\ Extends(file, file2)
                  /\ Len(file2) = Len(file) /\ file2[n] = Append(file[n], u)
                  /\ o \in Nat \X Nat /\ InFile(file2, o) /\ RecordAt(file2, o) = u
<1>1. ASSUME NEW us \in Seq(Logged)
      PROVE  Append(file, us) \in Seq(Seq(Logged)) /\ Extends(file, Append(file, us))
  <2>1. Append(file, us) \in Seq(Seq(Logged))
    OBVIOUS
  <2>2. Append(file, us) # Absent
    BY <2>1, LogNotAbsent
  <2>3. \A b \in DOMAIN file : b \in DOMAIN Append(file, us) /\ Append(file, us)[b] = file[b]
    OBVIOUS
  <2> QED
    BY <2>1, <2>2, <2>3 DEF Extends
<1>2. ASSUME NEW n \in DOMAIN file, NEW u \in Logged
      PROVE  LET file2 == [file EXCEPT ![n] = Append(file[n], u)]
                 o == <<n, Len(file[n]) + 1>>
             IN  /\ file2 \in Seq(Seq(Logged)) /\ Extends(file, file2)
                 /\ Len(file2) = Len(file) /\ file2[n] = Append(file[n], u)
                 /\ o \in Nat \X Nat /\ InFile(file2, o) /\ RecordAt(file2, o) = u
  <2> DEFINE us == file[n]
             vs == Append(us, u)
             file2 == [file EXCEPT ![n] = vs]
             k == Len(us) + 1
  <2>1. us \in Seq(Logged) /\ n \in Nat /\ Len(us) \in Nat
    OBVIOUS
  <2>2. vs \in Seq(Logged) /\ k \in DOMAIN vs /\ vs[k] = u /\ \A i \in DOMAIN us : i \in DOMAIN vs /\ vs[i] = us[i]
    BY <2>1
  <2> HIDE DEF vs
  <2>3. /\ file2 \in Seq(Seq(Logged)) /\ Len(file2) = Len(file) /\ DOMAIN file2 = DOMAIN file
        /\ file2[n] = vs /\ \A b \in DOMAIN file : b # n => file2[b] = file[b]
    BY <2>2
  <2> HIDE DEF file2
  <2>4. file2 # Absent
    BY <2>3, LogNotAbsent
  <2>5. Extends(file, file2)
    BY <2>2, <2>3, <2>4 DEF Extends
  <2>6. InFile(file2, <<n, k>>) /\ RecordAt(file2, <<n, k>>) = u
    BY <2>2, <2>3, <2>4 DEF InFile, RecordAt
  <2>7. <<n, k>> \in Nat \X Nat
    BY <2>1
  <2> QED
    BY <2>3, <2>5, <2>6, <2>7 DEF file2, vs
<1> QED
  BY <1>1, <1>2

(***************************************************************************)
(* compact_predicate: the record it makes of those of p is one of p, and   *)
(* does to the tree of the index what they do, when no tree is dropped or  *)
(* when the index already has them.                                        *)
(***************************************************************************)
LEMMA CompactedRecord ==
  ASSUME NEW file, LogFile(file), NEW om, Shape(om), NEW idx, NEW p \in DOMAIN om,
         Leads(file, om, p)
  PROVE  LET us == RecordsAt(file, om[p])
             c == CompactRecords(us)
         IN  /\ c \in Logged /\ c.p = p
             /\ \A tree : Fit(file, om, idx, p, tree) /\ (~DropsTrees(us) \/ IndexTree(idx, p) = tree)
                           => ApplyUpdate(IndexTree(idx, p), c) = tree
<1> DEFINE us == RecordsAt(file, OffsetsOf(om, p))
           c == CompactRecords(us)
<1>1. /\ OffsetsOf(om, p) = om[p] /\ 1 \in DOMAIN om[p]
  BY OffsetsType
<1>3. /\ us \in Seq(Updates(Preds)) /\ DOMAIN us = DOMAIN om[p]
      /\ \A i \in DOMAIN us : us[i] \in Logged /\ us[i].p = p
  BY <1>1, RecordsType
<1>2. \A tree : Fit(file, om, idx, p, tree) => ApplyAll(IndexTree(idx, p), us, p) = tree
  BY DEF Fit
<1> HIDE DEF us
<1>4. us # << >> /\ 1 \in DOMAIN us
  BY <1>1, <1>3
<1>6. c \in Updates(Preds) /\ c.p = us[1].p
  BY <1>3, <1>4, CompactType
<1>7. ASSUME ~DropsTrees(us)
      PROVE  ApplyUpdate(IndexTree(idx, p), c) = ApplyAll(IndexTree(idx, p), us, p)
  BY <1>3, <1>4, <1>7, CompactMeans
<1>8. ApplyUpdate(ApplyAll(IndexTree(idx, p), us, p), c) = ApplyAll(IndexTree(idx, p), us, p)
  BY <1>3, <1>4, CompactAbsorbed
<1> HIDE DEF c
<1>9. ASSUME NEW tree, Fit(file, om, idx, p, tree), ~DropsTrees(us) \/ IndexTree(idx, p) = tree
      PROVE  ApplyUpdate(IndexTree(idx, p), c) = tree
  BY <1>2, <1>7, <1>8, <1>9
<1>10. us = RecordsAt(file, om[p])
  BY <1>1 DEF us
<1> QED
  BY <1>3, <1>4, <1>6, <1>9, <1>10 DEF Logged, c

-----------------------------------------------------------------------------
(* The invariant.                                                          *)

\* The offsets that a restart would read.
Saved == IF offsets = Absent THEN NoOffsets ELSE offsets

\* The trees that the files stand for.
Now == IF pc = "log_merge" THEN TruthAfter(batch) ELSE truth

\* The batch that was written last.
Recent == log[Len(log)]

\* The index has the trees of S, but for what was lost.
InIndex(S) == \A p \in S : p \in Preds \ lost => IndexTree(index, p) = truth[p]

RecordsInv ==
  /\ LogFile(log)
  /\ batch \in Seq(Logged)
  /\ bulk = [first |-> bulk.first, todo |-> bulk.todo, held |-> bulk.held]

\* What was lost was in the log: a sync that removes the log has saved the rest.
StaleInv ==
  /\ stale \subseteq DOMAIN offsets_map
  /\ pc \notin Windows => stale \subseteq DOMAIN Saved
  /\ pc \in {"compact_offsets_rename", "compact_meta_unlink", "compact_meta_rename",
             "compact_log_unlink", "compact_log_rename"} => stale \subseteq DOMAIN tmp.offsets

MemInv == \A p \in DOMAIN mem.trees : p \in Preds \ lost => mem.trees[p] = truth[p]

DiskInv == pc \notin Windows => Shape(Saved) /\ Fits(Sound, log, Saved, index, Now)

\* Where the logger's map of offsets is the one on disk.
SameInv ==
  pc \in {"idle", "log_merge", "sync_unlink", "sync_rename", "compact", "bulk", "bulk_serialise",
          "bulk_discard", "clean_log"} => offsets_map = Saved

\* A batch that is being logged: the records written so far count.
LogInv ==
  pc \in {"log_write", "log_rename"} =>
    /\ log # Absent /\ Len(log) > 0
    /\ Shape(offsets_map)
    /\ Len(Recent) <= Len(batch)
    /\ \A i \in DOMAIN Recent : Recent[i] = batch[i]
    /\ pc = "log_rename" => Len(Recent) = Len(batch)
    /\ Fits(Sound, log, offsets_map, index, TruthAfter(Recent))

\* The index that is about to replace the old one has what memory has.
TmpInv ==
  pc \in {"sync_unlink", "sync_rename"} =>
    /\ Shape(offsets_map)
    /\ Fits(Sound, log, offsets_map, tmp, truth)
    /\ \A p \in DOMAIN mem.trees : p \in Preds \ lost => IndexTree(tmp, p) = truth[p]
    /\ ~bulk.first => /\ \A p \in DOMAIN offsets_map \ bulk.todo :
                            p \in Preds \ lost => IndexTree(tmp, p) = truth[p]
                      /\ bulk.todo \subseteq DOMAIN offsets_map
    /\ bulk.held \ lost \subseteq DOMAIN mem.trees

\* The log that is about to replace the old one means the same.
CompactInto ==
  pc \in {"compact", "compact_offsets_rename", "compact_meta_unlink", "compact_meta_rename",
          "compact_log_unlink", "compact_log_rename"} =>
    /\ InIndex(DOMAIN mem.trees)
    /\ tmp.log \in Seq(Seq(Logged))
    /\ Shape(tmp.offsets)
    /\ pc = "compact" => DOMAIN tmp.offsets \subseteq DOMAIN offsets_map
    /\ Fits(DOMAIN tmp.offsets \cap Sound, tmp.log, tmp.offsets, index, truth)
    /\ pc # "compact" => Fits(Sound, tmp.log, tmp.offsets, index, truth)
    /\ pc \notin {"compact", "compact_offsets_rename"} => offsets_map = tmp.offsets /\ Saved = tmp.offsets

\* What sync_logs_to_indexes is done with is in the index, or held to be saved.
BulkSaved ==
  /\ pc \in {"bulk", "bulk_serialise"} =>
       /\ InIndex((DOMAIN mem.trees \cup (DOMAIN offsets_map \ bulk.todo)) \ bulk.held)
       /\ bulk.held \ lost \subseteq DOMAIN mem.trees
  /\ pc = "bulk_discard" => InIndex(DOMAIN mem.trees \cup (DOMAIN offsets_map \ bulk.todo))
  /\ pc \in {"bulk", "bulk_serialise", "bulk_discard"} =>
       bulk.todo \subseteq DOMAIN offsets_map /\ ~bulk.first

\* The log is removed when the index has everything.
CleanInv ==
  /\ pc \in {"clean_log", "clean_meta", "clean_offsets"} => InIndex(Preds)
  /\ pc \in {"clean_meta", "clean_offsets"} => log = Absent /\ offsets_map = NoOffsets /\ stale = {}

Intact ==
  /\ RecordsInv /\ StaleInv /\ MemInv /\ DiskInv /\ SameInv
  /\ LogInv /\ TmpInv /\ CompactInto /\ BulkSaved /\ CleanInv

FilesInv == ~torn => Intact

-----------------------------------------------------------------------------
(* Every step keeps the files and memory intact.                           *)

\* The records that sessions commit may be in a log.
LEMMA BatchesLogged ==
  ASSUME NEW us \in Batches
  PROVE  us \in Seq(Logged)
<1> DEFINE U == {u \in Updates(Preds) : Kind(u) # "NO_UPDATE"}
<1>1. us \in Seq(U)
  BY BatchesAssumption
<1>2. U \subseteq Logged
  BY DEF Logged
<1> HIDE DEF U
<1> QED
  BY <1>1, <1>2

\* What Intact says when the metadata describes the index.
LEMMA IdleFits ==
  ASSUME Intact, pc \in {"idle", "sync_unlink", "compact", "bulk", "bulk_serialise", "bulk_discard",
                         "clean_log"}
  PROVE  /\ Shape(offsets_map) /\ offsets_map = Saved
         /\ Fits(Sound, log, offsets_map, index, truth)
BY DEF Intact, DiskInv, SameInv, Windows, Now

LEMMA LogOpenIntact ==
  ASSUME Intact, NEW us \in Batches, LogOpen(us)
  PROVE  Intact'
<1> DEFINE start == LogToAppend
<1>1. /\ pc = "idle" /\ pc' = "log_write" /\ batch' = us /\ writer' = TRUE
      /\ log' = Append(LogToAppend, << >>) /\ stale' = stale \cup Truncated
      /\ UNCHANGED <<index, offsets, mem, offsets_map, bulk, tmp, truth, lost>>
  BY DEF LogOpen
<1>3. start \in Seq(Seq(Logged)) /\ LogFile(log)
  BY DEF Intact, RecordsInv, LogFile, LogToAppend
<1>4. /\ log' \in Seq(Seq(Logged)) /\ Extends(start, log')
      /\ Len(log') > 0 /\ log'[Len(log')] = << >>
  <2>1. << >> \in Seq(Logged) /\ log' = Append(start, << >>)
    BY <1>1
  <2> HIDE DEF start
  <2>2. log' \in Seq(Seq(Logged)) /\ Extends(start, log')
    BY <1>3, <2>1, LogGrows
  <2>3. Len(log') = Len(start) + 1 /\ log'[Len(start) + 1] = << >> /\ Len(start) \in Nat
    BY <1>3, <2>1
  <2> QED
    BY <2>2, <2>3
<1>5. log' # Absent /\ (writer \/ log = Absent => Extends(log, log'))
  BY <1>4, LogNotAbsent DEF Extends, LogToAppend
<1>6. Shape(offsets_map) /\ offsets_map = Saved /\ Fits(Sound, log, offsets_map, index, truth)
  BY <1>1, IdleFits
<1>7. ASSUME NEW p \in Sound' PROVE p \in Preds /\ Fit(log', offsets_map, index, p, truth[p])
  <2>1. p \in Sound /\ p \in Preds
    BY <1>1 DEF Sound
  <2>2. Fit(log, offsets_map, index, p, truth[p])
    BY <1>6, <2>1 DEF Fits
  <2>3. CASE writer \/ log = Absent
    BY <1>5, <2>1, <2>2, <2>3, FitGrows
  <2>4. CASE ~writer /\ log # Absent
    <3>1. p \notin DOMAIN offsets_map
      BY <1>1, <2>4 DEF Sound, Truncated
    <3>2. IndexTree(index, p) = truth[p]
      BY <1>6, <2>2, <3>1, FitNone
    <3> QED
      BY <1>6, <2>1, <3>1, <3>2, FitNone
  <2> QED
    BY <2>3, <2>4
<1>8. \A p \in Preds : TruthAfter(<< >>)[p] = truth[p]
  <2>1. \A p : Concerning(<< >>, p) = {}
    BY DEF Concerning
  <2> QED
    BY <2>1, ApplyAllNothing DEF TruthAfter
<1>9. /\ Fits(Sound', log', offsets_map, index, truth)
      /\ Fits(Sound', log', offsets_map, index, TruthAfter(<< >>))
  BY <1>7, <1>8 DEF Fits
<1>10. TruthAfter(Recent)' = TruthAfter(<< >>)
  BY <1>1, <1>4 DEF TruthAfter, Recent
<1>11. LogInv'
  <2>1. Len(us) \in Nat
    BY BatchesLogged
  <2> QED
    BY <1>1, <1>4, <1>5, <1>6, <1>9, <1>10, <2>1 DEF LogInv, Recent
<1>12. us \in Seq(Logged)
  BY BatchesLogged
<1>13. RecordsInv' /\ MemInv' /\ DiskInv' /\ SameInv'
  BY <1>1, <1>4, <1>6, <1>9, <1>12 DEF Intact, RecordsInv, LogFile, MemInv, DiskInv, SameInv, Saved, Now
<1>15. StaleInv'
  BY <1>1, <1>6 DEF Intact, StaleInv, Saved, Truncated, Windows
<1>14. TmpInv' /\ CompactInto' /\ BulkSaved' /\ CleanInv'
  BY <1>1 DEF TmpInv, CompactInto, BulkSaved, CleanInv
<1> QED
  BY <1>11, <1>13, <1>14, <1>15 DEF Intact

LEMMA LogRecordIntact ==
  ASSUME Intact, LogRecord
  PROVE  Intact'
<1> DEFINE n == Len(log)
           us == log[n]
           i == Len(us) + 1
           u == batch[i]
           om == With(offsets_map, u.p, Append(OffsetsOf(offsets_map, u.p), <<n, i>>))
<1>1. /\ pc = "log_write" /\ pc' = "log_write" /\ i <= Len(batch)
      /\ log' = [log EXCEPT ![n] = Append(us, u)]
      /\ offsets_map' = om
      /\ UNCHANGED <<index, offsets, mem, bulk, batch, tmp, truth, stale, lost>>
  BY DEF LogRecord, damage
<1>2. /\ log \in Seq(Seq(Logged)) /\ n > 0 /\ Shape(offsets_map) /\ Len(us) <= Len(batch)
      /\ \A j \in DOMAIN us : us[j] = batch[j]
      /\ Fits(Sound, log, offsets_map, index, TruthAfter(us))
      /\ batch \in Seq(Logged)
  BY <1>1 DEF Intact, LogInv, Recent, RecordsInv, LogFile
<1>3. n \in DOMAIN log /\ us \in Seq(Logged) /\ Len(us) \in Nat /\ u \in Logged
  BY <1>1, <1>2
<1>4. u.p \in Preds
  BY <1>3 DEF Logged, Updates
<1>5. /\ log' \in Seq(Seq(Logged)) /\ Extends(log, log') /\ Len(log') = n /\ log'[n] = Append(us, u)
      /\ <<n, i>> \in Nat \X Nat /\ InFile(log', <<n, i>>) /\ RecordAt(log', <<n, i>>) = u
  BY <1>1, <1>2, <1>3, LogGrows
<1>6. log' # Absent /\ LogFile(log')
  BY <1>5, LogNotAbsent DEF LogFile
<1>7. Shape(om) /\ DOMAIN offsets_map \subseteq DOMAIN om
  <2>1. OffsetsOf(offsets_map, u.p) \in Seq(Nat \X Nat)
    BY <1>2, OffsetsType
  <2> DEFINE os == OffsetsOf(offsets_map, u.p)
             o == <<n, i>>
  <2>2. o \in Nat \X Nat
    BY <1>5
  <2> HIDE DEF u, o, os
  <2>3. Append(os, o) \in Seq(Nat \X Nat) /\ Append(os, o) # << >>
    BY <2>1, <2>2, AppendProperties DEF os
  <2>4. /\ Shape(With(offsets_map, u.p, Append(os, o)))
        /\ DOMAIN With(offsets_map, u.p, Append(os, o)) = DOMAIN offsets_map \cup {u.p}
    BY <1>2, <1>4, <2>3, ShapeWith
  <2> QED
    BY <2>4 DEF os, o
<1> HIDE DEF us, i, u, n
<1>8. ASSUME NEW p \in Sound PROVE Fit(log', om, index, p, TruthAfter(Append(us, u))[p])
  <2>1. Fit(log, offsets_map, index, p, TruthAfter(us)[p])
    BY <1>2 DEF Fits
  <2>6. p \in Preds
    BY DEF Sound
  <2>2. Fit(log', offsets_map, index, p, TruthAfter(us)[p])
    BY <1>5, <2>1, FitGrows
  <2>3. Fit(log', om, index, p, IF p = u.p THEN ApplyUpdate(TruthAfter(us)[p], u) ELSE TruthAfter(us)[p])
    BY <1>2, <1>5, <1>6, <2>2, FitRecord
  <2>4. /\ TruthAfter(us)[p] = ApplyAll(truth[p], us, p)
        /\ TruthAfter(Append(us, u))[p] = ApplyAll(truth[p], Append(us, u), p)
    BY <2>6 DEF TruthAfter
  <2>5. ApplyAll(truth[p], Append(us, u), p)
          = IF u.p = p THEN ApplyUpdate(ApplyAll(truth[p], us, p), u) ELSE ApplyAll(truth[p], us, p)
    BY <1>3, ApplyAllAppend
  <2> QED
    BY <2>3, <2>4, <2>5
<1>16. Sound' = Sound
  BY <1>1 DEF Sound
<1>9. Fits(Sound', log', offsets_map', index, TruthAfter(Append(us, u)))
  BY <1>1, <1>8, <1>16 DEF Fits
<1>10. Recent' = Append(us, u) /\ TruthAfter(Recent)' = TruthAfter(Append(us, u))
  BY <1>1, <1>5 DEF Recent, TruthAfter
<1>11. LogInv'
  <2>1. Len(Append(us, u)) = i /\ \A j \in DOMAIN Append(us, u) : Append(us, u)[j] = batch[j]
    BY <1>2, <1>3 DEF i, u
  <2> QED
    BY <1>1, <1>2, <1>5, <1>6, <1>7, <1>9, <1>10, <2>1 DEF LogInv
<1>12. Fits(Sound', log', Saved, index, truth) /\ Shape(Saved)
  <2>1. Fits(Sound, log, Saved, index, truth) /\ Shape(Saved)
    BY <1>1 DEF Intact, DiskInv, Windows, Now
  <2> QED
    BY <1>5, <1>16, <2>1, FitGrows DEF Fits
<1>13. RecordsInv' /\ StaleInv' /\ MemInv'
  BY <1>1, <1>2, <1>6, <1>7 DEF Intact, RecordsInv, StaleInv, MemInv, Saved, Windows
<1>15. DiskInv' /\ SameInv'
  BY <1>1, <1>12 DEF DiskInv, SameInv, Saved, Now
<1>14. TmpInv' /\ CompactInto' /\ BulkSaved' /\ CleanInv'
  BY <1>1 DEF TmpInv, CompactInto, BulkSaved, CleanInv
<1> QED
  BY <1>11, <1>13, <1>14, <1>15 DEF Intact

LEMMA LogOffsetsIntact ==
  ASSUME Intact, LogOffsetsUnlink \/ LogOffsetsRename
  PROVE  Intact'
<1> USE DEF logger, damage
<1>1. CASE LogOffsetsUnlink
  <2>1. /\ pc = "log_write" /\ pc' = "log_rename" /\ Len(Recent) = Len(batch)
        /\ UNCHANGED <<index, log, mem, offsets_map, bulk, batch, tmp, truth, stale, lost>>
    BY <1>1 DEF LogOffsetsUnlink, Recent
  <2>2. Recent' = Recent /\ TruthAfter(Recent)' = TruthAfter(Recent) /\ Sound' = Sound
    BY <2>1 DEF Recent, TruthAfter, Sound
  <2>3. LogInv'
    BY <2>1, <2>2 DEF Intact, LogInv
  <2>4. RecordsInv' /\ StaleInv' /\ MemInv' /\ DiskInv' /\ SameInv'
    BY <2>1 DEF Intact, RecordsInv, StaleInv, MemInv, DiskInv, SameInv, Windows
  <2>5. TmpInv' /\ CompactInto' /\ BulkSaved' /\ CleanInv'
    BY <2>1 DEF TmpInv, CompactInto, BulkSaved, CleanInv
  <2> QED
    BY <2>3, <2>4, <2>5 DEF Intact
<1>2. CASE LogOffsetsRename
  <2>1. /\ pc = "log_rename" /\ pc' = "log_merge" /\ offsets' = offsets_map
        /\ UNCHANGED <<index, log, mem, offsets_map, bulk, batch, tmp, truth, stale, lost>>
    BY <1>2 DEF LogOffsetsRename
  <2>2. /\ log \in Seq(Seq(Logged)) /\ Len(log) > 0 /\ Shape(offsets_map) /\ Len(Recent) = Len(batch)
        /\ \A j \in DOMAIN Recent : Recent[j] = batch[j]
        /\ Fits(Sound, log, offsets_map, index, TruthAfter(Recent))
        /\ batch \in Seq(Logged)
    BY <2>1 DEF Intact, LogInv, RecordsInv, LogFile
  <2>3. Recent \in Seq(Logged)
    BY <2>2 DEF Recent
  <2>4. Recent = batch
    BY <2>2, <2>3, SeqEqual
  <2>5. Saved' = offsets_map
    BY <2>1, <2>2, OffsetsNotAbsent DEF Saved
  <2>6. Now' = TruthAfter(batch) /\ Sound' = Sound
    BY <2>1 DEF Now, TruthAfter, Sound
  <2>7. DiskInv' /\ SameInv'
    BY <2>1, <2>2, <2>4, <2>5, <2>6 DEF DiskInv, SameInv
  <2>8. RecordsInv' /\ StaleInv' /\ MemInv'
    BY <2>1, <2>5 DEF Intact, RecordsInv, StaleInv, MemInv
  <2>9. LogInv' /\ TmpInv' /\ CompactInto' /\ BulkSaved' /\ CleanInv'
    BY <2>1 DEF LogInv, TmpInv, CompactInto, BulkSaved, CleanInv
  <2> QED
    BY <2>7, <2>8, <2>9 DEF Intact
<1> QED
  BY <1>1, <1>2

\* The batch counts, and the trees in memory have it.
LEMMA LogMergeIntact ==
  ASSUME StoreInv, Intact, LogMerge
  PROVE  Intact'
<1>1. /\ pc = "log_merge" /\ pc' = "idle" /\ mem' = MergeBatch(mem, batch)
      /\ truth' = TruthAfter(batch) /\ batch' = << >>
      /\ UNCHANGED <<index, log, offsets, offsets_map, bulk, tmp, stale, lost>>
  BY DEF LogMerge, damage
<1>2. mem.new \subseteq DOMAIN mem.trees
  BY <1>1, SettledMem DEF Settled, GoodMem, Consistent
<1>3. /\ DOMAIN mem'.trees = DOMAIN mem.trees
      /\ \A p \in DOMAIN mem.trees :
           mem'.trees[p] = IF p \in InMemory(mem, batch) THEN ApplyAll(mem.trees[p], batch, p) ELSE mem.trees[p]
  BY <1>1 DEF MergeBatch
<1>4. ASSUME NEW p \in DOMAIN mem.trees, p \in Preds \ lost PROVE mem'.trees[p] = truth'[p]
  <2>1. p \in Preds /\ mem.trees[p] = truth[p]
    BY <1>4 DEF Intact, MemInv
  <2>2. truth'[p] = ApplyAll(truth[p], batch, p)
    BY <1>1, <2>1 DEF TruthAfter
  <2>3. p \notin InMemory(mem, batch) => Concerning(batch, p) = {}
    BY DEF InMemory, Active, Concerning
  <2> QED
    BY <1>3, <2>1, <2>2, <2>3, ApplyAllNothing
<1>5. MemInv'
  BY <1>1, <1>3, <1>4 DEF MemInv
<1>6. Now = TruthAfter(batch) /\ Now' = truth' /\ Saved' = Saved /\ Sound' = Sound
  BY <1>1 DEF Now, Saved, Sound
<1>7. DiskInv' /\ SameInv'
  BY <1>1, <1>6 DEF Intact, DiskInv, SameInv, Windows
<1>8. RecordsInv' /\ StaleInv'
  BY <1>1, <1>6 DEF Intact, RecordsInv, StaleInv, Windows
<1>9. LogInv' /\ TmpInv' /\ CompactInto' /\ BulkSaved' /\ CleanInv'
  BY <1>1 DEF LogInv, TmpInv, CompactInto, BulkSaved, CleanInv
<1> QED
  BY <1>5, <1>7, <1>8, <1>9 DEF Intact

\* A step at rest that changes memory alone, and may spoil what it reads.
LEMMA MemStepIntact ==
  ASSUME Intact, pc = "idle", pc' = "idle", MemInv', lost \subseteq lost',
         UNCHANGED <<index, log, offsets, offsets_map, tmp, bulk, batch, truth, stale>>
  PROVE  Intact'
<1>1. Now' = Now /\ Saved' = Saved /\ Now = truth /\ Sound' \subseteq Sound
  BY DEF Now, Saved, Sound
<1>2. RecordsInv' /\ StaleInv' /\ DiskInv' /\ SameInv'
  BY <1>1 DEF Intact, RecordsInv, StaleInv, DiskInv, SameInv, Fits
<1>3. LogInv' /\ TmpInv' /\ CompactInto' /\ BulkSaved' /\ CleanInv'
  BY DEF LogInv, TmpInv, CompactInto, BulkSaved, CleanInv
<1> QED
  BY <1>2, <1>3 DEF Intact

\* A step that stops the process where the files are in order.
LEMMA FailIntact ==
  ASSUME Intact, pc \notin Windows, pc # "log_merge", pc' = "failed",
         UNCHANGED <<index, log, offsets, mem, offsets_map, tmp, bulk, batch, truth, stale, lost>>
  PROVE  Intact'
<1>1. Now' = truth /\ Now = truth /\ Saved' = Saved /\ Sound' = Sound
  BY DEF Now, Saved, Sound
<1>2. RecordsInv' /\ StaleInv' /\ MemInv' /\ DiskInv' /\ SameInv'
  BY <1>1 DEF Intact, RecordsInv, StaleInv, MemInv, DiskInv, SameInv
<1>3. LogInv' /\ TmpInv' /\ CompactInto' /\ BulkSaved' /\ CleanInv'
  BY DEF LogInv, TmpInv, CompactInto, BulkSaved, CleanInv
<1> QED
  BY <1>2, <1>3 DEF Intact

(***************************************************************************)
(* A load leaves in memory what is right, of every predicate that it does  *)
(* not spoil.                                                              *)
(***************************************************************************)
LEMMA LoadKeepsMem ==
  ASSUME MemInv, NEW p \in Preds, lost' = lost \cup Misread(p), UNCHANGED <<truth, stale>>,
         \A q : q # p /\ q \notin Misread(p) => Same(mem, mem', q),
         p \in Sound => Loads(mem, mem', p, truth[p])
  PROVE  MemInv'
<1> SUFFICES ASSUME NEW q \in DOMAIN mem'.trees, q \in Preds \ lost'
             PROVE  mem'.trees[q] = truth[q]
  BY DEF MemInv
<1>1. q \notin lost /\ q \notin Misread(p)
  OBVIOUS
<1>2. CASE q # p
  BY <1>1, <1>2 DEF Same, MemInv
<1>3. CASE q = p
  <2>1. p \in Sound
    BY <1>1, <1>3 DEF Sound, Misread
  <2> QED
    BY <1>3, <2>1 DEF Loads
<1> QED
  BY <1>2, <1>3

LEMMA LoadIntact ==
  ASSUME StoreInv, Intact, LoadStep
  PROVE  Intact'
<1> USE DEF files, logger, damage
<1>1. PICK p \in Preds : FetchK2Tree(p) \/ RetrieveKey(p) \/ LoadGarbage(p) \/ DiscardKey(p)
  BY DEF LoadStep
<1>2. pc = "idle"
  BY <1>1 DEF FetchK2Tree, RetrieveKey, LoadGarbage, DiscardKey
<1>3. GoodMem(mem, metadata, index) /\ metadata = IndexPreds(index) /\ MemShape(mem)
  BY <1>2, SettledMem DEF Settled, GoodMem
<1>4. /\ Shape(offsets_map) /\ LogFile(log) /\ MemInv
      /\ p \in Sound => Fit(log, offsets_map, index, p, truth[p])
  BY <1>2, IdleFits DEF Fits, Intact, RecordsInv
<1>5. p \in Sound /\ p \in DOMAIN mem.trees => mem.trees[p] = truth[p]
  BY DEF Intact, MemInv, Sound
<1>7. CASE FetchK2Tree(p)
  <2>2. /\ p \notin DOMAIN mem.trees /\ mem' = Fetched(mem, p) /\ pc' = "idle"
        /\ lost' = lost \cup Misread(p)
        /\ UNCHANGED <<index, log, offsets, offsets_map, tmp, bulk, batch, truth, stale>>
    BY <1>7 DEF FetchK2Tree
  <2>3. p \in Sound => Loads(mem, mem', p, truth[p])
    BY <1>3, <1>4, <2>2, FetchedTree
  <2>4. \A q : q # p /\ q \notin Misread(p) => Same(mem, mem', q)
    BY <1>3, <2>2, LoadOthers
  <2>5. MemInv'
    BY <1>4, <2>2, <2>3, <2>4, LoadKeepsMem
  <2> QED
    BY <1>2, <2>2, <2>5, MemStepIntact
<1>8. CASE RetrieveKey(p)
  <2>2. /\ mem' = LoadedSingle(mem, p) /\ pc' = "idle" /\ lost' = lost \cup Misread(p)
        /\ UNCHANGED <<index, log, offsets, offsets_map, tmp, bulk, batch, truth, stale>>
    BY <1>8 DEF RetrieveKey
  <2>3. p \in Sound => Loads(mem, mem', p, truth[p])
    BY <1>3, <1>4, <1>5, <2>2, LoadedSingleTree
  <2>4. \A q : q # p /\ q \notin Misread(p) => Same(mem, mem', q)
    BY <1>3, <2>2, LoadOthers
  <2>5. MemInv'
    BY <1>4, <2>2, <2>3, <2>4, LoadKeepsMem
  <2> QED
    BY <1>2, <2>2, <2>5, MemStepIntact
<1>9. CASE LoadGarbage(p)
  BY <1>2, <1>9, FailIntact DEF LoadGarbage, Windows
<1>10. CASE DiscardKey(p)
  <2>2. /\ mem' = Discarded(mem, {p}) /\ pc' = "idle"
        /\ UNCHANGED <<index, log, offsets, offsets_map, tmp, bulk, batch, truth, stale, lost>>
    BY <1>10 DEF DiscardKey
  <2>3. MemInv'
    BY <1>4, <2>2 DEF Discarded, Restricted, MemInv
  <2> QED
    BY <1>2, <2>2, <2>3, MemStepIntact
<1> QED
  BY <1>1, <1>7, <1>8, <1>9, <1>10

(***************************************************************************)
(* sync_to_stream: the new index has the trees in memory, and for any      *)
(* other predicate the tree of the old one.                                *)
(***************************************************************************)
LEMMA SerialisedTrees ==
  ASSUME StoreInv, Intact, pc \in {"idle", "bulk_serialise"}, Serialise, mem' = mem
  PROVE  /\ \A p \in DOMAIN mem.trees : p \in Preds \ lost => IndexTree(tmp', p) = truth[p]
         /\ \A p : p \notin DOMAIN mem.trees => IndexTree(tmp', p) = IndexTree(index, p)
         /\ Fits(Sound, log, offsets_map, tmp', truth)
<1>1. GoodMem(mem, metadata, index) /\ metadata = IndexPreds(index)
  BY SettledMem DEF Settled
<1>2. tmp'.trees = [p \in mem.new \cup metadata |-> TreeToWrite(p)]
  BY DEF Serialise
<1>3. \A p \in DOMAIN mem.trees : p \in Preds \ lost => mem.trees[p] = truth[p]
  BY DEF Intact, MemInv
<1>4. \A p : IndexTree(tmp', p) = IF p \in mem.new \cup metadata THEN TreeToWrite(p) ELSE {}
  BY <1>2 DEF IndexTree, IndexPreds
<1>5. \A p \in DOMAIN mem.trees : p \in Preds \ lost => IndexTree(tmp', p) = truth[p]
  BY <1>1, <1>3, <1>4 DEF GoodMem, Consistent, CleanIn, TreeToWrite
<1>6. \A p : p \notin DOMAIN mem.trees => IndexTree(tmp', p) = IndexTree(index, p)
  BY <1>1, <1>4 DEF GoodMem, Consistent, TreeToWrite, IndexTree
<1>7. Fits(Sound, log, offsets_map, index, truth)
  BY IdleFits
<1>8. ASSUME NEW p \in Sound PROVE Fit(log, offsets_map, tmp', p, truth[p])
  <2>1. Fit(log, offsets_map, index, p, truth[p])
    BY <1>7 DEF Fits
  <2>2. CASE p \in DOMAIN mem.trees
    BY <1>5, <2>1, <2>2, FitAgain DEF Sound
  <2>3. CASE p \notin DOMAIN mem.trees
    BY <1>6, <2>1, <2>3 DEF Fit
  <2> QED
    BY <2>2, <2>3
<1>9. Fits(Sound, log, offsets_map, tmp', truth)
  BY <1>8 DEF Fits
<1> QED
  BY <1>5, <1>6, <1>9

LEMMA SerialiseIntact ==
  ASSUME StoreInv, Intact, FullSyncBegin \/ BulkSerialise
  PROVE  Intact'
<1> USE DEF files, logger, damage
<1>1. /\ pc \in {"idle", "bulk_serialise"} /\ Serialise /\ pc' = "sync_unlink"
      /\ UNCHANGED <<index, log, offsets, mem, offsets_map, batch, truth, stale, lost>>
      /\ \/ pc = "idle" /\ bulk' = [first |-> TRUE, todo |-> {}, held |-> {}]
         \/ pc = "bulk_serialise" /\ bulk' = bulk
  BY DEF FullSyncBegin, BulkSerialise, Serialise
<1>2. /\ \A p \in DOMAIN mem.trees : p \in Preds \ lost => IndexTree(tmp', p) = truth[p]
      /\ \A p : p \notin DOMAIN mem.trees => IndexTree(tmp', p) = IndexTree(index, p)
      /\ Fits(Sound, log, offsets_map, tmp', truth)
  BY <1>1, SerialisedTrees
<1>3. Shape(offsets_map) /\ offsets_map = Saved /\ Fits(Sound, log, offsets_map, index, truth)
  BY <1>1, IdleFits
<1>8. Sound' = Sound
  BY <1>1 DEF Sound
<1>4. TmpInv'
  BY <1>1, <1>2, <1>3, <1>8 DEF TmpInv, Intact, BulkSaved, InIndex
<1>5. RecordsInv' /\ StaleInv' /\ MemInv'
  BY <1>1, <1>3 DEF Intact, RecordsInv, StaleInv, MemInv, Saved
<1>6. DiskInv' /\ SameInv'
  BY <1>1, <1>3, <1>8 DEF DiskInv, SameInv, Saved, Now
<1>7. LogInv' /\ CompactInto' /\ BulkSaved' /\ CleanInv'
  BY <1>1 DEF LogInv, CompactInto, BulkSaved, CleanInv
<1> QED
  BY <1>4, <1>5, <1>6, <1>7 DEF Intact

LEMMA CommitIndexIntact ==
  ASSUME StoreInv, Intact, SyncUnlink \/ SyncRename
  PROVE  Intact'
<1> USE DEF files, logger, damage
<1>1. CASE SyncUnlink
  BY <1>1 DEF SyncUnlink, Intact, RecordsInv, StaleInv, MemInv, DiskInv, SameInv, LogInv, TmpInv,
              CompactInto, BulkSaved, CleanInv, Saved, Windows, Sound
<1>2. CASE SyncRename
  <2>1. /\ pc = "sync_rename" /\ index' = tmp /\ tmp' = NoTemp
        /\ pc' = IF bulk.first THEN "compact" ELSE "bulk_discard"
        /\ UNCHANGED <<log, offsets, mem, offsets_map, bulk, batch, truth, stale, lost>>
    BY <1>2 DEF SyncRename
  <2>9. Sound' = Sound
    BY <2>1 DEF Sound
  <2>2. /\ Shape(offsets_map) /\ Fits(Sound, log, offsets_map, tmp, truth) /\ offsets_map = Saved
        /\ \A p \in DOMAIN mem.trees : p \in Preds \ lost => IndexTree(tmp, p) = truth[p]
        /\ ~bulk.first => /\ \A p \in DOMAIN offsets_map \ bulk.todo :
                                p \in Preds \ lost => IndexTree(tmp, p) = truth[p]
                          /\ bulk.todo \subseteq DOMAIN offsets_map
    BY <2>1 DEF Intact, TmpInv, SameInv
  <2>3. tmp'.log = << >> /\ tmp'.offsets = NoOffsets /\ DOMAIN NoOffsets = {}
    BY <2>1 DEF NoTemp, NoOffsets
  <2>4. CompactInto'
    <3>1. tmp'.log \in Seq(Seq(Logged)) /\ Shape(tmp'.offsets)
      BY <2>3 DEF Shape
    <3> QED
      BY <2>1, <2>2, <2>3, <3>1 DEF CompactInto, InIndex, Fits
  <2>5. BulkSaved'
    BY <2>1, <2>2 DEF BulkSaved, InIndex
  <2>6. DiskInv' /\ SameInv'
    BY <2>1, <2>2, <2>9 DEF DiskInv, SameInv, Saved, Now
  <2>7. RecordsInv' /\ StaleInv' /\ MemInv'
    BY <2>1, <2>2 DEF Intact, RecordsInv, StaleInv, MemInv, Saved
  <2>8. LogInv' /\ TmpInv' /\ CleanInv'
    BY <2>1 DEF LogInv, TmpInv, CleanInv
  <2> QED
    BY <2>4, <2>5, <2>6, <2>7, <2>8 DEF Intact
<1> QED
  BY <1>1, <1>2

(***************************************************************************)
(* compact_logs writes one record for p: with it the new log makes of the  *)
(* tree of the index what the old one makes of it.                         *)
(***************************************************************************)
LEMMA CompactPredicateIntact ==
  ASSUME Intact, NEW p \in Preds, CompactPredicate(p)
  PROVE  Intact'
<1> DEFINE us == RecordsAt(log, offsets_map[p])
           c == CompactRecords(us)
           n == Len(tmp.log) + 1
           o == <<n, 1>>
           file == Append(tmp.log, <<c>>)
           om == With(tmp.offsets, p, <<o>>)
<1>1. /\ pc = "compact" /\ pc' = "compact" /\ CompactNext(p) /\ Compactable(p)
      /\ tmp' = [log |-> file, offsets |-> om]
      /\ stale' = IF p \notin DOMAIN mem.trees /\ DropsTrees(us) THEN stale \cup {p} ELSE stale
      /\ UNCHANGED <<index, log, offsets, mem, offsets_map, bulk, batch, truth, lost>>
  BY DEF CompactPredicate, files
<1>2. /\ InIndex(DOMAIN mem.trees) /\ tmp.log \in Seq(Seq(Logged)) /\ Shape(tmp.offsets)
      /\ DOMAIN tmp.offsets \subseteq DOMAIN offsets_map
      /\ Fits(DOMAIN tmp.offsets \cap Sound, tmp.log, tmp.offsets, index, truth)
  BY <1>1 DEF Intact, CompactInto
<1>3. /\ Shape(offsets_map) /\ offsets_map = Saved
      /\ Fits(Sound, log, offsets_map, index, truth) /\ LogFile(log)
  BY <1>1, IdleFits DEF Intact, RecordsInv
<1>4. p \in DOMAIN offsets_map /\ p \notin DOMAIN tmp.offsets
  BY <1>1 DEF CompactNext
<1>5. Sound' \subseteq Sound
  BY <1>1 DEF Sound
<1>18. Leads(log, offsets_map, p)
  BY <1>1, <1>3, <1>4, OffsetsType DEF Compactable, Readable, Leads
<1>19. /\ c \in Logged /\ c.p = p
       /\ Fit(log, offsets_map, index, p, truth[p]) /\ (~DropsTrees(us) \/ IndexTree(index, p) = truth[p])
             => ApplyUpdate(IndexTree(index, p), c) = truth[p]
  BY <1>3, <1>4, <1>18, CompactedRecord
<1>6. /\ c \in Logged /\ c.p = p
      /\ p \in Sound' => ApplyUpdate(IndexTree(index, p), c) = truth[p]
  <2>1. ASSUME p \in Sound' PROVE ~DropsTrees(us) \/ IndexTree(index, p) = truth[p]
    <3> HIDE DEF us
    <3> QED
      BY <1>1, <1>2, <2>1 DEF Sound, InIndex
  <2>2. p \in Sound' => Fit(log, offsets_map, index, p, truth[p])
    BY <1>3, <1>5 DEF Fits
  <2> HIDE DEF c, us
  <2> QED
    BY <1>19, <2>1, <2>2
<1> HIDE DEF c, us
<1>7. /\ file \in Seq(Seq(Logged)) /\ Extends(tmp.log, file) /\ file # Absent
      /\ n \in Nat /\ o \in Nat \X Nat /\ InFile(file, o) /\ RecordAt(file, o) = c
  <2>1. <<c>> \in Seq(Logged) /\ 1 \in DOMAIN <<c>> /\ <<c>>[1] = c
    BY <1>6
  <2> DEFINE vs == <<c>>
  <2> HIDE DEF vs
  <2>2. vs \in Seq(Logged) /\ 1 \in DOMAIN vs /\ vs[1] = c
    BY <2>1 DEF vs
  <2>3. Append(tmp.log, vs) \in Seq(Seq(Logged)) /\ Extends(tmp.log, Append(tmp.log, vs))
    BY <1>2, <2>2, LogGrows
  <2>4. n \in Nat /\ n \in DOMAIN Append(tmp.log, vs) /\ Append(tmp.log, vs)[n] = vs
    BY <1>2, <2>2
  <2>5. Append(tmp.log, vs) # Absent
    BY <2>3, LogNotAbsent
  <2> HIDE DEF n
  <2>6. InFile(Append(tmp.log, vs), <<n, 1>>) /\ RecordAt(Append(tmp.log, vs), <<n, 1>>) = c
    BY <2>2, <2>4, <2>5 DEF InFile, RecordAt
  <2>7. <<n, 1>> \in Nat \X Nat
    BY <2>4
  <2> QED
    BY <2>3, <2>4, <2>5, <2>6, <2>7 DEF vs
<1> HIDE DEF file, o, n
<1>8. <<o>> \in Seq(Nat \X Nat) /\ <<o>> # << >> /\ Append(<< >>, o) = <<o>>
  BY <1>7
<1>9. OffsetsOf(tmp.offsets, p) = << >>
  BY <1>4 DEF OffsetsOf
<1>10. Shape(om) /\ DOMAIN om = DOMAIN tmp.offsets \cup {p}
  BY <1>2, <1>8, ShapeWith
<1>11. om = With(tmp.offsets, p, Append(OffsetsOf(tmp.offsets, p), o))
  BY <1>8, <1>9
<1>12. LogFile(file)
  BY <1>7 DEF LogFile
<1>13. ASSUME NEW q \in DOMAIN om \cap Sound' PROVE Fit(file, om, index, q, truth[q])
  <2>1. CASE q = p
    <3>1. Fit(tmp.log, tmp.offsets, index, p, IndexTree(index, p))
      BY <1>2, <1>4, FitNone
    <3>2. Fit(file, tmp.offsets, index, p, IndexTree(index, p))
      BY <1>7, <3>1, FitGrows
    <3>3. Fit(file, With(tmp.offsets, p, Append(OffsetsOf(tmp.offsets, p), o)), index, p,
              ApplyUpdate(IndexTree(index, p), RecordAt(file, o)))
      BY <1>2, <1>6, <1>7, <1>12, <3>2, FitRecord
    <3> QED
      BY <1>6, <1>7, <1>11, <2>1, <3>3
  <2>2. CASE q # p
    <3>1. Fit(tmp.log, tmp.offsets, index, q, truth[q])
      BY <1>2, <1>5, <1>10, <1>13, <2>2 DEF Fits
    <3>2. Fit(file, tmp.offsets, index, q, truth[q])
      BY <1>7, <3>1, FitGrows
    <3>3. Fit(file, With(tmp.offsets, p, Append(OffsetsOf(tmp.offsets, p), o)), index, q, truth[q])
      BY <1>2, <1>6, <1>7, <1>12, <2>2, <3>2, FitRecord
    <3> QED
      BY <1>11, <3>3
  <2> QED
    BY <2>1, <2>2
<1> HIDE DEF om
<1>14. CompactInto'
  <2>1. Fits(DOMAIN om \cap Sound', file, om, index, truth)
    BY <1>13 DEF Fits
  <2> QED
    BY <1>1, <1>2, <1>4, <1>7, <1>10, <2>1 DEF CompactInto, InIndex
<1>15. DiskInv' /\ SameInv'
  BY <1>1, <1>3, <1>5 DEF DiskInv, SameInv, Saved, Now, Fits
<1>16. RecordsInv' /\ StaleInv' /\ MemInv'
  BY <1>1, <1>3, <1>4 DEF Intact, RecordsInv, StaleInv, MemInv, Saved
<1>17. LogInv' /\ TmpInv' /\ BulkSaved' /\ CleanInv'
  BY <1>1 DEF LogInv, TmpInv, BulkSaved, CleanInv
<1> QED
  BY <1>14, <1>15, <1>16, <1>17 DEF Intact

LEMMA CompactIntact ==
  ASSUME Intact,
         \/ \E p \in Preds : CompactPredicate(p) \/ CompactThrows(p)
         \/ CompactOffsetsUnlink \/ CompactOffsetsRename
         \/ CompactMetaUnlink \/ CompactMetaRename
         \/ CompactLogUnlink \/ CompactLogRename
  PROVE  Intact'
<1> USE DEF files, logger, damage
<1>1. ASSUME NEW p \in Preds, CompactPredicate(p) PROVE Intact'
  BY <1>1, CompactPredicateIntact
<1>2. ASSUME NEW p \in Preds, CompactThrows(p) PROVE Intact'
  BY <1>2, FailIntact DEF CompactThrows, Windows
<1>3. CASE CompactOffsetsUnlink
  <2>1. /\ pc = "compact" /\ pc' = "compact_offsets_rename" /\ DOMAIN tmp.offsets = DOMAIN offsets_map
        /\ UNCHANGED <<index, log, mem, offsets_map, tmp, bulk, batch, truth, stale, lost>>
    BY <1>3 DEF CompactOffsetsUnlink
  <2>8. Sound' = Sound
    BY <2>1 DEF Sound
  <2>2. /\ InIndex(DOMAIN mem.trees) /\ tmp.log \in Seq(Seq(Logged)) /\ Shape(tmp.offsets)
        /\ Fits(DOMAIN tmp.offsets \cap Sound, tmp.log, tmp.offsets, index, truth)
    BY <2>1 DEF Intact, CompactInto
  <2>3. Shape(offsets_map) /\ Fits(Sound, log, offsets_map, index, truth)
    BY <2>1, IdleFits
  <2>4. ASSUME NEW q \in Sound PROVE Fit(tmp.log, tmp.offsets, index, q, truth[q])
    <3>1. CASE q \in DOMAIN tmp.offsets
      BY <2>2, <3>1 DEF Fits
    <3>2. CASE q \notin DOMAIN tmp.offsets
      <4>1. Fit(log, offsets_map, index, q, truth[q]) /\ q \notin DOMAIN offsets_map
        BY <2>1, <2>3, <3>2 DEF Fits
      <4>2. IndexTree(index, q) = truth[q]
        BY <2>3, <4>1, FitNone
      <4> QED
        BY <2>2, <3>2, <4>2, FitNone
    <3> QED
      BY <3>1, <3>2
  <2>5. CompactInto'
    BY <2>1, <2>2, <2>4, <2>8 DEF CompactInto, InIndex, Fits
  <2>6. RecordsInv' /\ StaleInv' /\ MemInv' /\ DiskInv' /\ SameInv'
    BY <2>1 DEF Intact, RecordsInv, StaleInv, MemInv, DiskInv, SameInv, Windows
  <2>7. LogInv' /\ TmpInv' /\ BulkSaved' /\ CleanInv'
    BY <2>1 DEF LogInv, TmpInv, BulkSaved, CleanInv
  <2> QED
    BY <2>5, <2>6, <2>7 DEF Intact
<1>4. CASE CompactOffsetsRename
  <2>1. Shape(tmp.offsets)
    BY <1>4 DEF CompactOffsetsRename, Intact, CompactInto
  <2>2. (IF tmp.offsets = Absent THEN NoOffsets ELSE tmp.offsets) = tmp.offsets
    BY <2>1, OffsetsNotAbsent
  <2> QED
    BY <1>4, <2>2 DEF CompactOffsetsRename, Intact, RecordsInv, StaleInv, MemInv, DiskInv, SameInv,
                      LogInv, TmpInv, CompactInto, BulkSaved, CleanInv, Saved, Windows, InIndex, Sound
<1>5. CASE CompactMetaUnlink \/ CompactMetaRename
  BY <1>5 DEF CompactMetaUnlink, CompactMetaRename, Intact, RecordsInv, StaleInv, MemInv, DiskInv,
              SameInv, LogInv, TmpInv, CompactInto, BulkSaved, CleanInv, Saved, Windows, InIndex, Sound
<1>6. CASE CompactLogUnlink
  BY <1>6 DEF CompactLogUnlink, Intact, RecordsInv, LogFile, StaleInv, MemInv, DiskInv,
              SameInv, LogInv, TmpInv, CompactInto, BulkSaved, CleanInv, Saved, Windows, InIndex, Sound
<1>7. CASE CompactLogRename
  <2>1. /\ pc = "compact_log_rename" /\ pc' = "bulk" /\ log' = tmp.log
        /\ bulk' = [first |-> FALSE, todo |-> DOMAIN offsets_map, held |-> {}]
        /\ UNCHANGED <<index, offsets, mem, offsets_map, batch, truth, stale, lost>>
    BY <1>7 DEF CompactLogRename
  <2>7. Sound' = Sound
    BY <2>1 DEF Sound
  <2>2. /\ InIndex(DOMAIN mem.trees) /\ tmp.log \in Seq(Seq(Logged)) /\ Shape(tmp.offsets)
        /\ Fits(Sound, tmp.log, tmp.offsets, index, truth)
        /\ offsets_map = tmp.offsets /\ Saved = tmp.offsets
    BY <2>1 DEF Intact, CompactInto
  <2>3. DiskInv' /\ SameInv'
    BY <2>1, <2>2, <2>7 DEF DiskInv, SameInv, Saved, Now
  <2>4. BulkSaved'
    BY <2>1, <2>2 DEF BulkSaved, InIndex
  <2>5. RecordsInv' /\ StaleInv' /\ MemInv'
    BY <2>1, <2>2 DEF Intact, RecordsInv, LogFile, StaleInv, MemInv, Saved
  <2>6. LogInv' /\ TmpInv' /\ CompactInto' /\ CleanInv'
    BY <2>1 DEF LogInv, TmpInv, CompactInto, CleanInv
  <2> QED
    BY <2>3, <2>4, <2>5, <2>6 DEF Intact
<1> QED
  BY <1>1, <1>2, <1>3, <1>4, <1>5, <1>6, <1>7

LEMMA BulkIntact ==
  ASSUME StoreInv, Intact,
         \/ \E p \in Preds : BulkSkip(p) \/ \E reached \in BOOLEAN : BulkFetch(p, reached)
         \/ BulkEnd \/ BulkDiscard
  PROVE  Intact'
<1> USE DEF files, logger, damage
<1>1. /\ pc \in {"bulk", "bulk_discard"}
      /\ UNCHANGED <<index, log, offsets, offsets_map, tmp, batch, truth, stale>>
  BY DEF BulkSkip, BulkFetch, BulkEnd, BulkDiscard
<1>2. /\ GoodMem(mem, metadata, index) /\ metadata = IndexPreds(index)
      /\ mem.new \subseteq DOMAIN mem.trees /\ MemShape(mem)
  BY <1>1, SettledMem DEF Settled, GoodMem, Consistent
<1>3. /\ Shape(offsets_map) /\ offsets_map = Saved /\ Fits(Sound, log, offsets_map, index, truth)
      /\ LogFile(log) /\ stale \subseteq DOMAIN offsets_map
  BY <1>1, IdleFits DEF Intact, RecordsInv, StaleInv
<1>4. /\ pc = "bulk" => /\ InIndex((DOMAIN mem.trees \cup (DOMAIN offsets_map \ bulk.todo)) \ bulk.held)
                        /\ bulk.held \ lost \subseteq DOMAIN mem.trees
      /\ pc = "bulk_discard" => InIndex(DOMAIN mem.trees \cup (DOMAIN offsets_map \ bulk.todo))
      /\ bulk.todo \subseteq DOMAIN offsets_map /\ ~bulk.first
  BY <1>1 DEF Intact, BulkSaved
<1>5. MemInv
  BY DEF Intact
<1>6. ASSUME pc' \in {"bulk", "bulk_serialise", "clean_log"}, MemInv', BulkSaved', CleanInv',
             lost \subseteq lost',
             bulk' = [first |-> bulk'.first, todo |-> bulk'.todo, held |-> bulk'.held]
      PROVE  Intact'
  <2>4. Sound' \subseteq Sound
    BY <1>1, <1>6 DEF Sound
  <2>1. DiskInv' /\ SameInv'
    BY <1>1, <1>3, <1>6, <2>4 DEF DiskInv, SameInv, Saved, Now, Fits
  <2>2. RecordsInv' /\ StaleInv'
    BY <1>1, <1>3, <1>6 DEF Intact, RecordsInv, StaleInv, Saved
  <2>3. LogInv' /\ TmpInv' /\ CompactInto'
    BY <1>6 DEF LogInv, TmpInv, CompactInto
  <2> QED
    BY <1>6, <2>1, <2>2, <2>3 DEF Intact
<1>8. ASSUME NEW p \in Preds, BulkSkip(p) PROVE Intact'
  <2>1. /\ pc = "bulk" /\ pc' = "bulk" /\ mem' = mem /\ p \in DOMAIN mem.trees /\ lost' = lost
        /\ bulk' = [bulk EXCEPT !.todo = @ \ {p}]
    BY <1>2, <1>8 DEF BulkSkip, Active
  <2>2. /\ bulk'.held = bulk.held /\ bulk'.first = bulk.first /\ bulk'.todo = bulk.todo \ {p}
        /\ bulk' = [first |-> bulk'.first, todo |-> bulk'.todo, held |-> bulk'.held]
    BY <2>1 DEF Intact, RecordsInv
  <2> QED
    BY <1>1, <1>4, <1>5, <1>6, <2>1, <2>2 DEF BulkSaved, CleanInv, MemInv, InIndex
<1>9. ASSUME NEW p \in Preds, NEW reached \in BOOLEAN, BulkFetch(p, reached) PROVE Intact'
  <2>1. /\ pc = "bulk" /\ pc' \in {"bulk", "bulk_serialise"} /\ mem' = Fetched(mem, p)
        /\ p \notin DOMAIN mem.trees /\ p \in bulk.todo /\ lost' = lost \cup Misread(p)
        /\ bulk' = [bulk EXCEPT !.todo = @ \ {p}, !.held = @ \cup {p}]
    BY <1>9 DEF BulkFetch, Active, BulkNext
  <2>2. /\ bulk'.held = bulk.held \cup {p} /\ bulk'.first = bulk.first /\ bulk'.todo = bulk.todo \ {p}
        /\ bulk' = [first |-> bulk'.first, todo |-> bulk'.todo, held |-> bulk'.held]
    BY <2>1 DEF Intact, RecordsInv
  <2>3. p \in DOMAIN offsets_map /\ (p \in Sound => Fit(log, offsets_map, index, p, truth[p]))
    BY <1>3, <1>4, <2>1 DEF Fits
  <2>4. p \in Sound => Loads(mem, mem', p, truth[p]) /\ p \in DOMAIN mem'.trees
    BY <1>2, <1>3, <2>1, <2>3, FetchedTree
  <2>8. \A q : q # p /\ q \notin Misread(p) => Same(mem, mem', q)
    BY <1>2, <2>1, LoadOthers
  <2>5. MemInv'
    BY <1>1, <1>5, <2>1, <2>4, <2>8, LoadKeepsMem
  <2>9. p \in lost' \/ p \in DOMAIN mem'.trees
    BY <2>1, <2>4 DEF Sound, Misread
  <2>10. ASSUME NEW q, q \notin lost', q # p PROVE Same(mem, mem', q)
    BY <2>1, <2>8, <2>10
  <2>6. BulkSaved'
    BY <1>1, <1>4, <2>1, <2>2, <2>9, <2>10 DEF BulkSaved, Same, InIndex
  <2>7. CleanInv'
    BY <2>1 DEF CleanInv
  <2> QED
    BY <1>6, <2>1, <2>2, <2>5, <2>6, <2>7
<1>10. CASE BulkEnd
  <2>1. /\ pc = "bulk" /\ pc' = IF bulk.held = {} THEN "clean_log" ELSE "bulk_serialise"
        /\ mem' = mem /\ bulk' = bulk /\ bulk.todo = {} /\ lost' = lost
        /\ bulk' = [first |-> bulk'.first, todo |-> bulk'.todo, held |-> bulk'.held]
    BY <1>10 DEF BulkEnd, Intact, RecordsInv
  <2>2. ASSUME bulk.held = {}, NEW p \in Preds \ lost PROVE IndexTree(index, p) = truth[p]
    <3>1. CASE p \in DOMAIN offsets_map
      BY <1>4, <2>1, <2>2, <3>1 DEF InIndex
    <3>2. CASE p \notin DOMAIN offsets_map
      <4>1. p \in Sound
        BY <1>3, <3>2 DEF Sound
      <4> QED
        BY <1>3, <3>2, <4>1, FitNone DEF Fits
    <3> QED
      BY <3>1, <3>2
  <2> QED
    BY <1>1, <1>4, <1>5, <1>6, <2>1, <2>2 DEF BulkSaved, CleanInv, MemInv, InIndex
<1>11. CASE BulkDiscard
  <2>1. /\ pc = "bulk_discard" /\ pc' = "bulk" /\ mem' = Discarded(mem, bulk.held)
        /\ bulk' = [bulk EXCEPT !.held = {}] /\ lost' = lost
    BY <1>11 DEF BulkDiscard
  <2>2. /\ bulk'.held = {} /\ bulk'.first = bulk.first /\ bulk'.todo = bulk.todo
        /\ bulk' = [first |-> bulk'.first, todo |-> bulk'.todo, held |-> bulk'.held]
    BY <2>1 DEF Intact, RecordsInv
  <2>3. /\ DOMAIN mem'.trees = DOMAIN mem.trees \ bulk.held
        /\ \A q \in DOMAIN mem'.trees : mem'.trees[q] = mem.trees[q]
    BY <2>1 DEF Discarded, Restricted
  <2> QED
    BY <1>1, <1>4, <1>5, <1>6, <2>1, <2>2, <2>3 DEF BulkSaved, CleanInv, MemInv, InIndex
<1> QED
  BY <1>8, <1>9, <1>10, <1>11

\* clean_append_log: the index has everything, so the log may go.
LEMMA CleanIntact ==
  ASSUME Intact, CleanLog \/ CleanMeta \/ CleanOffsets
  PROVE  Intact'
<1> USE DEF logger, damage
<1>1. CASE CleanLog \/ CleanMeta
  BY <1>1 DEF CleanLog, CleanMeta, Intact, RecordsInv, LogFile, StaleInv, MemInv, DiskInv, SameInv,
              LogInv, TmpInv, CompactInto, BulkSaved, CleanInv, Windows, InIndex
<1>2. CASE CleanOffsets
  <2>1. /\ pc = "clean_offsets" /\ pc' = "idle" /\ offsets' = Absent
        /\ UNCHANGED <<index, log, mem, offsets_map, tmp, bulk, batch, truth, stale, lost>>
    BY <1>2 DEF CleanOffsets
  <2>2. InIndex(Preds) /\ log = Absent /\ offsets_map = NoOffsets /\ stale = {}
    BY <2>1 DEF Intact, CleanInv
  <2>3. Shape(NoOffsets) /\ DOMAIN NoOffsets = {}
    BY DEF Shape, NoOffsets
  <2>4. \A p \in Sound' : Fit(log, NoOffsets, index, p, truth[p])
    BY <2>1, <2>2, <2>3, FitNone DEF InIndex, Sound
  <2>5. Saved' = NoOffsets /\ Now' = truth
    BY <2>1 DEF Saved, Now
  <2>6. DiskInv' /\ SameInv'
    BY <2>1, <2>2, <2>3, <2>4, <2>5 DEF DiskInv, SameInv, Fits
  <2>7. RecordsInv' /\ StaleInv' /\ MemInv'
    BY <2>1, <2>2 DEF Intact, RecordsInv, StaleInv, MemInv
  <2>8. LogInv' /\ TmpInv' /\ CompactInto' /\ BulkSaved' /\ CleanInv'
    BY <2>1 DEF LogInv, TmpInv, CompactInto, BulkSaved, CleanInv
  <2> QED
    BY <2>6, <2>7, <2>8 DEF Intact
<1> QED
  BY <1>1, <1>2

(***************************************************************************)
(* A crash outside the windows leaves files that stand for the trees, a    *)
(* batch that reached log_merge included, and a restart reads them.        *)
(***************************************************************************)
LEMMA CrashIntact ==
  ASSUME StoreInv, Intact, Crash \/ Restart, ~torn'
  PROVE  Intact'
<1> USE DEF files
<1>1. DOMAIN EmptyMem.trees = {}
  BY DEF EmptyMem
<1>2. CASE Crash
  <2>1. /\ pc' = "down" /\ pc \notin Windows /\ mem' = EmptyMem /\ truth' = Now /\ batch' = << >>
        /\ UNCHANGED <<index, log, offsets, offsets_map, bulk, stale, lost>>
    BY <1>2 DEF Crash, Now
  <2>3. Saved' = Saved /\ Now' = Now /\ Sound' = Sound
    BY <2>1 DEF Saved, Now, Sound
  <2>4. DiskInv'
    BY <2>1, <2>3 DEF Intact, DiskInv
  <2>5. << >> \in Seq(Logged)
    OBVIOUS
  <2>6. RecordsInv' /\ StaleInv' /\ MemInv'
    BY <1>1, <2>1, <2>3, <2>5 DEF Intact, RecordsInv, StaleInv, MemInv
  <2>7. SameInv' /\ LogInv' /\ TmpInv' /\ CompactInto' /\ BulkSaved' /\ CleanInv'
    BY <2>1 DEF SameInv, LogInv, TmpInv, CompactInto, BulkSaved, CleanInv
  <2> QED
    BY <2>4, <2>6, <2>7 DEF Intact
<1>3. CASE Restart
  <2>1. /\ pc = "down" /\ pc' \in {"failed", "idle"} /\ offsets_map' = Saved
        /\ lost' = IF NoCaching THEN lost \cup DOMAIN Saved ELSE lost
        /\ UNCHANGED <<index, log, offsets, bulk, batch, truth, stale>>
    BY <1>3 DEF Restart, Saved
  <2>2. mem' = EmptyMem \/ (NoCaching /\ mem' = LoadedAll(index))
    BY <1>3 DEF Restart, StoreInv
  <2>4. Saved' = Saved /\ Now' = truth /\ Now = truth /\ Sound' \subseteq Sound
    BY <2>1 DEF Saved, Now, Sound
  <2>8. /\ Shape(Saved) /\ Fits(Sound, log, Saved, index, truth) /\ stale \subseteq DOMAIN Saved
    BY <2>1, <2>4 DEF Intact, DiskInv, StaleInv, Windows
  <2>5. DiskInv' /\ SameInv' /\ StaleInv'
    BY <2>1, <2>4, <2>8 DEF DiskInv, SameInv, StaleInv, Windows, Fits
  <2>9. ASSUME NoCaching, mem' = LoadedAll(index) PROVE MemInv'
    <3> SUFFICES ASSUME NEW p \in DOMAIN index.trees, p \in Preds \ lost'
                 PROVE  index.trees[p] = truth[p]
      BY <2>1, <2>9 DEF MemInv, LoadedAll
    <3>1. p \in Sound /\ p \notin DOMAIN Saved
      BY <2>1, <2>8, <2>9 DEF Sound
    <3>2. IndexTree(index, p) = truth[p]
      BY <2>8, <3>1, FitNone DEF Fits
    <3> QED
      BY <3>2 DEF IndexTree, IndexPreds
  <2>6. RecordsInv' /\ MemInv'
    BY <1>1, <2>1, <2>2, <2>9 DEF Intact, RecordsInv, MemInv
  <2>7. LogInv' /\ TmpInv' /\ CompactInto' /\ BulkSaved' /\ CleanInv'
    BY <2>1 DEF LogInv, TmpInv, CompactInto, BulkSaved, CleanInv
  <2> QED
    BY <2>5, <2>6, <2>7 DEF Intact
<1> QED
  BY <1>2, <1>3

LEMMA InitFiles ==
  ASSUME Init
  PROVE  Intact
<1>1. /\ index = InitialIndex /\ log = Absent /\ offsets = Absent /\ offsets_map = NoOffsets
      /\ pc = "idle" /\ batch = << >> /\ truth = TruthOf(InitialIndex) /\ stale = {}
      /\ bulk = [first |-> TRUE, todo |-> {}, held |-> {}]
      /\ mem = IF NoCaching THEN LoadedAll(InitialIndex) ELSE EmptyMem
  BY DEF Init
<1>2. Shape(NoOffsets) /\ DOMAIN NoOffsets = {}
  BY DEF Shape, NoOffsets
<1>3. \A p \in Preds : IndexTree(index, p) = truth[p]
  BY <1>1 DEF TruthOf
<1>4. Saved = NoOffsets /\ Now = truth
  BY <1>1 DEF Saved, Now
<1>5. \A p \in Preds : Fit(log, NoOffsets, index, p, truth[p])
  BY <1>2, <1>3, FitNone
<1>6. DiskInv /\ SameInv
  BY <1>1, <1>2, <1>4, <1>5 DEF DiskInv, SameInv, Fits, Sound
<1>7. MemInv
  <2>1. CASE NoCaching
    BY <1>1, <1>3, <2>1, IndexAssumption DEF LoadedAll, MemInv, IndexTree, IndexPreds
  <2>2. CASE ~NoCaching
    BY <1>1, <2>2 DEF EmptyMem, MemInv
  <2> QED
    BY <2>1, <2>2
<1>8. StaleInv
  BY <1>1 DEF StaleInv
<1>9. << >> \in Seq(Logged)
  OBVIOUS
<1>10. RecordsInv
  BY <1>1, <1>9 DEF RecordsInv, LogFile
<1>11. LogInv /\ TmpInv /\ CompactInto /\ BulkSaved /\ CleanInv
  BY <1>1 DEF LogInv, TmpInv, CompactInto, BulkSaved, CleanInv
<1> QED
  BY <1>6, <1>7, <1>8, <1>10, <1>11 DEF Intact

LEMMA NextFiles ==
  ASSUME StoreInv, FilesInv, [Next]_vars
  PROVE  FilesInv'
<1> SUFFICES ASSUME ~torn' PROVE Intact'
  BY DEF FilesInv
<1>1. ~torn
  <2>1. CASE Crash
    BY <2>1 DEF Crash
  <2>2. CASE Restart
    BY <2>2 DEF Restart
  <2>3. CASE LogStep
    BY <2>3 DEF LogStep, LogOpen, LogRecord, LogOffsetsUnlink, LogOffsetsRename, LogMerge, damage
  <2>4. CASE LoadStep
    BY <2>4 DEF LoadStep, FetchK2Tree, RetrieveKey, LoadGarbage, DiscardKey, damage
  <2>5. CASE SyncStep
    BY <2>5 DEF SyncStep, FullSyncBegin, SyncUnlink, SyncRename, CompactPredicate, CompactThrows,
                CompactOffsetsUnlink, CompactOffsetsRename, CompactMetaUnlink, CompactMetaRename,
                CompactLogUnlink, CompactLogRename, BulkSkip, BulkFetch, BulkEnd, BulkSerialise,
                BulkDiscard, CleanLog, CleanMeta, CleanOffsets, damage
  <2>6. CASE UNCHANGED vars
    BY <2>6 DEF vars
  <2> QED
    BY <2>1, <2>2, <2>3, <2>4, <2>5, <2>6 DEF Next
<1>2. Intact
  BY <1>1 DEF FilesInv
<1>3. CASE LogStep
  BY <1>2, <1>3, LogOpenIntact, LogRecordIntact, LogOffsetsIntact, LogMergeIntact DEF LogStep
<1>4. CASE LoadStep
  BY <1>2, <1>4, LoadIntact
<1>5. CASE SyncStep
  BY <1>2, <1>5, SerialiseIntact, CommitIndexIntact, CompactIntact, BulkIntact, CleanIntact DEF SyncStep
<1>6. CASE Crash \/ Restart
  BY <1>2, <1>6, CrashIntact
<1>7. CASE UNCHANGED vars
  BY <1>2, <1>7 DEF vars, Intact, RecordsInv, StaleInv, MemInv, DiskInv, SameInv, LogInv, TmpInv,
                    CompactInto, BulkSaved, CleanInv, Saved, Now, Recent, InIndex, TruthAfter, Sound
<1> QED
  BY <1>3, <1>4, <1>5, <1>6, <1>7 DEF Next

(***************************************************************************)
(* A query sees what was logged: a tree in memory is the one that all      *)
(* logged batches make of the first index, in their order, however often   *)
(* it was evicted, read again from the index and the log                   *)
(* (PredicatesIndexCacheMD.cpp:31-76), compacted and synced, and after     *)
(* every crash that did not fall where a file is being replaced; unless    *)
(* its predicate, or one whose offsets lead to its records, was read after *)
(* the log had lost updates of it.                                         *)
(***************************************************************************)
THEOREM LoadedIsCurrent ==
  Spec => []LoadedCurrent
<1>1. Init => FilesInv
  BY InitFiles DEF FilesInv
<1>2. FilesInv => LoadedCurrent
  BY DEF FilesInv, Intact, MemInv, LoadedCurrent
<1> QED
  BY InitStore, NextStore, <1>1, NextFiles, <1>2, PTL DEF Spec

(***************************************************************************)
(* Outside the windows in which a file is replaced, every saved offset     *)
(* leads to a record and the index with the records at the saved offsets   *)
(* makes the trees of all logged batches, also in the middle of            *)
(* compact_logs and sync_logs_to_indexes, for every predicate that a       *)
(* truncation (FileRWHandler.cpp:19) or a dropped kind of update           *)
(* (UpdatesLoggerImpl.cpp:418-451) did not hit: no other step loses a      *)
(* record (UpdatesLoggerImpl.cpp:56-83, 353-394,                           *)
(* PredicatesIndexCacheMD.cpp:287-341).                                    *)
(***************************************************************************)
THEOREM LoggedSurvives ==
  Spec => []LoggedIsDurable
<1>1. Init => FilesInv
  BY InitFiles DEF FilesInv
<1>2. ASSUME FilesInv PROVE LoggedIsDurable
  <2> SUFFICES ASSUME ~torn, pc \notin Windows, NEW p \in Preds \ (stale \cup lost)
               PROVE  /\ log = Absent \/ offsets = Absent \/ Readable(log, offsets, p)
                      /\ DiskTree(p) = Now[p]
    BY DEF LoggedIsDurable, Now
  <2>1. Shape(Saved) /\ Fit(log, Saved, index, p, Now[p])
    BY <1>2 DEF FilesInv, Intact, DiskInv, Fits, Sound
  <2>2. CASE log = Absent
    <3>1. IndexTree(index, p) = Now[p]
      BY <2>1, <2>2, FitNone
    <3> QED
      BY <2>2, <3>1 DEF DiskTree
  <2>3. CASE offsets = Absent
    <3>1. p \notin DOMAIN Saved
      BY <2>3 DEF Saved, NoOffsets
    <3>2. IndexTree(index, p) = Now[p]
      BY <2>1, <3>1, FitNone
    <3> QED
      BY <2>3, <3>2 DEF DiskTree
  <2>4. CASE log # Absent /\ offsets # Absent
    <3>1. Saved = offsets
      BY <2>4 DEF Saved
    <3>2. Readable(log, offsets, p)
      BY <2>1, <3>1, OffsetsType DEF Fit, Leads, Readable
    <3>3. DiskTree(p) = Now[p]
      BY <2>1, <2>4, <3>1 DEF DiskTree, Fit
    <3> QED
      BY <3>2, <3>3
  <2> QED
    BY <2>2, <2>3, <2>4
<1> QED
  BY InitStore, NextStore, <1>1, NextFiles, <1>2, PTL DEF Spec

-----------------------------------------------------------------------------
(***************************************************************************)
(* A server that starts with everything in memory: nothing is read again   *)
(* before a crash, so that the writer is closed by syncs alone, which      *)
(* remove the log.                                                         *)
(***************************************************************************)
Resident == NoCaching /\ DOMAIN InitialIndex.trees = Preds

ResidentInv ==
  /\ crashes \in Nat
  /\ crashes = 0 =>
       /\ Preds \subseteq DOMAIN mem.trees /\ bulk.held = {} /\ pc # "down"
       /\ bulk = [first |-> bulk.first, todo |-> bulk.todo, held |-> bulk.held]
       /\ pc \in {"idle", "clean_meta", "clean_offsets"} => log = Absent \/ writer
       /\ pc \in {"log_write", "log_rename", "log_merge"} => writer
       /\ stale = {} /\ lost = {}

LEMMA InitResident ==
  ASSUME Resident, Init
  PROVE  ResidentInv
BY DEF Resident, Init, ResidentInv, LoadedAll

LEMMA NextResident ==
  ASSUME Resident, ResidentInv, [Next]_vars
  PROVE  ResidentInv'
<1> USE DEF Resident, files, logger, damage, bounds
<1>1. CASE Crash
  BY <1>1 DEF Crash, ResidentInv
<1> SUFFICES ASSUME ~Crash, crashes' = 0 PROVE ResidentInv'
  <2>1. ~Crash => crashes' = crashes
    BY DEF Next, vars, LogStep, LogOpen, LogRecord, LogOffsetsUnlink, LogOffsetsRename, LogMerge,
           LoadStep, FetchK2Tree, RetrieveKey, LoadGarbage, DiscardKey, Restart,
           SyncStep, FullSyncBegin, SyncUnlink, SyncRename, CompactPredicate, CompactThrows,
           CompactOffsetsUnlink, CompactOffsetsRename, CompactMetaUnlink, CompactMetaRename,
           CompactLogUnlink, CompactLogRename, BulkSkip, BulkFetch, BulkEnd, BulkSerialise,
           BulkDiscard, CleanLog, CleanMeta, CleanOffsets
  <2> QED
    BY <1>1, <2>1 DEF ResidentInv
<1>2. /\ crashes = 0 /\ crashes' = 0
      /\ Preds \subseteq DOMAIN mem.trees /\ bulk.held = {} /\ pc # "down"
      /\ bulk = [first |-> bulk.first, todo |-> bulk.todo, held |-> bulk.held]
      /\ pc \in {"idle", "clean_meta", "clean_offsets"} => log = Absent \/ writer
      /\ pc \in {"log_write", "log_rename", "log_merge"} => writer
      /\ stale = {} /\ lost = {}
  <2>1. crashes' = crashes
    BY DEF Next, vars, LogStep, LogOpen, LogRecord, LogOffsetsUnlink, LogOffsetsRename, LogMerge,
           LoadStep, FetchK2Tree, RetrieveKey, LoadGarbage, DiscardKey, Restart,
           SyncStep, FullSyncBegin, SyncUnlink, SyncRename, CompactPredicate, CompactThrows,
           CompactOffsetsUnlink, CompactOffsetsRename, CompactMetaUnlink, CompactMetaRename,
           CompactLogUnlink, CompactLogRename, BulkSkip, BulkFetch, BulkEnd, BulkSerialise,
           BulkDiscard, CleanLog, CleanMeta, CleanOffsets
  <2> QED
    BY <2>1 DEF ResidentInv
<1>3. CASE LogStep
  <2>1. ASSUME NEW us \in Batches, LogOpen(us) PROVE ResidentInv'
    BY <1>2, <2>1 DEF LogOpen, Truncated, ResidentInv
  <2>2. CASE LogMerge
    <3>1. DOMAIN mem'.trees = DOMAIN mem.trees
      BY <2>2 DEF LogMerge, MergeBatch
    <3> QED
      BY <1>2, <2>2, <3>1 DEF LogMerge, ResidentInv
  <2>3. CASE LogRecord
    BY <1>2, <2>3 DEF LogRecord, ResidentInv
  <2>4. CASE LogOffsetsUnlink \/ LogOffsetsRename
    BY <1>2, <2>4 DEF LogOffsetsUnlink, LogOffsetsRename, ResidentInv
  <2> QED
    BY <1>3, <2>1, <2>2, <2>3, <2>4 DEF LogStep
<1>4. CASE LoadStep
  BY <1>2, <1>4 DEF LoadStep, FetchK2Tree, RetrieveKey, LoadGarbage, DiscardKey, ResidentInv
<1>5. CASE SyncStep
  <2>1. CASE FullSyncBegin \/ BulkSerialise \/ SyncUnlink \/ SyncRename
    BY <1>2, <2>1 DEF FullSyncBegin, BulkSerialise, Serialise, SyncUnlink, SyncRename, ResidentInv
  <2>2. ASSUME NEW p \in Preds, CompactPredicate(p) \/ CompactThrows(p) PROVE ResidentInv'
    BY <1>2, <2>2 DEF CompactPredicate, CompactThrows, ResidentInv
  <2>3. CASE CompactOffsetsUnlink \/ CompactOffsetsRename \/ CompactMetaUnlink \/ CompactMetaRename
             \/ CompactLogUnlink \/ CompactLogRename
    BY <1>2, <2>3 DEF CompactOffsetsUnlink, CompactOffsetsRename, CompactMetaUnlink,
                      CompactMetaRename, CompactLogUnlink, CompactLogRename, ResidentInv
  <2>4. ASSUME NEW p \in Preds, NEW reached \in BOOLEAN, BulkSkip(p) \/ BulkFetch(p, reached)
        PROVE  ResidentInv'
    BY <1>2, <2>4 DEF BulkSkip, BulkFetch, Active, ResidentInv
  <2>5. CASE BulkEnd \/ CleanLog \/ CleanMeta \/ CleanOffsets
    BY <1>2, <2>5 DEF BulkEnd, CleanLog, CleanMeta, CleanOffsets, ResidentInv
  <2>6. CASE BulkDiscard
    <3>1. DOMAIN mem'.trees = DOMAIN mem.trees
      BY <1>2, <2>6 DEF BulkDiscard, Discarded, Restricted
    <3> QED
      BY <1>2, <2>6, <3>1 DEF BulkDiscard, ResidentInv
  <2> QED
    BY <1>5, <2>1, <2>2, <2>3, <2>4, <2>5, <2>6 DEF SyncStep
<1>6. CASE Restart \/ UNCHANGED vars
  BY <1>2, <1>6 DEF Restart, vars, ResidentInv
<1> QED
  BY <1>1, <1>3, <1>4, <1>5, <1>6 DEF Next

(***************************************************************************)
(* Of a NO_CACHING server whose index lists every predicate, and until its *)
(* first crash, the log loses nothing: it is truncated only when it is     *)
(* empty, and what compaction drops is in the index                        *)
(* (UpdatesLoggerImpl.cpp:58, 308, 353-394).                               *)
(***************************************************************************)
THEOREM NothingIsLost ==
  ASSUME Resident
  PROVE  Spec => []NothingLost
<1>1. Init => ResidentInv
  BY InitResident
<1>2. ResidentInv /\ [Next]_vars => ResidentInv'
  BY NextResident
<1>3. ResidentInv => NothingLost
  BY DEF ResidentInv, NothingLost
<1> QED
  BY <1>1, <1>2, <1>3, PTL DEF Spec

=============================================================================
