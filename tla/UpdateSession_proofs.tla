------------------------ MODULE UpdateSession_proofs ------------------------
(***************************************************************************)
(* What the committed sessions asked for is in the index file and the log  *)
(* at every moment, and is what a request sees, for any sessions, batches  *)
(* and initial index, but for the triples and predicates that misnamed,    *)
(* raced, stale and lost name.                                             *)
(***************************************************************************)
EXTENDS UpdateSession, FiniteSetTheorems, SequenceTheorems, WellFoundedInduction, TLAPS

Real == Nat \ {0}
Injective(known) == \A i, j \in DOMAIN known : known[i] = known[j] => i = j
-----------------------------------------------------------------------------
(* Node ids.                                                               *)

\* SetToSeq lists every element once.
LEMMA SetToSeqElements ==
  ASSUME NEW S, IsFiniteSet(S)
  PROVE  /\ SetToSeq(S) \in Seq(S)
         /\ Injective(SetToSeq(S))
         /\ Range(SetToSeq(S)) = S
<1> DEFINE n == Cardinality(S)
           f == SetToSeq(S)
<1>1. n \in Nat /\ ExistsBijection(1..n, S)
  BY FS_CardinalityType
<1>2. f \in [1..n -> S] /\ IsInjective(f)
  BY <1>1, Zenon DEF ExistsBijection, Bijection, Injection, SetToSeq
<1>3. IsFiniteSet(1..n) /\ Cardinality(1..n) = n
  BY <1>1, FS_Interval
<1> HIDE DEF f, n
<1>4. f \in Injection(1..n, S)
  BY <1>2 DEF Injection
<1>5. f \in Surjection(1..n, S)
  BY <1>3, <1>4, FS_Injection DEF n
<1>6. Range(f) = S
  BY <1>2, <1>5 DEF Surjection, Range
<1>7. f \in Seq(S)
  BY <1>1, <1>2
<1>8. Injective(f)
  BY <1>2 DEF Injective, IsInjective
<1> QED
  BY <1>6, <1>7, <1>8 DEF f

\* get_id_or_create keeps the ids that there are and gives each new node one.
Extends(known, more) ==
  /\ more \in Seq(Real) /\ Injective(more)
  /\ DOMAIN known \subseteq DOMAIN more
  /\ \A i \in DOMAIN known : more[i] = known[i]
  /\ \A i \in DOMAIN more \ DOMAIN known : more[i] \notin Range(known)

LEMMA CreatedExtends ==
  ASSUME NEW known \in Seq(Real), Injective(known), NEW xs \in SUBSET Real, IsFiniteSet(xs)
  PROVE  /\ Extends(known, Created(known, xs))
         /\ Range(Created(known, xs)) = Range(known) \cup xs
<1> DEFINE new == xs \ Range(known)
           tail == SetToSeq(new)
           more == Created(known, xs)
<1>1. IsFiniteSet(new)
  BY FS_Difference
<1>2. tail \in Seq(new) /\ Injective(tail) /\ Range(tail) = new
  BY <1>1, SetToSeqElements
<1>3. tail \in Seq(Real) /\ more = known \o tail
  <2>1. new \subseteq Real
    OBVIOUS
  <2> HIDE DEF new, tail
  <2>2. tail \in Seq(Real)
    BY <1>2, <2>1
  <2> QED
    BY <2>2 DEF tail, new, Created
<1> HIDE DEF tail, new, more
<1>4. /\ more \in Seq(Real) /\ Len(more) = Len(known) + Len(tail)
      /\ Len(known) \in Nat /\ Len(tail) \in Nat
      /\ DOMAIN known = 1..Len(known) /\ DOMAIN tail = 1..Len(tail) /\ DOMAIN more = 1..Len(more)
      /\ \A i \in 1..Len(known) : more[i] = known[i]
      /\ \A i \in 1..Len(tail) : more[Len(known) + i] = tail[i]
  BY <1>3
<1>5. DOMAIN known \subseteq DOMAIN more /\ \A i \in DOMAIN known : more[i] = known[i]
  BY <1>4
<1>6. \A i \in DOMAIN more \ DOMAIN known : i - Len(known) \in DOMAIN tail /\ more[i] = tail[i - Len(known)]
  <2> SUFFICES ASSUME NEW i \in DOMAIN more \ DOMAIN known
               PROVE  i - Len(known) \in DOMAIN tail /\ more[i] = tail[i - Len(known)]
    OBVIOUS
  <2>1. i - Len(known) \in 1..Len(tail) /\ Len(known) + (i - Len(known)) = i
    BY <1>4
  <2> QED
    BY <1>4, <2>1
<1>7. \A i \in DOMAIN more \ DOMAIN known : more[i] \in new
  BY <1>2, <1>6 DEF Range
<1>8. \A i \in DOMAIN known : known[i] \in Range(known)
  BY DEF Range
<1>9. Injective(more)
  <2> SUFFICES ASSUME NEW i \in DOMAIN more, NEW j \in DOMAIN more, more[i] = more[j] PROVE i = j
    BY DEF Injective
  <2>1. CASE i \in DOMAIN known /\ j \in DOMAIN known
    BY <1>5, <2>1 DEF Injective
  <2>2. CASE i \notin DOMAIN known /\ j \notin DOMAIN known
    <3>1. i - Len(known) = j - Len(known)
      BY <1>2, <1>6, <2>2 DEF Injective
    <3> QED
      BY <1>4, <3>1
  <2>3. CASE (i \in DOMAIN known) # (j \in DOMAIN known)
    BY <1>5, <1>7, <1>8, <2>3 DEF new
  <2> QED
    BY <2>1, <2>2, <2>3
<1>10. Extends(known, more)
  BY <1>4, <1>5, <1>7, <1>9 DEF Extends, new
<1>11. Range(more) = Range(known) \cup xs
  <2>1. ASSUME NEW y \in Range(more) PROVE y \in Range(known) \cup xs
    <3>1. PICK i \in DOMAIN more : more[i] = y
      BY DEF Range
    <3> QED
      BY <1>5, <1>7, <1>8, <3>1 DEF new
  <2>2. ASSUME NEW y \in Range(known) PROVE y \in Range(more)
    BY <1>5 DEF Range
  <2>3. ASSUME NEW y \in new PROVE y \in Range(more)
    <3>1. PICK i \in DOMAIN tail : tail[i] = y
      BY <1>2 DEF Range
    <3>2. Len(known) + i \in DOMAIN more /\ more[Len(known) + i] = y
      BY <1>4, <3>1
    <3> QED
      BY <3>2 DEF Range
  <2> QED
    BY <2>1, <2>2, <2>3 DEF new
<1> QED
  BY <1>10, <1>11 DEF more
-----------------------------------------------------------------------------
(* Triples and the points that stand for them.                             *)

Triple == Real \X Real \X Real

\* The points of predicate p that stand for triples of S.
Wanted(known, S, p) ==
  {x \in (DOMAIN known) \X (DOMAIN known) : <<known[x[1]], known[p], known[x[2]]>> \in S}

\* The triples of S without a 0 have ids.
Known(known, S) ==
  \A t \in S : /\ t \in Nat \X Nat \X Nat
               /\ t \in Triple => {t[1], t[2], t[3]} \subseteq Range(known)

LEMMA KnownMore ==
  ASSUME NEW known, NEW more, Extends(known, more), NEW S, Known(known, S)
  PROVE  Known(more, S)
<1>1. Range(known) \subseteq Range(more)
  BY DEF Extends, Range
<1> QED
  BY <1>1 DEF Known

\* New ids change nothing about triples that have their ids.
LEMMA WantedKept ==
  ASSUME NEW known, NEW more, Extends(known, more), NEW S, Known(known, S), NEW p \in DOMAIN more
  PROVE  Wanted(more, S, p) = IF p \in DOMAIN known THEN Wanted(known, S, p) ELSE {}
<1>1. ASSUME NEW x \in Wanted(more, S, p)
      PROVE  p \in DOMAIN known /\ x \in Wanted(known, S, p)
  <2> DEFINE t == <<more[x[1]], more[p], more[x[2]]>>
  <2>1. x \in (DOMAIN more) \X (DOMAIN more) /\ t \in S
    BY <1>1 DEF Wanted
  <2>2. t \in Triple
    BY <2>1, ElementOfSeq DEF Triple, Extends
  <2>3. more[x[1]] \in Range(known) /\ more[p] \in Range(known) /\ more[x[2]] \in Range(known)
    BY <2>1, <2>2 DEF Known
  <2>4. x[1] \in DOMAIN known /\ p \in DOMAIN known /\ x[2] \in DOMAIN known
    BY <2>1, <2>3 DEF Extends
  <2>5. x \in (DOMAIN known) \X (DOMAIN known) /\ t = <<known[x[1]], known[p], known[x[2]]>>
    BY <2>1, <2>4 DEF Extends
  <2> QED
    BY <2>1, <2>4, <2>5 DEF Wanted
<1>2. ASSUME p \in DOMAIN known, NEW x \in Wanted(known, S, p)
      PROVE  x \in Wanted(more, S, p)
  BY <1>2 DEF Wanted, Extends
<1> QED
  BY <1>1, <1>2

\* The points of p stand for the triples of S with predicate p.
LEMMA WantedTriples ==
  ASSUME NEW known, NEW S, Known(known, S), S \subseteq Triple, NEW p \in DOMAIN known
  PROVE  Triples(known, p, Wanted(known, S, p)) = {t \in S : t[2] = known[p]}
<1>1. ASSUME NEW t \in Triples(known, p, Wanted(known, S, p)) PROVE t \in S /\ t[2] = known[p]
  <2>1. PICK x \in Wanted(known, S, p) : t = <<known[x[1]], known[p], known[x[2]]>>
    BY <1>1 DEF Triples
  <2> QED
    BY <2>1 DEF Wanted
<1>2. ASSUME NEW t \in S, t[2] = known[p] PROVE t \in Triples(known, p, Wanted(known, S, p))
  <2>1. t \in Triple /\ t[1] \in Range(known) /\ t[3] \in Range(known)
    BY <1>2 DEF Known
  <2>2. PICK i \in DOMAIN known, j \in DOMAIN known : known[i] = t[1] /\ known[j] = t[3]
    BY <2>1 DEF Range
  <2>3. t = <<known[i], known[p], known[j]>>
    BY <1>2, <2>1, <2>2 DEF Triple
  <2>4. <<i, j>> \in Wanted(known, S, p)
    BY <2>3 DEF Wanted
  <2> QED
    BY <2>3, <2>4 DEF Triples
<1> QED
  BY <1>1, <1>2
-----------------------------------------------------------------------------
(* A batch.                                                                *)

LEMMA CacheIdOf ==
  ASSUME NEW known, Injective(known), NEW i \in DOMAIN known
  PROVE  CacheId(known, known[i]) = i
BY DEF CacheId, Injective

LEMMA CacheIdKnown ==
  ASSUME NEW known, NEW x \in Range(known)
  PROVE  CacheId(known, x) \in DOMAIN known /\ known[CacheId(known, x)] = x
BY DEF CacheId, Range

\* The trees of a session after the triples S were inserted.
LEMMA InsertedPoints ==
  ASSUME NEW known, Injective(known), NEW S, S \subseteq Triple, Known(known, S),
         NEW trees, DOMAIN trees \subseteq DOMAIN known
  PROVE  /\ DOMAIN Inserted(known, trees, S) \subseteq DOMAIN known
         /\ \A p \in DOMAIN known :
              At(Inserted(known, trees, S), p) = At(trees, p) \cup Wanted(known, S, p)
<1> DEFINE new == Inserted(known, trees, S)
           into(p) == {t \in S : CacheId(known, t[2]) = p}
           pts(p) == {<<CacheId(known, t[1]), CacheId(known, t[3])>> : t \in into(p)}
<1>1. \A t \in S : t[1] \in Range(known) /\ t[2] \in Range(known) /\ t[3] \in Range(known)
  BY DEF Known
<1>2. DOMAIN new = DOMAIN trees \cup {CacheId(known, t[2]) : t \in S}
  BY DEF Inserted
<1>3. DOMAIN new \subseteq DOMAIN known
  BY <1>1, <1>2, CacheIdKnown
<1>4. ASSUME NEW p \in DOMAIN known PROVE pts(p) = Wanted(known, S, p)
  <2>1. ASSUME NEW x \in pts(p) PROVE x \in Wanted(known, S, p)
    <3>1. PICK t \in S : CacheId(known, t[2]) = p /\ x = <<CacheId(known, t[1]), CacheId(known, t[3])>>
      BY <2>1
    <3>2. /\ CacheId(known, t[1]) \in DOMAIN known /\ known[CacheId(known, t[1])] = t[1]
          /\ CacheId(known, t[3]) \in DOMAIN known /\ known[CacheId(known, t[3])] = t[3]
          /\ known[p] = t[2]
      BY <1>1, <3>1, CacheIdKnown
    <3>3. t = <<t[1], t[2], t[3]>>
      BY DEF Triple
    <3> QED
      BY <3>1, <3>2, <3>3 DEF Wanted
  <2>2. ASSUME NEW x \in Wanted(known, S, p) PROVE x \in pts(p)
    <3> DEFINE t == <<known[x[1]], known[p], known[x[2]]>>
    <3>1. x \in (DOMAIN known) \X (DOMAIN known) /\ t \in S
      BY <2>2 DEF Wanted
    <3>2. CacheId(known, t[1]) = x[1] /\ CacheId(known, t[2]) = p /\ CacheId(known, t[3]) = x[2]
      BY <3>1, CacheIdOf
    <3>3. x = <<CacheId(known, t[1]), CacheId(known, t[3])>>
      BY <3>1, <3>2
    <3> HIDE DEF t
    <3> QED
      BY <3>1, <3>2, <3>3
  <2> QED
    BY <2>1, <2>2
<1>5. ASSUME NEW p \in DOMAIN known
      PROVE  At(new, p) = At(trees, p) \cup Wanted(known, S, p)
  <2>1. CASE p \in DOMAIN new
    <3>1. new[p] = At(trees, p) \cup pts(p)
      BY <1>2, <2>1 DEF Inserted
    <3> QED
      BY <1>4, <2>1, <3>1 DEF At
  <2>2. CASE p \notin DOMAIN new
    <3>1. At(new, p) = {} /\ At(trees, p) = {} /\ pts(p) = {}
      BY <1>2, <2>2 DEF At
    <3> QED
      BY <1>4, <3>1
  <2> QED
    BY <2>1, <2>2
<1> QED
  BY <1>3, <1>5

\* The nodes of a batch are finitely many, and none is 0.
LEMMA BatchNames ==
  ASSUME NEW b \in Batches
  PROVE  /\ b.add \subseteq Triple /\ Deletes(b) \subseteq Triple
         /\ IsFiniteSet(Named(b)) /\ Named(b) \subseteq Real
         /\ \A t \in b.add \cup Deletes(b) : {t[1], t[2], t[3]} \subseteq Named(b)
<1>1. b.add \subseteq Triple /\ IsFiniteSet(b.add) /\ IsFiniteSet(b.del)
  BY SessionAssumption DEF Triple, Real
<1>2. \A d \in b.del : d \in Nat \X Nat \X Nat
  BY SessionAssumption
<1>3. Deletes(b) \subseteq Triple
  BY <1>2 DEF Deletes, Deleted, Triple, Real
<1>4. IsFiniteSet(Deletes(b))
  <2> DEFINE D == {Deleted(d) : d \in b.del}
             f == [d \in b.del |-> Deleted(d)]
  <2>1. f \in Surjection(b.del, D)
    BY DEF Surjection
  <2>2. IsFiniteSet(D)
    BY <1>1, <2>1, FS_Surjection
  <2> QED
    BY <2>2, FS_Subset DEF Deletes
<1> DEFINE S == b.add \cup Deletes(b)
           g == [t \in S |-> {t[1], t[2], t[3]}]
           N == {{t[1], t[2], t[3]} : t \in S}
<1>5. IsFiniteSet(S)
  BY <1>1, <1>4, FS_Union
<1>6. g \in Surjection(S, N)
  BY DEF Surjection
<1>7. IsFiniteSet(N)
  BY <1>5, <1>6, FS_Surjection
<1>8. ASSUME NEW T \in N PROVE IsFiniteSet(T)
  <2>1. PICK t \in S : T = {t[1], t[2], t[3]}
    OBVIOUS
  <2>2. T = ({t[1]} \cup {t[2]}) \cup {t[3]}
    BY <2>1
  <2>3. IsFiniteSet({t[1]}) /\ IsFiniteSet({t[2]}) /\ IsFiniteSet({t[3]})
    BY FS_Singleton
  <2>4. IsFiniteSet({t[1]} \cup {t[2]})
    BY <2>3, FS_Union
  <2>5. IsFiniteSet(({t[1]} \cup {t[2]}) \cup {t[3]})
    BY <2>3, <2>4, FS_Union
  <2> QED
    BY <2>2, <2>5
<1>9. IsFiniteSet(Named(b))
  BY <1>7, <1>8, FS_UNION DEF Named
<1>10. Named(b) \subseteq Real
  BY <1>1, <1>3 DEF Named, Triple
<1>11. \A t \in S : {t[1], t[2], t[3]} \subseteq Named(b)
  BY DEF Named
<1> QED
  BY <1>1, <1>3, <1>9, <1>10, <1>11

\* Apart from the misnamed triples, what delete_triple inserts is what was asked for.
LEMMA WantedDeletes ==
  ASSUME NEW known \in Seq(Real), NEW b \in Batches, NEW p \in DOMAIN known,
         NEW x, x \notin Wanted(known, Misnamed(b), p)
  PROVE  x \in Wanted(known, b.del, p) <=> x \in Wanted(known, Deletes(b), p)
<1>1. CASE x \notin (DOMAIN known) \X (DOMAIN known)
  BY <1>1 DEF Wanted
<1>2. CASE x \in (DOMAIN known) \X (DOMAIN known)
  <2> DEFINE t == <<known[x[1]], known[p], known[x[2]]>>
  <2>1. t[1] \in Real /\ t[2] \in Real /\ t[3] \in Real
    BY <1>2, ElementOfSeq
  <2>2. t \notin Misnamed(b) /\ t = <<t[1], t[2], t[3]>>
    BY <1>2 DEF Wanted
  <2>3. /\ x \in Wanted(known, b.del, p) <=> t \in b.del
        /\ x \in Wanted(known, Deletes(b), p) <=> t \in Deletes(b)
    BY <1>2 DEF Wanted
  <2> HIDE DEF t
  <2>4. ASSUME t \in b.del PROVE t \in Deletes(b)
    <3>1. t[1] = t[3]
      BY <2>1, <2>2, <2>4 DEF Misnamed, Real
    <3>2. t = Deleted(t)
      BY <2>2, <3>1 DEF Deleted
    <3> QED
      BY <2>1, <2>4, <3>2 DEF Deletes, Real
  <2>5. ASSUME t \in Deletes(b) PROVE t \in b.del
    <3>1. PICK d \in b.del : t = Deleted(d)
      BY <2>5 DEF Deletes
    <3>2. d = <<d[1], d[2], d[3]>> /\ d[1] # 0
      BY <2>1, <3>1, SessionAssumption DEF Deleted, Real
    <3>3. d[1] = d[3]
      BY <2>2, <3>1, <3>2 DEF Misnamed
    <3> QED
      BY <3>1, <3>2, <3>3 DEF Deleted
  <2> QED
    BY <2>3, <2>4, <2>5
<1> QED
  BY <1>1, <1>2

\* The deletions of a batch that are not misnamed have their ids.
LEMMA KnownDeletes ==
  ASSUME NEW b \in Batches, NEW known, \A t \in Deletes(b) : {t[1], t[2], t[3]} \subseteq Range(known)
  PROVE  Known(known, b.del \ Misnamed(b))
<1> SUFFICES ASSUME NEW t \in b.del \ Misnamed(b)
             PROVE  /\ t \in Nat \X Nat \X Nat
                    /\ t \in Triple => {t[1], t[2], t[3]} \subseteq Range(known)
  BY DEF Known
<1>1. t \in Nat \X Nat \X Nat
  BY SessionAssumption
<1>2. ASSUME t \in Triple PROVE t \in Deletes(b)
  <2>1. t[1] # 0 /\ t[2] # 0 /\ t[3] # 0 /\ t = <<t[1], t[2], t[3]>>
    BY <1>2 DEF Triple, Real
  <2>2. t[1] = t[3]
    BY <2>1 DEF Misnamed
  <2>3. t = Deleted(t)
    BY <2>1, <2>2 DEF Deleted
  <2> QED
    BY <2>1, <2>3 DEF Deletes
<1> QED
  BY <1>1, <1>2

\* New ids change nothing about the triples of S, apart from those of N.
LEMMA WantedApart ==
  ASSUME NEW known, NEW more, Extends(known, more), NEW S, NEW N, Known(known, S \ N),
         NEW p \in DOMAIN more, NEW x, x \notin Wanted(more, N, p)
  PROVE  /\ p \in DOMAIN known => x \notin Wanted(known, N, p)
         /\ x \in Wanted(more, S, p) <=> p \in DOMAIN known /\ x \in Wanted(known, S, p)
<1>1. p \in DOMAIN known => Wanted(known, N, p) \subseteq Wanted(more, N, p)
  BY DEF Wanted, Extends
<1>2. x \in Wanted(more, S, p) <=> x \in Wanted(more, S \ N, p)
  BY DEF Wanted
<1>3. p \in DOMAIN known => (x \in Wanted(known, S, p) <=> x \in Wanted(known, S \ N, p))
  BY <1>1 DEF Wanted
<1>4. Wanted(more, S \ N, p) = IF p \in DOMAIN known THEN Wanted(known, S \ N, p) ELSE {}
  BY WantedKept
<1> QED
  BY <1>1, <1>2, <1>3, <1>4
-----------------------------------------------------------------------------
(* The log.                                                                *)

\* The points that a replay leaves, one by one.
LEMMA RecoveredMember ==
  ASSUME NEW rs, NEW points, NEW x
  PROVE  x \in Recovered(rs, points) <=>
           \/ x \in points /\ \A i \in DOMAIN rs : x \notin rs[i].del
           \/ \E i \in DOMAIN rs : x \in rs[i].add /\ \A j \in DOMAIN rs : j >= i => x \notin rs[j].del
BY DEF Recovered

LEMMA RecoveredEmpty ==
  ASSUME NEW points
  PROVE  Recovered(<< >>, points) = points
BY DEF Recovered

\* With one more record: the records are merged one after the other.
LEMMA RecoveredAppend ==
  ASSUME NEW C, NEW rs \in Seq(C), NEW r \in C, NEW points
  PROVE  Recovered(Append(rs, r), points) = Merged(Recovered(rs, points), r)
<1> DEFINE ms == Append(rs, r)
           n == Len(rs) + 1
<1>1. /\ n \in Nat /\ DOMAIN ms = DOMAIN rs \cup {n} /\ n \in DOMAIN ms /\ ms[n] = r
      /\ \A i \in DOMAIN rs : ms[i] = rs[i] /\ i \in Nat /\ i < n
  OBVIOUS
<1> HIDE DEF ms, n
<1>2. ASSUME NEW x PROVE x \in Recovered(ms, points) <=> x \in Merged(Recovered(rs, points), r)
  <2>1. x \in Recovered(ms, points) <=>
           \/ x \in points /\ \A i \in DOMAIN ms : x \notin ms[i].del
           \/ \E i \in DOMAIN ms : x \in ms[i].add /\ \A j \in DOMAIN ms : j >= i => x \notin ms[j].del
    BY RecoveredMember
  <2>2. x \in Recovered(rs, points) <=>
           \/ x \in points /\ \A i \in DOMAIN rs : x \notin rs[i].del
           \/ \E i \in DOMAIN rs : x \in rs[i].add /\ \A j \in DOMAIN rs : j >= i => x \notin rs[j].del
    BY RecoveredMember
  <2>3. x \in Merged(Recovered(rs, points), r) <=> x \notin r.del /\ (x \in Recovered(rs, points) \/ x \in r.add)
    BY DEF Merged
  <2>4. CASE x \in r.del
    <3>1. x \notin Recovered(ms, points)
      BY <1>1, <2>1, <2>4
    <3> QED
      BY <2>3, <2>4, <3>1
  <2>5. CASE x \notin r.del /\ x \in r.add
    <3>1. \A j \in DOMAIN ms : j >= n => x \notin ms[j].del
      BY <1>1, <2>5
    <3> QED
      BY <1>1, <2>1, <2>3, <2>5, <3>1
  <2>6. CASE x \notin r.del /\ x \notin r.add
    <3>1. (\A i \in DOMAIN ms : x \notin ms[i].del) <=> (\A i \in DOMAIN rs : x \notin rs[i].del)
      BY <1>1, <2>6
    <3>2. ASSUME NEW i \in DOMAIN rs
          PROVE  (\A j \in DOMAIN ms : j >= i => x \notin ms[j].del) <=> (\A j \in DOMAIN rs : j >= i => x \notin rs[j].del)
      BY <1>1, <2>6
    <3> QED
      BY <1>1, <2>1, <2>2, <2>3, <2>6, <3>1, <3>2
  <2> QED
    BY <2>4, <2>5, <2>6
<1>3. Recovered(ms, points) = Merged(Recovered(rs, points), r)
  BY <1>2
<1> QED
  BY <1>3 DEF ms

\* What a replay does to a point depends on that point of the tree alone.
LEMMA RecoveredPoint ==
  ASSUME NEW rs, NEW T, NEW U, NEW x, x \in T <=> x \in U
  PROVE  x \in Recovered(rs, T) <=> x \in Recovered(rs, U)
BY RecoveredMember

\* A replay over a tree that already has the records changes nothing.
LEMMA RecoveredTwice ==
  ASSUME NEW rs, NEW T, NEW U, NEW x, x \in T <=> x \in Recovered(rs, U)
  PROVE  x \in Recovered(rs, T) <=> x \in Recovered(rs, U)
BY RecoveredMember
-----------------------------------------------------------------------------
(* Compaction.                                                             *)

\* Among some of the places of a sequence there is a last one.
LEMMA LastOf ==
  ASSUME NEW n \in Nat, NEW T, T \subseteq 1..n, T # {}
  PROVE  \E x \in T : \A y \in T : y <= x
<1> DEFINE R == OpToRel(<, Nat)
           D == {n - y : y \in T}
<1>1. D \subseteq Nat /\ D # {}
  <2>1. \A y \in T : y \in Nat /\ y <= n /\ n - y \in Nat
    OBVIOUS
  <2>2. \A d \in D : d \in Nat
    BY <2>1
  <2>3. PICK y \in T : TRUE
    OBVIOUS
  <2>4. n - y \in D
    OBVIOUS
  <2> QED
    BY <2>2, <2>4
<1>2. \E d \in D : \A e \in D : <<e, d>> \notin R
  <2> HIDE DEF D
  <2> QED
    BY <1>1, NatLessThanWellFounded, WFMin, Zenon
<1>3. \A d, e \in Nat : e < d => <<e, d>> \in R
  BY DEF OpToRel
<1> HIDE DEF R
<1>4. PICK x \in T : \A e \in D : <<e, n - x>> \notin R
  BY <1>2
<1>5. ASSUME NEW y \in T PROVE y <= x
  <2>1. n - y \in D /\ n - y \in Nat /\ n - x \in Nat /\ x \in Nat /\ y \in Nat
    OBVIOUS
  <2>2. ~ (n - y < n - x)
    BY <1>3, <1>4, <2>1
  <2> QED
    BY <2>1, <2>2
<1> QED
  BY <1>5

Kinds == {"INSERT_UPDATE", "DELETE_UPDATE", "BOTH_UPDATE"}

\* The records of a predicate have the trees of their kind.
UpdateRecord ==
  {r \in [kind : Kinds, add : SUBSET (Nat \X Nat), del : SUBSET (Nat \X Nat)] :
     /\ r.kind = "INSERT_UPDATE" => r.del = {}
     /\ r.kind = "DELETE_UPDATE" => r.add = {}}

LEMMA CompactedMember ==
  ASSUME NEW rs, NEW x
  PROVE  /\ x \in Compacted(rs).add <=>
              /\ rs[1].kind # "DELETE_UPDATE"
              /\ \E i \in DOMAIN rs : x \in rs[i].add /\ \A j \in DOMAIN rs : j >= i /\ j > 1 => x \notin rs[j].del
         /\ x \in Compacted(rs).del <=>
              /\ rs[1].kind # "INSERT_UPDATE"
              /\ \E i \in DOMAIN rs : x \in rs[i].del /\ \A j \in DOMAIN rs : j > i => x \notin rs[j].add
BY DEF Compacted

LEMMA CompactedType ==
  ASSUME NEW rs \in Seq(UpdateRecord), rs # << >>
  PROVE  Compacted(rs) \in UpdateRecord
<1> DEFINE c == Compacted(rs)
<1>1. /\ 1 \in DOMAIN rs /\ \A i \in DOMAIN rs : rs[i] \in UpdateRecord
  BY ElementOfSeq
<1>2. \A i \in DOMAIN rs : rs[i].add \subseteq Nat \X Nat /\ rs[i].del \subseteq Nat \X Nat
  BY <1>1 DEF UpdateRecord
<1>3. rs[1].kind \in Kinds
  BY <1>1 DEF UpdateRecord
<1>4. /\ c.kind = rs[1].kind /\ c = [kind |-> c.kind, add |-> c.add, del |-> c.del]
      /\ c.kind = "INSERT_UPDATE" => c.del = {}
      /\ c.kind = "DELETE_UPDATE" => c.add = {}
  BY DEF Compacted
<1>5. c.add \subseteq Nat \X Nat /\ c.del \subseteq Nat \X Nat
  <2>1. ASSUME NEW x \in c.add PROVE x \in Nat \X Nat
    <3>1. \E i \in DOMAIN rs : x \in rs[i].add
      BY CompactedMember
    <3> QED
      BY <1>2, <3>1
  <2>2. ASSUME NEW x \in c.del PROVE x \in Nat \X Nat
    <3>1. \E i \in DOMAIN rs : x \in rs[i].del
      BY CompactedMember
    <3> QED
      BY <1>2, <3>1
  <2> HIDE DEF c
  <2> QED
    BY <2>1, <2>2, Zenon
<1> HIDE DEF c
<1>6. c \in [kind : Kinds, add : SUBSET (Nat \X Nat), del : SUBSET (Nat \X Nat)]
  BY <1>3, <1>4, <1>5
<1> QED
  BY <1>4, <1>6 DEF UpdateRecord, c

\* What the records leave is left by the compacted record, whatever the kinds.
LEMMA CompactedWithin ==
  ASSUME NEW rs \in Seq(UpdateRecord), NEW T, NEW x
  PROVE  /\ x \in Recovered(rs, T) => x \notin Compacted(rs).del
         /\ x \in Compacted(rs).add \ Compacted(rs).del => x \in Recovered(rs, T)
<1>1. \A i \in DOMAIN rs : i \in Nat /\ i >= 1 /\ rs[i] \in UpdateRecord
  BY ElementOfSeq
<1>2. ASSUME x \in Recovered(rs, T), x \in Compacted(rs).del PROVE FALSE
  <2>1. PICK i \in DOMAIN rs : x \in rs[i].del /\ \A j \in DOMAIN rs : j > i => x \notin rs[j].add
    BY <1>2, CompactedMember
  <2>2. PICK k \in DOMAIN rs : x \in rs[k].add /\ \A j \in DOMAIN rs : j >= k => x \notin rs[j].del
    BY <1>2, <2>1, RecoveredMember
  <2> QED
    BY <1>1, <2>1, <2>2
<1>3. ASSUME x \in Compacted(rs).add, x \notin Compacted(rs).del PROVE x \in Recovered(rs, T)
  <2>1. PICK i \in DOMAIN rs : x \in rs[i].add /\ \A j \in DOMAIN rs : j >= i /\ j > 1 => x \notin rs[j].del
    BY <1>3, CompactedMember
  <2>2. CASE \A j \in DOMAIN rs : j >= i => x \notin rs[j].del
    BY <2>1, <2>2, RecoveredMember
  <2>3. CASE \E j \in DOMAIN rs : j >= i /\ x \in rs[j].del
    <3>1. i = 1 /\ x \in rs[1].del /\ 1 \in DOMAIN rs
      BY <1>1, <2>1, <2>3
    <3>2. rs[1].kind # "INSERT_UPDATE"
      BY <1>1, <3>1 DEF UpdateRecord
    <3>3. PICK k \in DOMAIN rs : k > 1 /\ x \in rs[k].add
      BY <1>3, <3>1, <3>2, CompactedMember
    <3>4. \A j \in DOMAIN rs : j >= k => x \notin rs[j].del
      BY <1>1, <2>1, <3>1, <3>3
    <3> QED
      BY <3>3, <3>4, RecoveredMember
  <2> QED
    BY <2>2, <2>3
<1> QED
  BY <1>2, <1>3

\* The compacted record changes nothing in a tree that has the records.
LEMMA CompactedAbsorbed ==
  ASSUME NEW rs \in Seq(UpdateRecord), NEW T, NEW x, x \in T <=> x \in Recovered(rs, T)
  PROVE  x \in Merged(T, Compacted(rs)) <=> x \in T
BY CompactedWithin DEF Merged

\* Unless updates are dropped, the compacted record does what the records do.
LEMMA CompactedMeans ==
  ASSUME NEW rs \in Seq(UpdateRecord), rs # << >>, ~ Drops(rs), NEW T, NEW x
  PROVE  x \in Merged(T, Compacted(rs)) <=> x \in Recovered(rs, T)
<1> DEFINE c == Compacted(rs)
<1>1. /\ Len(rs) \in Nat /\ DOMAIN rs = 1..Len(rs) /\ 1 \in DOMAIN rs
      /\ \A i \in DOMAIN rs : i \in Nat /\ i >= 1 /\ rs[i] \in UpdateRecord
  BY ElementOfSeq
<1>2. x \in Merged(T, c) <=> x \notin c.del /\ (x \in T \/ x \in c.add)
  BY DEF Merged
<1>3. ASSUME x \in Recovered(rs, T) PROVE x \in Merged(T, c)
  <2>1. x \notin c.del
    BY <1>3, CompactedWithin
  <2>2. CASE \E i \in DOMAIN rs : x \in rs[i].add /\ \A j \in DOMAIN rs : j >= i => x \notin rs[j].del
    <3>1. PICK i \in DOMAIN rs : x \in rs[i].add /\ \A j \in DOMAIN rs : j >= i => x \notin rs[j].del
      BY <2>2
    <3>2. rs[1].kind # "DELETE_UPDATE"
      BY <1>1, <3>1 DEF Drops, UpdateRecord
    <3>3. x \in c.add
      BY <3>1, <3>2, CompactedMember
    <3> QED
      BY <1>2, <2>1, <3>3
  <2>3. CASE x \in T
    BY <1>2, <2>1, <2>3
  <2> QED
    BY <1>3, <2>2, <2>3, RecoveredMember
<1>4. ASSUME x \notin c.del, x \in T \/ x \in c.add PROVE x \in Recovered(rs, T)
  <2> DEFINE D == {i \in 1..Len(rs) : x \in rs[i].del}
  <2>1. CASE D = {}
    <3>1. \A i \in DOMAIN rs : x \notin rs[i].del
      BY <1>1, <2>1
    <3> QED
      BY <1>4, <3>1, RecoveredMember, CompactedMember
  <2>2. CASE D # {}
    <3>1. PICK k \in D : \A i \in D : i <= k
      BY <1>1, <2>2, LastOf
    <3>2. rs[1].kind # "INSERT_UPDATE"
      BY <1>1, <3>1 DEF Drops, UpdateRecord
    <3>3. PICK j \in DOMAIN rs : j > k /\ x \in rs[j].add
      BY <1>1, <1>4, <3>1, <3>2, CompactedMember
    <3>4. \A i \in DOMAIN rs : i >= j => x \notin rs[i].del
      BY <1>1, <3>1, <3>3
    <3> QED
      BY <3>3, <3>4, RecoveredMember
  <2> QED
    BY <2>1, <2>2
<1> QED
  BY <1>2, <1>3, <1>4
-----------------------------------------------------------------------------
(* The inductive invariant.                                                *)

Points(known) == (DOMAIN known) \X (DOMAIN known)

IdsOK == ids \in Seq(Real) /\ Injective(ids)

TreesOK ==
  /\ DOMAIN index \subseteq DOMAIN ids /\ DOMAIN mem \subseteq DOMAIN ids
  /\ DOMAIN log \subseteq DOMAIN ids /\ DOMAIN committing \subseteq DOMAIN ids
  /\ \A p \in DOMAIN log : log[p] \in Seq(UpdateRecord)
  /\ \A p \in DOMAIN committing : committing[p] \in UpdateRecord
  /\ merging \in DOMAIN committing \cup {0}
  /\ stale \subseteq DOMAIN log

TruthOK ==
  /\ truth \subseteq Triple /\ Known(ids, truth)
  /\ DOMAIN sent = Sessions
  /\ \A u \in Sessions : /\ sent[u].add \subseteq Triple /\ Known(ids, sent[u].add)
                         /\ Known(ids, sent[u].del \ misnamed)

\* Two trees have the same points, apart from those of M.
Same(M, T, U) == \A x : x \notin M => (x \in T <=> x \in U)

\* The points of p that stand for committed triples, and for misnamed ones.
Committed(p) == Wanted(ids, truth, p)
Blurred(p) == Wanted(ids, misnamed, p)

\* The trees of a session stand for what its client sent.
SessionsOK ==
  /\ DOMAIN session = Sessions
  /\ \A u \in Sessions :
       /\ DOMAIN session[u].added \subseteq DOMAIN ids /\ DOMAIN session[u].removed \subseteq DOMAIN ids
       /\ \A p \in DOMAIN ids : /\ At(session[u].added, p) = Wanted(ids, sent[u].add, p)
                                 /\ At(session[u].removed, p) \subseteq Points(ids)
                                 /\ Same(Blurred(p), At(session[u].removed, p), Wanted(ids, sent[u].del, p))

\* Where the committed triples of p are: in the index with the log unless that
\* lost records, in memory except for a commit that is not merged yet, and, at
\* each step of a sync, in the index without the log.
PlacesOf(p) ==
  /\ p \notin stale => Same(Blurred(p), Reloaded(p), Committed(p))
  /\ p \in DOMAIN committing => Same(Blurred(p), Merged(Committed(p), committing[p]), Committed(p))
  /\ p \in DOMAIN mem =>
       Same(Blurred(p), IF p \in DOMAIN committing THEN Merged(mem[p], committing[p]) ELSE mem[p], Committed(p))
  /\ sync \in {"written", "compacted"} /\ p \in DOMAIN mem \cap DOMAIN log =>
       Same(Blurred(p), At(index, p), Committed(p))
  /\ sync = "fetched" => Same(Blurred(p), At(index, p), Committed(p))

PlacesOK == \A p \in DOMAIN ids \ (raced \cup lost) : PlacesOf(p)

\* A predicate that is committed while a sync runs is raced.
RacedOK == sync # "idle" => DOMAIN committing \subseteq raced

UpdatesInv == IdsOK /\ TreesOK /\ TruthOK /\ SessionsOK /\ PlacesOK /\ RacedOK

LEMMA InitUpdates ==
  ASSUME Init
  PROVE  UpdatesInv
<1> USE DEF Init
<1>1. IdsOK
  BY SessionAssumption DEF IdsOK, Injective, Real
<1>2. DOMAIN << >> = {}
  OBVIOUS
<1>3. TreesOK
  BY <1>2, SessionAssumption DEF TreesOK
<1>4. ASSUME NEW t \in truth PROVE t \in Triple /\ {t[1], t[2], t[3]} \subseteq Range(ids)
  <2>1. PICK q \in DOMAIN InitialIndex : t \in Triples(InitialIds, q, InitialIndex[q])
    BY <1>4
  <2>2. PICK x \in InitialIndex[q] : t = <<InitialIds[x[1]], InitialIds[q], InitialIds[x[2]]>>
    BY <2>1 DEF Triples
  <2>3. q \in DOMAIN InitialIds /\ x[1] \in DOMAIN InitialIds /\ x[2] \in DOMAIN InitialIds
    BY SessionAssumption
  <2>4. \A i \in DOMAIN InitialIds : InitialIds[i] \in Real /\ InitialIds[i] \in Range(ids)
    BY SessionAssumption, ElementOfSeq DEF Real, Range
  <2> QED
    BY <2>2, <2>3, <2>4 DEF Triple
<1>5. truth \subseteq Triple /\ Known(ids, truth)
  BY <1>4 DEF Known, Triple, Real
<1>6. TruthOK
  BY <1>5 DEF TruthOK, Known
<1>7. SessionsOK
  BY <1>2 DEF SessionsOK, NewSession, At, Wanted, Same
<1>8. PlacesOK
  <2> SUFFICES ASSUME NEW p \in DOMAIN ids PROVE PlacesOf(p)
    BY DEF PlacesOK
  <2>1. Reloaded(p) = At(index, p)
    BY <1>2, RecoveredEmpty DEF Reloaded, LogOf
  <2>2. ASSUME NEW x \in At(index, p) PROVE x \in Wanted(ids, truth, p)
    <3>1. p \in DOMAIN InitialIndex /\ x \in InitialIndex[p] /\ x \in Points(ids)
      BY <2>2, SessionAssumption DEF At, Points
    <3>2. <<ids[x[1]], ids[p], ids[x[2]]>> \in Triples(InitialIds, p, InitialIndex[p])
      BY <3>1 DEF Triples
    <3>3. <<ids[x[1]], ids[p], ids[x[2]]>> \in truth
      BY <3>1, <3>2
    <3> QED
      BY <3>1, <3>3 DEF Wanted, Points
  <2>3. ASSUME NEW x \in Wanted(ids, truth, p) PROVE x \in At(index, p)
    <3>1. x \in Points(ids) /\ <<ids[x[1]], ids[p], ids[x[2]]>> \in truth
      BY <2>3 DEF Wanted, Points
    <3>2. PICK q \in DOMAIN InitialIndex : <<ids[x[1]], ids[p], ids[x[2]]>> \in Triples(InitialIds, q, InitialIndex[q])
      BY <3>1
    <3>3. PICK y \in InitialIndex[q] :
            <<ids[x[1]], ids[p], ids[x[2]]>> = <<InitialIds[y[1]], InitialIds[q], InitialIds[y[2]]>>
      BY <3>2 DEF Triples
    <3>4. y \in Points(ids) /\ q \in DOMAIN ids
      BY SessionAssumption DEF Points
    <3>5. x[1] = y[1] /\ p = q /\ x[2] = y[2]
      BY <1>1, <3>1, <3>3, <3>4 DEF IdsOK, Injective, Points
    <3>6. x = y
      BY <3>1, <3>4, <3>5 DEF Points
    <3> QED
      BY <3>5, <3>6 DEF At
  <2> QED
    BY <1>2, <2>1, <2>2, <2>3 DEF PlacesOf, Same, Committed
<1> QED
  BY <1>1, <1>2, <1>3, <1>6, <1>7, <1>8 DEF UpdatesInv, RacedOK

\* process_update_triples_batch: new ids, and more in the trees of the session.
LEMMA BatchUpdates ==
  ASSUME UpdatesInv, NEW u \in Sessions, NEW b \in Batches, UpdateBatch(u, b)
  PROVE  UpdatesInv'
<1>0. IdsOK /\ TreesOK /\ TruthOK /\ SessionsOK /\ PlacesOK /\ RacedOK
  BY DEF UpdatesInv
<1>1. /\ ids' = Created(ids, Named(b))
      /\ session' = [session EXCEPT ![u] = Gathered(ids', session[u], b)]
      /\ sent' = [sent EXCEPT ![u] = [add |-> sent[u].add \cup b.add, del |-> sent[u].del \cup b.del]]
      /\ misnamed' = misnamed \cup Misnamed(b)
      /\ UNCHANGED <<index, log, mem, committing, merging, sync, truth, raced, stale, lost>>
  BY <1>0 DEF UpdateBatch, TruthOK, SessionsOK
<1>2. /\ b.add \subseteq Triple /\ Deletes(b) \subseteq Triple
      /\ IsFiniteSet(Named(b)) /\ Named(b) \subseteq Real
      /\ \A t \in b.add \cup Deletes(b) : {t[1], t[2], t[3]} \subseteq Named(b)
  BY BatchNames
<1>3. Extends(ids, ids') /\ Range(ids') = Range(ids) \cup Named(b)
  BY <1>0, <1>1, <1>2, CreatedExtends DEF IdsOK
<1>4. IdsOK' /\ DOMAIN ids \subseteq DOMAIN ids'
  BY <1>3 DEF IdsOK, Extends
<1>5. TreesOK'
  BY <1>0, <1>1, <1>4 DEF TreesOK
<1>6. \A S : Known(ids, S) => Known(ids', S)
  BY <1>3, KnownMore
<1>7. Known(ids', b.add) /\ Known(ids', Deletes(b)) /\ Known(ids', b.del \ Misnamed(b))
  <2>1. Known(ids', b.add) /\ Known(ids', Deletes(b))
    BY <1>2, <1>3 DEF Known, Triple, Real
  <2>2. Known(ids', b.del \ Misnamed(b))
    BY <1>2, <1>3, KnownDeletes
  <2> QED
    BY <2>1, <2>2
<1>8. TruthOK'
  <2>1. truth' \subseteq Triple /\ Known(ids', truth') /\ DOMAIN sent' = Sessions
    BY <1>0, <1>1, <1>6 DEF TruthOK
  <2>2. ASSUME NEW v \in Sessions
        PROVE  /\ sent'[v].add \subseteq Triple /\ Known(ids', sent'[v].add)
               /\ Known(ids', sent'[v].del \ misnamed')
    <3>0. Known(ids', sent[v].add) /\ Known(ids', sent[v].del \ misnamed) /\ sent[v].add \subseteq Triple
      BY <1>0, <1>6 DEF TruthOK
    <3>1. CASE v = u
      <4>1. sent'[v].add = sent[u].add \cup b.add /\ sent'[v].del = sent[u].del \cup b.del
        BY <1>0, <1>1, <3>1 DEF TruthOK
      <4> QED
        BY <1>1, <1>2, <1>7, <3>0, <3>1, <4>1 DEF Known
    <3>2. CASE v # u
      <4>1. sent'[v] = sent[v]
        BY <1>0, <1>1, <3>2 DEF TruthOK
      <4> QED
        BY <1>1, <3>0, <4>1 DEF Known
    <3> QED
      BY <3>1, <3>2
  <2> QED
    BY <2>1, <2>2 DEF TruthOK
<1>9. SessionsOK'
  <2>1. DOMAIN session' = Sessions
    BY <1>0, <1>1 DEF SessionsOK
  <2>2. ASSUME NEW v \in Sessions, NEW q \in DOMAIN ids'
        PROVE  /\ At(session[v].added, q) = Wanted(ids', sent[v].add, q)
               /\ At(session[v].removed, q) \subseteq Points(ids')
               /\ Same(Wanted(ids', misnamed', q), At(session[v].removed, q), Wanted(ids', sent[v].del, q))
    <3>1. Known(ids, sent[v].add) /\ Known(ids, sent[v].del \ misnamed)
      BY <1>0 DEF TruthOK
    <3>2. Wanted(ids', sent[v].add, q) = IF q \in DOMAIN ids THEN Wanted(ids, sent[v].add, q) ELSE {}
      BY <1>3, <3>1, WantedKept
    <3>3. ASSUME NEW x, x \notin Wanted(ids', misnamed', q)
          PROVE  /\ q \in DOMAIN ids => x \notin Wanted(ids, misnamed, q)
                 /\ x \in Wanted(ids', sent[v].del, q) <=> q \in DOMAIN ids /\ x \in Wanted(ids, sent[v].del, q)
      <4>1. x \notin Wanted(ids', misnamed, q)
        BY <1>1, <3>3 DEF Wanted
      <4> DEFINE D == sent[v].del
                 more == ids'
      <4>2. Known(ids, D \ misnamed) /\ Extends(ids, more) /\ q \in DOMAIN more /\ x \notin Wanted(more, misnamed, q)
        BY <1>3, <3>1, <4>1
      <4> HIDE DEF D, more
      <4>3. /\ q \in DOMAIN ids => x \notin Wanted(ids, misnamed, q)
            /\ x \in Wanted(more, D, q) <=> q \in DOMAIN ids /\ x \in Wanted(ids, D, q)
        BY <4>2, WantedApart
      <4> QED
        BY <4>3 DEF D, more
    <3>4. Points(ids) \subseteq Points(ids')
      BY <1>4 DEF Points
    <3>5. CASE q \in DOMAIN ids
      <4>1. /\ At(session[v].added, q) = Wanted(ids, sent[v].add, q)
            /\ At(session[v].removed, q) \subseteq Points(ids)
            /\ Same(Wanted(ids, misnamed, q), At(session[v].removed, q), Wanted(ids, sent[v].del, q))
        BY <1>0, <3>5 DEF SessionsOK, Blurred
      <4> QED
        BY <3>2, <3>3, <3>4, <3>5, <4>1 DEF Same
    <3>6. CASE q \notin DOMAIN ids
      <4>1. q \notin DOMAIN session[v].added /\ q \notin DOMAIN session[v].removed
        BY <1>0, <3>6 DEF SessionsOK
      <4>2. At(session[v].added, q) = {} /\ At(session[v].removed, q) = {}
        BY <4>1 DEF At
      <4> QED
        BY <3>2, <3>3, <3>6, <4>2 DEF Same
    <3> QED
      BY <3>5, <3>6
  <2>3. ASSUME NEW v \in Sessions
        PROVE  /\ DOMAIN session'[v].added \subseteq DOMAIN ids'
               /\ DOMAIN session'[v].removed \subseteq DOMAIN ids'
               /\ \A q \in DOMAIN ids' :
                    /\ At(session'[v].added, q) = Wanted(ids', sent'[v].add, q)
                    /\ At(session'[v].removed, q) \subseteq Points(ids')
                    /\ Same(Wanted(ids', misnamed', q), At(session'[v].removed, q), Wanted(ids', sent'[v].del, q))
    <3>1. CASE v # u
      <4>1. session'[v] = session[v] /\ sent'[v] = sent[v]
        BY <1>0, <1>1, <3>1 DEF SessionsOK, TruthOK
      <4>2. DOMAIN session[v].added \subseteq DOMAIN ids /\ DOMAIN session[v].removed \subseteq DOMAIN ids
        BY <1>0 DEF SessionsOK
      <4> QED
        BY <1>4, <2>2, <4>1, <4>2
    <3>2. CASE v = u
      <4>1. /\ session'[v].added = Inserted(ids', session[u].added, b.add)
            /\ session'[v].removed = Inserted(ids', session[u].removed, Deletes(b))
            /\ sent'[v].add = sent[u].add \cup b.add /\ sent'[v].del = sent[u].del \cup b.del
        BY <1>0, <1>1, <3>2 DEF SessionsOK, TruthOK, Gathered
      <4>2. DOMAIN session[u].added \subseteq DOMAIN ids' /\ DOMAIN session[u].removed \subseteq DOMAIN ids'
        BY <1>0, <1>4 DEF SessionsOK
      <4>3. /\ DOMAIN session'[v].added \subseteq DOMAIN ids'
            /\ \A q \in DOMAIN ids' : At(session'[v].added, q) = At(session[u].added, q) \cup Wanted(ids', b.add, q)
        BY <1>2, <1>4, <1>7, <4>1, <4>2, InsertedPoints DEF IdsOK
      <4>4. /\ DOMAIN session'[v].removed \subseteq DOMAIN ids'
            /\ \A q \in DOMAIN ids' : At(session'[v].removed, q) = At(session[u].removed, q) \cup Wanted(ids', Deletes(b), q)
        BY <1>2, <1>4, <1>7, <4>1, <4>2, InsertedPoints DEF IdsOK
      <4>5. ASSUME NEW q \in DOMAIN ids'
            PROVE  /\ At(session'[v].added, q) = Wanted(ids', sent'[v].add, q)
                   /\ At(session'[v].removed, q) \subseteq Points(ids')
                   /\ Same(Wanted(ids', misnamed', q), At(session'[v].removed, q), Wanted(ids', sent'[v].del, q))
        <5>1. /\ Wanted(ids', sent[u].add \cup b.add, q) = Wanted(ids', sent[u].add, q) \cup Wanted(ids', b.add, q)
              /\ Wanted(ids', sent[u].del \cup b.del, q) = Wanted(ids', sent[u].del, q) \cup Wanted(ids', b.del, q)
              /\ Wanted(ids', Deletes(b), q) \subseteq Points(ids')
          BY DEF Wanted, Points
        <5>2. ASSUME NEW x, x \notin Wanted(ids', misnamed', q)
              PROVE  x \in Wanted(ids', b.del, q) <=> x \in Wanted(ids', Deletes(b), q)
          <6>1. x \notin Wanted(ids', Misnamed(b), q)
            BY <1>1, <5>2 DEF Wanted
          <6> QED
            BY <1>4, <6>1, WantedDeletes DEF IdsOK
        <5>3. /\ At(session[u].added, q) = Wanted(ids', sent[u].add, q)
              /\ At(session[u].removed, q) \subseteq Points(ids')
              /\ Same(Wanted(ids', misnamed', q), At(session[u].removed, q), Wanted(ids', sent[u].del, q))
          BY <2>2
        <5>4. /\ At(session'[v].added, q) = At(session[u].added, q) \cup Wanted(ids', b.add, q)
              /\ At(session'[v].removed, q) = At(session[u].removed, q) \cup Wanted(ids', Deletes(b), q)
          BY <4>3, <4>4
        <5> QED
          BY <4>1, <5>1, <5>2, <5>3, <5>4 DEF Same
      <4> QED
        BY <4>3, <4>4, <4>5
    <3> QED
      BY <3>1, <3>2
  <2> QED
    BY <2>1, <2>3 DEF SessionsOK, Blurred
<1>10. PlacesOK'
  <2> SUFFICES ASSUME NEW p \in DOMAIN ids' \ (raced \cup lost) PROVE PlacesOf(p)'
    BY <1>1 DEF PlacesOK
  <2>1. Wanted(ids', truth, p) = IF p \in DOMAIN ids THEN Wanted(ids, truth, p) ELSE {}
    BY <1>0, <1>3, WantedKept DEF TruthOK
  <2>2. CASE p \in DOMAIN ids
    <3>1. PlacesOf(p) /\ Committed(p)' = Committed(p)
      BY <1>0, <1>1, <2>1, <2>2 DEF PlacesOK, Committed
    <3>2. Blurred(p) \subseteq Blurred(p)'
      BY <1>1, <1>3, <2>2 DEF Blurred, Wanted, Extends
    <3>3. \A T, U : Same(Blurred(p), T, U) => Same(Blurred(p)', T, U)
      BY <3>2 DEF Same
    <3>4. Reloaded(p)' = Reloaded(p)
      BY <1>1 DEF Reloaded
    <3> QED
      BY <1>1, <3>1, <3>3, <3>4 DEF PlacesOf
  <2>3. CASE p \notin DOMAIN ids
    <3>1. p \notin DOMAIN index \cup DOMAIN mem \cup DOMAIN committing \cup DOMAIN log
      BY <1>0, <2>3 DEF TreesOK
    <3>2. Reloaded(p)' = {} /\ At(index, p) = {}
      BY <1>1, <3>1, RecoveredEmpty DEF At, Reloaded, LogOf
    <3>3. Committed(p)' = {}
      BY <1>1, <2>1, <2>3 DEF Committed
    <3> QED
      BY <1>1, <3>1, <3>2, <3>3 DEF PlacesOf, Same
  <2> QED
    BY <2>2, <2>3
<1> QED
  BY <1>0, <1>1, <1>4, <1>5, <1>8, <1>9, <1>10 DEF UpdatesInv, RacedOK

\* The steps that leave ids, sessions and the committed triples alone.
LEMMA TreeSteps ==
  ASSUME UpdatesInv, UNCHANGED asked, TreesOK', RacedOK',
         \A p \in DOMAIN ids \ (raced \cup lost)' : PlacesOf(p)'
  PROVE  UpdatesInv'
BY DEF UpdatesInv, asked, IdsOK, TruthOK, SessionsOK, PlacesOK, Blurred

LEMMA SameTrees ==
  ASSUME UNCHANGED asked, NEW p
  PROVE  Blurred(p)' = Blurred(p) /\ Committed(p)' = Committed(p)
BY DEF asked, Blurred, Committed

\* The records of a session.
LEMMA SessionRecords ==
  ASSUME IdsOK, SessionsOK, NEW u \in Sessions
  PROVE  LET rs == Records(session[u]) IN
         /\ DOMAIN rs \subseteq DOMAIN ids
         /\ \A p \in DOMAIN rs : /\ rs[p] \in UpdateRecord
                                 /\ rs[p].add = At(session[u].added, p) /\ rs[p].del = At(session[u].removed, p)
         /\ \A p \in DOMAIN ids \ DOMAIN rs : At(session[u].added, p) = {} /\ At(session[u].removed, p) = {}
<1> DEFINE rs == Records(session[u])
<1>1. DOMAIN rs = DOMAIN session[u].added \cup DOMAIN session[u].removed
  BY DEF Records
<1>2. DOMAIN rs \subseteq DOMAIN ids
  BY <1>1 DEF SessionsOK
<1>3. DOMAIN ids \subseteq Nat
  BY DEF IdsOK
<1>4. ASSUME NEW p \in DOMAIN rs
      PROVE  rs[p] \in UpdateRecord /\ rs[p].add = At(session[u].added, p) /\ rs[p].del = At(session[u].removed, p)
  <2> DEFINE k == Kind(session[u], p)
             a == At(session[u].added, p)
             d == At(session[u].removed, p)
  <2>1. rs[p] = [kind |-> k, add |-> a, del |-> d]
    BY DEF Records, Record
  <2>2. /\ k \in Kinds
        /\ k = "INSERT_UPDATE" => d = {}
        /\ k = "DELETE_UPDATE" => a = {}
    BY <1>1 DEF Kind, Kinds, At
  <2>3. a \subseteq Points(ids) /\ d \subseteq Points(ids)
    BY <1>2 DEF SessionsOK, Wanted, Points
  <2>4. Points(ids) \subseteq Nat \X Nat
    BY <1>3 DEF Points
  <2> HIDE DEF rs, k, a, d
  <2>5. a \in SUBSET (Nat \X Nat) /\ d \in SUBSET (Nat \X Nat)
    BY <2>3, <2>4, Zenon
  <2>6. rs[p] \in UpdateRecord
    BY <2>1, <2>2, <2>5 DEF UpdateRecord
  <2> QED
    BY <2>1, <2>6 DEF a, d
<1>5. \A p \in DOMAIN ids \ DOMAIN rs : At(session[u].added, p) = {} /\ At(session[u].removed, p) = {}
  BY <1>1 DEF At
<1> QED
  BY <1>2, <1>4, <1>5

\* commit_updates, first the log: the record of p merges into what the log gives.
LEMMA CommitLogUpdates ==
  ASSUME UpdatesInv, NEW u \in Sessions, CommitLog(u)
  PROVE  UpdatesInv'
<1> DEFINE rs == Records(session[u])
           kept == IF writer THEN log ELSE [p \in InLog |-> << >>]
<1>0. IdsOK /\ TreesOK /\ TruthOK /\ SessionsOK /\ PlacesOK /\ RacedOK
  BY DEF UpdatesInv
<1>1. /\ DOMAIN committing = {} /\ committing' = rs
      /\ DOMAIN log' = DOMAIN log \cup DOMAIN rs
      /\ \A p \in DOMAIN log' : log'[p] = IF p \in DOMAIN rs THEN Append(LogOf(kept, p), rs[p]) ELSE kept[p]
      /\ stale' = IF writer THEN stale ELSE stale \cup DOMAIN log
      /\ truth' = (truth \cup sent[u].add) \ sent[u].del
      /\ raced' = raced \cup (IF sync = "idle" THEN {} ELSE DOMAIN rs)
      /\ UNCHANGED <<ids, session, index, mem, merging, sync, sent, misnamed, lost>>
  BY DEF CommitLog, InLog
<1>2. /\ DOMAIN rs \subseteq DOMAIN ids
      /\ \A p \in DOMAIN rs : /\ rs[p] \in UpdateRecord
                              /\ rs[p].add = At(session[u].added, p) /\ rs[p].del = At(session[u].removed, p)
      /\ \A p \in DOMAIN ids \ DOMAIN rs : At(session[u].added, p) = {} /\ At(session[u].removed, p) = {}
  BY <1>0, SessionRecords
<1> HIDE DEF rs
<1>3. /\ DOMAIN kept = DOMAIN log
      /\ \A p \in DOMAIN log : kept[p] \in Seq(UpdateRecord) /\ kept[p] = IF writer THEN log[p] ELSE << >>
  BY <1>0 DEF TreesOK, InLog
<1> HIDE DEF kept
<1>4. TreesOK'
  <2>1. ASSUME NEW p \in DOMAIN log' PROVE log'[p] \in Seq(UpdateRecord)
    <3>1. LogOf(kept, p) \in Seq(UpdateRecord)
      BY <1>3 DEF LogOf
    <3>2. CASE p \in DOMAIN rs
      <4>1. log'[p] = Append(LogOf(kept, p), rs[p]) /\ rs[p] \in UpdateRecord
        BY <1>1, <1>2, <3>2
      <4> QED
        BY <3>1, <4>1
    <3>3. CASE p \notin DOMAIN rs
      BY <1>1, <1>3, <3>3
    <3> QED
      BY <3>2, <3>3
  <2> QED
    BY <1>0, <1>1, <1>2, <2>1 DEF TreesOK
<1>5. TruthOK'
  BY <1>0, <1>1 DEF TruthOK, Known
<1>6. SessionsOK' /\ IdsOK'
  BY <1>0, <1>1 DEF SessionsOK, IdsOK, Blurred
<1>7. RacedOK'
  BY <1>1 DEF RacedOK
<1>8. ASSUME NEW p \in DOMAIN ids \ (raced' \cup lost) PROVE PlacesOf(p)'
  <2> DEFINE M == Blurred(p)
             C == Committed(p)
             D == Committed(p)'
             wa == Wanted(ids, sent[u].add, p)
             wd == Wanted(ids, sent[u].del, p)
  <2>1. PlacesOf(p) /\ p \notin DOMAIN committing
    BY <1>0, <1>1, <1>8 DEF PlacesOK
  <2>2. D = (C \cup wa) \ wd /\ Blurred(p)' = M
    BY <1>1 DEF Wanted, Committed, Blurred
  <2>3. wa = At(session[u].added, p) /\ Same(M, At(session[u].removed, p), wd)
    BY <1>0 DEF SessionsOK
  <2>4. CASE p \in DOMAIN rs
    <3>1. sync = "idle"
      BY <1>1, <1>8, <2>4
    <3>2. rs[p].add = wa /\ Same(M, rs[p].del, wd)
      BY <1>2, <2>3, <2>4
    <3>3. \A T : Same(M, T, C) => Same(M, Merged(T, rs[p]), D)
      BY <2>2, <3>2 DEF Same, Merged
    <3>4. Same(M, Merged(D, rs[p]), D)
      BY <2>2, <3>2 DEF Same, Merged
    <3>5. ASSUME p \notin stale' PROVE Same(M, Reloaded(p)', D)
      <4>1. Same(M, Reloaded(p), C)
        BY <1>1, <2>1, <3>5 DEF PlacesOf
      <4>2. LogOf(kept, p) = LogOf(log, p) /\ LogOf(kept, p) \in Seq(UpdateRecord)
        BY <1>1, <1>3, <3>5 DEF LogOf
      <4>3. LogOf(log, p)' = Append(LogOf(log, p), rs[p])
        BY <1>1, <2>4, <4>2 DEF LogOf
      <4>4. Reloaded(p)' = Merged(Reloaded(p), rs[p])
        BY <1>1, <1>2, <2>4, <4>2, <4>3, RecoveredAppend DEF Reloaded
      <4> QED
        BY <3>3, <4>1, <4>4
    <3>6. p \in DOMAIN mem => Same(M, Merged(mem[p], rs[p]), D)
      BY <2>1, <3>3 DEF PlacesOf
    <3> QED
      BY <1>1, <2>2, <2>4, <3>1, <3>4, <3>5, <3>6 DEF PlacesOf
  <2>5. CASE p \notin DOMAIN rs
    <3>1. Same(M, C, D)
      BY <1>2, <2>2, <2>3, <2>5 DEF Same
    <3>2. \A T : Same(M, T, C) => Same(M, T, D)
      BY <3>1 DEF Same
    <3>3. ASSUME p \notin stale' PROVE Reloaded(p)' = Reloaded(p) /\ p \notin stale
      <4>1. LogOf(log, p)' = LogOf(log, p)
        BY <1>1, <1>3, <2>5, <3>3 DEF LogOf
      <4> QED
        BY <1>1, <3>3, <4>1 DEF Reloaded
    <3>4. p \in DOMAIN log' <=> p \in DOMAIN log
      BY <1>1, <2>5
    <3> HIDE DEF C, D, M
    <3>5. /\ p \notin stale' => Same(M, Reloaded(p)', D)
          /\ p \in DOMAIN mem => Same(M, mem[p], D)
          /\ sync \in {"written", "compacted"} /\ p \in DOMAIN mem \cap DOMAIN log => Same(M, At(index, p), D)
          /\ sync = "fetched" => Same(M, At(index, p), D)
      BY <2>1, <3>2, <3>3 DEF PlacesOf, C, M
    <3> QED
      BY <1>1, <2>2, <2>5, <3>4, <3>5 DEF PlacesOf, D
  <2> QED
    BY <2>4, <2>5
<1>9. PlacesOK'
  BY <1>1, <1>8 DEF PlacesOK
<1> QED
  BY <1>4, <1>5, <1>6, <1>7, <1>9 DEF UpdatesInv

\* merge_update: a predicate that is not active is left out ...
LEMMA MergeSkipUpdates ==
  ASSUME UpdatesInv, NEW q \in DOMAIN ids, MergeSkip(q)
  PROVE  UpdatesInv'
<1>0. TreesOK /\ PlacesOK /\ RacedOK
  BY DEF UpdatesInv
<1>1. /\ merging = 0 /\ q \notin DOMAIN mem
      /\ DOMAIN committing' = DOMAIN committing \ {q} /\ \A p \in DOMAIN committing' : committing'[p] = committing[p]
      /\ UNCHANGED <<asked, index, log, mem, merging, sync, raced, stale, lost>>
  BY DEF MergeSkip, Without
<1>2. TreesOK'
  BY <1>0, <1>1 DEF TreesOK, asked
<1>3. ASSUME NEW p \in DOMAIN ids \ (raced \cup lost)' PROVE PlacesOf(p)'
  <2>1. PlacesOf(p) /\ Blurred(p)' = Blurred(p) /\ Committed(p)' = Committed(p) /\ Reloaded(p)' = Reloaded(p)
    BY <1>0, <1>1, <1>3, SameTrees DEF PlacesOK, Reloaded
  <2> QED
    BY <1>1, <2>1 DEF PlacesOf
<1>4. RacedOK'
  BY <1>0, <1>1 DEF RacedOK
<1> QED
  BY <1>1, <1>2, <1>3, <1>4, TreeSteps

\* ... the check of one that is active changes no tree ...
LEMMA MergeCheckUpdates ==
  ASSUME UpdatesInv, NEW q \in DOMAIN ids, MergeCheck(q)
  PROVE  UpdatesInv'
<1>0. TreesOK /\ PlacesOK /\ RacedOK
  BY DEF UpdatesInv
<1>1. /\ q \in DOMAIN committing /\ merging' = q
      /\ UNCHANGED <<asked, index, log, mem, committing, sync, raced, stale, lost>>
  BY DEF MergeCheck
<1>2. TreesOK' /\ RacedOK'
  BY <1>0, <1>1 DEF TreesOK, RacedOK, asked
<1>3. ASSUME NEW p \in DOMAIN ids \ (raced \cup lost)' PROVE PlacesOf(p)'
  <2>1. PlacesOf(p) /\ Blurred(p)' = Blurred(p) /\ Committed(p)' = Committed(p) /\ Reloaded(p)' = Reloaded(p)
    BY <1>0, <1>1, <1>3, SameTrees DEF PlacesOK, Reloaded
  <2> QED
    BY <1>1, <2>1 DEF PlacesOf
<1> QED
  BY <1>1, <1>2, <1>3, TreeSteps

\* ... and the merge brings its tree to what was committed, or makes it raced.
LEMMA MergeTreeUpdates ==
  ASSUME UpdatesInv, MergeTree
  PROVE  UpdatesInv'
<1> DEFINE q == merging
           r == committing[q]
           creates == q \notin DOMAIN mem /\ r.kind # "DELETE_UPDATE"
<1>0. TreesOK /\ PlacesOK /\ RacedOK
  BY DEF UpdatesInv
<1>1. /\ q \in DOMAIN committing
      /\ mem' = IF q \in DOMAIN mem \/ creates THEN With(mem, q, Merged(At(mem, q), r)) ELSE mem
      /\ raced' = IF creates THEN raced \cup {q} ELSE raced
      /\ DOMAIN committing' = DOMAIN committing \ {q} /\ \A p \in DOMAIN committing' : committing'[p] = committing[p]
      /\ merging' = 0
      /\ UNCHANGED <<asked, index, log, sync, stale, lost>>
  BY <1>0 DEF MergeTree, Without, TreesOK
<1>2. /\ DOMAIN mem \subseteq DOMAIN mem' /\ DOMAIN mem' \subseteq DOMAIN mem \cup {q}
      /\ \A p \in DOMAIN mem \ {q} : mem'[p] = mem[p]
      /\ q \in DOMAIN mem => mem'[q] = Merged(mem[q], r)
      /\ q \in DOMAIN mem' /\ q \notin raced' => q \in DOMAIN mem
  BY <1>1 DEF With, At
<1>3. TreesOK'
  BY <1>0, <1>1, <1>2 DEF TreesOK, asked
<1>4. ASSUME NEW p \in DOMAIN ids \ (raced \cup lost)' PROVE PlacesOf(p)'
  <2>1. PlacesOf(p) /\ Blurred(p)' = Blurred(p) /\ Committed(p)' = Committed(p) /\ Reloaded(p)' = Reloaded(p)
    BY <1>0, <1>1, <1>4, SameTrees DEF PlacesOK, Reloaded
  <2>2. p \in DOMAIN mem' => p \in DOMAIN mem
    BY <1>2, <1>4
  <2>3. CASE p = q
    BY <1>1, <1>2, <2>1, <2>2, <2>3 DEF PlacesOf
  <2>4. CASE p # q
    BY <1>1, <1>2, <2>1, <2>2, <2>4 DEF PlacesOf
  <2> QED
    BY <2>3, <2>4
<1>5. RacedOK'
  BY <1>0, <1>1 DEF RacedOK
<1> QED
  BY <1>1, <1>3, <1>4, <1>5, TreeSteps

\* fetch_k2tree
LEMMA LoadUpdates ==
  ASSUME UpdatesInv, NEW q \in DOMAIN ids, Load(q)
  PROVE  UpdatesInv'
<1>0. TreesOK /\ PlacesOK /\ RacedOK
  BY DEF UpdatesInv
<1>1. /\ q \notin DOMAIN mem
      /\ raced' = IF sync \in {"written", "compacted"} /\ q \in DOMAIN log THEN raced \cup {q} ELSE raced
      /\ UNCHANGED <<asked, index, log, committing, merging, sync, stale>>
  BY DEF Load, InLog
<1>7. PICK S \in Strays({q}) : \E g \in [({q} \cap stale) \cup S -> Garbled] :
        mem' = Fetched({q}, S, g) /\ lost' = lost \cup DOMAIN g
  BY DEF Load
<1>2. PICK g \in [({q} \cap stale) \cup S -> Garbled] :
        mem' = Fetched({q}, S, g) /\ lost' = lost \cup DOMAIN g
  BY <1>7
<1>3. /\ DOMAIN mem' = DOMAIN mem \cup {q} \cup S
      /\ S \subseteq DOMAIN log /\ DOMAIN g = ({q} \cap stale) \cup S
      /\ \A p \in DOMAIN mem' \ DOMAIN g : mem'[p] = Tree(p)
  BY <1>2 DEF Fetched, Strays, InLog
<1>4. TreesOK'
  BY <1>0, <1>1, <1>3 DEF TreesOK, asked
<1>5. ASSUME NEW p \in DOMAIN ids \ (raced \cup lost)' PROVE PlacesOf(p)'
  <2>1. PlacesOf(p) /\ Blurred(p)' = Blurred(p) /\ Committed(p)' = Committed(p) /\ Reloaded(p)' = Reloaded(p)
    BY <1>0, <1>1, <1>2, <1>5, SameTrees DEF PlacesOK, Reloaded
  <2>2. p \notin DOMAIN g
    BY <1>2, <1>5
  <2>3. CASE p = q
    <3>1. p \notin stale /\ p \in DOMAIN mem' /\ mem'[p] = Reloaded(p) /\ ~ (sync \in {"written", "compacted"} /\ p \in DOMAIN log)
      BY <1>1, <1>3, <1>5, <2>2, <2>3 DEF Tree
    <3>2. Same(Blurred(p), IF p \in DOMAIN committing THEN Merged(mem'[p], committing[p]) ELSE mem'[p], Committed(p))
      BY <2>1, <3>1 DEF PlacesOf, Same, Merged
    <3> QED
      BY <1>1, <2>1, <3>1, <3>2 DEF PlacesOf
  <2>4. CASE p # q
    <3>1. (p \in DOMAIN mem' <=> p \in DOMAIN mem) /\ (p \in DOMAIN mem => mem'[p] = mem[p])
      BY <1>3, <2>2, <2>4 DEF Tree
    <3> QED
      BY <1>1, <2>1, <3>1 DEF PlacesOf
  <2> QED
    BY <2>3, <2>4
<1>6. RacedOK'
  BY <1>0, <1>1 DEF RacedOK
<1> QED
  BY <1>1, <1>4, <1>5, <1>6, TreeSteps

\* discard_in_memory_predicate
LEMMA EvictUpdates ==
  ASSUME UpdatesInv, NEW q \in DOMAIN ids, Evict(q)
  PROVE  UpdatesInv'
<1>0. TreesOK /\ PlacesOK /\ RacedOK
  BY DEF UpdatesInv
<1>1. /\ DOMAIN mem' = DOMAIN mem \ {q} /\ \A p \in DOMAIN mem' : mem'[p] = mem[p]
      /\ UNCHANGED <<asked, index, log, committing, merging, sync, raced, stale, lost>>
  BY DEF Evict, Without
<1>2. TreesOK' /\ RacedOK'
  BY <1>0, <1>1 DEF TreesOK, RacedOK, asked
<1>3. ASSUME NEW p \in DOMAIN ids \ (raced \cup lost)' PROVE PlacesOf(p)'
  <2>1. PlacesOf(p) /\ Blurred(p)' = Blurred(p) /\ Committed(p)' = Committed(p) /\ Reloaded(p)' = Reloaded(p)
    BY <1>0, <1>1, <1>3, SameTrees DEF PlacesOK, Reloaded
  <2> QED
    BY <1>1, <2>1 DEF PlacesOf
<1> QED
  BY <1>1, <1>2, <1>3, TreeSteps

\* A tree that has what was committed: the replay of the log changes nothing.
LEMMA ReplayCommitted ==
  ASSUME NEW M, NEW C, NEW rs, NEW old, Same(M, Recovered(rs, old), C), NEW T, Same(M, T, C)
  PROVE  Same(M, Recovered(rs, T), C)
<1> SUFFICES ASSUME NEW x, x \notin M PROVE x \in Recovered(rs, T) <=> x \in C
  BY DEF Same
<1>1. (x \in Recovered(rs, old) <=> x \in C) /\ (x \in T <=> x \in C)
  BY DEF Same
<1>2. x \in Recovered(rs, T) <=> x \in Recovered(rs, old)
  BY <1>1, RecoveredTwice
<1> QED
  BY <1>1, <1>2

\* sync_to_persistent
LEMMA SyncMemoryUpdates ==
  ASSUME UpdatesInv, SyncMemory
  PROVE  UpdatesInv'
<1>0. TreesOK /\ PlacesOK /\ RacedOK
  BY DEF UpdatesInv
<1>1. /\ sync = "idle" /\ sync' = "written"
      /\ DOMAIN index' = DOMAIN index \cup DOMAIN mem
      /\ \A p \in DOMAIN index' : index'[p] = IF p \in DOMAIN mem THEN mem[p] ELSE index[p]
      /\ raced' = raced \cup DOMAIN committing
      /\ UNCHANGED <<asked, log, mem, committing, merging, stale, lost>>
  BY DEF SyncMemory
<1>2. TreesOK' /\ RacedOK'
  BY <1>0, <1>1 DEF TreesOK, RacedOK, asked
<1>3. ASSUME NEW p \in DOMAIN ids \ (raced \cup lost)' PROVE PlacesOf(p)'
  <2>1. /\ PlacesOf(p) /\ p \notin DOMAIN committing
        /\ Blurred(p)' = Blurred(p) /\ Committed(p)' = Committed(p)
    BY <1>0, <1>1, <1>3, SameTrees DEF PlacesOK
  <2>2. CASE p \in DOMAIN mem
    <3>1. At(index', p) = mem[p] /\ Same(Blurred(p), mem[p], Committed(p))
      BY <1>1, <2>1, <2>2 DEF PlacesOf, At
    <3>2. p \notin stale => Same(Blurred(p), Reloaded(p)', Committed(p))
      BY <1>1, <2>1, <3>1, ReplayCommitted DEF PlacesOf, Reloaded
    <3> QED
      BY <1>1, <2>1, <3>1, <3>2 DEF PlacesOf
  <2>3. CASE p \notin DOMAIN mem
    <3>1. At(index', p) = At(index, p)
      BY <1>1, <2>3 DEF At
    <3>2. Reloaded(p)' = Reloaded(p)
      BY <1>1, <3>1 DEF Reloaded
    <3> QED
      BY <1>1, <2>1, <2>3, <3>2 DEF PlacesOf
  <2> QED
    BY <2>2, <2>3
<1> QED
  BY <1>1, <1>2, <1>3, TreeSteps

LEMMA RecoveredOne ==
  ASSUME NEW r, NEW T
  PROVE  Recovered(<<r>>, T) = Merged(T, r)
<1>1. DOMAIN <<r>> = {1} /\ <<r>>[1] = r
  OBVIOUS
<1>2. ASSUME NEW x PROVE x \in Recovered(<<r>>, T) <=> x \in Merged(T, r)
  BY <1>1, RecoveredMember DEF Merged
<1> QED
  BY <1>2

\* compact_logs: what it drops is in the index, or the predicate becomes stale.
LEMMA SyncCompactUpdates ==
  ASSUME UpdatesInv, SyncCompact
  PROVE  UpdatesInv'
<1>0. TreesOK /\ PlacesOK /\ RacedOK
  BY DEF UpdatesInv
<1>1. /\ sync = "written" /\ sync' = "compacted"
      /\ DOMAIN log' = DOMAIN log
      /\ \A p \in DOMAIN log : log'[p] = IF log[p] = << >> THEN << >> ELSE <<Compacted(log[p])>>
      /\ stale' = stale \cup {p \in DOMAIN log \ DOMAIN mem : Drops(log[p])}
      /\ UNCHANGED <<asked, index, mem, committing, merging, raced, lost>>
  BY DEF SyncCompact, InLog
<1>2. \A p \in DOMAIN log' : log'[p] \in Seq(UpdateRecord)
  <2>1. << >> \in Seq(UpdateRecord)
    OBVIOUS
  <2>2. ASSUME NEW p \in DOMAIN log, log[p] # << >> PROVE <<Compacted(log[p])>> \in Seq(UpdateRecord)
    <3>1. Compacted(log[p]) \in UpdateRecord
      BY <1>0, <2>2, CompactedType DEF TreesOK
    <3> QED
      BY <3>1
  <2>3. ASSUME NEW p \in DOMAIN log PROVE log'[p] \in Seq(UpdateRecord)
    <3>1. CASE log[p] = << >>
      BY <1>1, <2>1, <3>1
    <3>2. CASE log[p] # << >>
      <4>1. log'[p] = <<Compacted(log[p])>>
        BY <1>1, <3>2
      <4> QED
        BY <2>2, <3>2, <4>1
    <3> QED
      BY <3>1, <3>2
  <2> QED
    BY <1>1, <2>3
<1>3. TreesOK' /\ RacedOK'
  BY <1>0, <1>1, <1>2 DEF TreesOK, RacedOK, asked
<1>4. ASSUME NEW p \in DOMAIN ids \ (raced \cup lost)' PROVE PlacesOf(p)'
  <2>1. PlacesOf(p) /\ Blurred(p)' = Blurred(p) /\ Committed(p)' = Committed(p)
    BY <1>0, <1>1, <1>4, SameTrees DEF PlacesOK
  <2>2. ASSUME p \notin stale' PROVE Same(Blurred(p), Reloaded(p)', Committed(p))
    <3>0. Same(Blurred(p), Reloaded(p), Committed(p))
      BY <1>1, <2>1, <2>2 DEF PlacesOf
    <3>1. CASE p \notin DOMAIN log \/ log[p] = << >>
      <4>1. LogOf(log, p)' = LogOf(log, p)
        BY <1>1, <3>1 DEF LogOf
      <4> QED
        BY <1>1, <3>0, <4>1 DEF Reloaded
    <3>2. CASE p \in DOMAIN log /\ log[p] # << >>
      <4> DEFINE rs == log[p]
                 T == At(index, p)
      <4>1. Reloaded(p)' = Merged(T, Compacted(rs)) /\ Reloaded(p) = Recovered(rs, T)
        BY <1>1, <3>2, RecoveredOne DEF Reloaded, LogOf
      <4>2. rs \in Seq(UpdateRecord) /\ rs # << >>
        BY <1>0, <3>2 DEF TreesOK
      <4>3. p \in DOMAIN mem => Same(Blurred(p), T, Committed(p))
        BY <1>1, <2>1, <3>2 DEF PlacesOf
      <4>4. p \notin DOMAIN mem => ~ Drops(rs)
        BY <1>1, <2>2, <3>2
      <4> HIDE DEF rs, T
      <4>5. ASSUME NEW x, x \notin Blurred(p) PROVE x \in Merged(T, Compacted(rs)) <=> x \in Committed(p)
        <5>1. x \in Recovered(rs, T) <=> x \in Committed(p)
          BY <3>0, <4>1, <4>5 DEF Same
        <5>2. CASE p \in DOMAIN mem
          <6>1. x \in T <=> x \in Committed(p)
            BY <4>3, <4>5, <5>2 DEF Same
          <6> QED
            BY <4>2, <5>1, <6>1, CompactedAbsorbed
        <5>3. CASE p \notin DOMAIN mem
          BY <4>2, <4>4, <5>1, <5>3, CompactedMeans
        <5> QED
          BY <5>2, <5>3
      <4> QED
        BY <4>1, <4>5 DEF Same
    <3> QED
      BY <3>1, <3>2
  <2> QED
    BY <1>1, <2>1, <2>2 DEF PlacesOf
<1> QED
  BY <1>1, <1>3, <1>4, TreeSteps

LEMMA SyncThrowsUpdates ==
  ASSUME UpdatesInv, SyncThrows
  PROVE  UpdatesInv'
<1>0. TreesOK /\ PlacesOK /\ RacedOK
  BY DEF UpdatesInv
<1>1. /\ sync = "written" /\ sync' = "failed"
      /\ UNCHANGED <<asked, index, log, mem, committing, merging, raced, stale, lost>>
  BY DEF SyncThrows
<1>2. TreesOK' /\ RacedOK'
  BY <1>0, <1>1 DEF TreesOK, RacedOK, asked
<1>3. ASSUME NEW p \in DOMAIN ids \ (raced \cup lost)' PROVE PlacesOf(p)'
  <2>1. PlacesOf(p) /\ Blurred(p)' = Blurred(p) /\ Committed(p)' = Committed(p) /\ Reloaded(p)' = Reloaded(p)
    BY <1>0, <1>1, <1>3, SameTrees DEF PlacesOK, Reloaded
  <2> QED
    BY <1>1, <2>1 DEF PlacesOf
<1> QED
  BY <1>1, <1>2, <1>3, TreeSteps

\* sync_logs_to_indexes: afterwards the index has everything without the log.
LEMMA SyncLogUpdates ==
  ASSUME UpdatesInv, SyncLog
  PROVE  UpdatesInv'
<1> DEFINE others == DOMAIN log \ DOMAIN mem
<1>0. TreesOK /\ PlacesOK /\ RacedOK
  BY DEF UpdatesInv
<1>1. /\ sync = "compacted" /\ sync' = "fetched"
      /\ UNCHANGED <<asked, log, committing, merging, raced, stale>>
  BY DEF SyncLog
<1>2. PICK S \in Strays(others) : \E g \in [(others \cap stale) \cup S -> Garbled] :
        /\ index' = IF others = {} THEN index
                    ELSE [p \in DOMAIN index \cup DOMAIN Fetched(others, S, g) |->
                            IF p \in DOMAIN Fetched(others, S, g) THEN Fetched(others, S, g)[p] ELSE index[p]]
        /\ mem' = Without(Fetched(others, S, g), others \ S)
        /\ lost' = lost \cup DOMAIN g
  BY DEF SyncLog, InLog
<1>3. PICK g \in [(others \cap stale) \cup S -> Garbled] :
        /\ index' = IF others = {} THEN index
                    ELSE [p \in DOMAIN index \cup DOMAIN Fetched(others, S, g) |->
                            IF p \in DOMAIN Fetched(others, S, g) THEN Fetched(others, S, g)[p] ELSE index[p]]
        /\ mem' = Without(Fetched(others, S, g), others \ S)
        /\ lost' = lost \cup DOMAIN g
  BY <1>2
<1> DEFINE all == Fetched(others, S, g)
<1>4. /\ DOMAIN all = DOMAIN mem \cup others \cup S
      /\ S \subseteq DOMAIN log /\ DOMAIN g = (others \cap stale) \cup S
      /\ \A p \in DOMAIN all \ DOMAIN g : all[p] = Tree(p)
  BY DEF Fetched, Strays, InLog
<1>5. /\ index' = IF others = {} THEN index
                  ELSE [p \in DOMAIN index \cup DOMAIN all |-> IF p \in DOMAIN all THEN all[p] ELSE index[p]]
      /\ DOMAIN mem' = DOMAIN all \ (others \ S) /\ \A p \in DOMAIN mem' : mem'[p] = all[p]
      /\ lost' = lost \cup DOMAIN g
  BY <1>3 DEF Without
<1> HIDE DEF all
<1>6. TreesOK' /\ RacedOK'
  BY <1>0, <1>1, <1>4, <1>5 DEF TreesOK, RacedOK, asked
<1>7. ASSUME NEW p \in DOMAIN ids \ (raced \cup lost)' PROVE PlacesOf(p)'
  <2>1. /\ PlacesOf(p) /\ p \notin DOMAIN committing /\ p \notin DOMAIN g
        /\ Blurred(p)' = Blurred(p) /\ Committed(p)' = Committed(p)
    BY <1>0, <1>1, <1>5, <1>7, SameTrees DEF PlacesOK, RacedOK
  <2>2. p \notin DOMAIN log => p \notin stale /\ Same(Blurred(p), At(index, p), Committed(p))
    <3>1. p \notin DOMAIN log => p \notin stale /\ Reloaded(p) = At(index, p)
      BY <1>0, RecoveredEmpty DEF TreesOK, Reloaded, LogOf
    <3> QED
      BY <2>1, <3>1 DEF PlacesOf
  <2>3. Same(Blurred(p), At(index', p), Committed(p))
    <3>1. CASE p \in DOMAIN mem
      <4>1. Same(Blurred(p), mem[p], Committed(p))
        BY <2>1, <3>1 DEF PlacesOf
      <4>2. CASE others = {}
        BY <1>1, <1>5, <2>1, <2>2, <3>1, <4>2 DEF PlacesOf
      <4>3. CASE others # {}
        <5>1. At(index', p) = mem[p]
          BY <1>4, <1>5, <2>1, <3>1, <4>3 DEF At, Tree
        <5> QED
          BY <4>1, <5>1
      <4> QED
        BY <4>2, <4>3
    <3>2. CASE p \in others
      <4>1. p \notin stale /\ p \in DOMAIN all /\ all[p] = Reloaded(p)
        BY <1>4, <2>1, <3>2 DEF Tree
      <4>2. At(index', p) = Reloaded(p)
        BY <1>5, <3>2, <4>1 DEF At
      <4> QED
        BY <2>1, <4>1, <4>2 DEF PlacesOf
    <3>3. CASE p \notin DOMAIN mem /\ p \notin DOMAIN log
      <4>1. p \notin DOMAIN all
        BY <1>4, <3>3
      <4>2. At(index', p) = At(index, p)
        BY <1>5, <4>1 DEF At
      <4> QED
        BY <2>2, <3>3, <4>2
    <3> QED
      BY <3>1, <3>2, <3>3
  <2>4. p \notin stale => Same(Blurred(p), Reloaded(p)', Committed(p))
    BY <1>1, <2>1, <2>3, ReplayCommitted DEF PlacesOf, Reloaded
  <2>5. p \in DOMAIN mem' => p \in DOMAIN mem /\ mem'[p] = mem[p]
    BY <1>4, <1>5, <2>1 DEF Tree
  <2> QED
    BY <1>1, <2>1, <2>3, <2>4, <2>5 DEF PlacesOf
<1> QED
  BY <1>1, <1>6, <1>7, TreeSteps

\* clean_append_log
LEMMA SyncCleanUpdates ==
  ASSUME UpdatesInv, SyncClean
  PROVE  UpdatesInv'
<1>0. TreesOK /\ PlacesOK /\ RacedOK
  BY DEF UpdatesInv
<1>1. /\ sync = "fetched" /\ sync' = "idle" /\ log' = << >> /\ stale' = {} /\ DOMAIN log' = {}
      /\ UNCHANGED <<asked, index, mem, committing, merging, raced, lost>>
  BY DEF SyncClean
<1>2. TreesOK' /\ RacedOK'
  BY <1>0, <1>1 DEF TreesOK, RacedOK, asked
<1>3. ASSUME NEW p \in DOMAIN ids \ (raced \cup lost)' PROVE PlacesOf(p)'
  <2>1. PlacesOf(p) /\ Blurred(p)' = Blurred(p) /\ Committed(p)' = Committed(p)
    BY <1>0, <1>1, <1>3, SameTrees DEF PlacesOK
  <2>2. Reloaded(p)' = At(index, p)
    BY <1>1, RecoveredEmpty DEF Reloaded, LogOf
  <2> QED
    BY <1>1, <2>1, <2>2 DEF PlacesOf
<1> QED
  BY <1>1, <1>2, <1>3, TreeSteps

\* Every commit, load, eviction and step of a sync keeps each predicate in one of
\* the places that PlacesOK allows: its tree, the index with the log, or both.
THEOREM UpdatesInvariant == Spec => []UpdatesInv
<1>1. Init => UpdatesInv
  BY InitUpdates
<1>2. UpdatesInv /\ [Next]_vars => UpdatesInv'
  <2> SUFFICES ASSUME UpdatesInv, [Next]_vars PROVE UpdatesInv'
    OBVIOUS
  <2>1. CASE UNCHANGED vars
    <3>1. UNCHANGED <<asked, index, log, mem, committing, merging, sync, raced, stale, lost>>
      BY <2>1 DEF vars, asked
    <3>2. TreesOK' /\ RacedOK'
      BY <3>1 DEF UpdatesInv, TreesOK, RacedOK, asked
    <3>3. ASSUME NEW p \in DOMAIN ids \ (raced \cup lost)' PROVE PlacesOf(p)'
      <4>1. PlacesOf(p) /\ Blurred(p)' = Blurred(p) /\ Committed(p)' = Committed(p) /\ Reloaded(p)' = Reloaded(p)
        BY <3>1, <3>3, SameTrees DEF UpdatesInv, PlacesOK, Reloaded
      <4> QED
        BY <3>1, <4>1 DEF PlacesOf
    <3> QED
      BY <3>1, <3>2, <3>3, TreeSteps
  <2>2. ASSUME NEW u \in Sessions, NEW b \in Batches, UpdateBatch(u, b) PROVE UpdatesInv'
    BY <2>2, BatchUpdates
  <2>3. ASSUME NEW u \in Sessions, CommitLog(u) PROVE UpdatesInv'
    BY <2>3, CommitLogUpdates
  <2>4. ASSUME NEW p \in DOMAIN ids, MergeSkip(p) \/ MergeCheck(p) PROVE UpdatesInv'
    BY <2>4, MergeSkipUpdates, MergeCheckUpdates
  <2>5. CASE MergeTree
    BY <2>5, MergeTreeUpdates
  <2>6. ASSUME NEW p \in DOMAIN ids, Load(p) PROVE UpdatesInv'
    BY <2>6, LoadUpdates
  <2>7. ASSUME NEW p \in DOMAIN ids, Evict(p) PROVE UpdatesInv'
    BY <2>7, EvictUpdates
  <2>8. CASE SyncMemory
    BY <2>8, SyncMemoryUpdates
  <2>9. CASE SyncCompact
    BY <2>9, SyncCompactUpdates
  <2>10. CASE SyncThrows
    BY <2>10, SyncThrowsUpdates
  <2>11. CASE SyncLog
    BY <2>11, SyncLogUpdates
  <2>12. CASE SyncClean
    BY <2>12, SyncCleanUpdates
  <2> QED
    BY <2>1, <2>2, <2>3, <2>4, <2>5, <2>6, <2>7, <2>8, <2>9, <2>10, <2>11, <2>12 DEF Next
<1> QED
  BY <1>1, <1>2, PTL DEF Spec

\* A tree with the committed points stands for the committed triples.
LEMMA SameTriples ==
  ASSUME UpdatesInv, NEW p \in DOMAIN ids, NEW T, Same(Blurred(p), T, Committed(p))
  PROVE  Triples(ids, p, T) \ misnamed = {t \in truth : t[2] = ids[p]} \ misnamed
<1>1. Triples(ids, p, Committed(p)) = {t \in truth : t[2] = ids[p]}
  BY WantedTriples DEF UpdatesInv, TruthOK, Committed
<1>2. ASSUME NEW t, t \notin misnamed
      PROVE  t \in Triples(ids, p, T) <=> t \in Triples(ids, p, Committed(p))
  <2>1. ASSUME NEW x, t = <<ids[x[1]], ids[p], ids[x[2]]>> PROVE x \notin Blurred(p)
    BY <1>2, <2>1 DEF Blurred, Wanted
  <2> QED
    BY <2>1 DEF Triples, Same
<1> QED
  BY <1>1, <1>2

\* A restart that has only the index file and the log finds every committed
\* triple and nothing else, at every step of a commit and of a sync (log before
\* merge_update; the index before clean_append_log), for every predicate whose
\* records the log kept and that no commit, sync or eviction met half way.
THEOREM CommittedIsDurable == Spec => []CommittedDurable
<1>1. UpdatesInv => CommittedDurable
  <2> SUFFICES ASSUME UpdatesInv, NEW p \in DOMAIN ids \ (raced \cup lost \cup stale)
               PROVE  Triples(ids, p, Reloaded(p)) \ misnamed = {t \in truth : t[2] = ids[p]} \ misnamed
    BY DEF CommittedDurable
  <2>1. Same(Blurred(p), Reloaded(p), Committed(p))
    BY DEF UpdatesInv, PlacesOK, PlacesOf
  <2> QED
    BY <2>1, SameTriples
<1> QED
  BY <1>1, UpdatesInvariant, PTL

\* What a request sees of a predicate is what the committed sessions asked for,
\* wherever its tree is (UpdaterSession::log_updates, merge_update, fetch_k2tree),
\* with the same exceptions; a tree that stays in memory needs no log.
THEOREM CommittedIsVisible == Spec => []CommittedVisible
<1>1. UpdatesInv => CommittedVisible
  <2> SUFFICES ASSUME UpdatesInv, NEW p \in DOMAIN ids \ (raced \cup lost \cup DOMAIN committing),
                      p \in DOMAIN mem \/ p \notin stale
               PROVE  Triples(ids, p, Tree(p)) \ misnamed = {t \in truth : t[2] = ids[p]} \ misnamed
    BY DEF CommittedVisible
  <2>1. Same(Blurred(p), Tree(p), Committed(p))
    BY DEF UpdatesInv, PlacesOK, PlacesOf, Tree
  <2> QED
    BY <2>1, SameTriples
<1> QED
  BY <1>1, UpdatesInvariant, PTL
=============================================================================
