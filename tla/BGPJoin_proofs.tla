-------------------------- MODULE BGPJoin_proofs --------------------------
(***************************************************************************)
(* The BGP engine implements QueryAnswer, for every query and every        *)
(* content of the trees, all batch sizes and all times of the timeout: the *)
(* backtracking of BGPIterator finds every solution once.                  *)
(***************************************************************************)
EXTENDS BGPJoin, FiniteSetTheorems, FunctionTheorems, WellFoundedInduction, TLAPS

-----------------------------------------------------------------------------
(* Rows and what is left to search. *)

\* What a row has at an end of a pattern, and the point it makes of pattern i.
RowEnd(term, r) == IF IsVar(term) THEN r[HeaderPos(term[2])] ELSE CacheId(term)
PointAt(i, r) == <<RowEnd(Patterns[i].s, r), RowEnd(Patterns[i].o, r)>>

\* The rows the iterator has to find.
Width == Cardinality(Variables)
Rows ==
  IF AllPredicatesHaveTrees
  THEN {r \in [1..Width -> CacheIds] : \A i \in Op : PointAt(i, r) \in Tree(i)}
  ELSE {}
Found(S) == {Permuted(r) : r \in S}

\* The variables of the patterns before i, and rows that have the same values
\* for them.
SeenVars(i) == {v \in Variables : FirstAt(v) <= 2 * (i - 1)}
Agree(r, t, i) == \A v \in SeenVars(i) : r[HeaderPos(v)] = t[HeaderPos(v)]

\* TwoVarJoinOne: the end whose variable has a value, and the value.
SeenEnd(i) == IF Seen(i, Patterns[i].s) THEN 1 ELSE 2
Band(i, row) == RowEnd(IF SeenEnd(i) = 1 THEN Patterns[i].s ELSE Patterns[i].o, row)

\* The points an operation still gives for a row: those of its scanner, of the
\* scanner it will make, or the one point it tests.
Scans(i) == OpKind(i) \in {"TwoVarCProduct", "OneVarCP"}
Joins(i) == OpKind(i) = "TwoVarJoinOne"
LeftOf(i, sc, row) ==
  IF Scans(i) THEN sc.left
  ELSE IF Joins(i) THEN IF sc.band = <<Band(i, row)>> THEN sc.left
                        ELSE BandScanner(i, SeenEnd(i), Band(i, row))
  ELSE {PointAt(i, row)} \cap Tree(i)
Left(i, sc, fin, row) == IF fin[i] THEN {} ELSE LeftOf(i, sc[i], row)

\* Operation j still leads to row r, and the rows that the first k lead to.
Leads(j, r, sc, fin, row) == Agree(r, row, j) /\ PointAt(j, r) \in Left(j, sc, fin, row)
TodoOf(k, sc, fin, row) == {r \in Rows : \E j \in 1..k : Leads(j, r, sc, fin, row)}
Todo == TodoOf(s_i, scan, finished_ops, tmp_holder)

\* The row that was found and is not sent.
Searching == pc \in {"ops_until_last", "ops", "last"}
Pending ==
  IF Searching THEN IF caller = "streamer" THEN {result} ELSE {}
  ELSE IF next_available THEN {next_value} ELSE {}

\* A scanner holds points of the scanner it was made as.
ScanOK(i, sc, row) ==
  /\ Scans(i) => sc.left \subseteq BuildScanner(i)
  /\ Joins(i) /\ sc.band = <<Band(i, row)>> =>
       sc.left \subseteq BandScanner(i, SeenEnd(i), Band(i, row))

IsRow(r) == r = [k \in 1..Width |-> r[k]]

ControlInv ==
  /\ query \in Queries /\ trees \in TreeMaps
  /\ pc \in {"request", "next_concrete", "ops_until_last", "ops", "last", "batch", "client", "done"}
  /\ s_i \in 0..LastOp /\ finished_ops \in [Op -> BOOLEAN]
  /\ caller \in {"constructor", "streamer"}
  /\ next_available \in BOOLEAN /\ repeated \in BOOLEAN
  /\ is_last \in BOOLEAN /\ time_has_passed \in BOOLEAN
  /\ is_last => pc = "done"
  /\ pc = "done" => ~next_available
  /\ pc = "client" => next_available
  /\ pc = "next_concrete" => (next_available <=> caller = "streamer")
  /\ Searching => ~next_available

\* Before the first request, and when a predicate has no tree.
IdleInv ==
  /\ pc = "request" =>
       /\ caller = "constructor" /\ s_i = 1 /\ finished_ops = [i \in Op |-> FALSE]
       /\ IsRow(tmp_holder)
  /\ pc = "request" \/ ~AllPredicatesHaveTrees =>
       /\ pc \in {"request", "batch", "done"}
       /\ sent = {} /\ ~repeated /\ ~next_available /\ ~time_has_passed

RowInv == Pending \subseteq Rows /\ sent \subseteq Found(Rows)

Running == ~time_has_passed /\ AllPredicatesHaveTrees /\ pc # "request"

\* The first k operations are at work: each one before k has given the point
\* of the row and will not give it again. Those after k are new.
Search(k, sc, fin, row) ==
  /\ IsRow(row) /\ DOMAIN sc = Op
  /\ \A j \in (k + 1)..LastOp : sc[j] = NewScan(j) /\ fin[j] = FALSE
  /\ \A j \in 1..k : ScanOK(j, sc[j], row)
  /\ \A j \in 1..(k - 1) : PointAt(j, row) \in Tree(j) \ Left(j, sc, fin, row)

SearchInv ==
  /\ Search(s_i, scan, finished_ops, tmp_holder)
  /\ pc = "last" => s_i \in {0, LastOp}
  /\ pc \in {"batch", "client", "done"} /\ ~next_available => s_i = 0

\* Every row was sent, is pending, or is still to be found: one of the three.
TodoInv ==
  /\ Pending \cap Todo = {}
  /\ sent = Found(Rows \ (Todo \cup Pending))
  /\ ~repeated

JoinInv == ControlInv /\ IdleInv /\ RowInv /\ (Running => SearchInv /\ TodoInv)
-----------------------------------------------------------------------------
(* Patterns, terms and variables.                                          *)

\* A set of natural numbers that is not empty has a least element.
LEMMA LeastExists ==
  ASSUME NEW T, T \subseteq Nat, T # {}
  PROVE  Min(T) \in T /\ \A y \in T : Min(T) <= y
<1> DEFINE R == OpToRel(<, Nat)
<1>1. \E x \in T : \A y \in T : <<y, x>> \notin R
  BY NatLessThanWellFounded, WFMin, Zenon
<1>2. \A x, y \in Nat : y < x => <<y, x>> \in R
  BY DEF OpToRel
<1> HIDE DEF R
<1>3. PICK x \in T : \A y \in T : <<y, x>> \notin R
  BY <1>1
<1>4. ASSUME NEW y \in T PROVE x <= y
  <2>1. x \in Nat /\ y \in Nat
    OBVIOUS
  <2>2. ~ (y < x)
    BY <1>2, <1>3, <2>1, Zenon
  <2> QED
    BY <2>1, <2>2
<1> QED
  BY <1>4 DEF Min

\* The patterns are a sequence, and TermAt goes through their ends.
LEMMA PatternEnds ==
  ASSUME query \in Queries
  PROVE  /\ LastOp \in Nat \ {0} /\ Op = 1..LastOp
         /\ \A i \in Op : /\ TermAt(2 * i - 1) = Patterns[i].s /\ TermAt(2 * i) = Patterns[i].o
                          /\ 2 * i - 1 \in 1..(2 * LastOp) /\ 2 * i \in 1..(2 * LastOp)
         /\ \A k \in 1..(2 * LastOp) : \E i \in Op : k = 2 * i - 1 \/ k = 2 * i
<1>1. WellFormed(query)
  BY JoinAssumption
<1>2. Patterns \in Seq(Range(Patterns)) /\ Patterns # <<>>
  BY <1>1 DEF WellFormed, Patterns
<1>3. LastOp \in Nat \ {0} /\ Op = 1..LastOp
  BY <1>2 DEF LastOp, Op
<1>4. ASSUME NEW i \in Op
      PROVE  /\ TermAt(2 * i - 1) = Patterns[i].s /\ TermAt(2 * i) = Patterns[i].o
             /\ 2 * i - 1 \in 1..(2 * LastOp) /\ 2 * i \in 1..(2 * LastOp)
  <2>1. i \in Nat /\ i >= 1 /\ i <= LastOp
    BY <1>3
  <2>2. /\ (2 * i - 1) % 2 = 1 /\ ((2 * i - 1) + 1) \div 2 = i
        /\ (2 * i) % 2 = 0 /\ (2 * i) \div 2 = i
    BY <2>1
  <2>3. 2 * i - 1 \in 1..(2 * LastOp) /\ 2 * i \in 1..(2 * LastOp)
    BY <1>3, <2>1
  <2> QED
    BY <2>2, <2>3 DEF TermAt
<1>5. ASSUME NEW k \in 1..(2 * LastOp)
      PROVE  \E i \in Op : k = 2 * i - 1 \/ k = 2 * i
  <2>1. k \in Nat /\ k >= 1 /\ k <= 2 * LastOp
    BY <1>3
  <2>2. CASE k % 2 = 0
    <3>1. k \div 2 \in 1..LastOp /\ k = 2 * (k \div 2)
      BY <1>3, <2>1, <2>2
    <3> QED
      BY <1>3, <3>1
  <2>3. CASE k % 2 = 1
    <3>1. (k + 1) \div 2 \in 1..LastOp /\ k = 2 * ((k + 1) \div 2) - 1
      BY <1>3, <2>1, <2>3
    <3> QED
      BY <1>3, <3>1
  <2> QED
    BY <2>1, <2>2, <2>3
<1> QED
  BY <1>3, <1>4, <1>5

\* Terms are pairs.
LEMMA TermPairs ==
  ASSUME query \in Queries, NEW i \in Op
  PROVE  /\ Patterns[i].s = <<Patterns[i].s[1], Patterns[i].s[2]>>
         /\ Patterns[i].o = <<Patterns[i].o[1], Patterns[i].o[2]>>
<1>1. WellFormed(query)
  BY JoinAssumption
<1>2. Patterns[i].s \in TermsOf(query) /\ Patterns[i].o \in TermsOf(query)
  BY DEF TermsOf, Op, Patterns
<1> QED
  BY <1>1, <1>2 DEF WellFormed

\* A variable has a first occurrence.
LEMMA FirstOccurrence ==
  ASSUME query \in Queries, NEW v \in Variables
  PROVE  /\ FirstAt(v) \in 1..(2 * LastOp) /\ TermAt(FirstAt(v)) = <<"var", v>>
         /\ \A k \in 1..(2 * LastOp) : TermAt(k) = <<"var", v>> => FirstAt(v) <= k
<1> DEFINE T == {k \in 1..(2 * LastOp) : TermAt(k) = <<"var", v>>}
<1>1. PICK k \in 1..(2 * LastOp) : IsVar(TermAt(k)) /\ v = TermAt(k)[2]
  BY DEF Variables
<1>2. TermAt(k) = <<TermAt(k)[1], TermAt(k)[2]>>
  <2>1. PICK i \in Op : k = 2 * i - 1 \/ k = 2 * i
    BY PatternEnds
  <2>2. TermAt(k) = Patterns[i].s \/ TermAt(k) = Patterns[i].o
    BY <2>1, PatternEnds
  <2> QED
    BY <2>2, TermPairs
<1>3. TermAt(k) = <<"var", v>>
  BY <1>1, <1>2 DEF IsVar
<1>4. k \in T /\ T \subseteq Nat
  BY <1>3
<1>5. FirstAt(v) = Min(T)
  BY DEF FirstAt
<1> HIDE DEF T
<1>6. FirstAt(v) \in T /\ \A y \in T : FirstAt(v) <= y
  BY <1>4, <1>5, LeastExists, Zenon
<1> QED
  BY <1>6 DEF T

\* Variables first occur at different places.
LEMMA FirstInjective ==
  ASSUME query \in Queries, NEW u \in Variables, NEW v \in Variables, FirstAt(u) = FirstAt(v)
  PROVE  u = v
BY FirstOccurrence

\* A variable of a pattern.
LEMMA EndVariable ==
  ASSUME query \in Queries, NEW i \in Op
  PROVE  /\ IsVar(Patterns[i].s) => /\ Patterns[i].s[2] \in Variables
                                    /\ FirstAt(Patterns[i].s[2]) <= 2 * i - 1
         /\ IsVar(Patterns[i].o) => /\ Patterns[i].o[2] \in Variables
                                    /\ FirstAt(Patterns[i].o[2]) <= 2 * i
<1>1. ASSUME NEW k \in 1..(2 * LastOp), IsVar(TermAt(k)), TermAt(k) = <<TermAt(k)[1], TermAt(k)[2]>>
      PROVE  TermAt(k)[2] \in Variables /\ FirstAt(TermAt(k)[2]) <= k
  <2>1. TermAt(k)[2] \in Variables
    BY <1>1 DEF Variables
  <2>2. TermAt(k) = <<"var", TermAt(k)[2]>>
    BY <1>1 DEF IsVar
  <2> QED
    BY <1>1, <2>1, <2>2, FirstOccurrence
<1> QED
  BY <1>1, PatternEnds, TermPairs

\* Before the first pattern no variable is seen, after the last one all are,
\* and a pattern adds its own.
LEMMA SeenVarsGrow ==
  ASSUME query \in Queries
  PROVE  /\ SeenVars(1) = {} /\ SeenVars(LastOp + 1) = Variables
         /\ \A i \in Op : SeenVars(i) \subseteq SeenVars(i + 1)
         /\ \A i \in Op : \A v \in SeenVars(i + 1) \ SeenVars(i) :
              Patterns[i].s = <<"var", v>> \/ Patterns[i].o = <<"var", v>>
         /\ \A i \in Op : IsVar(Patterns[i].s) => Patterns[i].s[2] \in SeenVars(i + 1)
         /\ \A i \in Op : IsVar(Patterns[i].o) => Patterns[i].o[2] \in SeenVars(i + 1)
<1>1. LastOp \in Nat \ {0} /\ Op = 1..LastOp
  BY PatternEnds
<1>2. \A v \in Variables : FirstAt(v) \in 1..(2 * LastOp)
  BY FirstOccurrence
<1>3. SeenVars(1) = {} /\ SeenVars(LastOp + 1) = Variables
  BY <1>1, <1>2 DEF SeenVars
<1>4. \A i \in Op : SeenVars(i) \subseteq SeenVars(i + 1)
  BY <1>1, <1>2 DEF SeenVars
<1>5. ASSUME NEW i \in Op, NEW v \in SeenVars(i + 1) \ SeenVars(i)
      PROVE  Patterns[i].s = <<"var", v>> \/ Patterns[i].o = <<"var", v>>
  <2>1. v \in Variables /\ FirstAt(v) \in Nat /\ FirstAt(v) <= 2 * ((i + 1) - 1) /\ ~(FirstAt(v) <= 2 * (i - 1))
    BY <1>2 DEF SeenVars
  <2>2. i \in Nat
    BY <1>1
  <2>3. FirstAt(v) = 2 * i - 1 \/ FirstAt(v) = 2 * i
    BY <2>1, <2>2
  <2>4. TermAt(FirstAt(v)) = <<"var", v>>
    BY <2>1, FirstOccurrence
  <2> QED
    BY <2>3, <2>4, PatternEnds
<1>6. ASSUME NEW i \in Op
      PROVE  /\ IsVar(Patterns[i].s) => Patterns[i].s[2] \in SeenVars(i + 1)
             /\ IsVar(Patterns[i].o) => Patterns[i].o[2] \in SeenVars(i + 1)
  <2>1. i \in Nat /\ 2 * ((i + 1) - 1) = 2 * i
    BY <1>1
  <2>2. \A v \in Variables : FirstAt(v) <= 2 * i - 1 => FirstAt(v) <= 2 * i
    BY <1>2, <2>1
  <2> QED
    BY <2>1, <2>2, EndVariable DEF SeenVars
<1> QED
  BY <1>3, <1>4, <1>5, <1>6

\* What an earlier pattern has is seen, at any distance.
LEMMA SeenVarsMonotone ==
  ASSUME query \in Queries, NEW i \in Nat, NEW j \in Nat, i <= j
  PROVE  SeenVars(i) \subseteq SeenVars(j)
<1>1. \A v \in Variables : FirstAt(v) \in 1..(2 * LastOp)
  BY FirstOccurrence
<1> QED
  BY <1>1 DEF SeenVars

\* A term of a pattern is seen when its variable is.
LEMMA SeenIsSeenVar ==
  ASSUME query \in Queries, NEW i \in Op
  PROVE  /\ Seen(i, Patterns[i].s) <=> IsVar(Patterns[i].s) /\ Patterns[i].s[2] \in SeenVars(i)
         /\ Seen(i, Patterns[i].o) <=> IsVar(Patterns[i].o) /\ Patterns[i].o[2] \in SeenVars(i)
BY EndVariable DEF Seen, SeenVars

\* The variables have the positions 1..Width, one each.
LEMMA Positions ==
  ASSUME query \in Queries
  PROVE  /\ IsFiniteSet(Variables) /\ Width \in Nat
         /\ \A v \in Variables : HeaderPos(v) \in 1..Width
         /\ \A u, v \in Variables : HeaderPos(u) = HeaderPos(v) => u = v
         /\ \A k \in 1..Width : \E v \in Variables : HeaderPos(v) = k
<1> DEFINE first == [v \in Variables |-> FirstAt(v)]
           UpTo(v) == {u \in Variables : FirstAt(u) <= FirstAt(v)}
           rank == [v \in Variables |-> HeaderPos(v)]
<1>1. LastOp \in Nat /\ 2 * LastOp \in Nat
  BY PatternEnds
<1>2. \A v \in Variables : FirstAt(v) \in 1..(2 * LastOp)
  BY FirstOccurrence
<1>3. IsFiniteSet(Variables)
  <2>1. first \in [Variables -> 1..(2 * LastOp)]
    BY <1>2
  <2>2. first \in Injection(Variables, 1..(2 * LastOp))
    BY <2>1, FirstInjective DEF Injection, IsInjective
  <2>3. IsFiniteSet(1..(2 * LastOp))
    BY <1>1, FS_Interval
  <2> HIDE DEF first
  <2> QED
    BY <2>2, <2>3, FS_Injection
<1>4. Width \in Nat
  BY <1>3, FS_CardinalityType DEF Width
<1>5. \A v \in Variables : /\ HeaderPos(v) = Cardinality(UpTo(v))
                           /\ UpTo(v) \in SUBSET Variables /\ v \in UpTo(v)
  BY <1>2 DEF HeaderPos
<1>6. \A u, v \in Variables : FirstAt(u) < FirstAt(v) =>
        UpTo(u) \in SUBSET UpTo(v) /\ v \in UpTo(v) /\ v \notin UpTo(u)
  BY <1>2
<1> HIDE DEF UpTo
<1>7. \A v \in Variables : IsFiniteSet(UpTo(v)) /\ HeaderPos(v) \in Nat
  BY <1>3, <1>5, FS_Subset, FS_CardinalityType
<1>8. ASSUME NEW v \in Variables PROVE HeaderPos(v) \in 1..Width
  <2>1. HeaderPos(v) <= Width
    BY <1>3, <1>5, FS_Subset DEF Width
  <2>2. HeaderPos(v) # 0
    BY <1>5, <1>7, FS_EmptySet
  <2> QED
    BY <1>4, <1>7, <2>1, <2>2
<1>9. ASSUME NEW u \in Variables, NEW v \in Variables, FirstAt(u) < FirstAt(v)
      PROVE  HeaderPos(u) # HeaderPos(v)
  BY <1>5, <1>6, <1>7, <1>9, FS_Subset
<1>10. ASSUME NEW u \in Variables, NEW v \in Variables, HeaderPos(u) = HeaderPos(v)
       PROVE  u = v
  <2>1. FirstAt(u) \in Nat /\ FirstAt(v) \in Nat
    BY <1>2
  <2>2. FirstAt(u) = FirstAt(v)
    BY <1>9, <1>10, <2>1
  <2> QED
    BY <2>2, FirstInjective
<1>11. rank \in Injection(Variables, 1..Width)
  BY <1>8, <1>10 DEF Injection, IsInjective
<1>12. IsFiniteSet(1..Width) /\ Cardinality(1..Width) = Width
  BY <1>4, FS_Interval
<1>13. rank \in Surjection(Variables, 1..Width)
  <2> HIDE DEF rank
  <2> QED
    BY <1>11, <1>12, FS_Injection DEF Width
<1>14. \A k \in 1..Width : \E v \in Variables : HeaderPos(v) = k
  BY <1>13 DEF Surjection
<1> QED
  BY <1>3, <1>4, <1>8, <1>10, <1>14
-----------------------------------------------------------------------------
(* The kinds of operations.                                                *)

\* create_bgp_op covers every pattern, and the kind tells what is known of the
\* two ends.
LEMMA Kinds ==
  ASSUME NEW i, NEW s, NEW o, s = Patterns[i].s, o = Patterns[i].o
  PROVE  /\ OpKind(i) = "TwoVarIntersection" <=> Seen(i, s) /\ Seen(i, o)
         /\ Joins(i) <=> IsVar(s) /\ IsVar(o) /\ Seen(i, s) # Seen(i, o)
         /\ OpKind(i) = "TwoVarCProduct" <=> IsVar(s) /\ IsVar(o) /\ ~Seen(i, s) /\ ~Seen(i, o)
         /\ OpKind(i) = "OneVarIntersect" <=> IsVar(s) # IsVar(o) /\ (Seen(i, s) \/ Seen(i, o))
         /\ OpKind(i) = "OneVarCP" <=> IsVar(s) # IsVar(o) /\ ~Seen(i, s) /\ ~Seen(i, o)
         /\ OpKind(i) = "TripleExistence" <=> ~IsVar(s) /\ ~IsVar(o)
<1> DEFINE a == Seen(i, s)
           b == Seen(i, o)
           x == IsVar(s)
           y == IsVar(o)
<1>1. (a => x) /\ (b => y)
  BY DEF Seen
<1>2. x \in BOOLEAN /\ y \in BOOLEAN /\ a \in BOOLEAN /\ b \in BOOLEAN
  BY DEF IsVar, Seen
<1>3. OpKind(i) = CASE x /\ y /\ a /\ b   -> "TwoVarIntersection"
          [] x /\ y /\ a # b     -> "TwoVarJoinOne"
          [] x /\ y /\ ~a /\ ~b -> "TwoVarCProduct"
          [] x # y /\ (a \/ b)   -> "OneVarIntersect"
          [] x # y /\ ~a /\ ~b   -> "OneVarCP"
          [] ~x /\ ~y            -> "TripleExistence"
  BY DEF OpKind
<1> HIDE DEF a, b, x, y
<1>4. /\ OpKind(i) = "TwoVarIntersection" <=> a /\ b
      /\ OpKind(i) = "TwoVarJoinOne" <=> x /\ y /\ a # b
      /\ OpKind(i) = "TwoVarCProduct" <=> x /\ y /\ ~a /\ ~b
      /\ OpKind(i) = "OneVarIntersect" <=> x # y /\ (a \/ b)
      /\ OpKind(i) = "OneVarCP" <=> x # y /\ ~a /\ ~b
      /\ OpKind(i) = "TripleExistence" <=> ~x /\ ~y
  BY <1>1, <1>2, <1>3
<1> QED
  BY <1>4 DEF a, b, x, y, Joins

\* TwoVarCProduct sets two different variables: LoopFree.
LEMMA ProductOfTwo ==
  ASSUME query \in Queries, NEW i \in Op, OpKind(i) = "TwoVarCProduct"
  PROVE  Patterns[i].s[2] # Patterns[i].o[2]
<1> SUFFICES ASSUME Patterns[i].s[2] = Patterns[i].o[2]
             PROVE  FALSE
  OBVIOUS
<1> DEFINE s == Patterns[i].s
<1>1. /\ IsVar(s) /\ IsVar(Patterns[i].o) /\ ~Seen(i, s)
  BY Kinds
<1>2. s = <<"var", s[2]>> /\ Patterns[i].o = s
  BY <1>1, TermPairs DEF IsVar
<1>3. \E j \in 1..(i - 1) : s \in {Patterns[j].s, Patterns[j].o}
  <2>1. LoopFree(query)
    BY JoinAssumption
  <2> QED
    BY <1>1, <1>2, <2>1 DEF LoopFree, Patterns, Op, IsVar
<1>4. PICK j \in 1..(i - 1) : s \in {Patterns[j].s, Patterns[j].o}
  BY <1>3
<1>5. LastOp \in Nat /\ Op = 1..LastOp
  BY PatternEnds
<1>6. j \in Op /\ j \in Nat /\ i \in Nat /\ j <= i - 1
  BY <1>5
<1>7. FirstAt(s[2]) <= 2 * j /\ FirstAt(s[2]) \in Nat
  <2>1. s[2] \in Variables
    BY <1>1, EndVariable
  <2>2. FirstAt(s[2]) \in Nat
    BY <2>1, FirstOccurrence
  <2>3. FirstAt(s[2]) <= 2 * j - 1 \/ FirstAt(s[2]) <= 2 * j
    BY <1>1, <1>4, <1>6, EndVariable
  <2> QED
    BY <1>6, <2>2, <2>3
<1>8. FirstAt(s[2]) <= 2 * (i - 1)
  BY <1>6, <1>7
<1> QED
  BY <1>1, <1>8 DEF Seen

-----------------------------------------------------------------------------
(* Rows.                                                                   *)

\* A row that gets a value for a variable.
LEMMA SetRow ==
  ASSUME query \in Queries, NEW row, IsRow(row), NEW term, IsVar(term), term[2] \in Variables, NEW value
  PROVE  /\ IsRow(Set(row, term, value))
         /\ Set(row, term, value)[HeaderPos(term[2])] = value
         /\ \A v \in Variables \ {term[2]} : Set(row, term, value)[HeaderPos(v)] = row[HeaderPos(v)]
<1>1. DOMAIN row = 1..Width /\ HeaderPos(term[2]) \in 1..Width
  BY Positions DEF IsRow
<1>2. \A v \in Variables \ {term[2]} : HeaderPos(v) \in 1..Width /\ HeaderPos(v) # HeaderPos(term[2])
  BY Positions
<1> QED
  BY <1>1, <1>2 DEF Set, IsRow

\* Rows with the same values for the variables of a term have the same end.
LEMMA SameEnd ==
  ASSUME NEW r, NEW t, NEW term, IsVar(term) => r[HeaderPos(term[2])] = t[HeaderPos(term[2])]
  PROVE  RowEnd(term, r) = RowEnd(term, t)
BY DEF RowEnd

\* Rows that agree before a pattern agree after it when they make the same
\* point of it, and only then.
LEMMA AgreeNext ==
  ASSUME query \in Queries, NEW i \in Op, NEW r, NEW t
  PROVE  Agree(r, t, i + 1) <=> Agree(r, t, i) /\ PointAt(i, r) = PointAt(i, t)
<1> DEFINE s == Patterns[i].s
           o == Patterns[i].o
<1>1. ASSUME Agree(r, t, i + 1)
      PROVE  Agree(r, t, i) /\ PointAt(i, r) = PointAt(i, t)
  <2>1. Agree(r, t, i)
    BY <1>1, SeenVarsGrow DEF Agree
  <2>2. (IsVar(s) => s[2] \in SeenVars(i + 1)) /\ (IsVar(o) => o[2] \in SeenVars(i + 1))
    BY SeenVarsGrow
  <2>3. RowEnd(s, r) = RowEnd(s, t) /\ RowEnd(o, r) = RowEnd(o, t)
    BY <1>1, <2>2 DEF Agree, RowEnd
  <2> QED
    BY <2>1, <2>3 DEF PointAt
<1>2. ASSUME Agree(r, t, i), PointAt(i, r) = PointAt(i, t)
      PROVE  Agree(r, t, i + 1)
  <2>1. RowEnd(s, r) = RowEnd(s, t) /\ RowEnd(o, r) = RowEnd(o, t)
    BY <1>2 DEF PointAt
  <2> SUFFICES ASSUME NEW v \in SeenVars(i + 1)
               PROVE  r[HeaderPos(v)] = t[HeaderPos(v)]
    BY DEF Agree
  <2>2. CASE v \in SeenVars(i)
    BY <1>2, <2>2 DEF Agree
  <2>3. CASE v \notin SeenVars(i)
    <3>1. s = <<"var", v>> \/ o = <<"var", v>>
      BY <2>3, SeenVarsGrow
    <3> QED
      BY <2>1, <3>1 DEF RowEnd, IsVar
  <2> QED
    BY <2>2, <2>3
<1> QED
  BY <1>1, <1>2

\* Rows that agree, agree on fewer variables.
LEMMA AgreeBefore ==
  ASSUME query \in Queries, NEW i \in Nat, NEW j \in Nat, j <= i, NEW r, NEW t, Agree(r, t, i)
  PROVE  Agree(r, t, j)
BY SeenVarsMonotone DEF Agree

\* Rows that agree on all variables are equal.
LEMMA AgreeAll ==
  ASSUME query \in Queries, NEW r, NEW t, IsRow(r), IsRow(t), Agree(r, t, LastOp + 1)
  PROVE  r = t
<1>1. \A v \in Variables : r[HeaderPos(v)] = t[HeaderPos(v)]
  BY SeenVarsGrow DEF Agree
<1>2. \A k \in 1..Width : r[k] = t[k]
  BY <1>1, Positions
<1> QED
  BY <1>2 DEF IsRow
-----------------------------------------------------------------------------
(* What an operation still gives.                                          *)

\* The points of a tree are pairs of cache ids, each with a real id.
LEMMA TreePoints ==
  ASSUME trees \in TreeMaps, AllPredicatesHaveTrees, NEW i \in Op, NEW p \in Tree(i)
  PROVE  /\ p = <<p[1], p[2]>> /\ p[1] \in CacheIds /\ p[2] \in CacheIds
<1>1. CacheId(Patterns[i].p) \in DOMAIN trees
  BY DEF AllPredicatesHaveTrees
<1>2. p \in (DOMAIN RealId) \X (DOMAIN RealId)
  BY <1>1, JoinAssumption DEF Tree
<1>3. p \in UNION {trees[t] : t \in DOMAIN trees}
  BY <1>1 DEF Tree
<1>4. p[1] \in CacheIds /\ p[2] \in CacheIds
  BY <1>3 DEF CacheIds
<1> QED
  BY <1>2, <1>4

LEMMA CacheIdsKnown ==
  ASSUME trees \in TreeMaps
  PROVE  CacheIds \subseteq DOMAIN RealId
<1> SUFFICES ASSUME NEW c \in CacheIds PROVE c \in DOMAIN RealId
  OBVIOUS
<1>1. PICK p \in UNION {trees[t] : t \in DOMAIN trees} : c \in {p[1], p[2]}
  BY DEF CacheIds
<1>2. PICK t \in DOMAIN trees : p \in trees[t]
  OBVIOUS
<1>3. p \in (DOMAIN RealId) \X (DOMAIN RealId)
  BY <1>2, JoinAssumption
<1> QED
  BY <1>1, <1>3

\* An operation that does not scan has a value for each end.
LEMMA TestsKnown ==
  ASSUME NEW i \in Op, ~Scans(i), ~Joins(i)
  PROVE  /\ IsVar(Patterns[i].s) => Seen(i, Patterns[i].s)
         /\ IsVar(Patterns[i].o) => Seen(i, Patterns[i].o)
         /\ OpKind(i) \in {"TwoVarIntersection", "OneVarIntersect", "TripleExistence"}
<1> DEFINE s == Patterns[i].s
           o == Patterns[i].o
           a == Seen(i, s)
           b == Seen(i, o)
           x == IsVar(s)
           y == IsVar(o)
<1>1. (a => x) /\ (b => y)
  BY DEF Seen
<1>2. x \in BOOLEAN /\ y \in BOOLEAN /\ a \in BOOLEAN /\ b \in BOOLEAN
  BY DEF IsVar, Seen
<1>3. /\ OpKind(i) = "TwoVarIntersection" <=> a /\ b
      /\ Joins(i) <=> x /\ y /\ a # b
      /\ OpKind(i) = "TwoVarCProduct" <=> x /\ y /\ ~a /\ ~b
      /\ OpKind(i) = "OneVarIntersect" <=> x # y /\ (a \/ b)
      /\ OpKind(i) = "OneVarCP" <=> x # y /\ ~a /\ ~b
      /\ OpKind(i) = "TripleExistence" <=> ~x /\ ~y
  BY Kinds
<1> HIDE DEF a, b, x, y
<1>4. (x => a) /\ (y => b) /\ OpKind(i) \in {"TwoVarIntersection", "OneVarIntersect", "TripleExistence"}
  BY <1>1, <1>2, <1>3 DEF Scans
<1> QED
  BY <1>4 DEF a, b, x, y

\* The band of TwoVarJoinOne is the value of a seen variable, and the other end
\* is another variable that is not seen.
LEMMA JoinEnds ==
  ASSUME query \in Queries, NEW i \in Op, Joins(i)
  PROVE  /\ IsVar(Patterns[i].s) /\ IsVar(Patterns[i].o) /\ Patterns[i].s[2] # Patterns[i].o[2]
         /\ SeenEnd(i) = 1 => Patterns[i].s[2] \in SeenVars(i) /\ Patterns[i].o[2] \notin SeenVars(i)
         /\ SeenEnd(i) # 1 => Patterns[i].o[2] \in SeenVars(i) /\ Patterns[i].s[2] \notin SeenVars(i)
         /\ SeenEnd(i) \in {1, 2}
<1>1. IsVar(Patterns[i].s) /\ IsVar(Patterns[i].o) /\ Seen(i, Patterns[i].s) # Seen(i, Patterns[i].o)
  BY Kinds
<1>2. Patterns[i].s[2] \in SeenVars(i) <=> Patterns[i].o[2] \notin SeenVars(i)
  <2>1. Seen(i, Patterns[i].s) \in BOOLEAN /\ Seen(i, Patterns[i].o) \in BOOLEAN
    BY DEF Seen
  <2>2. Seen(i, Patterns[i].s) <=> ~Seen(i, Patterns[i].o)
    BY <1>1, <2>1
  <2> QED
    BY <1>1, <2>2, SeenIsSeenVar, Zenon
<1>3. (SeenEnd(i) = 1 <=> Patterns[i].s[2] \in SeenVars(i)) /\ SeenEnd(i) \in {1, 2}
  BY <1>1, SeenIsSeenVar DEF SeenEnd
<1> QED
  BY <1>1, <1>2, <1>3

\* What an operation gives depends on the variables seen before it.
LEMMA LeftAgrees ==
  ASSUME query \in Queries, NEW i \in Op, NEW r, NEW t, Agree(r, t, i), NEW sc
  PROVE  /\ Joins(i) => Band(i, r) = Band(i, t)
         /\ ~Scans(i) /\ ~Joins(i) => PointAt(i, r) = PointAt(i, t)
         /\ LeftOf(i, sc, r) = LeftOf(i, sc, t)
         /\ ScanOK(i, sc, r) <=> ScanOK(i, sc, t)
<1>1. ASSUME Joins(i) PROVE Band(i, r) = Band(i, t)
  BY <1>1, JoinEnds DEF Agree, Band, RowEnd
<1>2. ASSUME ~Scans(i), ~Joins(i) PROVE PointAt(i, r) = PointAt(i, t)
  BY <1>2, TestsKnown, SeenIsSeenVar DEF Agree, PointAt, RowEnd
<1> QED
  BY <1>1, <1>2 DEF LeftOf, ScanOK

\* The scanners by what they are.
LEMMA Scanners ==
  ASSUME query \in Queries, NEW i \in Op, Scans(i)
  PROVE  BuildScanner(i) = {p \in Tree(i) : /\ ~IsVar(Patterns[i].s) => p[1] = CacheId(Patterns[i].s)
                                            /\ ~IsVar(Patterns[i].o) => p[2] = CacheId(Patterns[i].o)}
<1> DEFINE x == IsVar(Patterns[i].s)
           y == IsVar(Patterns[i].o)
<1>1. x \in BOOLEAN /\ y \in BOOLEAN
  BY DEF IsVar
<1>2. x \/ y
  BY Kinds DEF Scans
<1>3. BuildScanner(i) = CASE x /\ y -> FullScanner(i)
          [] x /\ ~y  -> BandScanner(i, 2, CacheId(Patterns[i].o))
          [] ~x /\ y  -> BandScanner(i, 1, CacheId(Patterns[i].s))
          [] ~x /\ ~y -> EmptyScanner
  BY DEF BuildScanner
<1> HIDE DEF x, y
<1>4. BuildScanner(i) = {p \in Tree(i) : /\ ~x => p[1] = CacheId(Patterns[i].s)
                                         /\ ~y => p[2] = CacheId(Patterns[i].o)}
  <2>1. CASE x /\ y
    BY <1>3, <2>1 DEF FullScanner
  <2>2. CASE x /\ ~y
    BY <1>3, <2>2 DEF BandScanner
  <2>3. CASE ~x /\ y
    BY <1>3, <2>3 DEF BandScanner
  <2> QED
    BY <1>1, <1>2, <2>1, <2>2, <2>3
<1> QED
  BY <1>4 DEF x, y

\* A new operation gives every point that a row of the answer needs of it.
LEMMA FreshLeft ==
  ASSUME query \in Queries, NEW i \in Op, NEW r \in Rows, NEW row, Agree(r, row, i)
  PROVE  PointAt(i, r) \in LeftOf(i, NewScan(i), row)
<1>1. PointAt(i, r) \in Tree(i)
  BY DEF Rows
<1>2. CASE Scans(i)
  <2>1. NewScan(i).left = BuildScanner(i)
    BY <1>2 DEF NewScan, Scans
  <2>2. PointAt(i, r) \in BuildScanner(i)
    BY <1>1, <1>2, Scanners DEF PointAt, RowEnd
  <2> QED
    BY <1>2, <2>1, <2>2 DEF LeftOf
<1>3. CASE Joins(i)
  <2>1. ~Scans(i) /\ NewScan(i).band # <<Band(i, row)>>
    BY <1>3 DEF Joins, Scans, NewScan
  <2>2. Band(i, r) = Band(i, row)
    BY <1>3, LeftAgrees
  <2>3. PointAt(i, r)[SeenEnd(i)] = Band(i, r)
    BY <1>3, JoinEnds DEF PointAt, Band
  <2> QED
    BY <1>1, <1>3, <2>1, <2>2, <2>3 DEF LeftOf, BandScanner
<1>4. CASE ~Scans(i) /\ ~Joins(i)
  BY <1>1, <1>4, LeftAgrees DEF LeftOf
<1> QED
  BY <1>2, <1>3, <1>4

\* The scanner of a new operation is as it was made.
LEMMA FreshOK ==
  ASSUME NEW i, NEW row
  PROVE  ScanOK(i, NewScan(i), row)
BY DEF ScanOK, NewScan, Joins, Scans
-----------------------------------------------------------------------------
(* BGPOp::run.                                                             *)

\* A RunResult with a value has a row that is the one at hand with values for
\* the new variables, and its point is one the operation had left, now given;
\* one without a value leaves the row, and nothing was left.
OutcomeOK(i, o) ==
  LET left == LeftOf(i, scan[i], tmp_holder)
  IN  /\ IsRow(o.row) /\ Agree(o.row, tmp_holder, i)
      /\ o.ticks \in {1, 2} /\ o.scan_done \in BOOLEAN /\ o.valid_value \in BOOLEAN
      /\ ScanOK(i, o.scan, o.row)
      /\ o.valid_value =>
           /\ PointAt(i, o.row) \in left /\ PointAt(i, o.row) \in Tree(i)
           /\ left \ {PointAt(i, o.row)} = IF o.scan_done THEN {} ELSE LeftOf(i, o.scan, o.row)
      /\ ~o.valid_value => o.row = tmp_holder /\ o.scan_done /\ left = {}

LEMMA AgreeSelf ==
  ASSUME NEW r, NEW i
  PROVE  Agree(r, r, i)
BY DEF Agree

\* The operations that look for one point.
LEMMA HasOutcome ==
  ASSUME query \in Queries, NEW i \in Op, IsRow(tmp_holder), ScanOK(i, scan[i], tmp_holder),
         ~Scans(i), ~Joins(i), NEW x, NEW y, <<x, y>> = PointAt(i, tmp_holder)
  PROVE  OutcomeOK(i, Has(i, x, y))
<1> DEFINE o == Has(i, x, y)
           left == LeftOf(i, scan[i], tmp_holder)
<1>1. /\ o.row = tmp_holder /\ o.ticks = 1 /\ o.scan = scan[i] /\ o.scan_done = TRUE
      /\ o.valid_value = (PointAt(i, tmp_holder) \in Tree(i))
  BY DEF Has
<1>2. left = {PointAt(i, tmp_holder)} \cap Tree(i)
  BY DEF LeftOf
<1> HIDE DEF o, left
<1>3. o.valid_value => /\ PointAt(i, o.row) \in left /\ PointAt(i, o.row) \in Tree(i)
                      /\ left \ {PointAt(i, o.row)} = IF o.scan_done THEN {} ELSE LeftOf(i, o.scan, o.row)
  BY <1>1, <1>2
<1>4. (~o.valid_value => left = {}) /\ o.valid_value \in BOOLEAN
  <2>1. CASE PointAt(i, tmp_holder) \in Tree(i)
    BY <1>1, <2>1
  <2>2. CASE PointAt(i, tmp_holder) \notin Tree(i)
    BY <1>1, <1>2, <2>2
  <2> QED
    BY <2>1, <2>2
<1>5. /\ IsRow(o.row) /\ Agree(o.row, tmp_holder, i) /\ ScanOK(i, o.scan, o.row)
      /\ o.ticks \in {1, 2} /\ o.scan_done \in BOOLEAN /\ (~o.valid_value => o.row = tmp_holder /\ o.scan_done)
  BY <1>1, AgreeSelf
<1>6. OutcomeOK(i, o)
  BY <1>3, <1>4, <1>5, Zenon DEF OutcomeOK, left
<1> QED
  BY <1>6 DEF o

LEMMA TestOutcome ==
  ASSUME query \in Queries, NEW i \in Op, IsRow(tmp_holder), ScanOK(i, scan[i], tmp_holder),
         ~Scans(i), ~Joins(i), NEW o \in Outcomes(i)
  PROVE  OutcomeOK(i, o)
<1> DEFINE s == Patterns[i].s
           t == Patterns[i].o
<1>1. CASE OpKind(i) = "TwoVarIntersection"
  <2>1. IsVar(s) /\ IsVar(t)
    BY <1>1, Kinds DEF Seen
  <2>2. o = Has(i, Value(s), Value(t))
    BY <1>1 DEF Outcomes, TwoVarIntersection
  <2>3. <<Value(s), Value(t)>> = PointAt(i, tmp_holder)
    BY <2>1 DEF PointAt, RowEnd, Value
  <2> QED
    BY <2>2, <2>3, HasOutcome
<1>2. CASE OpKind(i) = "TripleExistence"
  <2>1. ~IsVar(s) /\ ~IsVar(t)
    BY <1>2, Kinds
  <2>2. o = Has(i, CacheId(s), CacheId(t))
    BY <1>2 DEF Outcomes, TripleExistence
  <2>3. <<CacheId(s), CacheId(t)>> = PointAt(i, tmp_holder)
    BY <2>1 DEF PointAt, RowEnd
  <2> QED
    BY <2>2, <2>3, HasOutcome
<1>3. CASE OpKind(i) = "OneVarIntersect"
  <2>1. IsVar(s) # IsVar(t) /\ IsVar(s) \in BOOLEAN /\ IsVar(t) \in BOOLEAN
    BY <1>3, Kinds DEF IsVar
  <2>2. o = OneVarIntersect(i)
    BY <1>3 DEF Outcomes
  <2>3. CASE IsVar(s)
    <3>1. ~IsVar(t)
      BY <2>1, <2>3
    <3>2. o = Has(i, Value(s), CacheId(t))
      BY <2>2, <2>3 DEF OneVarIntersect
    <3>3. <<Value(s), CacheId(t)>> = PointAt(i, tmp_holder)
      BY <2>3, <3>1 DEF PointAt, RowEnd, Value
    <3> QED
      BY <3>2, <3>3, HasOutcome
  <2>4. CASE ~IsVar(s)
    <3>1. IsVar(t)
      BY <2>1, <2>4
    <3>2. o = Has(i, CacheId(s), Value(t))
      BY <2>2, <2>4 DEF OneVarIntersect
    <3>3. <<CacheId(s), Value(t)>> = PointAt(i, tmp_holder)
      BY <2>4, <3>1 DEF PointAt, RowEnd, Value
    <3> QED
      BY <3>2, <3>3, HasOutcome
  <2> QED
    BY <2>3, <2>4
<1> QED
  BY <1>1, <1>2, <1>3, TestsKnown

\* A scanner gives one of its points, or is at its end.
ScanEnded(o, band, rows) ==
  /\ DOMAIN rows = {} /\ o.valid_value = FALSE /\ o.scan_done = TRUE /\ o.ticks = 1
  /\ o.row = tmp_holder /\ o.scan = [band |-> band, left |-> {}]
ScanGave(o, band, rows, p) ==
  /\ o.valid_value = TRUE /\ o.scan_done = (DOMAIN rows = {p}) /\ o.ticks = 2
  /\ o.row = rows[p] /\ o.scan = [band |-> band, left |-> DOMAIN rows \ {p}]

LEMMA ScanParts ==
  ASSUME NEW band, NEW rows, NEW o \in ScanOutcomes(band, rows)
  PROVE  ScanEnded(o, band, rows) \/ \E p \in DOMAIN rows : ScanGave(o, band, rows, p)
<1>1. CASE rows = <<>>
  <2>1. DOMAIN rows = {}
    BY <1>1
  <2>2. o = [ticks |-> 1, scan_done |-> TRUE, valid_value |-> FALSE, row |-> tmp_holder,
             scan |-> [band |-> band, left |-> {}]]
    BY <1>1 DEF ScanOutcomes
  <2> QED
    BY <2>1, <2>2 DEF ScanEnded
<1>2. CASE rows # <<>>
  <2>1. PICK p \in DOMAIN rows :
          o = [ticks |-> 2, scan_done |-> DOMAIN rows = {p}, valid_value |-> TRUE, row |-> rows[p],
               scan |-> [band |-> band, left |-> DOMAIN rows \ {p}]]
    BY <1>2 DEF ScanOutcomes
  <2> QED
    BY <2>1 DEF ScanGave
<1> QED
  BY <1>1, <1>2

\* A scanner whose points give rows that make them.
LEMMA ScanOutcome ==
  ASSUME query \in Queries, NEW i \in Op, IsRow(tmp_holder),
         NEW rows, NEW band,
         DOMAIN rows = LeftOf(i, scan[i], tmp_holder), DOMAIN rows \subseteq Tree(i),
         \A p \in DOMAIN rows :
           IsRow(rows[p]) /\ Agree(rows[p], tmp_holder, i) /\ PointAt(i, rows[p]) = p,
         \/ Scans(i) /\ DOMAIN rows \subseteq BuildScanner(i)
         \/ /\ Joins(i) /\ band = <<Band(i, tmp_holder)>>
            /\ DOMAIN rows \subseteq BandScanner(i, SeenEnd(i), Band(i, tmp_holder)),
         NEW o \in ScanOutcomes(band, rows)
  PROVE  OutcomeOK(i, o)
<1> DEFINE left == LeftOf(i, scan[i], tmp_holder)
<1>0. ScanEnded(o, band, rows) \/ \E p \in DOMAIN rows : ScanGave(o, band, rows, p)
  BY ScanParts
<1>1. IsRow(o.row) /\ Agree(o.row, tmp_holder, i)
  BY <1>0, AgreeSelf DEF ScanEnded, ScanGave
<1>2. o.ticks \in {1, 2} /\ o.scan_done \in BOOLEAN /\ o.valid_value \in BOOLEAN
  BY <1>0 DEF ScanEnded, ScanGave
<1>3. o.scan.band = band /\ o.scan.left \subseteq DOMAIN rows
  <2>1. CASE ScanEnded(o, band, rows)
    BY <2>1 DEF ScanEnded
  <2>2. ASSUME NEW p \in DOMAIN rows, ScanGave(o, band, rows, p) PROVE o.scan.band = band /\ o.scan.left \subseteq DOMAIN rows
    <3>1. o.scan.band = band /\ o.scan.left = DOMAIN rows \ {p}
      BY <2>2 DEF ScanGave
    <3> QED
      BY <3>1
  <2> QED
    BY <1>0, <2>1, <2>2
<1>4. ScanOK(i, o.scan, o.row) /\ LeftOf(i, o.scan, o.row) = o.scan.left
  <2>1. ScanOK(i, o.scan, tmp_holder) /\ LeftOf(i, o.scan, tmp_holder) = o.scan.left
    BY <1>3 DEF ScanOK, LeftOf, Scans, Joins
  <2> QED
    BY <1>1, <2>1, LeftAgrees
<1>5. ASSUME o.valid_value
      PROVE  /\ PointAt(i, o.row) \in left /\ PointAt(i, o.row) \in Tree(i)
             /\ left \ {PointAt(i, o.row)} = IF o.scan_done THEN {} ELSE LeftOf(i, o.scan, o.row)
  <2>1. PICK p \in DOMAIN rows : ScanGave(o, band, rows, p)
    BY <1>0, <1>5 DEF ScanEnded
  <2>2. PointAt(i, o.row) = p /\ o.scan.left = DOMAIN rows \ {p}
    BY <2>1 DEF ScanGave
  <2>3. left = DOMAIN rows
    OBVIOUS
  <2> HIDE DEF left
  <2> QED
    BY <1>4, <2>1, <2>2, <2>3 DEF ScanGave
<1>6. ~o.valid_value => o.row = tmp_holder /\ o.scan_done /\ left = {}
  BY <1>0 DEF ScanEnded, ScanGave
<1> QED
  BY <1>1, <1>2, <1>4, <1>5, <1>6, Zenon DEF OutcomeOK, left

LEMMA ProductOutcome ==
  ASSUME query \in Queries, trees \in TreeMaps, AllPredicatesHaveTrees,
         NEW i \in Op, IsRow(tmp_holder), ScanOK(i, scan[i], tmp_holder),
         OpKind(i) = "TwoVarCProduct", NEW o \in Outcomes(i)
  PROVE  OutcomeOK(i, o)
<1> DEFINE s == Patterns[i].s
           t == Patterns[i].o
           Row(p) == Set(Set(tmp_holder, s, p[1]), t, p[2])
           rows == [p \in scan[i].left |-> Row(p)]
<1>1. Scans(i) /\ o \in ScanOutcomes(<<>>, rows)
  BY DEF Scans, Outcomes, TwoVarCProduct
<1>2. DOMAIN rows = LeftOf(i, scan[i], tmp_holder) /\ DOMAIN rows \subseteq BuildScanner(i)
  BY <1>1 DEF LeftOf, ScanOK
<1>3. DOMAIN rows \subseteq Tree(i)
  BY <1>1, <1>2, Scanners
<1>4. /\ IsVar(s) /\ IsVar(t) /\ s[2] # t[2] /\ s[2] \in Variables /\ t[2] \in Variables
      /\ s[2] \notin SeenVars(i) /\ t[2] \notin SeenVars(i)
  BY Kinds, ProductOfTwo, EndVariable, SeenIsSeenVar
<1>5. ASSUME NEW p \in DOMAIN rows
      PROVE  IsRow(rows[p]) /\ Agree(rows[p], tmp_holder, i) /\ PointAt(i, rows[p]) = p
  <2> DEFINE r1 == Set(tmp_holder, s, p[1])
             r2 == Set(r1, t, p[2])
  <2>1. /\ IsRow(r1) /\ r1[HeaderPos(s[2])] = p[1]
        /\ \A v \in Variables \ {s[2]} : r1[HeaderPos(v)] = tmp_holder[HeaderPos(v)]
    BY <1>4, SetRow
  <2>2. rows[p] = r2
    OBVIOUS
  <2> HIDE DEF r1
  <2>3. /\ IsRow(r2) /\ r2[HeaderPos(t[2])] = p[2]
        /\ \A v \in Variables \ {t[2]} : r2[HeaderPos(v)] = r1[HeaderPos(v)]
    BY <1>4, <2>1, SetRow
  <2> HIDE DEF r2, rows
  <2>4. Agree(r2, tmp_holder, i)
    BY <1>4, <2>1, <2>3 DEF Agree, SeenVars
  <2>5. PointAt(i, r2) = <<p[1], p[2]>>
    BY <1>4, <2>1, <2>3 DEF PointAt, RowEnd
  <2>6. p = <<p[1], p[2]>>
    BY <1>3, TreePoints
  <2> QED
    BY <2>2, <2>3, <2>4, <2>5, <2>6
<1> HIDE DEF rows
<1> QED
  BY <1>1, <1>2, <1>3, <1>5, ScanOutcome

LEMMA OneVarOutcome ==
  ASSUME query \in Queries, trees \in TreeMaps, AllPredicatesHaveTrees,
         NEW i \in Op, IsRow(tmp_holder), ScanOK(i, scan[i], tmp_holder),
         OpKind(i) = "OneVarCP", NEW o \in Outcomes(i)
  PROVE  OutcomeOK(i, o)
<1> DEFINE s == Patterns[i].s
           t == Patterns[i].o
           rows == [p \in scan[i].left |-> IF IsVar(s) THEN Set(tmp_holder, s, p[1])
                                                       ELSE Set(tmp_holder, t, p[2])]
<1>1. Scans(i) /\ o \in ScanOutcomes(<<>>, rows)
  BY DEF Scans, Outcomes, OneVarCP
<1>2. DOMAIN rows = LeftOf(i, scan[i], tmp_holder) /\ DOMAIN rows \subseteq BuildScanner(i)
  BY <1>1 DEF LeftOf, ScanOK
<1>3. \A p \in DOMAIN rows : /\ p \in Tree(i)
                             /\ ~IsVar(s) => p[1] = CacheId(s)
                             /\ ~IsVar(t) => p[2] = CacheId(t)
  BY <1>1, <1>2, Scanners
<1>4. IsVar(s) <=> ~IsVar(t)
  <2>1. IsVar(s) # IsVar(t) /\ IsVar(s) \in BOOLEAN /\ IsVar(t) \in BOOLEAN
    BY Kinds DEF IsVar
  <2> QED
    BY <2>1
<1>5. /\ IsVar(s) => s[2] \in Variables /\ s[2] \notin SeenVars(i)
      /\ IsVar(t) => t[2] \in Variables /\ t[2] \notin SeenVars(i)
  BY Kinds, EndVariable, SeenIsSeenVar
<1>6. ASSUME NEW p \in DOMAIN rows
      PROVE  IsRow(rows[p]) /\ Agree(rows[p], tmp_holder, i) /\ PointAt(i, rows[p]) = p
  <2>1. p = <<p[1], p[2]>>
    BY <1>3, TreePoints
  <2>2. rows[p] = IF IsVar(s) THEN Set(tmp_holder, s, p[1]) ELSE Set(tmp_holder, t, p[2])
    OBVIOUS
  <2> HIDE DEF rows
  <2>3. CASE IsVar(s)
    <3> DEFINE r == Set(tmp_holder, s, p[1])
    <3>1. /\ IsRow(r) /\ r[HeaderPos(s[2])] = p[1]
          /\ \A v \in Variables \ {s[2]} : r[HeaderPos(v)] = tmp_holder[HeaderPos(v)]
      BY <1>5, <2>3, SetRow
    <3> HIDE DEF r
    <3>2. Agree(r, tmp_holder, i)
      BY <1>5, <2>3, <3>1 DEF Agree, SeenVars
    <3>3. PointAt(i, r) = p
      BY <1>3, <1>4, <2>1, <2>3, <3>1 DEF PointAt, RowEnd
    <3> QED
      BY <2>2, <2>3, <3>1, <3>2, <3>3 DEF r
  <2>4. CASE ~IsVar(s)
    <3> DEFINE r == Set(tmp_holder, t, p[2])
    <3>1. /\ IsRow(r) /\ r[HeaderPos(t[2])] = p[2]
          /\ \A v \in Variables \ {t[2]} : r[HeaderPos(v)] = tmp_holder[HeaderPos(v)]
      BY <1>4, <1>5, <2>4, SetRow
    <3> HIDE DEF r
    <3>2. Agree(r, tmp_holder, i)
      BY <1>4, <1>5, <2>4, <3>1 DEF Agree, SeenVars
    <3>3. PointAt(i, r) = p
      BY <1>3, <1>4, <2>1, <2>4, <3>1 DEF PointAt, RowEnd
    <3> QED
      BY <2>2, <2>4, <3>1, <3>2, <3>3 DEF r
  <2> QED
    BY <2>3, <2>4
<1> HIDE DEF rows
<1> QED
  BY <1>1, <1>2, <1>3, <1>6, ScanOutcome

LEMMA JoinOutcome ==
  ASSUME query \in Queries, trees \in TreeMaps, AllPredicatesHaveTrees,
         NEW i \in Op, IsRow(tmp_holder), ScanOK(i, scan[i], tmp_holder),
         Joins(i), NEW o \in Outcomes(i)
  PROVE  OutcomeOK(i, o)
<1> DEFINE s == Patterns[i].s
           t == Patterns[i].o
           band == Band(i, tmp_holder)
           left == IF scan[i].band = <<band>> THEN scan[i].left ELSE BandScanner(i, SeenEnd(i), band)
           rows == [p \in left |-> IF SeenEnd(i) = 1 THEN Set(tmp_holder, t, p[2])
                                                     ELSE Set(tmp_holder, s, p[1])]
<1>1. ~Scans(i) /\ OpKind(i) = "TwoVarJoinOne"
  BY DEF Scans, Joins
<1>2. /\ IsVar(s) /\ IsVar(t) /\ s[2] # t[2] /\ s[2] \in Variables /\ t[2] \in Variables
      /\ SeenEnd(i) = 1 => s[2] \in SeenVars(i) /\ t[2] \notin SeenVars(i)
      /\ SeenEnd(i) # 1 => t[2] \in SeenVars(i) /\ s[2] \notin SeenVars(i)
      /\ SeenEnd(i) \in {1, 2}
  BY JoinEnds, EndVariable
<1>3. /\ band = Value(IF SeenEnd(i) = 1 THEN s ELSE t)
      /\ SeenEnd(i) = 1 => band = tmp_holder[HeaderPos(s[2])]
      /\ SeenEnd(i) # 1 => band = tmp_holder[HeaderPos(t[2])]
  BY <1>2 DEF Band, RowEnd, Value
<1>4. o \in ScanOutcomes(<<band>>, rows)
  <2>1. o \in TwoVarJoinOne(i)
    BY <1>1 DEF Outcomes
  <2> QED
    BY <1>3, <2>1 DEF TwoVarJoinOne, SeenEnd
<1>5. DOMAIN rows = LeftOf(i, scan[i], tmp_holder) /\ DOMAIN rows \subseteq BandScanner(i, SeenEnd(i), band)
  BY <1>1 DEF LeftOf, ScanOK
<1>6. \A p \in DOMAIN rows : p \in Tree(i) /\ p[SeenEnd(i)] = band
  BY <1>5 DEF BandScanner
<1>7. ASSUME NEW p \in DOMAIN rows
      PROVE  IsRow(rows[p]) /\ Agree(rows[p], tmp_holder, i) /\ PointAt(i, rows[p]) = p
  <2>1. p = <<p[1], p[2]>> /\ p[SeenEnd(i)] = band
    BY <1>6, TreePoints
  <2>2. rows[p] = IF SeenEnd(i) = 1 THEN Set(tmp_holder, t, p[2]) ELSE Set(tmp_holder, s, p[1])
    OBVIOUS
  <2> HIDE DEF rows, band
  <2>3. CASE SeenEnd(i) = 1
    <3> DEFINE r == Set(tmp_holder, t, p[2])
    <3>1. /\ IsRow(r) /\ r[HeaderPos(t[2])] = p[2]
          /\ \A v \in Variables \ {t[2]} : r[HeaderPos(v)] = tmp_holder[HeaderPos(v)]
      BY <1>2, SetRow
    <3> HIDE DEF r
    <3>2. Agree(r, tmp_holder, i)
      BY <1>2, <2>3, <3>1 DEF Agree, SeenVars
    <3>3. r[HeaderPos(s[2])] = p[1]
      BY <1>2, <1>3, <2>1, <2>3, <3>1
    <3>4. PointAt(i, r) = p
      BY <1>2, <2>1, <3>1, <3>3 DEF PointAt, RowEnd
    <3> QED
      BY <2>2, <2>3, <3>1, <3>2, <3>4 DEF r
  <2>4. CASE SeenEnd(i) # 1
    <3> DEFINE r == Set(tmp_holder, s, p[1])
    <3>1. /\ IsRow(r) /\ r[HeaderPos(s[2])] = p[1]
          /\ \A v \in Variables \ {s[2]} : r[HeaderPos(v)] = tmp_holder[HeaderPos(v)]
      BY <1>2, SetRow
    <3> HIDE DEF r
    <3>2. Agree(r, tmp_holder, i)
      BY <1>2, <2>4, <3>1 DEF Agree, SeenVars
    <3>3. r[HeaderPos(t[2])] = p[2]
      BY <1>2, <1>3, <2>1, <2>4, <3>1
    <3>4. PointAt(i, r) = p
      BY <1>2, <2>1, <3>1, <3>3 DEF PointAt, RowEnd
    <3> QED
      BY <2>2, <2>4, <3>1, <3>2, <3>4 DEF r
  <2> QED
    BY <2>3, <2>4
<1>8. DOMAIN rows \subseteq Tree(i)
  BY <1>6
<1>9. <<band>> = <<Band(i, tmp_holder)>> /\ DOMAIN rows \subseteq BandScanner(i, SeenEnd(i), Band(i, tmp_holder))
  BY <1>5
<1> HIDE DEF rows, band
<1> QED
  BY <1>4, <1>5, <1>7, <1>8, <1>9, ScanOutcome

\* Every kind of operation.
LEMMA Outcome ==
  ASSUME query \in Queries, trees \in TreeMaps, AllPredicatesHaveTrees,
         NEW i \in Op, IsRow(tmp_holder), ScanOK(i, scan[i], tmp_holder), NEW o \in Outcomes(i)
  PROVE  OutcomeOK(i, o)
BY TestOutcome, ProductOutcome, OneVarOutcome, JoinOutcome DEF Scans
-----------------------------------------------------------------------------
(* Rows of the iterator and rows of the client.                            *)

\* The client's names are the variables, each once.
LEMMA VarNames ==
  ASSUME query \in Queries
  PROVE  /\ DOMAIN query.var_names = 1..Width
         /\ \A k \in 1..Width : query.var_names[k] \in Variables
         /\ \A v \in Variables : \E k \in 1..Width : query.var_names[k] = v
<1> DEFINE vn == query.var_names
           n == Len(vn)
<1>1. WellFormed(query)
  BY JoinAssumption
<1>2. vn \in Seq(Range(vn)) /\ IsInjective(vn)
  BY <1>1 DEF WellFormed
<1>3. Range(vn) = Variables
  <2>1. Range(vn) = {t[2] : t \in {t \in TermsOf(query) : t[1] = "var"}}
    BY <1>1 DEF WellFormed
  <2>2. ASSUME NEW v \in Variables PROVE v \in Range(vn)
    <3>1. PICK k \in 1..(2 * LastOp) : IsVar(TermAt(k)) /\ v = TermAt(k)[2]
      BY DEF Variables
    <3>2. PICK i \in Op : k = 2 * i - 1 \/ k = 2 * i
      BY PatternEnds
    <3>3. TermAt(k) = Patterns[i].s \/ TermAt(k) = Patterns[i].o
      BY <3>2, PatternEnds
    <3>4. TermAt(k) \in TermsOf(query)
      BY <3>3 DEF TermsOf, Op, Patterns
    <3> QED
      BY <2>1, <3>1, <3>4 DEF IsVar
  <2>3. ASSUME NEW v \in Range(vn) PROVE v \in Variables
    <3>1. PICK t \in TermsOf(query) : t[1] = "var" /\ v = t[2]
      BY <2>1
    <3>2. PICK i \in Op : t = Patterns[i].s \/ t = Patterns[i].o
      BY DEF TermsOf, Op, Patterns
    <3> QED
      BY <3>1, <3>2, EndVariable DEF IsVar
  <2> QED
    BY <2>2, <2>3
<1>4. n \in Nat /\ vn \in [1..n -> Variables]
  BY <1>2, <1>3
<1>5. vn \in Injection(1..n, Variables) /\ vn \in Surjection(1..n, Variables)
  BY <1>2, <1>3, <1>4 DEF Injection, Surjection, IsInjective, Range
<1>6. n = Width
  <2>1. IsFiniteSet(Variables)
    BY Positions
  <2>2. Cardinality(1..n) = Cardinality(Variables)
    BY <1>5, <2>1, FS_Injection
  <2>3. Cardinality(1..n) = n
    BY <1>4, FS_Interval
  <2> QED
    BY <2>2, <2>3 DEF Width
<1> HIDE DEF n, vn
<1>7. /\ DOMAIN vn = 1..Width /\ \A k \in 1..Width : vn[k] \in Variables
      /\ \A v \in Variables : \E k \in 1..Width : vn[k] = v
  BY <1>4, <1>5, <1>6 DEF Surjection
<1> QED
  BY <1>7 DEF vn

LEMMA PermutedRow ==
  ASSUME query \in Queries, NEW r, IsRow(r)
  PROVE  Permuted(r) = [k \in 1..Width |-> RealId[r[HeaderPos(query.var_names[k])]]]
<1>1. DOMAIN r = 1..Width
  BY DEF IsRow
<1>2. \A k \in 1..Width : Permutation[k] = HeaderPos(query.var_names[k])
  BY VarNames DEF Permutation
<1> QED
  BY <1>1, <1>2 DEF Permuted

LEMMA RowsAreRows ==
  ASSUME NEW r \in Rows
  PROVE  /\ IsRow(r) /\ r \in [1..Width -> CacheIds] /\ AllPredicatesHaveTrees
         /\ \A i \in Op : PointAt(i, r) \in Tree(i)
BY DEF Rows, IsRow

\* The client can tell the rows apart.
LEMMA PermutedInjective ==
  ASSUME query \in Queries, trees \in TreeMaps, NEW r \in Rows, NEW t \in Rows, Permuted(r) = Permuted(t)
  PROVE  r = t
<1>1. /\ r \in [1..Width -> CacheIds] /\ t \in [1..Width -> CacheIds] /\ IsRow(r) /\ IsRow(t)
  BY RowsAreRows
<1>2. ASSUME NEW k \in 1..Width
      PROVE  r[HeaderPos(query.var_names[k])] = t[HeaderPos(query.var_names[k])]
  <2> DEFINE h == HeaderPos(query.var_names[k])
  <2>1. RealId[r[h]] = RealId[t[h]]
    <3>1. Permuted(r) = [m \in 1..Width |-> RealId[r[HeaderPos(query.var_names[m])]]]
      BY <1>1, PermutedRow
    <3>2. Permuted(t) = [m \in 1..Width |-> RealId[t[HeaderPos(query.var_names[m])]]]
      BY <1>1, PermutedRow
    <3>3. Permuted(r)[k] = RealId[r[h]]
      BY <3>1
    <3>4. Permuted(t)[k] = RealId[t[h]]
      BY <3>2
    <3> QED
      BY <3>3, <3>4
  <2>2. h \in 1..Width
    BY VarNames, Positions
  <2> HIDE DEF h
  <2>3. r[h] \in DOMAIN RealId /\ t[h] \in DOMAIN RealId
    BY <1>1, <2>2, CacheIdsKnown
  <2>4. r[h] = t[h]
    BY <2>1, <2>3, JoinAssumption DEF IsInjective
  <2> QED
    BY <2>4 DEF h
<1>3. \A v \in Variables : r[HeaderPos(v)] = t[HeaderPos(v)]
  BY <1>2, VarNames
<1>4. \A k \in 1..Width : r[k] = t[k]
  BY <1>3, Positions
<1> QED
  BY <1>1, <1>4 DEF IsRow

\* The solutions are the rows.
LEMMA SolutionsAreRows ==
  ASSUME query \in Queries, trees \in TreeMaps
  PROVE  Solutions = Found(Rows)
<1> DEFINE vn == query.var_names
           Holds(a) == \A i \in Op : <<End(Patterns[i].s, a), End(Patterns[i].o, a)>> \in Tree(i)
           Answers(a) == [k \in DOMAIN vn |-> RealId[a[vn[k]]]]
<1>1. 0 \notin DOMAIN trees
  BY JoinAssumption
<1>2. CASE ~AllPredicatesHaveTrees
  <2>1. \E i \in Op : CacheId(Patterns[i].p) \notin DOMAIN trees
    BY <1>1, <1>2 DEF AllPredicatesHaveTrees
  <2>2. Solutions = {} /\ Rows = {}
    BY <1>2, <2>1 DEF Solutions, Rows
  <2> QED
    BY <2>2 DEF Found
<1>3. CASE AllPredicatesHaveTrees
  <2>1. Solutions = {Answers(a) : a \in {a \in [Variables -> CacheIds] : Holds(a)}}
    BY <1>3 DEF Solutions, AllPredicatesHaveTrees
  <2>2. ASSUME NEW a \in [Variables -> CacheIds], NEW r \in [1..Width -> CacheIds],
               \A v \in Variables : r[HeaderPos(v)] = a[v]
        PROVE  (Holds(a) <=> r \in Rows) /\ Permuted(r) = Answers(a)
    <3>1. \A i \in Op : <<End(Patterns[i].s, a), End(Patterns[i].o, a)>> = PointAt(i, r)
      BY <2>2, EndVariable DEF End, PointAt, RowEnd
    <3>2. Holds(a) <=> r \in Rows
      BY <1>3, <3>1 DEF Rows
    <3>3. IsRow(r)
      BY DEF IsRow
    <3>4. Permuted(r) = [k \in 1..Width |-> RealId[r[HeaderPos(vn[k])]]]
      BY <3>3, PermutedRow
    <3>5. \A k \in 1..Width : r[HeaderPos(vn[k])] = a[vn[k]]
      BY <2>2, VarNames
    <3>6. DOMAIN vn = 1..Width
      BY VarNames
    <3> HIDE DEF vn, Holds
    <3> QED
      BY <3>2, <3>4, <3>5, <3>6
  <2> HIDE DEF Holds, Answers
  <2>3. ASSUME NEW a \in [Variables -> CacheIds], Holds(a)
        PROVE  Answers(a) \in Found(Rows)
    <3> DEFINE At(k) == CHOOSE v \in Variables : HeaderPos(v) = k
               r == [k \in 1..Width |-> a[At(k)]]
    <3>1. \A k \in 1..Width : At(k) \in Variables /\ HeaderPos(At(k)) = k
      BY Positions
    <3>2. \A v \in Variables : HeaderPos(v) \in 1..Width /\ At(HeaderPos(v)) = v
      BY <3>1, Positions
    <3> HIDE DEF At
    <3>3. r \in [1..Width -> CacheIds]
      BY <3>1
    <3>4. \A v \in Variables : r[HeaderPos(v)] = a[v]
      BY <3>2
    <3> HIDE DEF r
    <3>5. r \in Rows /\ Permuted(r) = Answers(a)
      BY <2>2, <2>3, <3>3, <3>4
    <3> QED
      BY <3>5 DEF Found
  <2>4. ASSUME NEW r \in Rows
        PROVE  Permuted(r) \in Solutions
    <3> DEFINE a == [v \in Variables |-> r[HeaderPos(v)]]
    <3>1. r \in [1..Width -> CacheIds]
      BY RowsAreRows
    <3>2. a \in [Variables -> CacheIds]
      BY <3>1, Positions
    <3>3. \A v \in Variables : r[HeaderPos(v)] = a[v]
      OBVIOUS
    <3> HIDE DEF a
    <3>4. Holds(a) /\ Permuted(r) = Answers(a)
      BY <2>2, <3>1, <3>2, <3>3
    <3> QED
      BY <2>1, <3>2, <3>4
  <2> QED
    BY <2>1, <2>3, <2>4 DEF Found
<1> QED
  BY <1>2, <1>3
-----------------------------------------------------------------------------
(* What the steps of the search do to the rows still to be found.          *)

LEMMA Places ==
  ASSUME NEW i \in Nat, i >= 1
  PROVE  /\ \A j : j \in 1..i <=> j \in 1..(i - 1) \/ j = i
         /\ \A j : j \in 1..(i + 1) <=> j \in 1..(i - 1) \/ j = i \/ j = i + 1
OBVIOUS

\* A step of operation i leaves the state of the earlier ones.
SameBefore(i, sc, fin, sc2, fin2) == \A j \in 1..(i - 1) : sc2[j] = sc[j] /\ fin2[j] = fin[j]

\* A step of operation i leaves what the earlier ones lead to.
LEMMA EarlierLead ==
  ASSUME query \in Queries, NEW i \in Op, NEW sc, NEW fin, NEW row, NEW sc2, NEW fin2, NEW row2,
         SameBefore(i, sc, fin, sc2, fin2),
         Agree(row2, row, i)
  PROVE  /\ \A r : \A j \in 1..i : Agree(r, row2, j) <=> Agree(r, row, j)
         /\ \A j \in 1..(i - 1) : /\ Left(j, sc2, fin2, row2) = Left(j, sc, fin, row)
                                  /\ PointAt(j, row2) = PointAt(j, row)
                                  /\ ScanOK(j, sc2[j], row2) <=> ScanOK(j, sc[j], row)
         /\ \A r : \A j \in 1..(i - 1) : Leads(j, r, sc2, fin2, row2) <=> Leads(j, r, sc, fin, row)
<1>1. LastOp \in Nat /\ Op = 1..LastOp /\ i \in Nat
  BY PatternEnds
<1>2. ASSUME NEW j \in 1..i PROVE Agree(row2, row, j)
  BY <1>1, AgreeBefore
<1>3. \A r : \A j \in 1..i : Agree(r, row2, j) <=> Agree(r, row, j)
  BY <1>2 DEF Agree
<1>4. ASSUME NEW j \in 1..(i - 1)
      PROVE  /\ Left(j, sc2, fin2, row2) = Left(j, sc, fin, row)
             /\ PointAt(j, row2) = PointAt(j, row)
             /\ ScanOK(j, sc2[j], row2) <=> ScanOK(j, sc[j], row)
  <2>1. j \in Op /\ j \in 1..i /\ j + 1 \in 1..i
    BY <1>1
  <2>2. sc2[j] = sc[j] /\ fin2[j] = fin[j]
    BY DEF SameBefore
  <2>3. LeftOf(j, sc[j], row2) = LeftOf(j, sc[j], row) /\ (ScanOK(j, sc[j], row2) <=> ScanOK(j, sc[j], row))
    BY <1>2, <2>1, LeftAgrees
  <2>4. PointAt(j, row2) = PointAt(j, row)
    BY <1>2, <2>1, AgreeNext
  <2> QED
    BY <2>2, <2>3, <2>4 DEF Left
<1>5. \A j \in 1..(i - 1) : j \in 1..i
  BY <1>1
<1>6. \A r : \A j \in 1..(i - 1) : Leads(j, r, sc2, fin2, row2) <=> Leads(j, r, sc, fin, row)
  BY <1>3, <1>4, <1>5, Zenon DEF Leads
<1> QED
  BY <1>3, <1>4, <1>6, Zenon

\* Before the search everything is to be found.
LEMMA TodoFresh ==
  ASSUME query \in Queries, NEW sc, NEW fin, NEW row, sc[1] = NewScan(1), fin[1] = FALSE
  PROVE  TodoOf(1, sc, fin, row) = Rows
<1>1. 1 \in Op
  BY PatternEnds
<1>2. ASSUME NEW r \in Rows PROVE Leads(1, r, sc, fin, row)
  <2>1. Agree(r, row, 1)
    BY SeenVarsGrow DEF Agree
  <2> QED
    BY <1>1, <2>1, FreshLeft DEF Leads, Left
<1> QED
  BY <1>2 DEF TodoOf

\* An operation at its end leads nowhere: reset changes nothing.
LEMMA TodoReset ==
  ASSUME query \in Queries, NEW i \in Op, NEW sc, NEW fin, NEW row, NEW sc2, NEW fin2,
         SameBefore(i, sc, fin, sc2, fin2),
         fin[i]
  PROVE  TodoOf(i - 1, sc2, fin2, row) = TodoOf(i, sc, fin, row)
<1>1. i \in Nat /\ i >= 1
  BY PatternEnds
<1>2. \A r : \A j \in 1..(i - 1) : Leads(j, r, sc2, fin2, row) <=> Leads(j, r, sc, fin, row)
  BY EarlierLead, AgreeSelf
<1>3. \A r : ~Leads(i, r, sc, fin, row)
  BY DEF Leads, Left
<1>4. \A j : j \in 1..i <=> j \in 1..(i - 1) \/ j = i
  BY <1>1, Places
<1> QED
  BY <1>2, <1>3, <1>4 DEF TodoOf

\* Operation i gives a point, which goes into the row.
Given(i, sc, fin, row, sc2, fin2, row2) ==
  /\ SameBefore(i, sc, fin, sc2, fin2) /\ Agree(row2, row, i)
  /\ PointAt(i, row2) \in Left(i, sc, fin, row)
  /\ Left(i, sc2, fin2, row2) = Left(i, sc, fin, row) \ {PointAt(i, row2)}

\* The point an operation gives: the rows it leads to are those of the other
\* points and those that agree with the row now at hand.
LEMMA GivenLead ==
  ASSUME query \in Queries, NEW i \in Op, NEW sc, NEW fin, NEW row, NEW sc2, NEW fin2, NEW row2,
         Given(i, sc, fin, row, sc2, fin2, row2)
  PROVE  /\ \A r : Leads(i, r, sc, fin, row) <=> Leads(i, r, sc2, fin2, row2) \/ Agree(r, row2, i + 1)
         /\ \A r : Agree(r, row2, i + 1) => ~Leads(i, r, sc2, fin2, row2)
<1>1. i \in 1..i
  BY PatternEnds
<1>2. \A r : Agree(r, row2, i) <=> Agree(r, row, i)
  BY <1>1, EarlierLead DEF Given
<1>3. \A r : Agree(r, row2, i + 1) <=> Agree(r, row2, i) /\ PointAt(i, r) = PointAt(i, row2)
  BY AgreeNext
<1> QED
  BY <1>2, <1>3 DEF Leads, Given

AtStart(k, sc, fin) == sc[k] = NewScan(k) /\ fin[k] = FALSE

\* A value, and more operations to come.
LEMMA TodoForward ==
  ASSUME query \in Queries, NEW i \in Op, NEW sc, NEW fin, NEW row, NEW sc2, NEW fin2, NEW row2,
         Given(i, sc, fin, row, sc2, fin2, row2),
         NEW k \in Op, k = i + 1, AtStart(k, sc2, fin2)
  PROVE  TodoOf(k, sc2, fin2, row2) = TodoOf(i, sc, fin, row)
<1>1. i \in Nat /\ i >= 1
  BY PatternEnds
<1>2. \A r : \A j \in 1..(i - 1) : Leads(j, r, sc2, fin2, row2) <=> Leads(j, r, sc, fin, row)
  BY EarlierLead DEF Given
<1>3. \A r : Leads(i, r, sc, fin, row) <=> Leads(i, r, sc2, fin2, row2) \/ Agree(r, row2, i + 1)
  BY GivenLead
<1>4. \A r \in Rows : Leads(i + 1, r, sc2, fin2, row2) <=> Agree(r, row2, i + 1)
  BY FreshLeft DEF Leads, Left, AtStart
<1>5. /\ \A j : j \in 1..(i + 1) <=> j \in 1..(i - 1) \/ j = i \/ j = i + 1
      /\ \A j : j \in 1..i <=> j \in 1..(i - 1) \/ j = i
  BY <1>1, Places
<1>6. ASSUME NEW r \in Rows
      PROVE  (\E j \in 1..(i + 1) : Leads(j, r, sc2, fin2, row2)) <=> (\E j \in 1..i : Leads(j, r, sc, fin, row))
  BY <1>2, <1>3, <1>4, <1>5, Zenon
<1> QED
  BY <1>6 DEF TodoOf

\* A value of the last operation: the row it completes is found.
LEMMA TodoFound ==
  ASSUME query \in Queries, NEW sc, NEW fin, NEW row, NEW sc2, NEW fin2, NEW row2 \in Rows,
         Given(LastOp, sc, fin, row, sc2, fin2, row2),
         \A j \in 1..(LastOp - 1) : PointAt(j, row) \notin Left(j, sc, fin, row)
  PROVE  /\ TodoOf(LastOp, sc2, fin2, row2) = TodoOf(LastOp, sc, fin, row) \ {row2}
         /\ row2 \in TodoOf(LastOp, sc, fin, row)
<1> DEFINE n == LastOp
<1>1. n \in Nat /\ n \in Op /\ n \in 1..n
  BY PatternEnds
<1>2. /\ \A r : \A j \in 1..(n - 1) : Leads(j, r, sc2, fin2, row2) <=> Leads(j, r, sc, fin, row)
      /\ \A j \in 1..(n - 1) : PointAt(j, row2) = PointAt(j, row)
  BY <1>1, EarlierLead DEF Given
<1>3. /\ \A r : Leads(n, r, sc, fin, row) <=> Leads(n, r, sc2, fin2, row2) \/ Agree(r, row2, n + 1)
      /\ \A r : Agree(r, row2, n + 1) => ~Leads(n, r, sc2, fin2, row2)
  BY <1>1, GivenLead
<1>4. \A r \in Rows : Agree(r, row2, n + 1) <=> r = row2
  BY AgreeAll, AgreeSelf, RowsAreRows
<1>5. \A j : j \in 1..n <=> j \in 1..(n - 1) \/ j = n
  BY <1>1
<1>6. \A j \in 1..(n - 1) : ~Leads(j, row2, sc, fin, row)
  BY <1>2 DEF Leads
<1> HIDE DEF n
<1>7. ASSUME NEW r \in Rows
      PROVE  (\E j \in 1..n : Leads(j, r, sc2, fin2, row2)) <=> r # row2 /\ (\E j \in 1..n : Leads(j, r, sc, fin, row))
  BY <1>2, <1>3, <1>4, <1>5, <1>6, Zenon
<1>8. \E j \in 1..n : Leads(j, row2, sc, fin, row)
  BY <1>1, <1>3, <1>4
<1> QED
  BY <1>7, <1>8 DEF TodoOf, n

\* No value: the operation led nowhere and does not now.
LEMMA TodoNone ==
  ASSUME query \in Queries, NEW i \in Op, NEW sc, NEW fin, NEW row, NEW sc2, NEW fin2,
         SameBefore(i, sc, fin, sc2, fin2),
         Left(i, sc, fin, row) = {}, fin2[i]
  PROVE  TodoOf(i, sc2, fin2, row) = TodoOf(i, sc, fin, row)
<1>1. i \in Nat /\ i >= 1
  BY PatternEnds
<1>2. \A r : \A j \in 1..(i - 1) : Leads(j, r, sc2, fin2, row) <=> Leads(j, r, sc, fin, row)
  BY EarlierLead, AgreeSelf
<1>3. \A r : ~Leads(i, r, sc, fin, row) /\ ~Leads(i, r, sc2, fin2, row)
  BY DEF Leads, Left
<1>4. \A j : j \in 1..i <=> j \in 1..(i - 1) \/ j = i
  BY <1>1, Places
<1> QED
  BY <1>2, <1>3, <1>4 DEF TodoOf
-----------------------------------------------------------------------------
(* The query and the trees do not change, nor does what is made of them.   *)

LEMMA StaticQuery ==
  ASSUME UNCHANGED <<query, trees>>
  PROVE  /\ Patterns' = Patterns /\ Op' = Op /\ LastOp' = LastOp
         /\ Variables' = Variables /\ Width' = Width
         /\ \A v : FirstAt(v)' = FirstAt(v) /\ HeaderPos(v)' = HeaderPos(v)
         /\ AllPredicatesHaveTrees' = AllPredicatesHaveTrees
         /\ \A i : Tree(i)' = Tree(i)
         /\ CacheIds' = CacheIds
<1>1. Patterns' = Patterns /\ Op' = Op /\ LastOp' = LastOp
  BY DEF Patterns, Op, LastOp
<1>2. \A k : TermAt(k)' = TermAt(k)
  BY <1>1 DEF TermAt
<1>3. Variables' = Variables
  BY <1>1, <1>2 DEF Variables
<1>4. Width' = Width
  BY <1>3 DEF Width
<1>5. \A v : FirstAt(v)' = FirstAt(v)
  BY <1>1, <1>2 DEF FirstAt
<1>6. \A v : HeaderPos(v)' = HeaderPos(v)
  BY <1>3, <1>5 DEF HeaderPos
<1>7. \A i : Tree(i)' = Tree(i)
  BY <1>1 DEF Tree
<1>8. AllPredicatesHaveTrees' = AllPredicatesHaveTrees
  BY <1>1 DEF AllPredicatesHaveTrees
<1>9. CacheIds' = CacheIds
  BY DEF CacheIds
<1> QED
  BY <1>1, <1>3, <1>4, <1>5, <1>6, <1>7, <1>8, <1>9

LEMMA StaticRows ==
  ASSUME UNCHANGED <<query, trees>>
  PROVE  /\ \A i, r : PointAt(i, r)' = PointAt(i, r)
         /\ Rows' = Rows
         /\ \A S : Found(S)' = Found(S)
         /\ \A r : Permuted(r)' = Permuted(r) /\ IsRow(r)' = IsRow(r)
         /\ Solutions' = Solutions
<1>1. \A term, r : RowEnd(term, r)' = RowEnd(term, r)
  BY StaticQuery DEF RowEnd
<1>2. \A i, r : PointAt(i, r)' = PointAt(i, r)
  BY <1>1, StaticQuery DEF PointAt
<1>3. Rows' = Rows
  <2> DEFINE All(r) == \A i \in Op : PointAt(i, r) \in Tree(i)
             F == [1..Width -> CacheIds]
  <2>1. \A r : All(r)' <=> All(r)
    BY <1>2, StaticQuery
  <2>2. F' = F
    BY StaticQuery
  <2>3. Rows = IF AllPredicatesHaveTrees THEN {r \in F : All(r)} ELSE {}
    BY DEF Rows
  <2>4. Rows' = IF AllPredicatesHaveTrees' THEN {r \in F' : All(r)'} ELSE {}
    BY DEF Rows
  <2> HIDE DEF All, F
  <2>5. AllPredicatesHaveTrees' = AllPredicatesHaveTrees
    BY StaticQuery
  <2>6. {r \in F' : All(r)'} = {r \in F : All(r)}
    BY <2>1, <2>2
  <2> QED
    BY <2>3, <2>4, <2>5, <2>6
<1>4. Permutation' = Permutation
  BY StaticQuery DEF Permutation
<1>5. \A r : Permuted(r)' = Permuted(r)
  BY <1>4 DEF Permuted
<1>6. \A S : Found(S)' = Found(S)
  BY <1>5 DEF Found
<1>7. \A r : IsRow(r)' = IsRow(r)
  BY StaticQuery DEF IsRow
<1>8. Solutions' = Solutions
  BY StaticQuery DEF Solutions, End
<1> QED
  BY <1>2, <1>3, <1>5, <1>6, <1>7, <1>8

LEMMA StaticOps ==
  ASSUME UNCHANGED <<query, trees>>
  PROVE  /\ \A i : NewScan(i)' = NewScan(i)
         /\ \A i, sc, row : ScanOK(i, sc, row)' <=> ScanOK(i, sc, row)
         /\ \A i, sc, fin, row : Left(i, sc, fin, row)' = Left(i, sc, fin, row)
         /\ \A k, sc, fin, row : TodoOf(k, sc, fin, row)' = TodoOf(k, sc, fin, row)
         /\ \A k, sc, fin, row : Search(k, sc, fin, row)' <=> Search(k, sc, fin, row)
<1>1. \A i, term : Seen(i, term)' = Seen(i, term)
  BY StaticQuery DEF Seen
<1>2. \A i : OpKind(i)' = OpKind(i)
  BY <1>1, StaticQuery DEF OpKind
<1>3. \A i : Scans(i)' = Scans(i) /\ Joins(i)' = Joins(i)
  BY <1>2 DEF Scans, Joins
<1>4. \A i, end, band : BandScanner(i, end, band)' = BandScanner(i, end, band)
  BY StaticQuery DEF BandScanner
<1>5. \A i : BuildScanner(i)' = BuildScanner(i)
  BY <1>4, StaticQuery DEF BuildScanner, FullScanner
<1>6. \A i : NewScan(i)' = NewScan(i)
  BY <1>2, <1>5 DEF NewScan
<1>7. \A i : SeenEnd(i)' = SeenEnd(i)
  BY <1>1, StaticQuery DEF SeenEnd
<1>8. \A i, row : Band(i, row)' = Band(i, row)
  BY <1>7, StaticQuery DEF Band, RowEnd
<1>9. \A i, sc, row : ScanOK(i, sc, row)' <=> ScanOK(i, sc, row)
  BY <1>3, <1>4, <1>5, <1>7, <1>8 DEF ScanOK
<1>10. \A i, sc, row : LeftOf(i, sc, row)' = LeftOf(i, sc, row)
  BY <1>3, <1>4, <1>7, <1>8, StaticQuery, StaticRows DEF LeftOf
<1>11. \A i, sc, fin, row : Left(i, sc, fin, row)' = Left(i, sc, fin, row)
  BY <1>10 DEF Left
<1>12. \A i : SeenVars(i)' = SeenVars(i)
  BY StaticQuery DEF SeenVars
<1>13. \A r, t, i : Agree(r, t, i)' <=> Agree(r, t, i)
  BY <1>12, StaticQuery DEF Agree
<1>14. \A j, r, sc, fin, row : Leads(j, r, sc, fin, row)' <=> Leads(j, r, sc, fin, row)
  BY <1>11, <1>13, StaticRows DEF Leads
<1>15. \A k, sc, fin, row : TodoOf(k, sc, fin, row)' = TodoOf(k, sc, fin, row)
  BY <1>14, StaticRows DEF TodoOf
<1>16. \A k, sc, fin, row : Search(k, sc, fin, row)' <=> Search(k, sc, fin, row)
  BY <1>6, <1>9, <1>11, StaticQuery, StaticRows DEF Search
<1> QED
  BY <1>6, <1>9, <1>11, <1>15, <1>16
-----------------------------------------------------------------------------
(* The search goes on.                                                     *)

\* A row that makes a point of every pattern is one of the answer.
LEMMA FullRow ==
  ASSUME query \in Queries, trees \in TreeMaps, AllPredicatesHaveTrees, NEW r, IsRow(r),
         \A i \in Op : PointAt(i, r) \in Tree(i)
  PROVE  r \in Rows
<1>1. ASSUME NEW k \in 1..Width PROVE r[k] \in CacheIds
  <2>1. PICK v \in Variables : HeaderPos(v) = k
    BY Positions
  <2>2. PICK i \in Op : Patterns[i].s = <<"var", v>> \/ Patterns[i].o = <<"var", v>>
    <3>1. FirstAt(v) \in 1..(2 * LastOp) /\ TermAt(FirstAt(v)) = <<"var", v>>
      BY FirstOccurrence
    <3>2. PICK i \in Op : FirstAt(v) = 2 * i - 1 \/ FirstAt(v) = 2 * i
      BY <3>1, PatternEnds
    <3> QED
      BY <3>1, <3>2, PatternEnds
  <2>3. PointAt(i, r)[1] = r[k] \/ PointAt(i, r)[2] = r[k]
    BY <2>1, <2>2 DEF PointAt, RowEnd, IsVar
  <2>4. PointAt(i, r)[1] \in CacheIds /\ PointAt(i, r)[2] \in CacheIds
    BY TreePoints
  <2> QED
    BY <2>3, <2>4
<1>2. r \in [1..Width -> CacheIds]
  BY <1>1 DEF IsRow
<1> QED
  BY <1>2 DEF Rows

LEMMA SearchFresh ==
  ASSUME query \in Queries, NEW row, IsRow(row)
  PROVE  Search(1, [i \in Op |-> NewScan(i)], [i \in Op |-> FALSE], row)
<1> DEFINE sc == [i \in Op |-> NewScan(i)]
           fin == [i \in Op |-> FALSE]
<1>1. DOMAIN sc = Op /\ \A j \in Op : sc[j] = NewScan(j) /\ fin[j] = FALSE
  OBVIOUS
<1>2. /\ \A j \in (1 + 1)..LastOp : j \in Op
      /\ \A j \in 1..1 : j \in Op
      /\ 1..(1 - 1) = {}
  BY PatternEnds
<1>3. \A j \in 1..1 : ScanOK(j, sc[j], row)
  BY <1>1, <1>2, FreshOK
<1> HIDE DEF sc, fin
<1>4. Search(1, sc, fin, row)
  BY <1>1, <1>2, <1>3 DEF Search
<1> QED
  BY <1>4 DEF sc, fin

LEMMA SearchReset ==
  ASSUME query \in Queries, NEW i \in Op, NEW sc, NEW fin, NEW row,
         DOMAIN fin = Op, Search(i, sc, fin, row)
  PROVE  Search(i - 1, [sc EXCEPT ![i] = NewScan(i)], [fin EXCEPT ![i] = FALSE], row)
<1> DEFINE sc2 == [sc EXCEPT ![i] = NewScan(i)]
           fin2 == [fin EXCEPT ![i] = FALSE]
<1>1. LastOp \in Nat /\ Op = 1..LastOp /\ i \in Nat /\ i >= 1 /\ DOMAIN sc = Op
  BY PatternEnds DEF Search
<1>2. /\ DOMAIN sc2 = Op /\ sc2[i] = NewScan(i) /\ fin2[i] = FALSE
      /\ \A j \in Op : j # i => sc2[j] = sc[j] /\ fin2[j] = fin[j]
  BY <1>1
<1> HIDE DEF sc2, fin2
<1>3. \A j \in ((i - 1) + 1)..LastOp : sc2[j] = NewScan(j) /\ fin2[j] = FALSE
  <2>1. \A j \in ((i - 1) + 1)..LastOp : j \in Op /\ (j = i \/ j \in (i + 1)..LastOp)
    BY <1>1
  <2>2. \A j \in (i + 1)..LastOp : sc[j] = NewScan(j) /\ fin[j] = FALSE
    BY DEF Search
  <2> QED
    BY <1>2, <2>1, <2>2
<1>4. \A j \in 1..(i - 1) : j \in Op /\ j # i /\ j \in 1..i
  BY <1>1
<1>5. \A j \in 1..(i - 1) : ScanOK(j, sc2[j], row)
  BY <1>2, <1>4 DEF Search
<1>6. \A j \in 1..((i - 1) - 1) : j \in 1..(i - 1)
  BY <1>1
<1>7. \A j \in 1..((i - 1) - 1) : PointAt(j, row) \in Tree(j) \ Left(j, sc2, fin2, row)
  <2>1. \A j \in 1..(i - 1) : Left(j, sc2, fin2, row) = Left(j, sc, fin, row)
    BY <1>2, <1>4 DEF Left
  <2> QED
    BY <1>6, <2>1 DEF Search
<1>8. Search(i - 1, sc2, fin2, row)
  BY <1>2, <1>3, <1>5, <1>7 DEF Search
<1> QED
  BY <1>8 DEF sc2, fin2

\* The outcome is stored.
Stepped(i, o, sc2, fin2) ==
  /\ sc2 = [scan EXCEPT ![i] = o.scan] /\ fin2 = [finished_ops EXCEPT ![i] = o.scan_done]

\* What run leaves of the scanners, the row and the rows to be found.
LEMMA SearchOutcome ==
  ASSUME query \in Queries, trees \in TreeMaps, AllPredicatesHaveTrees,
         NEW i \in Op, finished_ops \in [Op -> BOOLEAN], ~finished_ops[i],
         Search(i, scan, finished_ops, tmp_holder), NEW o \in Outcomes(i),
         NEW sc2, NEW fin2, Stepped(i, o, sc2, fin2)
  PROVE  /\ o.ticks \in {1, 2} /\ o.valid_value \in BOOLEAN /\ fin2 \in [Op -> BOOLEAN]
         /\ Search(i, sc2, fin2, o.row)
         /\ o.valid_value /\ i + 1 \in Op =>
              /\ Search(i + 1, sc2, fin2, o.row)
              /\ TodoOf(i + 1, sc2, fin2, o.row) = TodoOf(i, scan, finished_ops, tmp_holder)
         /\ o.valid_value /\ i = LastOp =>
              /\ o.row \in TodoOf(i, scan, finished_ops, tmp_holder)
              /\ TodoOf(i, sc2, fin2, o.row) = TodoOf(i, scan, finished_ops, tmp_holder) \ {o.row}
         /\ ~o.valid_value => TodoOf(i, sc2, fin2, o.row) = TodoOf(i, scan, finished_ops, tmp_holder)
<1> DEFINE left == Left(i, scan, finished_ops, tmp_holder)
<1>0. LastOp \in Nat /\ Op = 1..LastOp
  BY PatternEnds
<1>1. LastOp \in Nat /\ Op = 1..LastOp /\ i \in Nat /\ i >= 1 /\ i \in 1..i /\ DOMAIN scan = Op
  BY <1>0 DEF Search
<1>2. IsRow(tmp_holder) /\ ScanOK(i, scan[i], tmp_holder)
  BY <1>1 DEF Search
<1>3. OutcomeOK(i, o)
  BY <1>2, Outcome
<1>4. left = LeftOf(i, scan[i], tmp_holder)
  BY DEF Left
<1>5. /\ IsRow(o.row) /\ Agree(o.row, tmp_holder, i)
      /\ o.ticks \in {1, 2} /\ o.scan_done \in BOOLEAN /\ o.valid_value \in BOOLEAN
      /\ ScanOK(i, o.scan, o.row)
  BY <1>3 DEF OutcomeOK
<1>6. o.valid_value =>
           /\ PointAt(i, o.row) \in left /\ PointAt(i, o.row) \in Tree(i)
           /\ left \ {PointAt(i, o.row)} = IF o.scan_done THEN {} ELSE LeftOf(i, o.scan, o.row)
  BY <1>3, <1>4, Zenon DEF OutcomeOK
<1>7. ~o.valid_value => o.row = tmp_holder /\ o.scan_done /\ left = {}
  BY <1>3, <1>4, Zenon DEF OutcomeOK
<1>8. /\ DOMAIN sc2 = Op /\ sc2[i] = o.scan /\ fin2[i] = o.scan_done
      /\ \A j \in Op : j # i => sc2[j] = scan[j] /\ fin2[j] = finished_ops[j]
      /\ fin2 \in [Op -> BOOLEAN]
  BY <1>1, <1>5 DEF Stepped
<1>9. SameBefore(i, scan, finished_ops, sc2, fin2)
  <2>1. \A j \in 1..(i - 1) : j \in Op /\ j # i
    BY <1>1
  <2> QED
    BY <1>8, <2>1 DEF SameBefore
<1>10. Left(i, sc2, fin2, o.row) = IF o.scan_done THEN {} ELSE LeftOf(i, o.scan, o.row)
  BY <1>8 DEF Left
<1>11. \A j \in 1..(i - 1) :
         /\ Left(j, sc2, fin2, o.row) = Left(j, scan, finished_ops, tmp_holder)
         /\ PointAt(j, o.row) = PointAt(j, tmp_holder)
         /\ ScanOK(j, sc2[j], o.row) <=> ScanOK(j, scan[j], tmp_holder)
  BY <1>5, <1>9, EarlierLead
<1> HIDE DEF left
<1>12. \A j \in (i + 1)..LastOp : sc2[j] = NewScan(j) /\ fin2[j] = FALSE
  <2>1. \A j \in (i + 1)..LastOp : j \in Op /\ j # i
    BY <1>1
  <2>2. \A j \in (i + 1)..LastOp : scan[j] = NewScan(j) /\ finished_ops[j] = FALSE
    BY DEF Search
  <2> QED
    BY <1>8, <2>1, <2>2
<1>13. \A j \in 1..i : ScanOK(j, sc2[j], o.row)
  <2>1. \A j \in 1..i : ScanOK(j, scan[j], tmp_holder)
    BY DEF Search
  <2>2. \A j \in 1..i : j \in 1..(i - 1) \/ j = i
    BY <1>1, Places
  <2> QED
    BY <1>5, <1>8, <1>11, <2>1, <2>2, Zenon
<1>14. \A j \in 1..(i - 1) : PointAt(j, o.row) \in Tree(j) \ Left(j, sc2, fin2, o.row)
  BY <1>11 DEF Search
<1>15. Search(i, sc2, fin2, o.row)
  BY <1>5, <1>8, <1>12, <1>13, <1>14 DEF Search
<1>16. ASSUME o.valid_value
       PROVE  /\ PointAt(i, o.row) \in left /\ PointAt(i, o.row) \in Tree(i)
              /\ Left(i, sc2, fin2, o.row) = left \ {PointAt(i, o.row)}
              /\ Given(i, scan, finished_ops, tmp_holder, sc2, fin2, o.row)
  <2>1. /\ PointAt(i, o.row) \in left /\ PointAt(i, o.row) \in Tree(i)
        /\ Left(i, sc2, fin2, o.row) = left \ {PointAt(i, o.row)}
    BY <1>6, <1>10, <1>16
  <2> QED
    BY <1>5, <1>9, <2>1 DEF Given, left
<1>17. ASSUME o.valid_value, i + 1 \in Op
       PROVE  /\ Search(i + 1, sc2, fin2, o.row)
              /\ TodoOf(i + 1, sc2, fin2, o.row) = TodoOf(i, scan, finished_ops, tmp_holder)
  <2>1. i + 1 \in (i + 1)..LastOp
    BY <1>1, <1>17
  <2>2. sc2[i + 1] = NewScan(i + 1) /\ fin2[i + 1] = FALSE
    BY <1>12, <2>1
  <2>3. TodoOf(i + 1, sc2, fin2, o.row) = TodoOf(i, scan, finished_ops, tmp_holder)
    <3>1. Given(i, scan, finished_ops, tmp_holder, sc2, fin2, o.row)
      BY <1>16, <1>17
    <3> DEFINE k == i + 1
    <3>2. k \in Op /\ k = i + 1 /\ AtStart(k, sc2, fin2)
      BY <1>17, <2>2 DEF AtStart
    <3> HIDE DEF k
    <3>3. TodoOf(k, sc2, fin2, o.row) = TodoOf(i, scan, finished_ops, tmp_holder)
      BY <3>1, <3>2, TodoForward
    <3> QED
      BY <3>3 DEF k
  <2>4. \A j \in ((i + 1) + 1)..LastOp : j \in (i + 1)..LastOp
    BY <1>1
  <2>5. ScanOK(i + 1, sc2[i + 1], o.row)
    BY <2>2, FreshOK
  <2>6. \A j \in 1..(i + 1) : j \in 1..i \/ j = i + 1
    BY <1>1
  <2>7. \A j \in 1..(i + 1) : ScanOK(j, sc2[j], o.row)
    BY <1>13, <2>5, <2>6
  <2>8. \A j \in 1..((i + 1) - 1) : j \in 1..(i - 1) \/ j = i
    BY <1>1
  <2>9. \A j \in 1..((i + 1) - 1) : PointAt(j, o.row) \in Tree(j) \ Left(j, sc2, fin2, o.row)
    BY <1>14, <1>16, <1>17, <2>8
  <2>10. Search(i + 1, sc2, fin2, o.row)
    BY <1>5, <1>8, <1>12, <2>4, <2>7, <2>9 DEF Search
  <2> QED
    BY <2>3, <2>10
<1>18. ASSUME o.valid_value, i = LastOp
       PROVE  /\ o.row \in TodoOf(i, scan, finished_ops, tmp_holder)
              /\ TodoOf(i, sc2, fin2, o.row) = TodoOf(i, scan, finished_ops, tmp_holder) \ {o.row}
  <2>1. \A j \in Op : j \in 1..(i - 1) \/ j = i
    BY <1>1, <1>18
  <2>2. o.row \in Rows
    BY <1>5, <1>14, <1>16, <1>18, <2>1, FullRow
  <2>3. \A j \in 1..(i - 1) : PointAt(j, tmp_holder) \notin Left(j, scan, finished_ops, tmp_holder)
    BY DEF Search
  <2> QED
    BY <1>16, <1>18, <2>2, <2>3, TodoFound
<1>19. ASSUME ~o.valid_value
       PROVE  TodoOf(i, sc2, fin2, o.row) = TodoOf(i, scan, finished_ops, tmp_holder)
  <2>1. o.row = tmp_holder /\ fin2[i] /\ Left(i, scan, finished_ops, tmp_holder) = {}
    BY <1>7, <1>8, <1>19 DEF left
  <2>2. TodoOf(i, sc2, fin2, tmp_holder) = TodoOf(i, scan, finished_ops, tmp_holder)
    BY <1>9, <2>1, TodoNone
  <2> QED
    BY <2>1, <2>2
<1> QED
  BY <1>5, <1>8, <1>15, <1>17, <1>18, <1>19
-----------------------------------------------------------------------------
(* The invariant, step by step.                                            *)

LEMMA Primed ==
  ASSUME UNCHANGED <<query, trees>>
  PROVE  /\ Todo' = TodoOf(s_i', scan', finished_ops', tmp_holder')
         /\ Running' <=> ~time_has_passed' /\ AllPredicatesHaveTrees /\ pc' # "request"
         /\ RowInv' <=> Pending' \subseteq Rows /\ sent' \subseteq Found(Rows)
         /\ SearchInv' <=> /\ Search(s_i', scan', finished_ops', tmp_holder')
                           /\ pc' = "last" => s_i' \in {0, LastOp}
                           /\ pc' \in {"batch", "client", "done"} /\ ~next_available' => s_i' = 0
         /\ TodoInv' <=> /\ Pending' \cap TodoOf(s_i', scan', finished_ops', tmp_holder') = {}
                         /\ sent' = Found(Rows \ (TodoOf(s_i', scan', finished_ops', tmp_holder') \cup Pending'))
                         /\ ~repeated'
<1>1. Todo' = TodoOf(s_i', scan', finished_ops', tmp_holder')
  BY StaticOps DEF Todo
<1>2. Running' <=> ~time_has_passed' /\ AllPredicatesHaveTrees /\ pc' # "request"
  BY StaticQuery DEF Running
<1>3. RowInv' <=> Pending' \subseteq Rows /\ sent' \subseteq Found(Rows)
  BY StaticRows DEF RowInv
<1>4. Search(s_i, scan, finished_ops, tmp_holder)' <=> Search(s_i', scan', finished_ops', tmp_holder')
  BY StaticOps
<1>5. SearchInv' <=> /\ Search(s_i', scan', finished_ops', tmp_holder')
                     /\ pc' = "last" => s_i' \in {0, LastOp}
                     /\ pc' \in {"batch", "client", "done"} /\ ~next_available' => s_i' = 0
  BY <1>4, StaticQuery DEF SearchInv
<1>6. TodoInv' <=> /\ Pending' \cap TodoOf(s_i', scan', finished_ops', tmp_holder') = {}
                   /\ sent' = Found(Rows \ (TodoOf(s_i', scan', finished_ops', tmp_holder') \cup Pending'))
                   /\ ~repeated'
  <2>1. TodoInv' <=> /\ Pending' \cap Todo' = {}
                     /\ sent' = Found(Rows \ (Todo \cup Pending))'
                     /\ ~repeated'
    BY DEF TodoInv
  <2>2. Found(Rows \ (Todo \cup Pending))' = Found(Rows \ (Todo' \cup Pending'))
    BY StaticRows DEF Found
  <2> QED
    BY <1>1, <2>1, <2>2
<1> QED
  BY <1>1, <1>2, <1>3, <1>5, <1>6

\* A step that sends nothing and finds nothing.
LEMMA Kept ==
  ASSUME JoinInv, UNCHANGED <<query, trees, sent, repeated>>, ControlInv', IdleInv', Pending' = Pending,
         Running' => /\ Running
                     /\ Search(s_i', scan', finished_ops', tmp_holder')
                     /\ TodoOf(s_i', scan', finished_ops', tmp_holder') = Todo
                     /\ pc' = "last" => s_i' \in {0, LastOp}
                     /\ pc' \in {"batch", "client", "done"} /\ ~next_available' => s_i' = 0
  PROVE  JoinInv'
<1>1. RowInv'
  BY Primed DEF JoinInv, RowInv
<1>2. ASSUME Running' PROVE SearchInv' /\ TodoInv'
  <2>1. Running /\ TodoInv
    BY <1>2 DEF JoinInv
  <2>2. SearchInv'
    BY <1>2, Primed
  <2>3. TodoInv'
    BY <1>2, <2>1, Primed DEF TodoInv
  <2> QED
    BY <2>2, <2>3
<1> QED
  BY <1>1, <1>2 DEF JoinInv

\* The same when the operations are left alone.
LEMMA KeptAll ==
  ASSUME JoinInv, UNCHANGED <<query, trees, sent, repeated, scan, tmp_holder, s_i, finished_ops>>,
         ControlInv', IdleInv', Pending' = Pending,
         Running' => /\ Running
                     /\ pc' = "last" => s_i \in {0, LastOp}
                     /\ pc' \in {"batch", "client", "done"} /\ ~next_available' => s_i = 0
  PROVE  JoinInv'
<1>1. Running => Search(s_i, scan, finished_ops, tmp_holder)
  BY DEF JoinInv, SearchInv
<1>2. TodoOf(s_i', scan', finished_ops', tmp_holder') = Todo
  BY DEF Todo
<1>3. Running' => Search(s_i', scan', finished_ops', tmp_holder')
  BY <1>1
<1> QED
  BY <1>2, <1>3, Kept

LEMMA InitJoin ==
  ASSUME Init
  PROVE  JoinInv
<1>1. query \in Queries /\ LastOp \in Nat \ {0}
  BY PatternEnds DEF Init
<1>2. IsRow(tmp_holder)
  BY DEF Init, IsRow, Width
<1>3. ControlInv
  <2>1. s_i \in 0..LastOp /\ finished_ops \in [Op -> BOOLEAN] /\ trees \in TreeMaps
    BY <1>1 DEF Init
  <2>2. /\ pc = "request" /\ caller = "constructor" /\ next_available = FALSE /\ repeated = FALSE
        /\ is_last = FALSE /\ time_has_passed = FALSE
    BY DEF Init
  <2> QED
    BY <1>1, <2>1, <2>2 DEF ControlInv, Searching
<1>4. IdleInv
  BY <1>2 DEF Init, IdleInv
<1>5. RowInv /\ ~Running
  BY DEF Init, RowInv, Pending, Searching, Running
<1> QED
  BY <1>3, <1>4, <1>5 DEF JoinInv

LEMMA ExpireKeeps ==
  ASSUME JoinInv, UNCHANGED <<query, trees, streamVars, iterVars, timeVars, pc, caller>>
  PROVE  JoinInv'
<1>1. UNCHANGED <<query, trees, sent, repeated, is_last, scan, tmp_holder, next_value, next_available, s_i,
                  finished_ops, result, time_has_passed, pc, caller>>
  BY DEF streamVars, iterVars, timeVars
<1>2. ControlInv'
  BY <1>1, StaticQuery DEF JoinInv, ControlInv, Searching
<1>3. IdleInv'
  BY <1>1, StaticQuery, StaticRows DEF JoinInv, IdleInv
<1>4. Pending' = Pending
  BY <1>1 DEF Pending, Searching
<1>5. Running' => /\ Running
                  /\ pc' = "last" => s_i \in {0, LastOp}
                  /\ pc' \in {"batch", "client", "done"} /\ ~next_available' => s_i = 0
  BY <1>1, Primed DEF JoinInv, SearchInv, Running
<1> QED
  BY <1>1, <1>2, <1>3, <1>4, <1>5, KeptAll

LEMMA NextRowKeeps ==
  ASSUME JoinInv, NextRow
  PROVE  JoinInv'
<1>1. /\ UNCHANGED <<query, trees, sent, repeated, is_last, scan, tmp_holder, next_value, next_available, s_i,
                     finished_ops, result, time_has_passed>>
      /\ pc = "batch" /\ next_available /\ pc' = "next_concrete" /\ caller' = "streamer"
  BY DEF NextRow, streamVars, iterVars, timeVars
<1>2. AllPredicatesHaveTrees
  BY <1>1 DEF JoinInv, IdleInv
<1>3. ControlInv'
  BY <1>1, StaticQuery DEF JoinInv, ControlInv, Searching
<1>4. IdleInv'
  BY <1>1, <1>2, StaticQuery DEF IdleInv
<1>5. Pending' = Pending
  BY <1>1 DEF Pending, Searching
<1>6. Running' => /\ Running
                  /\ pc' = "last" => s_i \in {0, LastOp}
                  /\ pc' \in {"batch", "client", "done"} /\ ~next_available' => s_i = 0
  BY <1>1, Primed DEF Running
<1> QED
  BY <1>1, <1>3, <1>4, <1>5, <1>6, KeptAll

LEMMA SendMessageKeeps ==
  ASSUME JoinInv, SendMessage
  PROVE  JoinInv'
<1>1. /\ UNCHANGED <<query, trees, sent, repeated, scan, tmp_holder, next_value, next_available, s_i,
                     finished_ops, result, time_has_passed, caller>>
      /\ pc = "batch" /\ is_last' = ~next_available
      /\ pc' = IF next_available THEN "client" ELSE "done"
  BY DEF SendMessage, iterVars, timeVars
<1>2. next_available => AllPredicatesHaveTrees
  BY DEF JoinInv, IdleInv
<1>3. ControlInv'
  <2>1. CASE next_available
    BY <1>1, <2>1, StaticQuery DEF JoinInv, ControlInv, Searching
  <2>2. CASE ~next_available
    BY <1>1, <2>2, StaticQuery DEF JoinInv, ControlInv, Searching
  <2> QED
    BY <2>1, <2>2
<1>4. IdleInv'
  <2>1. CASE next_available
    BY <1>1, <1>2, <2>1, StaticQuery DEF IdleInv
  <2>2. CASE ~next_available
    BY <1>1, <2>2, StaticQuery DEF JoinInv, IdleInv
  <2> QED
    BY <2>1, <2>2
<1>5. Pending' = Pending
  BY <1>1 DEF Pending, Searching
<1>6. Running' => /\ Running
                  /\ pc' = "last" => s_i \in {0, LastOp}
                  /\ pc' \in {"batch", "client", "done"} /\ ~next_available' => s_i = 0
  BY <1>1, Primed DEF Running, JoinInv, SearchInv
<1> QED
  BY <1>1, <1>3, <1>4, <1>5, <1>6, KeptAll

LEMMA AskMoreKeeps ==
  ASSUME JoinInv, AskMore
  PROVE  JoinInv'
<1>1. /\ UNCHANGED <<query, trees, sent, repeated, is_last, scan, tmp_holder, next_value, next_available, s_i,
                     finished_ops, result, time_has_passed, caller>>
      /\ pc = "client" /\ pc' = "batch"
  BY DEF AskMore, iterVars, timeVars
<1>2. next_available /\ AllPredicatesHaveTrees
  BY <1>1 DEF JoinInv, ControlInv, IdleInv
<1>3. ControlInv'
  BY <1>1, StaticQuery DEF JoinInv, ControlInv, Searching
<1>4. IdleInv'
  BY <1>1, <1>2, StaticQuery DEF IdleInv
<1>5. Pending' = Pending
  BY <1>1 DEF Pending, Searching
<1>6. Running' => /\ Running
                  /\ pc' = "last" => s_i \in {0, LastOp}
                  /\ pc' \in {"batch", "client", "done"} /\ ~next_available' => s_i = 0
  BY <1>1, <1>2, Primed DEF Running
<1> QED
  BY <1>1, <1>3, <1>4, <1>5, <1>6, KeptAll

\* The request is in next_concrete: there are operations to run.
LEMMA HasTrees ==
  ASSUME JoinInv, pc \in {"next_concrete", "ops_until_last", "ops", "last"}
  PROVE  AllPredicatesHaveTrees /\ (~time_has_passed => Running)
BY DEF JoinInv, IdleInv, Running

LEMMA TickTimes ==
  /\ \A k : Tick(k) => ~time_has_passed /\ time_has_passed' = time_has_passed
  /\ \A k : TickFails(k) => time_has_passed' = TRUE
BY DEF Tick, TicksPass, TickFails

LEMMA OpsUntilLastKeeps ==
  ASSUME JoinInv, OpsUntilLast
  PROVE  JoinInv'
<1>1. /\ UNCHANGED <<query, trees, sent, repeated, is_last, scan, tmp_holder, next_value, next_available, s_i,
                     finished_ops, result, caller>>
      /\ pc = "ops_until_last"
      /\ (time_has_passed' = time_has_passed /\ pc' = "ops") \/ (time_has_passed' = TRUE /\ pc' = "last")
  BY TickTimes DEF OpsUntilLast, streamVars, iterVars
<1>2. AllPredicatesHaveTrees
  BY <1>1, HasTrees
<1>3. ControlInv'
  BY <1>1, StaticQuery DEF JoinInv, ControlInv, Searching
<1>4. IdleInv'
  BY <1>1, <1>2, StaticQuery DEF IdleInv
<1>5. Pending' = Pending
  BY <1>1 DEF Pending, Searching
<1>6. Running' => /\ Running
                  /\ pc' = "last" => s_i \in {0, LastOp}
                  /\ pc' \in {"batch", "client", "done"} /\ ~next_available' => s_i = 0
  BY <1>1, Primed DEF Running
<1> QED
  BY <1>1, <1>3, <1>4, <1>5, <1>6, KeptAll

LEMMA FoundUnion ==
  ASSUME NEW S, NEW T
  PROVE  Found(S \cup T) = Found(S) \cup Found(T)
BY DEF Found

\* The caller of next_concrete decides whether there is a row to return.
LEMMA PendingRow ==
  ASSUME JoinInv
  PROVE  /\ pc = "next_concrete" /\ caller = "streamer" => Pending = {next_value}
         /\ Searching /\ caller = "streamer" => Pending = {result}
         /\ pc = "next_concrete" \/ Searching => (caller = "constructor" => Pending = {})
         /\ caller \in {"constructor", "streamer"}
BY DEF JoinInv, ControlInv, Pending, Searching

\* next_concrete returns: the pending row is sent, and while the query runs it
\* was not sent before.
LEMMA ReturnSends ==
  ASSUME JoinInv, NEW row, Return(row),
         caller = "streamer" => Pending = {row}, caller = "constructor" => Pending = {}
  PROVE  /\ sent' = sent \cup Found(Pending) /\ sent' \subseteq Found(Rows)
         /\ repeated' \in BOOLEAN /\ (repeated => repeated') /\ (Running => ~repeated')
         /\ pc' = "batch" /\ is_last' = is_last
<1>1. /\ query \in Queries /\ trees \in TreeMaps /\ caller \in {"constructor", "streamer"} /\ repeated \in BOOLEAN
      /\ Pending \subseteq Rows /\ sent \subseteq Found(Rows)
  BY DEF JoinInv, ControlInv, RowInv
<1>2. pc' = "batch" /\ is_last' = is_last
  BY DEF Return
<1>3. CASE caller = "constructor"
  <2>1. sent' = sent /\ repeated' = repeated /\ Found(Pending) = {}
    BY <1>3 DEF Return, Found
  <2>2. Running => ~repeated
    BY DEF JoinInv, TodoInv
  <2> QED
    BY <1>1, <1>2, <2>1, <2>2
<1>4. CASE caller = "streamer"
  <2>1. /\ sent' = sent \cup {Permuted(row)} /\ repeated' = (repeated \/ Permuted(row) \in sent)
    BY <1>4 DEF Return
  <2>2. Found(Pending) = {Permuted(row)} /\ row \in Rows
    BY <1>1, <1>4 DEF Found
  <2>3. sent' = sent \cup Found(Pending)
    BY <2>1, <2>2
  <2>4. sent' \subseteq Found(Rows)
    BY <1>1, <2>1, <2>2 DEF Found
  <2>5. ASSUME Running PROVE ~repeated /\ Permuted(row) \notin sent
    <3>1. ~repeated /\ sent = Found(Rows \ (Todo \cup Pending))
      BY <2>5 DEF JoinInv, TodoInv
    <3>2. \A r \in Rows : Permuted(r) = Permuted(row) => r = row
      BY <1>1, <2>2, PermutedInjective
    <3>3. row \in Pending
      BY <1>4
    <3> QED
      BY <3>1, <3>2, <3>3 DEF Found
  <2>6. repeated' \in BOOLEAN /\ (repeated => repeated') /\ (Running => ~repeated')
    BY <2>1, <2>5
  <2> QED
    BY <1>2, <2>3, <2>4, <2>6
<1> QED
  BY <1>1, <1>3, <1>4

\* The invariant after a return: a row that is now pending was to be found.
LEMMA ReturnKeeps ==
  ASSUME JoinInv, UNCHANGED <<query, trees>>, ControlInv', IdleInv', Pending' \subseteq Rows,
         sent' = sent \cup Found(Pending), sent' \subseteq Found(Rows), Running => ~repeated',
         Running' => /\ Running
                     /\ Search(s_i', scan', finished_ops', tmp_holder')
                     /\ TodoOf(s_i', scan', finished_ops', tmp_holder') = Todo \ Pending'
                     /\ Pending' \subseteq Todo
                     /\ pc' = "last" => s_i' \in {0, LastOp}
                     /\ pc' \in {"batch", "client", "done"} /\ ~next_available' => s_i' = 0
  PROVE  JoinInv'
<1>1. RowInv'
  BY Primed
<1>2. ASSUME Running' PROVE SearchInv' /\ TodoInv'
  <2> DEFINE todo == TodoOf(s_i', scan', finished_ops', tmp_holder')
             found == Rows \ (Todo \cup Pending)
  <2>1. /\ Running /\ Pending \cap Todo = {} /\ sent = Found(found) /\ Pending \subseteq Rows
        /\ todo = Todo \ Pending' /\ Pending' \subseteq Todo /\ ~repeated'
    BY <1>2 DEF JoinInv, TodoInv, RowInv
  <2>2. SearchInv'
    BY <1>2, Primed
  <2>3. found \cup Pending = Rows \ (todo \cup Pending')
    BY <2>1
  <2>4. sent' = Found(found \cup Pending)
    BY <2>1, FoundUnion
  <2>5. sent' = Found(Rows \ (todo \cup Pending'))
    BY <2>3, <2>4
  <2>6. Pending' \cap todo = {}
    BY <2>1
  <2>7. TodoInv'
    BY <2>1, <2>5, <2>6, Primed
  <2> QED
    BY <2>2, <2>7
<1> QED
  BY <1>1, <1>2 DEF JoinInv

LEMMA NextConcreteKeeps ==
  ASSUME JoinInv, NextConcrete
  PROVE  JoinInv'
<1>1. /\ UNCHANGED <<query, trees, scan, tmp_holder, next_value, s_i, finished_ops, caller>>
      /\ pc = "next_concrete"
  BY DEF NextConcrete
<1>2. AllPredicatesHaveTrees
  BY <1>1, HasTrees
<1>3. CASE /\ time_has_passed' = TRUE /\ Return(next_value) /\ UNCHANGED <<next_available, result>>
  <2>1. /\ sent' = sent \cup Found(Pending) /\ sent' \subseteq Found(Rows)
        /\ repeated' \in BOOLEAN /\ (Running => ~repeated')
        /\ pc' = "batch" /\ is_last' = is_last
    BY <1>1, <1>3, PendingRow, ReturnSends
  <2>2. ControlInv'
    BY <1>1, <1>3, <2>1, StaticQuery DEF JoinInv, ControlInv, Searching
  <2>3. IdleInv'
    BY <1>1, <1>2, <2>1, StaticQuery DEF IdleInv
  <2>4. Pending' \subseteq Rows
    BY <1>1, <1>3, <2>1 DEF Pending, Searching, JoinInv, RowInv
  <2>5. ~Running'
    BY <1>3 DEF Running
  <2> QED
    BY <1>1, <2>1, <2>2, <2>3, <2>4, <2>5, ReturnKeeps
<1>4. CASE /\ ~time_has_passed /\ time_has_passed' = time_has_passed /\ result' = next_value /\ next_available' = FALSE
           /\ pc' = "ops_until_last" /\ UNCHANGED streamVars
  <2>1. UNCHANGED <<sent, repeated, is_last>>
    BY <1>4 DEF streamVars
  <2>2. ControlInv'
    BY <1>1, <1>4, <2>1, StaticQuery DEF JoinInv, ControlInv, Searching
  <2>3. IdleInv'
    BY <1>1, <1>2, <1>4, StaticQuery DEF IdleInv
  <2>4. Pending' = Pending
    BY <1>1, <1>4 DEF Pending, Searching, JoinInv, ControlInv
  <2>5. Running' => /\ Running
                    /\ pc' = "last" => s_i \in {0, LastOp}
                    /\ pc' \in {"batch", "client", "done"} /\ ~next_available' => s_i = 0
    BY <1>1, <1>4, HasTrees
  <2> QED
    BY <1>1, <2>1, <2>2, <2>3, <2>4, <2>5, KeptAll
<1> QED
  BY <1>3, <1>4, TickTimes DEF NextConcrete

LEMMA ExecuteKeeps ==
  ASSUME JoinInv, Execute
  PROVE  JoinInv'
<1>1. /\ UNCHANGED <<query, trees, sent, repeated, is_last, tmp_holder, next_value, next_available, s_i,
                     finished_ops, result, time_has_passed, caller>>
      /\ pc = "request"
  BY DEF Execute, streamVars, timeVars
<1>2. /\ caller = "constructor" /\ s_i = 1 /\ finished_ops = [i \in Op |-> FALSE] /\ IsRow(tmp_holder)
      /\ sent = {} /\ ~repeated /\ ~next_available /\ ~time_has_passed /\ query \in Queries
  BY <1>1 DEF JoinInv, IdleInv, ControlInv
<1>3. pc' \in {"next_concrete", "batch"} /\ (AllPredicatesHaveTrees => pc' = "next_concrete")
      /\ (~AllPredicatesHaveTrees => pc' = "batch")
  BY DEF Execute
<1>4. ControlInv'
  BY <1>1, <1>2, <1>3, StaticQuery DEF JoinInv, ControlInv, Searching
<1>5. IdleInv'
  BY <1>1, <1>2, <1>3, StaticQuery DEF IdleInv
<1>6. Pending' = {}
  BY <1>1, <1>2, <1>3 DEF Pending, Searching
<1>7. RowInv'
  BY <1>1, <1>2, <1>6, Primed
<1>8. ASSUME Running' PROVE SearchInv' /\ TodoInv'
  <2>1. AllPredicatesHaveTrees
    BY <1>1, <1>8, Primed
  <2>2. scan' = [i \in Op |-> NewScan(i)] /\ pc' = "next_concrete"
    BY <2>1 DEF Execute
  <2>3. Search(s_i', scan', finished_ops', tmp_holder')
    BY <1>1, <1>2, <2>2, SearchFresh
  <2>4. SearchInv'
    BY <1>1, <2>2, <2>3, Primed
  <2>5. scan'[1] = NewScan(1) /\ finished_ops'[1] = FALSE
    BY <1>1, <1>2, <2>2, PatternEnds
  <2>6. TodoOf(s_i', scan', finished_ops', tmp_holder') = Rows
    BY <1>1, <1>2, <2>5, TodoFresh
  <2>7. Found(Rows \ (Rows \cup {})) = {}
    BY DEF Found
  <2>8. TodoInv'
    BY <1>1, <1>2, <1>6, <2>6, <2>7, Primed
  <2> QED
    BY <2>4, <2>8
<1> QED
  BY <1>4, <1>5, <1>7, <1>8 DEF JoinInv

\* reset, in ops_until_last or after it.
LEMMA ResetKeeps ==
  ASSUME JoinInv, Searching, s_i \in Op, finished_ops[s_i], Reset(s_i), pc' \in {"ops", "ops_until_last"},
         UNCHANGED <<query, trees, sent, repeated, is_last, tmp_holder, next_value, next_available, result,
                     time_has_passed, caller>>
  PROVE  JoinInv'
<1>1. /\ query \in Queries /\ LastOp \in Nat /\ Op = 1..LastOp /\ finished_ops \in [Op -> BOOLEAN]
  BY PatternEnds DEF JoinInv, ControlInv
<1>2. /\ scan' = [scan EXCEPT ![s_i] = NewScan(s_i)] /\ finished_ops' = [finished_ops EXCEPT ![s_i] = FALSE]
      /\ s_i' = s_i - 1
  BY DEF Reset
<1>3. s_i' \in 0..LastOp /\ finished_ops' \in [Op -> BOOLEAN] /\ DOMAIN finished_ops = Op
  BY <1>1, <1>2
<1>4. ControlInv'
  BY <1>3, StaticQuery DEF JoinInv, ControlInv, Searching
<1>5. IdleInv'
  <2>1. AllPredicatesHaveTrees
    BY HasTrees DEF Searching
  <2> QED
    BY <2>1, StaticQuery DEF IdleInv
<1>6. Pending' = Pending
  BY DEF Pending, Searching
<1>7. ASSUME Running'
      PROVE  /\ Running
             /\ Search(s_i', scan', finished_ops', tmp_holder')
             /\ TodoOf(s_i', scan', finished_ops', tmp_holder') = Todo
  <2>1. Running
    BY <1>7, Primed DEF Running, Searching
  <2>2. Search(s_i, scan, finished_ops, tmp_holder)
    BY <2>1 DEF JoinInv, SearchInv
  <2>3. Search(s_i', scan', finished_ops', tmp_holder')
    BY <1>1, <1>2, <1>3, <2>2, SearchReset
  <2>4. SameBefore(s_i, scan, finished_ops, scan', finished_ops')
    <3>1. DOMAIN scan = Op
      BY <2>2 DEF Search
    <3>2. \A j \in 1..(s_i - 1) : j \in Op /\ j # s_i
      BY <1>1
    <3> QED
      BY <1>2, <1>3, <3>1, <3>2 DEF SameBefore
  <2>5. TodoOf(s_i - 1, scan', finished_ops', tmp_holder) = TodoOf(s_i, scan, finished_ops, tmp_holder)
    BY <1>1, <2>4, TodoReset
  <2> QED
    BY <1>2, <2>1, <2>3, <2>5 DEF Todo
<1> QED
  BY <1>4, <1>5, <1>6, <1>7, Kept

\* An operation runs and the search goes on: forward with a value, or at the
\* same operation, which is at its end.
LEMMA RunKeeps ==
  ASSUME JoinInv, Searching, ~time_has_passed, s_i \in Op, ~finished_ops[s_i],
         NEW o \in Outcomes(s_i),
         scan' = [scan EXCEPT ![s_i] = o.scan], tmp_holder' = o.row,
         finished_ops' = [finished_ops EXCEPT ![s_i] = o.scan_done],
         \/ o.valid_value /\ s_i + 1 \in Op /\ s_i' = s_i + 1
         \/ ~o.valid_value /\ s_i' = s_i,
         pc' \in {"ops", "ops_until_last"},
         UNCHANGED <<query, trees, sent, repeated, is_last, next_value, next_available, result,
                     time_has_passed, caller>>
  PROVE  JoinInv'
<1>1. /\ query \in Queries /\ trees \in TreeMaps /\ LastOp \in Nat /\ Op = 1..LastOp
      /\ finished_ops \in [Op -> BOOLEAN]
  BY PatternEnds DEF JoinInv, ControlInv
<1>2. AllPredicatesHaveTrees /\ Running
  BY HasTrees DEF Searching
<1>3. Search(s_i, scan, finished_ops, tmp_holder)
  BY <1>2 DEF JoinInv, SearchInv
<1>4. Stepped(s_i, o, scan', finished_ops')
  BY DEF Stepped
<1>5. /\ finished_ops' \in [Op -> BOOLEAN]
      /\ Search(s_i, scan', finished_ops', o.row)
      /\ o.valid_value /\ s_i + 1 \in Op =>
           /\ Search(s_i + 1, scan', finished_ops', o.row)
           /\ TodoOf(s_i + 1, scan', finished_ops', o.row) = TodoOf(s_i, scan, finished_ops, tmp_holder)
      /\ ~o.valid_value => TodoOf(s_i, scan', finished_ops', o.row) = TodoOf(s_i, scan, finished_ops, tmp_holder)
  BY <1>1, <1>2, <1>3, <1>4, SearchOutcome
<1>6. s_i' \in 0..LastOp
  BY <1>1
<1>7. ControlInv'
  BY <1>5, <1>6, StaticQuery DEF JoinInv, ControlInv, Searching
<1>8. IdleInv'
  BY <1>2, StaticQuery DEF IdleInv
<1>9. Pending' = Pending
  BY DEF Pending, Searching
<1>10. /\ Search(s_i', scan', finished_ops', tmp_holder')
       /\ TodoOf(s_i', scan', finished_ops', tmp_holder') = Todo
  BY <1>5 DEF Todo
<1> QED
  BY <1>2, <1>7, <1>8, <1>9, <1>10, Kept

LEMMA OpsKeeps ==
  ASSUME JoinInv, Ops
  PROVE  JoinInv'
<1>1. /\ UNCHANGED <<query, trees, sent, repeated, is_last, next_value, next_available, result, caller>>
      /\ pc = "ops" /\ Searching
  BY DEF Ops, streamVars, Searching
<1>2. /\ query \in Queries /\ LastOp \in Nat /\ Op = 1..LastOp /\ s_i \in 0..LastOp
  BY PatternEnds DEF JoinInv, ControlInv
<1>3. AllPredicatesHaveTrees
  BY <1>1, HasTrees
<1>4. ASSUME UNCHANGED <<scan, tmp_holder, finished_ops, s_i>>, pc' = "last",
             \/ time_has_passed' = TRUE
             \/ time_has_passed' = time_has_passed /\ s_i \in {0, LastOp}
      PROVE  JoinInv'
  <2>1. ControlInv'
    BY <1>1, <1>4, StaticQuery DEF JoinInv, ControlInv, Searching
  <2>2. IdleInv'
    BY <1>1, <1>3, <1>4, StaticQuery DEF IdleInv
  <2>3. Pending' = Pending
    BY <1>1, <1>4 DEF Pending, Searching
  <2>4. Running' => /\ Running
                    /\ pc' = "last" => s_i \in {0, LastOp}
                    /\ pc' \in {"batch", "client", "done"} /\ ~next_available' => s_i = 0
    BY <1>1, <1>4, Primed DEF Running
  <2> QED
    BY <1>1, <1>4, <2>1, <2>2, <2>3, <2>4, KeptAll
<1>5. CASE s_i \in 1..(LastOp - 1)
  <2>1. s_i \in Op /\ s_i + 1 \in Op
    BY <1>2, <1>5
  <2>2. CASE finished_ops[s_i] /\ Reset(s_i) /\ UNCHANGED <<tmp_holder, timeVars, pc>>
    <3>1. UNCHANGED <<tmp_holder, time_has_passed, pc>>
      BY <2>2 DEF timeVars
    <3> QED
      BY <1>1, <2>1, <2>2, <3>1, ResetKeeps
  <2>3. ASSUME ~finished_ops[s_i], NEW o \in Outcomes(s_i), TickFails(o.ticks + 1), pc' = "last",
               UNCHANGED <<scan, tmp_holder, finished_ops, s_i>>
        PROVE  JoinInv'
    BY <1>4, <2>3, TickTimes
  <2>4. ASSUME ~finished_ops[s_i], NEW o \in Outcomes(s_i), Tick(o.ticks + 1),
               scan' = [scan EXCEPT ![s_i] = o.scan], tmp_holder' = o.row,
               finished_ops' = [finished_ops EXCEPT ![s_i] = o.scan_done],
               s_i' = IF o.valid_value THEN s_i + 1 ELSE s_i, UNCHANGED pc
        PROVE  JoinInv'
    <3>1. ~time_has_passed /\ time_has_passed' = time_has_passed
      BY <2>4, TickTimes
    <3>2. \/ o.valid_value /\ s_i + 1 \in Op /\ s_i' = s_i + 1
          \/ ~o.valid_value /\ s_i' = s_i
      BY <2>1, <2>4
    <3>3. pc' \in {"ops", "ops_until_last"}
      BY <1>1, <2>4
    <3> QED
      BY <1>1, <2>1, <2>4, <3>1, <3>2, <3>3, RunKeeps
  <2> QED
    BY <1>5, <2>2, <2>3, <2>4 DEF Ops
<1>6. CASE s_i \notin 1..(LastOp - 1)
  <2>1. pc' = "last" /\ UNCHANGED <<scan, tmp_holder, finished_ops, s_i, time_has_passed>>
    BY <1>6 DEF Ops, timeVars
  <2>2. s_i \in {0, LastOp}
    BY <1>2, <1>6
  <2> QED
    BY <1>4, <2>1, <2>2
<1> QED
  BY <1>5, <1>6

LEMMA LastKeeps ==
  ASSUME JoinInv, Last
  PROVE  JoinInv'
<1>1. /\ UNCHANGED <<query, trees, result, caller>> /\ pc = "last" /\ Searching
  BY DEF Last, Searching
<1>2. /\ query \in Queries /\ trees \in TreeMaps /\ LastOp \in Nat /\ Op = 1..LastOp /\ s_i \in 0..LastOp
      /\ finished_ops \in [Op -> BOOLEAN] /\ ~next_available /\ next_available \in BOOLEAN
  BY <1>1, PatternEnds DEF JoinInv, ControlInv
<1>3. AllPredicatesHaveTrees /\ (~time_has_passed => Running)
  BY <1>1, HasTrees
<1>4. ASSUME Return(result)
      PROVE  /\ sent' = sent \cup Found(Pending) /\ sent' \subseteq Found(Rows)
             /\ repeated' \in BOOLEAN /\ (Running => ~repeated')
             /\ pc' = "batch" /\ is_last' = is_last
             /\ IdleInv'
  <2>1. /\ sent' = sent \cup Found(Pending) /\ sent' \subseteq Found(Rows)
        /\ repeated' \in BOOLEAN /\ (Running => ~repeated')
        /\ pc' = "batch" /\ is_last' = is_last
    BY <1>1, <1>4, PendingRow, ReturnSends
  <2>2. IdleInv'
    BY <1>1, <1>3, <2>1, StaticQuery DEF IdleInv
  <2> QED
    BY <2>1, <2>2
<1>5. CASE /\ s_i = 0 /\ next_available' = FALSE /\ Return(result)
           /\ UNCHANGED <<scan, tmp_holder, next_value, s_i, finished_ops, timeVars>>
  <2>1. UNCHANGED <<scan, tmp_holder, next_value, s_i, finished_ops, time_has_passed>>
    BY <1>5 DEF timeVars
  <2>2. ControlInv'
    <3>1. /\ next_available' = FALSE /\ pc' = "batch" /\ is_last' = is_last /\ repeated' \in BOOLEAN
      BY <1>4, <1>5
    <3> QED
      BY <1>1, <2>1, <3>1, StaticQuery DEF JoinInv, ControlInv, Searching
  <2>3. Pending' = {}
    BY <1>4, <1>5 DEF Pending, Searching
  <2>4. ASSUME Running'
        PROVE  /\ Running /\ Search(s_i', scan', finished_ops', tmp_holder')
               /\ TodoOf(s_i', scan', finished_ops', tmp_holder') = Todo \ Pending'
    <3>1. Running
      BY <1>3, <2>1, <2>4 DEF Running
    <3>2. Search(s_i, scan, finished_ops, tmp_holder)
      BY <3>1 DEF JoinInv, SearchInv
    <3> QED
      BY <2>1, <2>3, <3>1, <3>2 DEF Todo
  <2> QED
    BY <1>1, <1>4, <1>5, <2>1, <2>2, <2>3, <2>4, ReturnKeeps
<1>6. CASE /\ s_i > 0 /\ finished_ops[s_i] /\ Reset(s_i) /\ pc' = "ops_until_last"
           /\ UNCHANGED <<streamVars, tmp_holder, next_value, next_available, timeVars>>
  <2>1. UNCHANGED <<sent, repeated, is_last, tmp_holder, next_value, next_available, time_has_passed>>
    BY <1>6 DEF streamVars, timeVars
  <2>2. s_i \in Op
    BY <1>2, <1>6
  <2> QED
    BY <1>1, <1>6, <2>1, <2>2, ResetKeeps
<1>7. ASSUME s_i > 0, ~finished_ops[s_i], NEW o \in Outcomes(s_i), TickFails(o.ticks + 1), Return(result),
             UNCHANGED <<scan, tmp_holder, finished_ops, next_value, next_available, s_i>>
      PROVE  JoinInv'
  <2>1. time_has_passed' = TRUE
    BY <1>7, TickTimes
  <2>2. ControlInv'
    BY <1>1, <1>2, <1>4, <1>7, <2>1, StaticQuery DEF JoinInv, ControlInv, Searching
  <2>3. Pending' = {} /\ ~Running'
    BY <1>2, <1>4, <1>7, <2>1 DEF Pending, Searching, Running
  <2> QED
    BY <1>1, <1>4, <1>7, <2>2, <2>3, ReturnKeeps
<1>8. ASSUME s_i > 0, ~finished_ops[s_i], NEW o \in Outcomes(s_i), Tick(o.ticks + 1),
             scan' = [scan EXCEPT ![s_i] = o.scan], tmp_holder' = o.row,
             finished_ops' = [finished_ops EXCEPT ![s_i] = o.scan_done],
             o.valid_value, next_value' = o.row, next_available' = TRUE, Return(result), UNCHANGED s_i
      PROVE  JoinInv'
  <2>1. ~time_has_passed /\ time_has_passed' = time_has_passed
    BY <1>8, TickTimes
  <2>2. Running /\ s_i = LastOp /\ s_i \in Op
    <3>1. Running
      BY <1>3, <2>1
    <3>2. s_i \in {0, LastOp}
      BY <1>1, <3>1 DEF JoinInv, SearchInv
    <3> QED
      BY <1>2, <1>8, <3>1, <3>2
  <2>3. Search(s_i, scan, finished_ops, tmp_holder)
    BY <2>2 DEF JoinInv, SearchInv
  <2>4. Stepped(s_i, o, scan', finished_ops')
    BY <1>8 DEF Stepped
  <2>5. /\ finished_ops' \in [Op -> BOOLEAN]
        /\ Search(s_i, scan', finished_ops', o.row)
        /\ o.row \in TodoOf(s_i, scan, finished_ops, tmp_holder)
        /\ TodoOf(s_i, scan', finished_ops', o.row) = TodoOf(s_i, scan, finished_ops, tmp_holder) \ {o.row}
    <3>1. /\ finished_ops' \in [Op -> BOOLEAN]
          /\ Search(s_i, scan', finished_ops', o.row)
          /\ o.valid_value /\ s_i = LastOp =>
               /\ o.row \in TodoOf(s_i, scan, finished_ops, tmp_holder)
               /\ TodoOf(s_i, scan', finished_ops', o.row) = TodoOf(s_i, scan, finished_ops, tmp_holder) \ {o.row}
      <4>1. ~finished_ops[s_i] /\ o \in Outcomes(s_i)
        BY <1>8
      <4> QED
        BY <1>2, <1>3, <2>2, <2>3, <2>4, <4>1, SearchOutcome
    <3> QED
      BY <1>8, <2>2, <3>1
  <2>6. ControlInv'
    BY <1>1, <1>2, <1>4, <1>8, <2>1, <2>5, StaticQuery DEF JoinInv, ControlInv, Searching
  <2>7. Pending' = {o.row}
    BY <1>4, <1>8 DEF Pending, Searching
  <2>8. Todo = TodoOf(s_i, scan, finished_ops, tmp_holder) /\ Todo \subseteq Rows
    BY DEF Todo, TodoOf
  <2>9. Pending' \subseteq Rows /\ Pending' \subseteq Todo
    BY <2>5, <2>7, <2>8
  <2>10. /\ Search(s_i', scan', finished_ops', tmp_holder')
         /\ TodoOf(s_i', scan', finished_ops', tmp_holder') = Todo \ Pending'
    BY <1>8, <2>5, <2>7, <2>8
  <2> QED
    BY <1>1, <1>4, <1>8, <2>2, <2>6, <2>9, <2>10, ReturnKeeps
<1>9. ASSUME s_i > 0, ~finished_ops[s_i], NEW o \in Outcomes(s_i), Tick(o.ticks + 1),
             scan' = [scan EXCEPT ![s_i] = o.scan], tmp_holder' = o.row,
             finished_ops' = [finished_ops EXCEPT ![s_i] = o.scan_done],
             ~o.valid_value, pc' = "ops_until_last", UNCHANGED <<streamVars, next_value, next_available, s_i>>
      PROVE  JoinInv'
  <2>1. ~time_has_passed /\ time_has_passed' = time_has_passed
    BY <1>9, TickTimes
  <2>2. UNCHANGED <<sent, repeated, is_last, next_value, next_available, s_i>>
    BY <1>9 DEF streamVars
  <2>3. s_i \in Op
    BY <1>2, <1>9
  <2> QED
    BY <1>1, <1>9, <2>1, <2>2, <2>3, RunKeeps
<1> QED
  BY <1>5, <1>6, <1>7, <1>8, <1>9 DEF Last

LEMMA NextJoin ==
  ASSUME JoinInv, [Next]_vars
  PROVE  JoinInv'
<1>1. CASE UNCHANGED vars \/ Expire
  <2>1. UNCHANGED <<query, trees, streamVars, iterVars, timeVars, pc, caller>>
    BY <1>1 DEF vars, Expire
  <2> QED
    BY <2>1, ExpireKeeps
<1> QED
  BY <1>1, ExecuteKeeps, NextConcreteKeeps, OpsUntilLastKeeps, OpsKeeps, LastKeeps, NextRowKeeps,
     SendMessageKeeps, AskMoreKeeps DEF Next, Server

\* The inductive invariant of the join.
THEOREM JoinInvariant == Spec => []JoinInv
BY InitJoin, NextJoin, PTL DEF Spec
-----------------------------------------------------------------------------
(* The answer.                                                             *)

LEMMA QueryStays ==
  ASSUME [Next]_vars
  PROVE  UNCHANGED <<query, trees>>
BY DEF Next, Server, Execute, NextConcrete, OpsUntilLast, Ops, Last, NextRow, SendMessage, AskMore, Expire, vars

\* What a return means for the answer: the pending row is delivered while the
\* query runs.
LEMMA ReturnDelivers ==
  ASSUME JoinInv, UNCHANGED <<query, trees>>, pc = "next_concrete" \/ Searching,
         Return(IF Searching THEN result ELSE next_value)
  PROVE  /\ sent \subseteq sent' /\ (repeated => repeated') /\ is_last' = is_last /\ ~is_last
         /\ Running => /\ repeated' = repeated
                       /\ sent' = sent \/ \E row \in Solutions \ sent : sent' = sent \cup {row}
<1> DEFINE row == IF Searching THEN result ELSE next_value
<1>1. /\ query \in Queries /\ trees \in TreeMaps /\ repeated \in BOOLEAN /\ Pending \subseteq Rows /\ ~is_last
  BY DEF JoinInv, ControlInv, RowInv, Searching
<1>2. /\ caller = "streamer" => Pending = {row}
      /\ caller = "constructor" => Pending = {}
      /\ caller \in {"constructor", "streamer"}
  BY PendingRow
<1>3. /\ sent' = sent \cup Found(Pending) /\ repeated' \in BOOLEAN /\ (repeated => repeated')
      /\ (Running => ~repeated') /\ is_last' = is_last
  <2> HIDE DEF row
  <2>1. Return(row)
    BY DEF row
  <2> QED
    BY <1>2, <2>1, ReturnSends
<1> HIDE DEF row
<1>4. ASSUME Running
      PROVE  /\ repeated' = repeated
             /\ sent' = sent \/ \E x \in Solutions \ sent : sent' = sent \cup {x}
  <2>1. ~repeated /\ sent = Found(Rows \ (Todo \cup Pending))
    BY <1>4 DEF JoinInv, TodoInv
  <2>2. repeated' = repeated
    BY <1>1, <1>3, <1>4, <2>1
  <2>3. CASE Pending = {}
    BY <1>3, <2>2, <2>3 DEF Found
  <2>4. CASE Pending = {row}
    <3>1. row \in Rows /\ Found(Pending) = {Permuted(row)}
      BY <1>1, <2>4 DEF Found
    <3>2. \A r \in Rows : Permuted(r) = Permuted(row) => r = row
      BY <1>1, <3>1, PermutedInjective
    <3>3. Permuted(row) \notin sent
      BY <2>1, <2>4, <3>2 DEF Found
    <3>4. Permuted(row) \in Solutions
      BY <1>1, <3>1, SolutionsAreRows DEF Found
    <3>5. sent' = sent \cup {Permuted(row)}
      BY <1>3, <3>1
    <3> QED
      BY <2>2, <3>3, <3>4, <3>5
  <2> QED
    BY <1>2, <2>3, <2>4
<1> QED
  BY <1>1, <1>3, <1>4

\* What a step does to what the client sees.
Quiet == UNCHANGED <<sent, repeated, is_last, time_has_passed>>
Cuts ==
  /\ time_has_passed' = TRUE /\ sent \subseteq sent' /\ (repeated => repeated')
  /\ ~time_has_passed => ~is_last
Delivers ==
  /\ time_has_passed = FALSE /\ time_has_passed' = FALSE /\ is_last = FALSE /\ is_last' = FALSE /\ repeated' = repeated
  /\ sent' = sent \/ \E row \in Solutions \ sent : sent' = sent \cup {row}

LEMMA Effects ==
  ASSUME JoinInv, [Next]_vars
  PROVE  Quiet \/ Cuts \/ Delivers \/ SendMessage
<1>1. UNCHANGED <<query, trees>>
  BY QueryStays
<1>2. /\ time_has_passed \in BOOLEAN /\ is_last \in BOOLEAN /\ repeated \in BOOLEAN
      /\ is_last => pc = "done"
  BY DEF JoinInv, ControlInv
<1>3. CASE UNCHANGED vars \/ Expire \/ Execute \/ NextRow \/ AskMore
  BY <1>3 DEF Quiet, vars, Expire, Execute, NextRow, AskMore, streamVars, timeVars
<1>4. CASE OpsUntilLast
  BY <1>2, <1>4, TickTimes DEF Quiet, Cuts, OpsUntilLast, streamVars
<1>5. CASE Ops
  <2>1. pc = "ops" /\ UNCHANGED <<sent, repeated, is_last>>
    BY <1>5 DEF Ops, streamVars
  <2>2. time_has_passed' = time_has_passed \/ time_has_passed' = TRUE
    BY <1>5, TickTimes DEF Ops, timeVars
  <2> QED
    BY <1>2, <2>1, <2>2 DEF Quiet, Cuts
<1>6. CASE NextConcrete
  <2>1. pc = "next_concrete" /\ ~Searching
    BY <1>6 DEF NextConcrete, Searching
  <2>2. CASE time_has_passed' = TRUE /\ Return(next_value)
    <3>1. sent \subseteq sent' /\ (repeated => repeated') /\ ~is_last
      BY <1>1, <2>1, <2>2, ReturnDelivers
    <3> QED
      BY <2>2, <3>1 DEF Cuts
  <2>3. CASE time_has_passed' = time_has_passed /\ UNCHANGED streamVars
    BY <2>3 DEF Quiet, streamVars
  <2> QED
    BY <1>6, <2>2, <2>3, TickTimes DEF NextConcrete
<1>7. CASE Last
  <2>1. pc = "last" /\ Searching
    BY <1>7 DEF Last, Searching
  <2>2. CASE Return(result) /\ time_has_passed' = TRUE
    <3>1. sent \subseteq sent' /\ (repeated => repeated') /\ ~is_last
      BY <1>1, <2>1, <2>2, ReturnDelivers
    <3> QED
      BY <2>2, <3>1 DEF Cuts
  <2>3. CASE Return(result) /\ time_has_passed' = time_has_passed
    <3>1. /\ sent \subseteq sent' /\ (repeated => repeated') /\ is_last' = is_last /\ ~is_last
          /\ Running => /\ repeated' = repeated
                        /\ sent' = sent \/ \E row \in Solutions \ sent : sent' = sent \cup {row}
      BY <1>1, <2>1, <2>3, ReturnDelivers
    <3>2. CASE time_has_passed
      BY <1>2, <2>3, <3>1, <3>2 DEF Cuts
    <3>3. CASE ~time_has_passed
      <4>1. Running
        BY <2>1, <3>3, HasTrees
      <4> QED
        BY <1>2, <2>3, <3>1, <3>3, <4>1 DEF Delivers
    <3> QED
      BY <3>2, <3>3
  <2>4. CASE UNCHANGED streamVars /\ time_has_passed' = time_has_passed
    BY <2>4 DEF Quiet, streamVars
  <2> QED
    BY <1>7, <2>2, <2>3, <2>4, TickTimes DEF Last, timeVars
<1> QED
  BY <1>3, <1>4, <1>5, <1>6, <1>7 DEF Next, Server

\* A step of the join is a step of QueryAnswer or leaves the answer alone.
LEMMA AnswerStep ==
  ASSUME JoinInv, JoinInv', [Next]_vars
  PROVE  [Answer!Next]_(Answer!answerVars)
<1>1. UNCHANGED <<query, trees>>
  BY QueryStays
<1>2. /\ time_has_passed \in BOOLEAN /\ is_last \in BOOLEAN /\ repeated \in BOOLEAN
      /\ query \in Queries /\ trees \in TreeMaps /\ (is_last => pc = "done")
  BY DEF JoinInv, ControlInv
<1>3. Solutions' = Solutions /\ Solutions = Found(Rows)
  BY <1>1, <1>2, StaticRows, SolutionsAreRows
<1>4. CASE Quiet
  <2>1. Status' = Status
    BY <1>4 DEF Quiet, Status
  <2> QED
    BY <1>3, <1>4, <2>1 DEF Quiet, Answer!answerVars
<1>5. CASE Cuts
  <2>1. Status' = "cut" /\ Status \in {"open", "cut"}
    BY <1>2, <1>5 DEF Cuts, Status
  <2>2. sent' \subseteq Solutions
    BY <1>1, <1>3, Primed DEF JoinInv
  <2>3. Answer!Cut
    BY <1>3, <1>5, <2>1, <2>2 DEF Cuts, Answer!Cut
  <2> QED
    BY <2>3 DEF Answer!Next
<1>6. CASE Delivers
  <2>1. Status = "open" /\ Status' = "open"
    BY <1>6 DEF Delivers, Status
  <2>2. CASE sent' = sent
    BY <1>3, <1>6, <2>1, <2>2 DEF Delivers, Answer!answerVars
  <2>3. CASE \E row \in Solutions \ sent : sent' = sent \cup {row}
    <3>1. Answer!Deliver
      BY <1>3, <1>6, <2>1, <2>3 DEF Delivers, Answer!Deliver
    <3> QED
      BY <3>1 DEF Answer!Next
  <2> QED
    BY <1>6, <2>2, <2>3 DEF Delivers
<1>7. CASE SendMessage
  <2>1. /\ UNCHANGED <<sent, repeated, time_has_passed>> /\ pc = "batch" /\ is_last' = ~next_available
    BY <1>7 DEF SendMessage, timeVars
  <2>2. is_last = FALSE
    BY <1>2, <2>1
  <2>3. CASE time_has_passed \/ next_available
    <3>1. Status' = Status
      BY <1>2, <2>1, <2>2, <2>3 DEF Status
    <3> QED
      BY <1>3, <2>1, <3>1 DEF Answer!answerVars
  <2>4. CASE ~time_has_passed /\ ~next_available
    <3>1. Status = "open" /\ Status' = "complete"
      BY <1>2, <2>1, <2>2, <2>4 DEF Status
    <3>2. sent = Solutions
      <4>1. CASE AllPredicatesHaveTrees
        <5>1. Running /\ s_i = 0 /\ sent = Found(Rows \ (Todo \cup Pending))
          BY <2>1, <2>4, <4>1 DEF Running, JoinInv, SearchInv, TodoInv
        <5>2. Pending = {} /\ Todo = {}
          BY <2>1, <2>4, <5>1 DEF Pending, Searching, Todo, TodoOf
        <5>3. Rows \ (Todo \cup Pending) = Rows
          BY <5>2
        <5> QED
          BY <1>3, <5>1, <5>3
      <4>2. CASE ~AllPredicatesHaveTrees
        <5>1. sent = {} /\ Rows = {}
          BY <4>2 DEF JoinInv, IdleInv, Rows
        <5> QED
          BY <1>3, <5>1 DEF Found
      <4> QED
        BY <4>1, <4>2
    <3>3. Answer!Complete
      BY <1>3, <2>1, <3>1, <3>2 DEF Answer!Complete
    <3> QED
      BY <3>3 DEF Answer!Next
  <2> QED
    BY <2>3, <2>4
<1> QED
  BY <1>4, <1>5, <1>6, <1>7, Effects

\* AnswersQuery: BGPIterator and BGPStreamer implement QueryAnswer. Every row
\* sent is a solution, none is sent twice and none is missing when a message
\* says is_last, over batches, resets and changes of band; a query whose time
\* is over still sends only solutions.
THEOREM JoinAnswersQuery == Spec => AnswersQuery
<1>1. Init => Answer!Init
  BY DEF Init, Answer!Init, Status
<1>2. JoinInv /\ JoinInv' /\ [Next]_vars => [Answer!Next]_(Answer!answerVars)
  BY AnswerStep
<1> QED
  BY <1>1, <1>2, JoinInvariant, PTL DEF Spec, AnswersQuery, Answer!Spec
-----------------------------------------------------------------------------
(* After the timeout.                                                      *)

\* Once the time has passed no tick succeeds.
LEMMA NoTick ==
  ASSUME time_has_passed, NEW k
  PROVE  ~Tick(k)
BY DEF Tick, TicksPass

\* NothingNewAfterTimeout: when the clock ran out, next_value stays and a step
\* sends at most the row of next_concrete or the one it holds.
THEOREM NothingNew == Spec => NothingNewAfterTimeout
<1> DEFINE NothingFound ==
             /\ next_value' = next_value
             /\ sent' \subseteq sent \cup {Permuted(result), Permuted(next_value)}
<1>1. ASSUME [Next]_vars, time_has_passed
      PROVE  NothingFound
  <2>1. \A k : ~Tick(k)
    BY <1>1, NoTick
  <2>2. ASSUME NEW row \in {result, next_value}, Return(row)
        PROVE  sent' \subseteq sent \cup {Permuted(result), Permuted(next_value)}
    BY <2>2 DEF Return
  <2>3. CASE NextConcrete
    BY <2>1, <2>2, <2>3 DEF NextConcrete
  <2>4. CASE Last
    <3>1. CASE s_i = 0 /\ Return(result) /\ UNCHANGED next_value
      BY <2>2, <3>1
    <3>2. CASE UNCHANGED <<streamVars, next_value>>
      BY <3>2 DEF streamVars
    <3>3. CASE Return(result) /\ UNCHANGED next_value
      BY <2>2, <3>3
    <3> QED
      BY <2>1, <2>4, <3>1, <3>2, <3>3 DEF Last
  <2>5. CASE OpsUntilLast \/ Ops \/ Execute \/ NextRow \/ Expire
    BY <2>5 DEF OpsUntilLast, Ops, Execute, NextRow, Expire, streamVars, iterVars
  <2>6. CASE SendMessage \/ AskMore
    BY <2>6 DEF SendMessage, AskMore, iterVars
  <2>7. CASE UNCHANGED vars
    BY <2>7 DEF vars, streamVars, iterVars
  <2> QED
    BY <1>1, <2>3, <2>4, <2>5, <2>6, <2>7 DEF Next, Server
<1>2. [Next]_vars => [time_has_passed => NothingFound]_vars
  BY <1>1
<1> QED
  BY <1>2, PTL DEF Spec, NothingNewAfterTimeout
===========================================================================
