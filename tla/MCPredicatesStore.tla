------------------------- MODULE MCPredicatesStore --------------------------
(***************************************************************************)
(* PredicatesStore with two predicates and two points.                     *)
(***************************************************************************)
EXTENDS PredicatesStore

CONSTANTS a, b   \* points

MCPreds == {1, 2}
MCPoints == {a, b}

Insert(p, t) == [p |-> p, add |-> t, del |-> NoTree]
Delete(p, t) == [p |-> p, add |-> NoTree, del |-> t]
Both(p, t, u) == [p |-> p, add |-> t, del |-> u]

\* An index that holds both predicates and one that lacks the first.
Index(trees) == [trees |-> trees, twice |-> {}]
FullIndex == Index(1 :> {a} @@ 2 :> {})
SecondOnly == Index(2 :> {a})

\* Batches of every kind.
MixedBatches ==
  {<<Insert(1, {b})>>, <<Delete(1, {a})>>, <<Both(1, {a}, {b}), Insert(2, {b})>>}

\* Batches for the trace of the test.
Insertions == {<<Insert(1, {a})>>, <<Insert(1, {b})>>}
=============================================================================
