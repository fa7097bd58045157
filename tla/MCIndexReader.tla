--------------------------- MODULE MCIndexReader ---------------------------
(* Small instance of IndexReader: every file of up to three triples of two  *)
(* predicates, one of four triples, which is split into two parts, and one  *)
(* of seven, which takes two levels of merges and has a tree whose blocks   *)
(* have a frontier two levels deep.                                         *)
EXTENDS IndexReader

MCTriples == {<<10, 20, 70>>, <<60, 20, 20>>, <<40, 30, 10>>}

MCInputs ==
    UNION {[1..k -> MCTriples] : k \in 0..3}
    \cup {<<<<40, 30, 10>>, <<60, 20, 20>>, <<10, 20, 70>>, <<60, 20, 20>>>>,
          <<<<40, 30, 10>>, <<10, 20, 10>>, <<20, 20, 10>>, <<30, 20, 30>>, <<10, 20, 20>>,
            <<80, 20, 80>>, <<10, 40, 10>>>>}

MCNewPoints == {<<7, 7>>}
=============================================================================
