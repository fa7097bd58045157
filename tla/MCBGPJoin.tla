----------------------------- MODULE MCBGPJoin -----------------------------
(* Two nodes, two predicates and queries that need every kind of operation. *)
EXTENDS BGPJoin, TLC

MCRealId == (0 :> 11) @@ (1 :> 12) @@ (3 :> 21) @@ (4 :> 22)

V(x) == <<"var", x>>
N(x) == <<"node", x>>
Pattern(s, p, o) == [s |-> s, p |-> N(p), o |-> o]
Query(ps, names) == [patterns |-> ps, var_names |-> names]

MCQueries == {
    Query(<<Pattern(V("x"), 21, V("y")), Pattern(V("y"), 22, V("z"))>>, <<"z", "x", "y">>),
    Query(<<Pattern(V("x"), 21, V("y")), Pattern(V("z"), 22, V("y"))>>, <<"x", "y", "z">>),
    Query(<<Pattern(V("x"), 21, V("y")), Pattern(V("x"), 22, V("y"))>>, <<"y", "x">>),
    Query(<<Pattern(V("x"), 21, N(11)), Pattern(N(12), 22, V("y")), Pattern(V("y"), 21, V("x"))>>, <<"y", "x">>),
    Query(<<Pattern(V("x"), 21, N(11)), Pattern(V("x"), 22, N(12))>>, <<"x">>),
    Query(<<Pattern(V("x"), 21, V("y")), Pattern(N(11), 22, V("y"))>>, <<"x", "y">>),
    Query(<<Pattern(N(11), 21, N(12)), Pattern(V("x"), 22, V("y")), Pattern(V("x"), 21, V("x"))>>, <<"y", "x">>),
    Query(<<Pattern(N(11), 21, N(12))>>, <<>>),
    Query(<<Pattern(V("x"), 21, N(19)), Pattern(V("x"), 22, V("y"))>>, <<"x", "y">>)}

MCPoints == {
    {}, {<<0, 1>>}, {<<0, 0>>, <<1, 0>>}, {<<0, 0>>, <<0, 1>>, <<1, 0>>}}

MCTreeMaps ==
    {(3 :> a) @@ (4 :> b) : a \in MCPoints, b \in MCPoints} \cup {3 :> {<<0, 1>>}}
===========================================================================
