-------------------------- MODULE MCServiceCatalog --------------------------
(* SecretNaming with a few handlers, keys, and names that slashes can confuse. *)
EXTENDS SecretNaming, CatalogRefinement, TLC

CONSTANTS h1, h2,
          d, p          \* the letters that spell an environment each

TwoHandlers == {h1, h2}
ThreeIds == 1 .. 3
Letters == {"a", "b", d, p}
Digits == {"1"}
Others == {"/", "newline", "A"}
Environments == {<<d>>, <<p>>}
ThreeNames == {<<"a">>, <<"a", "/", d>>, <<"a", "/", p>>}
LogicalNames ==
    {<<"b">>, <<"b", "1">>, <<"b", "-", "a">>, <<"b", "-">>, <<"1">>, <<"A">>, <<"b", "newline">>}
    \cup UNION {{<<c, "b">>, <<c, "/", "b">>, <<c, "/", "b", "newline">>} : c \in {d, p}}
Symmetry == Permutations(TwoHandlers) \cup Permutations({d, p})
=============================================================================
