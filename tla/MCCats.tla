------------------------------- MODULE MCCats -------------------------------
(***************************************************************************)
(* Cats with three identifiers, texts numbered so that they can be sorted  *)
(* (11 begins with 1), and requests chosen for the corners of the checks.  *)
(***************************************************************************)
EXTENDS Cats

CONSTANTS k1, k2, k3, p1, p2

MCKitten == {[name |-> 1, breed |-> 1, age |-> 3]}
MCChange == {[name |-> 11], [breed |-> 2]}
MCPart == {<<1, 11>>}
MCSortAllowed == <<"createdAt", "breed">>

By(field, order) == [field |-> field, order |-> order]
For(field, values) == [field |-> field, values |-> values]
Query(page, limit, sort, search) == [page |-> page, limit |-> limit, sort |-> sort, search |-> search]

MCQueries ==
  {Query(NaN, NaN, <<>>, <<>>),
   Query(0, 7, <<By("breed", "asc")>>, <<For("name", <<11>>), For("breed", <<1, 2>>)>>),
   Query(2, 2, <<By("createdAt", ""), By("breed", "desc")>>, <<For("name", <<1, 11>>)>>),
   Query(3, 3, <<By("breed", "none"), By("", "asc")>>, <<For("age", <<>>)>>)}
  \cup {Query(2, 4, <<By("breed", "asc"), By("breed", "desc")>>,
                   <<For("id", <<k>>), For("breed", <<2>>)>>) : k \in Cat}

On(property, command, value) == [property |-> property, command |-> command, value |-> value]
MCSearches ==
  {<<On("name", "contains", {1}), On("breed", "not_equal", {2})>>,
   <<On("name", "not_contains", {11}), On("breed", "equal", {1, 2})>>}

Symmetry == Permutations(Caller) \cup Permutations(Cat)
=============================================================================
