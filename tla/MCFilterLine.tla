--------------------------- MODULE MCFilterLine ---------------------------
(* Three rows: one new and starred, one that holds the field's value, one awaiting approval. *)
EXTENDS FilterLine

MCRowOrder == <<"r1", "r2", "r3">>
Row(new, fav, pend, cf, holds) == [new |-> new, fav |-> fav, pend |-> pend, sched |-> FALSE, cf |-> cf, holds |-> holds]
MCFactSets == {[r \in Listed |-> CASE r = "r1" -> Row(TRUE, FALSE, FALSE, Unset, {"ab"})
                                 [] r = "r2" -> Row(FALSE, TRUE, FALSE, Value, {"ab"})
                                 [] OTHER -> Row(FALSE, TRUE, TRUE, Value, {})]}
MCSCOPES == <<"all", "new", "pending">>
\* The star's label starts with the text, the value's holds it.
MCRank(k, text) == CASE k = Star -> 0 [] k = Field -> 2 [] OTHER -> -1
\* The second row's name starts with it, the first's holds it.
MCMatch(r, text) == CASE r = "r2" -> 0 [] r = "r1" -> 1 [] OTHER -> -1
=============================================================================
