---------------------------- MODULE JoinedRows ----------------------------
(***************************************************************************)
(* The rows a query level joins: for each leaf a row of it, or none where  *)
(* an outer join found none.  A column is a leaf and a name; a value is    *)
(* the set of the points in it: NULL has none, a scalar one, a range any.  *)
(***************************************************************************)
CONSTANT NoRow

Leaf(c) == c[1]
Name(c) == c[2]

Has(r, i) == r[i] # NoRow
Val(r, c) == r[Leaf(c)].vals[Name(c)]

\* SQL's equality: NULL is equal to nothing
Same(u, v) == u = v /\ u # {}
Overlap(u, v) == u \cap v # {}

\* two joined rows that both have a row of the leaf
Both(r, s, i) == Has(r, i) /\ Has(s, i)
=============================================================================
