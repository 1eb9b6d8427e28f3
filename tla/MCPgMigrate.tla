---------------------------- MODULE MCPgMigrate ----------------------------
(***************************************************************************)
(* A schema for TLC: a with a key another table references, a generated    *)
(* column, an enum column with a default, a nullable column, a check, an   *)
(* index and a policy; a view over it and a view over that.                *)
(***************************************************************************)
EXTENDS PgMigrate

MCRelationOrder == <<"a", "b", "c", "v", "w">>
MCColumnOrder == <<"id", "x", "n", "m", "g", "z">>

Column(r, n, t, notNull) == [rel |-> r, name |-> n, type |-> t, notNull |-> notNull, default |-> FALSE, gen |-> {}]
Part(kind, r, n, cols) == [kind |-> kind, rel |-> r, name |-> n, cols |-> cols, ref |-> "", refCols |-> {}]

MCSource ==
  [tables |-> {"a", "b"},
   cols   |-> {Column("a", "id", "int", TRUE), Column("a", "x", "int", TRUE), Column("a", "n", "text", FALSE),
               [Column("a", "m", "mood", TRUE) EXCEPT !.default = TRUE],
               [Column("a", "g", "int", FALSE) EXCEPT !.gen = {"x"}],
               Column("b", "id", "int", TRUE), Column("b", "x", "int", TRUE)},
   parts  |-> {Part("key", "a", "a_key", {"x"}), Part("check", "a", "a_check", {"n"}),
               Part("index", "a", "a_index", {"g"}), Part("policy", "a", "a_policy", {"id"}),
               [Part("fk", "b", "b_fk", {"x"}) EXCEPT !.ref = "a", !.refCols = {"x"}]},
   views  |-> <<[name |-> "v", shows |-> <<[as |-> "x", of |-> <<"a", "x">>], [as |-> "m", of |-> <<"a", "m">>]>>,
                 where |-> {<<"a", "n">>}],
                [name |-> "w", shows |-> <<[as |-> "x", of |-> <<"v", "x">>]>>, where |-> {}]>>,
   labels |-> {"sad", "ok", "glad"}]

MCNulls == {<<"a", "n">>}
=============================================================================
