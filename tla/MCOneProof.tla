----------------------------- MODULE MCOneProof -----------------------------
(***************************************************************************)
(* Small instances of the One proof: levels of one or two leaves of two    *)
(* columns, at most two rows in each table, two values and NULL.           *)
(***************************************************************************)
EXTENDS Obliged

Key(columns) == [columns |-> columns, range |-> NoKey, where |-> {}]
PartialKey == [Key({"k"}) EXCEPT !.where = {Cond("=", <<1, "x">>, <<ConstTerm({0})>>)}]
TemporalKey == [Key({"k", "x"}) EXCEPT !.range = "x"]

Plain == [k |-> NotNull, x |-> Nullable]
Table(keys) ==
  [vals |-> Plain, keys |-> keys, stored |-> keys, outputs |-> {}, body |-> {}, one |-> FALSE,
   most |-> 2, refs |-> {}]
Output(at, name, col) == [at |-> at, name |-> name, col |-> col]
Sub(vals, outputs, body) ==
  [Table({}) EXCEPT !.vals = vals, !.stored = {Key({"bk"})}, !.outputs = outputs, !.body = body]

ForeignKey(columns, to, refs) ==
  [columns |-> columns, to |-> to, refs |-> refs, enforced |-> TRUE]
\* its rows refer to a parent; what is judged of one row, a second would not change
Child(tenants, fk) ==
  [Table({}) EXCEPT !.vals = [o |-> NotNull, t |-> tenants], !.refs = {fk}, !.most = 1]
Composite == ForeignKey(<<"o", "t">>, "parent", <<"k", "x">>)

\* an order of a tenant, its items (without a tenant, too; under a NOT ENFORCED key), its notes
Related ==
  [parent |-> [Table({Key({"k"}), Key({"k", "x"})}) EXCEPT !.vals = [k |-> NotNull, x |-> NotNull]],
   child |-> Child({{}, {0}, {1}}, Composite),
   strict |-> Child(NotNull, Composite),
   loose |-> Child(NotNull, [Composite EXCEPT !.enforced = FALSE]),
   note |-> Child(NotNull, ForeignKey(<<"o">>, "parent", <<"k">>))]

Lone ==
  [keyed |-> Table({Key({"k"})}),
   bare |-> Table({}),
   nullable |-> Table({Key({"x"})}),
   partial |-> Table({PartialKey}),
   temporal |-> [Table({TemporalKey}) EXCEPT !.vals = [k |-> NotNull, x |-> Ranges]],
   sub |-> Sub([k |-> NotNull, x |-> Nullable, bk |-> NotNull, bx |-> Nullable],
               {Output(1, "k", "bk"), Output(2, "x", "bx")}, {{"bk"}}),
   swapped |-> Sub([k |-> Nullable, x |-> NotNull, bk |-> NotNull, bx |-> Nullable],
                   {Output(1, "k", "bx"), Output(2, "x", "bk")}, {{"bk"}}),
   twice |-> Sub([k |-> Nullable, bk |-> NotNull, bx |-> Nullable],
                 {Output(1, "k", "bx"), Output(2, "x", "bk"), Output(3, "x", "bx")}, {{"bk"}}),
   limited |-> [Table({}) EXCEPT !.body = {{}}, !.most = 1],
   scalar |-> [Table({}) EXCEPT !.one = TRUE, !.most = 1]]

MCLeaves == Lone @@ Related

\* conditions about the leaf alone; its range takes no equality, an ambiguous name none at all
Own(i, name) ==
  {Cond("=", <<i, "k">>, <<ParamTerm>>)}
    \cup CASE name = "temporal" -> {Cond("@>", <<i, "x">>, <<ParamTerm>>)}
           [] name = "twice" -> {}
           [] OTHER -> {Cond("=", <<i, "x">>, <<ConstTerm({0})>>),
                        Cond("same", <<i, "x">>, <<ParamTerm>>)}
\* conditions that relate the two leaves
Between(name) ==
  {Cond("=", <<1, n>>, <<ColumnTerm(<<2, "k">>)>>) : n \in {"k", "x"}}
    \cup CASE name = "temporal" -> {Cond("@>", <<2, "x">>, <<ColumnTerm(<<1, "k">>)>>)}
           [] name = "twice" -> {}
           [] OTHER -> {Cond("=", <<1, n>>, <<ColumnTerm(<<2, "x">>)>>) : n \in {"k", "x"}}

UpTo(most, S) == {T \in SUBSET S : Cardinality(T) <= most}

Level(join, leaf, on, where) ==
  [join |-> join, leaf |-> leaf, on |-> on, where |-> where, limit |-> "none",
   grouped |-> FALSE, sets |-> FALSE, groups |-> {}, kind |-> "select", target |-> 0, writes |-> {}]

NoFrom == {Level("nothing", <<>>, {}, {})}
Alone == UNION {{Level("none", <<name>>, {}, w) : w \in UpTo(2, Own(1, name))} :
                  name \in DOMAIN Lone}
Pairs(joins, firsts, seconds, most) ==
  UNION {{Level(j, <<a, b>>, on, w) :
            j \in joins, on \in UpTo(most, Between(b) \cup Own(2, b)), w \in UpTo(1, Own(1, a))} :
           a \in firsts, b \in seconds}
Limits(levels) == {[q EXCEPT !.limit = "one"] : q \in levels}
Groups == {{ColumnTerm(<<1, "k">>)}, {ColumnTerm(<<1, "k">>), ColumnTerm(<<1, "x">>)},
           {ColumnTerm(<<1, "k">>), ParamTerm}, {ExprTerm}}
Grouped(levels, groups) ==
  {[q EXCEPT !.grouped = TRUE, !.groups = g] : q \in levels, g \in groups}
Sets(levels) == {[q EXCEPT !.sets = TRUE] : q \in levels}

Write(kind, set) == [kind |-> kind, set |-> set, inWith |-> FALSE]
Writing(levels, i, writes) ==
  {[q EXCEPT !.kind = w.kind, !.target = i, !.writes = {w}] : q \in levels, w \in writes}

Upsert(q, i, inserted, updated) ==
  [q EXCEPT !.kind = "insert", !.target = i,
            !.writes = {Write("insert", inserted), Write("update", updated)}]
InWith(levels, i, writes) ==
  {[q EXCEPT !.target = i, !.writes = {[w EXCEPT !.inWith = TRUE]}] : q \in levels, w \in writes}

\* obligations on a table: what it is called and what is asked when
Declared(table, is, kinds) ==
  [subject |-> table, kinds |-> kinds, is |-> is, col |-> NoColumn, pred |-> {}, exists |-> {},
   from |-> <<>>, aggregate |-> FALSE]
PinnedOn(table, col) ==
  [Declared(table, "pinned", {"select", "insert", "update", "delete"}) EXCEPT !.col = col]
PredicateOn(table, preds) == [Declared(table, "predicate", {"select"}) EXCEPT !.pred = preds]

\* the parent of the row has the tenant the statement is about
Locked ==
  [table |-> "parent",
   where |-> {Cond("=", <<1, "k">>, <<ColumnTerm(<<0, "o">>)>>),
              Cond("=", <<1, "x">>, <<ParamTerm>>)}]

MCDeclarations ==
  {PinnedOn(table, "t") : table \in {"child", "strict"}}
    \cup {[PinnedOn("note", "o") EXCEPT !.aggregate = TRUE], PinnedOn("parent", "x")}
    \cup {PredicateOn("child", {Cond(op, <<0, "t">>, terms)}) :
            <<op, terms>> \in {<<"not null", <<>>>>, <<"=", <<ParamTerm>>>>,
                              <<"=", <<ConstTerm({0})>>>>, <<"in", <<ConstTerm({0})>>>>}}
    \cup {[Declared("child", "predicate", {"update", "delete"}) EXCEPT !.exists = {Locked}],
          [Declared("child", "immutable", {"update"}) EXCEPT !.col = "t"],
          Declared("parent", "single", {"delete"}), Declared("note", "never", {"update"}),
          [Declared("parent", "transitions", {"update"}) EXCEPT
             !.col = "x", !.from = ({1} :> {{0}})]}

Tenant(i, c) ==
  {Cond("not null", <<i, c>>, <<>>), Cond("=", <<i, c>>, <<ParamTerm>>),
   Cond("=", <<i, c>>, <<ConstTerm({0})>>), Cond("in", <<i, c>>, <<ConstTerm({0}), ConstTerm({1})>>)}
\* a condition of the leaves may stand in the ON or in the WHERE
Obliging(i, j, join, leaf, where) ==
  {Level(join, leaf, on \cup own, w \ own) :
     on \in SUBSET {Cond("=", <<i, "o">>, <<ColumnTerm(<<j, "k">>)>>),
                   Cond("=", <<i, "t">>, <<ColumnTerm(<<j, "x">>)>>)},
     own \in UpTo(1, where), w \in UpTo(2, where)}

\* members with their parent, in the order in which each keeps its rows
WithParent(joins, table, where) ==
  UNION {Obliging(1, 2, j, <<table, "parent">>, where) : j \in joins}
ParentWith(table, where) == Obliging(2, 1, "left", <<"parent", table>>, where)

ParentPin(i) == {Cond("=", <<i, "x">>, <<ParamTerm>>)}
Bare(table) == Level("none", <<table>>, {}, {})
MCObliged ==
  LET ones == {Level("none", <<"child">>, {}, w) : w \in UpTo(2, Tenant(1, "t"))}
      joined == WithParent({"inner", "left"}, "child", ParentPin(2) \cup Tenant(1, "t"))
      parents == {Level("none", <<"parent">>, {}, w) :
                    w \in UpTo(2, Tenant(1, "x") \cup {Cond("=", <<1, "k">>, <<ParamTerm>>)})}
      steps == {Write("update", "x" :> ConstTerm({1})), Write("delete", <<>>)}
      moves == {Write("update", "t" :> ConstTerm({0})), Write("delete", <<>>)}
  IN ones \cup joined
       \cup ParentWith("child", ParentPin(1) \cup {Cond("not null", <<2, "t">>, <<>>)})
       \cup WithParent({"inner"}, "strict", ParentPin(2)) \cup WithParent({"inner", "left"}, "note", ParentPin(2))
       \cup Writing(ones, 1, moves)
       \cup Writing(WithParent({"inner", "left"}, "child", ParentPin(2)), 1, moves)
       \cup Writing(parents, 1, steps) \cup InWith(parents, 1, steps)
       \cup {Upsert(Bare("parent"), 1, "x" :> ParamTerm, "x" :> ConstTerm({1}))}
       \cup Writing({Bare("note")}, 1, {Write("update", <<>>)})
       \cup Writing({Bare("strict")}, 1,
                    {Write("insert", cols) : cols \in {"t" :> ParamTerm, "o" :> ParamTerm}})

\* joins of every kind, and the groups of inner ones
MCStatements ==
  NoFrom \cup Alone \cup Pairs({"inner", "left"}, {"keyed"}, DOMAIN Lone, 2)
    \cup Pairs({"inner", "left"}, {"bare"}, {"keyed", "nullable"}, 2)
    \cup Pairs({"full"}, {"keyed"}, {"keyed"}, 1)
    \cup Limits(Pairs({"full"}, {"bare"}, {"bare"}, 0))
    \cup Grouped(Pairs({"inner"}, {"bare"}, {"keyed"}, 2), Groups)
    \cup Sets(Grouped(Alone, {{ColumnTerm(<<1, "k">>)}})) \cup MCObliged

\* the group of a leaf that an outer join may leave without a row
MCOuterGroups == Grouped(Pairs({"left"}, {"bare"}, {"keyed"}, 2), {{ColumnTerm(<<2, "k">>)}})

\* FETCH FIRST 1 ROW WITH TIES
MCTies == {[q EXCEPT !.limit = "ties"] : q \in Alone}

\* the other columns of a foreign key, joined, are not unique in the parent; a foreign key that
\* the database does not enforce
MCKeys == {[PinnedOn("strict", "o") EXCEPT !.aggregate = TRUE], PinnedOn("loose", "t")}
MCByKeys ==
  WithParent({"inner"}, "strict", {Cond("=", <<2, "k">>, <<ParamTerm>>)})
    \cup WithParent({"inner"}, "loose", ParentPin(2))

\* an update that is not the statement itself
MCMoves ==
  {Upsert(Bare("child"), 1, "t" :> ParamTerm, "t" :> ConstTerm({0}))}
    \cup InWith({Bare("child")}, 1, {Write("update", "t" :> ConstTerm({0}))})
-----------------------------------------------------------------------------
\* what the theorems about these levels ask of them is so, but for the cases set apart
ASSUME InstanceAssumption ==
  Statements = MCStatements =>
    NoTies /\ GroupsInEveryRow /\ JudgedAsWritten /\ KeysCarry
=============================================================================
