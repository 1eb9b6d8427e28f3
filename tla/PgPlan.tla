------------------------------- MODULE PgPlan -------------------------------
(***************************************************************************)
(* check/postgres/migrate: the statements that turn the schema from into   *)
(* the schema to, phase by phase, and the problems Plan reports instead of *)
(* deciding for the author.  The declarations (Intent) are records         *)
(*   [kind |-> "rename_table", rel, to]     [kind |-> "drop_table", rel]   *)
(*   [kind |-> "rename_column", col, to]    [kind |-> "drop_column", col]  *)
(*   [kind |-> "enum", label, using]        [kind |-> "backfill", col]     *)
(* a column, here as everywhere, is <<relation, name>>.  A planner p is    *)
(* the two schemas with what readIntents made of the declarations.         *)
(***************************************************************************)
EXTENDS PgSchema

CONSTANTS RelationOrder, ColumnOrder  \* what both schemas are declared in the order of

ASSUME OrderAssumption ==
  RelationOrder \in Seq(ToSet(RelationOrder)) /\ ColumnOrder \in Seq(ToSet(ColumnOrder))

InTurn(s, Do(_)) == FlattenSeq([i \in DOMAIN s |-> Do(s[i])])
Listed(S) == FoldSet(LAMBDA x, done : <<x>> \o done, <<>>, S)
Each(S, Do(_)) == InTurn(Listed(S), Do)
When(condition, statements) == IF condition THEN statements ELSE <<>>
Ordered(order, S) == InTurn(order, LAMBDA n : When(n \in S, <<n>>))
Image(pairs, x, otherwise) ==
  IF \E q \in pairs : q[1] = x THEN (CHOOSE q \in pairs : q[1] = x)[2] ELSE otherwise
Flipped(pairs) == {<<q[2], q[1]>> : q \in pairs}
-----------------------------------------------------------------------------
(* readIntents *)

TableRenamed(f, t, i) ==
  i.kind = "rename_table" /\ i.rel \in f.tables \ t.tables /\ i.to \in t.tables \ f.tables

ColumnRenamed(f, t, relTo, i) ==
  /\ i.kind = "rename_column" /\ HasCol(f, i.col) /\ HasCol(t, i.to)
  /\ Image(Flipped(relTo), i.to[1], i.to[1]) = i.col[1]
  /\ ~HasCol(t, <<i.to[1], i.col[2]>>) /\ ~HasCol(f, <<i.col[1], i.to[2]>>)

\* every removed label says which label its values become
Recreates(f, t, list) ==
  /\ f.labels \ t.labels # {}
  /\ \A l \in f.labels \ t.labels : \E i \in list : i.kind = "enum" /\ i.label = l

Planner(f, t, list) ==
  LET relTo == {<<i.rel, i.to>> : i \in {i \in list : TableRenamed(f, t, i)}}
  IN  [from |-> f, to |-> t, list |-> list, relTo |-> relTo,
       colTo |-> {<<i.col, i.to>> : i \in {i \in list : ColumnRenamed(f, t, relTo, i)}},
       enum |-> Recreates(f, t, list)]

ToName(p, r) == Image(p.relTo, r, r)
FromName(p, r) == Image(Flipped(p.relTo), r, r)
ToCol(p, x) == Image(p.colTo, x, <<ToName(p, x[1]), x[2]>>)
FromCol(p, x) == Image(Flipped(p.colTo), x, <<FromName(p, x[1]), x[2]>>)

Surviving(p) == {r \in p.from.tables : ToName(p, r) \in p.to.tables}
Continued(p) == {r \in p.to.tables : FromName(p, r) \in p.from.tables}
Continues(p, c) == HasCol(p.from, FromCol(p, <<c.rel, c.name>>))
Before(p, c) == Col(p.from, FromCol(p, <<c.rel, c.name>>))
Gone(p, r) == {c \in p.from.cols : c.rel = r /\ ~HasCol(p.to, ToCol(p, <<r, c.name>>))}

DropDeclared(p, i) ==
  \/ i.kind = "drop_table" /\ i.rel \in p.from.tables \ p.to.tables
  \/ i.kind = "drop_column" /\ HasCol(p.from, i.col) /\ ~HasCol(p.to, i.col)

EveryTable(p, r) == r \in p.to.tables

\* the diff changes the table, or a column or part of it
Touched(p, r) ==
  \/ r \notin p.from.tables
  \/ {c \in p.from.cols : c.rel = r} # {c \in p.to.cols : c.rel = r}
  \/ PartsOf(p.from, r) # PartsOf(p.to, r)

BackfillStale(p, x) ==
  /\ FromName(p, x[1]) = x[1] /\ ~Touched(p, x[1])
  /\ HasCol(p.from, x) /\ FromCol(p, x) = x
  /\ Col(p.from, x).type = "mood" => p.from.labels = p.to.labels

Filling(p) ==
  {i.col : i \in {i \in p.list : i.kind = "backfill" /\ HasCol(p.to, i.col) /\ ~BackfillStale(p, i.col)}}

Using(p) == [l \in {i.label : i \in {i \in p.list : i.kind = "enum"}} |->
               (CHOOSE i \in p.list : i.kind = "enum" /\ i.label = l).using]

\* the declarations the two schemas do not bear out
Unfounded(p) ==
  {i \in p.list :
     \/ i.kind = "rename_table" /\ <<i.rel, i.to>> \notin p.relTo
     \/ i.kind = "rename_column" /\ <<i.col, i.to>> \notin p.colTo
     \/ i.kind \in {"drop_table", "drop_column"} /\ ~DropDeclared(p, i)
     \/ i.kind = "backfill" /\ i.col \notin Filling(p)
     \/ i.kind = "enum" /\ (\/ i.label \in p.to.labels
                            \/ i.label \in p.from.labels /\ p.enum /\ i.using \notin p.to.labels
                            \/ p.from.labels = p.to.labels)}

TablesUndeclared(p) ==
  {<<r, "">> : r \in {r \in p.from.tables \ Surviving(p) : ~\E i \in p.list : i.kind = "drop_table" /\ i.rel = r}}

\* what disappears and no declaration explains
Undeclared(p) ==
  LET declared == {i \in p.list : DropDeclared(p, i)}
  IN  {<<r, "">> : r \in {r \in p.from.tables \ Surviving(p) : ~\E i \in declared : i.kind = "drop_table" /\ i.rel = r}}
        \cup {<<c.rel, c.name>> : c \in {c \in UNION {Gone(p, r) : r \in Surviving(p)} :
                ~\E i \in declared : i.kind = "drop_column" /\ i.col = <<c.rel, c.name>>}}
        \cup {<<"mood", l>> : l \in {l \in p.from.labels \ p.to.labels : ~p.enum}}

\* a backfill is type-checked against the target: a column it computes cannot be set
Unassignable(p) == {x \in Filling(p) : x[1] \in Continued(p) /\ Col(p.to, x).gen # {}}

HasProblems(p) == Unfounded(p) # {} \/ Undeclared(p) # {} \/ Unassignable(p) # {}
-----------------------------------------------------------------------------
(* what is dropped to be created anew *)

\* same: the two parts have the same properties, in each schema's own names
SameAs(a, b) == a.kind = b.kind /\ a.cols = b.cols /\ a.ref = b.ref /\ a.refCols = b.refCols
Unchanged(a, s, r) == \E b \in PartsOf(s, r) : b.name = a.name /\ SameAs(a, b)

Retyped(p, c) == Continues(p, c) /\ Before(p, c).type # c.type /\ ~(p.enum /\ Before(p, c).type = "mood")

\* generated column g reads, by the name it had before, column c of its table
Depends(p, g, c) ==
  g.gen # {} /\ g.rel = c.rel /\ Continues(p, g) /\ FromCol(p, <<c.rel, c.name>>)[2] \in g.gen

Position(c) == CHOOSE i \in DOMAIN ColumnOrder : ColumnOrder[i] = c.name
TakenDown(p, g, cols) == \E c \in cols : Depends(p, g, c) /\ Retyped(p, c)

\* what the retype of c takes down: what depends on it and is not down already
DropsFor(p, c) ==
  {g \in p.to.cols : Depends(p, g, c) /\ ~TakenDown(p, g, {b \in p.to.cols : Position(b) < Position(c)})}

\* renamedExpr: the server has rewritten the old expression by the renames
ChangedExpr(p, c) == {ToCol(p, <<Before(p, c).rel, n>>)[2] : n \in Before(p, c).gen} # c.gen

RewritesGenerated(p, r) ==
  \E c \in p.to.cols : /\ c.rel = r /\ Continues(p, c)
                       /\ TakenDown(p, c, p.to.cols) \/ (c.gen # {} /\ ChangedExpr(p, c))

\* enumRecreates, generatedRecreates
Recreated(p) ==
  UNION {DependentViews(p.from, r) :
           r \in {r \in p.from.tables :
                    \/ p.enum /\ \E c \in p.from.cols : c.rel = r /\ c.type = "mood"
                    \/ r \in Surviving(p) /\ RewritesGenerated(p, ToName(p, r))}}
    \cap ViewNames(p.to)

\* the view stands as it is, or CREATE OR REPLACE brings it to the target in place
Stands(p, v) ==
  /\ v.name \in ViewNames(p.to) \ Recreated(p)
  /\ LET w == View(p.to, v.name)
     IN  (v = w /\ Frozen(p.from, v) = Frozen(p.to, w)) \/ Replaceable(p.from, v, p.to, w)

StandingViews(p) == {v.name : v \in {v \in Views(p.from) : Stands(p, v)}}
-----------------------------------------------------------------------------
(* drops *)

DropPart(part) == <<[op |-> "drop_part", part |-> part]>>
AddPart(part) == <<[op |-> "add_part", part |-> part]>>
DropColumn(x) == <<[op |-> "drop_column", col |-> x]>>

ChangedParts(p, kinds) ==
  {a \in p.from.parts : a.rel \in Surviving(p) /\ a.kind \in kinds /\ ~Unchanged(a, p.to, ToName(p, a.rel))}

FollowingSurvivors(p) ==
  {a \in p.from.parts \ ChangedParts(p, {"fk"}) :
     /\ a.kind = "fk" /\ a.rel \in Surviving(p)
     /\ \E k \in ChangedParts(p, {"key"}) : a \in Resting(p.from, k.rel, k.cols)}

\* the foreign keys that rest on a key that goes, themselves unchanged (or with their table)
Following(p) ==
  {a \in p.from.parts \ ChangedParts(p, {"fk"}) :
     a.kind = "fk" /\ \E k \in ChangedParts(p, {"key"}) : a \in Resting(p.from, k.rel, k.cols)}

RedoneAsNew(p) == {}

\* redoFK: those to add again, by their names in the target
Redone(p) == {<<ToName(p, a.rel), a.name>> : a \in {a \in Following(p) : a.rel \in Surviving(p)}}

\* fkOrder: a table before the tables its foreign keys reference; a cycle as it comes
FkOrder(s, tables) ==
  LET order[pending \in SUBSET tables] ==
        IF pending = {} THEN <<>>
        ELSE LET free == {r \in pending : ~\E a \in s.parts : a.kind = "fk" /\ a.ref = r /\ a.rel \in pending \ {r}}
                 next == Ordered(RelationOrder, IF free = {} THEN pending ELSE free)[1]
             IN  <<next>> \o order[pending \ {next}]
  IN  order[tables]

ColumnsOf(s, r) == {c \in s.cols : c.rel = r}
InOrder(S) == InTurn(ColumnOrder, LAMBDA n : When(\E c \in S : c.name = n, <<CHOOSE c \in S : c.name = n>>))

\* orderNewColumns; a generated column reads plain columns only
ReadsLast(cols) == InOrder({c \in cols : c.gen = {}}) \o InOrder({c \in cols : c.gen # {}})

DropView(p, v) == When(~Stands(p, v), <<[op |-> "drop_view", name |-> v.name]>>)
DropColumns(p, r) == InTurn(Reverse(ReadsLast(Gone(p, r))), LAMBDA c : DropColumn(<<r, c.name>>))
DropTable(r) == <<[op |-> "drop_table", rel |-> r]>>

Drops(p) ==
  Each(ChangedParts(p, {"policy"}), DropPart)
    \o Each(ChangedParts(p, {"fk"}), DropPart)
    \o Each(ChangedParts(p, {"index"}), DropPart)
    \o Each(Following(p), DropPart)
    \o Each(ChangedParts(p, {"key", "check"}), DropPart)
    \o InTurn(Reverse(p.from.views), LAMBDA v : DropView(p, v))
    \o InTurn(Ordered(RelationOrder, Surviving(p)), LAMBDA r : DropColumns(p, r))
    \o InTurn(FkOrder(p.from, p.from.tables \ Surviving(p)), DropTable)

RenameTable(q) == <<[op |-> "rename_table", rel |-> q[1], to |-> q[2]]>>
RenameColumn(q) == <<[op |-> "rename_column", col |-> <<q[2][1], q[1][2]>>, to |-> q[2][2]]>>

Renames(p) == Each(p.relTo, RenameTable) \o Each(p.colTo, RenameColumn)
-----------------------------------------------------------------------------
(* alters *)

Alter(op, c) == <<[op |-> op, col |-> <<c.rel, c.name>>]>>
Backfill(p, c) == When(<<c.rel, c.name>> \in Filling(p), Alter("update", c))

RecreateEnum(p) ==
  <<[op |-> "rename_type"], [op |-> "create_type", labels |-> p.to.labels]>>
    \o Each({c \in p.to.cols : Continues(p, c) /\ Before(p, c).type = "mood"},
            LAMBDA c : When(Before(p, c).default, Alter("drop_default", c))
                         \o <<[op |-> "map_type", col |-> <<c.rel, c.name>>, using |-> Using(p)]>>
                         \o When(c.default, Alter("set_default", c)))
    \o <<[op |-> "drop_type"]>>

AlterType(p) ==
  IF p.from.labels \subseteq p.to.labels
  THEN Each(p.to.labels \ p.from.labels, LAMBDA l : <<[op |-> "add_label", label |-> l]>>)
  ELSE When(p.enum, RecreateEnum(p))

\* what DROP COLUMN takes down with column x and addGenerated puts back, and the foreign
\* keys on x, which have to go first
Alongside(p, x) ==
  {a \in PartsOf(p.to, x[1]) : a.kind \in {"key", "check", "index"} /\ x[2] \in a.cols}
RestingOn(p, x) == Resting(p.to, x[1], {x[2]})

DropGenerated(p, g) == Each(RestingOn(p, <<g.rel, g.name>>), DropPart) \o DropColumn(<<g.rel, g.name>>)

PutBack(p, g) ==
  Each(Alongside(p, <<g.rel, g.name>>), AddPart) \o Each(RestingOn(p, <<g.rel, g.name>>), AddPart)

AddGenerated(p, g) == <<[op |-> "add_column", col |-> g]>> \o PutBack(p, g)

AlterColumnType(p, c) ==
  LET policies == {a \in PartsOf(p.to, c.rel) : a.kind = "policy" /\ c.name \in a.cols}
  IN  Each(DropsFor(p, c), LAMBDA g : DropGenerated(p, g)) \o Each(policies, DropPart)
        \o <<[op |-> "type", col |-> <<c.rel, c.name>>, type |-> c.type]>>
        \o Each(DropsFor(p, c), LAMBDA g : AddGenerated(p, g)) \o Each(policies, AddPart)

\* an expression changed and no retype has taken its column down
Rewritten(p, c) ==
  /\ c.gen # {} /\ Continues(p, c) /\ ChangedExpr(p, c)
  /\ ~TakenDown(p, c, {b \in p.to.cols : Position(b) < Position(c)})

AlterColumn(p, c) ==
  LET was == Before(p, c)
  IN  When(Retyped(p, c), AlterColumnType(p, c))
        \o When(was.default # c.default, Alter(IF c.default THEN "set_default" ELSE "drop_default", c))
        \o When(was.notNull # c.notNull,
                IF c.notNull THEN Backfill(p, c) \o Alter("set_not_null", c) ELSE Alter("drop_not_null", c))
        \o When(was.gen # {} /\ c.gen = {}, Alter("drop_expression", c))
        \o When(Rewritten(p, c), DropGenerated(p, c) \o AddGenerated(p, c))

\* the backfills of a table that no change of their column has consumed
BackfillsLeft(p, cols) ==
  Each({c \in cols : /\ <<c.rel, c.name>> \in Filling(p)
                     /\ ~(c.notNull /\ (Continues(p, c) => ~Before(p, c).notNull))},
       LAMBDA c : Alter("update", c))

AlterTable(p, r) ==
  LET old == {c \in ColumnsOf(p.to, r) : Continues(p, c)}
  IN  InTurn(InOrder(old), LAMBDA c : AlterColumn(p, c)) \o BackfillsLeft(p, old)

Alters(p) == AlterType(p) \o InTurn(Ordered(RelationOrder, Continued(p)), LAMBDA r : AlterTable(p, r))
-----------------------------------------------------------------------------
(* adds *)

\* the parts a rewrite of a generated column has put back already
Restored(p) ==
  UNION {Alongside(p, <<g.rel, g.name>>) \cup RestingOn(p, <<g.rel, g.name>>) :
           g \in {g \in p.to.cols : Rewritten(p, g) \/ TakenDown(p, g, p.to.cols)}}

AddColumn(p, c) ==
  IF c.notNull /\ <<c.rel, c.name>> \in Filling(p)
  THEN <<[op |-> "add_column", col |-> [c EXCEPT !.notNull = FALSE]]>>
         \o Backfill(p, c) \o Alter("set_not_null", c)
  ELSE <<[op |-> "add_column", col |-> c]>>

AddRelation(p, r) ==
  IF r \in p.to.tables
  THEN IF r \in Continued(p)
       THEN LET fresh == {c \in ColumnsOf(p.to, r) : ~Continues(p, c)}
            IN  InTurn(ReadsLast(fresh), LAMBDA c : AddColumn(p, c)) \o BackfillsLeft(p, fresh)
       ELSE <<[op |-> "create_table", rel |-> r, cols |-> ColumnsOf(p.to, r),
               checks |-> {a \in PartsOf(p.to, r) : a.kind = "check"}]>>
  ELSE LET v == View(p.to, r)
       IN  IF r \notin StandingViews(p) THEN <<[op |-> "create_view", view |-> v]>>
           ELSE When(v \notin Views(p.from) \/ Frozen(p.from, View(p.from, r)) # Frozen(p.to, v),
                     <<[op |-> "replace_view", view |-> v]>>)

\* the parts still to add
Missing(p, kinds) ==
  LET restored == Restored(p)
      redone == Redone(p)
  IN  {a \in p.to.parts :
         /\ a.kind \in kinds
         /\ ~Unchanged(a, p.from, FromName(p, a.rel)) \/ <<a.rel, a.name>> \in redone
         /\ a.kind # "policy" => a \notin restored
         /\ a.kind = "check" => a.rel \in Continued(p)}

Adds(p) ==
  InTurn(Ordered(RelationOrder, p.to.tables \cup ViewNames(p.to)), LAMBDA r : AddRelation(p, r))
    \o Each(Missing(p, {"key", "check"}), AddPart) \o Each(Missing(p, {"fk"}), AddPart)
    \o Each(Missing(p, {"index"}), AddPart) \o Each(Missing(p, {"policy"}), AddPart)

Plan(p) == Drops(p) \o Renames(p) \o Alters(p) \o Adds(p)
=============================================================================
