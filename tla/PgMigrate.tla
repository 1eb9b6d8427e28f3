------------------------------ MODULE PgMigrate ------------------------------
(***************************************************************************)
(* The author changes schema.sql and declares what a diff cannot see, or   *)
(* forgets to; Plan writes the statements from Source to it, or reports    *)
(* problems; PostgreSQL holding Source runs them one at a time, or refuses *)
(* one.  was is the author's intent: the column of Source that each column *)
(* of the target continues.                                                *)
(***************************************************************************)
EXTENDS PgPlan

CONSTANTS
  Source,    \* the schema the database holds
  Nulls,     \* its columns that hold a NULL
  Label,     \* the label its enum columns hold
  Types,     \* the types a column may have
  Changes,   \* the kinds of change the author makes
  MaxEdits   \* bound: changes of one step

ASSUME SourceAssumption ==
  WellFormed(Source) /\ Finite(Source) /\ Source.tables \subseteq ToSet(RelationOrder)

ASSUME LabelAssumption == Label \in Source.labels /\ "null" \notin Source.labels  \* it stands for a NULL

VARIABLES to, list, was, edits, pc, plan, db
vars == <<to, list, was, edits, pc, plan, db>>

Key(c) == <<c.rel, c.name>>
Names(s) == {Key(c) : c \in s.cols}

Holds(x) == IF x \in Nulls THEN "null" ELSE IF Col(Source, x).type = "mood" THEN Label ELSE x

Init ==
  /\ to = Source /\ list = {} /\ was = [x \in Names(Source) |-> x]
  /\ edits = 0 /\ pc = "edit" /\ plan = <<>>
  /\ db = [tables |-> Source.tables, cols |-> Source.cols, parts |-> Source.parts,
           views |-> Source.views, labels |-> Source.labels, val |-> [x \in Names(Source) |-> Holds(x)]]
-----------------------------------------------------------------------------
(* the author *)

Editing == pc = "edit" /\ edits < MaxEdits

Edit(kind, new, origin, declarations) ==
  /\ kind \in Changes
  /\ edits' = edits + 1 /\ to' = new /\ was' = origin
  /\ list' \in {list, list \cup declarations}
  /\ UNCHANGED <<pc, plan, db>>

Same(kind, new) == Edit(kind, new, was, {})
Recolumn(c, new) == [to EXCEPT !.cols = (@ \ {c}) \cup {new}]
Keeping(S) == [x \in DOMAIN was \cap S |-> was[x]]
\* names for a new column: no column has one, and no declaration says that one gets it
Fresh ==
  {n \in ToSet(ColumnOrder) : /\ ~\E c \in to.cols \cup Source.cols : c.name = n
                             /\ ~\E i \in list : i.kind = "rename_column" /\ i.to[2] = n}
NewRelations == ToSet(RelationOrder) \ (to.tables \cup Source.tables \cup ViewNames(to) \cup ViewNames(Source))

\* the queries and expressions that can do without column x do so
UnreadBy(c, x) == IF c.rel = x[1] /\ c.gen # {x[2]} THEN [c EXCEPT !.gen = @ \ {x[2]}] ELSE c
Unshown(v, x) == [v EXCEPT !.shows = SelectSeq(@, LAMBDA o : o.of # x), !.where = @ \ {x}]

Unread(s, x) ==
  [s EXCEPT !.cols = {UnreadBy(c, x) : c \in @},
            !.parts = {p \in @ : p.rel = x[1] => x[2] \notin p.cols},
            !.views = [i \in DOMAIN @ |-> Unshown(@[i], x)]]

\* every view reads columns that are there and every foreign key has its key
Valid(s) ==
  /\ \A c \in s.cols : c.gen \subseteq NamesOf(s, c.rel)
  /\ \A v \in Views(s) : v.shows # <<>> /\ \A x \in Reads(v) : Known(s, x)
  /\ \A a \in s.parts :
       /\ a.cols \subseteq NamesOf(s, a.rel)
       /\ a.kind = "fk" => \E k \in PartsOf(s, a.ref) : k.kind = "key" /\ k.cols = a.refCols

DropColumnEdit ==
  Editing /\ \E c \in to.cols :
    LET s == Unread([to EXCEPT !.cols = @ \ {c}], Key(c))
    IN  /\ Valid(s) /\ Key(c) \in DOMAIN was /\ NamesOf(s, c.rel) # {}
        /\ Edit("drop_column", s, Keeping(Names(s)), {[kind |-> "drop_column", col |-> was[Key(c)]]})

RetypeEdit ==
  Editing /\ \E c \in to.cols, t \in Types \ {"mood"} :
    c.type # t /\ c.gen = {} /\ Same("retype", Recolumn(c, [c EXCEPT !.type = t]))

NullEdit ==
  Editing /\ \E c \in to.cols :
    Edit("null", Recolumn(c, [c EXCEPT !.notNull = ~@, !.default = FALSE]), was,
         IF c.notNull THEN {} ELSE {[kind |-> "backfill", col |-> Key(c)]})

ColumnRenamedTo(s, c, n) == Renamed(s, LAMBDA x : IF x = Key(c) THEN <<c.rel, n>> ELSE x)
TableRenamedTo(s, r, n) ==
  [Renamed(s, LAMBDA x : IF x[1] = r THEN <<n, x[2]>> ELSE x) EXCEPT !.tables = (@ \ {r}) \cup {n}]

RenameColumnEdit ==
  Editing /\ \E c \in to.cols : \E n \in Fresh :
    /\ Key(c) \in DOMAIN was /\ was[Key(c)][2] = c.name
    /\ Edit("rename_column", ColumnRenamedTo(to, c, n),
            [x \in (DOMAIN was \ {Key(c)}) \cup {<<c.rel, n>>} |-> was[IF x = <<c.rel, n>> THEN Key(c) ELSE x]],
            {[kind |-> "rename_column", col |-> was[Key(c)], to |-> <<c.rel, n>>]})

RenameTableEdit ==
  Editing /\ \E r \in to.tables : \E n \in NewRelations :
    /\ r \in Source.tables /\ \A x \in DOMAIN was : x[1] = r => was[x] = x
    /\ Edit("rename_table", TableRenamedTo(to, r, n),
            [x \in {IF y[1] = r THEN <<n, y[2]>> ELSE y : y \in DOMAIN was} |->
               was[IF x[1] = n THEN <<r, x[2]>> ELSE x]],
            {[kind |-> "rename_table", rel |-> r, to |-> n]})

DropTableEdit ==
  Editing /\ \E r \in to.tables \cap Source.tables :
    LET s == [to EXCEPT !.tables = @ \ {r}, !.cols = {c \in @ : c.rel # r}, !.parts = {a \in @ : a.rel # r}]
    IN  Valid(s) /\ Edit("drop_table", s, Keeping(Names(s)), {[kind |-> "drop_table", rel |-> r]})

AddColumnEdit ==
  Editing /\ \E r \in to.tables : \E n \in Fresh, d, nn \in BOOLEAN, g \in {{}} \cup {{m} : m \in NamesOf(to, r)} :
    /\ g # {} => ~nn /\ \A c \in ColumnsOf(to, r) : c.name \in g => c.gen = {}
    /\ d => nn
    /\ Edit("add_column",
            [to EXCEPT !.cols = @ \cup {[rel |-> r, name |-> n, type |-> "int", notNull |-> nn, default |-> d, gen |-> g]}],
            was, IF nn THEN {[kind |-> "backfill", col |-> <<r, n>>]} ELSE {})

AddTableEdit ==
  Editing /\ \E n \in NewRelations, a \in to.parts :
    /\ a.kind = "key"
    /\ Same("add_table",
            [to EXCEPT !.tables = @ \cup {n},
                       !.cols = @ \cup {[rel |-> n, name |-> "id", type |-> "int", notNull |-> FALSE,
                                         default |-> FALSE, gen |-> {}]},
                       !.parts = @ \cup {[kind |-> "fk", rel |-> n, name |-> "new_fk", cols |-> {"id"},
                                          ref |-> a.rel, refCols |-> a.cols]}])

\* a part goes, reads another column, or is new
PartEdit ==
  /\ Editing
  /\ \/ \E a \in to.parts : LET s == [to EXCEPT !.parts = @ \ {a}] IN Valid(s) /\ Same("part", s)
     \/ \E a \in to.parts : \E n \in NamesOf(to, a.rel) :
          LET s == [to EXCEPT !.parts = (@ \ {a}) \cup {[a EXCEPT !.cols = {n}]}]
          IN  n \notin a.cols /\ Valid(s) /\ Same("part", s)
     \/ \E c \in to.cols, kind \in {"key", "check", "index", "policy"} :
          /\ ~\E a \in PartsOf(to, c.rel) : a.name = "new"
          /\ Same("part", [to EXCEPT !.parts = @ \cup {[kind |-> kind, rel |-> c.rel, name |-> "new", cols |-> {c.name},
                                                      ref |-> "", refCols |-> {}]}])

ViewEdit ==
  Editing /\ \E i \in DOMAIN to.views :
    LET v == to.views[i]
        With(w) == [to EXCEPT !.views[i] = w]
        read == UNION {{o.of[1] : o \in ToSet(v.shows)}}
    IN  \/ LET s == [to EXCEPT !.views = RemoveAt(@, i)] IN Valid(s) /\ Same("view", s)
        \/ \E j \in DOMAIN v.shows :
             LET s == With([v EXCEPT !.shows = RemoveAt(@, j)]) IN Valid(s) /\ Same("view", s)
        \/ \E c \in to.cols :
             /\ c.rel \in read /\ Key(c) \notin Reads(v)
             /\ \/ Same("view", With([v EXCEPT !.shows = Append(@, [as |-> c.name, of |-> Key(c)])]))
                \/ Same("view", With([v EXCEPT !.where = {Key(c)}]))

LabelEdit ==
  /\ Editing
  /\ \/ \E l \in to.labels, u \in to.labels :
          /\ l # u
          /\ Edit("label", [to EXCEPT !.labels = @ \ {l}], was, {[kind |-> "enum", label |-> l, using |-> u]})
     \/ Same("label", [to EXCEPT !.labels = @ \cup {"new"}])

\* a column is computed from another column, or no longer computed
GeneratedEdit ==
  Editing /\ \E c \in to.cols : \E g \in {{}} \cup {{n} : n \in NamesOf(to, c.rel) \ {c.name}} :
    /\ c.gen # g /\ (c.gen # {} \/ g # {})
    /\ \A d \in ColumnsOf(to, c.rel) : (d.name \in g => d.gen = {}) /\ (g # {} => c.name \notin d.gen)
    /\ Same("generated", Recolumn(c, [c EXCEPT !.gen = g, !.default = FALSE]))
-----------------------------------------------------------------------------
(* the planner and the server *)

MakePlan ==
  /\ pc = "edit" /\ edits > 0
  /\ LET p == Planner(Source, to, list)
         statements == Plan(p)
     IN  IF HasProblems(p) THEN pc' = "problems" /\ UNCHANGED plan
         ELSE plan' = statements /\ pc' = IF statements = <<>> THEN "done" ELSE "run"
  /\ UNCHANGED <<to, list, was, edits, db>>

\* psql or apply -no-transaction; a transaction would take back what a refusal leaves
Execute ==
  /\ pc = "run"
  /\ IF Accepts(db, Head(plan))
     THEN /\ db' = After(db, Head(plan)) /\ plan' = Tail(plan)
          /\ pc' = IF Len(plan) = 1 THEN "done" ELSE "run"
     ELSE pc' = "refused" /\ UNCHANGED <<db, plan>>
  /\ UNCHANGED <<to, list, was, edits>>

Next ==
  \/ DropColumnEdit \/ RetypeEdit \/ NullEdit \/ RenameColumnEdit \/ RenameTableEdit \/ DropTableEdit
  \/ AddColumnEdit \/ AddTableEdit \/ PartEdit \/ ViewEdit \/ LabelEdit \/ GeneratedEdit
  \/ MakePlan \/ Execute

Spec == Init /\ [][Next]_vars
-----------------------------------------------------------------------------
(* properties *)

\* an enum loses a label in the step that gives one of its columns another type: recreateEnum
\* and alterTable each leave the column to the other
EnumRetyped ==
  /\ ~Source.labels \subseteq to.labels
  /\ \E x \in DOMAIN was : Col(Source, was[x]).type = "mood" /\ Col(to, x).type # "mood"

\* a foreign key rests on a generated column of its own table
KeyedGenerated == \E a \in to.parts : a.kind = "fk" /\ \E n \in a.cols : Col(to, <<a.rel, n>>).gen # {}

\* Run to its end, a plan without problems has made the target of the database: nothing it took
\* down on the way (a foreign key ahead of its key, a view, a check of a rewritten column) is
\* missing, nothing is left over.  Two kinds of step are excepted, EnumRetyped and KeyedGenerated.
Reached ==
  pc = "done" =>
    \/ EnumRetyped \/ KeyedGenerated
    \/ /\ db.tables = to.tables /\ db.cols = to.cols /\ db.parts = to.parts /\ db.labels = to.labels
       /\ Views(db) = Views(to)

\* column x of Source may go: it, or its table, is declared dropped
Announced(x) ==
  \E i \in list : (i.kind = "drop_column" /\ i.col = x) \/ (i.kind = "drop_table" /\ i.rel = x[1])

\* column y of the target holds what x held, or what its label is declared to become
KeptAs(x, y) ==
  \/ Holds(x) = db.val[y]
  \/ \E i \in list : i.kind = "enum" /\ Holds(x) = i.label /\ i.using = db.val[y]

\* a value of Source: a NULL is none, and a computed column has none of its own
HasValue(x) == Holds(x) # "null" /\ Col(Source, x).gen = {}

\* Whatever the author forgets to declare, a plan without problems leaves every value of Source in
\* the column the author means it to be in, unless the column or its table is declared dropped, or
\* the target computes the column: that loss has no declaration (LossIsAnnounced).
LossIsDeclared ==
  pc = "done" =>
    \A x \in Names(Source) :
      HasValue(x) =>
        \/ Announced(x)
        \/ \E y \in DOMAIN was : was[y] = x /\ (Col(to, y).gen # {} \/ KeptAs(x, y))

\* docs/migrations.md: what disappears without a declaration is an error, "so data loss is always
\* announced".  Violated by a plain column that the target computes: it is dropped and added again
\* (migrate.go's dropGenerated, addGenerated), and nobody is told.
LossIsAnnounced ==
  pc = "done" =>
    \A x \in Names(Source) :
      HasValue(x) => Announced(x) \/ \E y \in DOMAIN was : was[y] = x /\ KeptAs(x, y)

\* A plan drops no table and no column but those declared dropped, and the computed columns that it
\* adds again further on: whatever the author renames, retypes and forgets, whether or not the
\* server takes every statement.
DropsDeclared ==
  \A i \in DOMAIN plan :
    /\ plan[i].op = "drop_table" => \E d \in list : d.kind = "drop_table" /\ d.rel = plan[i].rel
    /\ plan[i].op = "drop_column" =>
         \/ \E d \in list : d.kind = "drop_column" /\ d.col = plan[i].col
         \/ \E j \in DOMAIN plan : /\ j > i /\ plan[j].op = "add_column"
                                   /\ Key(plan[j].col) = plan[i].col /\ plan[j].col.gen # {}

\* A declaration left in schema.sql once it is applied is an error of the next plan, and a
\* backfill is no statement of it.
StaleAreErrors ==
  pc = "done" => LET again == Planner(to, to, list)
                 IN  Unfounded(again) = list /\ Plan(again) = <<>>

\* a foreign key that is not in Source yet, on a generated column: a rewrite of the column drops it
NewOnGenerated(a) ==
  /\ a.kind = "fk" /\ ~\E b \in db.parts : SamePart(a, b)
  /\ \E n \in a.refCols : Col(to, <<a.ref, n>>).gen # {}

\* The server refuses a statement of a plan without problems only because something reads the
\* column (or view) it changes, a row holds no value for a NOT NULL, a generated expression reads
\* a column added after it, a policy changes in the step that changes the type of a column it
\* reads, a foreign key is new in the step that rewrites the generated column it rests on, or a
\* backfill fills a column that is computed until later in the plan; never for another name taken or
\* gone, a key or foreign key too early or too late, an order among tables.
NothingElseBlocks ==
  pc = "refused" =>
    LET st == Head(plan)
    IN  \/ st.op \in {"drop_column", "type", "map_type"} /\ HasCol(db, st.col) /\ Readers(db, st.col) # {}
        \/ st.op = "drop_view" /\ Reading(db, st.name) # {}
        \/ st.op = "set_not_null" /\ HasCol(db, st.col) /\ db.val[st.col] = "null"
        \/ st.op = "add_column" /\ (st.col.notNull \/ ~st.col.gen \subseteq NamesOf(db, st.col.rel))
        \/ st.op \in {"drop_part", "add_part"} /\ st.part.kind = "policy"
        \/ st.op = "drop_part" /\ NewOnGenerated(st.part)
        \/ st.op = "update" /\ HasCol(db, st.col) /\ Col(db, st.col).gen # {}

\* What migrate.go says of a policy that reads a column whose type changes: "whether or not the
\* policy itself changes: it goes around the ALTER".  Violated when it does change.
PoliciesGoAround ==
  pc = "refused" => ~(Head(plan).op \in {"drop_part", "add_part"} /\ Head(plan).part.kind = "policy")

\* What migrate.go says of Plan: "drops (dependents first)".  Violated by a view that stands
\* over one that is dropped, or reads a column that is.
DependentsFirst ==
  pc = "refused" =>
    LET st == Head(plan)
    IN  /\ st.op = "drop_view" => Reading(db, st.name) = {}
        /\ st.op = "drop_column" => ~\E v \in Views(db) : st.col \in Reads(v)

\* What migrate.go says of dropGenerated: it "drops what would block the DROP COLUMN ahead of it".
\* Violated by a foreign key that is new in the same step: it is dropped before it is there.
DropsWhatBlocks == pc = "refused" => ~(Head(plan).op = "drop_part" /\ NewOnGenerated(Head(plan).part))

\* What intents.go says of a backfill: "the database holds the target's shape for this column by
\* then".  Violated by a column that is no longer computed: DROP EXPRESSION comes after the UPDATE.
BackfillsFit == pc = "refused" => Head(plan).op # "update"

\* What migrate.go says of addGenerated: it "restores what the drop took down".  Violated by a
\* foreign key on the column.
RewriteRestores == pc = "done" => \A a \in to.parts : a.kind = "fk" => a \in db.parts
=============================================================================
