------------------------------ MODULE PgSchema ------------------------------
(***************************************************************************)
(* A PostgreSQL schema as check/postgres/migrate reads it from the loader, *)
(* and what the server does with the statements of a plan.                 *)
(*                                                                         *)
(*   cols     records [rel, name, type, notNull, default, gen]: gen is the *)
(*            set of columns a generated column reads, {} for a plain one  *)
(*   parts    records [kind, rel, name, cols, ref, refCols]: "key" (also   *)
(*            UNIQUE), "fk", "check", "index" and "policy"                 *)
(*   views    the sequence, in the order of their declaration, of records  *)
(*            [name, shows, where]: shows is the sequence of the output    *)
(*            columns [as, of], where the columns read besides; a column   *)
(*            is <<relation, name>>                                        *)
(*   labels   the labels of the one enum type, "mood"                      *)
(*                                                                         *)
(* The server (external) is such a schema with the name of the enum type   *)
(* put aside and one row for each table: val[<<rel, col>>].                *)
(***************************************************************************)
EXTENDS Naturals, SequencesExt

NamesOf(s, r) == {c.name : c \in {c \in s.cols : c.rel = r}}
HasCol(s, x) == x \in {<<c.rel, c.name>> : c \in s.cols}
Col(s, x) == CHOOSE c \in s.cols : <<c.rel, c.name>> = x
PartsOf(s, r) == {p \in s.parts : p.rel = r}

Reads(v) == {o.of : o \in ToSet(v.shows)} \cup v.where
Views(s) == ToSet(s.views)
ViewNames(s) == {v.name : v \in Views(s)}
View(s, n) == CHOOSE v \in Views(s) : v.name = n
Reading(s, r) == {v \in Views(s) : \E x \in Reads(v) : x[1] = r}

\* what the loader makes of any schema.sql: a column is of a table, and has a name of its own there;
\* views have names of their own
ColumnsFormed(tables, cols) ==
  /\ \A c \in cols : DOMAIN c = {"rel", "name", "type", "notNull", "default", "gen"} /\ c.rel \in tables
  /\ \A c, d \in cols : c.rel = d.rel /\ c.name = d.name => c = d

ViewsFormed(views) ==
  /\ views \in Seq(ToSet(views))
  /\ \A i \in DOMAIN views : DOMAIN views[i] = {"name", "shows", "where"}
  /\ \A i, j \in DOMAIN views : views[i].name = views[j].name => i = j

WellFormed(s) ==
  /\ DOMAIN s = {"tables", "cols", "parts", "views", "labels"}
  /\ ColumnsFormed(s.tables, s.cols) /\ ViewsFormed(s.views)

Finite(s) == IsFiniteSet(s.cols) /\ IsFiniteSet(s.parts) /\ IsFiniteSet(s.labels)

\* whatever else is read from a relation, a view needs it to have these columns
Known(s, x) ==
  IF x[1] \in s.tables THEN HasCol(s, x)
  ELSE x[1] \in ViewNames(s) /\ \E o \in ToSet(View(s, x[1]).shows) : o.as = x[2]

\* a view's output column has the type of the column it shows
TypeOf(s, x) ==
  LET type[y \in STRING \X STRING] ==
        IF y[1] \in s.tables THEN Col(s, y).type
        ELSE type[(CHOOSE o \in ToSet(View(s, y[1]).shows) : o.as = y[2]).of]
  IN  type[x]

\* schema.Relation.Frozen: a view's output columns with the types they have
Frozen(s, v) == [i \in DOMAIN v.shows |-> <<v.shows[i].as, TypeOf(s, v.shows[i].of)>>]

\* the views that name r in their query, and theirs in turn
DependentViews(s, r) ==
  FoldLeft(LAMBDA deps, v : IF \E x \in Reads(v) : x[1] \in deps \cup {r} THEN deps \cup {v.name}
                            ELSE deps,
           {}, s.views)

\* CREATE OR REPLACE VIEW can turn f into v: the old output columns stay, new ones follow
Replaceable(a, f, b, v) ==
  /\ Len(f.shows) <= Len(v.shows)
  /\ \A i \in DOMAIN f.shows : Frozen(a, f)[i] = Frozen(b, v)[i]
-----------------------------------------------------------------------------
(* the server *)

\* what holds on to a column: views, generated columns and policies that read it
Readers(d, x) ==
  {v.name : v \in {v \in Views(d) : x \in Reads(v)}}
    \cup {c.name : c \in {c \in d.cols : c.rel = x[1] /\ x[2] \in c.gen}}
    \cup {p.name : p \in {p \in PartsOf(d, x[1]) : p.kind = "policy" /\ x[2] \in p.cols}}

\* the foreign keys that rest on a key over these columns
Resting(d, r, cols) == {p \in d.parts : p.kind = "fk" /\ p.ref = r /\ p.refCols = cols}

SamePart(p, q) == p.kind = q.kind /\ p.rel = q.rel /\ p.name = q.name

Mapped(using, l) == IF l \in DOMAIN using THEN using[l] ELSE l

Accepts(d, st) ==
  CASE st.op = "drop_part" ->
         /\ \E p \in d.parts : SamePart(p, st.part)
         /\ st.part.kind = "key" => Resting(d, st.part.rel, st.part.cols) = {}
    [] st.op = "drop_view" -> st.name \in ViewNames(d) /\ Reading(d, st.name) = {}
    [] st.op = "drop_column" ->
         /\ HasCol(d, st.col) /\ Readers(d, st.col) = {}
         /\ \A p \in d.parts : p.kind = "fk" /\ p.ref = st.col[1] => st.col[2] \notin p.refCols
    [] st.op = "drop_table" ->
         /\ st.rel \in d.tables /\ Reading(d, st.rel) = {}
         /\ \A p \in d.parts : p.kind = "fk" /\ p.ref = st.rel => p.rel = st.rel
    [] st.op = "rename_table" -> st.rel \in d.tables /\ st.to \notin d.tables \cup ViewNames(d)
    [] st.op = "rename_column" -> HasCol(d, st.col) /\ ~HasCol(d, <<st.col[1], st.to>>)
    [] st.op = "type" -> HasCol(d, st.col) /\ Readers(d, st.col) = {}
    [] st.op = "set_not_null" -> HasCol(d, st.col) /\ d.val[st.col] # "null"
    [] st.op \in {"drop_not_null", "set_default", "drop_default", "drop_expression"} ->
         HasCol(d, st.col)
    [] st.op = "update" -> HasCol(d, st.col) /\ Col(d, st.col).gen = {}
    [] st.op = "add_column" ->
         /\ st.col.rel \in d.tables /\ ~HasCol(d, <<st.col.rel, st.col.name>>)
         /\ st.col.gen \subseteq NamesOf(d, st.col.rel)
         /\ st.col.notNull => st.col.default \/ st.col.gen # {}
    [] st.op = "create_table" -> st.rel \notin d.tables \cup ViewNames(d)
    [] st.op = "add_part" ->
         /\ st.part.cols \subseteq NamesOf(d, st.part.rel)
         /\ ~\E p \in d.parts : SamePart(p, st.part)
         /\ st.part.kind = "fk" =>
              \E k \in PartsOf(d, st.part.ref) : k.kind = "key" /\ k.cols = st.part.refCols
    [] st.op = "create_view" ->
         /\ st.view.name \notin d.tables \cup ViewNames(d)
         /\ \A x \in Reads(st.view) : Known(d, x)
    [] st.op = "replace_view" ->
         /\ st.view.name \in ViewNames(d) /\ \A x \in Reads(st.view) : Known(d, x)
         /\ Replaceable(d, View(d, st.view.name), d, st.view)
    [] st.op = "drop_type" -> \A c \in d.cols : c.type # "mood__old"
    [] st.op = "map_type" ->
         /\ HasCol(d, st.col) /\ Readers(d, st.col) = {} /\ ~Col(d, st.col).default
         /\ Mapped(st.using, d.val[st.col]) \in d.labels \cup {"null"}
    [] OTHER -> TRUE  \* ADD VALUE, RENAME TYPE, CREATE TYPE

\* a column's new name reaches everything that reads it, a table's likewise
Renamed(s, New(_)) ==
  [s EXCEPT
     !.cols = {[c EXCEPT !.rel = New(<<c.rel, c.name>>)[1], !.name = New(<<c.rel, c.name>>)[2],
                         !.gen = {New(<<c.rel, n>>)[2] : n \in c.gen}] : c \in s.cols},
     !.parts = {[p EXCEPT !.rel = New(<<p.rel, "">>)[1],
                          !.cols = {New(<<p.rel, n>>)[2] : n \in p.cols},
                          !.ref = New(<<p.ref, "">>)[1],
                          !.refCols = {New(<<p.ref, n>>)[2] : n \in p.refCols}] : p \in s.parts},
     !.views = [i \in DOMAIN s.views |->
                  [s.views[i] EXCEPT
                     !.shows = [j \in DOMAIN @ |-> [@[j] EXCEPT !.of = New(@)]],
                     !.where = {New(x) : x \in @}]]]

Moved(d, New(_)) ==
  [Renamed(d, New) EXCEPT
     !.val = [x \in {New(x) : x \in DOMAIN d.val} |-> d.val[CHOOSE y \in DOMAIN d.val : New(y) = x]]]

Recol(d, x, c) == [d EXCEPT !.cols = (@ \ {Col(d, x)}) \cup {c}]
Setval(d, x, v) == [d EXCEPT !.val = [y \in DOMAIN @ \cup {x} |-> IF y = x THEN v ELSE @[y]]]
Without(d, gone) == [d EXCEPT !.val = [x \in DOMAIN @ \ gone |-> @[x]]]

After(d, st) ==
  CASE st.op = "drop_part" -> [d EXCEPT !.parts = {p \in @ : ~SamePart(p, st.part)}]
    [] st.op = "drop_view" -> [d EXCEPT !.views = SelectSeq(@, LAMBDA v : v.name # st.name)]
    [] st.op = "drop_column" ->  \* with the keys, checks, indexes and foreign keys over it
         Without([d EXCEPT !.cols = @ \ {Col(d, st.col)},
                           !.parts = {p \in @ : p.rel = st.col[1] => st.col[2] \notin p.cols}],
                 {st.col})
    [] st.op = "drop_table" ->
         Without([d EXCEPT !.tables = @ \ {st.rel}, !.cols = {c \in @ : c.rel # st.rel},
                           !.parts = {p \in @ : p.rel # st.rel}],
                 {x \in DOMAIN d.val : x[1] = st.rel})
    [] st.op = "rename_table" ->
         Moved([d EXCEPT !.tables = (@ \ {st.rel}) \cup {st.to}],
                 LAMBDA x : IF x[1] = st.rel THEN <<st.to, x[2]>> ELSE x)
    [] st.op = "rename_column" ->
         Moved(d, LAMBDA x : IF x = st.col THEN <<x[1], st.to>> ELSE x)
    [] st.op = "type" -> Recol(d, st.col, [Col(d, st.col) EXCEPT !.type = st.type])
    [] st.op = "set_not_null" -> Recol(d, st.col, [Col(d, st.col) EXCEPT !.notNull = TRUE])
    [] st.op = "drop_not_null" -> Recol(d, st.col, [Col(d, st.col) EXCEPT !.notNull = FALSE])
    [] st.op = "set_default" -> Recol(d, st.col, [Col(d, st.col) EXCEPT !.default = TRUE])
    [] st.op = "drop_default" -> Recol(d, st.col, [Col(d, st.col) EXCEPT !.default = FALSE])
    [] st.op = "drop_expression" -> Recol(d, st.col, [Col(d, st.col) EXCEPT !.gen = {}])
    [] st.op = "update" -> IF d.val[st.col] = "null" THEN Setval(d, st.col, "filled") ELSE d
    [] st.op = "add_column" ->
         Setval([d EXCEPT !.cols = @ \cup {st.col}], <<st.col.rel, st.col.name>>,
                IF st.col.gen # {} THEN "computed" ELSE IF st.col.default THEN "default" ELSE "null")
    [] st.op = "create_table" ->
         [d EXCEPT !.tables = @ \cup {st.rel}, !.cols = @ \cup st.cols,
                   !.parts = @ \cup st.checks,
                   !.val = [x \in DOMAIN @ \cup {<<c.rel, c.name>> : c \in st.cols} |->
                              IF x \in DOMAIN @ THEN @[x] ELSE "no_row"]]
    [] st.op = "add_part" -> [d EXCEPT !.parts = @ \cup {st.part}]
    [] st.op = "create_view" -> [d EXCEPT !.views = Append(@, st.view)]
    [] st.op = "replace_view" ->
         [d EXCEPT !.views = [i \in DOMAIN @ |-> IF @[i].name = st.view.name THEN st.view ELSE @[i]]]
    [] st.op = "add_label" -> [d EXCEPT !.labels = @ \cup {st.label}]
    [] st.op = "rename_type" ->
         [d EXCEPT !.cols = {IF c.type = "mood" THEN [c EXCEPT !.type = "mood__old"] ELSE c : c \in @}]
    [] st.op = "create_type" -> [d EXCEPT !.labels = st.labels]
    [] st.op = "map_type" ->
         Setval(Recol(d, st.col, [Col(d, st.col) EXCEPT !.type = "mood"]), st.col,
                Mapped(st.using, d.val[st.col]))
    [] OTHER -> d  \* DROP TYPE
=============================================================================
