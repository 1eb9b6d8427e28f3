---------------------------- MODULE QueryLevel ----------------------------
(***************************************************************************)
(* Query levels of one or two leaves: what PostgreSQL's analyzer records   *)
(* about them (addItem, addQuals, scopeFacts, shape), and the rows that    *)
(* SQL gives them on a database.                                           *)
(***************************************************************************)
EXTENDS JoinedRows, Naturals, FiniteSets, Sequences, SequencesExt

CONSTANTS
  Leaves,   \* the relations a FROM may name: their columns, keys, rows
  NoColumn

Points == {0, 1}
NotNull == {{0}, {1}}
Nullable == {{}, {0}}
Ranges == {{0}, {1}, {0, 1}}

NoTerm == [is |-> "none", col |-> NoColumn, val |-> {}]
ParamTerm == [NoTerm EXCEPT !.is = "param"]
ConstTerm(v) == [NoTerm EXCEPT !.is = "const", !.val = v]
ColumnTerm(c) == [NoTerm EXCEPT !.is = "column", !.col = c]
ExprTerm == [NoTerm EXCEPT !.is = "expr"]

NoKey == "no column"

Cond(op, c, terms) == [op |-> op, col |-> c, terms |-> terms]

Relation(q, i) == Leaves[q.leaf[i]]

\* the conditions of a partial key, about the leaf's own columns
About(i, where) == {Cond(w.op, <<i, Name(w.col)>>, w.terms) : w \in where}

KeysOf(q, i) ==
  {[columns |-> key.columns, range |-> key.range, where |-> About(i, key.where)] :
     key \in Relation(q, i).keys}

\* the sides an outer join may leave without a row, and the leaves its ON may restrict
AllLeaves(q) == DOMAIN q.leaf
OnRestricts(q) == IF q.join = "left" THEN {2} ELSE AllLeaves(q)

\* known before the statement runs, and not the literal NULL
KnownTerm(t) == t.is = "param" \/ (t.is = "const" /\ t.val # {})

\* the leaves an outer join may leave without a row
OuterLeaves(q) ==
  CASE q.join = "left" -> {2} [] q.join = "full" -> {1, 2} [] OTHER -> {}

\* the column of the table, and of the level
NotNullable(q, c) == {} \notin Relation(q, Leaf(c)).vals[Name(c)]
NeverNull(q, c) == NotNullable(q, c) /\ Leaf(c) \notin OuterLeaves(q)

\* IS NOT DISTINCT FROM a known value is read as an equality where the column is never NULL
ReadAs(q, c) ==
  IF c.op = "same" /\ KnownTerm(c.terms[1]) /\ NeverNull(q, c.col)
    THEN [c EXCEPT !.op = "="] ELSE c

\* the conjuncts of the level, each with the leaves it may restrict; those of a FULL JOIN's
\* ON are not read
Quals(q) ==
  {[says |-> ReadAs(q, c), restricts |-> AllLeaves(q)] : c \in q.where}
    \cup IF q.join = "full" THEN {}
         ELSE {[says |-> ReadAs(q, c), restricts |-> OnRestricts(q)] : c \in q.on}

\* columns equal to a known value
FixedBy(q) ==
  {p.says.col : p \in {p \in Quals(q) :
     /\ p.says.op = "=" /\ KnownTerm(p.says.terms[1])
     /\ Leaf(p.says.col) \in p.restricts}}

\* variant: both directions, whatever the join
EdgesBothWays(q) ==
  UNION {{[from |-> p.says.col, to |-> p.says.terms[1].col],
          [from |-> p.says.terms[1].col, to |-> p.says.col]} :
           p \in {p \in Quals(q) : p.says.op = "=" /\ p.says.terms[1].is = "column"}}

\* an equality of two columns, in the directions that lead to a leaf it restricts
EdgesBy(q) ==
  UNION {{e \in {[from |-> p.says.col, to |-> p.says.terms[1].col],
                 [from |-> p.says.terms[1].col, to |-> p.says.col]} : Leaf(e.to) \in p.restricts} :
           p \in {p \in Quals(q) : p.says.op = "=" /\ p.says.terms[1].is = "column"}}

\* columns that the conditions of the WHERE and of inner joins prove non-NULL: IS NOT NULL, and
\* the operands of strict operators
NullRejected(q) ==
  UNION {{c.col} \cup {t.col : t \in {t \in ToSet(c.terms) : t.is = "column"}} :
           c \in {c \in q.where \cup IF q.join = "inner" THEN q.on ELSE {} :
                    c.op \notin {"same", "null"}}}

\* passes over the equalities until nothing changes: the columns of every set that holds those
\* of F and what its equalities lead to
Reached(E, F) ==
  LET to == {e.to : e \in E}
      closed(K) == \A e \in E : e.from \in K => e.to \in K
  IN F \cup {c \in to : \A T \in SUBSET to : closed(F \cup T) => c \in F \cup T}

\* a constant LIMIT of at most one, WITH TIES or not; a FULL JOIN; the GROUP BY
LevelFacts(q) ==
  [leaves |-> AllLeaves(q),
   single |-> q.limit \in {"one", "ties"},
   many |-> q.join = "full",
   fixed |-> Reached(EdgesBy(q), FixedBy(q)),
   edges |-> EdgesBy(q),
   preds |-> Quals(q),
   notnull |-> NullRejected(q),
   grouped |-> q.grouped, sets |-> q.sets, groups |-> q.groups,
   keys |-> [i \in AllLeaves(q) |-> KeysOf(q, i)],
   one |-> [i \in AllLeaves(q) |-> Relation(q, i).one],
   outputs |-> [i \in AllLeaves(q) |-> Relation(q, i).outputs],
   body |-> [i \in AllLeaves(q) |-> Relation(q, i).body]]
-----------------------------------------------------------------------------
(***************************************************************************)
(* What SQL makes of them.                                                 *)
(***************************************************************************)

\* does the condition hold of a leaf's row by itself
HoldsOf(w, row) ==
  LET v == row.vals[Name(w.col)] IN
  /\ v # {}
  /\ \E t \in ToSet(w.terms) : IF w.op = "@>" THEN t.val # {} /\ t.val \subseteq v ELSE v = t.val

Value(r, c) == IF Has(r, Leaf(c)) THEN Val(r, c) ELSE {}

\* the WHERE or ON condition is true of the joined row, with p for the parameter
True(c, r, p) ==
  LET v == Value(r, c.col)
      t(x) == CASE x.is = "param" -> p [] x.is = "column" -> Value(r, x.col) [] OTHER -> x.val
  IN CASE c.op = "same" -> v = t(c.terms[1])
       [] c.op = "null" -> v = {}
       [] c.op = "not null" -> v # {}
       [] c.op = "@>" -> t(c.terms[1]) # {} /\ t(c.terms[1]) \subseteq v
       [] OTHER -> v # {} /\ \E x \in ToSet(c.terms) : v = t(x)

\* two rows of a table may not share a key
Clash(leaf, a, b) ==
  \E key \in leaf.stored :
    /\ \A n \in key.columns :
         IF n = key.range THEN Overlap(a.vals[n], b.vals[n]) ELSE Same(a.vals[n], b.vals[n])
    /\ \A w \in key.where : HoldsOf(w, a) /\ HoldsOf(w, b)

\* a row of a leaf, as the level sees it: a derived one with its body's columns
RowsOf(leaf) ==
  {[rid |-> i, vals |-> v] : i \in {1, 2},
     v \in {v \in [DOMAIN leaf.vals -> SUBSET Points] :
              /\ \A n \in DOMAIN leaf.vals : v[n] \in leaf.vals[n]
              /\ \A o \in leaf.outputs :
                   (\A other \in leaf.outputs : other.name = o.name => other = o) =>
                     v[o.name] = v[o.col]}}

\* the contents the leaf may have: at most `most` rows, no two of which clash
Contents(leaf) ==
  LET rows == RowsOf(leaf)
      first == {a \in rows : a.rid = 1}
      second == {b \in rows : b.rid = 2}
  IN {{}} \cup {{a} : a \in first}
       \cup IF leaf.most = 1 THEN {}
            ELSE UNION {{{a, b} : b \in {b \in second : ~Clash(leaf, a, b)}} : a \in first}

ContentsOf == [name \in DOMAIN Leaves |-> Contents(Leaves[name])]

Joined(q, A, B, p) ==
  LET on(r) == \A c \in q.on : True(c, r, p)
      inner == {r \in {<<a, b>> : a \in A, b \in B} : on(r)}
      left == {<<a, NoRow>> : a \in {a \in A : \A b \in B : ~on(<<a, b>>)}}
      right == {<<NoRow, b>> : b \in {b \in B : \A a \in A : ~on(<<a, b>>)}}
  IN CASE q.join = "nothing" -> {<<>>}
       [] q.join = "none" -> {<<a>> : a \in A}
       [] q.join = "inner" -> inner
       [] q.join = "left" -> inner \cup left
       [] q.join = "full" -> inner \cup left \cup right

\* a row whose foreign key has no NULL refers to a row of the other leaf, when that is the
\* table it refers to
Refers(a, fk, B) ==
  (\A k \in DOMAIN fk.columns : a.vals[fk.columns[k]] # {}) =>
    \E b \in B : \A k \in DOMAIN fk.columns : a.vals[fk.columns[k]] = b.vals[fk.refs[k]]

Referring(q, i, A, j, B) ==
  {i, j} \subseteq AllLeaves(q) =>
    \A fk \in {fk \in Relation(q, i).refs : fk.enforced /\ fk.to = q.leaf[j]} :
      \A a \in A : Refers(a, fk, B)

\* LIMIT 1 gives any one of the rows; WITH TIES gives, besides it, those that sort with it,
\* which may be all
Cut(q, R) == IF q.limit = "one" THEN {{r} : r \in R} \cup {{}} ELSE {R}

Databases(q) ==
  {db \in (IF 1 \in AllLeaves(q) THEN ContentsOf[q.leaf[1]] ELSE {{}})
           \X (IF 2 \in AllLeaves(q) THEN ContentsOf[q.leaf[2]] ELSE {{}}) :
     Referring(q, 1, db[1], 2, db[2]) /\ Referring(q, 2, db[2], 1, db[1])}

Parameters == {{}, {0}}

\* the joined rows that pass the WHERE
Selected(q, db, p) == {r \in Joined(q, db[1], db[2], p) : \A c \in q.where : True(c, r, p)}

LevelResults(q) == UNION {Cut(q, Selected(q, db, p)) : db \in Databases(q), p \in Parameters}
-----------------------------------------------------------------------------
(***************************************************************************)
(* What may be asked of the relations and of the levels: the forms that    *)
(* the schema loader and the analyzer give them.                           *)
(***************************************************************************)

\* the body of a derived leaf is One where it is declared so: it has a single row, or two rows
\* of it differ in the columns the proof started from
BodyProved(leaf, from) ==
  leaf.most = 1
    \/ \E key \in leaf.stored :
         key.where = {} /\ key.range \notin key.columns /\ key.columns \subseteq from

\* the keys the analyzer sees are the table's own, the conditions of a partial one compare with
\* constants; foreign keys are of columns of the table; outputs stand at different places; a
\* leaf with one row has one
LeafFormed(leaf) ==
  /\ leaf.keys \subseteq leaf.stored
  /\ \A key \in leaf.keys : \A w \in key.where :
       w.op \in {"=", "in", "@>"} /\ \A t \in ToSet(w.terms) : t.is = "const"
  /\ \A fk \in leaf.refs : fk.columns \in Seq(DOMAIN leaf.vals)
  /\ leaf.one => leaf.most = 1
  /\ \A o, other \in leaf.outputs : o.at = other.at => o = other
  /\ \A from \in leaf.body : BodyProved(leaf, from)

ASSUME LeavesAssumption ==
  \A name \in DOMAIN Leaves : LeafFormed(Leaves[name]) /\ NoRow \notin RowsOf(Leaves[name])

\* how many leaves a join has
Sides(join) ==
  CASE join = "nothing" -> {} [] join = "none" -> {1} [] OTHER -> {1, 2}

ColumnOf(q, c) == Leaf(c) \in AllLeaves(q) /\ Name(c) \in DOMAIN Relation(q, Leaf(c)).vals

\* a condition on columns of the level; a comparison has one term, a list known values
CondFormed(q, c) ==
  /\ c = Cond(c.op, c.col, c.terms) /\ ColumnOf(q, c.col)
  /\ \A t \in ToSet(c.terms) : t.is = "column" => ColumnOf(q, t.col)
  /\ \/ c.op \in {"=", "@>", "same"} /\ ToSet(c.terms) = {c.terms[1]}
     \/ c.op = "in" /\ \A t \in ToSet(c.terms) : t.is # "column"
     \/ c.op \in {"null", "not null"} /\ ToSet(c.terms) = {}

LevelFormed(q) ==
  /\ q.join \in {"nothing", "none", "inner", "left", "full"}
  /\ DOMAIN q.leaf = Sides(q.join) /\ \A i \in DOMAIN q.leaf : q.leaf[i] \in DOMAIN Leaves
  /\ q.join \in {"nothing", "none"} => q.on = {}
  /\ \A c \in q.on \cup q.where : CondFormed(q, c)
  /\ q.limit \in {"none", "one", "ties"}
=============================================================================
