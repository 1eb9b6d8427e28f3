---------------------------- MODULE ObligedProofs ----------------------------
(***************************************************************************)
(* The facts that the analyzer records about a query level are true of     *)
(* what SQL makes of it.  So what the One proof says of a level is so, and *)
(* a statement keeps the obligations it is passed on: for any relations,   *)
(* conditions, rows, parameters and declarations.                          *)
(***************************************************************************)
EXTENDS Obliged, OneProofProofs
-----------------------------------------------------------------------------
(***************************************************************************)
(* The rows of a level.                                                    *)
(***************************************************************************)

\* every conjunct of the ON is true of the joined row
On(q, r, p) == \A c \in q.on : True(c, r, p)

\* Without a FROM there is one joined row, of nothing.
LEMMA NothingForm ==
  ASSUME NEW q, q.join = "nothing", NEW A, NEW B, NEW p, NEW r \in Joined(q, A, B, p)
  PROVE  r = <<>>
  BY DEF Joined

\* Of one leaf, its rows.
LEMMA NoneForm ==
  ASSUME NEW q, q.join = "none", NEW A, NEW B, NEW p, NEW r \in Joined(q, A, B, p)
  PROVE  \E a \in A : r = <<a>>
  BY DEF Joined

\* Of an inner join, the pairs of rows the ON is true of.
LEMMA InnerForm ==
  ASSUME NEW q, q.join = "inner", NEW A, NEW B, NEW p, NEW r \in Joined(q, A, B, p)
  PROVE  On(q, r, p) /\ \E a \in A, b \in B : r = <<a, b>>
  BY DEF Joined, On

\* Of a left join, besides them the left rows without a partner.
LEMMA LeftForm ==
  ASSUME NEW q, q.join = "left", NEW A, NEW B, NEW p, NEW r \in Joined(q, A, B, p)
  PROVE  \E a \in A :
           \/ r = <<a, NoRow>> /\ \A b \in B : ~On(q, <<a, b>>, p)
           \/ \E b \in B : r = <<a, b>> /\ On(q, r, p)
  BY DEF Joined, On

\* Of a full join, rows of both sides or of one.
LEMMA FullForm ==
  ASSUME NEW q, q.join = "full", NEW A, NEW B, NEW p, NEW r \in Joined(q, A, B, p)
  PROVE  \/ \E a \in A : r = <<a, NoRow>>
         \/ \E b \in B : r = <<NoRow, b>>
         \/ \E a \in A, b \in B : r = <<a, b>>
  BY DEF Joined

\* A row that the joined row has of a leaf is one of its contents.
LEMMA RowOfLeaf ==
  ASSUME NEW q, LevelFormed(q), NEW db, NEW p, NEW r \in Joined(q, db[1], db[2], p),
         NEW i \in AllLeaves(q), Has(r, i)
  PROVE  r[i] \in db[i]
<1>1. i \in Sides(q.join)
  BY DEF LevelFormed, AllLeaves
<1>2. CASE q.join = "nothing"
  BY <1>1, <1>2 DEF Sides
<1>3. CASE q.join = "none"
  BY <1>1, <1>3, NoneForm DEF Sides
<1>4. CASE q.join = "inner"
  BY <1>1, <1>4, InnerForm DEF Sides
<1>5. CASE q.join = "left"
  BY <1>1, <1>5, LeftForm DEF Sides, Has
<1>6. CASE q.join = "full"
  BY <1>1, <1>6, FullForm DEF Sides, Has
<1> QED
  BY <1>2, <1>3, <1>4, <1>5, <1>6 DEF LevelFormed

\* A conjunct of the ON is true of the joined rows that have a leaf it restricts.
LEMMA OnHolds ==
  ASSUME NEW q, LevelFormed(q), q.join # "full", NEW A, NEW B, NEW p,
         NEW r \in Joined(q, A, B, p), NEW i \in OnRestricts(q), Has(r, i), NEW c \in q.on
  PROVE  True(c, r, p)
<1>1. CASE q.join = "inner"
  BY <1>1, InnerForm DEF On
<1>2. CASE q.join = "left"
  BY <1>2, LeftForm DEF On, OnRestricts, Has
<1> QED
  BY <1>1, <1>2 DEF LevelFormed

\* The conjunct behind a predicate of the level is true of the rows that have a leaf it
\* restricts.
LEMMA QualSays ==
  ASSUME NEW q, LevelFormed(q), NEW db, NEW p, NEW pred \in Quals(q)
  PROVE  \E c \in q.on \cup q.where :
           /\ pred.says = ReadAs(q, c)
           /\ pred.restricts \subseteq AllLeaves(q)
           /\ \A r \in Selected(q, db, p) : \A i \in pred.restricts : Has(r, i) => True(c, r, p)
<1>1. CASE \E c \in q.where : pred = [says |-> ReadAs(q, c), restricts |-> AllLeaves(q)]
  BY <1>1 DEF Selected
<1>2. CASE q.join # "full"
           /\ \E c \in q.on : pred = [says |-> ReadAs(q, c), restricts |-> OnRestricts(q)]
  <2>1. PICK c \in q.on : pred = [says |-> ReadAs(q, c), restricts |-> OnRestricts(q)]
    BY <1>2
  <2>2. OnRestricts(q) \subseteq AllLeaves(q)
    BY DEF OnRestricts, AllLeaves, LevelFormed, Sides
  <2>3. \A r \in Selected(q, db, p) : r \in Joined(q, db[1], db[2], p)
    BY DEF Selected
  <2>4. \A r \in Selected(q, db, p) : \A i \in pred.restricts : Has(r, i) => True(c, r, p)
    BY <1>2, <2>1, <2>3, OnHolds
  <2> QED
    BY <2>1, <2>2, <2>4
<1> QED
  BY <1>1, <1>2 DEF Quals

\* What the results are rows of.
LEMMA ResultsAre ==
  ASSUME NEW q, NEW R \in LevelResults(q)
  PROVE  \E db \in Databases(q), p \in Parameters : R \in Cut(q, Selected(q, db, p))
  BY DEF LevelResults

\* A LIMIT leaves rows of the level's own.
LEMMA CutWithin ==
  ASSUME NEW q, NEW S, NEW R \in Cut(q, S)
  PROVE  R \subseteq S /\ (q.limit = "one" => \A r, s \in R : r = s)
  BY DEF Cut

-----------------------------------------------------------------------------
(***************************************************************************)
(* The contents of a leaf.                                                 *)
(***************************************************************************)

\* A leaf of a database has the contents its relation may have.
LEMMA LeafContents ==
  ASSUME NEW q, LevelFormed(q), NEW db \in Databases(q), NEW i \in AllLeaves(q)
  PROVE  db[i] \in Contents(Relation(q, i)) /\ LeafFormed(Relation(q, i))
<1>1. i \in {1, 2} /\ q.leaf[i] \in DOMAIN Leaves
  BY DEF LevelFormed, AllLeaves, Sides
<1>2. db[i] \in ContentsOf[q.leaf[i]]
  BY <1>1 DEF Databases
<1> QED
  BY <1>1, <1>2, LeavesAssumption DEF ContentsOf, Relation

\* The rows of the contents are rows of the leaf.
LEMMA ContentRows ==
  ASSUME NEW leaf, NEW A \in Contents(leaf)
  PROVE  A \subseteq RowsOf(leaf)
  BY DEF Contents

\* Whether two rows clash does not depend on which is first.
LEMMA ClashBoth ==
  ASSUME NEW leaf, NEW a, NEW b, Clash(leaf, a, b)
  PROVE  Clash(leaf, b, a)
<1>1. PICK key \in leaf.stored :
        /\ \A n \in key.columns :
             IF n = key.range THEN Overlap(a.vals[n], b.vals[n]) ELSE Same(a.vals[n], b.vals[n])
        /\ \A w \in key.where : HoldsOf(w, a) /\ HoldsOf(w, b)
  BY DEF Clash
<1>2. \A n \in key.columns :
        IF n = key.range THEN Overlap(b.vals[n], a.vals[n]) ELSE Same(b.vals[n], a.vals[n])
  BY <1>1 DEF Overlap, Same
<1> QED
  BY <1>1, <1>2 DEF Clash

\* No two rows of a table share a key.
LEMMA NoClash ==
  ASSUME NEW leaf, NEW A \in Contents(leaf), NEW a \in A, NEW b \in A, a # b
  PROVE  ~Clash(leaf, a, b) /\ leaf.most # 1
<1>1. CASE A = {}
  BY <1>1
<1>2. CASE \E x : A = {x}
  BY <1>2
<1>3. CASE leaf.most # 1 /\ \E x, y : A = {x, y} /\ ~Clash(leaf, x, y)
  BY <1>3, ClashBoth
<1> QED
  BY <1>1, <1>2, <1>3 DEF Contents

\* The values of a row are those its columns may have.
LEMMA RowValue ==
  ASSUME NEW leaf, NEW a \in RowsOf(leaf), NEW n \in DOMAIN leaf.vals
  PROVE  a.vals[n] \in leaf.vals[n]
  BY DEF RowsOf

\* The row of a joined row, of its leaf and its contents.
LEMMA SelectedRow ==
  ASSUME NEW q, LevelFormed(q), NEW db \in Databases(q), NEW p, NEW r \in Selected(q, db, p),
         NEW i \in AllLeaves(q), Has(r, i)
  PROVE  r[i] \in db[i] /\ r[i] \in RowsOf(Relation(q, i))
<1>1. r[i] \in db[i]
  BY RowOfLeaf DEF Selected
<1> QED
  BY <1>1, LeafContents, ContentRows

\* Every joined row has a row of those leaves.
LEMMA HasEvery ==
  ASSUME NEW q, LevelFormed(q), NEW db \in Databases(q), NEW p, NEW r \in Selected(q, db, p),
         NEW i \in InEveryRow(q)
  PROVE  Has(r, i)
<1>1. i \in AllLeaves(q) /\ AllLeaves(q) = Sides(q.join)
  BY DEF InEveryRow, AllLeaves, LevelFormed
<1>2. \A j \in AllLeaves(q) : NoRow \notin db[j]
  <2>1. ASSUME NEW j \in AllLeaves(q) PROVE NoRow \notin RowsOf(Relation(q, j))
    BY LeavesAssumption DEF LevelFormed, AllLeaves, Relation
  <2> QED
    BY <2>1, LeafContents, ContentRows
<1>3. r \in Joined(q, db[1], db[2], p)
  BY DEF Selected
<1>4. CASE q.join = "none"
  <2>1. \E a \in db[1] : r = <<a>>
    BY <1>3, <1>4, NoneForm
  <2> QED
    BY <1>1, <1>2, <1>4, <2>1 DEF Sides, Has
<1>5. CASE q.join = "inner"
  <2>1. \E a \in db[1], b \in db[2] : r = <<a, b>>
    BY <1>3, <1>5, InnerForm
  <2> QED
    BY <1>1, <1>2, <1>5, <2>1 DEF Sides, Has
<1>6. CASE q.join = "left"
  <2>1. r[1] \in db[1]
    BY <1>3, <1>6, LeftForm
  <2>2. i = 1
    BY <1>1, <1>6 DEF InEveryRow, OuterLeaves, Sides
  <2> QED
    BY <1>1, <1>2, <2>1, <2>2 DEF Has
<1> QED
  BY <1>1, <1>4, <1>5, <1>6 DEF InEveryRow, OuterLeaves, LevelFormed, Sides

\* A predicate is true of the joined rows that have a leaf it restricts.
LEMMA PredTrue ==
  ASSUME NEW q, LevelFormed(q), NEW db \in Databases(q), NEW p, NEW pred \in Quals(q),
         NEW r \in Selected(q, db, p), NEW i \in pred.restricts, Has(r, i)
  PROVE  /\ True(pred.says, r, p)
         /\ pred.says.op \in {"=", "@>"} => ToSet(pred.says.terms) = {pred.says.terms[1]}
<1>1. PICK c \in q.on \cup q.where : pred.says = ReadAs(q, c) /\ True(c, r, p)
  BY QualSays
<1>2. CondFormed(q, c)
  BY DEF LevelFormed
<1>3. CASE c.op = "same" /\ KnownTerm(c.terms[1]) /\ NeverNull(q, c.col)
  <2>1. pred.says = Cond("=", c.col, c.terms)
    <3>1. c = Cond(c.op, c.col, c.terms)
      BY <1>2 DEF CondFormed
    <3> QED
      BY <1>1, <1>3, <3>1 DEF ReadAs, Cond
  <2>2. Value(r, c.col) # {}
    <3>1. Leaf(c.col) \in InEveryRow(q) /\ ColumnOf(q, c.col)
      BY <1>2, <1>3 DEF NeverNull, InEveryRow, CondFormed, ColumnOf
    <3>2. Has(r, Leaf(c.col))
      BY <3>1, HasEvery
    <3>3. Val(r, c.col) \in Relation(q, Leaf(c.col)).vals[Name(c.col)]
      BY <3>1, <3>2, SelectedRow, RowValue DEF ColumnOf, Val
    <3> QED
      BY <1>3, <3>2, <3>3 DEF NeverNull, NotNullable, Value
  <2>3. ToSet(c.terms) = {c.terms[1]}
    BY <1>2, <1>3 DEF CondFormed
  <2>4. True(pred.says, r, p)
    BY <1>1, <1>3, <2>1, <2>2, <2>3 DEF True, Cond
  <2> QED
    BY <2>1, <2>3, <2>4 DEF Cond
<1>4. CASE pred.says = c
  BY <1>1, <1>2, <1>4 DEF CondFormed
<1> QED
  BY <1>1, <1>3, <1>4 DEF ReadAs

\* An equality of columns is one of values, and not of NULLs.
LEMMA ColumnQual ==
  ASSUME NEW q, LevelFormed(q), NEW db \in Databases(q), NEW p, NEW pred \in Quals(q),
         pred.says.op = "=", pred.says.terms[1].is = "column",
         NEW r \in Selected(q, db, p), NEW i \in pred.restricts, Has(r, i)
  PROVE  Value(r, pred.says.col) # {} /\ Value(r, pred.says.col) = Value(r, pred.says.terms[1].col)
<1>1. True(pred.says, r, p) /\ ToSet(pred.says.terms) = {pred.says.terms[1]}
  BY PredTrue
<1> QED
  BY <1>1 DEF True

-----------------------------------------------------------------------------
(***************************************************************************)
(* Each promise of facts.go, of the rows that a database and the           *)
(* parameters give.                                                        *)
(***************************************************************************)

\* For a parameter, the column has one value wherever its leaf has a row, whatever the database
\* holds.
FixedAt(q, c, p, v) ==
  \A db \in Databases(q) : \A r \in Selected(q, db, p) :
    Has(r, Leaf(c)) => Val(r, c) = v /\ v # {}

\* A predicate that equates a column with a known value fixes it.
LEMMA FixedByValue ==
  ASSUME NEW q, LevelFormed(q), NEW p, NEW pred \in Quals(q), pred.says.op = "=",
         KnownTerm(pred.says.terms[1]), Leaf(pred.says.col) \in pred.restricts
  PROVE  LET t == pred.says.terms[1] IN
         FixedAt(q, pred.says.col, p, IF t.is = "param" THEN p ELSE t.val)
<1> SUFFICES ASSUME NEW db \in Databases(q), NEW r \in Selected(q, db, p),
                    Has(r, Leaf(pred.says.col))
             PROVE  LET t == pred.says.terms[1]
                        v == IF t.is = "param" THEN p ELSE t.val
                    IN Val(r, pred.says.col) = v /\ v # {}
  BY DEF FixedAt
<1>1. True(pred.says, r, p) /\ ToSet(pred.says.terms) = {pred.says.terms[1]}
  BY PredTrue
<1>2. Value(r, pred.says.col) = Val(r, pred.says.col)
  BY DEF Value
<1> QED
  BY <1>1, <1>2 DEF True, KnownTerm

\* Where the column an equality leads to has a row, it is equal to the other.
LEMMA SelectedEdges ==
  ASSUME NEW q, LevelFormed(q), NEW db \in Databases(q), NEW p, NEW e \in EdgesBy(q),
         NEW r \in Selected(q, db, p), Has(r, Leaf(e.to))
  PROVE  Has(r, Leaf(e.from)) /\ Same(Val(r, e.from), Val(r, e.to))
<1>1. PICK pred \in Quals(q) :
        /\ pred.says.op = "=" /\ pred.says.terms[1].is = "column"
        /\ e \in {[from |-> pred.says.col, to |-> pred.says.terms[1].col],
                  [from |-> pred.says.terms[1].col, to |-> pred.says.col]}
        /\ Leaf(e.to) \in pred.restricts
  BY DEF EdgesBy
<1>2. Value(r, pred.says.col) # {} /\ Value(r, pred.says.col) = Value(r, pred.says.terms[1].col)
  BY <1>1, ColumnQual
<1> QED
  BY <1>1, <1>2 DEF Value, Same

\* What holds of F and is kept by the equalities holds of all they lead to.
LEMMA ReachedLeast ==
  ASSUME NEW E, NEW F, NEW H, F \subseteq H, \A e \in E : e.from \in H => e.to \in H
  PROVE  Reached(E, F) \subseteq H
<1> DEFINE T == {e.to : e \in E} \cap H
<1>1. \A e \in E : e.from \in F \cup T => e.to \in F \cup T
  OBVIOUS
<1>2. T \in SUBSET {e.to : e \in E}
  OBVIOUS
<1> QED
  BY <1>1, <1>2 DEF Reached

\* What the equalities lead to from a fixed column is fixed.
LEMMA FixedValue ==
  ASSUME NEW q, LevelFormed(q), NEW p, NEW c \in LevelFacts(q).fixed
  PROVE  \E v : FixedAt(q, c, p, v)
<1> DEFINE all == FixedBy(q) \cup {e.to : e \in EdgesBy(q)}
           H == {d \in all : \E v : FixedAt(q, d, p, v)}
<1>1. FixedBy(q) \subseteq H
  BY FixedByValue DEF FixedBy
<1>2. ASSUME NEW e \in EdgesBy(q), e.from \in H PROVE e.to \in H
  <2>1. PICK v : FixedAt(q, e.from, p, v)
    BY <1>2
  <2>2. FixedAt(q, e.to, p, v)
    BY <2>1, SelectedEdges DEF FixedAt, Same
  <2> QED
    BY <2>2
<1> HIDE DEF H
<1>3. Reached(EdgesBy(q), FixedBy(q)) \subseteq H
  BY <1>1, <1>2, ReachedLeast
<1> QED
  BY <1>3 DEF LevelFacts, H

\* Of the rows of one database, then, two agree on it.
LEMMA SelectedFixed ==
  ASSUME NEW q, LevelFormed(q), NEW db \in Databases(q), NEW p, NEW R, R \subseteq Selected(q, db, p)
  PROVE  FixedHold(LevelFacts(q), R)
<1> SUFFICES ASSUME NEW c \in LevelFacts(q).fixed, NEW r \in R, NEW s \in R, Both(r, s, Leaf(c))
             PROVE  Same(Val(r, c), Val(s, c))
  BY DEF FixedHold
<1>1. PICK v : FixedAt(q, c, p, v)
  BY FixedValue
<1> QED
  BY <1>1 DEF FixedAt, Both, Same

\* Two rows whose range contains the same point overlap.
LEMMA SelectedPoints ==
  ASSUME NEW q, LevelFormed(q), NEW db \in Databases(q), NEW p, NEW pred \in Quals(q),
         NEW r \in Selected(q, db, p), NEW s \in Selected(q, db, p),
         pred.says.op = "@>", Applies(pred, Leaf(pred.says.col)), Both(r, s, Leaf(pred.says.col)),
         \A t \in ToSet(pred.says.terms) :
           t.is = "column" /\ Both(r, s, Leaf(t.col)) => Val(r, t.col) = Val(s, t.col)
  PROVE  Overlap(Val(r, pred.says.col), Val(s, pred.says.col))
<1> DEFINE t == pred.says.terms[1]
           at(x) == CASE t.is = "param" -> p [] t.is = "column" -> Value(x, t.col) [] OTHER -> t.val
<1>1. ASSUME NEW x \in {r, s} PROVE at(x) # {} /\ at(x) \subseteq Val(x, pred.says.col)
  <2>1. True(pred.says, x, p)
    BY PredTrue DEF Applies, Both
  <2> QED
    BY <2>1 DEF True, Value, Both
<1>2. at(r) = at(s)
  <2>1. t \in ToSet(pred.says.terms)
    BY PredTrue DEF Applies, Both
  <2>2. CASE t.is = "column"
    <3>1. Both(r, s, Leaf(t.col))
      BY <1>1, <2>2 DEF Value, Both
    <3> QED
      BY <2>1, <2>2, <3>1 DEF Value, Both
  <2>3. CASE t.is # "column"
    BY <2>3
  <2> QED
    BY <2>2, <2>3
<1> QED
  BY <1>1, <1>2 DEF Overlap

\* A predicate that says what a partial key's does makes that true of the row.
LEMMA SelectedPreds ==
  ASSUME NEW q, LevelFormed(q), NEW db \in Databases(q), NEW p, NEW i \in AllLeaves(q),
         NEW key \in KeysOf(q, i), NEW w \in key.where, NEW pred \in Quals(q),
         NEW r \in Selected(q, db, p), Applies(pred, i), SamePred(pred.says, w), Has(r, i)
  PROVE  HoldsOf(w, r[i])
<1>1. PICK k \in Relation(q, i).keys : key.where = About(i, k.where)
  BY DEF KeysOf
<1>2. PICK v \in k.where : w = Cond(v.op, <<i, Name(v.col)>>, v.terms)
  BY <1>1 DEF About
<1>3. /\ w.op \in {"=", "in", "@>"} /\ \A t \in ToSet(w.terms) : t.is = "const"
      /\ Leaf(w.col) = i
  <2>1. LeafFormed(Relation(q, i))
    BY LeafContents
  <2> QED
    BY <1>2, <2>1 DEF LeafFormed, Cond, Leaf
<1>4. /\ pred.says.op = w.op /\ pred.says.col = w.col
      /\ \A t \in ToSet(pred.says.terms) : t \in ToSet(w.terms) /\ t.is = "const"
  BY <1>3 DEF SamePred
<1>5. /\ True(pred.says, r, p)
      /\ pred.says.op \in {"=", "@>"} => ToSet(pred.says.terms) = {pred.says.terms[1]}
  BY <1>3, <1>4, PredTrue DEF Applies
<1>6. Value(r, w.col) = r[i].vals[Name(w.col)]
  BY <1>3 DEF Value, Val
<1>7. CASE w.op = "@>"
  <2>1. pred.says.terms[1] \in ToSet(w.terms) /\ pred.says.terms[1].is = "const"
    BY <1>4, <1>5, <1>7
  <2>2. pred.says.terms[1].val # {} /\ pred.says.terms[1].val \subseteq Value(r, w.col)
    BY <1>4, <1>5, <1>7, <2>1 DEF True
  <2> QED
    BY <1>6, <1>7, <2>1, <2>2 DEF HoldsOf
<1>8. CASE w.op # "@>"
  <2>1. Value(r, w.col) # {} /\ \E t \in ToSet(w.terms) : Value(r, w.col) = t.val
    BY <1>3, <1>4, <1>5, <1>8 DEF True
  <2> QED
    BY <1>6, <1>8, <2>1 DEF HoldsOf
<1> QED
  BY <1>7, <1>8

\* Two rows of a leaf that agree in a key it has, and meet its condition, are one.
LEMMA SelectedKeys ==
  ASSUME NEW q, LevelFormed(q), NEW db \in Databases(q), NEW p, NEW i \in AllLeaves(q),
         NEW key \in KeysOf(q, i), NEW r \in Selected(q, db, p), NEW s \in Selected(q, db, p),
         Both(r, s, i),
         \A n \in key.columns :
           IF n = key.range THEN Overlap(Val(r, <<i, n>>), Val(s, <<i, n>>))
           ELSE Same(Val(r, <<i, n>>), Val(s, <<i, n>>)),
         \A w \in key.where : HoldsOf(w, r[i]) /\ HoldsOf(w, s[i])
  PROVE  r[i] = s[i]
<1>1. PICK k \in Relation(q, i).keys :
        /\ key.columns = k.columns /\ key.range = k.range
        /\ key.where = About(i, k.where)
  BY DEF KeysOf
<1>2. \A n : Val(r, <<i, n>>) = r[i].vals[n] /\ Val(s, <<i, n>>) = s[i].vals[n]
  BY DEF Val, Leaf, Name
<1>3. \A n \in k.columns :
        IF n = k.range THEN Overlap(r[i].vals[n], s[i].vals[n]) ELSE Same(r[i].vals[n], s[i].vals[n])
  BY <1>1, <1>2
<1>4. ASSUME NEW w \in k.where PROVE HoldsOf(w, r[i]) /\ HoldsOf(w, s[i])
  <2>1. Cond(w.op, <<i, Name(w.col)>>, w.terms) \in key.where
    BY <1>1 DEF About
  <2> QED
    BY <2>1 DEF HoldsOf, Cond, Name
<1>5. LeafFormed(Relation(q, i)) /\ db[i] \in Contents(Relation(q, i))
  BY LeafContents
<1>6. Clash(Relation(q, i), r[i], s[i])
  BY <1>3, <1>4, <1>5 DEF Clash, LeafFormed
<1>7. r[i] \in db[i] /\ s[i] \in db[i]
  BY SelectedRow DEF Both
<1> QED
  BY <1>5, <1>6, <1>7, NoClash

\* What is promised of a derived leaf's single row, outputs and body.
LEMMA SelectedBodies ==
  ASSUME NEW q, LevelFormed(q), NEW db \in Databases(q), NEW p, NEW R, R \subseteq Selected(q, db, p)
  PROVE  BodiesHold(LevelFacts(q), R)
<1> SUFFICES ASSUME NEW i \in AllLeaves(q), NEW r \in R, NEW s \in R, Both(r, s, i)
             PROVE  LET leaf == Relation(q, i) IN
                    /\ leaf.one => r[i] = s[i]
                    /\ \A o \in leaf.outputs :
                         (\A other \in leaf.outputs : other.name = o.name => other.at = o.at) =>
                           Val(r, <<i, o.name>>) = Val(r, <<i, o.col>>)
                    /\ \A from \in leaf.body :
                         (\A n \in from : Same(Val(r, <<i, n>>), Val(s, <<i, n>>))) => r[i] = s[i]
  BY DEF BodiesHold, LevelFacts
<1> DEFINE leaf == Relation(q, i)
<1>1. /\ db[i] \in Contents(leaf) /\ LeafFormed(leaf)
      /\ r[i] \in db[i] /\ s[i] \in db[i] /\ r[i] \in RowsOf(leaf)
  BY LeafContents, SelectedRow DEF Both
<1>2. \A n : Val(r, <<i, n>>) = r[i].vals[n] /\ Val(s, <<i, n>>) = s[i].vals[n]
  BY DEF Val, Leaf, Name
<1> HIDE DEF leaf
<1>3. leaf.one => r[i] = s[i]
  BY <1>1, NoClash DEF LeafFormed
<1>4. ASSUME NEW o \in leaf.outputs,
             \A other \in leaf.outputs : other.name = o.name => other.at = o.at
      PROVE  r[i].vals[o.name] = r[i].vals[o.col]
  <2>1. \A other \in leaf.outputs : other.name = o.name => other = o
    BY <1>1, <1>4 DEF LeafFormed
  <2> QED
    BY <1>1, <2>1 DEF RowsOf
<1>5. ASSUME NEW from \in leaf.body, \A n \in from : Same(r[i].vals[n], s[i].vals[n])
      PROVE  r[i] = s[i]
  <2>1. CASE leaf.most = 1
    BY <1>1, <2>1, NoClash
  <2>2. CASE leaf.most # 1
    <3>1. PICK key \in leaf.stored :
            key.where = {} /\ key.range \notin key.columns /\ key.columns \subseteq from
      BY <1>1, <2>2 DEF LeafFormed, BodyProved
    <3>2. Clash(leaf, r[i], s[i])
      BY <1>5, <3>1 DEF Clash
    <3> QED
      BY <1>1, <3>2, NoClash
  <2> QED
    BY <2>1, <2>2
<1> QED
  BY <1>2, <1>3, <1>4, <1>5 DEF leaf

-----------------------------------------------------------------------------
\* Two rows of a level that have the same row of each leaf they both have are one, the joins
\* being no FULL JOIN: what an outer join leaves without a row has no partner.
LEMMA SelectedLevel ==
  ASSUME NEW q, LevelFormed(q), q.join # "full", NEW db \in Databases(q), NEW p,
         NEW r \in Selected(q, db, p), NEW s \in Selected(q, db, p),
         \A i \in AllLeaves(q) : Both(r, s, i) => r[i] = s[i]
  PROVE  r = s
<1>1. \A i \in AllLeaves(q) : NoRow \notin db[i]
  <2>1. ASSUME NEW i \in AllLeaves(q) PROVE NoRow \notin RowsOf(Relation(q, i))
    BY LeavesAssumption DEF LevelFormed, AllLeaves, Relation
  <2> QED
    BY <2>1, LeafContents, ContentRows
<1>2. AllLeaves(q) = Sides(q.join)
  BY DEF AllLeaves, LevelFormed
<1>3. r \in Joined(q, db[1], db[2], p) /\ s \in Joined(q, db[1], db[2], p)
  BY DEF Selected
<1>4. CASE q.join = "nothing"
  BY <1>3, <1>4, NothingForm
<1>5. CASE q.join = "none"
  <2>1. PICK a \in db[1], b \in db[1] : r = <<a>> /\ s = <<b>>
    BY <1>3, <1>5, NoneForm
  <2>2. 1 \in AllLeaves(q)
    BY <1>2, <1>5 DEF Sides
  <2>3. Both(r, s, 1)
    BY <1>1, <2>1, <2>2 DEF Both, Has
  <2> QED
    BY <2>1, <2>2, <2>3
<1>6. CASE q.join = "inner"
  <2>1. /\ \E a \in db[1], b \in db[2] : r = <<a, b>>
        /\ \E a \in db[1], b \in db[2] : s = <<a, b>>
    BY <1>3, <1>6, InnerForm
  <2>2. {1, 2} \subseteq AllLeaves(q)
    BY <1>2, <1>6 DEF Sides
  <2>3. Both(r, s, 1) /\ Both(r, s, 2)
    BY <1>1, <2>1, <2>2 DEF Both, Has
  <2> QED
    BY <2>1, <2>2, <2>3
<1>7. CASE q.join = "left"
  <2>1. {1, 2} \subseteq AllLeaves(q)
    BY <1>2, <1>7 DEF Sides
  <2>2. PICK a \in db[1] :
           \/ r = <<a, NoRow>> /\ \A b \in db[2] : ~On(q, <<a, b>>, p)
           \/ \E b \in db[2] : r = <<a, b>> /\ On(q, r, p)
    BY <1>3, <1>7, LeftForm
  <2>3. PICK c \in db[1] :
           \/ s = <<c, NoRow>> /\ \A b \in db[2] : ~On(q, <<c, b>>, p)
           \/ \E b \in db[2] : s = <<c, b>> /\ On(q, s, p)
    BY <1>3, <1>7, LeftForm
  <2>4. a = c
    <3>1. r[1] = a /\ s[1] = c
      BY <2>2, <2>3
    <3>2. Both(r, s, 1)
      BY <1>1, <2>1, <3>1 DEF Both, Has
    <3> QED
      BY <2>1, <3>1, <3>2
  <2>5. CASE r = <<a, NoRow>> /\ s = <<c, NoRow>>
    BY <2>4, <2>5
  <2>6. CASE (\E b \in db[2] : r = <<a, b>>) /\ (\E b \in db[2] : s = <<c, b>>)
    <3>1. Both(r, s, 2)
      BY <1>1, <2>1, <2>6 DEF Both, Has
    <3>2. r[2] = s[2]
      BY <2>1, <3>1
    <3> QED
      BY <2>4, <2>6, <3>2
  <2> QED
    BY <2>2, <2>3, <2>4, <2>5, <2>6
<1> QED
  BY <1>4, <1>5, <1>6, <1>7 DEF LevelFormed
-----------------------------------------------------------------------------
(***************************************************************************)
(* All of it, for the rows a statement may return.                         *)
(***************************************************************************)

\* The proof is of levels: its facts are those the analyzer records about them, its results the
\* rows SQL gives them.
OfLevels ==
  /\ \A q \in Statements : Facts(q) = LevelFacts(q) /\ Results(q) = LevelResults(q)
  /\ \A w, row : Holds(w, row) <=> HoldsOf(w, row)

\* What is promised of a level is so.
LEMMA LevelPromised ==
  ASSUME OfLevels, NEW q \in Statements, q.limit # "ties"
  PROVE  Promised(q)
<1>1. LevelFormed(q) /\ Facts(q) = LevelFacts(q)
  BY LevelsAssumption DEF OfLevels
<1> SUFFICES ASSUME NEW R \in LevelResults(q)
             PROVE  /\ FixedHold(Facts(q), R) /\ EdgesHold(Facts(q), R) /\ PointsHold(Facts(q), R)
                    /\ PredsHold(Facts(q), R) /\ KeysHold(Facts(q), R) /\ BodiesHold(Facts(q), R)
                    /\ LevelHolds(Facts(q), R)
  BY DEF Promised, OfLevels
<1>2. PICK db \in Databases(q), p \in Parameters : R \in Cut(q, Selected(q, db, p))
  BY ResultsAre
<1>3. R \subseteq Selected(q, db, p) /\ (q.limit = "one" => \A r, s \in R : r = s)
  BY <1>2, CutWithin
<1>4. FixedHold(LevelFacts(q), R) /\ BodiesHold(LevelFacts(q), R)
  BY <1>1, <1>3, SelectedFixed, SelectedBodies
<1>5. EdgesHold(LevelFacts(q), R)
  BY <1>1, <1>3, SelectedEdges DEF EdgesHold, LevelFacts
<1>6. PointsHold(LevelFacts(q), R)
  BY <1>1, <1>3, SelectedPoints DEF PointsHold, LevelFacts
<1>7. PredsHold(LevelFacts(q), R)
  <2> SUFFICES ASSUME NEW i \in AllLeaves(q), NEW key \in KeysOf(q, i), NEW w \in key.where,
                      NEW pred \in Quals(q), NEW r \in R,
                      Applies(pred, i), SamePred(pred.says, w), Has(r, i)
               PROVE  HoldsOf(w, r[i])
    BY DEF PredsHold, LevelFacts, OfLevels
  <2> QED
    BY <1>1, <1>3, SelectedPreds
<1>8. KeysHold(LevelFacts(q), R)
  <2> SUFFICES ASSUME NEW i \in AllLeaves(q), NEW key \in KeysOf(q, i), NEW r \in R, NEW s \in R,
                      Both(r, s, i),
                      \A n \in key.columns :
                        IF n = key.range THEN Overlap(Val(r, <<i, n>>), Val(s, <<i, n>>))
                        ELSE Same(Val(r, <<i, n>>), Val(s, <<i, n>>)),
                      \A w \in key.where : HoldsOf(w, r[i]) /\ HoldsOf(w, s[i])
               PROVE  r[i] = s[i]
    BY DEF KeysHold, LevelFacts, OfLevels
  <2> QED
    BY <1>1, <1>3, SelectedKeys
<1>9. LevelHolds(LevelFacts(q), R)
  <2>1. LevelFacts(q).single => q.limit = "one"
    BY DEF LevelFacts
  <2>2. LevelFacts(q).many <=> q.join = "full"
    BY DEF LevelFacts
  <2>3. LevelFacts(q).leaves = AllLeaves(q)
    BY DEF LevelFacts
  <2>4. ASSUME q.join # "full", NEW r \in R, NEW s \in R,
               \A i \in AllLeaves(q) : Both(r, s, i) => r[i] = s[i]
        PROVE  r = s
    BY <1>1, <1>3, <2>4, SelectedLevel
  <2> QED
    BY <1>3, <2>1, <2>2, <2>3, <2>4 DEF LevelHolds
<1> QED
  BY <1>1, <1>4, <1>5, <1>6, <1>7, <1>8, <1>9

\* The facts written down about a level are true of what it returns (addItem, addQuals,
\* scopeFacts): an equality fixes a column, or leads from one to another, only where it
\* restricts, and no level is called single or joined so that it has no other rows than those
\* of its leaves unless it is.  FETCH FIRST 1 ROW WITH TIES is taken for a single row and is
\* left out.
THEOREM FactsAreTrue == ASSUME OfLevels, NoTies PROVE Spec => []FactsHold
<1>1. Init => stmt \in Statements
  BY DEF Init
<1>2. stmt \in Statements /\ [Next]_vars => (stmt \in Statements)'
  BY DEF Next, Shape, FollowEdge, HoldPoint, FixLeaf, Judge, vars
<1>3. stmt \in Statements => FactsHold
  BY LevelPromised DEF FactsHold, NoTies
<1> QED
  BY <1>1, <1>2, <1>3, PTL DEF Spec

\* A leaf of a level that the proof calls single takes part with one row only (TargetSingle),
\* whatever rows the database holds.
THEOREM LeavesOfLevels == ASSUME OfLevels, NoTies PROVE Spec => []LeafSound
<1>1. AllPromised
  BY LevelPromised DEF AllPromised, NoTies
<1> QED
  BY <1>1, LeafSoundness

\* What the checker proves of a statement is so: one that it calls One returns at most one row,
\* whatever the database holds and whatever the parameters are (Analyze and scopeSingle
\* together).  Left out are FETCH FIRST 1 ROW WITH TIES and a GROUP BY of a leaf that an outer
\* join may leave without a row.
THEOREM OneMeansOne ==
  ASSUME OfLevels, NoTies, GroupsInEveryRow
  PROVE  Spec => []AtMostOneRow
<1>1. AllPromised
  BY LevelPromised DEF AllPromised, NoTies
<1>2. ASSUME NEW q \in Statements PROVE GroupsKept(q)
  <2>1. LevelFormed(q) /\ Facts(q) = LevelFacts(q) /\ Results(q) = LevelResults(q)
    BY LevelsAssumption DEF OfLevels
  <2>2. ASSUME NEW R \in LevelResults(q), NEW r \in R, NEW i \in InEveryRow(q) PROVE Has(r, i)
    <3>1. PICK db \in Databases(q), p \in Parameters : R \in Cut(q, Selected(q, db, p))
      BY ResultsAre
    <3>2. r \in Selected(q, db, p)
      BY <3>1, CutWithin
    <3> QED
      BY <2>1, <3>2, HasEvery
  <2> QED
    BY <2>1, <2>2 DEF GroupsKept, GroupsInEveryRow, LevelFacts
<1> QED
  BY <1>1, <1>2, Soundness

-----------------------------------------------------------------------------
(***************************************************************************)
(* What the predicates of a level establish.                               *)
(***************************************************************************)

\* A predicate is about a column of the level, and so is the column it is compared with.
LEMMA QualColumns ==
  ASSUME NEW q, LevelFormed(q), NEW pred \in Quals(q)
  PROVE  /\ ColumnOf(q, pred.says.col)
         /\ \A t \in ToSet(pred.says.terms) : t.is = "column" => ColumnOf(q, t.col)
         /\ pred.says.op = "=" => pred.says.terms[1] \in ToSet(pred.says.terms)
<1>1. PICK c \in q.on \cup q.where : pred.says = ReadAs(q, c)
  BY DEF Quals
<1>2. CondFormed(q, c)
  BY DEF LevelFormed
<1>3. c = Cond(c.op, c.col, c.terms)
  BY <1>2 DEF CondFormed
<1>4. pred.says.col = c.col /\ pred.says.terms = c.terms
  BY <1>1, <1>3 DEF ReadAs, Cond
<1>5. pred.says.op = "=" => c.op \in {"=", "same"}
  BY <1>1 DEF ReadAs
<1> QED
  BY <1>2, <1>4, <1>5 DEF CondFormed

\* What is fixed are columns of the level.
LEMMA FixedColumns ==
  ASSUME NEW q, LevelFormed(q), NEW c \in LevelFacts(q).fixed
  PROVE  ColumnOf(q, c)
<1> DEFINE H == {d \in FixedBy(q) \cup {e.to : e \in EdgesBy(q)} : ColumnOf(q, d)}
<1>1. FixedBy(q) \subseteq H
  BY QualColumns DEF FixedBy
<1>2. ASSUME NEW e \in EdgesBy(q) PROVE ColumnOf(q, e.to)
  <2>1. PICK pred \in Quals(q) :
          /\ pred.says.op = "=" /\ pred.says.terms[1].is = "column"
          /\ e \in {[from |-> pred.says.col, to |-> pred.says.terms[1].col],
                    [from |-> pred.says.terms[1].col, to |-> pred.says.col]}
    BY DEF EdgesBy
  <2>2. ColumnOf(q, pred.says.col) /\ ColumnOf(q, pred.says.terms[1].col)
    BY <2>1, QualColumns
  <2> QED
    BY <2>1, <2>2
<1> HIDE DEF H
<1>3. Reached(EdgesBy(q), FixedBy(q)) \subseteq H
  <2>1. \A e \in EdgesBy(q) : e.from \in H => e.to \in H
    BY <1>2 DEF H
  <2> QED
    BY <1>1, <2>1, ReachedLeast
<1> QED
  BY <1>3 DEF LevelFacts, H

\* A column that rejects NULL has a value in every row (nullRejected).
LEMMA NotNullHolds ==
  ASSUME NEW q, LevelFormed(q), NEW db \in Databases(q), NEW p, NEW r \in Selected(q, db, p),
         NEW c \in LevelFacts(q).notnull
  PROVE  Value(r, c) # {}
<1>1. c \in NullRejected(q)
  BY DEF LevelFacts
<1>2. PICK d \in q.where \cup IF q.join = "inner" THEN q.on ELSE {} :
        /\ d.op \notin {"same", "null"}
        /\ c = d.col \/ \E t \in ToSet(d.terms) : t.is = "column" /\ c = t.col
  BY <1>1 DEF NullRejected
<1>3. True(d, r, p)
  <2>1. r \in Joined(q, db[1], db[2], p) /\ \A w \in q.where : True(w, r, p)
    BY DEF Selected
  <2>2. CASE q.join = "inner" /\ d \in q.on
    BY <2>1, <2>2, InnerForm DEF On
  <2> QED
    BY <1>2, <2>1, <2>2
<1>4. CondFormed(q, d)
  BY <1>2 DEF LevelFormed
<1>5. CASE c = d.col
  BY <1>2, <1>3, <1>4, <1>5 DEF True, CondFormed
<1>6. CASE \E t \in ToSet(d.terms) : t.is = "column" /\ c = t.col
  <2>1. d.op \in {"=", "@>"} /\ ToSet(d.terms) = {d.terms[1]}
    BY <1>2, <1>4, <1>6 DEF CondFormed
  <2>2. d.terms[1].is = "column" /\ c = d.terms[1].col
    BY <1>6, <2>1
  <2> QED
    BY <1>3, <2>1, <2>2 DEF True
<1> QED
  BY <1>2, <1>5, <1>6

\* For a parameter, the column has one value in the rows that have leaf i, whatever the database
\* holds.
GivenAt(q, i, c, p, v) ==
  \A db \in Databases(q) : \A r \in Selected(q, db, p) :
    Has(r, i) /\ Has(r, Leaf(c)) => Val(r, c) = v /\ v # {}

\* A condition with the declared parameter gives the column one value.
LEMMA SatisfiedGives ==
  ASSUME NEW q, LevelFormed(q), NEW p, NEW i, NEW u, Satisfied(LevelFacts(q), i, u),
         u.op = "=", u.terms[1].is = "param"
  PROVE  ColumnOf(q, u.col) /\ \E v : GivenAt(q, i, u.col, p, v)
<1>1. CASE u.col \in LevelFacts(q).fixed
  <2>1. PICK v : FixedAt(q, u.col, p, v)
    BY <1>1, FixedValue
  <2>2. GivenAt(q, i, u.col, p, v)
    BY <2>1 DEF FixedAt, GivenAt
  <2> QED
    BY <1>1, <2>2, FixedColumns
<1>2. CASE \E pred \in Quals(q) : Restricts(pred, i) /\ Implies(pred.says, u)
  <2>1. PICK pred \in Quals(q) : Restricts(pred, i) /\ Implies(pred.says, u)
    BY <1>2
  <2>2. pred.says.op = "=" /\ pred.says.col = u.col /\ pred.says.terms[1].is # "column"
    BY <2>1 DEF Implies, SameTerm
  <2> DEFINE v == IF pred.says.terms[1].is = "param" THEN p ELSE pred.says.terms[1].val
  <2>3. ASSUME NEW db \in Databases(q), NEW r \in Selected(q, db, p), Has(r, i), Has(r, Leaf(u.col))
        PROVE  Val(r, u.col) = v /\ v # {}
    <3>1. True(pred.says, r, p) /\ ToSet(pred.says.terms) = {pred.says.terms[1]}
      BY <2>1, <2>2, <2>3, PredTrue DEF Restricts
    <3>2. Value(r, u.col) = Val(r, u.col)
      BY <2>3 DEF Value
    <3> QED
      BY <2>2, <3>1, <3>2 DEF True
  <2>4. GivenAt(q, i, u.col, p, v)
    BY <2>3 DEF GivenAt
  <2>5. ColumnOf(q, u.col)
    BY <2>1, <2>2, QualColumns
  <2> QED
    BY <2>4, <2>5
<1>3. LevelFacts(q).preds = Quals(q)
  BY DEF LevelFacts
<1> QED
  BY <1>1, <1>2, <1>3 DEF Satisfied

\* A condition on columns and constants that the facts satisfy is true of the rows that have
\* the leaf, whatever stands for a parameter.
LEMMA SatisfiedTrue ==
  ASSUME NEW q, LevelFormed(q), NEW db \in Databases(q), NEW p, NEW r \in Selected(q, db, p),
         NEW i, Has(r, i), NEW u, Satisfied(LevelFacts(q), i, u), NEW x,
         \/ /\ u.op = "=" /\ ToSet(u.terms) = {u.terms[1]}
            /\ u.terms[1].is \in {"const", "column"}
         \/ u.op = "in" /\ \A t \in ToSet(u.terms) : t.is = "const"
         \/ u.op \in {"null", "not null"}
  PROVE  True(u, r, x)
<1>1. CASE u.op = "not null" /\ u.col \in LevelFacts(q).notnull
  BY <1>1, NotNullHolds DEF True
<1>2. CASE \E pred \in Quals(q) : Restricts(pred, i) /\ Implies(pred.says, u)
  <2>1. PICK pred \in Quals(q) : Restricts(pred, i) /\ Implies(pred.says, u)
    BY <1>2
  <2>2. /\ True(pred.says, r, p)
        /\ pred.says.op = "=" => ToSet(pred.says.terms) = {pred.says.terms[1]}
    BY <2>1, PredTrue DEF Restricts
  <2>3. CASE u.op \in {"null", "not null"}
    <3>1. pred.says.op = u.op /\ pred.says.col = u.col
      BY <2>1, <2>3 DEF Implies
    <3> QED
      BY <2>2, <2>3, <3>1 DEF True
  <2>4. CASE u.op = "in" /\ \A t \in ToSet(u.terms) : t.is = "const"
    <3>1. pred.says.col = u.col /\ pred.says.op \in {"=", "in"}
      BY <2>1, <2>4 DEF Implies
    <3>2. \E t \in ToSet(pred.says.terms) : t \in ToSet(u.terms) /\ Value(r, u.col) = t.val
      <4>1. \A t \in ToSet(pred.says.terms) : t \in ToSet(u.terms)
        BY <2>1, <2>2, <2>4 DEF Implies, AnyTerm, SameTerm
      <4> QED
        BY <2>2, <2>4, <3>1, <4>1 DEF True
    <3>3. Value(r, u.col) # {}
      BY <2>2, <3>1 DEF True
    <3> QED
      BY <2>4, <3>2, <3>3 DEF True
  <2>5. CASE /\ u.op = "=" /\ ToSet(u.terms) = {u.terms[1]} /\ u.terms[1].is = "const"
    <3>1. pred.says.op = "=" /\ pred.says.col = u.col /\ pred.says.terms[1] = u.terms[1]
      BY <2>1, <2>5 DEF Implies, SameTerm
    <3> QED
      BY <2>2, <2>5, <3>1 DEF True
  <2>6. CASE /\ u.op = "=" /\ ToSet(u.terms) = {u.terms[1]} /\ u.terms[1].is = "column"
    <3>1. /\ pred.says.op = "=" /\ pred.says.terms[1].is = "column"
          /\ \/ pred.says.col = u.col /\ pred.says.terms[1].col = u.terms[1].col
             \/ pred.says.col = u.terms[1].col /\ pred.says.terms[1].col = u.col
      BY <2>1, <2>6 DEF Implies, SameTerm
    <3>2. /\ Value(r, pred.says.col) # {}
          /\ Value(r, pred.says.col) = Value(r, pred.says.terms[1].col)
      BY <2>1, <3>1, ColumnQual DEF Restricts
    <3> QED
      BY <2>6, <3>1, <3>2 DEF True
  <2> QED
    BY <2>3, <2>4, <2>5, <2>6
<1>3. LevelFacts(q).preds = Quals(q)
  BY DEF LevelFacts
<1> QED
  BY <1>1, <1>2, <1>3 DEF Satisfied

-----------------------------------------------------------------------------
(***************************************************************************)
(* Declared conditions: on the subject's own row, and on a witness.        *)
(***************************************************************************)

\* A declared condition about the level's own leaves.
LEMMA ReboundForm ==
  ASSUME NEW w, NEW i, NEW j, DeclaredFormed(w, {0, 1}), NEW u, u = Rebound(w, i, j)
  PROVE  /\ u.op = w.op /\ u.col = Moved(w.col, i, j)
         /\ w.op = "=" => /\ ToSet(u.terms) = {u.terms[1]}
                          /\ u.terms[1] = IF w.terms[1].is = "column"
                                            THEN ColumnTerm(Moved(w.terms[1].col, i, j))
                                            ELSE w.terms[1]
         /\ w.op = "in" => \A t \in ToSet(u.terms) : t.is = "const"
<1> DEFINE f == [k \in DOMAIN w.terms |->
                   IF w.terms[k].is = "column" THEN ColumnTerm(Moved(w.terms[k].col, i, j))
                   ELSE w.terms[k]]
<1>1. w = Cond(w.op, w.col, w.terms)
  BY DEF DeclaredFormed
<1>2. u = [w EXCEPT !.col = Moved(w.col, i, j), !.terms = f]
  BY DEF Rebound
<1> HIDE DEF f
<1>3. u.op = w.op /\ u.col = Moved(w.col, i, j) /\ u.terms = f
  BY <1>1, <1>2 DEF Cond
<1>4. ASSUME w.op = "="
      PROVE  /\ ToSet(u.terms) = {u.terms[1]}
             /\ u.terms[1] = IF w.terms[1].is = "column"
                               THEN ColumnTerm(Moved(w.terms[1].col, i, j))
                               ELSE w.terms[1]
  <2>1. w.terms = <<w.terms[1]>>
    BY <1>4 DEF DeclaredFormed
  <2>2. DOMAIN w.terms = {1}
    BY <2>1
  <2> QED
    BY <1>3, <2>2 DEF f, ToSet
<1>5. ASSUME w.op = "in" PROVE \A t \in ToSet(u.terms) : t.is = "const"
  <2>1. \A k \in DOMAIN w.terms : w.terms[k].is = "const"
    BY <1>5 DEF DeclaredFormed
  <2> QED
    BY <1>3, <2>1 DEF f, ToSet
<1> QED
  BY <1>3, <1>4, <1>5

\* A condition with a parameter has it for its only term.
LEMMA ParamForm ==
  ASSUME NEW w, NEW leaves, DeclaredFormed(w, leaves), w.terms # <<>>, w.terms[1].is = "param"
  PROVE  w.op = "="
  BY DEF DeclaredFormed

\* One declared without a parameter.
NoParam(w) == ~(w.op = "=" /\ w.terms[1].is = "param")

\* A satisfied condition without a parameter is true of the rows.
LEMMA ReboundTrue ==
  ASSUME NEW q, LevelFormed(q), NEW db \in Databases(q), NEW p, NEW r \in Selected(q, db, p),
         NEW i, Has(r, i), NEW j, NEW w, DeclaredFormed(w, {0, 1}), NoParam(w),
         Satisfied(LevelFacts(q), i, Rebound(w, i, j)), NEW x
  PROVE  True(Rebound(w, i, j), r, x)
<1> DEFINE u == Rebound(w, i, j)
<1>1. /\ u.op = w.op
      /\ w.op = "=" => /\ ToSet(u.terms) = {u.terms[1]}
                       /\ u.terms[1] = IF w.terms[1].is = "column"
                                         THEN ColumnTerm(Moved(w.terms[1].col, i, j))
                                         ELSE w.terms[1]
      /\ w.op = "in" => \A t \in ToSet(u.terms) : t.is = "const"
  BY ReboundForm
<1>2. w.op = "=" => w.terms[1].is \in {"const", "column"}
  BY DEF NoParam, DeclaredFormed, ColumnTerm, NoTerm
<1>3. w.op = "=" => u.terms[1].is \in {"const", "column"}
  BY <1>1, <1>2 DEF ColumnTerm, NoTerm
<1>4. w.op \in {"=", "in", "null", "not null"}
  BY DEF DeclaredFormed
<1> HIDE DEF u
<1>5. \/ u.op = "=" /\ ToSet(u.terms) = {u.terms[1]} /\ u.terms[1].is \in {"const", "column"}
      \/ u.op = "in" /\ \A t \in ToSet(u.terms) : t.is = "const"
      \/ u.op \in {"null", "not null"}
  BY <1>1, <1>3, <1>4
<1>6. Satisfied(LevelFacts(q), i, u)
  BY DEF u
<1>7. True(u, r, x)
  BY <1>5, <1>6, SatisfiedTrue
<1> QED
  BY <1>7 DEF u

\* The rows of a level that have leaf i, each with its database.
LEMMA RowAt ==
  ASSUME NEW q, NEW i, NEW p, NEW x \in RowsAt(q, i, p)
  PROVE  x[2] \in Databases(q) /\ x[1] \in Selected(q, x[2], p) /\ Has(x[1], i)
  BY DEF RowsAt

\* A column that has one value, and not NULL, has one value.
LEMMA OneValueOf ==
  ASSUME NEW q, NEW i, NEW n, NEW p, NEW v,
         \A x \in RowsAt(q, i, p) : Val(x[1], <<i, n>>) = v /\ v # {}
  PROVE  OneValue(q, i, n, p)
  BY DEF OneValue

\* A column of the leaf that is fixed, or given with it, has one value.
LEMMA GivenOne ==
  ASSUME NEW q, NEW i, NEW n, NEW p, NEW v, GivenAt(q, i, <<i, n>>, p, v)
  PROVE  OneValue(q, i, n, p)
<1>1. Leaf(<<i, n>>) = i
  BY DEF Leaf
<1>2. \A x \in RowsAt(q, i, p) : Val(x[1], <<i, n>>) = v /\ v # {}
  BY <1>1, RowAt DEF GivenAt
<1> QED
  BY <1>2, OneValueOf

\* A fixed column has one value.
LEMMA FixedOne ==
  ASSUME NEW q, LevelFormed(q), NEW i, NEW n, NEW p, <<i, n>> \in LevelFacts(q).fixed
  PROVE  OneValue(q, i, n, p)
<1>1. PICK v : FixedAt(q, <<i, n>>, p, v)
  BY FixedValue
<1>2. GivenAt(q, i, <<i, n>>, p, v)
  BY <1>1 DEF FixedAt, GivenAt
<1> QED
  BY <1>2, GivenOne

\* What is declared of the subject's row and satisfied by the facts is met by its rows.
LEMMA PredicateMet ==
  ASSUME NEW q, LevelFormed(q), NEW i, NEW p, NEW w, DeclaredFormed(w, {0}),
         Satisfied(LevelFacts(q), i, Rebound(w, i, i))
  PROVE  Meets(q, i, w, p)
<1>1. DeclaredFormed(w, {0, 1})
  BY DEF DeclaredFormed
<1>2. CASE w.terms # <<>> /\ w.terms[1].is = "param"
  <2> DEFINE u == Rebound(w, i, i)
  <2>1. w.op = "="
    BY <1>2, ParamForm
  <2>2. /\ u.op = "=" /\ u.col = Moved(w.col, i, i)
        /\ u.terms[1] = w.terms[1]
    BY <1>1, <1>2, <2>1, ReboundForm
  <2>3. u.col = <<i, Name(w.col)>>
    BY <2>2 DEF DeclaredFormed, Moved
  <2> HIDE DEF u
  <2>4. Satisfied(LevelFacts(q), i, u)
    BY DEF u
  <2>5. PICK v : GivenAt(q, i, u.col, p, v)
    BY <1>2, <2>2, <2>4, SatisfiedGives
  <2>6. OneValue(q, i, Name(w.col), p)
    BY <2>3, <2>5, GivenOne
  <2> QED
    BY <1>2, <2>6 DEF Meets
<1>3. CASE ~(w.terms # <<>> /\ w.terms[1].is = "param")
  <2>1. NoParam(w)
    <3>1. w.op = "=" => w.terms = <<w.terms[1]>>
      BY DEF DeclaredFormed
    <3>2. w.op = "=" => w.terms # <<>>
      BY <3>1
    <3> QED
      BY <1>3, <3>2 DEF NoParam
  <2>2. \A x \in RowsAt(q, i, p) : True(Rebound(w, i, i), x[1], p)
    BY <1>1, <2>1, RowAt, ReboundTrue
  <2> QED
    BY <1>3, <2>2 DEF Meets
<1> QED
  BY <1>2, <1>3

\* The row is a leaf's and has the columns of the leaf, with sets of points in them.
LEMMA ValuePoints ==
  ASSUME NEW q, LevelFormed(q), NEW db \in Databases(q), NEW p, NEW r \in Selected(q, db, p),
         NEW c, ColumnOf(q, c), Has(r, Leaf(c))
  PROVE  Val(r, c) \in SUBSET Points
<1>1. r[Leaf(c)] \in RowsOf(Relation(q, Leaf(c)))
  BY SelectedRow DEF ColumnOf
<1>2. Name(c) \in DOMAIN Relation(q, Leaf(c)).vals
  BY DEF ColumnOf
<1> QED
  BY <1>1, <1>2 DEF RowsOf, Val

\* A condition on two leaves is as true of a row that has the same rows of them.
LEMMA TrueOfPair ==
  ASSUME NEW w, DeclaredFormed(w, {0, 1}), NEW i, NEW j, NEW r, NEW pair,
         r[i] = pair[i], r[j] = pair[j], NEW x, True(Rebound(w, i, j), r, x)
  PROVE  True(Rebound(w, i, j), pair, x)
<1> DEFINE u == Rebound(w, i, j)
<1>1. /\ u.op = w.op /\ u.col = Moved(w.col, i, j)
      /\ w.op = "=" => /\ ToSet(u.terms) = {u.terms[1]}
                       /\ u.terms[1] = IF w.terms[1].is = "column"
                                         THEN ColumnTerm(Moved(w.terms[1].col, i, j))
                                         ELSE w.terms[1]
      /\ w.op = "in" => \A t \in ToSet(u.terms) : t.is = "const"
  BY ReboundForm
<1>2. \A c : Value(r, Moved(c, i, j)) = Value(pair, Moved(c, i, j))
  BY DEF Moved, Value, Has, Val, Leaf, Name
<1>3. w.op \in {"=", "in", "null", "not null"}
  BY DEF DeclaredFormed
<1>4. True(u, r, x)
  OBVIOUS
<1> HIDE DEF u
<1>5. Value(r, u.col) = Value(pair, u.col)
  BY <1>1, <1>2
<1>6. CASE w.op = "="
  <2>1. u.terms[1].is = "column" => Value(r, u.terms[1].col) = Value(pair, u.terms[1].col)
    <3>1. CASE w.terms[1].is = "column"
      BY <1>1, <1>2, <1>6, <3>1 DEF ColumnTerm, NoTerm
    <3>2. CASE w.terms[1].is # "column"
      BY <1>1, <1>6, <3>2
    <3> QED
      BY <3>1, <3>2
  <2>2. True(u, pair, x)
    BY <1>1, <1>4, <1>5, <1>6, <2>1 DEF True
  <2> QED
    BY <2>2 DEF u
<1>7. CASE w.op = "in"
  <2>1. True(u, pair, x)
    BY <1>1, <1>4, <1>5, <1>7 DEF True
  <2> QED
    BY <2>1 DEF u
<1>8. CASE w.op \in {"null", "not null"}
  <2>1. True(u, pair, x)
    BY <1>1, <1>4, <1>5, <1>8 DEF True
  <2> QED
    BY <2>1 DEF u
<1> QED
  BY <1>3, <1>6, <1>7, <1>8

\* A leaf that is a witness of a declared EXISTS has a row wherever the subject has one.
LEMMA WitnessThere ==
  ASSUME NEW q, LevelFormed(q), NEW db \in Databases(q), NEW p, NEW r \in Selected(q, db, p),
         NEW i, Has(r, i), NEW j, NEW sub, ExistsFormed(sub),
         \A w \in sub.where : Satisfied(LevelFacts(q), i, Rebound(w, i, j))
  PROVE  Has(r, j)
<1>1. PICK w \in sub.where :
        w.op = "=" /\ w.terms[1].is = "column" /\ 1 \in {Leaf(w.col), Leaf(w.terms[1].col)}
  BY DEF ExistsFormed
<1>2. DeclaredFormed(w, {0, 1}) /\ NoParam(w)
  BY <1>1 DEF ExistsFormed, NoParam
<1> DEFINE u == Rebound(w, i, j)
<1>3. /\ u.op = "=" /\ u.col = Moved(w.col, i, j) /\ ToSet(u.terms) = {u.terms[1]}
      /\ u.terms[1] = ColumnTerm(Moved(w.terms[1].col, i, j))
  BY <1>1, <1>2, ReboundForm
<1>4. True(u, r, p)
  BY <1>2, ReboundTrue
<1> HIDE DEF u
<1>5. /\ Value(r, Moved(w.col, i, j)) # {}
      /\ Value(r, Moved(w.terms[1].col, i, j)) = Value(r, Moved(w.col, i, j))
  BY <1>3, <1>4 DEF True, ColumnTerm, NoTerm
<1>6. PICK c \in {w.col, w.terms[1].col} : Leaf(c) = 1 /\ Value(r, Moved(c, i, j)) # {}
  BY <1>1, <1>5
<1>7. Leaf(Moved(c, i, j)) = j
  BY <1>6 DEF Moved, Leaf
<1> QED
  BY <1>6, <1>7 DEF Value

\* What the $n of a declared EXISTS stands for.
KnownFor(q, i, j, p, sub, v) ==
  /\ v \in SUBSET Points
  /\ \A w \in sub.where : ~NoParam(w) => GivenAt(q, i, Rebound(w, i, j).col, p, v)

\* A declared EXISTS that the facts satisfy has its witness, and its $n one value.
LEMMA WitnessFound ==
  ASSUME NEW q, LevelFormed(q), NEW i \in AllLeaves(q), NEW p, NEW sub, ExistsFormed(sub),
         Witness(q, LevelFacts(q), i, sub)
  PROVE  Witnessed(q, i, sub, p)
<1>1. PICK j \in AllLeaves(q) \ {i} :
        /\ q.leaf[j] = sub.table
        /\ \A w \in sub.where : Satisfied(LevelFacts(q), i, Rebound(w, i, j))
  BY DEF Witness, LevelFacts
<1>2. ASSUME NEW x \in RowsAt(q, i, p)
      PROVE  /\ x[2] \in Databases(q) /\ x[1] \in Selected(q, x[2], p) /\ Has(x[1], i)
             /\ Has(x[1], j) /\ x[1][j] \in x[2][j]
  <2>1. x[2] \in Databases(q) /\ x[1] \in Selected(q, x[2], p) /\ Has(x[1], i)
    BY RowAt
  <2>2. Has(x[1], j)
    BY <1>1, <2>1, WitnessThere
  <2> QED
    BY <1>1, <2>1, <2>2, SelectedRow
<1>3. CASE RowsAt(q, i, p) = {}
  BY <1>3 DEF Witnessed
<1>4. CASE RowsAt(q, i, p) # {}
  <2>1. PICK y \in RowsAt(q, i, p) : TRUE
    BY <1>4
  <2>2. \E v : KnownFor(q, i, j, p, sub, v)
    <3>1. CASE \A w \in sub.where : NoParam(w)
      <4>1. KnownFor(q, i, j, p, sub, {})
        BY <3>1 DEF KnownFor
      <4> QED
        BY <4>1
    <3>2. ASSUME NEW w \in sub.where, ~NoParam(w) PROVE \E v : KnownFor(q, i, j, p, sub, v)
      <4> DEFINE u == Rebound(w, i, j)
      <4>1. DeclaredFormed(w, {0, 1}) /\ w.op = "=" /\ w.terms[1].is = "param"
        BY <3>2 DEF ExistsFormed, NoParam
      <4>2. u.op = "=" /\ u.terms[1].is = "param" /\ u.col = Moved(w.col, i, j)
        BY <4>1, ReboundForm
      <4>3. Leaf(u.col) \in {i, j}
        BY <4>2 DEF Moved, Leaf
      <4>4. Satisfied(LevelFacts(q), i, u)
        BY <1>1
      <4> HIDE DEF u
      <4>5. PICK v : ColumnOf(q, u.col) /\ GivenAt(q, i, u.col, p, v)
        BY <4>2, <4>4, SatisfiedGives
      <4>6. Has(y[1], Leaf(u.col))
        BY <1>2, <2>1, <4>3
      <4>7. v = Val(y[1], u.col)
        BY <1>2, <2>1, <4>5, <4>6 DEF GivenAt
      <4>8. v \in SUBSET Points
        BY <1>2, <2>1, <4>5, <4>6, <4>7, ValuePoints
      <4>9. \A z \in sub.where : ~NoParam(z) => z = w
        BY <4>1 DEF ExistsFormed, NoParam
      <4>10. KnownFor(q, i, j, p, sub, v)
        BY <4>5, <4>8, <4>9 DEF KnownFor, u
      <4> QED
        BY <4>10
    <3> QED
      BY <3>1, <3>2
  <2>3. PICK known_ \in SUBSET Points : KnownFor(q, i, j, p, sub, known_)
    BY <2>2 DEF KnownFor
  <2>4. ASSUME NEW x \in RowsAt(q, i, p), NEW pair,
               pair = [k \in AllLeaves(q) |-> IF k = j THEN x[1][j] ELSE x[1][k]],
               NEW w \in sub.where
        PROVE  True(Rebound(w, i, j), pair, known_)
    <3>1. DeclaredFormed(w, {0, 1})
      BY DEF ExistsFormed
    <3>2. pair[i] = x[1][i] /\ pair[j] = x[1][j]
      BY <1>1, <2>4
    <3>3. True(Rebound(w, i, j), x[1], known_)
      <4>1. CASE NoParam(w)
        BY <1>1, <1>2, <3>1, <4>1, ReboundTrue
      <4>2. CASE ~NoParam(w)
        <5> DEFINE u == Rebound(w, i, j)
        <5>1. w.op = "=" /\ w.terms[1].is = "param"
          BY <4>2 DEF NoParam
        <5>2. /\ u.op = "=" /\ u.terms[1].is = "param" /\ u.col = Moved(w.col, i, j)
              /\ ToSet(u.terms) = {u.terms[1]}
          BY <3>1, <5>1, ReboundForm
        <5>3. Leaf(u.col) \in {i, j}
          BY <5>2 DEF Moved, Leaf
        <5>4. GivenAt(q, i, u.col, p, known_)
          BY <2>3, <4>2 DEF KnownFor
        <5> HIDE DEF u
        <5>5. Has(x[1], Leaf(u.col))
          BY <1>2, <5>3
        <5>6. Value(x[1], u.col) = known_ /\ known_ # {}
          BY <1>2, <5>4, <5>5 DEF GivenAt, Value
        <5>7. True(u, x[1], known_)
          BY <5>2, <5>6 DEF True
        <5> QED
          BY <5>7 DEF u
      <4> QED
        BY <4>1, <4>2
    <3> QED
      BY <3>1, <3>2, <3>3, TrueOfPair
  <2>5. ASSUME NEW x \in RowsAt(q, i, p)
        PROVE  \E k \in AllLeaves(q) \ {i} : q.leaf[k] = sub.table /\ \E b \in x[2][k] :
                 LET pair == [m \in AllLeaves(q) |-> IF m = k THEN b ELSE x[1][m]]
                 IN \A w \in sub.where : True(Rebound(w, i, k), pair, known_)
    BY <1>1, <1>2, <2>4
  <2> QED
    BY <2>3, <2>5 DEF Witnessed
<1> QED
  BY <1>3, <1>4

-----------------------------------------------------------------------------
(***************************************************************************)
(* A pinned column.                                                        *)
(***************************************************************************)

\* Two columns that the level equates wherever leaf i has a row.
LEMMA EqualHolds ==
  ASSUME NEW q, LevelFormed(q), NEW db \in Databases(q), NEW p, NEW r \in Selected(q, db, p),
         NEW i, Has(r, i), NEW a, NEW b, EqualIn(LevelFacts(q), i, a, b)
  PROVE  /\ Value(r, a) # {} /\ Value(r, a) = Value(r, b)
         /\ Has(r, Leaf(a)) /\ Has(r, Leaf(b)) /\ Same(Val(r, a), Val(r, b))
<1>1. PICK pred \in Quals(q) :
        /\ pred.says.op = "=" /\ pred.says.terms[1].is = "column" /\ Restricts(pred, i)
        /\ <<pred.says.col, pred.says.terms[1].col>> \in {<<a, b>>, <<b, a>>}
  BY DEF EqualIn, LevelFacts
<1>2. Value(r, pred.says.col) # {} /\ Value(r, pred.says.col) = Value(r, pred.says.terms[1].col)
  BY <1>1, ColumnQual DEF Restricts
<1>3. Value(r, a) # {} /\ Value(r, a) = Value(r, b)
  BY <1>1, <1>2
<1> QED
  BY <1>3 DEF Value, Same

\* A row that refers to one of the level's other leaf has its row there.
LEMMA Referred ==
  ASSUME NEW q, LevelFormed(q), NEW db \in Databases(q), NEW i \in AllLeaves(q),
         NEW j \in AllLeaves(q) \ {i}, NEW fk \in Relation(q, i).refs, fk.enforced,
         fk.to = q.leaf[j], NEW a \in db[i]
  PROVE  Refers(a, fk, db[j])
<1>1. (i = 1 /\ j = 2) \/ (i = 2 /\ j = 1)
  BY DEF LevelFormed, AllLeaves, Sides
<1>2. Referring(q, 1, db[1], 2, db[2]) /\ Referring(q, 2, db[2], 1, db[1])
  BY DEF Databases
<1> QED
  BY <1>1, <1>2 DEF Referring

\* The level equates the columns of a foreign key, but one, with those it refers to.
Equated(q, i, j, fk, at) ==
  \A k \in DOMAIN fk.columns \ {at} :
    EqualIn(LevelFacts(q), i, <<i, fk.columns[k]>>, <<j, fk.refs[k]>>)

\* The columns of a foreign key but one are equal to those of a row of the table it refers to:
\* the row it refers to is this one.
LEMMA CarriedOver ==
  ASSUME NEW q, LevelFormed(q), NEW db \in Databases(q), NEW p, NEW r \in Selected(q, db, p),
         NEW i \in AllLeaves(q), NEW j \in AllLeaves(q) \ {i}, Has(r, i),
         NEW fk \in Relation(q, i).refs, NEW at \in DOMAIN fk.columns, fk.to = q.leaf[j],
         Len(fk.columns) >= 2, Carries(fk, at), Equated(q, i, j, fk, at),
         r[i].vals[fk.columns[at]] # {}
  PROVE  Has(r, j) /\ Val(r, <<i, fk.columns[at]>>) = Val(r, <<j, fk.refs[at]>>)
<1> DEFINE a == r[i]
           b == r[j]
<1>1. \A n : Val(r, <<i, n>>) = a.vals[n] /\ Val(r, <<j, n>>) = b.vals[n]
  BY DEF Val, Leaf, Name
<1>2. ASSUME NEW k \in DOMAIN fk.columns \ {at}
      PROVE  /\ a.vals[fk.columns[k]] # {} /\ a.vals[fk.columns[k]] = b.vals[fk.refs[k]]
             /\ Has(r, j)
  <2>1. EqualIn(LevelFacts(q), i, <<i, fk.columns[k]>>, <<j, fk.refs[k]>>)
    BY DEF Equated
  <2>2. /\ Has(r, Leaf(<<j, fk.refs[k]>>))
        /\ Same(Val(r, <<i, fk.columns[k]>>), Val(r, <<j, fk.refs[k]>>))
    BY <2>1, EqualHolds
  <2> QED
    BY <1>1, <2>2 DEF Same, Leaf
<1>3. Has(r, j)
  <2>1. LeafFormed(Relation(q, i))
    BY LeafContents
  <2>2. fk.columns \in Seq(DOMAIN Relation(q, i).vals)
    BY <2>1 DEF LeafFormed
  <2>3. DOMAIN fk.columns = 1 .. Len(fk.columns) /\ Len(fk.columns) \in Nat
    BY <2>2
  <2>4. Len(fk.columns) >= 2
    OBVIOUS
  <2>5. 1 \in 1 .. Len(fk.columns) /\ 2 \in 1 .. Len(fk.columns)
    BY <2>3, <2>4
  <2>6. 1 \in DOMAIN fk.columns /\ 2 \in DOMAIN fk.columns
    BY <2>3, <2>5
  <2> QED
    BY <1>2, <2>6
<1>4. a \in db[i] /\ b \in db[j] /\ db[j] \in Contents(Relation(q, j))
  BY <1>3, SelectedRow, LeafContents
<1>5. Refers(a, fk, db[j])
  BY <1>4, Referred DEF Carries
<1>6. \A k \in DOMAIN fk.columns : a.vals[fk.columns[k]] # {}
  BY <1>2
<1>7. PICK c \in db[j] : \A k \in DOMAIN fk.columns : a.vals[fk.columns[k]] = c.vals[fk.refs[k]]
  BY <1>5, <1>6 DEF Refers
<1>8. b = c
  <2>1. PICK key \in Relation(q, j).stored :
          /\ key.where = {} /\ key.range \notin key.columns
          /\ key.columns \subseteq {fk.refs[k] : k \in DOMAIN fk.columns \ {at}}
    BY DEF Carries, Relation
  <2>2. ASSUME NEW n \in key.columns PROVE n # key.range /\ Same(b.vals[n], c.vals[n])
    <3>1. PICK k \in DOMAIN fk.columns \ {at} : n = fk.refs[k]
      BY <2>1
    <3> QED
      BY <1>2, <1>7, <2>1, <3>1 DEF Same
  <2>3. Clash(Relation(q, j), b, c)
    BY <2>1, <2>2 DEF Clash
  <2> QED
    BY <1>4, <2>3, NoClash
<1> QED
  BY <1>1, <1>3, <1>7, <1>8

\* A pin carried over by a foreign key is a pin.
LEMMA CarriedOne ==
  ASSUME NEW q, LevelFormed(q), NEW i \in AllLeaves(q), NEW col, NEW p,
         ViaForeignKey(q, LevelFacts(q), i, col),
         \A fk \in Relation(q, i).refs : \A at \in DOMAIN fk.columns :
           Len(fk.columns) >= 2 /\ fk.columns[at] = col /\ fk.to \in DOMAIN Leaves => Carries(fk, at)
  PROVE  OneValue(q, i, col, p)
<1>1. PICK fk \in Relation(q, i).refs, j \in LevelFacts(q).leaves \ {i} :
        \E at \in DOMAIN fk.columns :
          /\ Len(fk.columns) >= 2 /\ fk.columns[at] = col /\ q.leaf[j] = fk.to
          /\ \A k \in DOMAIN fk.columns \ {at} :
               EqualIn(LevelFacts(q), i, <<i, fk.columns[k]>>, <<j, fk.refs[k]>>)
          /\ <<j, fk.refs[at]>> \in LevelFacts(q).fixed
  BY DEF ViaForeignKey
<1>2. PICK at \in DOMAIN fk.columns :
        /\ Len(fk.columns) >= 2 /\ fk.columns[at] = col /\ q.leaf[j] = fk.to
        /\ \A k \in DOMAIN fk.columns \ {at} :
             EqualIn(LevelFacts(q), i, <<i, fk.columns[k]>>, <<j, fk.refs[k]>>)
        /\ <<j, fk.refs[at]>> \in LevelFacts(q).fixed
  BY <1>1
<1>3. j \in AllLeaves(q) \ {i}
  BY DEF LevelFacts
<1>4. Carries(fk, at)
  BY <1>2, <1>3 DEF LevelFormed, AllLeaves
<1>5. PICK v : FixedAt(q, <<j, fk.refs[at]>>, p, v)
  BY <1>2, FixedValue
<1>6. ASSUME NEW x \in RowsAt(q, i, p) PROVE Val(x[1], <<i, col>>) = v /\ v # {}
  <2> DEFINE r == x[1]
  <2>1. x[2] \in Databases(q) /\ r \in Selected(q, x[2], p) /\ Has(r, i)
    BY RowAt
  <2>2. Leaf(<<i, col>>) = i /\ Name(<<i, col>>) = col /\ Val(r, <<i, col>>) = r[i].vals[col]
    BY DEF Leaf, Name, Val
  <2>3. r[i].vals[col] # {}
    <3>1. CASE NotNullable(q, <<i, col>>)
      <4>1. r[i] \in RowsOf(Relation(q, i)) /\ LeafFormed(Relation(q, i))
        BY <2>1, SelectedRow, LeafContents
      <4>2. fk.columns \in Seq(DOMAIN Relation(q, i).vals)
        BY <4>1 DEF LeafFormed
      <4>3. col \in DOMAIN Relation(q, i).vals
        BY <1>2, <4>2
      <4>4. r[i].vals[col] \in Relation(q, i).vals[col]
        BY <4>1, <4>3, RowValue
      <4> QED
        BY <2>2, <3>1, <4>4 DEF NotNullable
    <3>2. CASE <<i, col>> \in LevelFacts(q).notnull
      <4>1. Value(r, <<i, col>>) # {}
        BY <2>1, <3>2, NotNullHolds
      <4> QED
        BY <2>2, <4>1 DEF Value
    <3> QED
      BY <3>1, <3>2 DEF ViaForeignKey
  <2>4. Has(r, j) /\ Val(r, <<i, fk.columns[at]>>) = Val(r, <<j, fk.refs[at]>>)
    <3>1. r[i].vals[fk.columns[at]] # {} /\ fk.to = q.leaf[j] /\ Len(fk.columns) >= 2
      BY <1>2, <2>3
    <3>2. Equated(q, i, j, fk, at)
      BY <1>2 DEF Equated
    <3> HIDE DEF r
    <3> QED
      BY <1>3, <1>4, <2>1, <3>1, <3>2, CarriedOver
  <2>5. Leaf(<<j, fk.refs[at]>>) = j
    BY DEF Leaf
  <2> QED
    BY <1>2, <1>5, <2>1, <2>4, <2>5 DEF FixedAt
<1> QED
  BY <1>6, OneValueOf

\* A member of an aggregate that the level joins to its parent is joined to it in every row.
LEMMA ParentFound ==
  ASSUME NEW q, LevelFormed(q), NEW i \in AllLeaves(q), NEW col, NEW p,
         ViaParent(q, LevelFacts(q), i, col), NEW x \in RowsAt(q, i, p)
  PROVE  ParentJoined(q, i, col, x[1])
<1>1. PICK fk \in Relation(q, i).refs, j \in LevelFacts(q).leaves \ {i} :
        \E at \in DOMAIN fk.columns :
          /\ fk.columns[at] = col /\ q.leaf[j] = fk.to
          /\ EqualIn(LevelFacts(q), i, <<i, col>>, <<j, fk.refs[at]>>)
  BY DEF ViaParent
<1>2. PICK at \in DOMAIN fk.columns :
        /\ fk.columns[at] = col /\ q.leaf[j] = fk.to
        /\ EqualIn(LevelFacts(q), i, <<i, col>>, <<j, fk.refs[at]>>)
  BY <1>1
<1>3. x[2] \in Databases(q) /\ x[1] \in Selected(q, x[2], p) /\ Has(x[1], i)
  BY RowAt
<1>4. /\ Has(x[1], Leaf(<<j, fk.refs[at]>>))
      /\ Same(Val(x[1], <<i, col>>), Val(x[1], <<j, fk.refs[at]>>))
  BY <1>2, <1>3, EqualHolds
<1>5. Has(x[1], j) /\ j \in AllLeaves(q) \ {i}
  BY <1>4 DEF Leaf, LevelFacts
<1> QED
  BY <1>2, <1>4, <1>5 DEF ParentJoined

-----------------------------------------------------------------------------
(***************************************************************************)
(* The judgements of a level, obligation by obligation.                    *)
(***************************************************************************)

\* What a statement reads of a leaf is judged: an obligation on a kind that the statement is of,
\* for the leaf, looks at the leaf.
LEMMA ReadsJudged ==
  ASSUME JudgedAsWritten, NEW q \in Statements, NEW o \in Declarations, NEW i \in AllLeaves(q),
         q.leaf[i] = o.subject, o.is \in {"predicate", "pinned"},
         (o.kinds \cap Does(q, i)) \ {"insert"} # {},
         ~(o.is = "pinned" /\ q.kind = "insert" /\ q.target = i)
  PROVE  o.kinds \cap KindAt(q, i) # {}
<1>1. PICK k \in o.kinds : k \in Does(q, i) /\ k # "insert"
  OBVIOUS
<1>2. CASE q.target # i
  <2>1. k = "select"
    BY <1>1, <1>2 DEF Does
  <2>2. KindAt(q, i) = {"select"}
    BY <1>2 DEF KindAt
  <2> QED
    BY <1>1, <2>1, <2>2
<1>3. CASE q.target = i
  <2>1. CASE \E w \in q.writes : k = w.kind
    BY <1>3, <2>1 DEF JudgedAsWritten
  <2>2. CASE k = "select" /\ q.kind # "insert"
    BY <1>3, <2>2 DEF KindAt
  <2> QED
    BY <1>1, <1>3, <2>1, <2>2 DEF Does
<1> QED
  BY <1>2, <1>3

\* The same of what it writes.
LEMMA WritesJudged ==
  ASSUME JudgedAsWritten, NEW q \in Statements, NEW o \in Declarations, NEW i \in AllLeaves(q),
         q.leaf[i] = o.subject, o.is = "immutable", q.target = i,
         NEW w \in q.writes, w.kind \in o.kinds
  PROVE  o.kinds \cap KindAt(q, i) # {}
  BY DEF JudgedAsWritten

\* Where an insert is judged, it is the statement.
LEMMA InsertJudged ==
  ASSUME JudgedAsWritten, NEW q \in Statements, NEW o \in Declarations, q.target \in AllLeaves(q),
         NEW w \in q.writes, w.kind = "insert", w.kind \in o.kinds
  PROVE  q.kind = "insert" /\ o.kinds \cap KindAt(q, q.target) # {}
  BY DEF JudgedAsWritten, KindAt

\* A declared predicate that the level satisfies is met by its rows.
LEMMA PredicateKept ==
  ASSUME NEW q \in Statements, NEW o \in Declarations, NEW i \in AllLeaves(q), NEW p,
         Predicate(q, LevelFacts(q), i, o)
  PROVE  /\ \A w \in o.pred : Meets(q, i, w, p)
         /\ \A sub \in o.exists : Witnessed(q, i, sub, p)
<1>1. LevelFormed(q) /\ DeclarationFormed(o)
  BY LevelsAssumption
<1>2. ASSUME NEW w \in o.pred PROVE Meets(q, i, w, p)
  <2>1. DeclaredFormed(w, {0}) /\ Satisfied(LevelFacts(q), i, Rebound(w, i, i))
    BY <1>1 DEF DeclarationFormed, Predicate
  <2> QED
    BY <1>1, <2>1, PredicateMet
<1>3. ASSUME NEW sub \in o.exists PROVE Witnessed(q, i, sub, p)
  <2>1. ExistsFormed(sub) /\ Witness(q, LevelFacts(q), i, sub)
    BY <1>1 DEF DeclarationFormed, Predicate
  <2> QED
    BY <1>1, <2>1, WitnessFound
<1> QED
  BY <1>2, <1>3

\* A pin that the level has is one of its rows, or leads to the parent.
LEMMA PinKept ==
  ASSUME KeysCarry, NEW q \in Statements, NEW o \in Declarations, NEW i \in AllLeaves(q), NEW p,
         q.leaf[i] = o.subject, o.is = "pinned", ~(q.kind = "insert" /\ q.target = i),
         PinnedAt(q, LevelFacts(q), i, o)
  PROVE  \/ OneValue(q, i, o.col, p)
         \/ o.aggregate /\ \A x \in RowsAt(q, i, p) : ParentJoined(q, i, o.col, x[1])
<1>1. LevelFormed(q)
  BY LevelsAssumption
<1>2. CASE <<i, o.col>> \in LevelFacts(q).fixed
  BY <1>1, <1>2, FixedOne
<1>3. CASE ViaForeignKey(q, LevelFacts(q), i, o.col)
  <2>1. \A fk \in Relation(q, i).refs : \A at \in DOMAIN fk.columns :
          Len(fk.columns) >= 2 /\ fk.columns[at] = o.col /\ fk.to \in DOMAIN Leaves =>
            Carries(fk, at)
    BY DEF KeysCarry
  <2> QED
    BY <1>1, <1>3, <2>1, CarriedOne
<1>4. CASE o.aggregate /\ ViaParent(q, LevelFacts(q), i, o.col)
  BY <1>1, <1>4, ParentFound
<1> QED
  BY <1>2, <1>3, <1>4 DEF PinnedAt

\* A row that is updated is in a state that may be left for the new one.
LEMMA TransitionKept ==
  ASSUME NEW q, LevelFormed(q), NEW w, NEW o, NEW p, Transition(q, LevelFacts(q), w, o)
  PROVE  Legal(q, w, o, p)
<1> SUFFICES ASSUME Assigns(w, o.col), NEW x \in RowsAt(q, q.target, p)
             PROVE  /\ w.set[o.col].val \in DOMAIN o.from
                    /\ Val(x[1], <<q.target, o.col>>) \in o.from[w.set[o.col].val]
  BY DEF Legal
<1> DEFINE c == <<q.target, o.col>>
           to == w.set[o.col].val
<1>1. to \in DOMAIN o.from
  BY DEF Transition
<1>2. PICK pred \in Quals(q) :
        /\ Restricts(pred, q.target)
        /\ CurrentStates(pred.says, c) # {}
        /\ CurrentStates(pred.says, c) \subseteq o.from[to]
  BY DEF Transition, LevelFacts
<1> HIDE DEF c, to
<1>3. /\ pred.says.col = c /\ pred.says.op \in {"=", "in"}
      /\ \A t \in ToSet(pred.says.terms) : t.is = "const"
      /\ CurrentStates(pred.says, c) = {t.val : t \in ToSet(pred.says.terms)}
      /\ CurrentStates(pred.says, c) \subseteq o.from[to]
  <2>1. /\ CurrentStates(pred.says, c) # {}
        /\ CurrentStates(pred.says, c) \subseteq o.from[to]
    BY <1>2
  <2>2. /\ pred.says.col = c /\ pred.says.op \in {"=", "in"}
        /\ \A t \in ToSet(pred.says.terms) : t.is = "const"
    BY <2>1, <1>2 DEF CurrentStates
  <2> QED
    BY <2>1, <2>2 DEF CurrentStates
<1>4. x[2] \in Databases(q) /\ x[1] \in Selected(q, x[2], p) /\ Has(x[1], q.target)
  BY RowAt
<1>5. True(pred.says, x[1], p)
  BY <1>2, <1>4, PredTrue DEF Restricts
<1>6. \E t \in ToSet(pred.says.terms) : Value(x[1], c) = t.val
  BY <1>3, <1>5 DEF True
<1>7. Value(x[1], c) = Val(x[1], c)
  BY <1>4 DEF Value, Leaf, c
<1>8. Val(x[1], c) \in o.from[to]
  BY <1>3, <1>6, <1>7
<1> QED
  BY <1>1, <1>8 DEF c, to

\* The target of a write that the level has single is one row.
LEMMA SingleKept ==
  ASSUME OfLevels, Promised(stmt), LeafSound, AtMostOneRow, stmt \in Statements,
         ~stmt.grouped, stmt.target \in AllLeaves(stmt),
         NEW w, SingleWrite(stmt, sc, w, single, answer = "one")
  PROVE  OneTarget(stmt, stmt.target)
<1> SUFFICES ASSUME NEW db \in Databases(stmt), NEW p \in Parameters,
                    NEW R \in Cut(stmt, Selected(stmt, db, p)), NEW r \in R, NEW s \in R,
                    Both(r, s, stmt.target)
             PROVE  r[stmt.target] = s[stmt.target]
  BY DEF OneTarget
<1>1. R \in Results(stmt)
  BY DEF OfLevels, LevelResults
<1>2. CASE sc.single
  <2>1. LevelHolds(sc, R)
    BY <1>1 DEF Promised, sc
  <2> QED
    BY <1>2, <2>1 DEF LevelHolds
<1>3. CASE stmt.target \in single
  BY <1>1, <1>3 DEF LeafSound
<1>4. CASE answer = "one"
  <2>1. ~sc.grouped
    BY DEF OfLevels, LevelFacts, sc
  <2>2. Returned(R) = R
    BY <2>1 DEF Returned
  <2> QED
    BY <1>1, <1>4, <2>2 DEF AtMostOneRow
<1> QED
  BY <1>2, <1>3, <1>4 DEF SingleWrite

\* An obligation that the judgements of the level discharge is kept by it.
LEMMA DischargedKept ==
  ASSUME OfLevels, JudgedAsWritten, KeysCarry, Promised(stmt), LeafSound, AtMostOneRow \/ stmt.grouped,
         stmt \in Statements, NEW i \in AllLeaves(stmt), NEW o \in Declarations,
         o.subject = stmt.leaf[i], Discharged(stmt, sc, i, o, single, answer = "one")
  PROVE  Kept(stmt, i, o)
<1> DEFINE q == stmt
           reads == (o.kinds \cap Does(q, i)) \ {"insert"} # {}
           writes == IF q.target = i THEN {w \in q.writes : w.kind \in o.kinds} ELSE {}
<1>1. LevelFormed(q) /\ WritesFormed(q) /\ sc = LevelFacts(q)
  BY LevelsAssumption DEF OfLevels, sc
<1>2. o.kinds \cap KindAt(q, i) # {} => LeafAccepts(q, sc, i, o)
  BY DEF Discharged
<1>3. ASSUME NEW w \in writes
      PROVE  /\ q.target = i /\ w \in q.writes /\ w.kind \in o.kinds
             /\ WriteAccepts(q, sc, w, o, single, answer = "one")
  BY DEF Discharged
<1>4. ASSUME o.is = "predicate", reads, NEW p \in Parameters
      PROVE  /\ \A w \in o.pred : Meets(q, i, w, p)
             /\ \A sub \in o.exists : Witnessed(q, i, sub, p)
  <2>1. o.kinds \cap KindAt(q, i) # {}
    BY <1>4, ReadsJudged
  <2>2. Predicate(q, LevelFacts(q), i, o)
    BY <1>1, <1>2, <1>4, <2>1 DEF LeafAccepts
  <2> QED
    BY <2>2, PredicateKept
<1>5. ASSUME o.is = "pinned", NEW w \in writes, w.kind = "insert"
      PROVE  Assigns(w, o.col)
  <2>1. q.kind = "insert" /\ o.kinds \cap KindAt(q, i) # {}
    BY <1>3, <1>5, InsertJudged
  <2>2. PinnedAt(q, sc, i, o)
    BY <1>2, <1>5, <2>1 DEF LeafAccepts
  <2>3. PICK v \in q.writes : v.kind = "insert" /\ Assigns(v, o.col)
    BY <1>3, <1>5, <2>1, <2>2 DEF PinnedAt, AssignedBy
  <2>4. v = w
    BY <1>1, <1>3, <1>5, <2>3 DEF WritesFormed
  <2> QED
    BY <2>3, <2>4
<1>6. ASSUME o.is = "pinned", reads, NEW p \in Parameters,
             q.kind = "insert" /\ q.target = i => \E w \in writes : Moves(q, w, o.col)
      PROVE  \/ OneValue(q, i, o.col, p)
             \/ o.aggregate /\ \A x \in RowsAt(q, i, p) : ParentJoined(q, i, o.col, x[1])
  <2>1. CASE q.kind = "insert" /\ q.target = i
    <3>1. PICK w \in writes : Moves(q, w, o.col)
      BY <1>6, <2>1
    <3>2. <<i, o.col>> \in sc.fixed
      BY <1>3, <1>6, <3>1 DEF WriteAccepts
    <3> QED
      BY <1>1, <3>2, FixedOne
  <2>2. CASE ~(q.kind = "insert" /\ q.target = i)
    <3>1. o.kinds \cap KindAt(q, i) # {}
      BY <1>6, <2>2, ReadsJudged
    <3>2. PinnedAt(q, LevelFacts(q), i, o)
      BY <1>1, <1>2, <1>6, <3>1 DEF LeafAccepts
    <3> QED
      BY <1>6, <2>2, <3>2, PinKept
  <2> QED
    BY <2>1, <2>2
<1>7. ASSUME o.is = "immutable", NEW w \in writes PROVE ~Assigns(w, o.col)
  <2>1. o.kinds \cap KindAt(q, i) # {}
    BY <1>3, <1>7, WritesJudged
  <2>2. ~AssignedBy(q, o.col, {"insert", "update"})
    BY <1>2, <1>7, <2>1 DEF LeafAccepts
  <2>3. CASE w.kind = "delete"
    BY <1>1, <1>3, <2>3 DEF WritesFormed, Assigns
  <2>4. CASE w.kind # "delete"
    BY <1>1, <1>3, <2>2, <2>4 DEF WritesFormed, AssignedBy
  <2> QED
    BY <2>3, <2>4
<1>8. ASSUME o.is = "never" PROVE writes = {}
  BY <1>3, <1>8 DEF WriteAccepts
<1>9. ASSUME o.is = "single", writes # {} PROVE OneTarget(q, i)
  <2>1. PICK w \in writes : TRUE
    BY <1>9
  <2>2. SingleWrite(q, sc, w, single, answer = "one")
    BY <1>3, <1>9, <2>1 DEF WriteAccepts
  <2>3. ~q.grouped /\ q.target = i
    BY <1>1, <1>3, <2>1 DEF WritesFormed
  <2> QED
    BY <2>2, <2>3, SingleKept
<1>10. ASSUME o.is = "transitions", NEW w \in writes, NEW p \in Parameters PROVE Legal(q, w, o, p)
  <2>1. Transition(q, LevelFacts(q), w, o)
    BY <1>1, <1>3, <1>10 DEF WriteAccepts
  <2> QED
    BY <1>1, <2>1, TransitionKept
<1> HIDE DEF q
<1> QED
  BY <1>4, <1>5, <1>6, <1>7, <1>8, <1>9, <1>10 DEF Kept, q

\* A statement that is passed on an obligation keeps it, whatever the database holds and
\* whatever the parameters are (Check: "facts imply obligation").  Left out are what
\* JudgedAsWritten, KeysCarry and NoTies say, the cases in which check.go passes what does not
\* keep it.
THEOREM ObligationsKept ==
  ASSUME OfLevels, NoTies, JudgedAsWritten, KeysCarry
  PROVE  Spec => []DischargedHolds
<1>1. AllPromised
  BY LevelPromised DEF AllPromised, NoTies
<1>2. Init => Inv
  BY <1>1, InvInit
<1>3. Inv /\ [Next]_vars => Inv'
  BY <1>1, InvNext
<1>4. Inv => DischargedHolds
  <2> SUFFICES ASSUME Inv, NEW i \in sc.leaves, NEW o \in Declarations,
                      o.subject = stmt.leaf[i],
                      Discharged(stmt, sc, i, o, single, answer = "one")
               PROVE  Kept(stmt, i, o)
    BY DEF DischargedHolds
  <2>1. stmt \in Statements /\ LeafSound /\ Promised(stmt)
    BY <1>1 DEF Inv, AllPromised
  <2>2. i \in AllLeaves(stmt)
    BY <2>1 DEF OfLevels, LevelFacts, sc
  <2>3. AtMostOneRow \/ stmt.grouped
    <3>1. ~stmt.grouped => GroupsKept(stmt)
      BY <2>1 DEF GroupsKept, OfLevels, LevelFacts
    <3> QED
      BY <1>1, <3>1, AnswerSound
  <2> QED
    BY <2>1, <2>2, <2>3, DischargedKept
<1> QED
  BY <1>2, <1>3, <1>4, PTL DEF Spec
==============================================================================
