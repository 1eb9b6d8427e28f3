----------------------------- MODULE Obligation -----------------------------
(***************************************************************************)
(* Obligations (x/obligation): what a schema requires of every statement   *)
(* that touches a table, judged on the facts of one query level, for each  *)
(* leaf and for each write.  A statement is a level with the leaf it       *)
(* writes (or none) and its writes: an upsert has two, and the kind of the *)
(* statement is not a write's where the write stands in a WITH.  Declared  *)
(* conditions are about leaf 0, the subject, and leaf 1, a witness.        *)
(***************************************************************************)
EXTENDS QueryLevel

CONSTANT Declarations   \* the obligations in force

Restricts(p, i) == i \in p.restricts

\* what the statement does to the leaf, as the judgement takes it
KindAt(q, i) ==
  IF q.target # i THEN {"select"}
  ELSE CASE q.kind = "insert" -> {"insert"}
         [] q.kind \in {"update", "delete"} -> {"select", q.kind}
         [] OTHER -> {"select"}

Moved(c, i, j) == IF Leaf(c) = 0 THEN <<i, Name(c)>> ELSE <<j, Name(c)>>

\* the declared condition, about leaf i and the witness j
Rebound(w, i, j) ==
  [w EXCEPT !.col = Moved(w.col, i, j),
            !.terms = [k \in DOMAIN w.terms |->
                         IF w.terms[k].is = "column" THEN ColumnTerm(Moved(w.terms[k].col, i, j))
                         ELSE w.terms[k]]]

\* a declared parameter stands for any value known before the row is looked at
SameTerm(t, declared) == IF declared.is = "param" THEN t.is # "column" ELSE t = declared
AnyTerm(t, declared) == \E d \in ToSet(declared) : SameTerm(t, d)

\* the statement's condition establishes the declared one
Implies(p, w) ==
  CASE w.op = "in" ->
         /\ p.col = w.col
         /\ \/ p.op = "=" /\ p.terms[1].is # "column" /\ AnyTerm(p.terms[1], w.terms)
            \/ p.op = "in" /\ \A t \in ToSet(p.terms) : AnyTerm(t, w.terms)
    [] w.op = "=" ->
         /\ p.op = "="
         /\ \/ p.col = w.col /\ SameTerm(p.terms[1], w.terms[1])
            \/ /\ p.terms[1].is = "column" /\ w.terms[1].is = "column"
               /\ p.col = w.terms[1].col /\ p.terms[1].col = w.col
    [] OTHER -> p.op = w.op /\ p.col = w.col

Satisfied(f, i, w) ==
  \/ \E p \in f.preds : Restricts(p, i) /\ Implies(p.says, w)
  \/ w.op = "not null" /\ w.col \in f.notnull
  \/ w.op = "=" /\ w.terms[1].is = "param" /\ w.col \in f.fixed

\* a leaf joined at the same level so that the body of the declared EXISTS holds
Witness(q, f, i, sub) ==
  \E j \in f.leaves \ {i} :
    q.leaf[j] = sub.table /\ \A w \in sub.where : Satisfied(f, i, Rebound(w, i, j))

Predicate(q, f, i, o) ==
  /\ \A w \in o.pred : Satisfied(f, i, Rebound(w, i, i))
  /\ \A sub \in o.exists : Witness(q, f, i, sub)

\* the level equates the two columns wherever leaf i has a row
EqualIn(f, i, a, b) ==
  \E p \in f.preds :
    /\ p.says.op = "=" /\ p.says.terms[1].is = "column" /\ Restricts(p, i)
    /\ <<p.says.col, p.says.terms[1].col>> \in {<<a, b>>, <<b, a>>}

\* variant: a foreign key column that may be NULL carries the pin over as well
ViaForeignKeyOrNull(q, f, i, col) ==
  \E fk \in Relation(q, i).refs, j \in f.leaves \ {i} : \E at \in DOMAIN fk.columns :
    /\ Len(fk.columns) >= 2 /\ fk.columns[at] = col /\ q.leaf[j] = fk.to
    /\ \A k \in DOMAIN fk.columns \ {at} : EqualIn(f, i, <<i, fk.columns[k]>>, <<j, fk.refs[k]>>)
    /\ <<j, fk.refs[at]>> \in f.fixed

\* the other columns of a foreign key are joined to a row whose own is pinned
ViaForeignKey(q, f, i, col) ==
  /\ \E fk \in Relation(q, i).refs, j \in f.leaves \ {i} : \E at \in DOMAIN fk.columns :
       /\ Len(fk.columns) >= 2 /\ fk.columns[at] = col /\ q.leaf[j] = fk.to
       /\ \A k \in DOMAIN fk.columns \ {at} : EqualIn(f, i, <<i, fk.columns[k]>>, <<j, fk.refs[k]>>)
       /\ <<j, fk.refs[at]>> \in f.fixed
  /\ NotNullable(q, <<i, col>>) \/ <<i, col>> \in f.notnull

\* a member of an aggregate is joined to its parent
ViaParent(q, f, i, col) ==
  \E fk \in Relation(q, i).refs, j \in f.leaves \ {i} : \E at \in DOMAIN fk.columns :
    /\ fk.columns[at] = col /\ q.leaf[j] = fk.to
    /\ EqualIn(f, i, <<i, col>>, <<j, fk.refs[at]>>)

Assigns(w, col) == col \in DOMAIN w.set
AssignedBy(q, col, kinds) == \E w \in q.writes : w.kind \in kinds /\ Assigns(w, col)

PinnedAt(q, f, i, o) ==
  IF q.kind = "insert" /\ q.target = i THEN AssignedBy(q, o.col, {"insert"})
  ELSE \/ <<i, o.col>> \in f.fixed
       \/ ViaForeignKey(q, f, i, o.col)
       \/ o.aggregate /\ ViaParent(q, f, i, o.col)

\* the states in which a conjunct leaves the column; none, if it does not speak of them
CurrentStates(p, col) ==
  IF p.col = col /\ p.op \in {"=", "in"} /\ \A t \in ToSet(p.terms) : t.is = "const"
    THEN {t.val : t \in ToSet(p.terms)} ELSE {}

\* the first conjunct that names the current states decides; conjuncts may stand in any order
Transition(q, f, w, o) ==
  Assigns(w, o.col) =>
    LET to == w.set[o.col] IN
    /\ to.is = "const" /\ to.val \in DOMAIN o.from
    /\ \E p \in f.preds :
         LET states == CurrentStates(p.says, <<q.target, o.col>>) IN
         Restricts(p, q.target) /\ states # {} /\ states \subseteq o.from[to.val]

\* S are the leaves of the level proved single; one: the statement is
SingleWrite(q, f, w, S, one) ==
  ~w.inWith /\ IF w.kind \in {"update", "delete"} THEN f.single \/ (~f.many /\ q.target \in S)
               ELSE one

\* an update that is not the statement itself, and moves the pinned column
Moves(q, w, col) == w.kind = "update" /\ q.kind # "update" /\ Assigns(w, col)

LeafAccepts(q, f, i, o) ==
  o.kinds \cap KindAt(q, i) # {} =>
    CASE o.is = "predicate" -> Predicate(q, f, i, o)
      [] o.is = "pinned" -> PinnedAt(q, f, i, o)
      [] o.is = "immutable" -> ~AssignedBy(q, o.col, {"insert", "update"})
      [] OTHER -> TRUE

WriteAccepts(q, f, w, o, S, one) ==
  w.kind \in o.kinds =>
    CASE o.is = "never" -> FALSE
      [] o.is = "single" -> SingleWrite(q, f, w, S, one)
      [] o.is = "transitions" -> Transition(q, f, w, o)
      [] o.is = "pinned" -> Moves(q, w, o.col) => <<q.target, o.col>> \in f.fixed
      [] OTHER -> TRUE

\* no judgement of the obligation on leaf i, or on what is written to it, fails
Discharged(q, f, i, o, S, one) ==
  /\ LeafAccepts(q, f, i, o)
  /\ q.target = i => \A w \in q.writes : WriteAccepts(q, f, w, o, S, one)
-----------------------------------------------------------------------------
(***************************************************************************)
(* What an obligation asks, of the rows.                                   *)
(***************************************************************************)

\* what is done to the leaf: "a statement is judged by what it does to the table"
Does(q, i) ==
  IF q.target # i THEN {"select"}
  ELSE {w.kind : w \in q.writes}
         \cup IF q.kind # "insert" /\ q.writes # {} THEN {"select"} ELSE {}

\* the level's rows that have one of leaf i, each with its database, for a parameter
RowsAt(q, i, p) ==
  UNION {{<<r, db>> : r \in {r \in Selected(q, db, p) : Has(r, i)}} : db \in Databases(q)}

\* one value, the same whatever the database holds, and not NULL
OneValue(q, i, col, p) ==
  LET values == {Val(x[1], <<i, col>>) : x \in RowsAt(q, i, p)}
  IN \A u, v \in values : u = v /\ u # {}

\* the declared condition on the row of the subject; $n is any one value
Meets(q, i, w, p) ==
  IF w.terms # <<>> /\ w.terms[1].is = "param" THEN OneValue(q, i, Name(w.col), p)
  ELSE \A x \in RowsAt(q, i, p) : True(Rebound(w, i, i), x[1], p)

\* a row of the witness in the database for every row of the subject, $n of it being one value
Witnessed(q, i, sub, p) ==
  \E known \in SUBSET Points : \A x \in RowsAt(q, i, p) :
    \E j \in AllLeaves(q) \ {i} : q.leaf[j] = sub.table /\ \E b \in x[2][j] :
      LET pair == [k \in AllLeaves(q) |-> IF k = j THEN b ELSE x[1][k]]
      IN \A w \in sub.where : True(Rebound(w, i, j), pair, known)

\* the row the member's foreign key refers to is in the joined row
ParentJoined(q, i, col, r) ==
  \E fk \in Relation(q, i).refs, j \in AllLeaves(q) \ {i} : \E at \in DOMAIN fk.columns :
    /\ fk.columns[at] = col /\ q.leaf[j] = fk.to /\ Has(r, j)
    /\ Same(Val(r, <<i, col>>), Val(r, <<j, fk.refs[at]>>))

\* each row that is updated is in a state from which the new one may be reached
Legal(q, w, o, p) ==
  Assigns(w, o.col) =>
    \A x \in RowsAt(q, q.target, p) :
      w.set[o.col].val \in DOMAIN o.from
        /\ Val(x[1], <<q.target, o.col>>) \in o.from[w.set[o.col].val]

OneTarget(q, i) ==
  \A db \in Databases(q), p \in Parameters : \A R \in Cut(q, Selected(q, db, p)) :
    \A r, s \in R : Both(r, s, i) => r[i] = s[i]

\* the obligation is kept by what the statement does to the leaf
Kept(q, i, o) ==
  LET reads == (o.kinds \cap Does(q, i)) \ {"insert"} # {}
      writes == IF q.target = i THEN {w \in q.writes : w.kind \in o.kinds} ELSE {}
  IN \A p \in Parameters :
       /\ o.is = "predicate" /\ reads => /\ \A w \in o.pred : Meets(q, i, w, p)
                                        /\ \A sub \in o.exists : Witnessed(q, i, sub, p)
       /\ o.is = "pinned" =>
            /\ \A w \in writes : w.kind = "insert" => Assigns(w, o.col)
            /\ reads /\ (q.kind = "insert" /\ q.target = i => \E w \in writes : Moves(q, w, o.col)) =>
                 \/ OneValue(q, i, o.col, p)
                 \/ o.aggregate /\ \A x \in RowsAt(q, i, p) : ParentJoined(q, i, o.col, x[1])
       /\ o.is = "immutable" => \A w \in writes : ~Assigns(w, o.col)
       /\ o.is = "never" => writes = {}
       /\ o.is = "single" /\ writes # {} => OneTarget(q, i)
       /\ o.is = "transitions" => \A w \in writes : Legal(q, w, o, p)
-----------------------------------------------------------------------------
(***************************************************************************)
(* What may be asked of declarations and writes: the forms they have.      *)
(***************************************************************************)

\* a declared condition about the leaves: an equality, a list of constants, or a test for NULL
DeclaredFormed(w, leaves) ==
  /\ w = Cond(w.op, w.col, w.terms) /\ Leaf(w.col) \in leaves
  /\ \/ /\ w.op = "=" /\ w.terms = <<w.terms[1]>>
        /\ \/ w.terms[1].is \in {"param", "const"}
           \/ w.terms[1] = ColumnTerm(w.terms[1].col) /\ Leaf(w.terms[1].col) \in leaves
     \/ w.op = "in" /\ 1 \in DOMAIN w.terms /\ \A k \in DOMAIN w.terms : w.terms[k].is = "const"
     \/ w.op \in {"null", "not null"} /\ w.terms = <<>>

\* a declared EXISTS is about the row of the subject, and has one $n at most
ExistsFormed(sub) ==
  /\ \A w \in sub.where : DeclaredFormed(w, {0, 1})
  /\ \E w \in sub.where :
       w.op = "=" /\ w.terms[1].is = "column" /\ 1 \in {Leaf(w.col), Leaf(w.terms[1].col)}
  /\ \A v, w \in sub.where :
       v.op = "=" /\ w.op = "=" /\ v.terms[1].is = "param" /\ w.terms[1].is = "param" => v = w

DeclarationFormed(o) ==
  /\ \A w \in o.pred : DeclaredFormed(w, {0})
  /\ \A sub \in o.exists : ExistsFormed(sub)

\* a statement inserts once; a DELETE assigns nothing; what is written is not grouped
WritesFormed(q) ==
  /\ q.kind \in {"select", "insert", "update", "delete"}
  /\ \A w \in q.writes : w.kind \in {"insert", "update", "delete"}
  /\ \A v, w \in q.writes : v.kind = "insert" /\ w.kind = "insert" => v = w
  /\ \A w \in q.writes : w.kind = "delete" => DOMAIN w.set = {}
  /\ q.writes # {} => ~q.grouped
=============================================================================
