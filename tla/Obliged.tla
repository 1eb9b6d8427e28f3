------------------------------ MODULE Obliged ------------------------------
(***************************************************************************)
(* The obligations of the statements that the One proof decides: whether a *)
(* write is of a single row is what the proof found out about its target.  *)
(***************************************************************************)
EXTENDS OneProof, Obligation

ASSUME LevelsAssumption ==
  /\ \A q \in Statements : LevelFormed(q) /\ WritesFormed(q)
  /\ \A o \in Declarations : DeclarationFormed(o)

\* A statement is passed on an obligation only if it keeps it, whatever the database holds and
\* whatever the parameters are: its rows meet the declared predicate, the pinned column has one
\* known value in them, rows leave the states they may leave, a single write moves one row
\* ("facts imply obligation", docs/obligations.md; check.go's judgements).
DischargedHolds ==
  pc = "done" =>
    \A i \in sc.leaves : \A o \in Declarations :
      o.subject = stmt.leaf[i] /\ Discharged(stmt, sc, i, o, single, answer = "one") =>
        Kept(stmt, i, o)
-----------------------------------------------------------------------------
(***************************************************************************)
(* The statements and declarations of which all of it can be promised:     *)
(* without the cases in which the code disagrees with what it says.        *)
(***************************************************************************)

\* no FETCH FIRST 1 ROW WITH TIES
NoTies == \A q \in Statements : q.limit # "ties"

\* the leaves that every row of the join has
InEveryRow(q) == AllLeaves(q) \ OuterLeaves(q)

\* no GROUP BY of a column of a leaf that an outer join may leave without a row
GroupsInEveryRow ==
  \A q \in Statements : q.grouped =>
    \A g \in q.groups : g.is = "column" => Leaf(g.col) \in InEveryRow(q)

\* no statement whose kind is not that of its writes: a write of a WITH item, or of an ON
\* CONFLICT, only where the declaration is about the statement's kind, too
JudgedAsWritten ==
  \A q \in Statements, o \in Declarations : \A w \in q.writes :
    /\ w.kind = "insert" => q.kind = "insert"
    /\ /\ o.is \in {"predicate", "immutable", "pinned"} /\ w.kind \in o.kinds
       /\ q.target \in AllLeaves(q) /\ q.leaf[q.target] = o.subject
       => \/ o.kinds \cap KindAt(q, q.target) # {}
          \/ o.is = "pinned" /\ q.kind = "insert"

\* a foreign key through which a pin is carried over is enforced, and its other columns are
\* unique in the table it refers to
Carries(fk, at) ==
  /\ fk.enforced
  /\ \E key \in Leaves[fk.to].stored :
       /\ key.where = {} /\ key.range \notin key.columns
       /\ key.columns \subseteq {fk.refs[k] : k \in DOMAIN fk.columns \ {at}}

KeysCarry ==
  \A q \in Statements, o \in Declarations : \A i \in AllLeaves(q) :
    o.is = "pinned" /\ q.leaf[i] = o.subject =>
      \A fk \in Relation(q, i).refs : \A at \in DOMAIN fk.columns :
        Len(fk.columns) >= 2 /\ fk.columns[at] = o.col /\ fk.to \in DOMAIN Leaves =>
          Carries(fk, at)
=============================================================================
