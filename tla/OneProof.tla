------------------------------ MODULE OneProof ------------------------------
(***************************************************************************)
(* The One proof (x/cardinality): from the facts the analyzer wrote down   *)
(* about one query level, decide that it returns at most one row.  What is *)
(* known, which leaves are single and which ranges hold a known point grow *)
(* until nothing changes.  A derived leaf's body is proved by the same     *)
(* means; here it is the set of the column sets the proof succeeds from.   *)
(***************************************************************************)
EXTENDS JoinedRows, Naturals, Sequences, SequencesExt

CONSTANTS
  Statements,   \* the query levels to prove
  Facts(_),     \* what the analyzer says of one
  Results(_),   \* the sets of joined rows it may produce, over all databases and parameters
  Holds(_, _)   \* the index predicate holds of the leaf's row

VARIABLES
  stmt,     \* the level under proof
  pc,
  known,    \* columns fixed to a known value
  single,   \* leaves proved to be at most one row
  pointIn,  \* range columns that hold a known point
  answer    \* "one", or "many": not proved

vars == <<stmt, pc, known, single, pointIn, answer>>

\* one level: its leaves with their keys and, for the derived ones, their outputs and bodies;
\* the columns fixed by its predicates or (seeds) by the enclosing level; its equalities
sc == Facts(stmt)

\* K are known columns, S single leaves
IsKnown(c, K, S) == c \in K \/ Leaf(c) \in S

Applies(p, i) == i \in p.restricts

\* the statement's predicate says what the index's does; of a list, no more than it
SamePred(p, w) ==
  /\ p.op = w.op /\ p.col = w.col
  /\ Len(p.terms) = Len(w.terms)
  /\ ToSet(p.terms) \subseteq ToSet(w.terms)

\* variant: a partial index is taken for a whole one
KeyFixedAnywhere(key, i, K, S, P) ==
  /\ key.columns # {}
  /\ \A n \in key.columns :
       IsKnown(<<i, n>>, K, S) \/ (n = key.range /\ <<i, n>> \in P)

\* variant: one known column of the key is enough
KeyFixedByOne(key, i, K, S, P) ==
  /\ \E n \in key.columns :
       IsKnown(<<i, n>>, K, S) \/ (n = key.range /\ <<i, n>> \in P)
  /\ \A w \in key.where : \E p \in sc.preds : Applies(p, i) /\ SamePred(p.says, w)

\* the key's columns are known, the range of a temporal one holds a known point, and the
\* statement repeats the predicate of a partial one
KeyFixed(key, i, K, S, P) ==
  /\ key.columns # {}
  /\ \A n \in key.columns :
       IsKnown(<<i, n>>, K, S) \/ (n = key.range /\ <<i, n>> \in P)
  /\ \A w \in key.where : \E p \in sc.preds : Applies(p, i) /\ SamePred(p.says, w)

Ambiguous(i, o) == \E other \in sc.outputs[i] : other.name = o.name /\ other.at # o.at

\* the columns of the body that the level fixes from outside
Seeds(i, K, S) ==
  {o.col : o \in {o \in sc.outputs[i] : IsKnown(<<i, o.name>>, K, S) /\ ~Ambiguous(i, o)}}

LeafSingle(i, K, S, P) ==
  \/ sc.one[i]
  \/ \E key \in sc.keys[i] : KeyFixed(key, i, K, S, P)
  \/ \E from \in sc.body[i] : from \subseteq Seeds(i, K, S)

\* what the three rules of the fixpoint would add
ByEdges(K, S) == {e.to : e \in {e \in sc.edges : IsKnown(e.from, K, S)}}
ByPoints(K, S) ==
  {p.says.col : p \in {p \in sc.preds : p.says.op = "@>" /\ Applies(p, Leaf(p.says.col))
                         /\ \A t \in ToSet(p.says.terms) :
                              t.is = "column" => IsKnown(t.col, K, S)}}
ByKeys(K, S, P) == {i \in sc.leaves : LeafSingle(i, K, S, P)}

Closed(K, S, P) ==
  ByEdges(K, S) \subseteq K /\ ByPoints(K, S) \subseteq P /\ ByKeys(K, S, P) \subseteq S

Init ==
  /\ stmt \in Statements
  /\ pc = "start"
  /\ known = Facts(stmt).fixed
  /\ single = {} /\ pointIn = {}
  /\ answer = "none"

Answer(a) == pc' = "done" /\ answer' = a

\* what the level says of itself goes before the key argument, LIMIT 1 first
Shape ==
  /\ pc = "start"
  /\ \/ sc.single /\ Answer("one")
     \/ ~sc.single /\ sc.many /\ Answer("many")
     \/ ~sc.single /\ ~sc.many /\ sc.leaves = {} /\ Answer("one")
     \/ ~sc.single /\ ~sc.many /\ sc.leaves # {} /\ pc' = "fixpoint" /\ UNCHANGED answer
  /\ UNCHANGED <<stmt, known, single, pointIn>>

FollowEdge ==
  /\ pc = "fixpoint"
  /\ \E c \in ByEdges(known, single) \ known : known' = known \cup {c}
  /\ UNCHANGED <<stmt, pc, single, pointIn, answer>>

HoldPoint ==
  /\ pc = "fixpoint"
  /\ \E c \in ByPoints(known, single) \ pointIn : pointIn' = pointIn \cup {c}
  /\ UNCHANGED <<stmt, pc, known, single, answer>>

FixLeaf ==
  /\ pc = "fixpoint"
  /\ \E i \in ByKeys(known, single, pointIn) \ single : single' = single \cup {i}
  /\ UNCHANGED <<stmt, pc, known, pointIn, answer>>

\* every grouping expression is pinned
Pinned ==
  \A g \in sc.groups : g.is # "expr" /\ (g.is = "column" => IsKnown(g.col, known, single))

\* variant: one pass over the rules, instead of passes until nothing changes
JudgeEarly ==
  /\ pc = "fixpoint"
  /\ single # {} \/ Closed(known, single, pointIn)
  /\ Answer(IF IF sc.grouped THEN ~sc.sets /\ Pinned ELSE sc.leaves \subseteq single
              THEN "one" ELSE "many")
  /\ UNCHANGED <<stmt, known, single, pointIn>>

\* nothing changes any more
Judge ==
  /\ pc = "fixpoint"
  /\ Closed(known, single, pointIn)
  /\ Answer(IF IF sc.grouped THEN ~sc.sets /\ Pinned ELSE sc.leaves \subseteq single
              THEN "one" ELSE "many")
  /\ UNCHANGED <<stmt, known, single, pointIn>>

Next == Shape \/ FollowEdge \/ HoldPoint \/ FixLeaf \/ Judge
Spec == Init /\ [][Next]_vars
-----------------------------------------------------------------------------
(***************************************************************************)
(* What the facts promise (facts.go).  Two rows of a level are compared on *)
(* the leaves both of them have: an outer join leaves some without a row.  *)
(***************************************************************************)
FixedHold(f, R) ==
  \A c \in f.fixed : \A r, s \in R :
    Both(r, s, Leaf(c)) => Same(Val(r, c), Val(s, c))

EdgesHold(f, R) ==
  \A e \in f.edges : \A r \in R :
    Has(r, Leaf(e.to)) => Has(r, Leaf(e.from)) /\ Same(Val(r, e.from), Val(r, e.to))

\* two rows of a range column that contains the same point, or points of equal columns
PointsHold(f, R) ==
  \A p \in f.preds : \A r, s \in R :
    /\ p.says.op = "@>" /\ Applies(p, Leaf(p.says.col)) /\ Both(r, s, Leaf(p.says.col))
    /\ \A t \in ToSet(p.says.terms) :
         t.is = "column" /\ Both(r, s, Leaf(t.col)) => Val(r, t.col) = Val(s, t.col)
    => Overlap(Val(r, p.says.col), Val(s, p.says.col))

PredsHold(f, R) ==
  \A i \in f.leaves : \A key \in f.keys[i] : \A w \in key.where : \A p \in f.preds : \A r \in R :
    Applies(p, i) /\ SamePred(p.says, w) /\ Has(r, i) => Holds(w, r[i])

KeysHold(f, R) ==
  \A i \in f.leaves : \A key \in f.keys[i] : \A r, s \in R :
    /\ key.columns # {} /\ Both(r, s, i)
    /\ \A n \in key.columns :
         IF n = key.range THEN Overlap(Val(r, <<i, n>>), Val(s, <<i, n>>))
         ELSE Same(Val(r, <<i, n>>), Val(s, <<i, n>>))
    /\ \A w \in key.where : Holds(w, r[i]) /\ Holds(w, s[i])
    => r[i] = s[i]

BodiesHold(f, R) ==
  \A i \in f.leaves : \A r, s \in R :
    Both(r, s, i) =>
      /\ f.one[i] => r[i] = s[i]
      /\ \A o \in f.outputs[i] :
           (\A other \in f.outputs[i] : other.name = o.name => other.at = o.at) =>
             Val(r, <<i, o.name>>) = Val(r, <<i, o.col>>)
      /\ \A from \in f.body[i] :
           (\A n \in from : Same(Val(r, <<i, n>>), Val(s, <<i, n>>))) => r[i] = s[i]

\* an outer join keeps a row without a partner only if it has none; a FULL JOIN is "many"
LevelHolds(f, R) ==
  /\ f.single => \A r, s \in R : r = s
  /\ ~f.many => \A r, s \in R : (\A i \in f.leaves : Both(r, s, i) => r[i] = s[i]) => r = s

Promised(s) ==
  LET f == Facts(s) IN
  \A R \in Results(s) :
    /\ FixedHold(f, R) /\ EdgesHold(f, R) /\ PointsHold(f, R)
    /\ PredsHold(f, R) /\ KeysHold(f, R) /\ BodiesHold(f, R)
    /\ LevelHolds(f, R)
\* the leaves grouped by have a row in every joined row
GroupsKept(s) ==
  Facts(s).grouped =>
    \A R \in Results(s) : \A r \in R : \A g \in Facts(s).groups :
      g.is = "column" => Has(r, Leaf(g.col))
-----------------------------------------------------------------------------
(***************************************************************************)
(* Properties.                                                             *)
(***************************************************************************)

\* The variables keep their types; a level is answered once, at the end.
TypeOK ==
  /\ pc \in {"start", "fixpoint", "done"}
  /\ single \subseteq sc.leaves
  /\ known \subseteq sc.fixed \cup {e.to : e \in sc.edges}
  /\ pointIn \subseteq {p.says.col : p \in sc.preds}
  /\ answer \in {"none", "one", "many"}
  /\ pc = "done" <=> answer # "none"
  /\ pc = "start" => single = {} /\ pointIn = {}

\* What the statement returns: the joined rows, or one row for each group of them (NULLs are
\* one group).
GroupValue(r, g) == IF Has(r, Leaf(g.col)) THEN Val(r, g.col) ELSE {}
Returned(R) ==
  IF sc.grouped /\ ~sc.sets
    THEN {[g \in {g \in sc.groups : g.is = "column"} |-> GroupValue(r, g)] : r \in R}
    ELSE R

\* A statement declared One that passes the check returns at most one row, whatever the
\* database holds and whatever the parameters are (scopeSingle; "the checker proves it").
AtMostOneRow ==
  answer = "one" => \A R \in Results(stmt) : \A r, s \in Returned(R) : r = s

\* A leaf proved single takes part in the level with one row only, even where the level
\* itself has many: what TargetSingle says of a DELETE's or UPDATE's target.
LeafSound ==
  \A i \in single : \A R \in Results(stmt) : \A r, s \in R : Both(r, s, i) => r[i] = s[i]

\* The facts are true of what the statement returns (the promises of facts.go, kept by
\* addItem and addQuals: an equality is recorded only where it restricts).
FactsHold == pc = "done" => Promised(stmt)

\* The proof of a level with leaves ends with all that can be known, and no more, in whatever
\* order the rules were tried: the sets are closed under the rules, and no smaller ones within
\* them are.
LeastClosed ==
  pc = "done" /\ ~sc.single /\ ~sc.many /\ sc.leaves # {} =>
    /\ Closed(known, single, pointIn)
    /\ \A K \in SUBSET (known \ sc.fixed), S \in SUBSET single, P \in SUBSET pointIn :
         Closed(sc.fixed \cup K, S, P) => known \subseteq sc.fixed \cup K /\ S = single
=============================================================================
