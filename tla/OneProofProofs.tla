--------------------------- MODULE OneProofProofs ---------------------------
(***************************************************************************)
(* Soundness of the One proof for levels of any number of leaves, columns  *)
(* and keys: if the facts are true, so is the answer.                      *)
(***************************************************************************)
EXTENDS OneProof, TLAPS

\* The facts of every level are true of what it returns.
AllPromised == \A s \in Statements : Promised(s)

\* Two rows that have a leaf agree on what is known of it.
KnownHold ==
  \A c \in known : \A R \in Results(stmt) : \A r, s \in R :
    Both(r, s, Leaf(c)) => Same(Val(r, c), Val(s, c))

\* Two rows that have a leaf overlap in a range that holds a known point.
PointHold ==
  \A c \in pointIn : \A R \in Results(stmt) : \A r, s \in R :
    Both(r, s, Leaf(c)) => Overlap(Val(r, c), Val(s, c))

\* What the answer rests on.
Grounds ==
  /\ pc = "fixpoint" => ~sc.many
  /\ answer = "one" =>
       \/ sc.single
       \/ /\ ~sc.many
          /\ \/ sc.leaves = {}
             \/ IF sc.grouped THEN ~sc.sets /\ Pinned ELSE sc.leaves \subseteq single

Inv == stmt \in Statements /\ KnownHold /\ LeafSound /\ PointHold /\ Grounds
-----------------------------------------------------------------------------
\* What is known of a column, or of its leaf, two rows have in common.
LEMMA KnownSame ==
  ASSUME KnownHold, LeafSound, NEW c, IsKnown(c, known, single),
         NEW R \in Results(stmt), NEW r \in R, NEW s \in R, Both(r, s, Leaf(c))
  PROVE  Val(r, c) = Val(s, c)
<1>1. CASE c \in known
  BY <1>1 DEF KnownHold, Same
<1>2. CASE Leaf(c) \in single
  BY <1>2 DEF LeafSound, Val
<1> QED
  BY <1>1, <1>2 DEF IsKnown

\* An edge makes known what is equal to a known column.
LEMMA EdgeStep ==
  ASSUME AllPromised, Inv, NEW c \in ByEdges(known, single),
         NEW R \in Results(stmt), NEW r \in R, NEW s \in R, Both(r, s, Leaf(c))
  PROVE  Same(Val(r, c), Val(s, c))
<1>1. PICK e \in sc.edges : IsKnown(e.from, known, single) /\ c = e.to
  BY DEF ByEdges
<1>2. EdgesHold(sc, R)
  BY DEF AllPromised, Promised, Inv, sc
<1>3. /\ Has(r, Leaf(e.from)) /\ Same(Val(r, e.from), Val(r, c))
      /\ Has(s, Leaf(e.from)) /\ Same(Val(s, e.from), Val(s, c))
  BY <1>1, <1>2 DEF EdgesHold, Both
<1>4. Val(r, e.from) = Val(s, e.from)
  BY <1>1, <1>3, KnownSame DEF Inv, Both
<1> QED
  BY <1>3, <1>4 DEF Same

\* Two ranges that hold the same known point overlap.
LEMMA PointStep ==
  ASSUME AllPromised, Inv, NEW c \in ByPoints(known, single),
         NEW R \in Results(stmt), NEW r \in R, NEW s \in R, Both(r, s, Leaf(c))
  PROVE  Overlap(Val(r, c), Val(s, c))
<1>1. PICK p \in sc.preds :
        /\ p.says.op = "@>" /\ Applies(p, Leaf(p.says.col)) /\ c = p.says.col
        /\ \A t \in ToSet(p.says.terms) : t.is = "column" => IsKnown(t.col, known, single)
  BY DEF ByPoints
<1>2. PointsHold(sc, R)
  BY DEF AllPromised, Promised, Inv, sc
<1>3. \A t \in ToSet(p.says.terms) :
        t.is = "column" /\ Both(r, s, Leaf(t.col)) => Val(r, t.col) = Val(s, t.col)
  BY <1>1, KnownSame DEF Inv
<1> QED
  BY <1>1, <1>2, <1>3 DEF PointsHold

\* A leaf with a fixed key is single.
LEMMA KeyStep ==
  ASSUME AllPromised, Inv, NEW i \in sc.leaves, i \notin single, NEW key \in sc.keys[i],
         KeyFixed(key, i, known, single, pointIn),
         NEW R \in Results(stmt), NEW r \in R, NEW s \in R, Both(r, s, i)
  PROVE  r[i] = s[i]
<1>1. KeysHold(sc, R) /\ PredsHold(sc, R)
  BY DEF AllPromised, Promised, Inv, sc
<1>2. ASSUME NEW n \in key.columns
      PROVE  IF n = key.range THEN Overlap(Val(r, <<i, n>>), Val(s, <<i, n>>))
             ELSE Same(Val(r, <<i, n>>), Val(s, <<i, n>>))
  <2>1. Leaf(<<i, n>>) = i
    BY DEF Leaf
  <2>2. CASE <<i, n>> \in known
    <3>1. Same(Val(r, <<i, n>>), Val(s, <<i, n>>))
      BY <2>1, <2>2 DEF Inv, KnownHold
    <3> QED
      BY <3>1 DEF Same, Overlap
  <2>3. CASE n = key.range /\ <<i, n>> \in pointIn
    BY <2>1, <2>3 DEF Inv, PointHold
  <2> QED
    BY <2>1, <2>2, <2>3 DEF KeyFixed, IsKnown
<1>3. \A w \in key.where : Holds(w, r[i]) /\ Holds(w, s[i])
  BY <1>1 DEF KeyFixed, PredsHold, Both
<1>4. key.columns # {}
  BY DEF KeyFixed
<1> QED
  BY <1>1, <1>2, <1>3, <1>4 DEF KeysHold

\* A derived leaf whose body is proved from what the level fixes of it is single.
LEMMA BodyStep ==
  ASSUME AllPromised, Inv, NEW i \in sc.leaves, i \notin single, NEW from \in sc.body[i],
         from \subseteq Seeds(i, known, single),
         NEW R \in Results(stmt), NEW r \in R, NEW s \in R, Both(r, s, i)
  PROVE  r[i] = s[i]
<1>1. BodiesHold(sc, R)
  BY DEF AllPromised, Promised, Inv, sc
<1>2. ASSUME NEW n \in from PROVE Same(Val(r, <<i, n>>), Val(s, <<i, n>>))
  <2>1. PICK o \in sc.outputs[i] :
          IsKnown(<<i, o.name>>, known, single) /\ ~Ambiguous(i, o) /\ n = o.col
    BY <1>2 DEF Seeds
  <2>2. \A other \in sc.outputs[i] : other.name = o.name => other.at = o.at
    BY <2>1 DEF Ambiguous
  <2>3. Both(s, r, i)
    BY DEF Both
  <2>4. Val(r, <<i, o.name>>) = Val(r, <<i, n>>) /\ Val(s, <<i, o.name>>) = Val(s, <<i, n>>)
    BY <1>1, <2>1, <2>2, <2>3 DEF BodiesHold
  <2>5. Same(Val(r, <<i, o.name>>), Val(s, <<i, o.name>>))
    BY <2>1 DEF IsKnown, Leaf, Inv, KnownHold
  <2> QED
    BY <2>4, <2>5
<1> QED
  BY <1>1, <1>2 DEF BodiesHold

\* Every leaf the rules add is single.
LEMMA LeafStep ==
  ASSUME AllPromised, Inv, NEW i \in ByKeys(known, single, pointIn) \ single,
         NEW R \in Results(stmt), NEW r \in R, NEW s \in R, Both(r, s, i)
  PROVE  r[i] = s[i]
<1>1. i \in sc.leaves /\ LeafSingle(i, known, single, pointIn)
  BY DEF ByKeys
<1>2. CASE sc.one[i]
  BY <1>1, <1>2 DEF AllPromised, Promised, Inv, sc, BodiesHold
<1> QED
  BY <1>1, <1>2, KeyStep, BodyStep DEF LeafSingle
-----------------------------------------------------------------------------
\* The proof begins with what the predicates fix, and no leaf single.
LEMMA InvInit ==
  ASSUME AllPromised, Init
  PROVE  Inv
<1>1. stmt \in Statements /\ known = sc.fixed
  BY DEF Init, sc
<1>2. KnownHold
  BY <1>1 DEF KnownHold, AllPromised, Promised, FixedHold, sc
<1>3. LeafSound /\ PointHold /\ Grounds
  BY DEF Init, LeafSound, PointHold, Grounds
<1> QED
  BY <1>1, <1>2, <1>3 DEF Inv

\* The rules add only what is so, and the answer is given for a reason.
LEMMA InvNext ==
  ASSUME AllPromised, Inv, [Next]_vars
  PROVE  Inv'
<1>1. CASE Shape
  <2>1. UNCHANGED <<stmt, known, single, pointIn>>
    BY <1>1 DEF Shape
  <2>2. KnownHold' /\ LeafSound' /\ PointHold'
    BY <2>1 DEF Inv, KnownHold, LeafSound, PointHold
  <2>3. Pinned' = Pinned /\ sc' = sc
    BY <2>1 DEF Pinned, IsKnown, sc
  <2>4. Grounds'
    BY <1>1, <2>3 DEF Shape, Answer, Inv, Grounds
  <2> QED
    BY <2>1, <2>2, <2>4 DEF Inv
<1>2. CASE FollowEdge
  <2>1. PICK c \in ByEdges(known, single) : known' = known \cup {c}
    BY <1>2 DEF FollowEdge
  <2>2. UNCHANGED <<stmt, pc, single, pointIn, answer>>
    BY <1>2 DEF FollowEdge
  <2>3. KnownHold'
    BY <2>1, <2>2, EdgeStep DEF KnownHold, Inv
  <2>4. Grounds'
    <3>1. Pinned => Pinned'
      BY <2>1, <2>2 DEF Pinned, IsKnown, sc
    <3> QED
      BY <2>2, <3>1 DEF Inv, Grounds, sc
  <2> QED
    BY <2>2, <2>3, <2>4 DEF Inv, LeafSound, PointHold
<1>3. CASE HoldPoint
  <2>1. PICK c \in ByPoints(known, single) : pointIn' = pointIn \cup {c}
    BY <1>3 DEF HoldPoint
  <2>2. UNCHANGED <<stmt, pc, known, single, answer>>
    BY <1>3 DEF HoldPoint
  <2>3. PointHold'
    BY <2>1, <2>2, PointStep DEF PointHold, Inv
  <2> QED
    BY <2>2, <2>3 DEF Inv, KnownHold, LeafSound, Grounds, Pinned, IsKnown, sc
<1>4. CASE FixLeaf
  <2>1. PICK i \in ByKeys(known, single, pointIn) \ single : single' = single \cup {i}
    BY <1>4 DEF FixLeaf
  <2>2. UNCHANGED <<stmt, pc, known, pointIn, answer>>
    BY <1>4 DEF FixLeaf
  <2>3. LeafSound'
    BY <2>1, <2>2, LeafStep DEF LeafSound, Inv
  <2>4. Grounds'
    <3>1. Pinned => Pinned'
      BY <2>1, <2>2 DEF Pinned, IsKnown, sc
    <3> QED
      BY <2>1, <2>2, <3>1 DEF Inv, Grounds, sc
  <2> QED
    BY <2>2, <2>3, <2>4 DEF Inv, KnownHold, PointHold
<1>5. CASE Judge
  <2>1. UNCHANGED <<stmt, known, single, pointIn>>
    BY <1>5 DEF Judge
  <2> QED
    BY <1>5, <2>1 DEF Judge, Answer, Inv, KnownHold, LeafSound, PointHold, Grounds, Pinned,
       IsKnown, sc
<1>6. CASE UNCHANGED vars
  BY <1>6 DEF vars, Inv, KnownHold, LeafSound, PointHold, Grounds, Pinned, IsKnown, sc
<1> QED
  BY <1>1, <1>2, <1>3, <1>4, <1>5, <1>6 DEF Next
-----------------------------------------------------------------------------
\* Sound: where the facts are true and no group is of a leaf that an outer join may leave
\* without a row, a statement proved One returns at most one row.
LEMMA AnswerSound ==
  ASSUME AllPromised, Inv, GroupsKept(stmt)
  PROVE  AtMostOneRow
<1> SUFFICES ASSUME answer = "one", NEW R \in Results(stmt),
                    NEW x \in Returned(R), NEW y \in Returned(R)
             PROVE  x = y
  BY DEF AtMostOneRow
<1>1. LevelHolds(sc, R)
  BY DEF AllPromised, Promised, Inv, sc
<1>2. CASE \A r, s \in R : r = s
  BY <1>2 DEF Returned
<1>3. CASE ~sc.single /\ ~sc.many /\ sc.leaves # {} /\ sc.grouped
  <2>1. ~sc.sets /\ Pinned
    BY <1>3 DEF Inv, Grounds
  <2>2. PICK r \in R, s \in R :
          /\ x = [g \in {g \in sc.groups : g.is = "column"} |-> GroupValue(r, g)]
          /\ y = [g \in {g \in sc.groups : g.is = "column"} |-> GroupValue(s, g)]
    BY <1>3, <2>1 DEF Returned
  <2>3. ASSUME NEW g \in sc.groups, g.is = "column"
        PROVE  GroupValue(r, g) = GroupValue(s, g)
    <3>1. IsKnown(g.col, known, single)
      BY <2>1, <2>3 DEF Pinned
    <3>2. Has(r, Leaf(g.col)) /\ Has(s, Leaf(g.col))
      BY <1>3, <2>3 DEF GroupsKept, sc
    <3>3. Val(r, g.col) = Val(s, g.col)
      BY <3>1, <3>2, KnownSame DEF Inv, Both
    <3> QED
      BY <3>2, <3>3 DEF GroupValue
  <2> QED
    BY <2>2, <2>3
<1>4. CASE ~sc.many /\ ~(sc.grouped /\ ~sc.single /\ sc.leaves # {})
  <2>1. CASE sc.single
    BY <1>1, <1>2, <2>1 DEF LevelHolds
  <2>2. CASE ~sc.single
    <3>1. \A i \in sc.leaves : \A r, s \in R : Both(r, s, i) => r[i] = s[i]
      BY <1>4, <2>2 DEF Inv, Grounds, LeafSound
    <3> QED
      BY <1>1, <1>2, <1>4, <3>1 DEF LevelHolds
  <2> QED
    BY <2>1, <2>2
<1>5. CASE sc.single
  BY <1>1, <1>2, <1>5 DEF LevelHolds
<1> QED
  BY <1>3, <1>4, <1>5 DEF Inv, Grounds

\* A leaf proved single takes part with one row only (TargetSingle), for any level whose
\* facts are true.
THEOREM LeafSoundness ==
  ASSUME AllPromised
  PROVE  Spec => []LeafSound
<1>1. Init => Inv
  BY InvInit
<1>2. Inv /\ [Next]_vars => Inv'
  BY InvNext
<1>3. Inv => LeafSound
  BY DEF Inv
<1> QED
  BY <1>1, <1>2, <1>3, PTL DEF Spec

\* A statement the proof calls One returns at most one row, whatever the database holds
\* (scopeSingle): for any level whose facts are true and whose GROUP BY, if any, names only
\* leaves every joined row has.
THEOREM Soundness ==
  ASSUME AllPromised, \A s \in Statements : GroupsKept(s)
  PROVE  Spec => []AtMostOneRow
<1>1. Init => Inv
  BY InvInit
<1>2. Inv /\ [Next]_vars => Inv'
  BY InvNext
<1>3. Inv => AtMostOneRow
  BY AnswerSound DEF Inv
<1> QED
  BY <1>1, <1>2, <1>3, PTL DEF Spec

\* Only leaves are proved single, only columns with a reason become known, and a level is
\* answered once, at the end of its proof (proof, fixpoint, scopeSingle).
THEOREM TypeCorrect == Spec => []TypeOK
<1>1. Init => TypeOK
  BY DEF Init, TypeOK, sc
<1>2. TypeOK /\ [Next]_vars => TypeOK'
  <2> SUFFICES ASSUME TypeOK, [Next]_vars PROVE TypeOK'
    OBVIOUS
  <2>1. CASE Shape
    BY <2>1 DEF Shape, Answer, TypeOK, sc
  <2>2. CASE FollowEdge
    BY <2>2 DEF FollowEdge, ByEdges, TypeOK, sc
  <2>3. CASE HoldPoint
    BY <2>3 DEF HoldPoint, ByPoints, TypeOK, sc
  <2>4. CASE FixLeaf
    BY <2>4 DEF FixLeaf, ByKeys, TypeOK, sc
  <2>5. CASE Judge
    BY <2>5 DEF Judge, Answer, TypeOK, sc
  <2>6. CASE UNCHANGED vars
    BY <2>6 DEF vars, TypeOK, sc
  <2> QED
    BY <2>1, <2>2, <2>3, <2>4, <2>5, <2>6 DEF Next
<1> QED
  BY <1>1, <1>2, PTL DEF Spec
-----------------------------------------------------------------------------
(***************************************************************************)
(* The fixpoint: what the rules arrive at does not depend on their order.  *)
(***************************************************************************)

\* K, S and P are within any sets that hold what is fixed and are closed under the rules.
WithinClosed(K, S, P) ==
  \A L, T, Q :
    sc.fixed \subseteq L /\ Closed(L, T, Q) => K \subseteq L /\ S \subseteq T /\ P \subseteq Q

\* The rules have added nothing that is not in every closed set; a proof that ended with the
\* fixpoint ended closed.
FixInv ==
  /\ WithinClosed(known, single, pointIn)
  /\ pc \in {"start", "fixpoint", "done"}
  /\ pc = "done" /\ ~sc.single /\ ~sc.many /\ sc.leaves # {} => Closed(known, single, pointIn)

\* What is known stays known when more is.
LEMMA IsKnownMore ==
  ASSUME NEW c, NEW K, NEW S, NEW L, NEW T, K \subseteq L, S \subseteq T, IsKnown(c, K, S)
  PROVE  IsKnown(c, L, T)
  BY DEF IsKnown

\* A leaf stays single when more is known.
LEMMA LeafSingleMore ==
  ASSUME NEW i, NEW K, NEW S, NEW P, NEW L, NEW T, NEW Q,
         K \subseteq L, S \subseteq T, P \subseteq Q, LeafSingle(i, K, S, P)
  PROVE  LeafSingle(i, L, T, Q)
<1>1. ASSUME NEW key \in sc.keys[i], KeyFixed(key, i, K, S, P) PROVE KeyFixed(key, i, L, T, Q)
  BY <1>1, IsKnownMore DEF KeyFixed
<1>2. Seeds(i, K, S) \subseteq Seeds(i, L, T)
  BY IsKnownMore DEF Seeds
<1> QED
  BY <1>1, <1>2 DEF LeafSingle

\* The rules are monotone.
LEMMA RulesMore ==
  ASSUME NEW K, NEW S, NEW P, NEW L, NEW T, NEW Q, K \subseteq L, S \subseteq T, P \subseteq Q
  PROVE  /\ ByEdges(K, S) \subseteq ByEdges(L, T)
         /\ ByPoints(K, S) \subseteq ByPoints(L, T)
         /\ ByKeys(K, S, P) \subseteq ByKeys(L, T, Q)
<1>1. ByEdges(K, S) \subseteq ByEdges(L, T)
  BY IsKnownMore DEF ByEdges
<1>2. ByPoints(K, S) \subseteq ByPoints(L, T)
  BY IsKnownMore DEF ByPoints
<1>3. ByKeys(K, S, P) \subseteq ByKeys(L, T, Q)
  BY LeafSingleMore DEF ByKeys
<1> QED
  BY <1>1, <1>2, <1>3

\* A step of a rule stays within the closed sets.
LEMMA WithinNext ==
  ASSUME WithinClosed(known, single, pointIn), FollowEdge \/ HoldPoint \/ FixLeaf
  PROVE  WithinClosed(known, single, pointIn)'
<1> SUFFICES ASSUME NEW L, NEW T, NEW Q, sc.fixed \subseteq L, Closed(L, T, Q)
             PROVE  known' \subseteq L /\ single' \subseteq T /\ pointIn' \subseteq Q
  <2>1. sc' = sc
    BY DEF FollowEdge, HoldPoint, FixLeaf, sc
  <2>2. \A L, T, Q : Closed(L, T, Q)' = Closed(L, T, Q)
    BY <2>1 DEF Closed, ByEdges, ByPoints, ByKeys, LeafSingle, KeyFixed, Seeds, Ambiguous, IsKnown
  <2> QED
    BY <2>1, <2>2 DEF WithinClosed
<1>1. known \subseteq L /\ single \subseteq T /\ pointIn \subseteq Q
  BY DEF WithinClosed
<1>2. /\ ByEdges(known, single) \subseteq L /\ ByPoints(known, single) \subseteq Q
      /\ ByKeys(known, single, pointIn) \subseteq T
  BY <1>1, RulesMore DEF Closed
<1> QED
  BY <1>1, <1>2 DEF FollowEdge, HoldPoint, FixLeaf

\* The order in which the rules are tried does not matter: the proof of a level ends with the
\* least sets that hold what its predicates fix and are closed under the rules (fixpoint).
THEOREM EndsWithLeast == Spec => []LeastClosed
<1>1. Init => FixInv
  BY DEF Init, FixInv, WithinClosed, sc
<1>2. FixInv /\ [Next]_vars => FixInv'
  <2> SUFFICES ASSUME FixInv, [Next]_vars PROVE FixInv'
    OBVIOUS
  <2>1. CASE Shape \/ Judge \/ UNCHANGED vars
    <3>1. /\ known' = known /\ single' = single /\ pointIn' = pointIn /\ sc' = sc
          /\ pc' \in {"start", "fixpoint", "done"}
      BY <2>1 DEF Shape, Judge, Answer, vars, FixInv, sc
    <3>2. /\ WithinClosed(known, single, pointIn)' = WithinClosed(known, single, pointIn)
          /\ Closed(known, single, pointIn)' = Closed(known, single, pointIn)
      BY <3>1 DEF WithinClosed, Closed, ByEdges, ByPoints, ByKeys, LeafSingle, KeyFixed, Seeds,
         Ambiguous, IsKnown
    <3>3. pc' = "done" /\ ~sc.single /\ ~sc.many /\ sc.leaves # {} =>
            Closed(known, single, pointIn)
      BY <2>1, <3>1 DEF Shape, Judge, Answer, vars, FixInv
    <3> QED
      BY <3>1, <3>2, <3>3 DEF FixInv
  <2>2. CASE FollowEdge \/ HoldPoint \/ FixLeaf
    BY <2>2, WithinNext DEF FollowEdge, HoldPoint, FixLeaf, FixInv
  <2> QED
    BY <2>1, <2>2 DEF Next
<1>3. FixInv => LeastClosed
  <2> SUFFICES ASSUME FixInv, pc = "done", ~sc.single, ~sc.many, sc.leaves # {},
                      NEW K \in SUBSET (known \ sc.fixed), NEW S \in SUBSET single,
                      NEW P \in SUBSET pointIn, Closed(sc.fixed \cup K, S, P)
               PROVE  known \subseteq sc.fixed \cup K /\ S = single
    BY DEF LeastClosed, FixInv
  <2> QED
    BY DEF FixInv, WithinClosed
<1> QED
  BY <1>1, <1>2, <1>3, PTL DEF Spec
=============================================================================
