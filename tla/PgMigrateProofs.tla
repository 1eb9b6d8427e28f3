--------------------------- MODULE PgMigrateProofs ---------------------------
(***************************************************************************)
(* Proofs about PgMigrate: the plan from a schema to itself, what any plan *)
(* drops, and what becomes of the values.  First what the operators that   *)
(* put a plan together do with sequences and finite sets; then that every  *)
(* phase of the plan from a schema to itself is nothing, and that every    *)
(* schema an author arrives at is one the argument holds for; then that    *)
(* what a phase of any plan drops is declared, or comes back; then what    *)
(* each statement does to a value, that the planner takes a column for     *)
(* the one the author means, and that the phases take its value there.     *)
(***************************************************************************)
EXTENDS PgMigrate, FiniteSetTheorems, WellFoundedInduction, TLAPS

(* sequences of sequences *)

\* A set of natural numbers has a least element: what the inductions below are made of.
LEMMA Smallest == ASSUME NEW T \in SUBSET Nat, T # {} PROVE \E m \in T : \A k \in T : m <= k
<1>1. PICK m \in T : \A y \in T : ~(<<y, m>> \in OpToRel(<, Nat))
  BY WFMin, NatLessThanWellFounded, Zenon
<1>2. \A y \in T : ~(y < m) BY <1>1 DEF OpToRel
<1> QED BY <1>2

\* Nothing, any number of times, is nothing.
LEMMA NothingFlat ==
  ASSUME NEW n \in Nat, NEW s, s = [i \in 1..n |-> <<>>]
  PROVE  FlattenSeq(s) = <<>>
<1>1. CASE n = 0
  <2>1. s = <<>> BY <1>1
  <2> QED BY <2>1 DEF FlattenSeq
<1>2. CASE n # 0
  <2> DEFINE Is(f) == f = [i \in 1..Len(s) |-> IF i = 1 THEN s[i] ELSE f[i-1] \o s[i]]
             g == CHOOSE f : Is(f)
  <2>1. s \in Seq({<<>>}) /\ Len(s) = n BY <1>2
  <2>2. Is([i \in 1..n |-> <<>>]) BY <2>1, <1>2
  <2>3. Is(g) BY <2>2
  <2> DEFINE T == {i \in 1..n : g[i] # <<>>}
  <2>4. T = {}
    <3> SUFFICES ASSUME T # {} PROVE FALSE OBVIOUS
    <3>1. PICK m \in T : \A k \in T : m <= k BY Smallest
    <3> QED BY <3>1, <2>1, <2>3
  <2> HIDE DEF Is, g
  <2>5. g[n] = <<>> BY <2>4, <1>2
  <2>6. FlattenSeq(s) = g[n] BY <2>1, <1>2 DEF FlattenSeq, g, Is
  <2> QED BY <2>5, <2>6
<1> QED BY <1>1, <1>2

\* No sequences are nothing.
LEMMA NoneFlat == ASSUME NEW s, s = [i \in {} |-> s[i]] PROVE FlattenSeq(s) = <<>>
<1>1. s = [i \in 1..0 |-> <<>>] OBVIOUS
<1> QED BY <1>1, NothingFlat

\* What FlattenSeq makes of n sequences, step by step.
FlatBy(f, n, s) == f[1] = s[1] /\ f[n] = FlattenSeq(s) /\ \A i \in 2..n : f[i] = f[i-1] \o s[i]

\* Any number of sequences one after another are so many steps.
LEMMA FlatSteps ==
  ASSUME NEW A, NEW n \in Nat, n # 0, NEW s \in [1..n -> Seq(A)]
  PROVE  \E f \in [1..n -> Seq(A)] : FlatBy(f, n, s)
<1>0. s \in Seq(Seq(A)) /\ Len(s) = n OBVIOUS
<1> DEFINE Upto(f, k) == /\ f \in [1..k -> Seq(A)]
                         /\ \A i \in 1..k : f[i] = IF i = 1 THEN s[i] ELSE f[i-1] \o s[i]
           T == {k \in 1..n : ~\E f : Upto(f, k)}
<1>1. T = {}
  <2> SUFFICES ASSUME T # {} PROVE FALSE OBVIOUS
  <2>1. T \in SUBSET Nat OBVIOUS
  <2> HIDE DEF T
  <2>2. PICK m \in T : \A k \in T : m <= k BY <2>1, Smallest
  <2> USE DEF T
  <2>3. m \in 1..n BY <2>2
  <2>4. CASE m = 1
    <3> DEFINE one == [i \in 1..1 |-> s[1]]
    <3>1. one \in [1..1 -> Seq(A)] /\ \A i \in 1..1 : one[i] = s[i] OBVIOUS
    <3>2. Upto(one, 1) BY <3>1
    <3> HIDE DEF one, Upto
    <3> QED BY <3>2, <2>2, <2>4
  <2>5. CASE m # 1
    <3>1. m - 1 \in 1..n /\ m - 1 \notin T
      <4> HIDE DEF T
      <4> QED BY <2>2, <2>3, <2>5
    <3>2. PICK f : Upto(f, m - 1)
      <4> HIDE DEF Upto
      <4> QED BY <3>1
    <3> DEFINE h == [i \in 1..m |-> IF i = m THEN f[m-1] \o s[m] ELSE f[i]]
    <3>3. f[m-1] \in Seq(A) /\ s[m] \in Seq(A) BY <3>2, <3>1, <2>3
    <3>4. f[m-1] \o s[m] \in Seq(A) BY <3>3
    <3>5. h \in [1..m -> Seq(A)] BY <3>2, <3>4, <2>3
    <3>6. \A i \in 1..m : h[i] = IF i = 1 THEN s[i] ELSE h[i-1] \o s[i]
      <4> TAKE i \in 1..m
      <4>1. CASE i = m
        <5>1. m - 1 \in 1..m /\ m - 1 # m /\ m \in 1..m BY <2>3, <2>5
        <5>2. h[m-1] = f[m-1] /\ h[m] = f[m-1] \o s[m] BY <5>1
        <5> QED BY <4>1, <5>2, <2>5
      <4>2. CASE i # m
        <5>1. i \in 1..m-1 /\ (i # 1 => i - 1 \in 1..m-1 /\ i - 1 # m) BY <4>2, <2>3
        <5>2. f[i] = IF i = 1 THEN s[i] ELSE f[i-1] \o s[i] BY <5>1, <3>2
        <5>3. h[i] = f[i] /\ (i # 1 => h[i-1] = f[i-1]) BY <5>1, <4>2, <2>3
        <5> QED BY <5>2, <5>3
      <4> QED BY <4>1, <4>2
    <3>7. Upto(h, m) BY <3>5, <3>6
    <3> HIDE DEF h, Upto
    <3> QED BY <3>7, <2>2
  <2> QED BY <2>4, <2>5
<1>2. PICK f : Upto(f, n)
  <2> HIDE DEF Upto
  <2>1. n \in 1..n /\ n \notin T
    <3> HIDE DEF T
    <3> QED BY <1>1
  <2> QED BY <2>1
<1> DEFINE Is(g) == g = [i \in 1..Len(s) |-> IF i = 1 THEN s[i] ELSE g[i-1] \o s[i]]
           e == CHOOSE g : Is(g)
<1>3. Is(f) BY <1>2, <1>0
<1>4. Is(e) BY <1>3
<1>5. FlattenSeq(s) = e[n] BY <1>0 DEF FlattenSeq
<1> DEFINE U == {i \in 1..n : e[i] # f[i]}
<1>6. U = {}
  <2> SUFFICES ASSUME U # {} PROVE FALSE OBVIOUS
  <2>1. U \in SUBSET Nat
    <3> HIDE DEF e
    <3> QED OBVIOUS
  <2> HIDE DEF U
  <2>2. PICK m \in U : \A k \in U : m <= k BY <2>1, Smallest
  <2>3. m \in 1..n /\ e[m] # f[m] BY <2>2 DEF U
  <2>4. e[m] = (IF m = 1 THEN s[m] ELSE e[m-1] \o s[m]) /\ f[m] = (IF m = 1 THEN s[m] ELSE f[m-1] \o s[m])
    BY <1>3, <1>4, <1>0, <2>3
  <2> HIDE DEF e
  <2>5. m # 1 => m - 1 \in 1..n /\ m - 1 \notin U BY <2>2, <2>3
  <2>6. m # 1 => e[m-1] = f[m-1] BY <2>5 DEF U
  <2> QED BY <2>3, <2>4, <2>6
<1> HIDE DEF e, Is
<1>7. f[n] = FlattenSeq(s) BY <1>5, <1>6
<1>8. f[1] = s[1] /\ \A i \in 2..n : f[i] = f[i-1] \o s[i]
  <2>1. \A i \in 1..n : f[i] = IF i = 1 THEN s[i] ELSE f[i-1] \o s[i] BY <1>2
  <2>2. 1 \in 1..n /\ \A i \in 2..n : i \in 1..n /\ i # 1 OBVIOUS
  <2> QED BY <2>1, <2>2
<1> QED BY <1>2, <1>7, <1>8 DEF FlatBy

\* Sequences over one set, one after the other, are a sequence over that set.
LEMMA FlatIn ==
  ASSUME NEW A, NEW n \in Nat, NEW s \in [1..n -> Seq(A)]
  PROVE  FlattenSeq(s) \in Seq(A)
<1>1. CASE n = 0
  <2>1. s = [i \in {} |-> s[i]] BY <1>1
  <2>2. FlattenSeq(s) = <<>> BY <2>1, NoneFlat
  <2> QED BY <2>2
<1>2. CASE n # 0
  <2>1. PICK f \in [1..n -> Seq(A)] : FlatBy(f, n, s) BY <1>2, FlatSteps
  <2> QED BY <2>1, <1>2 DEF FlatBy
<1> QED BY <1>1, <1>2

\* A sequence is one over what is in it.
LEMMA SeqOfItsOwn == ASSUME NEW A, NEW s \in Seq(A) PROVE s \in Seq(ToSet(s)) /\ ToSet(s) \subseteq A
<1>1. DOMAIN s = 1..Len(s) /\ Len(s) \in Nat OBVIOUS
<1>2. \A i \in 1..Len(s) : s[i] \in ToSet(s) BY <1>1 DEF ToSet
<1>3. s \in [1..Len(s) -> ToSet(s)] BY <1>1, <1>2
<1>4. ToSet(s) \subseteq A BY <1>1 DEF ToSet
<1> QED BY <1>1, <1>3, <1>4

\* One sequence after another: what is in it.
LEMMA ConcatSet ==
  ASSUME NEW a, a \in Seq(ToSet(a)), NEW b, b \in Seq(ToSet(b))
  PROVE  a \o b \in Seq(ToSet(a \o b)) /\ ToSet(a \o b) = ToSet(a) \cup ToSet(b)
<1> DEFINE A == ToSet(a) \cup ToSet(b)
           c == a \o b
<1>1. a \in Seq(A) /\ b \in Seq(A) OBVIOUS
<1>2. c \in Seq(A) /\ Len(c) = Len(a) + Len(b)
  <2> HIDE DEF A
  <2> QED BY <1>1
<1>3. \A i \in 1..Len(a) : c[i] = a[i]
  <2> HIDE DEF A
  <2> QED BY <1>1
<1>4. \A i \in 1..Len(b) : c[Len(a) + i] = b[i]
  <2> HIDE DEF A
  <2> QED BY <1>1
<1>5. DOMAIN a = 1..Len(a) /\ DOMAIN b = 1..Len(b) /\ Len(a) \in Nat /\ Len(b) \in Nat OBVIOUS
<1>6. DOMAIN c = 1..Len(a) + Len(b)
  <2> HIDE DEF c, A
  <2> QED BY <1>2
<1> HIDE DEF c
<1>7. ToSet(c) \subseteq A BY <1>2, <1>6 DEF ToSet
<1>8. ToSet(a) \subseteq ToSet(c) BY <1>3, <1>5, <1>6 DEF ToSet
<1>9. ToSet(b) \subseteq ToSet(c)
  <2> SUFFICES ASSUME NEW i \in 1..Len(b) PROVE b[i] \in ToSet(c) BY <1>5 DEF ToSet
  <2>1. Len(a) + i \in DOMAIN c BY <1>5, <1>6
  <2> QED BY <2>1, <1>4 DEF ToSet
<1>10. c \in Seq(ToSet(c))
  <2> HIDE DEF A
  <2> QED BY <1>2, SeqOfItsOwn
<1> QED BY <1>7, <1>8, <1>9, <1>10 DEF c

\* One sequence after another: where what is.
LEMMA ConcatAt ==
  ASSUME NEW a, a \in Seq(ToSet(a)), NEW b, b \in Seq(ToSet(b)), NEW c, c = a \o b
  PROVE  /\ Len(a) \in Nat /\ Len(b) \in Nat
         /\ DOMAIN a = 1..Len(a) /\ DOMAIN b = 1..Len(b) /\ DOMAIN c = 1..Len(a) + Len(b)
         /\ \A i \in 1..Len(a) : c[i] = a[i]
         /\ \A i \in 1..Len(b) : c[Len(a) + i] = b[i]
<1> DEFINE A == ToSet(a) \cup ToSet(b)
<1>1. a \in Seq(A) /\ b \in Seq(A) OBVIOUS
<1> HIDE DEF A
<1>2. c \in Seq(A) /\ Len(c) = Len(a) + Len(b) BY <1>1
<1>3. \A i \in 1..Len(a) : c[i] = a[i] BY <1>1
<1>4. \A i \in 1..Len(b) : c[Len(a) + i] = b[i] BY <1>1
<1>5. DOMAIN a = 1..Len(a) /\ DOMAIN b = 1..Len(b) /\ Len(a) \in Nat /\ Len(b) \in Nat OBVIOUS
<1>6. DOMAIN c = 1..Len(a) + Len(b) BY <1>2
<1> QED BY <1>3, <1>4, <1>5, <1>6

\* Two, one after the other.
LEMMA PairIs == \A x, y : <<x, y>> = <<x>> \o <<y>>
<1> SUFFICES ASSUME NEW x, NEW y PROVE <<x, y>> = <<x>> \o <<y>> OBVIOUS
<1> DEFINE A == {x, y}
           c == <<x>> \o <<y>>
<1>1. x \in A /\ y \in A OBVIOUS
<1> HIDE DEF A
<1>2. c \in Seq(A) /\ Len(c) = 2 /\ c[1] = x /\ c[2] = y BY <1>1
<1>3. <<x, y>> \in Seq(A) /\ Len(<<x, y>>) = 2 BY <1>1
<1> HIDE DEF c
<1>4. <<x, y>> = c BY <1>2, <1>3
<1> QED BY <1>4 DEF c

\* Some sequences, one after another: what is in it.
LEMMA FlatSet ==
  ASSUME NEW n \in Nat, NEW s, s = [i \in 1..n |-> s[i]], \A i \in 1..n : s[i] \in Seq(ToSet(s[i]))
  PROVE  /\ FlattenSeq(s) \in Seq(ToSet(FlattenSeq(s)))
         /\ \A x : x \in ToSet(FlattenSeq(s)) <=> \E i \in 1..n : x \in ToSet(s[i])
<1>1. CASE n = 0
  <2>1. s = [i \in {} |-> s[i]] BY <1>1
  <2>2. FlattenSeq(s) = <<>> BY <2>1, NoneFlat
  <2>3. ToSet(<<>>) = {} /\ <<>> \in Seq({}) BY DEF ToSet
  <2>4. ToSet(FlattenSeq(s)) = {} /\ FlattenSeq(s) \in Seq(ToSet(FlattenSeq(s))) BY <2>2, <2>3
  <2> QED BY <2>4, <1>1
<1>2. CASE n # 0
  <2>1. PICK A : s \in [1..n -> Seq(A)]
    <3>1. s \in [1..n -> Seq(UNION {ToSet(s[i]) : i \in 1..n})]
      <4>1. \A i \in 1..n : s[i] \in Seq(UNION {ToSet(s[j]) : j \in 1..n}) OBVIOUS
      <4> QED BY <4>1
    <3> QED BY <3>1
  <2>2. PICK f \in [1..n -> Seq(A)] : FlatBy(f, n, s) BY <2>1, <1>2, FlatSteps
  <2> DEFINE Here(k) == f[k] \in Seq(ToSet(f[k])) /\ \A x : x \in ToSet(f[k]) <=> \E i \in 1..k : x \in ToSet(s[i])
             T == {k \in 1..n : ~Here(k)}
  <2>3. T = {}
    <3> SUFFICES ASSUME T # {} PROVE FALSE OBVIOUS
    <3>1. T \in SUBSET Nat
      <4> HIDE DEF Here
      <4> QED OBVIOUS
    <3> HIDE DEF T
    <3>2. PICK m \in T : \A k \in T : m <= k BY <3>1, Smallest
    <3>3. m \in 1..n /\ ~Here(m)
      <4> HIDE DEF Here
      <4> QED BY <3>2 DEF T
    <3>4. CASE m = 1
      <4>1. f[1] \in Seq(ToSet(f[1])) BY <2>2, <3>3, <3>4 DEF FlatBy
      <4> QED BY <4>1, <2>2, <3>3, <3>4 DEF FlatBy
    <3>5. CASE m # 1
      <4>1. m - 1 \in 1..n /\ m - 1 \notin T /\ m \in 2..n BY <3>2, <3>3, <3>5
      <4>2. Here(m - 1)
        <5> HIDE DEF Here
        <5> QED BY <4>1 DEF T
      <4>3. f[m] = f[m-1] \o s[m] BY <4>1, <2>2 DEF FlatBy
      <4>4. f[m] \in Seq(ToSet(f[m])) /\ ToSet(f[m]) = ToSet(f[m-1]) \cup ToSet(s[m])
        <5> DEFINE a == f[m-1]
                   b == s[m]
        <5>1. a \in Seq(ToSet(a)) /\ b \in Seq(ToSet(b)) BY <4>2, <3>3
        <5> HIDE DEF a, b, Here
        <5>2. a \o b \in Seq(ToSet(a \o b)) /\ ToSet(a \o b) = ToSet(a) \cup ToSet(b) BY <5>1, ConcatSet
        <5> QED BY <5>2, <4>3 DEF a, b
      <4>5. \A i : i \in 1..m <=> i \in 1..m-1 \/ i = m BY <3>3
      <4>6. \A x : x \in ToSet(f[m-1]) <=> \E i \in 1..m-1 : x \in ToSet(s[i]) BY <4>2
      <4>7. \A x : x \in ToSet(f[m]) <=> \E i \in 1..m : x \in ToSet(s[i])
        <5> HIDE DEF Here
        <5> QED BY <4>4, <4>5, <4>6
      <4>8. Here(m) BY <4>4, <4>7
      <4> HIDE DEF Here
      <4> QED BY <4>8, <3>3
    <3> QED BY <3>4, <3>5
  <2>4. Here(n)
    <3> HIDE DEF Here
    <3> QED BY <2>3, <1>2
  <2> QED BY <2>2, <2>4 DEF FlatBy
<1> QED BY <1>1, <1>2

-----------------------------------------------------------------------------
(* a set, one element after another *)

\* f lists every part of S, taking from what is left the element that pick picks.
ListBy(f, S, pick) == f = [P \in SUBSET S |-> IF P = {} THEN <<>> ELSE <<pick[P]>> \o f[P \ {pick[P]}]]

\* There is such a listing of a finite set, and of each of its parts.
LEMMA ListExists ==
  ASSUME NEW S, IsFiniteSet(S), NEW pick, \A P \in SUBSET S : P # {} => pick[P] \in P
  PROVE  \E f : ListBy(f, S, pick)
<1> DEFINE List(f, P) == IF P = {} THEN <<>> ELSE <<pick[P]>> \o f[P \ {pick[P]}]
           Upto(f, k) == /\ f = [P \in SUBSET S |-> f[P]]
                         /\ \A P \in SUBSET S : Cardinality(P) <= k => f[P] = List(f, P)
           T == {k \in Nat : ~\E f : Upto(f, k)}
<1>0. \A P \in SUBSET S : IsFiniteSet(P) /\ Cardinality(P) \in Nat /\ Cardinality(P) <= Cardinality(S)
  BY FS_Subset, FS_CardinalityType
<1>1. T = {}
  <2> SUFFICES ASSUME T # {} PROVE FALSE OBVIOUS
  <2>1. T \in SUBSET Nat
    <3> HIDE DEF Upto
    <3> QED OBVIOUS
  <2> HIDE DEF T
  <2>2. PICK m \in T : \A k \in T : m <= k BY <2>1, Smallest
  <2>3. m \in Nat /\ ~\E f : Upto(f, m)
    <3> HIDE DEF Upto
    <3> QED BY <2>2 DEF T
  <2>4. CASE m = 0
    <3> DEFINE h == [P \in SUBSET S |-> <<>>]
    <3>1. \A P \in SUBSET S : Cardinality(P) <= 0 => P = {} BY <1>0, FS_EmptySet
    <3>2. Upto(h, 0) BY <3>1
    <3> HIDE DEF Upto, h
    <3> QED BY <2>3, <2>4, <3>2
  <2>5. CASE m # 0
    <3>1. m - 1 \in Nat /\ m - 1 \notin T BY <2>2, <2>3, <2>5
    <3>2. PICK f : Upto(f, m - 1)
      <4> HIDE DEF Upto
      <4> QED BY <3>1 DEF T
    <3> DEFINE h == [P \in SUBSET S |-> List(f, P)]
    <3>3. ASSUME NEW P \in SUBSET S, Cardinality(P) <= m
          PROVE  List(f, P) = List(h, P)
      <4>1. CASE P = {} BY <4>1
      <4>2. CASE P # {}
        <5> DEFINE Q == P \ {pick[P]}
        <5>1. pick[P] \in P /\ Q \in SUBSET S BY <4>2
        <5>2. Cardinality(Q) <= m - 1 BY <5>1, <1>0, <3>3, <2>3, FS_RemoveElement
        <5>3. f[Q] = List(f, Q) BY <5>1, <5>2, <3>2
        <5>4. h[Q] = List(f, Q) BY <5>1
        <5> HIDE DEF h, Q, Upto
        <5>5. f[Q] = h[Q] BY <5>3, <5>4
        <5> QED BY <5>5, <4>2 DEF Q
      <4> QED BY <4>1, <4>2
    <3>4. \A P \in SUBSET S : h[P] = List(f, P) OBVIOUS
    <3>5. h = [P \in SUBSET S |-> h[P]] OBVIOUS
    <3> HIDE DEF h, List
    <3>6. Upto(h, m) BY <3>3, <3>4, <3>5
    <3> HIDE DEF Upto
    <3> QED BY <2>3, <3>6
  <2> QED BY <2>4, <2>5
<1>2. Cardinality(S) \in Nat BY FS_CardinalityType
<1>3. PICK f : Upto(f, Cardinality(S))
  <2> HIDE DEF Upto
  <2> QED BY <1>1, <1>2
<1>4. \A P \in SUBSET S : f[P] = List(f, P)
  <2> HIDE DEF List
  <2> QED BY <1>0, <1>3
<1>5. f = [P \in SUBSET S |-> List(f, P)] BY <1>3, <1>4
<1> QED BY <1>5 DEF ListBy

\* It lists what is in the part, all of it and nothing else.
LEMMA ListsAll ==
  ASSUME NEW S, IsFiniteSet(S), NEW pick, \A P \in SUBSET S : P # {} => pick[P] \in P,
         NEW f, ListBy(f, S, pick)
  PROVE  \A P \in SUBSET S : f[P] \in Seq(ToSet(f[P])) /\ ToSet(f[P]) = P
<1> DEFINE Here(P) == f[P] \in Seq(ToSet(f[P])) /\ ToSet(f[P]) = P
           T == {k \in Nat : \E P \in SUBSET S : Cardinality(P) = k /\ ~Here(P)}
<1>0. \A P \in SUBSET S : IsFiniteSet(P) /\ Cardinality(P) \in Nat
  BY FS_Subset, FS_CardinalityType
<1>1. T = {}
  <2> SUFFICES ASSUME T # {} PROVE FALSE OBVIOUS
  <2>1. T \in SUBSET Nat
    <3> HIDE DEF Here
    <3> QED OBVIOUS
  <2> HIDE DEF T
  <2>2. PICK m \in T : \A k \in T : m <= k BY <2>1, Smallest
  <2>3. PICK P \in SUBSET S : Cardinality(P) = m /\ ~Here(P)
    <3> HIDE DEF Here
    <3> QED BY <2>2 DEF T
  <2>4. CASE P = {}
    <3>1. f[P] = <<>> BY <2>4 DEF ListBy
    <3>2. ToSet(<<>>) = {} /\ <<>> \in Seq({}) BY DEF ToSet
    <3> QED BY <2>3, <2>4, <3>1, <3>2
  <2>5. CASE P # {}
    <3> DEFINE x == pick[P]
               Q == P \ {x}
    <3>1. x \in P /\ Q \in SUBSET S BY <2>5
    <3>2. f[P] = <<x>> \o f[Q] BY <2>5 DEF ListBy
    <3> HIDE DEF x, Q
    <3>3. Cardinality(Q) = m - 1 /\ Cardinality(Q) \in Nat BY <3>1, <2>3, <1>0, FS_RemoveElement DEF Q
    <3>4. Cardinality(Q) \notin T BY <3>3, <2>2, <2>1
    <3>5. Here(Q)
      <4> HIDE DEF Here
      <4> QED BY <3>1, <3>3, <3>4 DEF T
    <3>6. <<x>> \in Seq(ToSet(<<x>>)) /\ ToSet(<<x>>) = {x} BY DEF ToSet
    <3>7. f[P] \in Seq(ToSet(f[P])) /\ ToSet(f[P]) = {x} \cup Q BY <3>2, <3>5, <3>6, ConcatSet
    <3>8. {x} \cup Q = P BY <3>1 DEF Q
    <3> QED BY <3>7, <3>8, <2>3
  <2> QED BY <2>4, <2>5
<1>2. \A P \in SUBSET S : Cardinality(P) \in Nat /\ Cardinality(P) \notin T
  <2> HIDE DEF T
  <2> QED BY <1>0, <1>1
<1>3. \A P \in SUBSET S : Here(P)
  <2> HIDE DEF Here
  <2> QED BY <1>2
<1> QED BY <1>3

\* The whole of a finite set is listed.
LEMMA ListsWhole ==
  ASSUME NEW S, IsFiniteSet(S), NEW pick, \A P \in SUBSET S : P # {} => pick[P] \in P,
         NEW f, ListBy(f, S, pick)
  PROVE  f[S] \in Seq(S)
<1>1. S \in SUBSET S OBVIOUS
<1>2. \A P \in SUBSET S : f[P] \in Seq(ToSet(f[P])) /\ ToSet(f[P]) = P BY ListsAll, Zenon
<1>3. f[S] \in Seq(ToSet(f[S])) /\ ToSet(f[S]) = S BY <1>1, <1>2
<1> QED BY <1>3

\* Listed lists the elements of a finite set.
LEMMA ListedIs ==
  ASSUME NEW S, IsFiniteSet(S)
  PROVE  Listed(S) \in Seq(ToSet(Listed(S))) /\ ToSet(Listed(S)) = S
<1> DEFINE pick == [P \in SUBSET S |-> CHOOSE x \in P : TRUE]
           e == CHOOSE f : ListBy(f, S, pick)
<1>1. \A P \in SUBSET S : P # {} => pick[P] \in P OBVIOUS
<1>2. ListBy(e, S, pick)
  <2> HIDE DEF pick
  <2> QED BY <1>1, ListExists
<1>3. Listed(S) = e[S] BY DEF Listed, FoldSet, MapThenFoldSet, ListBy
<1> HIDE DEF e, pick
<1>4. S \in SUBSET S OBVIOUS
<1>5. \A P \in SUBSET S : e[P] \in Seq(ToSet(e[P])) /\ ToSet(e[P]) = P
  BY <1>1, <1>2, ListsAll, Zenon
<1> QED BY <1>3, <1>4, <1>5, Zenon

\* What a function makes of finitely many is finitely many.
LEMMA FiniteImage == ASSUME NEW S, IsFiniteSet(S), NEW f PROVE IsFiniteSet({f[x] : x \in S})
<1> DEFINE g == [x \in S |-> f[x]]
           T == {f[x] : x \in S}
<1>1. g \in Surjection(S, T) BY DEF Surjection
<1> QED BY <1>1, FS_Surjection

\* What is in a sequence is finitely many.
LEMMA ToSetFinite == ASSUME NEW A, NEW s \in Seq(A) PROVE IsFiniteSet(ToSet(s))
<1>1. DOMAIN s = 1..Len(s) /\ Len(s) \in Nat OBVIOUS
<1>2. s \in Surjection(1..Len(s), ToSet(s)) BY <1>1 DEF Surjection, ToSet
<1>3. IsFiniteSet(1..Len(s)) BY <1>1, FS_Interval
<1> QED BY <1>2, <1>3, FS_Surjection

\* To list nothing.
LEMMA ListedNone == ASSUME NEW S, S = {} PROVE DOMAIN Listed(S) = {}
<1>1. Listed(S) = <<>> BY DEF Listed, FoldSet, MapThenFoldSet
<1> QED BY <1>1
-----------------------------------------------------------------------------
(* the orders of a plan *)

\* What is put in an order is what there was.
LEMMA OrderedIn ==
  ASSUME NEW A, NEW order \in Seq(A), NEW S
  PROVE  Ordered(order, S) \in Seq(S)
<1> DEFINE s == [i \in DOMAIN order |-> When(order[i] \in S, <<order[i]>>)]
<1>1. s \in [1..Len(order) -> Seq(S)]
  <2>1. DOMAIN order = 1..Len(order) OBVIOUS
  <2>2. \A i \in DOMAIN order : When(order[i] \in S, <<order[i]>>) \in Seq(S) BY DEF When
  <2> QED BY <2>1, <2>2
<1>2. FlattenSeq(s) \in Seq(S)
  <2> HIDE DEF s
  <2> QED BY <1>1, FlatIn
<1> QED BY <1>2 DEF Ordered, InTurn

\* An order has what there is of it in the set.
LEMMA OrderedIs ==
  ASSUME NEW A, NEW order \in Seq(A), NEW S
  PROVE  ToSet(Ordered(order, S)) = ToSet(order) \cap S
<1> DEFINE s == [i \in DOMAIN order |-> When(order[i] \in S, <<order[i]>>)]
<1>1. DOMAIN order = 1..Len(order) /\ Len(order) \in Nat OBVIOUS
<1>2. \A i \in DOMAIN order : /\ s[i] \in Seq(ToSet(s[i]))
                              /\ ToSet(s[i]) = IF order[i] \in S THEN {order[i]} ELSE {}
  <2>1. \A x : <<x>> \in Seq(ToSet(<<x>>)) /\ ToSet(<<x>>) = {x} BY DEF ToSet
  <2>2. <<>> \in Seq(ToSet(<<>>)) /\ ToSet(<<>>) = {} BY DEF ToSet
  <2> QED BY <2>1, <2>2 DEF When
<1>3. s = [i \in 1..Len(order) |-> s[i]] BY <1>1
<1> HIDE DEF s
<1>4. \A x : x \in ToSet(FlattenSeq(s)) <=> \E i \in 1..Len(order) : x \in ToSet(s[i])
  BY <1>1, <1>2, <1>3, FlatSet
<1>5. \A i \in DOMAIN order : \A x : x \in ToSet(s[i]) <=> x = order[i] /\ order[i] \in S BY <1>2
<1>6. ToSet(order) = {order[i] : i \in 1..Len(order)} BY <1>1 DEF ToSet
<1>7. \A x : x \in ToSet(FlattenSeq(s)) <=> \E i \in 1..Len(order) : x = order[i] /\ order[i] \in S
  BY <1>1, <1>4, <1>5
<1>8. \A x : x \in ToSet(FlattenSeq(s)) <=> x \in ToSet(order) /\ x \in S BY <1>6, <1>7
<1>9. ToSet(FlattenSeq(s)) = ToSet(order) \cap S BY <1>8
<1> QED BY <1>9 DEF Ordered, InTurn, s

\* Columns put in the order of their declaration are those there were.
LEMMA InOrderIn ==
  ASSUME NEW S
  PROVE  InOrder(S) \in Seq(S)
<1> DEFINE s == [i \in DOMAIN ColumnOrder |->
                   When(\E c \in S : c.name = ColumnOrder[i], <<CHOOSE c \in S : c.name = ColumnOrder[i]>>)]
<1>1. ASSUME NEW i \in DOMAIN ColumnOrder
      PROVE  s[i] \in Seq(S)
  <2>1. CASE \E c \in S : c.name = ColumnOrder[i]
    <3>1. (CHOOSE c \in S : c.name = ColumnOrder[i]) \in S BY <2>1
    <3> QED BY <2>1, <3>1 DEF When
  <2>2. CASE ~\E c \in S : c.name = ColumnOrder[i] BY <2>2 DEF When
  <2> QED BY <2>1, <2>2
<1>2. s \in [1..Len(ColumnOrder) -> Seq(S)]
  <2>1. DOMAIN ColumnOrder = 1..Len(ColumnOrder) BY OrderAssumption
  <2> QED BY <1>1, <2>1
<1>3. Len(ColumnOrder) \in Nat BY OrderAssumption
<1>4. FlattenSeq(s) \in Seq(S)
  <2> HIDE DEF s
  <2> QED BY <1>2, <1>3, FlatIn
<1> QED BY <1>4 DEF InOrder, InTurn

\* An order in which the computed columns come last has what there was.
LEMMA ReadsLastIn == ASSUME NEW S PROVE ReadsLast(S) \in Seq(S)
<1>1. \A T \in SUBSET S : InOrder(T) \in Seq(S) BY InOrderIn
<1> QED BY <1>1 DEF ReadsLast

\* No columns, in whatever order, are none.
LEMMA NothingInOrder == ReadsLast({}) = <<>>
<1>1. InOrder({}) = <<>> BY InOrderIn
<1> QED BY <1>1 DEF ReadsLast
-----------------------------------------------------------------------------
(* a planner of one schema and itself *)

\* A planner whose two schemas are one, and which no declaration tells anything of them.
Idle(p, s) ==
  /\ WellFormed(s) /\ p.from = s /\ p.to = s
  /\ p.relTo = {} /\ p.colTo = {} /\ ~p.enum

\* The declarations cannot rename what is there in both schemas, nor remove a label of both.
LEMMA PlannerIdle ==
  ASSUME NEW s, WellFormed(s), NEW ds
  PROVE  Idle(Planner(s, s, ds), s) /\ Planner(s, s, ds).list = ds
<1>1. {i \in ds : TableRenamed(s, s, i)} = {} BY DEF TableRenamed
<1>2. {i \in ds : ColumnRenamed(s, s, {}, i)} = {}
  <2> SUFFICES ASSUME NEW i \in ds, ColumnRenamed(s, s, {}, i) PROVE FALSE OBVIOUS
  <2>1. HasCol(s, i.col) /\ i.to[1] = i.col[1] /\ ~HasCol(s, <<i.to[1], i.col[2]>>)
    BY DEF ColumnRenamed, Image, Flipped
  <2>2. PICK c \in s.cols : i.col = <<c.rel, c.name>> BY <2>1 DEF HasCol
  <2>3. <<i.to[1], i.col[2]>> = i.col BY <2>1, <2>2
  <2> QED BY <2>1, <2>3
<1>3. ~Recreates(s, s, ds) BY DEF Recreates
<1> QED BY <1>1, <1>2, <1>3 DEF Planner, Idle

\* Every name is the same on both sides.
LEMMA NamesStay ==
  ASSUME NEW p, NEW s, Idle(p, s)
  PROVE  /\ \A r : ToName(p, r) = r /\ FromName(p, r) = r
         /\ \A r, n : ToCol(p, <<r, n>>) = <<r, n>> /\ FromCol(p, <<r, n>>) = <<r, n>>
  BY DEF Idle, ToName, FromName, ToCol, FromCol, Image, Flipped

\* Every table and column is continued as it is, and none is gone.
LEMMA AllContinue ==
  ASSUME NEW p, NEW s, Idle(p, s)
  PROVE  /\ Surviving(p) = s.tables /\ Continued(p) = s.tables
         /\ \A c \in s.cols : Continues(p, c) /\ Before(p, c) = c
         /\ \A r : Gone(p, r) = {}
<1>1. Surviving(p) = s.tables /\ Continued(p) = s.tables
  BY NamesStay DEF Surviving, Continued, Idle
<1>2. \A c \in s.cols : HasCol(s, <<c.rel, c.name>>) BY DEF HasCol
<1>3. ASSUME NEW c \in s.cols
      PROVE  Col(s, <<c.rel, c.name>>) = c
  <2>1. \A d \in s.cols : <<d.rel, d.name>> = <<c.rel, c.name>> => d = c
    BY DEF Idle, WellFormed, ColumnsFormed
  <2> QED BY <2>1 DEF Col
<1>4. ASSUME NEW c \in s.cols
      PROVE  Continues(p, c) /\ Before(p, c) = c
  <2>1. FromCol(p, <<c.rel, c.name>>) = <<c.rel, c.name>> BY NamesStay
  <2> QED BY <1>2, <1>3, <2>1 DEF Continues, Before, Idle
<1>5. \A r : Gone(p, r) = {} BY <1>2, NamesStay DEF Gone, Idle
<1> QED BY <1>1, <1>4, <1>5

\* No part of a table changes, none follows another, none is still to be added.
LEMMA PartsStay ==
  ASSUME NEW p, NEW s, Idle(p, s)
  PROVE  /\ \A kinds : ChangedParts(p, kinds) = {} /\ Missing(p, kinds) = {}
         /\ Following(p) = {}
<1>1. \A a \in s.parts : \A r : r = a.rel => Unchanged(a, s, r) BY DEF Unchanged, SameAs, PartsOf
<1>2. \A kinds : ChangedParts(p, kinds) = {} BY <1>1, NamesStay DEF ChangedParts, Idle
<1>3. Following(p) = {} BY <1>2 DEF Following
<1>4. Redone(p) = {} BY <1>3 DEF Redone
<1>5. \A kinds : Missing(p, kinds) = {} BY <1>1, <1>4, NamesStay DEF Missing, Idle
<1> QED BY <1>2, <1>3, <1>5

\* No column changes its type or its expression, and none is taken down.
LEMMA ColumnsStay ==
  ASSUME NEW p, NEW s, Idle(p, s), NEW c \in s.cols
  PROVE  ~Retyped(p, c) /\ ~ChangedExpr(p, c) /\ ~TakenDown(p, c, s.cols)
<1>1. \A d \in s.cols : ~Retyped(p, d) BY AllContinue DEF Retyped
<1>2. {ToCol(p, <<Before(p, c).rel, n>>)[2] : n \in Before(p, c).gen} = c.gen
  <2>1. Before(p, c) = c BY AllContinue
  <2>2. \A n : ToCol(p, <<c.rel, n>>) = <<c.rel, n>> BY NamesStay
  <2>3. \A n \in c.gen : ToCol(p, <<c.rel, n>>)[2] = n BY <2>2
  <2>4. {ToCol(p, <<c.rel, n>>)[2] : n \in c.gen} = c.gen BY <2>3
  <2> QED BY <2>1, <2>4
<1> QED BY <1>1, <1>2 DEF ChangedExpr, TakenDown

\* No view is taken down.
LEMMA ViewsStay ==
  ASSUME NEW p, NEW s, Idle(p, s)
  PROVE  /\ \A v \in Views(s) : View(s, v.name) = v /\ Stands(p, v)
         /\ StandingViews(p) = ViewNames(s)
<1>1. \A r : ~RewritesGenerated(p, r)
  BY ColumnsStay DEF RewritesGenerated, Idle
<1>2. Recreated(p) = {} BY <1>1 DEF Recreated, Idle
<1>3. ASSUME NEW v \in Views(s)
      PROVE  View(s, v.name) = v
  <2>1. \A w \in Views(s) : w.name = v.name => w = v
    BY DEF Idle, WellFormed, ViewsFormed, Views, ToSet
  <2> QED BY <2>1 DEF View
<1>4. \A v \in Views(s) : v.name \in ViewNames(s) BY DEF ViewNames
<1>5. \A v \in Views(s) : Stands(p, v) BY <1>2, <1>3, <1>4 DEF Stands, Idle
<1> QED BY <1>3, <1>5 DEF StandingViews, ViewNames, Idle

\* No backfill has anything to fill.
LEMMA NothingFilled ==
  ASSUME NEW p, NEW s, Idle(p, s)
  PROVE  Filling(p) = {}
<1> SUFFICES ASSUME NEW x, HasCol(s, x) PROVE BackfillStale(p, x) BY DEF Filling, Idle
<1>1. PICK c \in s.cols : x = <<c.rel, c.name>> BY DEF HasCol
<1>2. x[1] \in s.tables BY <1>1 DEF Idle, WellFormed, ColumnsFormed
<1>3. ~Touched(p, x[1]) BY <1>2 DEF Touched, Idle
<1>4. FromName(p, x[1]) = x[1] /\ FromCol(p, x) = x BY <1>1, NamesStay
<1> QED BY <1>3, <1>4 DEF BackfillStale, Idle
-----------------------------------------------------------------------------
(* its phases *)

\* Nothing is dropped,
LEMMA DropsNothing ==
  ASSUME NEW p, NEW s, Idle(p, s)
  PROVE  Drops(p) = <<>>
<1>1. \A kinds : Each(ChangedParts(p, kinds), DropPart) = <<>>
  <2>1. \A kinds : ChangedParts(p, kinds) = {} BY PartsStay
  <2> QED BY <2>1, ListedNone, NoneFlat DEF Each, InTurn
<1>2. Each(Following(p), DropPart) = <<>>
  <2>1. Following(p) = {} BY PartsStay
  <2> QED BY <2>1, ListedNone, NoneFlat DEF Each, InTurn
<1>3. InTurn(Reverse(p.from.views), LAMBDA v : DropView(p, v)) = <<>>
  <2> DEFINE order == Reverse(p.from.views)
             all == [i \in DOMAIN order |-> DropView(p, order[i])]
  <2>1. p.from.views \in Seq(Views(s)) BY DEF Idle, WellFormed, ViewsFormed, Views
  <2>2. order \in Seq(Views(s)) BY <2>1 DEF Reverse
  <2>3. all = [i \in 1..Len(order) |-> <<>>]
    <3>1. \A v \in Views(s) : DropView(p, v) = <<>> BY ViewsStay DEF DropView, When
    <3> HIDE DEF order
    <3> QED BY <3>1, <2>2
  <2>4. FlattenSeq(all) = <<>>
    <3> HIDE DEF all, order
    <3> QED BY <2>2, <2>3, NothingFlat
  <2> QED BY <2>4 DEF InTurn
<1>4. InTurn(Ordered(RelationOrder, Surviving(p)), LAMBDA r : DropColumns(p, r)) = <<>>
  <2> DEFINE order == Ordered(RelationOrder, Surviving(p))
             all == [i \in DOMAIN order |-> DropColumns(p, order[i])]
  <2>1. ASSUME NEW r
        PROVE  DropColumns(p, r) = <<>>
    <3>1. ReadsLast(Gone(p, r)) = <<>> BY AllContinue, NothingInOrder
    <3>2. DOMAIN Reverse(ReadsLast(Gone(p, r))) = {} BY <3>1 DEF Reverse
    <3> DEFINE none == [i \in DOMAIN Reverse(ReadsLast(Gone(p, r))) |->
                          DropColumn(<<r, Reverse(ReadsLast(Gone(p, r)))[i].name>>)]
    <3>3. FlattenSeq(none) = <<>>
      <4>1. none = [i \in {} |-> none[i]] BY <3>2
      <4> HIDE DEF none
      <4> QED BY <4>1, NoneFlat
    <3> QED BY <3>3 DEF DropColumns, InTurn
  <2>2. order \in Seq(Surviving(p)) BY OrderedIn, OrderAssumption
  <2>3. all = [i \in 1..Len(order) |-> <<>>]
    <3> HIDE DEF order
    <3> QED BY <2>1, <2>2
  <2>4. FlattenSeq(all) = <<>>
    <3> HIDE DEF all, order
    <3> QED BY <2>2, <2>3, NothingFlat
  <2> QED BY <2>4 DEF InTurn
<1>5. InTurn(FkOrder(p.from, p.from.tables \ Surviving(p)), DropTable) = <<>>
  <2> DEFINE order == FkOrder(p.from, p.from.tables \ Surviving(p))
             none == [i \in DOMAIN order |-> DropTable(order[i])]
  <2>1. p.from.tables \ Surviving(p) = {} BY AllContinue DEF Idle
  <2>2. FkOrder(p.from, {}) = <<>> BY DEF FkOrder
  <2>3. DOMAIN order = {}
    <3>1. order = <<>> BY <2>1, <2>2, Zenon
    <3> QED BY <3>1
  <2>4. FlattenSeq(none) = <<>>
    <3>1. none = [i \in {} |-> none[i]] BY <2>3
    <3> HIDE DEF none
    <3> QED BY <3>1, NoneFlat
  <2> QED BY <2>4 DEF InTurn
<1> QED BY <1>1, <1>2, <1>3, <1>4, <1>5 DEF Drops

\* nothing renamed,
LEMMA RenamesNothing ==
  ASSUME NEW p, NEW s, Idle(p, s)
  PROVE  Renames(p) = <<>>
<1>1. p.relTo = {} /\ p.colTo = {} BY DEF Idle
<1>2. Each(p.relTo, RenameTable) = <<>>
  BY <1>1, ListedNone, NoneFlat DEF Each, InTurn
<1>3. Each(p.colTo, RenameColumn) = <<>>
  BY <1>1, ListedNone, NoneFlat DEF Each, InTurn
<1> QED BY <1>2, <1>3 DEF Renames

\* nothing altered,
LEMMA AltersNothing ==
  ASSUME NEW p, NEW s, Idle(p, s)
  PROVE  Alters(p) = <<>>
<1>1. AlterType(p) = <<>>
  <2>1. p.to.labels \ p.from.labels = {} /\ p.from.labels \subseteq p.to.labels BY DEF Idle
  <2> QED BY <2>1, ListedNone, NoneFlat DEF AlterType, Each, InTurn
<1>2. ASSUME NEW c \in s.cols
      PROVE  AlterColumn(p, c) = <<>>
  <2>1. Before(p, c) = c BY AllContinue
  <2>2. ~Retyped(p, c) /\ ~Rewritten(p, c) BY ColumnsStay DEF Rewritten
  <2>3. When(Retyped(p, c), AlterColumnType(p, c)) = <<>> BY <2>2 DEF When
  <2>4. When(Before(p, c).default # c.default,
             Alter(IF c.default THEN "set_default" ELSE "drop_default", c)) = <<>>
    BY <2>1 DEF When
  <2>5. When(Before(p, c).notNull # c.notNull,
             IF c.notNull THEN Backfill(p, c) \o Alter("set_not_null", c) ELSE Alter("drop_not_null", c)) = <<>>
    BY <2>1 DEF When
  <2>6. When(Before(p, c).gen # {} /\ c.gen = {}, Alter("drop_expression", c)) = <<>> BY <2>1 DEF When
  <2>7. When(Rewritten(p, c), DropGenerated(p, c) \o AddGenerated(p, c)) = <<>> BY <2>2 DEF When
  <2>8. AlterColumn(p, c) = <<>> \o <<>> \o <<>> \o <<>> \o <<>>
    BY <2>3, <2>4, <2>5, <2>6, <2>7, Zenon DEF AlterColumn
  <2> QED BY <2>8
<1>3. \A cols : BackfillsLeft(p, cols) = <<>>
  <2>1. \A cols : {c \in cols : /\ <<c.rel, c.name>> \in Filling(p)
                                /\ ~(c.notNull /\ (Continues(p, c) => ~Before(p, c).notNull))} = {}
    BY NothingFilled
  <2> QED BY <2>1, ListedNone, NoneFlat DEF BackfillsLeft, Each, InTurn
<1>4. ASSUME NEW r
      PROVE  AlterTable(p, r) = <<>>
  <2> DEFINE old == {c \in ColumnsOf(p.to, r) : Continues(p, c)}
             order == InOrder(old)
             all == [i \in DOMAIN order |-> AlterColumn(p, order[i])]
  <2>1. old \subseteq s.cols BY DEF ColumnsOf, Idle
  <2>2. order \in Seq(old)
    <3> HIDE DEF old
    <3> QED BY InOrderIn
  <2>3. all = [i \in 1..Len(order) |-> <<>>]
    <3> HIDE DEF order, old
    <3> QED BY <2>1, <2>2, <1>2
  <2>4. FlattenSeq(all) = <<>>
    <3> HIDE DEF all, order, old
    <3> QED BY <2>2, <2>3, NothingFlat
  <2>5. BackfillsLeft(p, old) = <<>> BY <1>3
  <2> QED BY <2>4, <2>5 DEF InTurn, AlterTable
<1>5. InTurn(Ordered(RelationOrder, Continued(p)), LAMBDA r : AlterTable(p, r)) = <<>>
  <2> DEFINE order == Ordered(RelationOrder, Continued(p))
             all == [i \in DOMAIN order |-> AlterTable(p, order[i])]
  <2>1. order \in Seq(Continued(p)) BY OrderedIn, OrderAssumption
  <2>2. all = [i \in 1..Len(order) |-> <<>>]
    <3> HIDE DEF order
    <3> QED BY <2>1, <1>4
  <2>3. FlattenSeq(all) = <<>>
    <3> HIDE DEF all, order
    <3> QED BY <2>1, <2>2, NothingFlat
  <2> QED BY <2>3 DEF InTurn
<1> QED BY <1>1, <1>5 DEF Alters

\* and nothing added.
LEMMA AddsNothing ==
  ASSUME NEW p, NEW s, Idle(p, s)
  PROVE  Adds(p) = <<>>
<1>1. \A kinds : Each(Missing(p, kinds), AddPart) = <<>>
  BY PartsStay, ListedNone, NoneFlat DEF Each, InTurn
<1>2. ASSUME NEW r \in s.tables
      PROVE  AddRelation(p, r) = <<>>
  <2> DEFINE fresh == {c \in ColumnsOf(s, r) : ~Continues(p, c)}
  <2>1. fresh = {} BY AllContinue DEF ColumnsOf
  <2>2. InTurn(ReadsLast(fresh), LAMBDA c : AddColumn(p, c)) = <<>>
    <3> DEFINE none == [i \in DOMAIN ReadsLast(fresh) |-> AddColumn(p, ReadsLast(fresh)[i])]
    <3>1. DOMAIN ReadsLast(fresh) = {} BY <2>1, NothingInOrder
    <3>2. FlattenSeq(none) = <<>>
      <4>1. none = [i \in {} |-> none[i]] BY <3>1
      <4> HIDE DEF none
      <4> QED BY <4>1, NoneFlat
    <3> QED BY <3>2 DEF InTurn
  <2>3. BackfillsLeft(p, fresh) = <<>>
    <3>1. {c \in fresh : /\ <<c.rel, c.name>> \in Filling(p)
                         /\ ~(c.notNull /\ (Continues(p, c) => ~Before(p, c).notNull))} = {}
      BY <2>1
    <3> QED BY <3>1, ListedNone, NoneFlat DEF BackfillsLeft, Each, InTurn
  <2>4. r \in p.to.tables /\ r \in Continued(p) /\ p.to = s BY AllContinue DEF Idle
  <2> HIDE DEF fresh
  <2> QED BY <2>2, <2>3, <2>4 DEF AddRelation, fresh
<1>3. ASSUME NEW r \in ViewNames(s), r \notin s.tables
      PROVE  AddRelation(p, r) = <<>>
  <2>1. PICK v \in Views(s) : v.name = r BY DEF ViewNames
  <2>2. View(s, r) = v /\ r \in StandingViews(p) BY <2>1, ViewsStay
  <2> QED BY <2>1, <2>2, <1>3 DEF AddRelation, When, Idle
<1>4. InTurn(Ordered(RelationOrder, p.to.tables \cup ViewNames(p.to)), LAMBDA r : AddRelation(p, r)) = <<>>
  <2> DEFINE order == Ordered(RelationOrder, p.to.tables \cup ViewNames(p.to))
             all == [i \in DOMAIN order |-> AddRelation(p, order[i])]
  <2>0. p.to = s BY DEF Idle
  <2>1. order \in Seq(s.tables \cup ViewNames(s)) BY <2>0, OrderedIn, OrderAssumption
  <2>2. all = [i \in 1..Len(order) |-> <<>>]
    <3> HIDE DEF order
    <3> QED BY <2>1, <1>2, <1>3
  <2>3. FlattenSeq(all) = <<>>
    <3> HIDE DEF all, order
    <3> QED BY <2>1, <2>2, NothingFlat
  <2> QED BY <2>3 DEF InTurn
<1> QED BY <1>1, <1>4 DEF Adds

\* The plan from a schema to itself has no statement, whatever is declared beside it.
THEOREM PlanOfNothing ==
  ASSUME NEW s, WellFormed(s), NEW ds
  PROVE  Plan(Planner(s, s, ds)) = <<>>
<1> DEFINE p == Planner(s, s, ds)
<1>1. Idle(p, s) BY PlannerIdle
<1> HIDE DEF p
<1>2. Plan(p) = <<>> BY <1>1, DropsNothing, RenamesNothing, AltersNothing, AddsNothing DEF Plan
<1> QED BY <1>2 DEF p

\* Nor does it report a problem, when nothing is declared: a database that is up to date is done.
THEOREM NothingToReport ==
  ASSUME NEW s, WellFormed(s)
  PROVE  ~HasProblems(Planner(s, s, {}))
<1> DEFINE p == Planner(s, s, {})
<1>1. Idle(p, s) /\ p.list = {} BY PlannerIdle
<1> HIDE DEF p
<1>2. Unfounded(p) = {} BY <1>1 DEF Unfounded
<1>3. Undeclared(p) = {}
  <2>1. p.from.tables \ Surviving(p) = {} /\ p.from.labels \ p.to.labels = {}
    BY <1>1, AllContinue DEF Idle
  <2>2. UNION {Gone(p, r) : r \in Surviving(p)} = {} BY <1>1, AllContinue
  <2> QED BY <2>1, <2>2 DEF Undeclared
<1>4. Unassignable(p) = {} BY <1>1, NothingFilled DEF Unassignable
<1> QED BY <1>2, <1>3, <1>4 DEF HasProblems, p

Kinds == {"rename_table", "rename_column", "drop_table", "drop_column", "enum", "backfill"}

\* Every declaration is an error of the plan from a schema to itself.
LEMMA AllUnfounded ==
  ASSUME NEW s, WellFormed(s), NEW ds, \A i \in ds : i.kind \in Kinds
  PROVE  Unfounded(Planner(s, s, ds)) = ds
<1> DEFINE p == Planner(s, s, ds)
<1>1. Idle(p, s) /\ p.list = ds BY PlannerIdle
<1> HIDE DEF p
<1>2. Filling(p) = {} BY <1>1, NothingFilled
<1>3. \A i : ~DropDeclared(p, i) BY <1>1 DEF DropDeclared, Idle
<1>4. Unfounded(p) = ds BY <1>1, <1>2, <1>3 DEF Unfounded, Idle, Kinds
<1> QED BY <1>4 DEF p
-----------------------------------------------------------------------------
(* what the author arrives at *)

\* The schema of the author is one the loader can make, and a declaration is of a kind there is.
Authored == WellFormed(to) /\ \A i \in list : i.kind \in Kinds

\* Views that are the same but for what they read.
LEMMA ViewsRewritten ==
  ASSUME NEW views, ViewsFormed(views), NEW new, new = [i \in DOMAIN views |-> new[i]],
         \A i \in DOMAIN views : new[i].name = views[i].name /\ DOMAIN new[i] = {"name", "shows", "where"}
  PROVE  ViewsFormed(new)
<1>1. DOMAIN views = 1..Len(views) /\ Len(views) \in Nat BY DEF ViewsFormed
<1>2. new \in Seq(ToSet(new)) BY <1>1 DEF ToSet
<1> QED BY <1>1, <1>2 DEF ViewsFormed

\* Views without one of them.
LEMMA ViewsWithout ==
  ASSUME NEW views, ViewsFormed(views), NEW i \in DOMAIN views
  PROVE  ViewsFormed(RemoveAt(views, i))
<1> DEFINE n == Len(views)
           new == RemoveAt(views, i)
           From(j) == IF j < i THEN j ELSE j + 1
<1>1. n \in Nat /\ DOMAIN views = 1..n /\ i \in 1..n /\ views \in Seq(ToSet(views)) BY DEF ViewsFormed
<1>2. /\ Len(new) = n - 1 /\ new \in Seq(ToSet(views))
      /\ \A j \in 1..n-1 : new[j] = views[From(j)]
  <2> DEFINE a == SubSeq(views, 1, i - 1)
             b == SubSeq(views, i + 1, n)
  <2>1. a \in Seq(ToSet(views)) /\ Len(a) = i - 1 /\ \A j \in 1..i-1 : a[j] = views[j] BY <1>1
  <2>2. b \in Seq(ToSet(views)) /\ Len(b) = n - i /\ \A j \in 1..n-i : b[j] = views[j + i] BY <1>1
  <2>3. new = a \o b BY DEF RemoveAt
  <2> HIDE DEF new, a, b
  <2>4. new \in Seq(ToSet(views)) /\ Len(new) = n - 1
    <3>1. new \in Seq(ToSet(views)) BY <2>1, <2>2, <2>3
    <3>2. Len(a \o b) = Len(a) + Len(b)
      <4>1. a \in Seq(ToSet(views)) /\ b \in Seq(ToSet(views)) BY <2>1, <2>2
      <4> QED BY <4>1
    <3> HIDE DEF n
    <3> QED BY <3>1, <3>2, <2>1, <2>2, <2>3, <1>1
  <2>5. ASSUME NEW j \in 1..n-1
        PROVE  new[j] = views[From(j)]
    <3>1. CASE j < i BY <3>1, <2>1, <2>2, <2>3, <1>1
    <3>2. CASE ~(j < i)
      <4>1. j - (i - 1) \in 1..n-i BY <3>2, <1>1
      <4>2. new[j] = b[j - (i - 1)] BY <4>1, <3>2, <2>1, <2>2, <2>3, <1>1
      <4>3. b[j - (i - 1)] = views[(j - (i - 1)) + i] BY <4>1, <2>2
      <4>4. (j - (i - 1)) + i = j + 1 BY <1>1
      <4> QED BY <4>2, <4>3, <4>4, <3>2
    <3> QED BY <3>1, <3>2
  <2> QED BY <2>4, <2>5
<1>3. \A j \in 1..n-1 : From(j) \in DOMAIN views BY <1>1
<1>4. DOMAIN new = 1..n-1 BY <1>1, <1>2
<1> HIDE DEF new
<1>5. new \in Seq(ToSet(new)) BY <1>2, <1>4 DEF ToSet
<1>6. \A j \in DOMAIN new : DOMAIN new[j] = {"name", "shows", "where"}
  BY <1>2, <1>3, <1>4 DEF ViewsFormed
<1>7. ASSUME NEW j \in DOMAIN new, NEW k \in DOMAIN new, new[j].name = new[k].name
      PROVE  j = k
  <2>1. From(j) = From(k) BY <1>2, <1>3, <1>4, <1>7 DEF ViewsFormed
  <2> QED BY <2>1, <1>1, <1>4
<1> QED BY <1>5, <1>6, <1>7 DEF ViewsFormed, new

\* A column in the place of another of the same name.
LEMMA Recolumned ==
  ASSUME WellFormed(to), NEW c \in to.cols, NEW d, DOMAIN d = DOMAIN c, d.rel = c.rel, d.name = c.name
  PROVE  WellFormed(Recolumn(c, d))
<1> DEFINE s == Recolumn(c, d)
<1>1. /\ DOMAIN s = DOMAIN to /\ s.cols = (to.cols \ {c}) \cup {d}
      /\ s.tables = to.tables /\ s.views = to.views
  BY DEF WellFormed, Recolumn
<1>2. ColumnsFormed(to.tables, (to.cols \ {c}) \cup {d}) BY DEF WellFormed, ColumnsFormed
<1> HIDE DEF s
<1>3. WellFormed(s) BY <1>1, <1>2 DEF WellFormed
<1> QED BY <1>3 DEF s

\* The queries and expressions that no longer read a column.
LEMMA UnreadFormed ==
  ASSUME NEW s, WellFormed(s), NEW x
  PROVE  WellFormed(Unread(s, x))
<1> DEFINE u == Unread(s, x)
<1>1. /\ DOMAIN u = DOMAIN s /\ u.cols = {UnreadBy(c, x) : c \in s.cols} /\ u.tables = s.tables
      /\ u.views = [i \in DOMAIN s.views |-> Unshown(s.views[i], x)]
  BY DEF WellFormed, Unread
<1>2. \A c \in s.cols : /\ UnreadBy(c, x).rel = c.rel /\ UnreadBy(c, x).name = c.name
                        /\ DOMAIN UnreadBy(c, x) = DOMAIN c
  BY DEF WellFormed, ColumnsFormed, UnreadBy
<1>3. ColumnsFormed(u.tables, u.cols)
  <2> HIDE DEF u
  <2> QED BY <1>1, <1>2 DEF WellFormed, ColumnsFormed
<1>4. ViewsFormed(s.views) BY DEF WellFormed
<1>5. \A i \in DOMAIN s.views : u.views[i].name = s.views[i].name /\ DOMAIN u.views[i] = {"name", "shows", "where"}
  <2> HIDE DEF u
  <2>1. \A v : DOMAIN v = {"name", "shows", "where"} => Unshown(v, x).name = v.name /\ DOMAIN Unshown(v, x) = DOMAIN v
    BY DEF Unshown
  <2> QED BY <2>1, <1>1, <1>4 DEF ViewsFormed
<1>6. u.views = [i \in DOMAIN s.views |-> u.views[i]]
  <2> HIDE DEF u
  <2> QED BY <1>1
<1> HIDE DEF u
<1>7. ViewsFormed(u.views) BY <1>4, <1>5, <1>6, ViewsRewritten
<1>8. WellFormed(u) BY <1>1, <1>3, <1>7 DEF WellFormed
<1> QED BY <1>8 DEF u

\* A column under a new name, which no column has.
LEMMA ColumnRenamedFormed ==
  ASSUME NEW s, WellFormed(s), NEW c \in s.cols, NEW n, \A d \in s.cols : d.name # n
  PROVE  WellFormed(ColumnRenamedTo(s, c, n))
<1> DEFINE New(x) == IF x = Key(c) THEN <<c.rel, n>> ELSE x
           Column(d) == [d EXCEPT !.rel = New(<<d.rel, d.name>>)[1], !.name = New(<<d.rel, d.name>>)[2],
                                  !.gen = {New(<<d.rel, m>>)[2] : m \in d.gen}]
           Reread(v) == [v EXCEPT !.shows = [j \in DOMAIN @ |-> [@[j] EXCEPT !.of = New(@)]],
                                 !.where = {New(x) : x \in @}]
           u == ColumnRenamedTo(s, c, n)
<1>1. /\ DOMAIN u = DOMAIN s /\ u.tables = s.tables /\ u.cols = {Column(d) : d \in s.cols}
      /\ u.views = [i \in DOMAIN s.views |-> Reread(s.views[i])]
  BY DEF WellFormed, Renamed, ColumnRenamedTo
<1>2. ASSUME NEW d \in s.cols
      PROVE  /\ DOMAIN Column(d) = DOMAIN d /\ Column(d).rel = d.rel
             /\ Column(d).name = IF d.rel = c.rel /\ d.name = c.name THEN n ELSE d.name
  <2>1. DOMAIN d = {"rel", "name", "type", "notNull", "default", "gen"} BY DEF WellFormed, ColumnsFormed
  <2>2. /\ New(<<d.rel, d.name>>)[1] = d.rel
        /\ New(<<d.rel, d.name>>)[2] = IF d.rel = c.rel /\ d.name = c.name THEN n ELSE d.name
    BY DEF Key
  <2> HIDE DEF New
  <2> QED BY <2>1, <2>2
<1>3. \A v : DOMAIN v = {"name", "shows", "where"} => Reread(v).name = v.name /\ DOMAIN Reread(v) = DOMAIN v
  <2> HIDE DEF New
  <2> QED OBVIOUS
<1> HIDE DEF u, Column, Reread
<1>4. ColumnsFormed(s.tables, u.cols) BY <1>1, <1>2 DEF WellFormed, ColumnsFormed
<1>5. ViewsFormed(u.views)
  <2>1. ViewsFormed(s.views) BY DEF WellFormed
  <2>2. u.views = [i \in DOMAIN s.views |-> u.views[i]] BY <1>1
  <2>3. \A i \in DOMAIN s.views : u.views[i].name = s.views[i].name /\ DOMAIN u.views[i] = {"name", "shows", "where"}
    BY <2>1, <1>1, <1>3 DEF ViewsFormed
  <2> QED BY <2>1, <2>2, <2>3, ViewsRewritten
<1>6. WellFormed(u) BY <1>1, <1>4, <1>5 DEF WellFormed
<1> QED BY <1>6 DEF u

\* A table under a new name, which no table has.
LEMMA TableRenamedFormed ==
  ASSUME NEW s, WellFormed(s), NEW r \in s.tables, NEW n, n \notin s.tables
  PROVE  WellFormed(TableRenamedTo(s, r, n))
<1> DEFINE New(x) == IF x[1] = r THEN <<n, x[2]>> ELSE x
           Column(d) == [d EXCEPT !.rel = New(<<d.rel, d.name>>)[1], !.name = New(<<d.rel, d.name>>)[2],
                                  !.gen = {New(<<d.rel, m>>)[2] : m \in d.gen}]
           Reread(v) == [v EXCEPT !.shows = [j \in DOMAIN @ |-> [@[j] EXCEPT !.of = New(@)]],
                                 !.where = {New(x) : x \in @}]
           u == TableRenamedTo(s, r, n)
<1>1. /\ DOMAIN u = DOMAIN s /\ u.tables = (s.tables \ {r}) \cup {n} /\ u.cols = {Column(d) : d \in s.cols}
      /\ u.views = [i \in DOMAIN s.views |-> Reread(s.views[i])]
  BY DEF WellFormed, Renamed, TableRenamedTo
<1>2. ASSUME NEW d \in s.cols
      PROVE  /\ DOMAIN Column(d) = DOMAIN d /\ Column(d).name = d.name
             /\ Column(d).rel = IF d.rel = r THEN n ELSE d.rel
  <2>1. DOMAIN d = {"rel", "name", "type", "notNull", "default", "gen"} BY DEF WellFormed, ColumnsFormed
  <2>2. /\ New(<<d.rel, d.name>>)[2] = d.name
        /\ New(<<d.rel, d.name>>)[1] = IF d.rel = r THEN n ELSE d.rel
    OBVIOUS
  <2> HIDE DEF New
  <2> QED BY <2>1, <2>2
<1>3. \A v : DOMAIN v = {"name", "shows", "where"} => Reread(v).name = v.name /\ DOMAIN Reread(v) = DOMAIN v
  <2> HIDE DEF New
  <2> QED OBVIOUS
<1> HIDE DEF u, Column, Reread
<1>4. ColumnsFormed(u.tables, u.cols) BY <1>1, <1>2 DEF WellFormed, ColumnsFormed
<1>5. ViewsFormed(u.views)
  <2>1. ViewsFormed(s.views) BY DEF WellFormed
  <2>2. u.views = [i \in DOMAIN s.views |-> u.views[i]] BY <1>1
  <2>3. \A i \in DOMAIN s.views : u.views[i].name = s.views[i].name /\ DOMAIN u.views[i] = {"name", "shows", "where"}
    BY <2>1, <1>1, <1>3 DEF ViewsFormed
  <2> QED BY <2>1, <2>2, <2>3, ViewsRewritten
<1>6. WellFormed(u) BY <1>1, <1>4, <1>5 DEF WellFormed
<1> QED BY <1>6 DEF u

\* The author starts from such a schema,
LEMMA AuthoredInit == Init => Authored
  BY SourceAssumption DEF Init, Authored

\* and each change of it is another.
LEMMA AuthoredNext == Authored /\ [Next]_vars => Authored'
<1> SUFFICES ASSUME Authored, [Next]_vars PROVE Authored' OBVIOUS
<1>0. WellFormed(to) /\ \A i \in list : i.kind \in Kinds BY DEF Authored
<1>1. ASSUME DropColumnEdit PROVE Authored'
  <2>1. PICK c \in to.cols : Edit("drop_column", Unread([to EXCEPT !.cols = @ \ {c}], Key(c)),
                                 Keeping(Names(Unread([to EXCEPT !.cols = @ \ {c}], Key(c)))),
                                 {[kind |-> "drop_column", col |-> was[Key(c)]]})
    BY <1>1 DEF DropColumnEdit
  <2>2. WellFormed([to EXCEPT !.cols = @ \ {c}]) BY <1>0 DEF WellFormed, ColumnsFormed
  <2>3. WellFormed(Unread([to EXCEPT !.cols = @ \ {c}], Key(c))) BY <2>2, UnreadFormed
  <2>4. \A i \in list' : i.kind \in Kinds
    <3> DEFINE d == [kind |-> "drop_column", col |-> was[Key(c)]]
    <3>1. list' \in {list, list \cup {d}} BY <2>1 DEF Edit
    <3>2. d.kind \in Kinds BY DEF Kinds
    <3> HIDE DEF d
    <3> QED BY <3>1, <3>2, <1>0
  <2>5. WellFormed(to') BY <2>1, <2>3 DEF Edit
  <2> QED BY <2>4, <2>5 DEF Authored
<1>2. ASSUME RetypeEdit PROVE Authored'
  <2>1. PICK c \in to.cols, t \in Types : Same("retype", Recolumn(c, [c EXCEPT !.type = t]))
    BY <1>2 DEF RetypeEdit
  <2>2. WellFormed(Recolumn(c, [c EXCEPT !.type = t]))
    BY <1>0, Recolumned DEF WellFormed, ColumnsFormed
  <2> QED BY <2>1, <2>2 DEF Same, Edit, Authored
<1>3. ASSUME NullEdit PROVE Authored'
  <2>1. PICK c \in to.cols :
          Edit("null", Recolumn(c, [c EXCEPT !.notNull = ~@, !.default = FALSE]), was,
               IF c.notNull THEN {} ELSE {[kind |-> "backfill", col |-> Key(c)]})
    BY <1>3 DEF NullEdit
  <2>2. WellFormed(Recolumn(c, [c EXCEPT !.notNull = ~@, !.default = FALSE]))
    BY <1>0, Recolumned DEF WellFormed, ColumnsFormed
  <2>3. \A i \in list' : i.kind \in Kinds
    <3>1. \A i \in list' : i \in list \/ i.kind = "backfill" BY <2>1 DEF Edit
    <3> QED BY <3>1, <1>0 DEF Kinds
  <2>4. WellFormed(to') BY <2>1, <2>2 DEF Edit
  <2> QED BY <2>3, <2>4 DEF Authored
<1>4. ASSUME RenameColumnEdit PROVE Authored'
  <2>1. PICK c \in to.cols, n \in Fresh :
          /\ to' = ColumnRenamedTo(to, c, n)
          /\ list' \in {list, list \cup {[kind |-> "rename_column", col |-> was[Key(c)], to |-> <<c.rel, n>>]}}
    BY <1>4 DEF RenameColumnEdit, Edit
  <2>2. WellFormed(ColumnRenamedTo(to, c, n)) BY <1>0, ColumnRenamedFormed DEF Fresh
  <2>3. \A i \in list' : i.kind \in Kinds
    <3> DEFINE d == [kind |-> "rename_column", col |-> was[Key(c)], to |-> <<c.rel, n>>]
    <3>1. list' \in {list, list \cup {d}} BY <2>1
    <3>2. d.kind \in Kinds BY DEF Kinds
    <3> HIDE DEF d
    <3> QED BY <3>1, <3>2, <1>0
  <2>4. WellFormed(to') BY <2>1, <2>2
  <2> QED BY <2>3, <2>4 DEF Authored
<1>5. ASSUME RenameTableEdit PROVE Authored'
  <2>1. PICK r \in to.tables, n \in NewRelations :
          /\ to' = TableRenamedTo(to, r, n)
          /\ list' \in {list, list \cup {[kind |-> "rename_table", rel |-> r, to |-> n]}}
    BY <1>5 DEF RenameTableEdit, Edit
  <2>2. WellFormed(TableRenamedTo(to, r, n)) BY <1>0, TableRenamedFormed DEF NewRelations
  <2>3. \A i \in list' : i.kind \in Kinds
    <3> DEFINE d == [kind |-> "rename_table", rel |-> r, to |-> n]
    <3>1. list' \in {list, list \cup {d}} BY <2>1
    <3>2. d.kind \in Kinds BY DEF Kinds
    <3> HIDE DEF d
    <3> QED BY <3>1, <3>2, <1>0
  <2>4. WellFormed(to') BY <2>1, <2>2
  <2> QED BY <2>3, <2>4 DEF Authored
<1>6. ASSUME DropTableEdit PROVE Authored'
  <2>1. PICK r \in to.tables :
          /\ to' = [to EXCEPT !.tables = @ \ {r}, !.cols = {c \in @ : c.rel # r}, !.parts = {a \in @ : a.rel # r}]
          /\ list' \in {list, list \cup {[kind |-> "drop_table", rel |-> r]}}
    BY <1>6 DEF DropTableEdit, Edit
  <2>2. WellFormed(to') BY <1>0, <2>1 DEF WellFormed, ColumnsFormed
  <2>3. \A i \in list' : i.kind \in Kinds
    <3> DEFINE d == [kind |-> "drop_table", rel |-> r]
    <3>1. list' \in {list, list \cup {d}} BY <2>1
    <3>2. d.kind \in Kinds BY DEF Kinds
    <3> HIDE DEF d
    <3> QED BY <3>1, <3>2, <1>0
  <2>4. WellFormed(to') BY <2>1, <2>2
  <2> QED BY <2>3, <2>4 DEF Authored
<1>7. ASSUME AddColumnEdit PROVE Authored'
  <2> DEFINE More(r, n, d, nn, g) ==
                [to EXCEPT !.cols = @ \cup {[rel |-> r, name |-> n, type |-> "int", notNull |-> nn, default |-> d, gen |-> g]}]
             Filled(r, n, nn) == IF nn THEN {[kind |-> "backfill", col |-> <<r, n>>]} ELSE {}
             Adding(r, n, d, nn, g) == Edit("add_column", More(r, n, d, nn, g), was, Filled(r, n, nn))
  <2>0. PICK r, n, d, nn, g : r \in to.tables /\ n \in Fresh /\ Adding(r, n, d, nn, g)
    <3>1. \E r \in to.tables : \E n \in Fresh, d, nn \in BOOLEAN, g \in {{}} \cup {{m} : m \in NamesOf(to, r)} :
            Adding(r, n, d, nn, g)
      BY <1>7, Zenon DEF AddColumnEdit
    <3> HIDE DEF Adding
    <3> QED BY <3>1
  <2>1. /\ r \in to.tables /\ n \in Fresh
        /\ to' = More(r, n, d, nn, g) /\ list' \in {list, list \cup Filled(r, n, nn)}
    <3> HIDE DEF More, Filled
    <3> QED BY <2>0, Zenon DEF Edit
  <2>2. \A c \in to.cols : c.name # n BY <2>1 DEF Fresh
  <2> DEFINE new == [rel |-> r, name |-> n, type |-> "int", notNull |-> nn, default |-> d, gen |-> g]
  <2>3. DOMAIN new = {"rel", "name", "type", "notNull", "default", "gen"} /\ new.rel = r /\ new.name = n
    OBVIOUS
  <2>4. /\ DOMAIN to' = DOMAIN to /\ to'.tables = to.tables /\ to'.views = to.views
        /\ to'.cols = to.cols \cup {new}
    BY <1>0, <2>1 DEF WellFormed
  <2> HIDE DEF new
  <2>5. ColumnsFormed(to.tables, to.cols \cup {new}) BY <1>0, <2>1, <2>2, <2>3 DEF WellFormed, ColumnsFormed
  <2>6. WellFormed(to') BY <1>0, <2>4, <2>5 DEF WellFormed
  <2>7. \A i \in list' : i.kind \in Kinds
    <3>1. \A i \in list' : i \in list \/ i.kind = "backfill" BY <2>1
    <3> QED BY <3>1, <1>0 DEF Kinds
  <2> QED BY <2>6, <2>7 DEF Authored
<1>8. ASSUME AddTableEdit PROVE Authored'
  <2>1. PICK n \in NewRelations, a \in to.parts :
          /\ to' = [to EXCEPT !.tables = @ \cup {n},
                              !.cols = @ \cup {[rel |-> n, name |-> "id", type |-> "int", notNull |-> FALSE,
                                                default |-> FALSE, gen |-> {}]},
                              !.parts = @ \cup {[kind |-> "fk", rel |-> n, name |-> "new_fk", cols |-> {"id"},
                                                 ref |-> a.rel, refCols |-> a.cols]}]
          /\ list' = list
    BY <1>8 DEF AddTableEdit, Same, Edit
  <2>2. \A c \in to.cols : c.rel # n BY <1>0, <2>1 DEF WellFormed, ColumnsFormed, NewRelations
  <2> DEFINE new == [rel |-> n, name |-> "id", type |-> "int", notNull |-> FALSE, default |-> FALSE, gen |-> {}]
  <2>3. DOMAIN new = {"rel", "name", "type", "notNull", "default", "gen"} /\ new.rel = n OBVIOUS
  <2>4. /\ DOMAIN to' = DOMAIN to /\ to'.tables = to.tables \cup {n} /\ to'.views = to.views
        /\ to'.cols = to.cols \cup {new}
    BY <1>0, <2>1 DEF WellFormed
  <2> HIDE DEF new
  <2>5. ColumnsFormed(to.tables \cup {n}, to.cols \cup {new}) BY <1>0, <2>2, <2>3 DEF WellFormed, ColumnsFormed
  <2>6. WellFormed(to') BY <1>0, <2>4, <2>5 DEF WellFormed
  <2> QED BY <2>1, <2>6 DEF Authored
<1>9. ASSUME PartEdit PROVE Authored'
  <2>1. PICK parts : to' = [to EXCEPT !.parts = parts] /\ list' = list
    BY <1>9 DEF PartEdit, Same, Edit
  <2>2. WellFormed(to') BY <1>0, <2>1 DEF WellFormed
  <2> QED BY <2>1, <2>2 DEF Authored
<1>10. ASSUME ViewEdit PROVE Authored'
  <2> DEFINE v(i) == to.views[i]
             Shows(i, o) == to' = [to EXCEPT !.views[i] = [v(i) EXCEPT !.shows = o]]
             Where(i, x) == to' = [to EXCEPT !.views[i] = [v(i) EXCEPT !.where = x]]
  <2>1. PICK i \in DOMAIN to.views :
          /\ list' = list
          /\ \/ to' = [to EXCEPT !.views = RemoveAt(@, i)]
             \/ (\E j : Shows(i, RemoveAt(v(i).shows, j))) \/ (\E o : Shows(i, Append(v(i).shows, o)))
             \/ \E x : Where(i, x)
    BY <1>10 DEF ViewEdit, Same, Edit
  <2>2. ViewsFormed(to.views) BY <1>0 DEF WellFormed
  <2>3. CASE to' = [to EXCEPT !.views = RemoveAt(@, i)]
    <3>1. ViewsFormed(RemoveAt(to.views, i)) BY <2>2, ViewsWithout
    <3>2. WellFormed(to') BY <1>0, <2>3, <3>1 DEF WellFormed
    <3> QED BY <2>1, <3>2 DEF Authored
  <2>4. ASSUME NEW w, to' = [to EXCEPT !.views[i] = w],
               w.name = v(i).name, DOMAIN w = {"name", "shows", "where"}
        PROVE  Authored'
    <3> DEFINE new == [to.views EXCEPT ![i] = w]
    <3>1. new = [j \in DOMAIN to.views |-> new[j]] OBVIOUS
    <3>2. \A j \in DOMAIN to.views : new[j].name = to.views[j].name /\ DOMAIN new[j] = {"name", "shows", "where"}
      BY <2>2, <2>4 DEF ViewsFormed
    <3>3. to' = [to EXCEPT !.views = new] BY <2>4
    <3> HIDE DEF new
    <3>4. ViewsFormed(new) BY <2>2, <3>1, <3>2, ViewsRewritten
    <3>5. WellFormed(to') BY <1>0, <3>3, <3>4 DEF WellFormed
    <3> QED BY <2>1, <3>5 DEF Authored
  <2>5. DOMAIN v(i) = {"name", "shows", "where"} BY <2>2 DEF ViewsFormed
  <2>6. ASSUME NEW o, Shows(i, o) PROVE Authored' BY <2>4, <2>5, <2>6
  <2>7. ASSUME NEW x, Where(i, x) PROVE Authored' BY <2>4, <2>5, <2>7
  <2> HIDE DEF Shows, Where
  <2> QED BY <2>1, <2>3, <2>6, <2>7
<1>11. ASSUME LabelEdit PROVE Authored'
  <2>1. /\ \E labels : to' = [to EXCEPT !.labels = labels]
        /\ \A i \in list' : i \in list \/ i.kind = "enum"
    <3>1. ASSUME NEW l, NEW u,
                 Edit("label", [to EXCEPT !.labels = @ \ {l}], was, {[kind |-> "enum", label |-> l, using |-> u]})
          PROVE  <2>1!1 /\ <2>1!2
      <4> DEFINE d == [kind |-> "enum", label |-> l, using |-> u]
      <4>1. list' \in {list, list \cup {d}} /\ to' = [to EXCEPT !.labels = @ \ {l}] BY <3>1 DEF Edit
      <4>2. d.kind = "enum" OBVIOUS
      <4> HIDE DEF d
      <4> QED BY <4>1, <4>2
    <3>2. CASE Same("label", [to EXCEPT !.labels = @ \cup {"new"}]) BY <3>2 DEF Same, Edit
    <3> QED BY <1>11, <3>1, <3>2 DEF LabelEdit
  <2>2. WellFormed(to') BY <1>0, <2>1 DEF WellFormed
  <2>3. \A i \in list' : i.kind \in Kinds
    <3>1. \A i \in list' : i \in list \/ i.kind = "enum" BY <2>1
    <3> QED BY <3>1, <1>0 DEF Kinds
  <2>4. WellFormed(to') BY <2>1, <2>2
  <2> QED BY <2>3, <2>4 DEF Authored
<1>12. ASSUME GeneratedEdit PROVE Authored'
  <2>1. PICK c \in to.cols : \E g : Same("generated", Recolumn(c, [c EXCEPT !.gen = g, !.default = FALSE]))
    BY <1>12 DEF GeneratedEdit
  <2>2. PICK g : Same("generated", Recolumn(c, [c EXCEPT !.gen = g, !.default = FALSE])) BY <2>1
  <2>3. WellFormed(Recolumn(c, [c EXCEPT !.gen = g, !.default = FALSE]))
    BY <1>0, Recolumned DEF WellFormed, ColumnsFormed
  <2> QED BY <2>2, <2>3 DEF Same, Edit, Authored
<1>13. CASE MakePlan \/ Execute \/ UNCHANGED vars BY <1>13 DEF MakePlan, Execute, vars, Authored
<1> QED BY <1>1, <1>2, <1>3, <1>4, <1>5, <1>6, <1>7, <1>8, <1>9, <1>10, <1>11, <1>12, <1>13 DEF Next

\* Whatever the author changes and declares, and in whatever order, a declaration that is still in
\* schema.sql once the plan has run is an error of the next plan, and that plan does nothing.
THEOREM StaleDeclarationsFail == Spec => []StaleAreErrors
<1>1. Authored => StaleAreErrors
  BY PlanOfNothing, AllUnfounded DEF StaleAreErrors, Authored
<1> QED BY <1>1, AuthoredInit, AuthoredNext, PTL DEF Spec
-----------------------------------------------------------------------------
(* what a sequence of statements drops *)

\* Statement y adds again the computed column that statement st drops.
Again(st, y) == y.op = "add_column" /\ Key(y.col) = st.col /\ y.col.gen # {}

\* Whatever st drops is declared dropped in ds.
Settled(ds, st) ==
  /\ st.op = "drop_table" => \E d \in ds : d.kind = "drop_table" /\ d.rel = st.rel
  /\ st.op = "drop_column" => \E d \in ds : d.kind = "drop_column" /\ d.col = st.col

\* Whatever the statements of q drop is declared in ds, or added again further on.
Explained(ds, q) ==
  /\ q \in Seq(ToSet(q))
  /\ \A i \in DOMAIN q :
       \/ Settled(ds, q[i])
       \/ q[i].op = "drop_column" /\ \E j \in DOMAIN q : j > i /\ Again(q[i], q[j])

\* No statement drops nothing.
LEMMA NothingExplained == ASSUME NEW ds PROVE Explained(ds, <<>>)
<1>1. <<>> \in Seq(ToSet(<<>>)) OBVIOUS
<1> QED BY <1>1 DEF Explained

\* One statement.
LEMMA OneExplained == ASSUME NEW ds, NEW st, Settled(ds, st) PROVE Explained(ds, <<st>>)
<1> DEFINE q == <<st>>
<1>1. DOMAIN q = 1..1 /\ q[1] = st /\ q \in Seq({st}) OBVIOUS
<1> HIDE DEF q
<1>2. q \in Seq(ToSet(q)) BY <1>1, SeqOfItsOwn
<1>3. Explained(ds, q) BY <1>1, <1>2 DEF Explained
<1> QED BY <1>3 DEF q

\* Statement i of a is settled, or answered for in a or in b.
Answered(ds, a, b, i) ==
  \/ Settled(ds, a[i])
  \/ /\ a[i].op = "drop_column"
     /\ \/ \E j \in DOMAIN a : j > i /\ Again(a[i], a[j])
        \/ \E y \in ToSet(b) : Again(a[i], y)

\* One sequence and another that answers for what the first drops undeclared.
LEMMA AnsweredExplained ==
  ASSUME NEW ds, NEW a, a \in Seq(ToSet(a)), NEW b, Explained(ds, b), \A i \in DOMAIN a : Answered(ds, a, b, i)
  PROVE  Explained(ds, a \o b)
<1> DEFINE c == a \o b
<1>1. b \in Seq(ToSet(b)) BY DEF Explained
<1>2. c \in Seq(ToSet(c)) BY <1>1, ConcatSet
<1> HIDE DEF c
<1>3. c = a \o b BY DEF c
<1>4. \A i \in 1..Len(a) : c[i] = a[i] BY <1>1, <1>3, ConcatAt
<1>5. \A i \in 1..Len(b) : c[Len(a) + i] = b[i] BY <1>1, <1>3, ConcatAt
<1>6. DOMAIN a = 1..Len(a) /\ DOMAIN b = 1..Len(b) /\ Len(a) \in Nat /\ Len(b) \in Nat BY <1>1, <1>3, ConcatAt
<1>7. DOMAIN c = 1..Len(a) + Len(b) BY <1>1, <1>3, ConcatAt
<1>8. ASSUME NEW i \in DOMAIN c
      PROVE  \/ Settled(ds, c[i])
             \/ c[i].op = "drop_column" /\ \E j \in DOMAIN c : j > i /\ Again(c[i], c[j])
  <2>1. CASE i <= Len(a)
    <3>1. i \in DOMAIN a /\ c[i] = a[i] BY <2>1, <1>4, <1>6, <1>7
    <3>2. CASE Settled(ds, a[i]) BY <3>1, <3>2
    <3>3. ASSUME NEW j \in DOMAIN a, j > i, Again(a[i], a[j]), a[i].op = "drop_column"
          PROVE  <1>8!2
      <4>1. j \in DOMAIN c /\ c[j] = a[j] BY <1>4, <1>6, <1>7
      <4> QED BY <3>1, <3>3, <4>1
    <3>4. ASSUME NEW y \in ToSet(b), Again(a[i], y), a[i].op = "drop_column"
          PROVE  <1>8!2
      <4>1. PICK k \in DOMAIN b : b[k] = y BY DEF ToSet
      <4>2. Len(a) + k \in DOMAIN c /\ c[Len(a) + k] = y /\ Len(a) + k > i BY <4>1, <1>5, <1>6, <1>7, <2>1
      <4> QED BY <3>1, <3>4, <4>2
    <3> QED BY <3>1, <3>2, <3>3, <3>4 DEF Answered
  <2>2. CASE i > Len(a)
    <3> DEFINE k == i - Len(a)
    <3>1. k \in DOMAIN b /\ i = Len(a) + k BY <2>2, <1>6, <1>7
    <3>2. c[i] = b[k] BY <3>1, <1>5, <1>6
    <3> HIDE DEF k
    <3>3. CASE Settled(ds, b[k]) BY <3>2, <3>3
    <3>4. ASSUME NEW j \in DOMAIN b, j > k, Again(b[k], b[j]), b[k].op = "drop_column"
          PROVE  <1>8!2
      <4>1. j \in 1..Len(b) /\ k \in 1..Len(b) BY <3>1, <1>6
      <4>2. Len(a) + j \in DOMAIN c /\ Len(a) + j > i
        <5>1. Len(a) + j \in DOMAIN c BY <4>1, <1>6, <1>7
        <5>2. j > k /\ i = Len(a) + k BY <3>1, <3>4
        <5> QED BY <4>1, <5>1, <5>2, <1>6
      <4>3. c[Len(a) + j] = b[j] BY <4>1, <1>5
      <4> QED BY <3>2, <3>4, <4>2, <4>3
    <3> QED BY <3>1, <3>2, <3>3, <3>4 DEF Explained
  <2>3. i <= Len(a) \/ i > Len(a) BY <1>6, <1>7
  <2> QED BY <2>1, <2>2, <2>3
<1>9. Explained(ds, c) BY <1>2, <1>8 DEF Explained
<1> QED BY <1>9 DEF c

\* One explained sequence and another.
LEMMA BothExplained ==
  ASSUME NEW ds, NEW a, Explained(ds, a), NEW b, Explained(ds, b)
  PROVE  Explained(ds, a \o b)
<1>1. \A i \in DOMAIN a : Answered(ds, a, b, i) BY DEF Explained, Answered
<1>2. a \in Seq(ToSet(a)) BY DEF Explained
<1> QED BY <1>1, <1>2, AnsweredExplained

\* Any number of them.
LEMMA AllExplained ==
  ASSUME NEW ds, NEW n \in Nat, NEW s, s = [i \in 1..n |-> s[i]], \A i \in 1..n : Explained(ds, s[i])
  PROVE  Explained(ds, FlattenSeq(s))
<1>1. CASE n = 0
  <2>1. s = [i \in {} |-> s[i]] BY <1>1
  <2>2. FlattenSeq(s) = <<>> BY <2>1, NoneFlat
  <2> QED BY <2>2, NothingExplained
<1>2. CASE n # 0
  <2>1. PICK A : s \in [1..n -> Seq(A)]
    <3> DEFINE A == UNION {ToSet(s[i]) : i \in 1..n}
    <3>1. \A i \in 1..n : s[i] \in Seq(ToSet(s[i])) /\ ToSet(s[i]) \subseteq A BY DEF Explained
    <3>2. \A i \in 1..n : s[i] \in Seq(A)
      <4> HIDE DEF A
      <4> QED BY <3>1
    <3> QED BY <3>2
  <2>2. PICK f \in [1..n -> Seq(A)] : FlatBy(f, n, s) BY <2>1, <1>2, FlatSteps
  <2> DEFINE T == {k \in 1..n : ~Explained(ds, f[k])}
  <2>3. T = {}
    <3> SUFFICES ASSUME T # {} PROVE FALSE OBVIOUS
    <3>1. T \in SUBSET Nat OBVIOUS
    <3> HIDE DEF T
    <3>2. PICK m \in T : \A k \in T : m <= k BY <3>1, Smallest
    <3>3. m \in 1..n /\ ~Explained(ds, f[m]) BY <3>2 DEF T
    <3>4. CASE m = 1 BY <3>3, <3>4, <2>2 DEF FlatBy
    <3>5. CASE m # 1
      <4>1. m - 1 \in 1..n /\ m - 1 \notin T /\ m \in 2..n BY <3>2, <3>3, <3>5
      <4>2. Explained(ds, f[m-1]) BY <4>1 DEF T
      <4>3. f[m] = f[m-1] \o s[m] BY <4>1, <2>2 DEF FlatBy
      <4> QED BY <4>2, <4>3, <3>3, BothExplained
    <3> QED BY <3>4, <3>5
  <2>4. Explained(ds, f[n]) BY <2>3, <1>2
  <2> QED BY <2>2, <2>4 DEF FlatBy
<1> QED BY <1>1, <1>2

\* What is done for each of a sequence.
LEMMA TurnExplained ==
  ASSUME NEW ds, NEW A, NEW order \in Seq(A), NEW s, s = [i \in DOMAIN order |-> s[i]],
         \A i \in DOMAIN order : Explained(ds, s[i])
  PROVE  Explained(ds, FlattenSeq(s))
<1>1. DOMAIN order = 1..Len(order) /\ Len(order) \in Nat OBVIOUS
<1> QED BY <1>1, AllExplained
-----------------------------------------------------------------------------
(* what the statements of each phase drop *)

\* What a planner is made from, with nothing gone that no declaration explains.
Told(p) ==
  /\ ViewsFormed(p.from.views) /\ p.from.tables \subseteq ToSet(RelationOrder)
  /\ Finite(p.from) /\ Finite(p.to) /\ IsFiniteSet(p.relTo) /\ IsFiniteSet(p.colTo)
  /\ Undeclared(p) = {}

Destroying == {"drop_table", "drop_column"}

\* One statement of any other kind.
LEMMA DropsNeither == ASSUME NEW ds, NEW st, st.op \notin Destroying PROVE Explained(ds, <<st>>)
<1>1. Settled(ds, st) BY DEF Settled, Destroying
<1> QED BY <1>1, OneExplained

\* Statements that there may be.
LEMMA WhenExplained ==
  ASSUME NEW ds, NEW b, NEW q, b => Explained(ds, q)
  PROVE  Explained(ds, When(b, q))
  BY NothingExplained DEF When

\* Parts that go, and parts that come.
LEMMA PartsExplained ==
  ASSUME NEW ds, NEW S, IsFiniteSet(S)
  PROVE  Explained(ds, Each(S, DropPart)) /\ Explained(ds, Each(S, AddPart))
<1> DEFINE order == Listed(S)
           drops == [i \in DOMAIN order |-> DropPart(order[i])]
           adds == [i \in DOMAIN order |-> AddPart(order[i])]
<1>1. \A a : Explained(ds, DropPart(a)) /\ Explained(ds, AddPart(a)) BY DropsNeither DEF DropPart, AddPart, Destroying
<1>2. order \in Seq(ToSet(order)) BY ListedIs
<1>3. \A i \in DOMAIN order : Explained(ds, drops[i]) /\ Explained(ds, adds[i]) BY <1>1
<1>4. drops = [i \in DOMAIN order |-> drops[i]] /\ adds = [i \in DOMAIN order |-> adds[i]] OBVIOUS
<1>5. Explained(ds, FlattenSeq(drops)) /\ Explained(ds, FlattenSeq(adds))
  <2> HIDE DEF drops, adds, order
  <2> QED BY <1>2, <1>3, <1>4, TurnExplained
<1> QED BY <1>5 DEF Each, InTurn

\* A statement for each column of a set.
LEMMA AlterExplained ==
  ASSUME NEW ds, NEW op, op \notin Destroying, NEW c
  PROVE  Explained(ds, Alter(op, c))
  BY DropsNeither DEF Alter

\* Backfills.
LEMMA UpdatesExplained ==
  ASSUME NEW ds, NEW p, NEW cols, IsFiniteSet(cols)
  PROVE  Explained(ds, BackfillsLeft(p, cols))
<1> DEFINE S == {c \in cols : /\ <<c.rel, c.name>> \in Filling(p)
                              /\ ~(c.notNull /\ (Continues(p, c) => ~Before(p, c).notNull))}
           order == Listed(S)
           s == [i \in DOMAIN order |-> Alter("update", order[i])]
<1>1. IsFiniteSet(S) BY FS_Subset
<1>2. order \in Seq(ToSet(order))
  <2> HIDE DEF S
  <2> QED BY <1>1, ListedIs
<1>3. \A c : Explained(ds, Alter("update", c)) BY AlterExplained DEF Destroying
<1>4. s = [i \in DOMAIN order |-> s[i]] /\ \A i \in DOMAIN order : Explained(ds, s[i])
  <2> HIDE DEF order
  <2> QED BY <1>3
<1>5. Explained(ds, FlattenSeq(s))
  <2> HIDE DEF s, order
  <2> QED BY <1>2, <1>4, TurnExplained
<1> QED BY <1>5 DEF BackfillsLeft, Each, InTurn

\* The tables that go, in their order, are those that go.
LEMMA FkOrderIn ==
  ASSUME NEW s, NEW tables, IsFiniteSet(tables), tables \subseteq ToSet(RelationOrder)
  PROVE  FkOrder(s, tables) \in Seq(tables)
<1> DEFINE Free(P) == {r \in P : ~\E a \in s.parts : a.kind = "fk" /\ a.ref = r /\ a.rel \in P \ {r}}
           From(P) == IF Free(P) = {} THEN P ELSE Free(P)
           pick == [P \in SUBSET tables |-> Ordered(RelationOrder, From(P))[1]]
           e == CHOOSE f : ListBy(f, tables, pick)
<1>1. ASSUME NEW P \in SUBSET tables, P # {}
      PROVE  pick[P] \in P
  <2> DEFINE q == Ordered(RelationOrder, From(P))
  <2>1. From(P) \subseteq P /\ From(P) # {} BY <1>1
  <2> HIDE DEF From
  <2>2. q \in Seq(From(P)) BY OrderedIn, OrderAssumption
  <2>5. ToSet(q) = ToSet(RelationOrder) \cap From(P) BY OrderedIs, OrderAssumption
  <2> HIDE DEF q
  <2>3. q # <<>> BY <2>1, <2>5 DEF ToSet
  <2>4. q[1] \in From(P) BY <2>2, <2>3
  <2> QED BY <2>1, <2>4 DEF q
<1>2. FkOrder(s, tables) = e[tables] BY DEF FkOrder, ListBy
<1> HIDE DEF pick
<1>6. \A P \in SUBSET tables : P # {} => pick[P] \in P BY <1>1
<1>3. ListBy(e, tables, pick) BY <1>6, ListExists
<1> HIDE DEF e
<1>5. e[tables] \in Seq(tables) BY <1>6, <1>3, ListsWhole
<1> QED BY <1>2, <1>5

\* Whatever is gone is declared.
LEMMA AllDeclared ==
  ASSUME NEW p, Undeclared(p) = {}
  PROVE  /\ \A r \in p.from.tables \ Surviving(p) : \E d \in p.list : d.kind = "drop_table" /\ d.rel = r
         /\ \A r \in Surviving(p) : \A c \in Gone(p, r) :
              \E d \in p.list : d.kind = "drop_column" /\ d.col = <<c.rel, c.name>>
<1> DEFINE declared == {i \in p.list : DropDeclared(p, i)}
           Tables == {r \in p.from.tables \ Surviving(p) : ~\E i \in declared : i.kind = "drop_table" /\ i.rel = r}
           Columns == {c \in UNION {Gone(p, r) : r \in Surviving(p)} :
                         ~\E i \in declared : i.kind = "drop_column" /\ i.col = <<c.rel, c.name>>}
<1>1. {<<r, "">> : r \in Tables} = {} /\ {<<c.rel, c.name>> : c \in Columns} = {}
  BY Zenon DEF Undeclared
<1>2. declared \subseteq p.list OBVIOUS
<1>3. Tables = {} /\ Columns = {}
  <2> HIDE DEF Tables, Columns
  <2> QED BY <1>1
<1>4. \A r \in Surviving(p) : Gone(p, r) \subseteq UNION {Gone(p, q) : q \in Surviving(p)} OBVIOUS
<1> HIDE DEF declared
<1> QED BY <1>2, <1>3, <1>4

\* What the drops drop, is declared.
LEMMA DropsExplained == ASSUME NEW p, Told(p) PROVE Explained(p.list, Drops(p))
<1> DEFINE ds == p.list
           gone == p.from.tables \ Surviving(p)
<1>0. IsFiniteSet(p.from.parts) BY DEF Told, Finite
<1>1. \A kinds : Explained(ds, Each(ChangedParts(p, kinds), DropPart))
  <2>1. \A kinds : IsFiniteSet(ChangedParts(p, kinds)) BY <1>0, FS_Subset DEF ChangedParts
  <2> QED BY <2>1, PartsExplained
<1>2. Explained(ds, Each(Following(p), DropPart))
  <2>1. IsFiniteSet(Following(p)) BY <1>0, FS_Subset DEF Following
  <2> QED BY <2>1, PartsExplained
<1>3. Explained(ds, InTurn(Reverse(p.from.views), LAMBDA v : DropView(p, v)))
  <2> DEFINE order == Reverse(p.from.views)
             s == [i \in DOMAIN order |-> DropView(p, order[i])]
  <2>1. order \in Seq(ToSet(p.from.views)) BY DEF Told, ViewsFormed, Reverse
  <2>2. \A v : Explained(ds, DropView(p, v)) BY DropsNeither, WhenExplained DEF DropView, Destroying
  <2>3. s = [i \in DOMAIN order |-> s[i]] /\ \A i \in DOMAIN order : Explained(ds, s[i])
    <3> HIDE DEF order
    <3> QED BY <2>2
  <2>4. Explained(ds, FlattenSeq(s))
    <3> HIDE DEF s, order
    <3> QED BY <2>1, <2>3, TurnExplained
  <2> QED BY <2>4 DEF InTurn
<1>4. \A r \in gone : Explained(ds, DropTable(r))
  <2> SUFFICES ASSUME NEW r \in gone PROVE Explained(ds, DropTable(r)) OBVIOUS
  <2>1. \E d \in ds : d.kind = "drop_table" /\ d.rel = r BY AllDeclared DEF Told
  <2> DEFINE st == [op |-> "drop_table", rel |-> r]
  <2>2. st.op = "drop_table" /\ st.rel = r OBVIOUS
  <2> HIDE DEF st
  <2>3. Settled(ds, st) BY <2>1, <2>2 DEF Settled
  <2>4. Explained(ds, <<st>>) BY <2>3, OneExplained
  <2> QED BY <2>4 DEF DropTable, st
<1>5. \A r \in Surviving(p) : \A c \in Gone(p, r) : Explained(ds, DropColumn(<<r, c.name>>))
  <2> SUFFICES ASSUME NEW r \in Surviving(p), NEW c \in Gone(p, r) PROVE Explained(ds, DropColumn(<<r, c.name>>)) OBVIOUS
  <2>1. c.rel = r BY DEF Gone
  <2>2. \E d \in ds : d.kind = "drop_column" /\ d.col = <<r, c.name>>
    <3>1. Undeclared(p) = {} BY DEF Told
    <3>2. \A q \in Surviving(p) : \A e \in Gone(p, q) :
             \E d \in p.list : d.kind = "drop_column" /\ d.col = <<e.rel, e.name>>
      BY <3>1, AllDeclared
    <3> QED BY <2>1, <3>2
  <2> DEFINE st == [op |-> "drop_column", col |-> <<r, c.name>>]
  <2>3. st.op = "drop_column" /\ st.col = <<r, c.name>> OBVIOUS
  <2> HIDE DEF st
  <2>4. Settled(ds, st) BY <2>2, <2>3 DEF Settled
  <2>5. Explained(ds, <<st>>) BY <2>4, OneExplained
  <2> QED BY <2>5 DEF DropColumn, st
<1>6. \A r \in Surviving(p) : Explained(ds, DropColumns(p, r))
  <2> SUFFICES ASSUME NEW r \in Surviving(p) PROVE Explained(ds, DropColumns(p, r)) OBVIOUS
  <2> DEFINE order == Reverse(ReadsLast(Gone(p, r)))
             s == [i \in DOMAIN order |-> DropColumn(<<r, order[i].name>>)]
  <2>1. order \in Seq(Gone(p, r)) BY ReadsLastIn DEF Reverse
  <2>2. s = [i \in DOMAIN order |-> s[i]] /\ \A i \in DOMAIN order : Explained(ds, s[i])
    <3> HIDE DEF order
    <3> QED BY <1>5, <2>1
  <2>3. Explained(ds, FlattenSeq(s))
    <3> HIDE DEF s, order
    <3> QED BY <2>1, <2>2, TurnExplained
  <2> QED BY <2>3 DEF DropColumns, InTurn
<1>7. Explained(ds, InTurn(Ordered(RelationOrder, Surviving(p)), LAMBDA r : DropColumns(p, r)))
  <2> DEFINE order == Ordered(RelationOrder, Surviving(p))
             s == [i \in DOMAIN order |-> DropColumns(p, order[i])]
  <2>1. order \in Seq(Surviving(p)) BY OrderedIn, OrderAssumption
  <2>2. s = [i \in DOMAIN order |-> s[i]] /\ \A i \in DOMAIN order : Explained(ds, s[i])
    <3> HIDE DEF order
    <3> QED BY <1>6, <2>1
  <2>3. Explained(ds, FlattenSeq(s))
    <3> HIDE DEF s, order
    <3> QED BY <2>1, <2>2, TurnExplained
  <2> QED BY <2>3 DEF InTurn
<1>8. Explained(ds, InTurn(FkOrder(p.from, gone), DropTable))
  <2> DEFINE order == FkOrder(p.from, gone)
             s == [i \in DOMAIN order |-> DropTable(order[i])]
  <2>1. IsFiniteSet(gone) /\ gone \subseteq ToSet(RelationOrder)
    <3>1. gone \subseteq ToSet(RelationOrder) BY DEF Told
    <3>2. IsFiniteSet(ToSet(RelationOrder)) BY ToSetFinite, OrderAssumption
    <3> QED BY <3>1, <3>2, FS_Subset
  <2>2. order \in Seq(gone)
    <3> HIDE DEF gone
    <3> QED BY <2>1, FkOrderIn
  <2>3. s = [i \in DOMAIN order |-> s[i]] /\ \A i \in DOMAIN order : Explained(ds, s[i])
    <3> HIDE DEF order, gone
    <3> QED BY <1>4, <2>2
  <2>4. Explained(ds, FlattenSeq(s))
    <3> HIDE DEF s, order, gone
    <3> QED BY <2>2, <2>3, TurnExplained
  <2> QED BY <2>4 DEF InTurn
<1> QED BY <1>1, <1>2, <1>3, <1>7, <1>8, BothExplained DEF Drops

\* A rename drops nothing.
LEMMA RenamesExplained == ASSUME NEW p, Told(p) PROVE Explained(p.list, Renames(p))
<1> DEFINE ds == p.list
<1>1. Explained(ds, Each(p.relTo, RenameTable))
  <2> DEFINE order == Listed(p.relTo)
             s == [i \in DOMAIN order |-> RenameTable(order[i])]
  <2>1. order \in Seq(ToSet(order)) BY ListedIs DEF Told
  <2>2. \A q : Explained(ds, RenameTable(q)) BY DropsNeither DEF RenameTable, Destroying
  <2>3. s = [i \in DOMAIN order |-> s[i]] /\ \A i \in DOMAIN order : Explained(ds, s[i])
    <3> HIDE DEF order
    <3> QED BY <2>2
  <2>4. Explained(ds, FlattenSeq(s))
    <3> HIDE DEF s, order
    <3> QED BY <2>1, <2>3, TurnExplained
  <2> QED BY <2>4 DEF Each, InTurn
<1>2. Explained(ds, Each(p.colTo, RenameColumn))
  <2> DEFINE order == Listed(p.colTo)
             s == [i \in DOMAIN order |-> RenameColumn(order[i])]
  <2>1. order \in Seq(ToSet(order)) BY ListedIs DEF Told
  <2>2. \A q : Explained(ds, RenameColumn(q)) BY DropsNeither DEF RenameColumn, Destroying
  <2>3. s = [i \in DOMAIN order |-> s[i]] /\ \A i \in DOMAIN order : Explained(ds, s[i])
    <3> HIDE DEF order
    <3> QED BY <2>2
  <2>4. Explained(ds, FlattenSeq(s))
    <3> HIDE DEF s, order
    <3> QED BY <2>1, <2>3, TurnExplained
  <2> QED BY <2>4 DEF Each, InTurn
<1> QED BY <1>1, <1>2, BothExplained DEF Renames

\* The computed columns of D, as if they were declared dropped.
Owed(D) == {[kind |-> "drop_column", col |-> Key(g)] : g \in D}

\* What is owed is answered for by what follows, which adds them again.
LEMMA OwedExplained ==
  ASSUME NEW ds, NEW D, NEW a, Explained(ds \cup Owed(D), a), NEW b, Explained(ds, b),
         \A g \in D : g.gen # {} /\ [op |-> "add_column", col |-> g] \in ToSet(b)
  PROVE  Explained(ds, a \o b)
<1>1. ASSUME NEW d \in Owed(D)
      PROVE  d.kind = "drop_column" /\ \E g \in D : d.col = Key(g)
  <2>1. PICK g \in D : d = [kind |-> "drop_column", col |-> Key(g)] BY DEF Owed
  <2> QED BY <2>1
<1>2. ASSUME NEW i \in DOMAIN a
      PROVE  Answered(ds, a, b, i)
  <2>1. CASE a[i].op = "drop_column" /\ \E j \in DOMAIN a : j > i /\ Again(a[i], a[j]) BY <2>1 DEF Answered
  <2>2. CASE Settled(ds \cup Owed(D), a[i]) /\ ~Settled(ds, a[i])
    <3>1. PICK d \in Owed(D) : a[i].op = "drop_column" /\ d.col = a[i].col BY <2>2, <1>1 DEF Settled
    <3>2. PICK g \in D : a[i].col = Key(g) BY <3>1, <1>1
    <3> DEFINE y == [op |-> "add_column", col |-> g]
    <3>3. y.op = "add_column" /\ y.col = g OBVIOUS
    <3>4. y \in ToSet(b) /\ g.gen # {} OBVIOUS
    <3> HIDE DEF y
    <3>5. Again(a[i], y) BY <3>2, <3>3, <3>4 DEF Again
    <3> QED BY <3>1, <3>4, <3>5 DEF Answered
  <2> QED BY <2>1, <2>2 DEF Explained, Answered
<1>3. a \in Seq(ToSet(a)) BY DEF Explained
<1> QED BY <1>2, <1>3, AnsweredExplained

\* A computed column that is owed may be taken down,
LEMMA DropGeneratedExplained ==
  ASSUME NEW ds, NEW p, Finite(p.to), NEW g, \E d \in ds : d.kind = "drop_column" /\ d.col = Key(g)
  PROVE  Explained(ds, DropGenerated(p, g))
<1> DEFINE st == [op |-> "drop_column", col |-> Key(g)]
<1>1. IsFiniteSet(RestingOn(p, Key(g))) BY FS_Subset DEF Finite, RestingOn, Resting
<1>2. st.op = "drop_column" /\ st.col = Key(g) OBVIOUS
<1> HIDE DEF st
<1>3. Settled(ds, st) BY <1>2 DEF Settled
<1>4. Explained(ds, <<st>>) BY <1>3, OneExplained
<1>5. DropGenerated(p, g) = Each(RestingOn(p, Key(g)), DropPart) \o <<st>> BY DEF DropGenerated, DropColumn, Key, st
<1> QED BY <1>1, <1>4, <1>5, PartsExplained, BothExplained

\* and put back.
LEMMA AddGeneratedExplained ==
  ASSUME NEW ds, NEW p, Finite(p.to), NEW g
  PROVE  /\ Explained(ds, AddGenerated(p, g))
         /\ [op |-> "add_column", col |-> g] \in ToSet(AddGenerated(p, g))
<1> DEFINE add == [op |-> "add_column", col |-> g]
           x == <<g.rel, g.name>>
<1>1. IsFiniteSet(RestingOn(p, x)) /\ IsFiniteSet(Alongside(p, x))
  BY FS_Subset DEF Finite, RestingOn, Resting, Alongside, PartsOf
<1>2. Explained(ds, Each(Alongside(p, x), AddPart)) /\ Explained(ds, Each(RestingOn(p, x), AddPart))
  BY <1>1, PartsExplained
<1>3. Explained(ds, PutBack(p, g)) BY <1>2, BothExplained DEF PutBack
<1>4. Explained(ds, <<add>>) BY DropsNeither DEF Destroying
<1>5. Explained(ds, <<add>> \o PutBack(p, g)) BY <1>3, <1>4, BothExplained
<1>6. <<add>> \in Seq(ToSet(<<add>>)) /\ add \in ToSet(<<add>>)
  <2>1. <<add>> \in Seq(ToSet(<<add>>)) BY <1>4 DEF Explained
  <2>2. \A y : y \in ToSet(<<y>>) BY DEF ToSet
  <2> QED BY <2>1, <2>2
<1>7. AddGenerated(p, g) = <<add>> \o PutBack(p, g) BY DEF AddGenerated
<1> HIDE DEF add
<1>8. ToSet(<<add>> \o PutBack(p, g)) = ToSet(<<add>>) \cup ToSet(PutBack(p, g))
  BY <1>3, <1>6, ConcatSet DEF Explained
<1>9. Explained(ds, AddGenerated(p, g)) BY <1>5, <1>7
<1>10. add \in ToSet(AddGenerated(p, g)) BY <1>6, <1>7, <1>8
<1> QED BY <1>9, <1>10 DEF add

\* A column changes its type, between what depends on it going and coming back.
LEMMA RetypeExplained ==
  ASSUME NEW ds, NEW p, Finite(p.to), NEW c
  PROVE  Explained(ds, AlterColumnType(p, c))
<1> DEFINE D == DropsFor(p, c)
           all == ds \cup Owed(D)
           order == Listed(D)
           downs == [i \in DOMAIN order |-> DropGenerated(p, order[i])]
           ups == [i \in DOMAIN order |-> AddGenerated(p, order[i])]
           policies == {a \in PartsOf(p.to, c.rel) : a.kind = "policy" /\ c.name \in a.cols}
           st == [op |-> "type", col |-> <<c.rel, c.name>>, type |-> c.type]
<1>1. IsFiniteSet(D) /\ IsFiniteSet(policies) BY FS_Subset DEF Finite, DropsFor, PartsOf
<1>2. \A g \in D : g.gen # {} BY DEF DropsFor, Depends
<1>3. \A g \in D : \E d \in all : d.kind = "drop_column" /\ d.col = Key(g)
  <2> SUFFICES ASSUME NEW g \in D PROVE \E d \in all : d.kind = "drop_column" /\ d.col = Key(g) OBVIOUS
  <2> DEFINE d == [kind |-> "drop_column", col |-> Key(g)]
  <2>1. d \in Owed(D) BY DEF Owed
  <2>2. d.kind = "drop_column" /\ d.col = Key(g) OBVIOUS
  <2> HIDE DEF d
  <2> QED BY <2>1, <2>2
<1> HIDE DEF D
<1>4. order \in Seq(D) /\ ToSet(order) = D BY <1>1, ListedIs
<1>5. Explained(all, FlattenSeq(downs))
  <2>1. downs = [i \in DOMAIN order |-> downs[i]] /\ \A i \in DOMAIN order : Explained(all, downs[i])
    <3> HIDE DEF order, all
    <3>1. \A g \in D : Explained(all, DropGenerated(p, g)) BY <1>3, DropGeneratedExplained
    <3> QED BY <1>4, <3>1
  <2> HIDE DEF downs, order, all
  <2> QED BY <2>1, <1>4, TurnExplained
<1>6. Explained(ds, FlattenSeq(ups))
  <2>1. ups = [i \in DOMAIN order |-> ups[i]] /\ \A i \in DOMAIN order : Explained(ds, ups[i])
    <3> HIDE DEF order
    <3> QED BY AddGeneratedExplained
  <2> HIDE DEF ups, order
  <2> QED BY <2>1, <1>4, TurnExplained
<1>7. \A g \in D : [op |-> "add_column", col |-> g] \in ToSet(FlattenSeq(ups))
  <2> SUFFICES ASSUME NEW g \in D PROVE [op |-> "add_column", col |-> g] \in ToSet(FlattenSeq(ups)) OBVIOUS
  <2>1. PICK i \in DOMAIN order : order[i] = g BY <1>4 DEF ToSet
  <2>2. [op |-> "add_column", col |-> g] \in ToSet(ups[i]) BY <2>1, AddGeneratedExplained
  <2>3. DOMAIN order = 1..Len(order) /\ Len(order) \in Nat BY <1>4
  <2>4. ups = [j \in 1..Len(order) |-> ups[j]] BY <2>3
  <2>5. \A j \in 1..Len(order) : ups[j] \in Seq(ToSet(ups[j]))
    <3> HIDE DEF order
    <3> QED BY <2>3, AddGeneratedExplained DEF Explained
  <2> HIDE DEF ups, order
  <2> QED BY <2>1, <2>2, <2>3, <2>4, <2>5, FlatSet
<1> HIDE DEF policies
<1>8. Explained(all, Each(policies, DropPart)) /\ Explained(ds, Each(policies, AddPart)) BY <1>1, PartsExplained
<1>9. Explained(all, <<st>>) BY DropsNeither DEF Destroying
<1> DEFINE down == FlattenSeq(downs) \o Each(policies, DropPart) \o <<st>>
<1>10. Explained(all, down)
  <2> HIDE DEF st, downs
  <2> QED BY <1>5, <1>8, <1>9, BothExplained
<1>11. Explained(ds, down \o FlattenSeq(ups))
  <2> HIDE DEF down, ups
  <2> QED BY <1>2, <1>6, <1>7, <1>10, OwedExplained
<1>12. Explained(ds, down \o FlattenSeq(ups) \o Each(policies, AddPart))
  <2> HIDE DEF down, ups
  <2> QED BY <1>8, <1>11, BothExplained
<1>13. AlterColumnType(p, c) = down \o FlattenSeq(ups) \o Each(policies, AddPart)
  BY DEF AlterColumnType, Each, InTurn, D, policies
<1> QED BY <1>12, <1>13

\* A column changes, in whatever way.
LEMMA AlterColumnExplained ==
  ASSUME NEW ds, NEW p, Finite(p.to), NEW c
  PROVE  Explained(ds, AlterColumn(p, c))
<1> DEFINE old == Before(p, c)
           type == When(Retyped(p, c), AlterColumnType(p, c))
           dflt == When(old.default # c.default, Alter(IF c.default THEN "set_default" ELSE "drop_default", c))
           null == When(old.notNull # c.notNull,
                        IF c.notNull THEN Backfill(p, c) \o Alter("set_not_null", c) ELSE Alter("drop_not_null", c))
           expr == When(old.gen # {} /\ c.gen = {}, Alter("drop_expression", c))
           redo == When(Rewritten(p, c), DropGenerated(p, c) \o AddGenerated(p, c))
<1>1. Explained(ds, type) BY RetypeExplained, WhenExplained
<1>2. \A op \in {"set_default", "drop_default", "set_not_null", "drop_not_null", "drop_expression", "update"} :
        Explained(ds, Alter(op, c))
  BY AlterExplained DEF Destroying
<1>3. Explained(ds, dflt)
  <2>1. Explained(ds, Alter(IF c.default THEN "set_default" ELSE "drop_default", c)) BY <1>2
  <2> QED BY <2>1, WhenExplained
<1>4. Explained(ds, null)
  <2>1. Explained(ds, Backfill(p, c)) BY <1>2, WhenExplained DEF Backfill
  <2>2. Explained(ds, Backfill(p, c) \o Alter("set_not_null", c)) BY <2>1, <1>2, BothExplained
  <2>3. Explained(ds, IF c.notNull THEN Backfill(p, c) \o Alter("set_not_null", c) ELSE Alter("drop_not_null", c))
    BY <1>2, <2>2
  <2> QED BY <2>3, WhenExplained
<1>5. Explained(ds, expr) BY <1>2, WhenExplained
<1>6. Explained(ds, redo)
  <2> SUFFICES ASSUME Rewritten(p, c) PROVE Explained(ds, DropGenerated(p, c) \o AddGenerated(p, c))
    BY WhenExplained
  <2>1. c.gen # {} BY DEF Rewritten
  <2>2. \E d \in ds \cup Owed({c}) : d.kind = "drop_column" /\ d.col = Key(c)
    <3> DEFINE d == [kind |-> "drop_column", col |-> Key(c)]
    <3>1. d \in Owed({c}) BY DEF Owed
    <3>2. d.kind = "drop_column" /\ d.col = Key(c) OBVIOUS
    <3> HIDE DEF d
    <3> QED BY <3>1, <3>2
  <2>3. Explained(ds \cup Owed({c}), DropGenerated(p, c)) BY <2>2, DropGeneratedExplained
  <2>4. Explained(ds, AddGenerated(p, c)) /\ [op |-> "add_column", col |-> c] \in ToSet(AddGenerated(p, c))
    BY AddGeneratedExplained
  <2> DEFINE D == {c}
  <2>5. \A g \in D : g.gen # {} /\ [op |-> "add_column", col |-> g] \in ToSet(AddGenerated(p, c))
    BY <2>1, <2>4
  <2>6. Explained(ds \cup Owed(D), DropGenerated(p, c)) BY <2>3
  <2> HIDE DEF D
  <2> QED BY <2>4, <2>5, <2>6, OwedExplained
<1>7. AlterColumn(p, c) = type \o dflt \o null \o expr \o redo BY DEF AlterColumn
<1> HIDE DEF type, dflt, null, expr, redo
<1> QED BY <1>1, <1>3, <1>4, <1>5, <1>6, <1>7, BothExplained

\* What an alteration takes down, it puts back.
LEMMA AltersExplained == ASSUME NEW p, Told(p) PROVE Explained(p.list, Alters(p))
<1> DEFINE ds == p.list
<1>0. Finite(p.to) /\ IsFiniteSet(p.to.labels) /\ IsFiniteSet(p.to.cols) BY DEF Told, Finite
<1>1. Explained(ds, Each(p.to.labels \ p.from.labels, LAMBDA l : <<[op |-> "add_label", label |-> l]>>))
  <2> DEFINE order == Listed(p.to.labels \ p.from.labels)
             s == [i \in DOMAIN order |-> <<[op |-> "add_label", label |-> order[i]]>>]
  <2>1. IsFiniteSet(p.to.labels \ p.from.labels) BY <1>0, FS_Subset
  <2>2. order \in Seq(ToSet(order)) BY <2>1, ListedIs
  <2>3. \A l : Explained(ds, <<[op |-> "add_label", label |-> l]>>) BY DropsNeither DEF Destroying
  <2>4. s = [i \in DOMAIN order |-> s[i]] /\ \A i \in DOMAIN order : Explained(ds, s[i])
    <3> HIDE DEF order
    <3> QED BY <2>3
  <2>5. Explained(ds, FlattenSeq(s))
    <3> HIDE DEF s, order
    <3> QED BY <2>2, <2>4, TurnExplained
  <2> QED BY <2>5 DEF Each, InTurn
<1>2. Explained(ds, RecreateEnum(p))
  <2> DEFINE S == {c \in p.to.cols : Continues(p, c) /\ Before(p, c).type = "mood"}
             Turn(c) == When(Before(p, c).default, Alter("drop_default", c))
                          \o <<[op |-> "map_type", col |-> <<c.rel, c.name>>, using |-> Using(p)]>>
                          \o When(c.default, Alter("set_default", c))
             order == Listed(S)
             s == [i \in DOMAIN order |-> Turn(order[i])]
             old == <<[op |-> "rename_type"], [op |-> "create_type", labels |-> p.to.labels]>>
             end == <<[op |-> "drop_type"]>>
  <2>1. IsFiniteSet(S) BY <1>0, FS_Subset
  <2> HIDE DEF S
  <2>2. order \in Seq(ToSet(order)) BY <2>1, ListedIs
  <2>3. \A c : Explained(ds, Turn(c))
    <3> TAKE c
    <3>1. Explained(ds, <<[op |-> "map_type", col |-> <<c.rel, c.name>>, using |-> Using(p)]>>)
      BY DropsNeither DEF Destroying
    <3>2. Explained(ds, When(Before(p, c).default, Alter("drop_default", c)))
          /\ Explained(ds, When(c.default, Alter("set_default", c)))
      BY AlterExplained, WhenExplained DEF Destroying
    <3> DEFINE a == When(Before(p, c).default, Alter("drop_default", c))
               b == <<[op |-> "map_type", col |-> <<c.rel, c.name>>, using |-> Using(p)]>>
               d == When(c.default, Alter("set_default", c))
    <3>3. Explained(ds, a \o b \o d)
      <4> HIDE DEF a, b, d
      <4> QED BY <3>1, <3>2, BothExplained DEF a, b, d
    <3> QED BY <3>3
  <2>4. s = [i \in DOMAIN order |-> s[i]] /\ \A i \in DOMAIN order : Explained(ds, s[i])
    <3> HIDE DEF order, Turn
    <3> QED BY <2>3
  <2>5. Explained(ds, FlattenSeq(s))
    <3> HIDE DEF s, order
    <3> QED BY <2>2, <2>4, TurnExplained
  <2>6. Explained(ds, old)
    <3> DEFINE x == [op |-> "rename_type"]
               y == [op |-> "create_type", labels |-> p.to.labels]
    <3>1. Explained(ds, <<x>>) /\ Explained(ds, <<y>>) BY DropsNeither DEF Destroying
    <3>2. old = <<x>> \o <<y>> BY Zenon, PairIs
    <3> HIDE DEF x, y, old
    <3> QED BY <3>1, <3>2, BothExplained
  <2>7. Explained(ds, end) BY DropsNeither DEF Destroying
  <2>8. RecreateEnum(p) = old \o FlattenSeq(s) \o end BY DEF RecreateEnum, Each, InTurn, S
  <2> HIDE DEF old, s, end
  <2> QED BY <2>5, <2>6, <2>7, <2>8, BothExplained
<1>3. Explained(ds, AlterType(p)) BY <1>1, <1>2, WhenExplained DEF AlterType
<1>4. \A r : Explained(ds, AlterTable(p, r))
  <2> TAKE r
  <2> DEFINE old == {c \in ColumnsOf(p.to, r) : Continues(p, c)}
             order == InOrder(old)
             s == [i \in DOMAIN order |-> AlterColumn(p, order[i])]
  <2>1. IsFiniteSet(old) BY <1>0, FS_Subset DEF ColumnsOf
  <2>2. order \in Seq(old)
    <3> HIDE DEF old
    <3> QED BY InOrderIn
  <2>3. \A c : Explained(ds, AlterColumn(p, c)) BY <1>0, AlterColumnExplained
  <2>4. s = [i \in DOMAIN order |-> s[i]] /\ \A i \in DOMAIN order : Explained(ds, s[i])
    <3> HIDE DEF order
    <3> QED BY <2>3
  <2>5. Explained(ds, FlattenSeq(s))
    <3> HIDE DEF s, order, old
    <3> QED BY <2>2, <2>4, TurnExplained
  <2>6. Explained(ds, BackfillsLeft(p, old))
    <3> HIDE DEF old
    <3> QED BY <2>1, UpdatesExplained
  <2>7. AlterTable(p, r) = FlattenSeq(s) \o BackfillsLeft(p, old) BY DEF AlterTable, InTurn
  <2> HIDE DEF s, old
  <2> QED BY <2>5, <2>6, <2>7, BothExplained
<1>5. Explained(ds, InTurn(Ordered(RelationOrder, Continued(p)), LAMBDA r : AlterTable(p, r)))
  <2> DEFINE order == Ordered(RelationOrder, Continued(p))
             s == [i \in DOMAIN order |-> AlterTable(p, order[i])]
  <2>1. order \in Seq(Continued(p)) BY OrderedIn, OrderAssumption
  <2>2. s = [i \in DOMAIN order |-> s[i]] /\ \A i \in DOMAIN order : Explained(ds, s[i])
    <3> HIDE DEF order
    <3> QED BY <1>4
  <2>3. Explained(ds, FlattenSeq(s))
    <3> HIDE DEF s, order
    <3> QED BY <2>1, <2>2, TurnExplained
  <2> QED BY <2>3 DEF InTurn
<1> QED BY <1>3, <1>5, BothExplained DEF Alters

\* An addition drops nothing.
LEMMA AddsExplained == ASSUME NEW p, Told(p) PROVE Explained(p.list, Adds(p))
<1> DEFINE ds == p.list
<1>0. IsFiniteSet(p.to.parts) /\ IsFiniteSet(p.to.cols) BY DEF Told, Finite
<1>1. \A kinds : Explained(ds, Each(Missing(p, kinds), AddPart))
  <2>1. \A kinds : IsFiniteSet(Missing(p, kinds)) BY <1>0, FS_Subset DEF Missing
  <2> QED BY <2>1, PartsExplained
<1>2. \A c : Explained(ds, AddColumn(p, c))
  <2> TAKE c
  <2> DEFINE a == <<[op |-> "add_column", col |-> [c EXCEPT !.notNull = FALSE]]>>
             b == Backfill(p, c)
             d == Alter("set_not_null", c)
             e == <<[op |-> "add_column", col |-> c]>>
  <2>1. Explained(ds, a) /\ Explained(ds, e) BY DropsNeither DEF Destroying
  <2>2. Explained(ds, b) /\ Explained(ds, d) BY AlterExplained, WhenExplained DEF Backfill, Destroying
  <2>3. AddColumn(p, c) = IF c.notNull /\ <<c.rel, c.name>> \in Filling(p) THEN a \o b \o d ELSE e BY DEF AddColumn
  <2> HIDE DEF a, b, d, e
  <2>4. Explained(ds, a \o b \o d) BY <2>1, <2>2, BothExplained
  <2> QED BY <2>1, <2>3, <2>4
<1>3. \A r : Explained(ds, AddRelation(p, r))
  <2> TAKE r
  <2> DEFINE fresh == {c \in ColumnsOf(p.to, r) : ~Continues(p, c)}
             order == ReadsLast(fresh)
             s == [i \in DOMAIN order |-> AddColumn(p, order[i])]
             v == View(p.to, r)
             table == <<[op |-> "create_table", rel |-> r, cols |-> ColumnsOf(p.to, r),
                         checks |-> {a \in PartsOf(p.to, r) : a.kind = "check"}]>>
             view == <<[op |-> "create_view", view |-> v]>>
             anew == <<[op |-> "replace_view", view |-> v]>>
  <2>1. IsFiniteSet(fresh) BY <1>0, FS_Subset DEF ColumnsOf
  <2>2. order \in Seq(fresh)
    <3> HIDE DEF fresh
    <3> QED BY ReadsLastIn
  <2>3. s = [i \in DOMAIN order |-> s[i]] /\ \A i \in DOMAIN order : Explained(ds, s[i])
    <3> HIDE DEF order
    <3> QED BY <1>2
  <2>4. Explained(ds, FlattenSeq(s))
    <3> HIDE DEF s, order, fresh
    <3> QED BY <2>2, <2>3, TurnExplained
  <2>5. Explained(ds, BackfillsLeft(p, fresh))
    <3> HIDE DEF fresh
    <3> QED BY <2>1, UpdatesExplained
  <2>6. Explained(ds, table) /\ Explained(ds, view) /\ Explained(ds, anew) BY DropsNeither DEF Destroying
  <2>7. \A b : Explained(ds, When(b, anew))
    <3> HIDE DEF anew
    <3> QED BY <2>6, WhenExplained
  <2>8. \/ AddRelation(p, r) = FlattenSeq(s) \o BackfillsLeft(p, fresh) \/ AddRelation(p, r) = table
        \/ AddRelation(p, r) = view \/ \E b : AddRelation(p, r) = When(b, anew)
    BY DEF AddRelation, InTurn
  <2> HIDE DEF s, fresh, table, view, anew
  <2>9. Explained(ds, FlattenSeq(s) \o BackfillsLeft(p, fresh)) BY <2>4, <2>5, BothExplained
  <2> QED BY <2>6, <2>7, <2>8, <2>9
<1>4. Explained(ds, InTurn(Ordered(RelationOrder, p.to.tables \cup ViewNames(p.to)), LAMBDA r : AddRelation(p, r)))
  <2> DEFINE S == p.to.tables \cup ViewNames(p.to)
             order == Ordered(RelationOrder, S)
             s == [i \in DOMAIN order |-> AddRelation(p, order[i])]
  <2>1. order \in Seq(S)
    <3> HIDE DEF S
    <3> QED BY OrderedIn, OrderAssumption
  <2>2. s = [i \in DOMAIN order |-> s[i]] /\ \A i \in DOMAIN order : Explained(ds, s[i])
    <3> HIDE DEF order
    <3> QED BY <1>3
  <2>3. Explained(ds, FlattenSeq(s))
    <3> HIDE DEF s, order, S
    <3> QED BY <2>1, <2>2, TurnExplained
  <2> QED BY <2>3 DEF InTurn
<1> QED BY <1>1, <1>4, BothExplained DEF Adds

\* Whatever a plan drops is declared dropped, or added again further on.
LEMMA PlanExplained == ASSUME NEW p, Told(p) PROVE Explained(p.list, Plan(p))
  BY DropsExplained, RenamesExplained, AltersExplained, AddsExplained, BothExplained DEF Plan

\* What the author has made is finite; a plan is made once, and drops what is declared only.
PlansTold ==
  /\ Finite(to) /\ IsFiniteSet(list)
  /\ pc = "edit" => plan = <<>>
  /\ pc = "run" => plan # <<>>
  /\ Explained(list, plan)

\* A planner without problems is told of everything that goes.
LEMMA PlannerTold ==
  ASSUME Finite(to), IsFiniteSet(list), NEW p, p = Planner(Source, to, list), ~HasProblems(p)
  PROVE  Told(p) /\ p.list = list
<1>1. p.from = Source /\ p.to = to /\ p.list = list BY DEF Planner
<1>2. IsFiniteSet(p.relTo)
  <2> DEFINE S == {i \in list : TableRenamed(Source, to, i)}
             f == [i \in S |-> <<i.rel, i.to>>]
  <2>1. IsFiniteSet(S) BY FS_Subset
  <2>2. p.relTo = {f[i] : i \in S} BY DEF Planner
  <2> HIDE DEF S, f
  <2> QED BY <2>1, <2>2, FiniteImage
<1>3. IsFiniteSet(p.colTo)
  <2> DEFINE S == {i \in list : ColumnRenamed(Source, to, p.relTo, i)}
             f == [i \in S |-> <<i.col, i.to>>]
  <2>1. IsFiniteSet(S) BY FS_Subset
  <2>2. p.colTo = {f[i] : i \in S} BY DEF Planner
  <2> HIDE DEF S, f
  <2> QED BY <2>1, <2>2, FiniteImage
<1>4. Undeclared(p) = {} BY DEF HasProblems
<1>5. WellFormed(Source) /\ Finite(Source) /\ Source.tables \subseteq ToSet(RelationOrder) BY SourceAssumption
<1> QED BY <1>1, <1>2, <1>3, <1>4, <1>5 DEF Told, WellFormed

\* What is left of an explained sequence when its first statement has run.
LEMMA TailExplained ==
  ASSUME NEW ds, NEW q, Explained(ds, q), q # <<>>
  PROVE  Explained(ds, Tail(q))
<1> DEFINE t == Tail(q)
<1>1. q \in Seq(ToSet(q)) BY DEF Explained
<1>2. t \in Seq(ToSet(q)) /\ DOMAIN t = 1..Len(q)-1 /\ \A i \in DOMAIN t : t[i] = q[i+1] BY <1>1
<1>3. DOMAIN q = 1..Len(q) /\ Len(q) \in Nat BY <1>1
<1> HIDE DEF t
<1>4. t \in Seq(ToSet(t)) BY <1>2, SeqOfItsOwn
<1>5. ASSUME NEW i \in DOMAIN t
      PROVE  \/ Settled(ds, t[i])
             \/ t[i].op = "drop_column" /\ \E j \in DOMAIN t : j > i /\ Again(t[i], t[j])
  <2>1. i + 1 \in DOMAIN q /\ t[i] = q[i+1] BY <1>2, <1>3
  <2>2. ASSUME NEW j \in DOMAIN q, j > i + 1, Again(q[i+1], q[j])
        PROVE  \E k \in DOMAIN t : k > i /\ Again(t[i], t[k])
    <3>1. j - 1 \in DOMAIN t /\ j - 1 > i /\ (j - 1) + 1 = j BY <2>2, <1>2, <1>3
    <3>2. t[j-1] = q[j] BY <3>1, <1>2
    <3> QED BY <2>1, <2>2, <3>1, <3>2
  <2> QED BY <2>1, <2>2 DEF Explained
<1> QED BY <1>4, <1>5 DEF Explained, t

\* At first there is no plan.
LEMMA ToldInit == Init => PlansTold
  BY SourceAssumption, FS_EmptySet, NothingExplained DEF Init, PlansTold

\* An edit leaves the plan alone, which is still to be made.
LEMMA EditTold ==
  ASSUME PlansTold, NEW kind, NEW new, Finite(new), NEW origin, NEW ds, IsFiniteSet(ds),
         Editing, Edit(kind, new, origin, ds)
  PROVE  PlansTold'
<1>1. pc = "edit" /\ pc' = pc /\ plan' = plan /\ to' = new BY DEF Editing, Edit
<1>2. IsFiniteSet(list')
  <2>1. IsFiniteSet(list) /\ IsFiniteSet(list \cup ds) BY FS_Union DEF PlansTold
  <2> QED BY <2>1 DEF Edit
<1>3. plan' = <<>> /\ Explained(list', <<>>) BY <1>1, NothingExplained DEF PlansTold
<1> QED BY <1>1, <1>2, <1>3 DEF PlansTold

\* A column in the place of another leaves them as many.
LEMMA RecolumnFinite == ASSUME WellFormed(to), Finite(to), NEW c, NEW d PROVE Finite(Recolumn(c, d))
<1> DEFINE s == Recolumn(c, d)
<1>1. s.cols = (to.cols \ {c}) \cup {d} /\ s.parts = to.parts /\ s.labels = to.labels
  BY DEF WellFormed, Recolumn
<1>2. IsFiniteSet(to.cols \ {c}) BY FS_Subset DEF Finite
<1>3. IsFiniteSet((to.cols \ {c}) \cup {d}) BY <1>2, FS_AddElement
<1> HIDE DEF s
<1>4. Finite(s) BY <1>1, <1>3 DEF Finite
<1> QED BY <1>4 DEF s

\* Columns that no longer read another are no more than they were.
LEMMA UnreadFinite == ASSUME NEW s, WellFormed(s), Finite(s), NEW x PROVE Finite(Unread(s, x))
<1> DEFINE u == Unread(s, x)
           f == [c \in s.cols |-> UnreadBy(c, x)]
<1>1. /\ u.cols = {f[c] : c \in s.cols} /\ u.labels = s.labels
      /\ u.parts = {a \in s.parts : a.rel = x[1] => x[2] \notin a.cols}
  BY DEF WellFormed, Unread
<1> HIDE DEF u, f
<1>2. IsFiniteSet(u.cols) BY <1>1, FiniteImage DEF Finite
<1>3. IsFiniteSet(u.parts) BY <1>1, FS_Subset DEF Finite
<1>4. Finite(u) BY <1>1, <1>2, <1>3 DEF Finite
<1> QED BY <1>4 DEF u

\* Nor are they more under new names,
LEMMA ColumnRenamedFinite ==
  ASSUME NEW s, WellFormed(s), Finite(s), NEW c, NEW n
  PROVE  Finite(ColumnRenamedTo(s, c, n))
<1> DEFINE u == ColumnRenamedTo(s, c, n)
<1>1. /\ \E f : u.cols = {f[d] : d \in s.cols}
      /\ \E f : u.parts = {f[a] : a \in s.parts}
      /\ u.labels = s.labels
  <2> DEFINE New(x) == IF x = Key(c) THEN <<c.rel, n>> ELSE x
             Column(d) == [d EXCEPT !.rel = New(<<d.rel, d.name>>)[1], !.name = New(<<d.rel, d.name>>)[2],
                                    !.gen = {New(<<d.rel, m>>)[2] : m \in d.gen}]
             Part(p) == [p EXCEPT !.rel = New(<<p.rel, "">>)[1], !.cols = {New(<<p.rel, m>>)[2] : m \in p.cols},
                                  !.ref = New(<<p.ref, "">>)[1], !.refCols = {New(<<p.ref, m>>)[2] : m \in p.refCols}]
             f == [d \in s.cols |-> Column(d)]
             g == [p \in s.parts |-> Part(p)]
  <2>1. /\ u.cols = {Column(d) : d \in s.cols} /\ u.parts = {Part(p) : p \in s.parts} /\ u.labels = s.labels
    BY DEF WellFormed, Renamed, ColumnRenamedTo
  <2> HIDE DEF u, Column, Part
  <2>2. u.cols = {f[d] : d \in s.cols} /\ u.parts = {g[p] : p \in s.parts} BY <2>1
  <2> HIDE DEF f, g
  <2> QED BY <2>1, <2>2
<1> HIDE DEF u
<1>2. IsFiniteSet(u.cols) /\ IsFiniteSet(u.parts) BY <1>1, FiniteImage DEF Finite
<1>3. Finite(u) BY <1>1, <1>2 DEF Finite
<1> QED BY <1>3 DEF u

\* the column's or the table's.
LEMMA TableRenamedFinite ==
  ASSUME NEW s, WellFormed(s), Finite(s), NEW r, NEW n
  PROVE  Finite(TableRenamedTo(s, r, n))
<1> DEFINE u == TableRenamedTo(s, r, n)
<1>1. /\ \E f : u.cols = {f[d] : d \in s.cols}
      /\ \E f : u.parts = {f[a] : a \in s.parts}
      /\ u.labels = s.labels
  <2> DEFINE New(x) == IF x[1] = r THEN <<n, x[2]>> ELSE x
             Column(d) == [d EXCEPT !.rel = New(<<d.rel, d.name>>)[1], !.name = New(<<d.rel, d.name>>)[2],
                                    !.gen = {New(<<d.rel, m>>)[2] : m \in d.gen}]
             Part(p) == [p EXCEPT !.rel = New(<<p.rel, "">>)[1], !.cols = {New(<<p.rel, m>>)[2] : m \in p.cols},
                                  !.ref = New(<<p.ref, "">>)[1], !.refCols = {New(<<p.ref, m>>)[2] : m \in p.refCols}]
             f == [d \in s.cols |-> Column(d)]
             g == [p \in s.parts |-> Part(p)]
  <2>1. /\ u.cols = {Column(d) : d \in s.cols} /\ u.parts = {Part(p) : p \in s.parts} /\ u.labels = s.labels
    BY DEF WellFormed, Renamed, TableRenamedTo
  <2> HIDE DEF u, Column, Part
  <2>2. u.cols = {f[d] : d \in s.cols} /\ u.parts = {g[p] : p \in s.parts} BY <2>1
  <2> HIDE DEF f, g
  <2> QED BY <2>1, <2>2
<1> HIDE DEF u
<1>2. IsFiniteSet(u.cols) /\ IsFiniteSet(u.parts) BY <1>1, FiniteImage DEF Finite
<1>3. Finite(u) BY <1>1, <1>2 DEF Finite
<1> QED BY <1>3 DEF u

\* No change of the author and no statement run makes the plan one that drops what is not declared.
LEMMA ToldNext == Authored /\ PlansTold /\ [Next]_vars => PlansTold'
<1> SUFFICES ASSUME Authored, PlansTold, [Next]_vars PROVE PlansTold' OBVIOUS
<1>0. WellFormed(to) /\ Finite(to) /\ DOMAIN to = {"tables", "cols", "parts", "views", "labels"}
  BY DEF Authored, PlansTold, WellFormed
<1>a. IsFiniteSet({}) /\ \A x : IsFiniteSet({x}) BY FS_EmptySet, FS_Singleton
<1>b. \A S, T : IsFiniteSet(S) /\ T \subseteq S => IsFiniteSet(T) BY FS_Subset
<1>c. \A S, x : IsFiniteSet(S) => IsFiniteSet(S \cup {x}) BY FS_AddElement
<1>d. IsFiniteSet(to.cols) /\ IsFiniteSet(to.parts) /\ IsFiniteSet(to.labels) BY <1>0 DEF Finite
<1>1. ASSUME DropColumnEdit PROVE PlansTold'
  <2>1. PICK c \in to.cols : Edit("drop_column", Unread([to EXCEPT !.cols = @ \ {c}], Key(c)),
                                 Keeping(Names(Unread([to EXCEPT !.cols = @ \ {c}], Key(c)))),
                                 {[kind |-> "drop_column", col |-> was[Key(c)]]})
    BY <1>1 DEF DropColumnEdit
  <2> DEFINE s == [to EXCEPT !.cols = @ \ {c}]
  <2>2. WellFormed(s) BY <1>0 DEF WellFormed, ColumnsFormed
  <2>3. Finite(s) BY <1>0, <1>b, <1>d DEF Finite
  <2>4. Finite(Unread(s, Key(c))) BY <2>2, <2>3, UnreadFinite
  <2> QED BY <1>1, <1>a, <2>1, <2>4, EditTold DEF DropColumnEdit
<1>2. ASSUME RetypeEdit PROVE PlansTold'
  <2>1. PICK c, t : Edit("retype", Recolumn(c, [c EXCEPT !.type = t]), was, {}) BY <1>2 DEF RetypeEdit, Same
  <2> QED BY <1>0, <1>2, <1>a, <2>1, RecolumnFinite, EditTold DEF RetypeEdit
<1>3. ASSUME NullEdit PROVE PlansTold'
  <2>1. PICK c : Edit("null", Recolumn(c, [c EXCEPT !.notNull = ~@, !.default = FALSE]), was,
                      IF c.notNull THEN {} ELSE {[kind |-> "backfill", col |-> Key(c)]})
    BY <1>3 DEF NullEdit
  <2>2. IsFiniteSet(IF c.notNull THEN {} ELSE {[kind |-> "backfill", col |-> Key(c)]}) BY <1>a
  <2> QED BY <1>0, <1>3, <2>1, <2>2, RecolumnFinite, EditTold DEF NullEdit
<1>4. ASSUME RenameColumnEdit PROVE PlansTold'
  <2>1. PICK c, n, origin, d : Edit("rename_column", ColumnRenamedTo(to, c, n), origin, {d})
    BY <1>4 DEF RenameColumnEdit
  <2> QED BY <1>0, <1>4, <1>a, <2>1, ColumnRenamedFinite, EditTold DEF RenameColumnEdit
<1>5. ASSUME RenameTableEdit PROVE PlansTold'
  <2>1. PICK r, n, origin, d : Edit("rename_table", TableRenamedTo(to, r, n), origin, {d})
    BY <1>5 DEF RenameTableEdit
  <2> QED BY <1>0, <1>5, <1>a, <2>1, TableRenamedFinite, EditTold DEF RenameTableEdit
<1>6. ASSUME DropTableEdit PROVE PlansTold'
  <2>1. PICK r, origin, d :
          Edit("drop_table", [to EXCEPT !.tables = @ \ {r}, !.cols = {c \in @ : c.rel # r},
                                        !.parts = {a \in @ : a.rel # r}], origin, {d})
    BY <1>6 DEF DropTableEdit
  <2> DEFINE s == [to EXCEPT !.tables = @ \ {r}, !.cols = {c \in @ : c.rel # r}, !.parts = {a \in @ : a.rel # r}]
  <2>2. s.cols \subseteq to.cols /\ s.parts \subseteq to.parts /\ s.labels = to.labels BY <1>0
  <2> HIDE DEF s
  <2>3. Finite(s) BY <1>b, <1>d, <2>2 DEF Finite
  <2> QED BY <1>6, <1>a, <2>1, <2>3, EditTold DEF DropTableEdit, s
<1>7. ASSUME AddColumnEdit PROVE PlansTold'
  <2>1. PICK c, nn, x : Edit("add_column", [to EXCEPT !.cols = @ \cup {c}], was,
                             IF nn THEN {[kind |-> "backfill", col |-> x]} ELSE {})
    BY <1>7 DEF AddColumnEdit
  <2>2. Finite([to EXCEPT !.cols = @ \cup {c}]) BY <1>0, <1>c, <1>d DEF Finite
  <2>3. IsFiniteSet(IF nn THEN {[kind |-> "backfill", col |-> x]} ELSE {}) BY <1>a
  <2> QED BY <1>7, <2>1, <2>2, <2>3, EditTold DEF AddColumnEdit
<1>8. ASSUME AddTableEdit PROVE PlansTold'
  <2>1. PICK n, c, a : Edit("add_table", [to EXCEPT !.tables = @ \cup {n}, !.cols = @ \cup {c}, !.parts = @ \cup {a}],
                            was, {})
    BY <1>8 DEF AddTableEdit, Same
  <2> DEFINE s == [to EXCEPT !.tables = @ \cup {n}, !.cols = @ \cup {c}, !.parts = @ \cup {a}]
  <2>2. s.cols = to.cols \cup {c} /\ s.parts = to.parts \cup {a} /\ s.labels = to.labels BY <1>0
  <2> HIDE DEF s
  <2>4. IsFiniteSet(to.cols \cup {c}) /\ IsFiniteSet(to.parts \cup {a}) BY <1>d, FS_AddElement
  <2>3. Finite(s) BY <1>d, <2>2, <2>4 DEF Finite
  <2> QED BY <1>8, <1>a, <2>1, <2>3, EditTold DEF AddTableEdit, s
<1>9. ASSUME PartEdit PROVE PlansTold'
  <2>1. PICK parts : Edit("part", [to EXCEPT !.parts = parts], was, {}) /\ IsFiniteSet(parts)
    <3>1. \/ \E a : Edit("part", [to EXCEPT !.parts = @ \ {a}], was, {})
          \/ \E a, b : Edit("part", [to EXCEPT !.parts = (@ \ {a}) \cup {b}], was, {})
          \/ \E b : Edit("part", [to EXCEPT !.parts = @ \cup {b}], was, {})
      BY <1>9 DEF PartEdit, Same
    <3>2. \A a, b : /\ IsFiniteSet(to.parts \ {a}) /\ IsFiniteSet(to.parts \cup {b})
                   /\ IsFiniteSet((to.parts \ {a}) \cup {b})
      BY <1>b, <1>c, <1>d
    <3> QED BY <3>1, <3>2
  <2>2. Finite([to EXCEPT !.parts = parts]) BY <1>0, <1>d, <2>1 DEF Finite
  <2> QED BY <1>9, <1>a, <2>1, <2>2, EditTold DEF PartEdit
<1>10. ASSUME ViewEdit PROVE PlansTold'
  <2>1. PICK views : Edit("view", [to EXCEPT !.views = views], was, {}) BY <1>10 DEF ViewEdit, Same
  <2>2. Finite([to EXCEPT !.views = views]) BY <1>0, <1>d DEF Finite
  <2> QED BY <1>10, <1>a, <2>1, <2>2, EditTold DEF ViewEdit
<1>11. ASSUME LabelEdit PROVE PlansTold'
  <2>1. PICK labels, ds : /\ Edit("label", [to EXCEPT !.labels = labels], was, ds)
                          /\ IsFiniteSet(labels) /\ IsFiniteSet(ds)
    <3>1. \/ \E l, d : Edit("label", [to EXCEPT !.labels = @ \ {l}], was, {d})
          \/ Edit("label", [to EXCEPT !.labels = @ \cup {"new"}], was, {})
      BY <1>11 DEF LabelEdit, Same
    <3>2. \A l : IsFiniteSet(to.labels \ {l}) /\ IsFiniteSet(to.labels \cup {l}) BY <1>b, <1>c, <1>d
    <3> QED BY <3>1, <3>2, <1>a
  <2>2. Finite([to EXCEPT !.labels = labels]) BY <1>0, <1>d, <2>1 DEF Finite
  <2> QED BY <1>11, <2>1, <2>2, EditTold DEF LabelEdit
<1>12. ASSUME GeneratedEdit PROVE PlansTold'
  <2>1. PICK c, g : Edit("generated", Recolumn(c, [c EXCEPT !.gen = g, !.default = FALSE]), was, {})
    BY <1>12 DEF GeneratedEdit, Same
  <2> QED BY <1>0, <1>12, <1>a, <2>1, RecolumnFinite, EditTold DEF GeneratedEdit
<1>13. ASSUME MakePlan PROVE PlansTold'
  <2> DEFINE p == Planner(Source, to, list)
             statements == Plan(p)
  <2>1. to' = to /\ list' = list /\ pc = "edit" BY <1>13 DEF MakePlan
  <2>2. CASE HasProblems(p)
    <3>1. pc' = "problems" /\ plan' = plan BY <1>13, <2>2 DEF MakePlan
    <3> QED BY <2>1, <3>1 DEF PlansTold
  <2>3. CASE ~HasProblems(p)
    <3>1. plan' = statements /\ pc' = IF statements = <<>> THEN "done" ELSE "run" BY <1>13, <2>3 DEF MakePlan
    <3> HIDE DEF p
    <3>2. Told(p) /\ p.list = list BY <2>3, <1>0, PlannerTold DEF PlansTold, p
    <3>3. Explained(list, statements) BY <3>2, PlanExplained
    <3> HIDE DEF statements
    <3> QED BY <2>1, <3>1, <3>3 DEF PlansTold
  <2> QED BY <2>2, <2>3
<1>14. ASSUME Execute PROVE PlansTold'
  <2>1. to' = to /\ list' = list /\ pc = "run" /\ plan # <<>> /\ Explained(list, plan)
    BY <1>14 DEF Execute, PlansTold
  <2>2. CASE Accepts(db, Head(plan))
    <3>1. plan' = Tail(plan) /\ pc' = IF Len(plan) = 1 THEN "done" ELSE "run" BY <1>14, <2>2 DEF Execute
    <3>2. Explained(list, plan') BY <2>1, <3>1, TailExplained
    <3>3. pc' = "run" => plan' # <<>>
      <4> DEFINE A == ToSet(plan)
      <4>1. plan \in Seq(A) BY <2>1 DEF Explained
      <4> HIDE DEF A
      <4>2. Len(plan) # 1 => Len(Tail(plan)) # 0 BY <2>1, <4>1
      <4> QED BY <3>1, <4>2
    <3>4. pc' # "edit" BY <3>1
    <3> QED BY <2>1, <3>2, <3>3, <3>4 DEF PlansTold
  <2>3. CASE ~Accepts(db, Head(plan))
    <3>1. plan' = plan /\ pc' = "refused" BY <1>14, <2>3 DEF Execute
    <3> QED BY <2>1, <3>1 DEF PlansTold
  <2> QED BY <2>2, <2>3
<1>15. CASE UNCHANGED vars BY <1>15 DEF PlansTold, vars
<1> QED BY <1>1, <1>2, <1>3, <1>4, <1>5, <1>6, <1>7, <1>8, <1>9, <1>10, <1>11, <1>12, <1>13, <1>14, <1>15 DEF Next

\* Whatever the author changes, and forgets to declare, the plan drops no table and no column but
\* those declared dropped, and computed columns that it adds again further on; and so does what is
\* left of it while it runs.
THEOREM DropsAreDeclared == Spec => []DropsDeclared
<1>1. PlansTold => DropsDeclared BY DEF PlansTold, Explained, Settled, Again, DropsDeclared
<1>2. Authored /\ PlansTold /\ [Next]_vars => (Authored /\ PlansTold)' BY AuthoredNext, ToldNext
<1> QED BY <1>1, <1>2, AuthoredInit, ToldInit, PTL DEF Spec
-----------------------------------------------------------------------------
(* what a statement does to a value *)

\* The columns of a database are of its tables, and it holds values in columns only.
Sound(d) ==
  /\ DOMAIN d = {"tables", "cols", "parts", "views", "labels", "val"}
  /\ \A c \in d.cols : DOMAIN c = {"rel", "name", "type", "notNull", "default", "gen"} /\ c.rel \in d.tables
  /\ DOMAIN d.val \subseteq Names(d)

\* What x may hold once it is declared what its label becomes.
Kept(ds, x, v) == v # "null" /\ (v = Holds(x) \/ \E i \in ds : i.kind = "enum" /\ i.label = Holds(x) /\ i.using = v)

\* Statement st leaves what x held in u alone, which is w afterwards.
Moves(ds, x, st, u, w) ==
  /\ st.op = "drop_table" => st.rel # u[1]
  /\ st.op = "drop_column" => st.col # u
  /\ st.op = "map_type" /\ st.col = u => \A v : Kept(ds, x, v) => Kept(ds, x, Mapped(st.using, v))
  /\ st.op = "create_table" =>
       \A c \in st.cols : DOMAIN c = {"rel", "name", "type", "notNull", "default", "gen"} /\ c.rel = st.rel
  /\ st.op = "add_column" => DOMAIN st.col = {"rel", "name", "type", "notNull", "default", "gen"}
  /\ w = IF st.op = "rename_table" /\ st.rel = u[1] THEN <<st.to, u[2]>>
         ELSE IF st.op = "rename_column" /\ st.col = u THEN <<u[1], st.to>> ELSE u

ColFields == {"rel", "name", "type", "notNull", "default", "gen"}

\* The column of a name has the name.
LEMMA ColIs ==
  ASSUME NEW d, NEW k, HasCol(d, k)
  PROVE  Col(d, k) \in d.cols /\ Key(Col(d, k)) = k
  BY DEF HasCol, Col, Key

\* A column in the place of another of its name.
LEMMA RecolSound ==
  ASSUME NEW d, Sound(d), NEW k, HasCol(d, k), NEW c, DOMAIN c = ColFields,
         c.rel = Col(d, k).rel, c.name = Col(d, k).name
  PROVE  Sound(Recol(d, k, c)) /\ Recol(d, k, c).val = d.val
<1> DEFINE e == Recol(d, k, c)
<1>1. DOMAIN e = DOMAIN d /\ e.tables = d.tables /\ e.val = d.val /\ e.cols = (d.cols \ {Col(d, k)}) \cup {c}
  BY DEF Recol, Sound
<1>2. Col(d, k) \in d.cols /\ Key(c) = Key(Col(d, k)) BY ColIs DEF Key
<1> HIDE DEF e
<1>3. Names(d) \subseteq Names(e)
  <2>1. ASSUME NEW b \in d.cols PROVE Key(b) \in Names(e)
    <3>1. CASE b = Col(d, k) BY <1>1, <1>2, <3>1 DEF Names
    <3>2. CASE b # Col(d, k) BY <1>1, <3>2 DEF Names
    <3> QED BY <3>1, <3>2
  <2> QED BY <2>1 DEF Names
<1>4. Sound(e) BY <1>1, <1>2, <1>3 DEF Sound, ColFields
<1> QED BY <1>1, <1>4 DEF e

\* A value in a column.
LEMMA SetvalSound ==
  ASSUME NEW d, Sound(d), NEW k \in Names(d), NEW v
  PROVE  /\ Sound(Setval(d, k, v)) /\ DOMAIN Setval(d, k, v).val = DOMAIN d.val \cup {k}
         /\ \A u \in DOMAIN d.val \cup {k} : Setval(d, k, v).val[u] = IF u = k THEN v ELSE d.val[u]
<1> DEFINE e == Setval(d, k, v)
<1>1. /\ DOMAIN e = DOMAIN d /\ e.tables = d.tables /\ e.cols = d.cols
      /\ e.val = [y \in DOMAIN d.val \cup {k} |-> IF y = k THEN v ELSE d.val[y]]
  BY DEF Setval, Sound
<1> HIDE DEF e
<1>2. Names(e) = Names(d) BY <1>1 DEF Names
<1>3. Sound(e) BY <1>1, <1>2 DEF Sound
<1> QED BY <1>1, <1>3 DEF e

\* Database d has in w what x held, or what that may have become.
Holding(ds, x, d, w) == Sound(d) /\ w \in DOMAIN d.val /\ Kept(ds, x, d.val[w])

\* The column changes, and the value stays.
LEMMA AlteredHolds ==
  ASSUME NEW ds, NEW d, NEW x, NEW u, Holding(ds, x, d, u), NEW st, NEW w, Accepts(d, st), Moves(ds, x, st, u, w),
         st.op \in {"type", "set_not_null", "drop_not_null", "set_default", "drop_default", "drop_expression"}
  PROVE  Holding(ds, x, After(d, st), w)
<1>1. HasCol(d, st.col) BY DEF Accepts
<1> DEFINE b == Col(d, st.col)
<1>2. b \in d.cols /\ DOMAIN b = ColFields BY <1>1, ColIs DEF Holding, Sound, ColFields
<1>3. w = u BY DEF Moves
<1>4. \/ After(d, st) = Recol(d, st.col, [b EXCEPT !.type = st.type])
      \/ After(d, st) = Recol(d, st.col, [b EXCEPT !.notNull = TRUE])
      \/ After(d, st) = Recol(d, st.col, [b EXCEPT !.notNull = FALSE])
      \/ After(d, st) = Recol(d, st.col, [b EXCEPT !.default = TRUE])
      \/ After(d, st) = Recol(d, st.col, [b EXCEPT !.default = FALSE])
      \/ After(d, st) = Recol(d, st.col, [b EXCEPT !.gen = {}])
  BY DEF After
<1>5. PICK c : After(d, st) = Recol(d, st.col, c) /\ DOMAIN c = ColFields /\ c.rel = b.rel /\ c.name = b.name
  BY <1>2, <1>4 DEF ColFields
<1>6. Sound(Recol(d, st.col, c)) /\ Recol(d, st.col, c).val = d.val
  BY <1>1, <1>5, RecolSound DEF Holding
<1> QED BY <1>3, <1>5, <1>6 DEF Holding

\* A backfill fills what holds nothing.
LEMMA UpdatedHolds ==
  ASSUME NEW ds, NEW d, NEW x, NEW u, Holding(ds, x, d, u), NEW st, NEW w, Accepts(d, st), Moves(ds, x, st, u, w),
         st.op = "update"
  PROVE  Holding(ds, x, After(d, st), w)
<1>1. HasCol(d, st.col) /\ w = u BY DEF Accepts, Moves
<1>2. After(d, st) = IF d.val[st.col] = "null" THEN Setval(d, st.col, "filled") ELSE d BY DEF After
<1>3. st.col \in Names(d) BY <1>1 DEF HasCol, Names, Key
<1>4. CASE d.val[st.col] = "null"
  <2>1. u # st.col BY <1>4 DEF Holding, Kept
  <2> QED BY <1>1, <1>2, <1>3, <1>4, <2>1, SetvalSound DEF Holding
<1> QED BY <1>1, <1>2, <1>4

\* A label becomes what may be there.
LEMMA MappedHolds ==
  ASSUME NEW ds, NEW d, NEW x, NEW u, Holding(ds, x, d, u), NEW st, NEW w, Accepts(d, st), Moves(ds, x, st, u, w),
         st.op = "map_type"
  PROVE  Holding(ds, x, After(d, st), w)
<1> DEFINE b == Col(d, st.col)
           c == [b EXCEPT !.type = "mood"]
           v == Mapped(st.using, d.val[st.col])
           e == Recol(d, st.col, c)
<1>1. HasCol(d, st.col) /\ w = u BY DEF Accepts, Moves
<1>2. b \in d.cols /\ DOMAIN b = ColFields BY <1>1, ColIs DEF Holding, Sound, ColFields
<1>3. Sound(e) /\ e.val = d.val BY <1>1, <1>2, RecolSound DEF Holding, ColFields
<1>4. After(d, st) = Setval(e, st.col, v) BY DEF After
<1>5. Key(c) = st.col /\ c \in e.cols
  <2>1. Key(b) = st.col BY <1>1, ColIs
  <2>2. Key(c) = Key(b) BY <1>2 DEF Key, ColFields
  <2>3. c \in e.cols BY DEF Recol, Holding, Sound
  <2> QED BY <2>1, <2>2, <2>3
<1>6. st.col \in Names(e)
  <2> HIDE DEF e, c
  <2> QED BY <1>5 DEF Names
<1> HIDE DEF e, v
<1>7. CASE u = st.col
  <2>1. Kept(ds, x, v) BY <1>7 DEF Moves, Holding, v
  <2> QED BY <1>1, <1>3, <1>4, <1>6, <1>7, <2>1, SetvalSound DEF Holding
<1>8. CASE u # st.col BY <1>1, <1>3, <1>4, <1>6, <1>8, SetvalSound DEF Holding
<1> QED BY <1>7, <1>8

\* A new column is another.
LEMMA AddedHolds ==
  ASSUME NEW ds, NEW d, NEW x, NEW u, Holding(ds, x, d, u), NEW st, NEW w, Accepts(d, st), Moves(ds, x, st, u, w),
         st.op = "add_column"
  PROVE  Holding(ds, x, After(d, st), w)
<1> DEFINE e == [d EXCEPT !.cols = @ \cup {st.col}]
<1>1. st.col.rel \in d.tables /\ ~HasCol(d, Key(st.col)) BY DEF Accepts, Key
<1>2. DOMAIN st.col = ColFields /\ w = u BY DEF Moves, ColFields
<1>3. PICK v : After(d, st) = Setval(e, Key(st.col), v) BY DEF After, Key
<1>4. DOMAIN e = DOMAIN d /\ e.tables = d.tables /\ e.val = d.val /\ e.cols = d.cols \cup {st.col}
  BY DEF Holding, Sound
<1> HIDE DEF e
<1>5. Names(d) \subseteq Names(e) /\ Key(st.col) \in Names(e) BY <1>4 DEF Names
<1>6. Sound(e) BY <1>1, <1>2, <1>4, <1>5 DEF Holding, Sound, ColFields
<1>7. u # Key(st.col)
  <2>1. u \in Names(d) BY DEF Holding, Sound
  <2> QED BY <2>1, <1>1 DEF HasCol, Names, Key
<1> QED BY <1>2, <1>3, <1>4, <1>5, <1>6, <1>7, SetvalSound DEF Holding

\* So are those of a new table.
LEMMA CreatedHolds ==
  ASSUME NEW ds, NEW d, NEW x, NEW u, Holding(ds, x, d, u), NEW st, NEW w, Accepts(d, st), Moves(ds, x, st, u, w),
         st.op = "create_table"
  PROVE  Holding(ds, x, After(d, st), w)
<1> DEFINE e == After(d, st)
<1>1. /\ DOMAIN e = DOMAIN d /\ e.tables = d.tables \cup {st.rel} /\ e.cols = d.cols \cup st.cols
      /\ e.val = [y \in DOMAIN d.val \cup {<<c.rel, c.name>> : c \in st.cols} |->
                    IF y \in DOMAIN d.val THEN d.val[y] ELSE "no_row"]
  BY DEF After, Holding, Sound
<1>2. w = u BY DEF Moves
<1>3. \A c \in st.cols : DOMAIN c = ColFields /\ c.rel = st.rel BY DEF Moves, ColFields
<1> HIDE DEF e
<1>4. Names(e) = Names(d) \cup {<<c.rel, c.name>> : c \in st.cols} BY <1>1 DEF Names, Key
<1>5. Sound(e) BY <1>1, <1>3, <1>4 DEF Holding, Sound, ColFields
<1>6. Holding(ds, x, e, w) BY <1>1, <1>2, <1>5 DEF Holding
<1> QED BY <1>6 DEF e

\* What is dropped is another column, or another table.
LEMMA DroppedHolds ==
  ASSUME NEW ds, NEW d, NEW x, NEW u, Holding(ds, x, d, u), NEW st, NEW w, Accepts(d, st), Moves(ds, x, st, u, w),
         st.op \in {"drop_column", "drop_table"}
  PROVE  Holding(ds, x, After(d, st), w)
<1> DEFINE e == After(d, st)
<1> SUFFICES Holding(ds, x, e, w) OBVIOUS
<1>1. w = u BY DEF Moves
<1>2. CASE st.op = "drop_column"
  <2> DEFINE f == [d EXCEPT !.cols = @ \ {Col(d, st.col)},
                            !.parts = {a \in @ : a.rel = st.col[1] => st.col[2] \notin a.cols}]
  <2>1. e = Without(f, {st.col}) BY <1>2 DEF After
  <2>2. DOMAIN f = DOMAIN d /\ f.tables = d.tables /\ f.cols = d.cols \ {Col(d, st.col)} /\ f.val = d.val
    BY DEF Holding, Sound
  <2> HIDE DEF f
  <2>3. /\ DOMAIN e = DOMAIN d /\ e.tables = d.tables /\ e.cols = d.cols \ {Col(d, st.col)}
        /\ e.val = [y \in DOMAIN d.val \ {st.col} |-> d.val[y]]
    BY <2>1, <2>2 DEF Without, Holding, Sound
  <2>4. Key(Col(d, st.col)) = st.col /\ u # st.col BY <1>2, ColIs DEF Accepts, Moves
  <2> HIDE DEF e
  <2>5. Names(d) \ {st.col} \subseteq Names(e) BY <2>3, <2>4 DEF Names
  <2>6. Sound(e) BY <2>3, <2>5 DEF Holding, Sound
  <2> QED BY <1>1, <2>3, <2>4, <2>6 DEF Holding
<1>3. CASE st.op = "drop_table"
  <2> DEFINE f == [d EXCEPT !.tables = @ \ {st.rel}, !.cols = {c \in @ : c.rel # st.rel},
                            !.parts = {a \in @ : a.rel # st.rel}]
             gone == {y \in DOMAIN d.val : y[1] = st.rel}
  <2>1. e = Without(f, gone) BY <1>3 DEF After
  <2>2. /\ DOMAIN f = DOMAIN d /\ f.tables = d.tables \ {st.rel} /\ f.val = d.val
        /\ f.cols = {c \in d.cols : c.rel # st.rel}
    BY DEF Holding, Sound
  <2> HIDE DEF f, gone
  <2>3. /\ DOMAIN e = DOMAIN d /\ e.tables = d.tables \ {st.rel} /\ e.cols = {c \in d.cols : c.rel # st.rel}
        /\ e.val = [y \in DOMAIN d.val \ gone |-> d.val[y]]
    BY <2>1, <2>2 DEF Without, Holding, Sound
  <2>4. /\ DOMAIN e = DOMAIN d /\ e.tables = d.tables \ {st.rel} /\ e.cols = {c \in d.cols : c.rel # st.rel}
        /\ e.val = [y \in DOMAIN d.val \ {y \in DOMAIN d.val : y[1] = st.rel} |-> d.val[y]]
    BY <2>3 DEF gone
  <2>5. u[1] # st.rel BY <1>3 DEF Moves
  <2> HIDE DEF e
  <2>6. \A y \in Names(d) : y[1] # st.rel => y \in Names(e) BY <2>4 DEF Names, Key
  <2>7. Sound(e) BY <2>4, <2>6 DEF Holding, Sound
  <2> QED BY <1>1, <2>4, <2>5, <2>7 DEF Holding
<1> QED BY <1>2, <1>3

\* A value goes with its column wherever New moves that.
LEMMA MovedHolds ==
  ASSUME NEW ds, NEW d, NEW x, NEW u, Holding(ds, x, d, u), NEW e, NEW new, NEW column,
         DOMAIN e = DOMAIN d, e.cols = {column[c] : c \in d.cols},
         \A c \in d.cols : DOMAIN column[c] = ColFields /\ Key(column[c]) = new[Key(c)] /\ column[c].rel \in e.tables,
         DOMAIN e.val = {new[z] : z \in DOMAIN d.val}, e.val[new[u]] = d.val[u]
  PROVE  Holding(ds, x, e, new[u])
<1>1. u \in DOMAIN d.val /\ DOMAIN d.val \subseteq Names(d) BY DEF Holding, Sound
<1>2. Names(e) = {new[k] : k \in Names(d)} BY DEF Names
<1>3. DOMAIN e.val \subseteq Names(e) /\ new[u] \in DOMAIN e.val BY <1>1, <1>2
<1>4. Sound(e) BY <1>3 DEF Holding, Sound, ColFields
<1> QED BY <1>3, <1>4 DEF Holding

\* A value goes with its table,
LEMMA TableRenamedHolds ==
  ASSUME NEW ds, NEW d, NEW x, NEW u, Holding(ds, x, d, u), NEW st, NEW w, Accepts(d, st), Moves(ds, x, st, u, w),
         st.op = "rename_table"
  PROVE  Holding(ds, x, After(d, st), w)
<1> DEFINE e == After(d, st)
           f == [d EXCEPT !.tables = (@ \ {st.rel}) \cup {st.to}]
           New(y) == IF y[1] = st.rel THEN <<st.to, y[2]>> ELSE y
           Column(c) == [c EXCEPT !.rel = New(<<c.rel, c.name>>)[1], !.name = New(<<c.rel, c.name>>)[2],
                                  !.gen = {New(<<c.rel, n>>)[2] : n \in c.gen}]
           new == [y \in Names(d) |-> New(y)]
           column == [c \in d.cols |-> Column(c)]
<1>1. e = Moved(f, New) BY DEF After
<1>2. DOMAIN f = DOMAIN d /\ f.tables = (d.tables \ {st.rel}) \cup {st.to} /\ f.cols = d.cols /\ f.val = d.val
  BY DEF Holding, Sound
<1>3. DOMAIN d = {"tables", "cols", "parts", "views", "labels", "val"} /\ DOMAIN d.val \subseteq Names(d)
  BY DEF Holding, Sound
<1> HIDE DEF f, e
<1>4. DOMAIN e = DOMAIN d /\ e.tables = f.tables BY <1>1, <1>2, <1>3 DEF Moved, Renamed
<1>5. e.cols = {Column(c) : c \in f.cols} BY <1>1, <1>2, <1>3 DEF Moved, Renamed
<1>6. e.val = [y \in {New(z) : z \in DOMAIN f.val} |-> f.val[CHOOSE z \in DOMAIN f.val : New(z) = y]]
  BY <1>1, <1>2, <1>3 DEF Moved, Renamed
<1>7. \A k \in Names(d) : k = <<k[1], k[2]>> /\ k[1] \in d.tables BY DEF Names, Key, Holding, Sound
<1>8. u \in Names(d) /\ w = New(u)
  <2>1. u \in Names(d) BY DEF Holding, Sound
  <2> QED BY <2>1, <1>7 DEF Moves
<1>9. \A y \in Names(d), z \in Names(d) : New(y) = New(z) => y = z
  <2>1. st.to \notin d.tables BY DEF Accepts
  <2> QED BY <1>7, <2>1
<1>10. ASSUME NEW c \in d.cols
       PROVE  DOMAIN column[c] = ColFields /\ Key(column[c]) = new[Key(c)] /\ column[c].rel \in e.tables
  <2>1. DOMAIN c = ColFields /\ c.rel \in d.tables BY DEF Holding, Sound, ColFields
  <2>2. New(Key(c)) = <<New(Key(c))[1], c.name>> /\ New(Key(c))[1] \in e.tables BY <2>1, <1>2, <1>4 DEF Key
  <2>3. Key(c) \in Names(d) BY DEF Names
  <2>4. New(<<c.rel, c.name>>)[1] = New(Key(c))[1] /\ New(<<c.rel, c.name>>)[2] = c.name BY DEF Key
  <2> HIDE DEF New
  <2>5. DOMAIN Column(c) = ColFields /\ Column(c).rel = New(Key(c))[1] /\ Column(c).name = c.name
    BY <2>1, <2>4 DEF ColFields
  <2> HIDE DEF Column
  <2> QED BY <2>2, <2>3, <2>5 DEF Key
<1>11. e.cols = {column[c] : c \in d.cols}
  <2> HIDE DEF Column
  <2> QED BY <1>2, <1>5
<1>12. DOMAIN e.val = {new[z] : z \in DOMAIN d.val} /\ e.val[new[u]] = d.val[u]
  <2> DEFINE Origin(y) == CHOOSE z \in DOMAIN d.val : New(z) = y
  <2>1. u \in DOMAIN d.val BY DEF Holding
  <2> HIDE DEF New
  <2>2. Origin(New(u)) = u BY <1>3, <1>9, <2>1
  <2>3. e.val[New(u)] = d.val[Origin(New(u))] BY <1>2, <1>6, <2>1
  <2>4. \A z \in DOMAIN d.val : new[z] = New(z) BY <1>3
  <2> HIDE DEF new, Origin
  <2> QED BY <1>2, <1>6, <2>1, <2>2, <2>3, <2>4
<1> HIDE DEF new, column, New
<1>13. Holding(ds, x, e, new[u]) BY <1>4, <1>10, <1>11, <1>12, MovedHolds
<1> QED BY <1>8, <1>13 DEF new, e

\* and with its column.
LEMMA ColumnRenamedHolds ==
  ASSUME NEW ds, NEW d, NEW x, NEW u, Holding(ds, x, d, u), NEW st, NEW w, Accepts(d, st), Moves(ds, x, st, u, w),
         st.op = "rename_column"
  PROVE  Holding(ds, x, After(d, st), w)
<1> DEFINE e == After(d, st)
           New(y) == IF y = st.col THEN <<y[1], st.to>> ELSE y
           Column(c) == [c EXCEPT !.rel = New(<<c.rel, c.name>>)[1], !.name = New(<<c.rel, c.name>>)[2],
                                  !.gen = {New(<<c.rel, n>>)[2] : n \in c.gen}]
           new == [y \in Names(d) |-> New(y)]
           column == [c \in d.cols |-> Column(c)]
<1>1. e = Moved(d, New) BY DEF After
<1>2. DOMAIN d = {"tables", "cols", "parts", "views", "labels", "val"} /\ DOMAIN d.val \subseteq Names(d)
  BY DEF Holding, Sound
<1> HIDE DEF e
<1>3. DOMAIN e = DOMAIN d /\ e.tables = d.tables BY <1>1, <1>2 DEF Moved, Renamed
<1>4. e.cols = {Column(c) : c \in d.cols} BY <1>1, <1>2 DEF Moved, Renamed
<1>5. e.val = [y \in {New(z) : z \in DOMAIN d.val} |-> d.val[CHOOSE z \in DOMAIN d.val : New(z) = y]]
  BY <1>1, <1>2 DEF Moved, Renamed
<1>6. \A k \in Names(d) : k = <<k[1], k[2]>> /\ k[1] \in d.tables BY DEF Names, Key, Holding, Sound
<1>7. u \in Names(d) /\ w = New(u)
  <2>1. u \in Names(d) BY DEF Holding, Sound
  <2> QED BY <2>1, <1>6 DEF Moves
<1>8. \A y \in Names(d), z \in Names(d) : New(y) = New(z) => y = z
  <2>1. <<st.col[1], st.to>> \notin Names(d) BY DEF Accepts, HasCol, Names, Key
  <2> QED BY <1>6, <2>1
<1>9. ASSUME NEW c \in d.cols
       PROVE  DOMAIN column[c] = ColFields /\ Key(column[c]) = new[Key(c)] /\ column[c].rel \in e.tables
  <2>1. DOMAIN c = ColFields /\ c.rel \in d.tables BY DEF Holding, Sound, ColFields
  <2>2. New(Key(c)) = <<c.rel, New(Key(c))[2]>> /\ New(Key(c))[1] \in e.tables BY <2>1, <1>3 DEF Key
  <2>3. Key(c) \in Names(d) BY DEF Names
  <2>4. New(<<c.rel, c.name>>)[1] = c.rel /\ New(<<c.rel, c.name>>)[2] = New(Key(c))[2] BY DEF Key
  <2> HIDE DEF New
  <2>5. DOMAIN Column(c) = ColFields /\ Column(c).rel = c.rel /\ Column(c).name = New(Key(c))[2]
    BY <2>1, <2>4 DEF ColFields
  <2> HIDE DEF Column
  <2> QED BY <2>2, <2>3, <2>5 DEF Key
<1>10. e.cols = {column[c] : c \in d.cols}
  <2> HIDE DEF Column
  <2> QED BY <1>4
<1>11. DOMAIN e.val = {new[z] : z \in DOMAIN d.val} /\ e.val[new[u]] = d.val[u]
  <2> DEFINE Origin(y) == CHOOSE z \in DOMAIN d.val : New(z) = y
  <2>1. u \in DOMAIN d.val BY DEF Holding
  <2> HIDE DEF New
  <2>2. Origin(New(u)) = u BY <1>2, <1>8, <2>1
  <2>3. e.val[New(u)] = d.val[Origin(New(u))] BY <1>5, <2>1
  <2>4. \A z \in DOMAIN d.val : new[z] = New(z) BY <1>2
  <2> HIDE DEF new, Origin
  <2> QED BY <1>5, <2>1, <2>2, <2>3, <2>4
<1> HIDE DEF new, column, New
<1>12. Holding(ds, x, e, new[u]) BY <1>3, <1>9, <1>10, <1>11, MovedHolds
<1> QED BY <1>7, <1>12 DEF new, e

\* The statements that leave tables, the names of columns and values alone.
LEMMA SparedHolds ==
  ASSUME NEW ds, NEW d, NEW x, NEW u, Holding(ds, x, d, u), NEW st,
         st.op \notin {"drop_column", "drop_table", "rename_table", "rename_column", "type", "set_not_null",
                       "drop_not_null", "set_default", "drop_default", "drop_expression", "update", "add_column",
                       "create_table", "map_type"}
  PROVE  Holding(ds, x, After(d, st), u)
<1> DEFINE e == After(d, st)
<1>0. DOMAIN d = {"tables", "cols", "parts", "views", "labels", "val"} BY DEF Holding, Sound
<1>1. CASE st.op = "rename_type"
  <2> DEFINE f == [c \in d.cols |-> IF c.type = "mood" THEN [c EXCEPT !.type = "mood__old"] ELSE c]
  <2>1. e = [d EXCEPT !.cols = {f[c] : c \in @}] BY <1>1 DEF After
  <2>2. \A c \in d.cols : DOMAIN f[c] = ColFields /\ f[c].rel \in d.tables /\ Key(f[c]) = Key(c)
    BY DEF Holding, Sound, ColFields, Key
  <2> HIDE DEF e, f
  <2>3. DOMAIN e = DOMAIN d /\ e.tables = d.tables /\ e.val = d.val /\ e.cols = {f[c] : c \in d.cols}
    BY <1>0, <2>1
  <2>4. Names(e) = Names(d) BY <2>2, <2>3 DEF Names
  <2>5. Holding(ds, x, e, u) BY <2>2, <2>3, <2>4 DEF Holding, Sound, ColFields
  <2> QED BY <2>5 DEF e
<1>2. CASE st.op # "rename_type"
  <2>1. \/ e = d \/ (\E S : e = [d EXCEPT !.parts = S]) \/ (\E S : e = [d EXCEPT !.views = S])
        \/ (\E S : e = [d EXCEPT !.labels = S])
    BY <1>2 DEF After
  <2> HIDE DEF e
  <2>2. DOMAIN e = DOMAIN d /\ e.tables = d.tables /\ e.val = d.val /\ e.cols = d.cols BY <1>0, <2>1
  <2>3. Names(e) = Names(d) BY <2>2 DEF Names
  <2>4. Holding(ds, x, e, u) BY <2>2, <2>3 DEF Holding, Sound
  <2> QED BY <2>4 DEF e
<1> QED BY <1>1, <1>2

\* Whatever the statement the server takes.
LEMMA StepHolds ==
  ASSUME NEW ds, NEW d, NEW x, NEW u, Holding(ds, x, d, u), NEW st, NEW w, Accepts(d, st), Moves(ds, x, st, u, w)
  PROVE  Holding(ds, x, After(d, st), w)
<1>1. CASE st.op \in {"drop_column", "drop_table"} BY <1>1, DroppedHolds
<1>2. CASE st.op = "rename_table" BY <1>2, TableRenamedHolds
<1>3. CASE st.op = "rename_column" BY <1>3, ColumnRenamedHolds
<1>4. CASE st.op \in {"type", "set_not_null", "drop_not_null", "set_default", "drop_default", "drop_expression"}
  BY <1>4, AlteredHolds
<1>5. CASE st.op = "update" BY <1>5, UpdatedHolds
<1>6. CASE st.op = "add_column" BY <1>6, AddedHolds
<1>7. CASE st.op = "create_table" BY <1>7, CreatedHolds
<1>8. CASE st.op = "map_type" BY <1>8, MappedHolds
<1>9. CASE st.op \notin {"drop_column", "drop_table", "rename_table", "rename_column", "type", "set_not_null",
                         "drop_not_null", "set_default", "drop_default", "drop_expression", "update", "add_column",
                         "create_table", "map_type"}
  <2>1. w = u BY <1>9 DEF Moves
  <2> QED BY <1>9, <2>1, SparedHolds
<1> QED BY <1>1, <1>2, <1>3, <1>4, <1>5, <1>6, <1>7, <1>8, <1>9
-----------------------------------------------------------------------------
(* what a sequence of statements does to it *)

\* Run to its end, q takes what x held in u to w.
Carries(ds, x, q, u, w) ==
  /\ q \in Seq(ToSet(q))
  /\ \E f : f[1] = u /\ f[Len(q) + 1] = w /\ \A i \in DOMAIN q : Moves(ds, x, q[i], f[i], f[i + 1])

\* No statement of q touches what x held, in u.
Stays(ds, x, q, u) == q \in Seq(ToSet(q)) /\ \A st \in ToSet(q) : Moves(ds, x, st, u, u)

\* A value that stays is carried nowhere.
LEMMA StaysCarries ==
  ASSUME NEW ds, NEW x, NEW q, NEW u, Stays(ds, x, q, u)
  PROVE  Carries(ds, x, q, u, u)
<1> DEFINE f == [i \in 1..Len(q)+1 |-> u]
<1>1. q \in Seq(ToSet(q)) BY DEF Stays
<1>2. DOMAIN q = 1..Len(q) /\ Len(q) \in Nat BY <1>1
<1>3. \A i \in DOMAIN q : q[i] \in ToSet(q) BY DEF ToSet
<1>4. f[1] = u /\ f[Len(q)+1] = u /\ \A i \in DOMAIN q : f[i] = u /\ f[i+1] = u BY <1>2
<1> HIDE DEF f
<1>5. \A i \in DOMAIN q : Moves(ds, x, q[i], f[i], f[i + 1]) BY <1>3, <1>4 DEF Stays
<1> QED BY <1>1, <1>4, <1>5 DEF Carries

\* One statement.
LEMMA OneCarries ==
  ASSUME NEW ds, NEW x, NEW st, NEW u, NEW w, Moves(ds, x, st, u, w)
  PROVE  Carries(ds, x, <<st>>, u, w)
<1> DEFINE q == <<st>>
           f == [i \in 1..2 |-> IF i = 1 THEN u ELSE w]
<1>1. DOMAIN q = 1..1 /\ q[1] = st /\ q \in Seq({st}) /\ Len(q) = 1 OBVIOUS
<1>2. f[1] = u /\ f[1 + 1] = w OBVIOUS
<1> HIDE DEF q, f
<1>3. q \in Seq(ToSet(q)) BY <1>1, SeqOfItsOwn
<1>4. \A i \in DOMAIN q : Moves(ds, x, q[i], f[i], f[i + 1]) BY <1>1, <1>2
<1>5. Carries(ds, x, q, u, w) BY <1>1, <1>2, <1>3, <1>4 DEF Carries
<1> QED BY <1>5 DEF q

\* One sequence after another.
LEMMA BothCarry ==
  ASSUME NEW ds, NEW x, NEW a, NEW b, NEW u, NEW v, NEW w, Carries(ds, x, a, u, v), Carries(ds, x, b, v, w)
  PROVE  Carries(ds, x, a \o b, u, w)
<1> DEFINE c == a \o b
<1>1. a \in Seq(ToSet(a)) /\ b \in Seq(ToSet(b)) BY DEF Carries
<1>2. c \in Seq(ToSet(c)) BY <1>1, ConcatSet
<1> HIDE DEF c
<1>3. c = a \o b BY DEF c
<1>4. \A i \in 1..Len(a) : c[i] = a[i] BY <1>1, <1>3, ConcatAt
<1>5. \A i \in 1..Len(b) : c[Len(a) + i] = b[i] BY <1>1, <1>3, ConcatAt
<1>6. DOMAIN a = 1..Len(a) /\ DOMAIN b = 1..Len(b) /\ Len(a) \in Nat /\ Len(b) \in Nat BY <1>1, <1>3, ConcatAt
<1>7. DOMAIN c = 1..Len(a) + Len(b) BY <1>1, <1>3, ConcatAt
<1>8. Len(c) = Len(a) + Len(b)
  <2> DEFINE A == ToSet(c)
  <2>1. c \in Seq(A) BY <1>2
  <2> HIDE DEF A
  <2> QED BY <1>6, <1>7, <2>1
<1>9. PICK f : f[1] = u /\ f[Len(a) + 1] = v /\ \A i \in DOMAIN a : Moves(ds, x, a[i], f[i], f[i + 1]) BY DEF Carries
<1>10. PICK g : g[1] = v /\ g[Len(b) + 1] = w /\ \A i \in DOMAIN b : Moves(ds, x, b[i], g[i], g[i + 1]) BY DEF Carries
<1> DEFINE h == [i \in 1..Len(a)+Len(b)+1 |-> IF i <= Len(a) THEN f[i] ELSE g[i - Len(a)]]
<1>11. \A i \in 1..Len(a)+1 : h[i] = f[i] BY <1>6, <1>9, <1>10
<1>12. \A i \in 1..Len(b)+1 : h[Len(a) + i] = g[i] BY <1>6
<1> HIDE DEF h
<1>13. h[1] = u /\ h[Len(c) + 1] = w
  <2>1. 1 \in 1..Len(a)+1 /\ Len(b) + 1 \in 1..Len(b)+1 /\ Len(c) + 1 = Len(a) + (Len(b) + 1) BY <1>6, <1>8
  <2> QED BY <1>9, <1>10, <1>11, <1>12, <2>1
<1>14. ASSUME NEW i \in DOMAIN c
       PROVE  Moves(ds, x, c[i], h[i], h[i + 1])
  <2>1. CASE i <= Len(a)
    <3>1. i \in DOMAIN a /\ i \in 1..Len(a)+1 /\ i + 1 \in 1..Len(a)+1 BY <2>1, <1>6, <1>7
    <3> QED BY <3>1, <1>4, <1>6, <1>9, <1>11
  <2>2. CASE ~(i <= Len(a))
    <3> DEFINE k == i - Len(a)
    <3>1. k \in DOMAIN b /\ k \in 1..Len(b)+1 /\ k + 1 \in 1..Len(b)+1 /\ i = Len(a) + k /\ i + 1 = Len(a) + (k + 1)
      BY <2>2, <1>6, <1>7
    <3> HIDE DEF k
    <3>2. c[i] = b[k] /\ h[i] = g[k] /\ h[i + 1] = g[k + 1] BY <3>1, <1>5, <1>6, <1>12
    <3> QED BY <3>1, <3>2, <1>10
  <2> QED BY <2>1, <2>2
<1>15. Carries(ds, x, c, u, w) BY <1>2, <1>13, <1>14 DEF Carries
<1> QED BY <1>15 DEF c

\* Any number of them, each from where the last has taken it.
LEMMA AllCarry ==
  ASSUME NEW ds, NEW x, NEW n \in Nat, NEW s, s = [i \in 1..n |-> s[i]], NEW f,
         \A i \in 1..n : Carries(ds, x, s[i], f[i], f[i + 1])
  PROVE  Carries(ds, x, FlattenSeq(s), f[1], f[n + 1])
<1>1. CASE n = 0
  <2>1. s = [i \in {} |-> s[i]] BY <1>1
  <2>2. FlattenSeq(s) = <<>> BY <2>1, NoneFlat
  <2>3. <<>> \in Seq(ToSet(<<>>)) /\ ToSet(<<>>) = {} BY DEF ToSet
  <2>4. Stays(ds, x, <<>>, f[1]) BY <2>3 DEF Stays
  <2> QED BY <1>1, <2>2, <2>4, StaysCarries
<1>2. CASE n # 0
  <2>1. PICK A : s \in [1..n -> Seq(A)]
    <3> DEFINE A == UNION {ToSet(s[i]) : i \in 1..n}
    <3>1. \A i \in 1..n : s[i] \in Seq(ToSet(s[i])) /\ ToSet(s[i]) \subseteq A BY DEF Carries
    <3>2. \A i \in 1..n : s[i] \in Seq(A)
      <4> HIDE DEF A
      <4> QED BY <3>1
    <3> QED BY <3>2
  <2>2. PICK g \in [1..n -> Seq(A)] : FlatBy(g, n, s) BY <2>1, <1>2, FlatSteps
  <2> DEFINE T == {k \in 1..n : ~Carries(ds, x, g[k], f[1], f[k + 1])}
  <2>3. T = {}
    <3> SUFFICES ASSUME T # {} PROVE FALSE OBVIOUS
    <3>1. T \in SUBSET Nat OBVIOUS
    <3> HIDE DEF T
    <3>2. PICK m \in T : \A k \in T : m <= k BY <3>1, Smallest
    <3>3. m \in 1..n /\ ~Carries(ds, x, g[m], f[1], f[m + 1]) BY <3>2 DEF T
    <3>4. CASE m = 1 BY <3>3, <3>4, <2>2 DEF FlatBy
    <3>5. CASE m # 1
      <4>1. m - 1 \in 1..n /\ m - 1 \notin T /\ m \in 2..n /\ (m - 1) + 1 = m BY <3>2, <3>3, <3>5
      <4>2. Carries(ds, x, g[m-1], f[1], f[m]) BY <4>1 DEF T
      <4>3. g[m] = g[m-1] \o s[m] BY <4>1, <2>2 DEF FlatBy
      <4> QED BY <4>2, <4>3, <3>3, BothCarry
    <3> QED BY <3>4, <3>5
  <2>4. Carries(ds, x, g[n], f[1], f[n + 1]) BY <2>3, <1>2
  <2> QED BY <2>2, <2>4 DEF FlatBy
<1> QED BY <1>1, <1>2

\* What is left once the first statement has run carries on from where that has taken it.
LEMMA TailCarries ==
  ASSUME NEW ds, NEW x, NEW q, NEW u, NEW w, Carries(ds, x, q, u, w), q # <<>>
  PROVE  \E v : Moves(ds, x, Head(q), u, v) /\ Carries(ds, x, Tail(q), v, w)
<1> DEFINE t == Tail(q)
<1>1. q \in Seq(ToSet(q)) BY DEF Carries
<1>2. /\ t \in Seq(ToSet(q)) /\ DOMAIN t = 1..Len(q)-1 /\ Len(t) = Len(q) - 1 /\ Head(q) = q[1]
      /\ \A i \in DOMAIN t : t[i] = q[i+1]
  BY <1>1
<1>3. DOMAIN q = 1..Len(q) /\ Len(q) \in Nat /\ 1 \in DOMAIN q BY <1>1
<1> HIDE DEF t
<1>4. t \in Seq(ToSet(t)) BY <1>2, SeqOfItsOwn
<1>5. PICK f : f[1] = u /\ f[Len(q) + 1] = w /\ \A i \in DOMAIN q : Moves(ds, x, q[i], f[i], f[i + 1]) BY DEF Carries
<1> DEFINE g == [i \in 1..Len(q) |-> f[i + 1]]
<1>6. g[1] = f[2] /\ g[Len(t) + 1] = w /\ \A i \in DOMAIN t : g[i] = f[i + 1] /\ g[i + 1] = f[(i + 1) + 1]
  BY <1>2, <1>3, <1>5
<1> HIDE DEF g
<1>7. \A i \in DOMAIN t : i + 1 \in DOMAIN q BY <1>2, <1>3
<1>8. \A i \in DOMAIN t : Moves(ds, x, t[i], g[i], g[i + 1]) BY <1>2, <1>5, <1>6, <1>7
<1>9. Carries(ds, x, t, f[2], w) BY <1>4, <1>6, <1>8 DEF Carries
<1>10. Moves(ds, x, Head(q), u, f[2]) BY <1>2, <1>3, <1>5
<1> QED BY <1>9, <1>10 DEF t

\* Statements that leave the value alone: of none,
LEMMA NothingStays == ASSUME NEW ds, NEW x, NEW u PROVE Stays(ds, x, <<>>, u)
<1>1. <<>> \in Seq(ToSet(<<>>)) /\ ToSet(<<>>) = {} BY DEF ToSet
<1> QED BY <1>1 DEF Stays

\* Of one,
LEMMA OneStays == ASSUME NEW ds, NEW x, NEW st, NEW u, Moves(ds, x, st, u, u) PROVE Stays(ds, x, <<st>>, u)
<1>1. <<st>> \in Seq(ToSet(<<st>>)) /\ ToSet(<<st>>) = {st} BY DEF ToSet
<1> QED BY <1>1 DEF Stays

\* of two,
LEMMA BothStay ==
  ASSUME NEW ds, NEW x, NEW a, NEW b, NEW u, Stays(ds, x, a, u), Stays(ds, x, b, u)
  PROVE  Stays(ds, x, a \o b, u)
<1>1. a \in Seq(ToSet(a)) /\ b \in Seq(ToSet(b)) BY DEF Stays
<1>2. a \o b \in Seq(ToSet(a \o b)) /\ ToSet(a \o b) = ToSet(a) \cup ToSet(b) BY <1>1, ConcatSet
<1> QED BY <1>2 DEF Stays

\* of any number of sequences,
LEMMA TurnStays ==
  ASSUME NEW ds, NEW x, NEW u, NEW A, NEW order \in Seq(A), NEW s, s = [i \in DOMAIN order |-> s[i]],
         \A i \in DOMAIN order : Stays(ds, x, s[i], u)
  PROVE  Stays(ds, x, FlattenSeq(s), u)
<1>1. DOMAIN order = 1..Len(order) /\ Len(order) \in Nat OBVIOUS
<1>2. \A i \in 1..Len(order) : s[i] \in Seq(ToSet(s[i])) BY <1>1 DEF Stays
<1>3. s = [i \in 1..Len(order) |-> s[i]] BY <1>1
<1>4. /\ FlattenSeq(s) \in Seq(ToSet(FlattenSeq(s)))
      /\ \A y : y \in ToSet(FlattenSeq(s)) <=> \E i \in 1..Len(order) : y \in ToSet(s[i])
  <2>1. Len(order) \in Nat BY <1>1
  <2> QED BY <1>2, <1>3, <2>1, FlatSet
<1> QED BY <1>1, <1>4 DEF Stays

\* and of those there may be.
LEMMA WhenStays ==
  ASSUME NEW ds, NEW x, NEW u, NEW b, NEW q, b => Stays(ds, x, q, u)
  PROVE  Stays(ds, x, When(b, q), u)
  BY NothingStays DEF When
-----------------------------------------------------------------------------
(* what the author means by the columns of the target *)

OldNames == {c.name : c \in Source.cols}
Declared(ds, kind) == {i \in ds : i.kind = kind}

\* A column the author means to continue one of Source goes by its name, or by a name that is
\* new; no two continue the same; and none that continues nothing can be taken for one that does.
ColumnsMeant(t, ds, w) ==
  /\ DOMAIN w \subseteq Names(t)
  /\ \A y \in DOMAIN w :
       /\ w[y] \in Names(Source)
       /\ y[1] \in Source.tables => w[y][1] = y[1]
       /\ w[y][2] = y[2] \/ y[2] \notin OldNames
       /\ \A z \in DOMAIN w : w[y] = w[z] => y = z
  /\ \A y \in Names(t) \ DOMAIN w :
       y[2] \notin OldNames \/ y[1] \notin Source.tables \cup {i.to : i \in Declared(ds, "rename_table")}

\* A declared rename of a table is what the author did, and no other takes its names.
TablesOnce(t, ds, w) ==
  \A i \in Declared(ds, "rename_table") :
    /\ i.rel \in Source.tables \ t.tables /\ i.to \in t.tables \ Source.tables
    /\ \A y \in DOMAIN w : y[1] = i.to => w[y][1] = i.rel
    /\ \A j \in Declared(ds, "rename_table") : i.rel = j.rel \/ i.to = j.to => i.rel = j.rel /\ i.to = j.to

\* A declared rename of a column likewise.
ColumnsOnce(t, ds, w) ==
  \A i \in Declared(ds, "rename_column") :
    /\ i.col \in Names(Source) /\ i.to[2] \notin OldNames /\ i.to[1] \in t.tables \cup Source.tables
    /\ i.to \in Names(t) => i.to \in DOMAIN w /\ w[i.to] = i.col
    /\ \A y \in DOMAIN w : w[y] = i.col => y = i.to
    /\ \A j \in Declared(ds, "rename_column") : i.col = j.col \/ i.to = j.to => i.col = j.col /\ i.to = j.to

Intended(t, ds, w) ==
  ColumnsMeant(t, ds, w) /\ TablesOnce(t, ds, w) /\ ColumnsOnce(t, ds, w) /\ "null" \notin t.labels

\* A column is of its table, and has a name of its own.
LEMMA NamesFormed ==
  ASSUME NEW s, WellFormed(s)
  PROVE  /\ \A k \in Names(s) : k = <<k[1], k[2]>> /\ k[1] \in s.tables
         /\ \A c, d \in s.cols : Key(c) = Key(d) => c = d
         /\ \A k : HasCol(s, k) <=> k \in Names(s)
  BY DEF WellFormed, ColumnsFormed, Names, Key, HasCol

\* A column of Source has one of its names.
LEMMA OldIs == \A x \in Names(Source) : x = <<x[1], x[2]>> /\ x[1] \in Source.tables /\ x[2] \in OldNames
  BY SourceAssumption DEF WellFormed, ColumnsFormed, Names, Key, OldNames

\* At first every column is itself.
LEMMA IntendedInit ==
  ASSUME NEW w, w = [x \in Names(Source) |-> x], "null" \notin Source.labels
  PROVE  Intended(Source, {}, w)
<1>1. ColumnsMeant(Source, {}, w) BY DEF ColumnsMeant
<1>2. TablesOnce(Source, {}, w) /\ ColumnsOnce(Source, {}, w) BY DEF TablesOnce, ColumnsOnce, Declared
<1> QED BY <1>1, <1>2 DEF Intended

\* Some columns, and some tables of Source, may go; what they continued no column does.
LEMMA FewerIntended ==
  ASSUME NEW t, NEW ds, NEW w, Intended(t, ds, w), NEW s, NEW es, NEW v,
         Names(s) \subseteq Names(t), s.tables \subseteq t.tables, t.tables \ s.tables \subseteq Source.tables,
         \A kind \in {"rename_table", "rename_column"} : Declared(es, kind) = Declared(ds, kind),
         DOMAIN v = DOMAIN w \cap Names(s), \A y \in DOMAIN v : v[y] = w[y], "null" \notin s.labels
  PROVE  Intended(s, es, v)
<1>1. ColumnsMeant(s, es, v) BY DEF Intended, ColumnsMeant
<1>2. TablesOnce(s, es, v) BY DEF Intended, TablesOnce
<1>3. ColumnsOnce(s, es, v) BY DEF Intended, ColumnsOnce
<1> QED BY <1>1, <1>2, <1>3 DEF Intended

\* A column may come, in a table there is or one that is new, under a name no declaration uses.
LEMMA MoreIntended ==
  ASSUME NEW t, NEW ds, NEW w, Intended(t, ds, w), NEW s, NEW es, NEW T, NEW k,
         Names(s) = Names(t) \cup {k}, s.tables = t.tables \cup T, T \cap (t.tables \cup Source.tables) = {},
         \A kind \in {"rename_table", "rename_column"} : Declared(es, kind) = Declared(ds, kind),
         k[2] \notin OldNames \/ k[1] \in T, \A i \in Declared(ds, "rename_column") : i.to # k,
         "null" \notin s.labels
  PROVE  Intended(s, es, w)
<1>1. ColumnsMeant(s, es, w)
  <2>1. \A i \in Declared(ds, "rename_table") : i.to \in t.tables BY DEF Intended, TablesOnce
  <2>2. k[2] \notin OldNames \/ k[1] \notin Source.tables \cup {i.to : i \in Declared(ds, "rename_table")} BY <2>1
  <2> QED BY <2>2 DEF Intended, ColumnsMeant
<1>2. TablesOnce(s, es, w) BY DEF Intended, TablesOnce
<1>3. ColumnsOnce(s, es, w) BY DEF Intended, ColumnsOnce
<1> QED BY <1>1, <1>2, <1>3 DEF Intended

\* A column may go on under a name that is new and that no declaration uses.
LEMMA ColumnRenamedIntended ==
  ASSUME NEW t, NEW ds, NEW w, Intended(t, ds, w), WellFormed(t), NEW s, NEW es, NEW v, NEW k \in DOMAIN w, NEW n,
         Names(s) = (Names(t) \ {k}) \cup {<<k[1], n>>}, s.tables = t.tables,
         n \notin OldNames, \A y \in Names(t) : y[2] # n, \A i \in Declared(ds, "rename_column") : i.to[2] # n,
         w[k][2] = k[2],
         Declared(es, "rename_table") = Declared(ds, "rename_table"),
         \/ Declared(es, "rename_column") = Declared(ds, "rename_column")
         \/ \E i : /\ Declared(es, "rename_column") = Declared(ds, "rename_column") \cup {i}
                   /\ i.col = w[k] /\ i.to = <<k[1], n>>,
         v = [x \in (DOMAIN w \ {k}) \cup {<<k[1], n>>} |-> w[IF x = <<k[1], n>> THEN k ELSE x]],
         "null" \notin s.labels
  PROVE  Intended(s, es, v)
<1> DEFINE l == <<k[1], n>>
<1>0. k \in Names(t) /\ l \notin Names(t) /\ k[1] \in t.tables /\ w[k] \in Names(Source)
  BY NamesFormed DEF Intended, ColumnsMeant
<1>1. v[l] = w[k] /\ (\A y \in DOMAIN w \ {k} : v[y] = w[y]) /\ DOMAIN v = (DOMAIN w \ {k}) \cup {l}
  BY <1>0 DEF Intended, ColumnsMeant
<1>2. l[1] = k[1] /\ l[2] = n OBVIOUS
<1> HIDE DEF l
<1>3. ColumnsMeant(s, es, v)
  <2>1. DOMAIN v \subseteq Names(s) BY <1>1 DEF Intended, ColumnsMeant, l
  <2>2. ASSUME NEW y \in DOMAIN v
        PROVE  /\ v[y] \in Names(Source)
               /\ y[1] \in Source.tables => v[y][1] = y[1]
               /\ v[y][2] = y[2] \/ y[2] \notin OldNames
               /\ \A z \in DOMAIN v : v[y] = v[z] => y = z
    BY <1>1, <1>2 DEF Intended, ColumnsMeant
  <2>3. \A y \in Names(s) \ DOMAIN v : y \in Names(t) \ DOMAIN w BY <1>0, <1>1 DEF l
  <2> QED BY <2>1, <2>2, <2>3 DEF Intended, ColumnsMeant
<1>4. TablesOnce(s, es, v) BY <1>1, <1>2 DEF Intended, TablesOnce
<1>5. \A i \in Declared(ds, "rename_column") : i.col # w[k]
  <2>1. w[k][2] \in OldNames BY <1>0, OldIs
  <2> QED BY <2>1 DEF Intended, ColumnsOnce
<1>6. ASSUME NEW i \in Declared(ds, "rename_column")
      PROVE  /\ i.col \in Names(Source) /\ i.to[2] \notin OldNames /\ i.to[1] \in s.tables \cup Source.tables
             /\ i.to \in Names(s) => i.to \in DOMAIN v /\ v[i.to] = i.col
             /\ \A y \in DOMAIN v : v[y] = i.col => y = i.to
  <2>1. i.to # l BY <1>2
  <2>2. i.to # k BY <1>0, OldIs DEF Intended, ColumnsOnce
  <2> QED BY <1>1, <1>5, <2>1, <2>2 DEF Intended, ColumnsOnce, l
<1>7. ColumnsOnce(s, es, v)
  <2>1. CASE Declared(es, "rename_column") = Declared(ds, "rename_column")
    BY <1>6, <2>1 DEF Intended, ColumnsOnce
  <2>2. ASSUME NEW i, Declared(es, "rename_column") = Declared(ds, "rename_column") \cup {i}, i.col = w[k], i.to = l
        PROVE  ColumnsOnce(s, es, v)
    <3>1. /\ i.col \in Names(Source) /\ i.to[2] \notin OldNames /\ i.to[1] \in s.tables \cup Source.tables
          /\ i.to \in DOMAIN v /\ v[i.to] = i.col
          /\ \A y \in DOMAIN v : v[y] = i.col => y = i.to
      BY <1>0, <1>1, <1>2, <2>2 DEF Intended, ColumnsMeant
    <3>2. \A j \in Declared(ds, "rename_column") : i.col # j.col /\ i.to # j.to BY <1>2, <1>5, <2>2
    <3> QED BY <1>6, <2>2, <3>1, <3>2 DEF Intended, ColumnsOnce
  <2> QED BY <2>1, <2>2 DEF l
<1> QED BY <1>3, <1>4, <1>7 DEF Intended

\* A table of Source may go on under a new name.
LEMMA TableRenamedIntended ==
  ASSUME NEW t, NEW ds, NEW w, Intended(t, ds, w), WellFormed(t), NEW s, NEW es, NEW v,
         NEW r \in t.tables \cap Source.tables, NEW n, n \notin t.tables \cup Source.tables,
         \A y \in DOMAIN w : y[1] = r => w[y] = y,
         Names(s) = {IF y[1] = r THEN <<n, y[2]>> ELSE y : y \in Names(t)}, s.tables = (t.tables \ {r}) \cup {n},
         Declared(es, "rename_column") = Declared(ds, "rename_column"),
         \/ Declared(es, "rename_table") = Declared(ds, "rename_table")
         \/ \E i : /\ Declared(es, "rename_table") = Declared(ds, "rename_table") \cup {i}
                   /\ i.rel = r /\ i.to = n,
         v = [x \in {IF y[1] = r THEN <<n, y[2]>> ELSE y : y \in DOMAIN w} |->
                w[IF x[1] = n THEN <<r, x[2]>> ELSE x]],
         "null" \notin s.labels
  PROVE  Intended(s, es, v)
<1> DEFINE New(y) == IF y[1] = r THEN <<n, y[2]>> ELSE y
<1>1. \A y \in Names(t) : y = <<y[1], y[2]>> /\ y[1] \in t.tables BY NamesFormed
<1>2. \A y \in Names(t) : /\ New(y)[2] = y[2]
                          /\ y[1] = r => New(y)[1] = n
                          /\ y[1] # r => New(y) = y /\ y[1] # n
  BY <1>1
<1>3. \A y \in Names(t), z \in Names(t) : New(y) = New(z) => y = z BY <1>1
<1>4. DOMAIN w \subseteq Names(t) BY DEF Intended, ColumnsMeant
<1>5. DOMAIN v = {New(y) : y \in DOMAIN w} /\ Names(s) = {New(y) : y \in Names(t)} OBVIOUS
<1>6. \A y \in DOMAIN w : v[New(y)] = w[y]
  <2> SUFFICES ASSUME NEW y \in DOMAIN w PROVE v[New(y)] = w[y] OBVIOUS
  <2>1. v[New(y)] = w[IF New(y)[1] = n THEN <<r, New(y)[2]>> ELSE New(y)] BY <1>5
  <2>2. (IF New(y)[1] = n THEN <<r, New(y)[2]>> ELSE New(y)) = y BY <1>1, <1>4
  <2> HIDE DEF New
  <2> QED BY <2>1, <2>2
<1> HIDE DEF New
<1>7. ColumnsMeant(s, es, v)
  <2>1. DOMAIN v \subseteq Names(s) BY <1>4, <1>5
  <2>2. ASSUME NEW y \in DOMAIN w
        PROVE  /\ v[New(y)] \in Names(Source)
               /\ New(y)[1] \in Source.tables => v[New(y)][1] = New(y)[1]
               /\ v[New(y)][2] = New(y)[2] \/ New(y)[2] \notin OldNames
               /\ \A z \in DOMAIN w : v[New(y)] = v[New(z)] => New(y) = New(z)
    BY <1>2, <1>4, <1>6 DEF Intended, ColumnsMeant
  <2>3. ASSUME NEW y \in Names(t) \ DOMAIN w
        PROVE  New(y)[2] \notin OldNames \/ New(y)[1] \notin Source.tables \cup {i.to : i \in Declared(es, "rename_table")}
    <3>1. y[2] \notin OldNames \/ y[1] \notin Source.tables \cup {i.to : i \in Declared(ds, "rename_table")}
      BY DEF Intended, ColumnsMeant
    <3>2. CASE y[1] = r BY <1>2, <3>1, <3>2
    <3>3. CASE y[1] # r BY <1>2, <3>1, <3>3
    <3> QED BY <3>2, <3>3
  <2>4. \A y \in Names(s) \ DOMAIN v : \E z \in Names(t) \ DOMAIN w : y = New(z) BY <1>5
  <2>5. ASSUME NEW y \in DOMAIN v
        PROVE  /\ v[y] \in Names(Source)
               /\ y[1] \in Source.tables => v[y][1] = y[1]
               /\ v[y][2] = y[2] \/ y[2] \notin OldNames
               /\ \A z \in DOMAIN v : v[y] = v[z] => y = z
    <3>1. PICK k \in DOMAIN w : y = New(k) BY <1>5
    <3>2. \A z \in DOMAIN v : v[y] = v[z] => y = z BY <1>5, <2>2, <3>1
    <3> QED BY <2>2, <3>1, <3>2
  <2>6. \A y \in Names(s) \ DOMAIN v :
          y[2] \notin OldNames \/ y[1] \notin Source.tables \cup {i.to : i \in Declared(es, "rename_table")}
    BY <2>3, <2>4
  <2> QED BY <2>1, <2>5, <2>6 DEF ColumnsMeant
<1>8. ASSUME NEW i \in Declared(ds, "rename_table")
      PROVE  /\ i.rel \in Source.tables \ s.tables /\ i.to \in s.tables \ Source.tables
             /\ \A y \in DOMAIN v : y[1] = i.to => v[y][1] = i.rel
             /\ i.rel # r /\ i.to # n
  <2>1. /\ i.rel \in Source.tables \ t.tables /\ i.to \in t.tables \ Source.tables
        /\ \A y \in DOMAIN w : y[1] = i.to => w[y][1] = i.rel
    BY DEF Intended, TablesOnce
  <2>2. \A y \in DOMAIN w : New(y)[1] = i.to => v[New(y)][1] = i.rel BY <1>2, <1>4, <1>6, <2>1
  <2> QED BY <1>5, <2>1, <2>2
<1>9. TablesOnce(s, es, v)
  <2>1. CASE Declared(es, "rename_table") = Declared(ds, "rename_table")
    BY <1>8, <2>1 DEF Intended, TablesOnce
  <2>2. ASSUME NEW i, Declared(es, "rename_table") = Declared(ds, "rename_table") \cup {i}, i.rel = r, i.to = n
        PROVE  TablesOnce(s, es, v)
    <3>1. \A y \in DOMAIN w : New(y)[1] = n => v[New(y)][1] = r BY <1>1, <1>2, <1>4, <1>6
    <3>2. \A y \in DOMAIN v : y[1] = i.to => v[y][1] = i.rel BY <1>5, <2>2, <3>1
    <3> QED BY <1>8, <2>2, <3>2 DEF Intended, TablesOnce
  <2> QED BY <2>1, <2>2
<1>10. ASSUME NEW i \in Declared(ds, "rename_column")
       PROVE  /\ i.to[1] \in s.tables \cup Source.tables
              /\ i.to \in Names(s) => i.to \in DOMAIN v /\ v[i.to] = i.col
              /\ \A y \in DOMAIN v : v[y] = i.col => y = i.to
  <2>1. /\ i.col \in Names(Source) /\ i.to[2] \notin OldNames /\ i.to[1] \in t.tables \cup Source.tables
        /\ i.to \in Names(t) => i.to \in DOMAIN w /\ w[i.to] = i.col
        /\ \A y \in DOMAIN w : w[y] = i.col => y = i.to
    BY DEF Intended, ColumnsOnce
  <2>2. i.to[1] # n BY <2>1
  <2>3. \A y \in Names(t) : New(y) = i.to => y = i.to BY <1>2, <2>2
  <2>4. i.to \in Names(s) => i.to \in DOMAIN v /\ v[i.to] = i.col
    <3>1. i.to \in Names(s) => i.to \in Names(t) /\ New(i.to) = i.to BY <1>5, <2>3
    <3> QED BY <1>5, <1>6, <2>1, <3>1
  <2>5. i.col # i.to BY <2>1, OldIs
  <2>6. \A y \in DOMAIN w : v[New(y)] = i.col => New(y) = i.to
    <3> SUFFICES ASSUME NEW y \in DOMAIN w, v[New(y)] = i.col PROVE New(y) = i.to OBVIOUS
    <3>1. y = i.to BY <1>6, <2>1
    <3>2. y[1] # r BY <1>6, <2>5, <3>1
    <3> QED BY <1>2, <1>4, <3>1, <3>2
  <2> QED BY <1>5, <2>1, <2>4, <2>6
<1>11. ColumnsOnce(s, es, v) BY <1>10 DEF Intended, ColumnsOnce
<1> QED BY <1>7, <1>9, <1>11 DEF Intended

\* A column in the place of another of the same name.
LEMMA RecolumnNames ==
  ASSUME WellFormed(to), NEW c \in to.cols, NEW d, d.rel = c.rel, d.name = c.name
  PROVE  LET s == Recolumn(c, d) IN Names(s) = Names(to) /\ s.tables = to.tables /\ s.labels = to.labels
<1> DEFINE s == Recolumn(c, d)
<1>1. s.cols = (to.cols \ {c}) \cup {d} /\ s.tables = to.tables /\ s.labels = to.labels BY DEF WellFormed, Recolumn
<1> HIDE DEF s
<1>2. Key(d) = Key(c) BY DEF Key
<1>3. Names(s) = Names(to)
  <2>1. \A b \in to.cols : Key(b) \in Names(s)
    <3> SUFFICES ASSUME NEW b \in to.cols PROVE Key(b) \in Names(s) OBVIOUS
    <3>1. CASE b = c BY <1>1, <1>2, <3>1 DEF Names
    <3>2. CASE b # c BY <1>1, <3>2 DEF Names
    <3> QED BY <3>1, <3>2
  <2>2. \A b \in s.cols : Key(b) \in Names(to)
    <3> SUFFICES ASSUME NEW b \in s.cols PROVE Key(b) \in Names(to) OBVIOUS
    <3>1. CASE b = d BY <1>2, <3>1 DEF Names
    <3>2. CASE b # d BY <1>1, <3>2 DEF Names
    <3> QED BY <3>1, <3>2
  <2> QED BY <2>1, <2>2 DEF Names
<1> QED BY <1>1, <1>3 DEF s

\* Queries and expressions that no longer read a column leave the columns there are.
LEMMA UnreadNames ==
  ASSUME NEW s, WellFormed(s), NEW x
  PROVE  /\ Names(Unread(s, x)) = Names(s) /\ Unread(s, x).tables = s.tables
         /\ Unread(s, x).labels = s.labels
<1> DEFINE u == Unread(s, x)
           f == [c \in s.cols |-> UnreadBy(c, x)]
<1>1. u.cols = {f[c] : c \in s.cols} /\ u.tables = s.tables /\ u.labels = s.labels BY DEF WellFormed, Unread
<1>2. \A c \in s.cols : Key(f[c]) = Key(c)
  <2>1. \A c \in s.cols : UnreadBy(c, x).rel = c.rel /\ UnreadBy(c, x).name = c.name
    BY DEF WellFormed, ColumnsFormed, UnreadBy
  <2> QED BY <2>1 DEF Key
<1> HIDE DEF u, f
<1>3. Names(u) = Names(s) BY <1>1, <1>2 DEF Names
<1> QED BY <1>1, <1>3 DEF u

\* A column under a new name.
LEMMA ColumnRenamedNames ==
  ASSUME NEW s, WellFormed(s), NEW c \in s.cols, NEW n
  PROVE  LET u == ColumnRenamedTo(s, c, n)
         IN  /\ Names(u) = (Names(s) \ {Key(c)}) \cup {<<c.rel, n>>}
             /\ u.tables = s.tables /\ u.labels = s.labels
<1> DEFINE New(x) == IF x = Key(c) THEN <<c.rel, n>> ELSE x
           Column(d) == [d EXCEPT !.rel = New(<<d.rel, d.name>>)[1], !.name = New(<<d.rel, d.name>>)[2],
                                  !.gen = {New(<<d.rel, m>>)[2] : m \in d.gen}]
           f == [d \in s.cols |-> Column(d)]
           u == ColumnRenamedTo(s, c, n)
<1>1. u.tables = s.tables /\ u.labels = s.labels /\ u.cols = {Column(d) : d \in s.cols}
  BY DEF WellFormed, Renamed, ColumnRenamedTo
<1>2. \A d \in s.cols : Key(f[d]) = IF Key(d) = Key(c) THEN <<c.rel, n>> ELSE Key(d)
  <2> SUFFICES ASSUME NEW d \in s.cols PROVE Key(f[d]) = IF Key(d) = Key(c) THEN <<c.rel, n>> ELSE Key(d) OBVIOUS
  <2>1. DOMAIN d = {"rel", "name", "type", "notNull", "default", "gen"} BY DEF WellFormed, ColumnsFormed
  <2>2. New(Key(d)) = <<New(Key(d))[1], New(Key(d))[2]>> BY DEF Key
  <2>3. New(Key(d)) = IF Key(d) = Key(c) THEN <<c.rel, n>> ELSE Key(d) OBVIOUS
  <2> HIDE DEF New
  <2>4. Column(d).rel = New(Key(d))[1] /\ Column(d).name = New(Key(d))[2] BY <2>1 DEF Key
  <2> HIDE DEF Column
  <2>5. Key(f[d]) = New(Key(d)) BY <2>2, <2>4 DEF Key
  <2> QED BY <2>3, <2>5
<1>3. u.cols = {f[d] : d \in s.cols}
  <2> HIDE DEF Column
  <2> QED BY <1>1
<1>4. \A d \in s.cols : Key(d) = Key(c) => d = c BY NamesFormed
<1> HIDE DEF u, f
<1>5. Names(u) = (Names(s) \ {Key(c)}) \cup {<<c.rel, n>>}
  <2>1. \A k \in Names(u) : k \in (Names(s) \ {Key(c)}) \cup {<<c.rel, n>>} BY <1>2, <1>3 DEF Names
  <2>2. \A k \in Names(s) \ {Key(c)} : k \in Names(u) BY <1>2, <1>3 DEF Names
  <2>3. <<c.rel, n>> \in Names(u)
    <3>1. Key(f[c]) = <<c.rel, n>> /\ f[c] \in u.cols BY <1>2, <1>3
    <3> QED BY <3>1 DEF Names
  <2> QED BY <2>1, <2>2, <2>3
<1> QED BY <1>1, <1>5 DEF u

\* A table under a new name.
LEMMA TableRenamedNames ==
  ASSUME NEW s, WellFormed(s), NEW r, NEW n
  PROVE  LET u == TableRenamedTo(s, r, n)
         IN  /\ Names(u) = {IF y[1] = r THEN <<n, y[2]>> ELSE y : y \in Names(s)}
             /\ u.tables = (s.tables \ {r}) \cup {n} /\ u.labels = s.labels
<1> DEFINE New(x) == IF x[1] = r THEN <<n, x[2]>> ELSE x
           Column(d) == [d EXCEPT !.rel = New(<<d.rel, d.name>>)[1], !.name = New(<<d.rel, d.name>>)[2],
                                  !.gen = {New(<<d.rel, m>>)[2] : m \in d.gen}]
           f == [d \in s.cols |-> Column(d)]
           u == TableRenamedTo(s, r, n)
<1>1. u.tables = (s.tables \ {r}) \cup {n} /\ u.labels = s.labels /\ u.cols = {Column(d) : d \in s.cols}
  BY DEF WellFormed, Renamed, TableRenamedTo
<1>2. \A d \in s.cols : Key(f[d]) = New(Key(d))
  <2> SUFFICES ASSUME NEW d \in s.cols PROVE Key(f[d]) = New(Key(d)) OBVIOUS
  <2>1. DOMAIN d = {"rel", "name", "type", "notNull", "default", "gen"} BY DEF WellFormed, ColumnsFormed
  <2>2. New(Key(d)) = <<New(Key(d))[1], New(Key(d))[2]>> BY DEF Key
  <2> HIDE DEF New
  <2>4. Column(d).rel = New(Key(d))[1] /\ Column(d).name = New(Key(d))[2] BY <2>1 DEF Key
  <2> HIDE DEF Column
  <2> QED BY <2>2, <2>4 DEF Key
<1>3. u.cols = {f[d] : d \in s.cols}
  <2> HIDE DEF Column
  <2> QED BY <1>1
<1> HIDE DEF u, f, New
<1>4. Names(u) = {New(y) : y \in Names(s)} BY <1>2, <1>3 DEF Names
<1> QED BY <1>1, <1>4 DEF u, New

\* Whatever an edit declares besides renames.
LEMMA SameRenames ==
  ASSUME NEW ds, NEW new, new \in {list, list \cup ds},
         \A i \in ds : i.kind \notin {"rename_table", "rename_column"}
  PROVE  \A kind \in {"rename_table", "rename_column"} : Declared(new, kind) = Declared(list, kind)
  BY DEF Declared

\* An edit that leaves tables and names alone.
LEMMA SameIntended ==
  ASSUME Intended(to, list, was), NEW kind, NEW new, NEW ds, Edit(kind, new, was, ds),
         \A i \in ds : i.kind \notin {"rename_table", "rename_column"},
         Names(new) = Names(to), new.tables = to.tables, "null" \notin new.labels
  PROVE  Intended(to', list', was')
<1>1. to' = new /\ was' = was /\ list' \in {list, list \cup ds} BY DEF Edit
<1>2. \A k \in {"rename_table", "rename_column"} : Declared(list', k) = Declared(list, k) BY <1>1, SameRenames
<1>3. DOMAIN was = DOMAIN was \cap Names(new) BY DEF Intended, ColumnsMeant
<1>4. Intended(new, list', was) BY <1>2, <1>3, FewerIntended
<1> QED BY <1>1, <1>4

\* What the author means by the columns of the target stays told from what is there by chance.
LEMMA IntendedNext == Authored /\ Intended(to, list, was) /\ [Next]_vars => Intended(to', list', was')
<1> SUFFICES ASSUME Authored, Intended(to, list, was), [Next]_vars PROVE Intended(to', list', was') OBVIOUS
<1>0. WellFormed(to) /\ DOMAIN to = {"tables", "cols", "parts", "views", "labels"} /\ "null" \notin to.labels
  BY DEF Authored, WellFormed, Intended
<1>a. DOMAIN was \subseteq Names(to) BY DEF Intended, ColumnsMeant
<1>1. ASSUME DropColumnEdit PROVE Intended(to', list', was')
  <2>1. PICK c \in to.cols : Edit("drop_column", Unread([to EXCEPT !.cols = @ \ {c}], Key(c)),
                                 Keeping(Names(Unread([to EXCEPT !.cols = @ \ {c}], Key(c)))),
                                 {[kind |-> "drop_column", col |-> was[Key(c)]]})
    BY <1>1 DEF DropColumnEdit
  <2> DEFINE t == [to EXCEPT !.cols = @ \ {c}]
             s == Unread(t, Key(c))
             d == [kind |-> "drop_column", col |-> was[Key(c)]]
  <2>2. WellFormed(t) BY <1>0 DEF WellFormed, ColumnsFormed
  <2>3. t.tables = to.tables /\ t.labels = to.labels /\ t.cols = to.cols \ {c} BY <1>0
  <2>4. d.kind = "drop_column" OBVIOUS
  <2> HIDE DEF t, d
  <2>5. Names(t) \subseteq Names(to) BY <2>3 DEF Names
  <2>6. Names(s) = Names(t) /\ s.tables = to.tables /\ s.labels = to.labels BY <2>2, <2>3, UnreadNames
  <2>7. to' = s /\ was' = Keeping(Names(s)) /\ list' \in {list, list \cup {d}} BY <2>1 DEF Edit, t, d
  <2> HIDE DEF s
  <2>8. \A k \in {"rename_table", "rename_column"} : Declared(list', k) = Declared(list, k)
    BY <2>4, <2>7, SameRenames
  <2>9. DOMAIN was' = DOMAIN was \cap Names(s) /\ \A y \in DOMAIN was' : was'[y] = was[y] BY <2>7 DEF Keeping
  <2>10. Names(s) \subseteq Names(to) /\ s.tables \subseteq to.tables /\ to.tables \ s.tables \subseteq Source.tables
    BY <2>5, <2>6
  <2>11. Intended(s, list', was') BY <1>0, <2>6, <2>8, <2>9, <2>10, FewerIntended
  <2> QED BY <2>7, <2>11
<1>2. ASSUME RetypeEdit PROVE Intended(to', list', was')
  <2>1. PICK c \in to.cols, t \in Types : Edit("retype", Recolumn(c, [c EXCEPT !.type = t]), was, {})
    BY <1>2 DEF RetypeEdit, Same
  <2> DEFINE d == [c EXCEPT !.type = t]
  <2>2. d.rel = c.rel /\ d.name = c.name BY <1>0 DEF WellFormed, ColumnsFormed
  <2>3. Edit("retype", Recolumn(c, d), was, {}) BY <2>1
  <2> HIDE DEF d
  <2> QED BY <1>0, <2>2, <2>3, RecolumnNames, SameIntended
<1>3. ASSUME NullEdit PROVE Intended(to', list', was')
  <2>1. PICK c \in to.cols :
          Edit("null", Recolumn(c, [c EXCEPT !.notNull = ~@, !.default = FALSE]), was,
               IF c.notNull THEN {} ELSE {[kind |-> "backfill", col |-> Key(c)]})
    BY <1>3 DEF NullEdit
  <2> DEFINE d == [c EXCEPT !.notNull = ~@, !.default = FALSE]
             ds == IF c.notNull THEN {} ELSE {[kind |-> "backfill", col |-> Key(c)]}
  <2>2. d.rel = c.rel /\ d.name = c.name BY <1>0 DEF WellFormed, ColumnsFormed
  <2>3. \A i \in ds : i.kind \notin {"rename_table", "rename_column"} OBVIOUS
  <2> HIDE DEF d, ds
  <2>4. Edit("null", Recolumn(c, d), was, ds) BY <2>1 DEF d, ds
  <2> QED BY <1>0, <2>2, <2>3, <2>4, RecolumnNames, SameIntended
<1>4. ASSUME RenameColumnEdit PROVE Intended(to', list', was')
  <2>1. PICK c \in to.cols, n \in Fresh :
          /\ Key(c) \in DOMAIN was /\ was[Key(c)][2] = c.name
          /\ to' = ColumnRenamedTo(to, c, n)
          /\ was' = [x \in (DOMAIN was \ {Key(c)}) \cup {<<c.rel, n>>} |-> was[IF x = <<c.rel, n>> THEN Key(c) ELSE x]]
          /\ list' \in {list, list \cup {[kind |-> "rename_column", col |-> was[Key(c)], to |-> <<c.rel, n>>]}}
    BY <1>4, Zenon DEF RenameColumnEdit, Edit
  <2> DEFINE s == ColumnRenamedTo(to, c, n)
             k == Key(c)
             d == [kind |-> "rename_column", col |-> was[Key(c)], to |-> <<c.rel, n>>]
  <2>2. Names(s) = (Names(to) \ {Key(c)}) \cup {<<c.rel, n>>} /\ s.tables = to.tables /\ s.labels = to.labels
    BY <1>0, ColumnRenamedNames
  <2>3. k[1] = c.rel /\ k[2] = c.name BY DEF Key
  <2>4. n \notin OldNames /\ (\A y \in Names(to) : y[2] # n) /\ \A i \in Declared(list, "rename_column") : i.to[2] # n
    BY DEF Fresh, OldNames, Names, Key, Declared
  <2>5. d.kind = "rename_column" /\ d.col = was[k] /\ d.to = <<k[1], n>> BY <2>3
  <2> HIDE DEF d, s, k
  <2>6. list' \in {list, list \cup {d}} BY <2>1 DEF d
  <2>7. /\ Declared(list', "rename_table") = Declared(list, "rename_table")
        /\ \/ Declared(list', "rename_column") = Declared(list, "rename_column")
           \/ Declared(list', "rename_column") = Declared(list, "rename_column") \cup {d}
    BY <2>5, <2>6 DEF Declared
  <2>8. was' = [x \in (DOMAIN was \ {k}) \cup {<<k[1], n>>} |-> was[IF x = <<k[1], n>> THEN k ELSE x]]
    BY <2>1, <2>3 DEF k
  <2>9. k \in DOMAIN was /\ was[k][2] = k[2] /\ Names(s) = (Names(to) \ {k}) \cup {<<k[1], n>>}
    BY <2>1, <2>2, <2>3 DEF k
  <2>10. \/ Declared(list', "rename_column") = Declared(list, "rename_column")
         \/ \E i : /\ Declared(list', "rename_column") = Declared(list, "rename_column") \cup {i}
                   /\ i.col = was[k] /\ i.to = <<k[1], n>>
    BY <2>5, <2>7
  <2>11. Intended(s, list', was') BY <1>0, <2>2, <2>4, <2>7, <2>8, <2>9, <2>10, ColumnRenamedIntended
  <2> QED BY <2>1, <2>11 DEF s
<1>5. ASSUME RenameTableEdit PROVE Intended(to', list', was')
  <2>1. PICK r \in to.tables, n \in NewRelations :
          /\ r \in Source.tables /\ \A x \in DOMAIN was : x[1] = r => was[x] = x
          /\ to' = TableRenamedTo(to, r, n)
          /\ was' = [x \in {IF y[1] = r THEN <<n, y[2]>> ELSE y : y \in DOMAIN was} |->
                       was[IF x[1] = n THEN <<r, x[2]>> ELSE x]]
          /\ list' \in {list, list \cup {[kind |-> "rename_table", rel |-> r, to |-> n]}}
    BY <1>5, Zenon DEF RenameTableEdit, Edit
  <2> DEFINE s == TableRenamedTo(to, r, n)
             d == [kind |-> "rename_table", rel |-> r, to |-> n]
  <2>2. /\ Names(s) = {IF y[1] = r THEN <<n, y[2]>> ELSE y : y \in Names(to)}
        /\ s.tables = (to.tables \ {r}) \cup {n} /\ s.labels = to.labels
    BY <1>0, TableRenamedNames
  <2>3. d.kind = "rename_table" /\ d.rel = r /\ d.to = n OBVIOUS
  <2> HIDE DEF d, s
  <2>4. list' \in {list, list \cup {d}} BY <2>1 DEF d
  <2>5. /\ Declared(list', "rename_column") = Declared(list, "rename_column")
        /\ \/ Declared(list', "rename_table") = Declared(list, "rename_table")
           \/ Declared(list', "rename_table") = Declared(list, "rename_table") \cup {d}
    BY <2>3, <2>4 DEF Declared
  <2>6. \/ Declared(list', "rename_table") = Declared(list, "rename_table")
        \/ \E i : /\ Declared(list', "rename_table") = Declared(list, "rename_table") \cup {i}
                  /\ i.rel = r /\ i.to = n
    BY <2>3, <2>5
  <2>7. n \notin to.tables \cup Source.tables /\ r \in to.tables \cap Source.tables BY <2>1 DEF NewRelations
  <2>8. Intended(s, list', was') BY <1>0, <2>1, <2>2, <2>5, <2>6, <2>7, TableRenamedIntended
  <2> QED BY <2>1, <2>8 DEF s
<1>6. ASSUME DropTableEdit PROVE Intended(to', list', was')
  <2> DEFINE s(r) == [to EXCEPT !.tables = @ \ {r}, !.cols = {c \in @ : c.rel # r}, !.parts = {a \in @ : a.rel # r}]
             d(r) == [kind |-> "drop_table", rel |-> r]
  <2>1. PICK r \in to.tables \cap Source.tables :
          to' = s(r) /\ was' = Keeping(Names(s(r))) /\ list' \in {list, list \cup {d(r)}}
    BY <1>6, Zenon DEF DropTableEdit, Edit
  <2>2. /\ s(r).cols = {c \in to.cols : c.rel # r} /\ s(r).tables = to.tables \ {r} /\ s(r).labels = to.labels
        /\ d(r).kind = "drop_table"
    BY <1>0
  <2> HIDE DEF s, d
  <2>3. Names(s(r)) \subseteq Names(to) BY <2>2 DEF Names
  <2>4. \A k \in {"rename_table", "rename_column"} : Declared(list', k) = Declared(list, k)
    <3> DEFINE ds == {d(r)}
    <3>1. list' \in {list, list \cup ds} /\ \A i \in ds : i.kind = "drop_table" BY <2>1, <2>2
    <3> HIDE DEF ds
    <3> QED BY <3>1, SameRenames
  <2>5. DOMAIN was' = DOMAIN was \cap Names(s(r)) /\ \A y \in DOMAIN was' : was'[y] = was[y] BY <2>1 DEF Keeping
  <2>6. s(r).tables \subseteq to.tables /\ to.tables \ s(r).tables \subseteq Source.tables /\ "null" \notin s(r).labels
    BY <1>0, <2>1, <2>2
  <2>7. Intended(s(r), list', was') BY <2>3, <2>4, <2>5, <2>6, FewerIntended
  <2> QED BY <2>1, <2>7
<1>7. ASSUME AddColumnEdit PROVE Intended(to', list', was')
  <2> DEFINE New(r, n, d, nn, g) == [rel |-> r, name |-> n, type |-> "int", notNull |-> nn, default |-> d, gen |-> g]
             Filled(r, n, nn) == IF nn THEN {[kind |-> "backfill", col |-> <<r, n>>]} ELSE {}
             Adding(r, n, d, nn, g) ==
               Edit("add_column", [to EXCEPT !.cols = @ \cup {New(r, n, d, nn, g)}], was, Filled(r, n, nn))
  <2>0. PICK r, n, d, nn, g : r \in to.tables /\ n \in Fresh /\ Adding(r, n, d, nn, g)
    <3>1. \E r \in to.tables : \E n \in Fresh, d, nn \in BOOLEAN, g \in {{}} \cup {{m} : m \in NamesOf(to, r)} :
            Adding(r, n, d, nn, g)
      BY <1>7, Zenon DEF AddColumnEdit
    <3> HIDE DEF Adding
    <3> QED BY <3>1
  <2> DEFINE new == New(r, n, d, nn, g)
             s == [to EXCEPT !.cols = @ \cup {new}]
  <2>1. to' = s /\ was' = was /\ list' \in {list, list \cup Filled(r, n, nn)}
    <3> HIDE DEF New, Filled
    <3> QED BY <2>0, Zenon DEF Edit
  <2>2. Key(new) = <<r, n>> /\ \A i \in Filled(r, n, nn) : i.kind \notin {"rename_table", "rename_column"} BY DEF Key
  <2> HIDE DEF new, Filled
  <2>3. s.cols = to.cols \cup {new} /\ s.tables = to.tables /\ s.labels = to.labels BY <1>0
  <2> HIDE DEF s
  <2>4. Names(s) = Names(to) \cup {<<r, n>>} BY <2>2, <2>3 DEF Names
  <2>5. n \notin OldNames /\ \A i \in Declared(list, "rename_column") : i.to # <<r, n>>
    BY <2>0 DEF Fresh, OldNames, Declared
  <2>6. \A k \in {"rename_table", "rename_column"} : Declared(list', k) = Declared(list, k)
    BY <2>1, <2>2, SameRenames
  <2> DEFINE k == <<r, n>>
             T == {}
  <2>7. k[2] \notin OldNames BY <2>5
  <2>8. s.tables = to.tables \cup T /\ T \cap (to.tables \cup Source.tables) = {} BY <2>3
  <2> HIDE DEF k, T
  <2>9. Names(s) = Names(to) \cup {k} /\ \A i \in Declared(list, "rename_column") : i.to # k BY <2>4, <2>5 DEF k
  <2>10. "null" \notin s.labels BY <1>0, <2>3
  <2> HIDE DEF New, Adding
  <2>11. Intended(s, list', was) BY <2>6, <2>7, <2>8, <2>9, <2>10, MoreIntended
  <2> QED BY <2>1, <2>11
<1>8. ASSUME AddTableEdit PROVE Intended(to', list', was')
  <2> DEFINE New(n) == [rel |-> n, name |-> "id", type |-> "int", notNull |-> FALSE, default |-> FALSE, gen |-> {}]
             s(n, a) == [to EXCEPT !.tables = @ \cup {n}, !.cols = @ \cup {New(n)},
                                   !.parts = @ \cup {[kind |-> "fk", rel |-> n, name |-> "new_fk", cols |-> {"id"},
                                                      ref |-> a.rel, refCols |-> a.cols]}]
  <2>1. PICK n \in NewRelations, a \in to.parts : to' = s(n, a) /\ was' = was /\ list' = list
    <3>1. PICK n \in NewRelations, a \in to.parts : Edit("add_table", s(n, a), was, {})
      BY <1>8, Zenon DEF AddTableEdit, Same
    <3> HIDE DEF s
    <3> QED BY <3>1 DEF Edit
  <2> DEFINE k == <<n, "id">>
             T == {n}
             t == s(n, a)
  <2>2. Key(New(n)) = k /\ k[1] = n BY DEF Key
  <2> HIDE DEF New
  <2>3. t.cols = to.cols \cup {New(n)} /\ t.tables = to.tables \cup T /\ t.labels = to.labels BY <1>0
  <2> HIDE DEF s, t, k
  <2>4. Names(t) = Names(to) \cup {k} BY <2>2, <2>3 DEF Names
  <2>5. n \notin to.tables \cup Source.tables BY DEF NewRelations
  <2>6. \A i \in Declared(list, "rename_column") : i.to # k BY <2>2, <2>5 DEF Intended, ColumnsOnce
  <2>7. \A j \in {"rename_table", "rename_column"} : Declared(list', j) = Declared(list, j) BY <2>1
  <2>8. T \cap (to.tables \cup Source.tables) = {} /\ k[1] \in T BY <2>2, <2>5
  <2> HIDE DEF T
  <2>9. Intended(t, list', was) BY <1>0, <2>3, <2>4, <2>6, <2>7, <2>8, MoreIntended
  <2> QED BY <2>1, <2>9 DEF t
<1>9. ASSUME PartEdit PROVE Intended(to', list', was')
  <2>1. PICK parts : Edit("part", [to EXCEPT !.parts = parts], was, {}) BY <1>9 DEF PartEdit, Same
  <2>2. LET s == [to EXCEPT !.parts = parts] IN Names(s) = Names(to) /\ s.tables = to.tables /\ s.labels = to.labels
    BY <1>0 DEF Names
  <2> QED BY <1>0, <2>1, <2>2, SameIntended
<1>10. ASSUME ViewEdit PROVE Intended(to', list', was')
  <2>1. PICK views : Edit("view", [to EXCEPT !.views = views], was, {}) BY <1>10 DEF ViewEdit, Same
  <2>2. LET s == [to EXCEPT !.views = views] IN Names(s) = Names(to) /\ s.tables = to.tables /\ s.labels = to.labels
    BY <1>0 DEF Names
  <2> QED BY <1>0, <2>1, <2>2, SameIntended
<1>11. ASSUME LabelEdit PROVE Intended(to', list', was')
  <2>1. PICK labels, ds : /\ Edit("label", [to EXCEPT !.labels = labels], was, ds)
                          /\ "null" \notin labels /\ \A i \in ds : i.kind \notin {"rename_table", "rename_column"}
    <3>1. \/ \E l, u : Edit("label", [to EXCEPT !.labels = @ \ {l}], was, {[kind |-> "enum", label |-> l, using |-> u]})
          \/ Edit("label", [to EXCEPT !.labels = @ \cup {"new"}], was, {})
      BY <1>11 DEF LabelEdit, Same
    <3>2. \A l, u : LET d == [kind |-> "enum", label |-> l, using |-> u] IN d.kind = "enum" OBVIOUS
    <3>3. CASE Edit("label", [to EXCEPT !.labels = @ \cup {"new"}], was, {}) BY <1>0, <3>3
    <3>4. ASSUME NEW l, NEW u,
                 Edit("label", [to EXCEPT !.labels = @ \ {l}], was, {[kind |-> "enum", label |-> l, using |-> u]})
          PROVE  \E labels, ds : /\ Edit("label", [to EXCEPT !.labels = labels], was, ds)
                          /\ "null" \notin labels /\ \A i \in ds : i.kind \notin {"rename_table", "rename_column"}
      <4> DEFINE d == [kind |-> "enum", label |-> l, using |-> u]
      <4>1. d.kind = "enum" OBVIOUS
      <4>2. Edit("label", [to EXCEPT !.labels = @ \ {l}], was, {d}) BY <3>4
      <4> HIDE DEF d
      <4> QED BY <1>0, <4>1, <4>2
    <3> QED BY <3>1, <3>3, <3>4
  <2>2. LET s == [to EXCEPT !.labels = labels] IN Names(s) = Names(to) /\ s.tables = to.tables /\ s.labels = labels
    BY <1>0 DEF Names
  <2> QED BY <2>1, <2>2, SameIntended
<1>12. ASSUME GeneratedEdit PROVE Intended(to', list', was')
  <2>1. PICK c \in to.cols : \E g : Edit("generated", Recolumn(c, [c EXCEPT !.gen = g, !.default = FALSE]), was, {})
    BY <1>12 DEF GeneratedEdit, Same
  <2>2. PICK g : Edit("generated", Recolumn(c, [c EXCEPT !.gen = g, !.default = FALSE]), was, {}) BY <2>1
  <2> DEFINE d == [c EXCEPT !.gen = g, !.default = FALSE]
  <2>3. d.rel = c.rel /\ d.name = c.name BY <1>0 DEF WellFormed, ColumnsFormed
  <2>4. Edit("generated", Recolumn(c, d), was, {}) BY <2>2
  <2> HIDE DEF d
  <2> QED BY <1>0, <2>3, <2>4, RecolumnNames, SameIntended
<1>13. CASE MakePlan \/ Execute \/ UNCHANGED vars BY <1>13 DEF MakePlan, Execute, vars
<1> QED BY <1>1, <1>2, <1>3, <1>4, <1>5, <1>6, <1>7, <1>8, <1>9, <1>10, <1>11, <1>12, <1>13 DEF Next
-----------------------------------------------------------------------------
(* what the planner makes of what the author means *)

\* A planner made from what the author means, which has found no problem.
Meant(p) ==
  /\ Told(p) /\ p.from = Source /\ WellFormed(p.to)
  /\ Unfounded(p) = {} /\ Intended(p.to, p.list, was)
  /\ p.relTo = {<<i.rel, i.to>> : i \in {i \in p.list : TableRenamed(Source, p.to, i)}}
  /\ p.colTo = {<<i.col, i.to>> : i \in {i \in p.list : ColumnRenamed(Source, p.to, p.relTo, i)}}
  /\ p.enum = Recreates(Source, p.to, p.list)

\* No two pairs have the same first or the same second.
OnePair(pairs) == \A q, s \in pairs : q[1] = s[1] \/ q[2] = s[2] => q = s

\* What pairs say of the first of one, and of anything else.
LEMMA ImageIs ==
  ASSUME NEW pairs, OnePair(pairs), NEW otherwise
  PROVE  /\ \A q \in pairs : Image(pairs, q[1], otherwise) = q[2]
         /\ \A x : (\A q \in pairs : q[1] # x) => Image(pairs, x, otherwise) = otherwise
<1>1. ASSUME NEW q \in pairs PROVE Image(pairs, q[1], otherwise) = q[2]
  <2> DEFINE s == CHOOSE s \in pairs : s[1] = q[1]
  <2>1. s \in pairs /\ s[1] = q[1] OBVIOUS
  <2>2. Image(pairs, q[1], otherwise) = s[2] BY DEF Image
  <2> HIDE DEF s
  <2> QED BY <2>1, <2>2 DEF OnePair
<1>2. \A x : (\A q \in pairs : q[1] # x) => Image(pairs, x, otherwise) = otherwise BY DEF Image
<1> QED BY <1>1, <1>2

\* Pairs the other way round.
LEMMA FlippedIs ==
  ASSUME NEW pairs, OnePair(pairs)
  PROVE  /\ OnePair(Flipped(pairs))
         /\ \A q \in pairs : <<q[2], q[1]>> \in Flipped(pairs)
         /\ \A s \in Flipped(pairs) : \E q \in pairs : s[1] = q[2] /\ s[2] = q[1]
<1>1. \A q \in pairs : <<q[2], q[1]>> \in Flipped(pairs) BY DEF Flipped
<1>2. \A s \in Flipped(pairs) : \E q \in pairs : s = <<q[2], q[1]>> BY DEF Flipped
<1>3. OnePair(Flipped(pairs))
  <2> SUFFICES ASSUME NEW s \in Flipped(pairs), NEW z \in Flipped(pairs), s[1] = z[1] \/ s[2] = z[2] PROVE s = z
    BY DEF OnePair
  <2>1. PICK q \in pairs : s = <<q[2], q[1]>> BY <1>2
  <2>2. PICK r \in pairs : z = <<r[2], r[1]>> BY <1>2
  <2>3. q = r BY <2>1, <2>2 DEF OnePair
  <2> QED BY <2>1, <2>2, <2>3
<1> QED BY <1>1, <1>2, <1>3

\* The tables a planner takes for renamed are those the author renamed.
LEMMA TablePairs ==
  ASSUME NEW p, Meant(p)
  PROVE  /\ OnePair(p.relTo)
         /\ \A q \in p.relTo :
              /\ q = <<q[1], q[2]>>
              /\ q[1] \in Source.tables \ p.to.tables /\ q[2] \in p.to.tables \ Source.tables
              /\ \A y \in DOMAIN was : y[1] = q[2] => was[y][1] = q[1]
              /\ \E i \in Declared(p.list, "rename_table") : q[2] = i.to
<1>1. ASSUME NEW q \in p.relTo
      PROVE  \E i \in Declared(p.list, "rename_table") : q = <<i.rel, i.to>>
  <2>1. PICK i \in p.list : TableRenamed(Source, p.to, i) /\ q = <<i.rel, i.to>> BY DEF Meant
  <2> QED BY <2>1 DEF TableRenamed, Declared
<1>2. TablesOnce(p.to, p.list, was) BY DEF Meant, Intended
<1>3. ASSUME NEW q \in p.relTo
      PROVE  /\ q = <<q[1], q[2]>>
             /\ q[1] \in Source.tables \ p.to.tables /\ q[2] \in p.to.tables \ Source.tables
             /\ \A y \in DOMAIN was : y[1] = q[2] => was[y][1] = q[1]
             /\ \E i \in Declared(p.list, "rename_table") : q[2] = i.to
  <2>1. PICK i \in Declared(p.list, "rename_table") : q = <<i.rel, i.to>> BY <1>1
  <2>2. q[1] = i.rel /\ q[2] = i.to BY <2>1
  <2> QED BY <1>2, <2>1, <2>2 DEF TablesOnce
<1>4. OnePair(p.relTo)
  <2> SUFFICES ASSUME NEW q \in p.relTo, NEW s \in p.relTo, q[1] = s[1] \/ q[2] = s[2] PROVE q = s BY DEF OnePair
  <2>1. PICK i \in Declared(p.list, "rename_table") : q = <<i.rel, i.to>> BY <1>1
  <2>2. PICK j \in Declared(p.list, "rename_table") : s = <<j.rel, j.to>> BY <1>1
  <2>3. i.rel = j.rel /\ i.to = j.to BY <1>2, <2>1, <2>2 DEF TablesOnce
  <2> QED BY <2>1, <2>2, <2>3
<1> QED BY <1>3, <1>4

\* So are the columns.
LEMMA ColumnPairs ==
  ASSUME NEW p, Meant(p)
  PROVE  /\ OnePair(p.colTo)
         /\ \A q \in p.colTo :
              /\ q[1] \in Names(Source) /\ q[2] \in Names(p.to)
              /\ q[2] \in DOMAIN was /\ was[q[2]] = q[1]
              /\ FromName(p, q[2][1]) = q[1][1]
              /\ <<q[2][1], q[1][2]>> \notin Names(p.to)
<1>1. ASSUME NEW q \in p.colTo
      PROVE  \E i \in Declared(p.list, "rename_column") : ColumnRenamed(Source, p.to, p.relTo, i) /\ q = <<i.col, i.to>>
  <2>1. PICK i \in p.list : ColumnRenamed(Source, p.to, p.relTo, i) /\ q = <<i.col, i.to>> BY DEF Meant
  <2> QED BY <2>1 DEF ColumnRenamed, Declared
<1>2. ColumnsOnce(p.to, p.list, was) BY DEF Meant, Intended
<1>3. ASSUME NEW q \in p.colTo
      PROVE  /\ q[1] \in Names(Source) /\ q[2] \in Names(p.to)
             /\ q[2] \in DOMAIN was /\ was[q[2]] = q[1]
             /\ FromName(p, q[2][1]) = q[1][1]
             /\ <<q[2][1], q[1][2]>> \notin Names(p.to)
  <2>1. PICK i \in Declared(p.list, "rename_column") : ColumnRenamed(Source, p.to, p.relTo, i) /\ q = <<i.col, i.to>>
    BY <1>1
  <2>2. q[1] = i.col /\ q[2] = i.to BY <2>1
  <2>3. /\ HasCol(Source, i.col) /\ HasCol(p.to, i.to) /\ ~HasCol(p.to, <<i.to[1], i.col[2]>>)
        /\ FromName(p, i.to[1]) = i.col[1]
    BY <2>1 DEF ColumnRenamed, FromName
  <2>4. WellFormed(Source) /\ WellFormed(p.to) BY SourceAssumption DEF Meant
  <2>5. /\ i.col \in Names(Source) /\ i.to \in Names(p.to) /\ <<i.to[1], i.col[2]>> \notin Names(p.to)
    BY <2>3, <2>4, NamesFormed
  <2>6. i.to \in DOMAIN was /\ was[i.to] = i.col BY <1>2, <2>5 DEF ColumnsOnce
  <2> QED BY <2>2, <2>3, <2>5, <2>6
<1>4. OnePair(p.colTo)
  <2> SUFFICES ASSUME NEW q \in p.colTo, NEW s \in p.colTo, q[1] = s[1] \/ q[2] = s[2] PROVE q = s BY DEF OnePair
  <2>1. PICK i \in Declared(p.list, "rename_column") : q = <<i.col, i.to>> BY <1>1
  <2>2. PICK j \in Declared(p.list, "rename_column") : s = <<j.col, j.to>> BY <1>1
  <2>3. i.col = j.col /\ i.to = j.to BY <1>2, <2>1, <2>2 DEF ColumnsOnce
  <2> QED BY <2>1, <2>2, <2>3
<1> QED BY <1>3, <1>4

\* What a table of Source is called in the target, and that back in Source.
LEMMA NameBack ==
  ASSUME NEW p, Meant(p), NEW r \in Source.tables
  PROVE  /\ FromName(p, ToName(p, r)) = r
         /\ \A q \in p.relTo : q[1] = r => ToName(p, r) = q[2]
         /\ (\A q \in p.relTo : q[1] # r) => ToName(p, r) = r
<1>1. OnePair(p.relTo) /\ \A q \in p.relTo : q[1] \in Source.tables /\ q[2] \notin Source.tables BY TablePairs
<1>2. /\ \A q \in p.relTo : q[1] = r => ToName(p, r) = q[2]
      /\ (\A q \in p.relTo : q[1] # r) => ToName(p, r) = r
  BY <1>1, ImageIs DEF ToName
<1>3. /\ OnePair(Flipped(p.relTo)) /\ \A q \in p.relTo : <<q[2], q[1]>> \in Flipped(p.relTo)
      /\ \A s \in Flipped(p.relTo) : \E q \in p.relTo : s[1] = q[2]
  BY <1>1, FlippedIs
<1>4. ASSUME NEW q \in p.relTo, q[1] = r PROVE FromName(p, ToName(p, r)) = r
  <2> DEFINE s == <<q[2], q[1]>>
  <2>1. s \in Flipped(p.relTo) /\ s[1] = q[2] /\ s[2] = q[1] BY <1>3
  <2> HIDE DEF s
  <2>2. Image(Flipped(p.relTo), s[1], s[1]) = s[2] BY <1>3, <2>1, ImageIs
  <2> QED BY <1>2, <1>4, <2>1, <2>2 DEF FromName
<1>5. ASSUME \A q \in p.relTo : q[1] # r PROVE FromName(p, ToName(p, r)) = r
  <2>1. ToName(p, r) = r BY <1>2, <1>5
  <2>2. \A s \in Flipped(p.relTo) : s[1] # r BY <1>1, <1>3
  <2>3. Image(Flipped(p.relTo), r, r) = r BY <1>3, <2>2, ImageIs
  <2> QED BY <2>1, <2>3 DEF FromName
<1> QED BY <1>2, <1>4, <1>5

\* Neither column x nor its table is declared dropped.
Silent(ds, x) == \A i \in ds : ~(i.kind = "drop_column" /\ i.col = x) /\ ~(i.kind = "drop_table" /\ i.rel = x[1])

\* Column y of the target is what the planner, and the author, make of column x of Source.
Leads(p, x, y) ==
  /\ y = ToCol(p, x) /\ y \in Names(p.to) /\ y[1] = ToName(p, x[1]) /\ FromCol(p, y) = x
  /\ y \in DOMAIN was /\ was[y] = x
  /\ (\A q \in p.colTo : q[1] # x) => y = <<ToName(p, x[1]), x[2]>>
  /\ \A q \in p.colTo : q[1] = x => y = q[2]

\* Undropped tables and columns are still there, in the target's names.
LEMMA Remains ==
  ASSUME NEW p, Meant(p), NEW x \in Names(Source), Silent(p.list, x)
  PROVE  ToName(p, x[1]) \in p.to.tables /\ ToCol(p, x) \in Names(p.to)
<1>0. Undeclared(p) = {} /\ p.from = Source /\ WellFormed(p.to) /\ WellFormed(Source)
  BY SourceAssumption DEF Meant, Told
<1>1. x = <<x[1], x[2]>> /\ x[1] \in Source.tables BY OldIs
<1>2. x[1] \in Surviving(p) /\ ToName(p, x[1]) \in p.to.tables
  <2>1. \A r \in p.from.tables \ Surviving(p) : \E d \in p.list : d.kind = "drop_table" /\ d.rel = r
    BY <1>0, AllDeclared
  <2>2. x[1] \in Surviving(p) BY <1>0, <1>1, <2>1 DEF Silent
  <2> QED BY <2>2 DEF Surviving
<1>3. PICK c \in Source.cols : x = Key(c) BY DEF Names
<1>4. c.rel = x[1] /\ c.name = x[2] BY <1>3 DEF Key
<1>5. c \notin Gone(p, x[1])
  <2>1. \A r \in Surviving(p) : \A e \in Gone(p, r) : \E d \in p.list : d.kind = "drop_column" /\ d.col = <<e.rel, e.name>>
    BY <1>0, AllDeclared
  <2>2. c \in Gone(p, x[1]) => \E d \in p.list : d.kind = "drop_column" /\ d.col = x BY <1>1, <1>2, <1>4, <2>1
  <2> QED BY <2>2 DEF Silent
<1>6. HasCol(p.to, ToCol(p, <<x[1], c.name>>)) BY <1>0, <1>3, <1>4, <1>5 DEF Gone
<1> QED BY <1>0, <1>1, <1>2, <1>4, <1>6, NamesFormed

\* Whatever the author forgets to declare, what a planner without problems makes of a column is
\* what the author means it to be.
LEMMA LeadsOn ==
  ASSUME NEW p, Meant(p), NEW x \in Names(Source), Silent(p.list, x)
  PROVE  Leads(p, x, ToCol(p, x))
<1> DEFINE y == ToCol(p, x)
           s == <<ToName(p, x[1]), x[2]>>
<1>0. WellFormed(p.to) /\ ColumnsMeant(p.to, p.list, was) BY DEF Meant, Intended
<1>1. y \in Names(p.to) /\ ToName(p, x[1]) \in p.to.tables BY Remains
<1>2. x = <<x[1], x[2]>> /\ x[1] \in Source.tables /\ x[2] \in OldNames BY OldIs
<1>3. FromName(p, ToName(p, x[1])) = x[1] BY <1>2, NameBack
<1>4. /\ OnePair(p.colTo)
      /\ \A q \in p.colTo :
           /\ q[1] \in Names(Source) /\ q[2] \in Names(p.to)
           /\ q[2] \in DOMAIN was /\ was[q[2]] = q[1]
           /\ FromName(p, q[2][1]) = q[1][1]
  BY ColumnPairs
<1>5. /\ \A q \in p.colTo : q[1] = x => y = q[2]
      /\ (\A q \in p.colTo : q[1] # x) => y = s
  BY <1>4, ImageIs DEF ToCol
<1>6. /\ OnePair(Flipped(p.colTo)) /\ \A q \in p.colTo : <<q[2], q[1]>> \in Flipped(p.colTo)
      /\ \A z \in Flipped(p.colTo) : \E q \in p.colTo : z[1] = q[2] /\ z[2] = q[1]
  BY <1>4, FlippedIs
<1>7. s[1] = ToName(p, x[1]) /\ s[2] = x[2] OBVIOUS
<1> HIDE DEF y, s
<1>8. ASSUME NEW q \in p.colTo, q[1] = x
      PROVE  y \in DOMAIN was /\ was[y] = x /\ FromCol(p, y) = x /\ y[1] = ToName(p, x[1])
  <2>1. y = q[2] /\ y \in DOMAIN was /\ was[y] = x BY <1>4, <1>5, <1>8
  <2> DEFINE z == <<q[2], q[1]>>
  <2>2. z \in Flipped(p.colTo) /\ z[1] = y /\ z[2] = x BY <1>6, <1>8, <2>1
  <2> HIDE DEF z
  <2>3. FromCol(p, y) = x BY <1>6, <2>2, ImageIs DEF FromCol
  <2>4. y[1] = ToName(p, x[1])
    <3>1. FromName(p, y[1]) = x[1] /\ y[1] \in p.to.tables BY <1>0, <1>1, <1>4, <1>8, <2>1, NamesFormed
    <3>2. /\ OnePair(p.relTo) /\ \A r \in p.relTo : r[1] \in Source.tables \ p.to.tables
      BY TablePairs
    <3>3. /\ OnePair(Flipped(p.relTo))
          /\ \A t \in Flipped(p.relTo) : \E r \in p.relTo : t[1] = r[2] /\ t[2] = r[1]
      BY <3>2, FlippedIs
    <3>4. CASE \E t \in Flipped(p.relTo) : t[1] = y[1]
      <4>1. PICK t \in Flipped(p.relTo) : t[1] = y[1] BY <3>4
      <4>2. Image(Flipped(p.relTo), t[1], t[1]) = t[2] BY <3>3, ImageIs
      <4>3. t[2] = x[1] BY <3>1, <4>1, <4>2 DEF FromName
      <4>4. PICK r \in p.relTo : t[1] = r[2] /\ t[2] = r[1] BY <3>3
      <4> QED BY <1>2, <4>1, <4>3, <4>4, NameBack
    <3>5. CASE \A t \in Flipped(p.relTo) : t[1] # y[1]
      <4>1. Image(Flipped(p.relTo), y[1], y[1]) = y[1] BY <3>3, <3>5, ImageIs
      <4>2. y[1] = x[1] BY <3>1, <4>1 DEF FromName
      <4>3. \A r \in p.relTo : r[1] # x[1] BY <3>1, <3>2, <4>2
      <4> QED BY <1>2, <4>2, <4>3, NameBack
    <3> QED BY <3>4, <3>5
  <2> QED BY <2>1, <2>3, <2>4
<1>9. ASSUME \A q \in p.colTo : q[1] # x
      PROVE  y \in DOMAIN was /\ was[y] = x /\ FromCol(p, y) = x /\ y[1] = ToName(p, x[1])
  <2>1. y = s /\ y[2] = x[2] /\ y[1] = ToName(p, x[1]) BY <1>5, <1>7, <1>9
  <2>2. \A q \in p.relTo : /\ \A z \in DOMAIN was : z[1] = q[2] => was[z][1] = q[1]
                           /\ \E i \in Declared(p.list, "rename_table") : q[2] = i.to
    BY TablePairs
  <2>3. y[1] \in Source.tables \cup {i.to : i \in Declared(p.list, "rename_table")} BY <1>2, <2>1, <2>2, NameBack
  <2>4. y \in DOMAIN was BY <1>0, <1>1, <1>2, <2>1, <2>3 DEF ColumnsMeant
  <2>5. was[y][2] = x[2] /\ was[y] \in Names(Source) BY <1>0, <1>2, <2>1, <2>4 DEF ColumnsMeant
  <2>6. was[y][1] = x[1]
    <3>1. CASE \E q \in p.relTo : q[1] = x[1] BY <1>2, <2>1, <2>2, <2>4, <3>1, NameBack
    <3>2. CASE \A q \in p.relTo : q[1] # x[1]
      <4>1. y[1] = x[1] BY <1>2, <2>1, <3>2, NameBack
      <4> QED BY <1>0, <1>2, <2>4, <4>1 DEF ColumnsMeant
    <3> QED BY <3>1, <3>2
  <2>7. was[y] = x BY <1>2, <2>5, <2>6, OldIs
  <2>8. \A z \in Flipped(p.colTo) : z[1] # y BY <1>4, <1>6, <1>9, <2>7
  <2>9. FromCol(p, y) = <<FromName(p, y[1]), y[2]>> BY <1>6, <2>8, ImageIs DEF FromCol
  <2> QED BY <1>2, <1>3, <2>1, <2>4, <2>7, <2>9
<1> QED BY <1>1, <1>5, <1>8, <1>9 DEF Leads, y, s
-----------------------------------------------------------------------------
(* what each phase of a plan does to a value *)

\* The statements that can take a value away, overwrite it or move it.
Touching == {"drop_table", "drop_column", "map_type", "create_table", "add_column", "rename_table", "rename_column"}

\* One statement of any other kind.
LEMMA OthersSpare ==
  ASSUME NEW ds, NEW x, NEW u, NEW st, st.op \notin Touching
  PROVE  Stays(ds, x, <<st>>, u)
<1>1. Moves(ds, x, st, u, u) BY DEF Moves, Touching
<1> QED BY <1>1, OneStays

\* Parts that go, and parts that come.
LEMMA PartsSpare ==
  ASSUME NEW ds, NEW x, NEW u, NEW S, IsFiniteSet(S)
  PROVE  Stays(ds, x, Each(S, DropPart), u) /\ Stays(ds, x, Each(S, AddPart), u)
<1> DEFINE order == Listed(S)
           drops == [i \in DOMAIN order |-> DropPart(order[i])]
           adds == [i \in DOMAIN order |-> AddPart(order[i])]
<1>1. \A a : Stays(ds, x, DropPart(a), u) /\ Stays(ds, x, AddPart(a), u)
  BY OthersSpare DEF DropPart, AddPart, Touching
<1>2. order \in Seq(ToSet(order)) BY ListedIs
<1>3. \A i \in DOMAIN order : Stays(ds, x, drops[i], u) /\ Stays(ds, x, adds[i], u) BY <1>1
<1>4. drops = [i \in DOMAIN order |-> drops[i]] /\ adds = [i \in DOMAIN order |-> adds[i]] OBVIOUS
<1>5. Stays(ds, x, FlattenSeq(drops), u) /\ Stays(ds, x, FlattenSeq(adds), u)
  <2> HIDE DEF drops, adds, order
  <2> QED BY <1>2, <1>3, <1>4, TurnStays
<1> QED BY <1>5 DEF Each, InTurn

\* A column's own statements.
LEMMA AlterSpares ==
  ASSUME NEW ds, NEW x, NEW u, NEW op, op \notin Touching, NEW c
  PROVE  Stays(ds, x, Alter(op, c), u)
  BY OthersSpare DEF Alter

\* Backfills.
LEMMA UpdatesSpare ==
  ASSUME NEW ds, NEW x, NEW u, NEW p, NEW cols, IsFiniteSet(cols)
  PROVE  Stays(ds, x, BackfillsLeft(p, cols), u)
<1> DEFINE S == {c \in cols : /\ <<c.rel, c.name>> \in Filling(p)
                              /\ ~(c.notNull /\ (Continues(p, c) => ~Before(p, c).notNull))}
           order == Listed(S)
           s == [i \in DOMAIN order |-> Alter("update", order[i])]
<1>1. IsFiniteSet(S) BY FS_Subset
<1>2. order \in Seq(ToSet(order))
  <2> HIDE DEF S
  <2> QED BY <1>1, ListedIs
<1>3. \A c : Stays(ds, x, Alter("update", c), u) BY AlterSpares DEF Touching
<1>4. s = [i \in DOMAIN order |-> s[i]] /\ \A i \in DOMAIN order : Stays(ds, x, s[i], u)
  <2> HIDE DEF order
  <2> QED BY <1>3
<1>5. Stays(ds, x, FlattenSeq(s), u)
  <2> HIDE DEF s, order
  <2> QED BY <1>2, <1>4, TurnStays
<1> QED BY <1>5 DEF BackfillsLeft, Each, InTurn

\* The drops leave alone what is not declared dropped.
LEMMA DropsSpare ==
  ASSUME NEW p, Told(p), NEW x, Silent(p.list, x)
  PROVE  Stays(p.list, x, Drops(p), x)
<1> DEFINE ds == p.list
           gone == p.from.tables \ Surviving(p)
<1>0. IsFiniteSet(p.from.parts) BY DEF Told, Finite
<1>1. \A kinds : Stays(ds, x, Each(ChangedParts(p, kinds), DropPart), x)
  <2>1. \A kinds : IsFiniteSet(ChangedParts(p, kinds)) BY <1>0, FS_Subset DEF ChangedParts
  <2> QED BY <2>1, PartsSpare
<1>2. Stays(ds, x, Each(Following(p), DropPart), x)
  <2>1. IsFiniteSet(Following(p)) BY <1>0, FS_Subset DEF Following
  <2> QED BY <2>1, PartsSpare
<1>3. Stays(ds, x, InTurn(Reverse(p.from.views), LAMBDA v : DropView(p, v)), x)
  <2> DEFINE order == Reverse(p.from.views)
             s == [i \in DOMAIN order |-> DropView(p, order[i])]
  <2>1. order \in Seq(ToSet(p.from.views)) BY DEF Told, ViewsFormed, Reverse
  <2>2. \A v : Stays(ds, x, DropView(p, v), x) BY OthersSpare, WhenStays DEF DropView, Touching
  <2>3. s = [i \in DOMAIN order |-> s[i]] /\ \A i \in DOMAIN order : Stays(ds, x, s[i], x)
    <3> HIDE DEF order
    <3> QED BY <2>2
  <2>4. Stays(ds, x, FlattenSeq(s), x)
    <3> HIDE DEF s, order
    <3> QED BY <2>1, <2>3, TurnStays
  <2> QED BY <2>4 DEF InTurn
<1>4. \A r \in gone : Stays(ds, x, DropTable(r), x)
  <2> SUFFICES ASSUME NEW r \in gone PROVE Stays(ds, x, DropTable(r), x) OBVIOUS
  <2>1. \E d \in ds : d.kind = "drop_table" /\ d.rel = r BY AllDeclared DEF Told
  <2> DEFINE st == [op |-> "drop_table", rel |-> r]
  <2>2. st.op = "drop_table" /\ st.rel = r OBVIOUS
  <2> HIDE DEF st
  <2>3. Moves(ds, x, st, x, x) BY <2>1, <2>2 DEF Silent, Moves
  <2>4. Stays(ds, x, <<st>>, x) BY <2>3, OneStays
  <2> QED BY <2>4 DEF DropTable, st
<1>5. \A r \in Surviving(p) : \A c \in Gone(p, r) : Stays(ds, x, DropColumn(<<r, c.name>>), x)
  <2> SUFFICES ASSUME NEW r \in Surviving(p), NEW c \in Gone(p, r) PROVE Stays(ds, x, DropColumn(<<r, c.name>>), x)
    OBVIOUS
  <2>1. c.rel = r BY DEF Gone
  <2>2. \E d \in ds : d.kind = "drop_column" /\ d.col = <<r, c.name>>
    <3>1. Undeclared(p) = {} BY DEF Told
    <3>2. \A q \in Surviving(p) : \A e \in Gone(p, q) :
             \E d \in p.list : d.kind = "drop_column" /\ d.col = <<e.rel, e.name>>
      BY <3>1, AllDeclared
    <3> QED BY <2>1, <3>2
  <2> DEFINE st == [op |-> "drop_column", col |-> <<r, c.name>>]
  <2>3. st.op = "drop_column" /\ st.col = <<r, c.name>> OBVIOUS
  <2> HIDE DEF st
  <2>4. Moves(ds, x, st, x, x) BY <2>2, <2>3 DEF Silent, Moves
  <2>5. Stays(ds, x, <<st>>, x) BY <2>4, OneStays
  <2> QED BY <2>5 DEF DropColumn, st
<1>6. \A r \in Surviving(p) : Stays(ds, x, DropColumns(p, r), x)
  <2> SUFFICES ASSUME NEW r \in Surviving(p) PROVE Stays(ds, x, DropColumns(p, r), x) OBVIOUS
  <2> DEFINE order == Reverse(ReadsLast(Gone(p, r)))
             s == [i \in DOMAIN order |-> DropColumn(<<r, order[i].name>>)]
  <2>1. order \in Seq(Gone(p, r)) BY ReadsLastIn DEF Reverse
  <2>2. s = [i \in DOMAIN order |-> s[i]] /\ \A i \in DOMAIN order : Stays(ds, x, s[i], x)
    <3> HIDE DEF order
    <3> QED BY <1>5, <2>1
  <2>3. Stays(ds, x, FlattenSeq(s), x)
    <3> HIDE DEF s, order
    <3> QED BY <2>1, <2>2, TurnStays
  <2> QED BY <2>3 DEF DropColumns, InTurn
<1>7. Stays(ds, x, InTurn(Ordered(RelationOrder, Surviving(p)), LAMBDA r : DropColumns(p, r)), x)
  <2> DEFINE order == Ordered(RelationOrder, Surviving(p))
             s == [i \in DOMAIN order |-> DropColumns(p, order[i])]
  <2>1. order \in Seq(Surviving(p)) BY OrderedIn, OrderAssumption
  <2>2. s = [i \in DOMAIN order |-> s[i]] /\ \A i \in DOMAIN order : Stays(ds, x, s[i], x)
    <3> HIDE DEF order
    <3> QED BY <1>6, <2>1
  <2>3. Stays(ds, x, FlattenSeq(s), x)
    <3> HIDE DEF s, order
    <3> QED BY <2>1, <2>2, TurnStays
  <2> QED BY <2>3 DEF InTurn
<1>8. Stays(ds, x, InTurn(FkOrder(p.from, gone), DropTable), x)
  <2> DEFINE order == FkOrder(p.from, gone)
             s == [i \in DOMAIN order |-> DropTable(order[i])]
  <2>1. IsFiniteSet(gone) /\ gone \subseteq ToSet(RelationOrder)
    <3>1. gone \subseteq ToSet(RelationOrder) BY DEF Told
    <3>2. IsFiniteSet(ToSet(RelationOrder)) BY ToSetFinite, OrderAssumption
    <3> QED BY <3>1, <3>2, FS_Subset
  <2>2. order \in Seq(gone)
    <3> HIDE DEF gone
    <3> QED BY <2>1, FkOrderIn
  <2>3. s = [i \in DOMAIN order |-> s[i]] /\ \A i \in DOMAIN order : Stays(ds, x, s[i], x)
    <3> HIDE DEF order, gone
    <3> QED BY <1>4, <2>2
  <2>4. Stays(ds, x, FlattenSeq(s), x)
    <3> HIDE DEF s, order, gone
    <3> QED BY <2>2, <2>3, TurnStays
  <2> QED BY <2>4 DEF InTurn
<1> QED BY <1>1, <1>2, <1>3, <1>7, <1>8, BothStay DEF Drops

\* The renames of tables take a value to its column in the table's new name,
LEMMA TablesCarry ==
  ASSUME NEW p, Meant(p), NEW x \in Names(Source), ToName(p, x[1]) \in p.to.tables
  PROVE  Carries(p.list, x, Each(p.relTo, RenameTable), x, <<ToName(p, x[1]), x[2]>>)
<1> DEFINE order == Listed(p.relTo)
           n == Len(order)
           s == [i \in DOMAIN order |-> RenameTable(order[i])]
           u == <<ToName(p, x[1]), x[2]>>
           Past(i) == \E j \in 1..n : j < i /\ order[j][1] = x[1]
           f == [i \in 1..n+1 |-> IF Past(i) THEN u ELSE x]
<1>1. order \in Seq(p.relTo) /\ ToSet(order) = p.relTo
  <2>1. IsFiniteSet(p.relTo) BY DEF Meant, Told
  <2>2. order \in Seq(ToSet(order)) /\ ToSet(order) = p.relTo BY <2>1, ListedIs
  <2> QED BY <2>2
<1>2. n \in Nat /\ DOMAIN order = 1..n /\ \A i \in 1..n : order[i] \in p.relTo BY <1>1
<1>3. p.relTo = {order[i] : i \in 1..n} BY <1>1, <1>2 DEF ToSet
<1>4. x = <<x[1], x[2]>> /\ x[1] \in Source.tables BY OldIs
<1>5. \A q \in p.relTo : q[1] \notin p.to.tables BY TablePairs
<1>6. u[1] = ToName(p, x[1]) /\ u[2] = x[2] OBVIOUS
<1> HIDE DEF order
<1>7. s = [i \in 1..n |-> s[i]] /\ \A i \in 1..n : s[i] = RenameTable(order[i]) BY <1>2
<1> HIDE DEF n, u, s
<1>8. ASSUME NEW i \in 1..n
      PROVE  Carries(p.list, x, s[i], f[i], f[i + 1])
  <2> DEFINE q == order[i]
             st == [op |-> "rename_table", rel |-> q[1], to |-> q[2]]
  <2>1. st.op = "rename_table" /\ st.rel = q[1] /\ st.to = q[2] OBVIOUS
  <2>2. s[i] = <<st>> BY <1>7 DEF RenameTable
  <2>3. q \in p.relTo /\ q[1] \notin p.to.tables BY <1>2, <1>5
  <2> HIDE DEF st
  <2>4. i \in 1..n+1 /\ i + 1 \in 1..n+1 /\ i \in Nat BY <1>2
  <2>5. Moves(p.list, x, st, f[i], f[i + 1])
    <3>1. CASE Past(i)
      <4>1. Past(i + 1) BY <1>2, <3>1
      <4>2. f[i] = u /\ f[i + 1] = u BY <2>4, <3>1, <4>1
      <4>3. u[1] # q[1] BY <1>6, <2>3
      <4> HIDE DEF f
      <4> QED BY <2>1, <4>2, <4>3 DEF Moves
    <3>2. CASE ~Past(i) /\ q[1] = x[1]
      <4>1. Past(i + 1) BY <1>2, <3>2
      <4>2. f[i] = x /\ f[i + 1] = u BY <2>4, <3>2, <4>1
      <4>3. u = <<q[2], x[2]>> BY <1>4, <2>3, <3>2, NameBack DEF u
      <4> HIDE DEF f
      <4> QED BY <2>1, <3>2, <4>2, <4>3 DEF Moves
    <3>3. CASE ~Past(i) /\ q[1] # x[1]
      <4>1. ~Past(i + 1)
        <5> SUFFICES ASSUME NEW j \in 1..n, j < i + 1, order[j][1] = x[1] PROVE FALSE OBVIOUS
        <5>1. j < i \/ j = i BY <1>2
        <5> QED BY <3>3, <5>1
      <4>2. f[i] = x /\ f[i + 1] = x BY <2>4, <3>3, <4>1
      <4> HIDE DEF f
      <4> QED BY <2>1, <3>3, <4>2 DEF Moves
    <3> QED BY <3>1, <3>2, <3>3
  <2> HIDE DEF f
  <2> QED BY <2>2, <2>5, OneCarries
<1>9. f[1] = x
  <2>1. ~Past(1) /\ 1 \in 1..n+1 BY <1>2
  <2> QED BY <2>1
<1>10. f[n + 1] = u
  <2>1. n + 1 \in 1..n+1 BY <1>2
  <2>2. CASE \E q \in p.relTo : q[1] = x[1]
    <3>1. PICK j \in 1..n : order[j][1] = x[1] BY <1>3, <2>2
    <3>2. Past(n + 1) BY <1>2, <3>1
    <3> QED BY <2>1, <3>2
  <2>3. CASE \A q \in p.relTo : q[1] # x[1]
    <3>1. u = x BY <1>4, <2>3, NameBack DEF u
    <3> QED BY <2>1, <3>1
  <2> QED BY <2>2, <2>3
<1> HIDE DEF f
<1>11. Carries(p.list, x, FlattenSeq(s), f[1], f[n + 1]) BY <1>2, <1>7, <1>8, AllCarry
<1> QED BY <1>9, <1>10, <1>11 DEF Each, InTurn, s, order, u

\* and those of columns to the column's.
LEMMA ColumnsCarry ==
  ASSUME NEW p, Meant(p), NEW x \in Names(Source), NEW y, Leads(p, x, y)
  PROVE  Carries(p.list, x, Each(p.colTo, RenameColumn), <<ToName(p, x[1]), x[2]>>, y)
<1> DEFINE order == Listed(p.colTo)
           n == Len(order)
           s == [i \in DOMAIN order |-> RenameColumn(order[i])]
           u == <<ToName(p, x[1]), x[2]>>
           Past(i) == \E j \in 1..n : j < i /\ order[j][1] = x
           f == [i \in 1..n+1 |-> IF Past(i) THEN y ELSE u]
<1>1. order \in Seq(p.colTo) /\ ToSet(order) = p.colTo
  <2>1. IsFiniteSet(p.colTo) BY DEF Meant, Told
  <2>2. order \in Seq(ToSet(order)) /\ ToSet(order) = p.colTo BY <2>1, ListedIs
  <2> QED BY <2>2
<1>2. n \in Nat /\ DOMAIN order = 1..n /\ \A i \in 1..n : order[i] \in p.colTo BY <1>1
<1>3. p.colTo = {order[i] : i \in 1..n} BY <1>1, <1>2 DEF ToSet
<1>4. x = <<x[1], x[2]>> /\ x[1] \in Source.tables BY OldIs
<1>5. \A q \in p.colTo : /\ q[1] \in Names(Source) /\ q[2] \in Names(p.to)
                         /\ FromName(p, q[2][1]) = q[1][1]
                         /\ <<q[2][1], q[1][2]>> \notin Names(p.to)
  BY ColumnPairs
<1>6. u[1] = ToName(p, x[1]) /\ u[2] = x[2] OBVIOUS
<1>7. y = <<y[1], y[2]>> /\ y \in Names(p.to) /\ y[1] = ToName(p, x[1]) BY NamesFormed DEF Leads, Meant
<1> HIDE DEF order
<1>8. s = [i \in 1..n |-> s[i]] /\ \A i \in 1..n : s[i] = RenameColumn(order[i]) BY <1>2
<1> HIDE DEF n, u, s
<1>9. ASSUME NEW i \in 1..n
      PROVE  Carries(p.list, x, s[i], f[i], f[i + 1])
  <2> DEFINE q == order[i]
             k == <<q[2][1], q[1][2]>>
             st == [op |-> "rename_column", col |-> k, to |-> q[2][2]]
  <2>1. st.op = "rename_column" /\ st.col = k /\ st.to = q[2][2] OBVIOUS
  <2>2. s[i] = <<st>> BY <1>8 DEF RenameColumn
  <2>3. q \in p.colTo /\ k \notin Names(p.to) BY <1>2, <1>5
  <2>4. k[1] = q[2][1] /\ k[2] = q[1][2] OBVIOUS
  <2> HIDE DEF st, k
  <2>5. i \in 1..n+1 /\ i + 1 \in 1..n+1 /\ i \in Nat BY <1>2
  <2>6. Moves(p.list, x, st, f[i], f[i + 1])
    <3>1. CASE Past(i)
      <4>1. Past(i + 1) BY <1>2, <3>1
      <4>2. f[i] = y /\ f[i + 1] = y BY <2>5, <3>1, <4>1
      <4>3. y # k BY <1>7, <2>3
      <4> HIDE DEF f
      <4> QED BY <2>1, <4>2, <4>3 DEF Moves
    <3>2. CASE ~Past(i) /\ q[1] = x
      <4>1. Past(i + 1) BY <1>2, <3>2
      <4>2. f[i] = u /\ f[i + 1] = y BY <2>5, <3>2, <4>1
      <4>3. y = q[2] BY <2>3, <3>2 DEF Leads
      <4>4. u = k BY <1>7, <3>2, <4>3 DEF u, k
      <4>5. y = <<u[1], st.to>> BY <1>6, <1>7, <2>1, <4>3
      <4> HIDE DEF f
      <4> QED BY <2>1, <4>2, <4>4, <4>5 DEF Moves
    <3>3. CASE ~Past(i) /\ q[1] # x
      <4>1. ~Past(i + 1)
        <5> SUFFICES ASSUME NEW j \in 1..n, j < i + 1, order[j][1] = x PROVE FALSE OBVIOUS
        <5>1. j < i \/ j = i BY <1>2
        <5> QED BY <3>3, <5>1
      <4>2. f[i] = u /\ f[i + 1] = u BY <2>5, <3>3, <4>1
      <4>3. u # k
        <5> SUFFICES ASSUME u = k PROVE FALSE OBVIOUS
        <5>1. q[2][1] = ToName(p, x[1]) /\ q[1][2] = x[2] BY <1>6, <2>4
        <5>2. q[1][1] = x[1]
          <6>1. FromName(p, ToName(p, x[1])) = x[1] BY <1>4, NameBack
          <6>2. FromName(p, q[2][1]) = q[1][1] BY <1>5, <2>3
          <6> QED BY <5>1, <6>1, <6>2
        <5>3. q[1] = <<q[1][1], q[1][2]>> BY <1>5, <2>3, OldIs
        <5> QED BY <1>4, <3>3, <5>1, <5>2, <5>3
      <4> HIDE DEF f
      <4> QED BY <2>1, <4>2, <4>3 DEF Moves
    <3> QED BY <3>1, <3>2, <3>3
  <2> HIDE DEF f
  <2> QED BY <2>2, <2>6, OneCarries
<1>10. f[1] = u
  <2>1. ~Past(1) /\ 1 \in 1..n+1 BY <1>2
  <2> QED BY <2>1
<1>11. f[n + 1] = y
  <2>1. n + 1 \in 1..n+1 BY <1>2
  <2>2. CASE \E q \in p.colTo : q[1] = x
    <3>1. PICK j \in 1..n : order[j][1] = x BY <1>3, <2>2
    <3>2. Past(n + 1) BY <1>2, <3>1
    <3> QED BY <2>1, <3>2
  <2>3. CASE \A q \in p.colTo : q[1] # x
    <3>1. u = y BY <2>3 DEF Leads, u
    <3> QED BY <2>1, <3>1
  <2> QED BY <2>2, <2>3
<1> HIDE DEF f
<1>12. Carries(p.list, x, FlattenSeq(s), f[1], f[n + 1]) BY <1>2, <1>8, <1>9, AllCarry
<1> QED BY <1>10, <1>11, <1>12 DEF Each, InTurn, s, order, u

\* The renames take a value to the column the author means it to be in.
LEMMA RenamesCarry ==
  ASSUME NEW p, Meant(p), NEW x \in Names(Source), NEW y, Leads(p, x, y)
  PROVE  Carries(p.list, x, Renames(p), x, y)
<1>1. ToName(p, x[1]) \in p.to.tables
  <2>1. WellFormed(p.to) /\ y \in Names(p.to) /\ y[1] = ToName(p, x[1]) BY DEF Leads, Meant
  <2> QED BY <2>1, NamesFormed
<1> QED BY <1>1, TablesCarry, ColumnsCarry, BothCarry DEF Renames

\* y continues x, which holds something, and the target computes neither.
Lasts(p, x, y) ==
  /\ Meant(p) /\ Leads(p, x, y) /\ x \in Names(Source)
  /\ Holds(x) # "null" /\ Col(p.to, y).gen = {}

\* A label becomes what a declaration says, and what it becomes is a label that stays.
LEMMA UsingIs ==
  ASSUME NEW p, Meant(p), p.enum
  PROVE  /\ DOMAIN Using(p) = {i.label : i \in {i \in p.list : i.kind = "enum"}}
         /\ \A l \in DOMAIN Using(p) : \E i \in p.list : i.kind = "enum" /\ i.label = l /\ i.using = Using(p)[l]
         /\ \A i \in p.list : i.kind = "enum" =>
              i.label \notin p.to.labels /\ (i.label \in Source.labels => i.using \in p.to.labels)
<1> DEFINE L == {i.label : i \in {i \in p.list : i.kind = "enum"}}
           Becomes(l) == CHOOSE i \in p.list : i.kind = "enum" /\ i.label = l
<1>1. Using(p) = [l \in L |-> Becomes(l).using] BY DEF Using
<1>2. \A l \in L : Becomes(l) \in p.list /\ Becomes(l).kind = "enum" /\ Becomes(l).label = l OBVIOUS
<1> HIDE DEF Becomes, L
<1>3. \A l \in DOMAIN Using(p) : \E i \in p.list : i.kind = "enum" /\ i.label = l /\ i.using = Using(p)[l]
  BY <1>1, <1>2
<1>4. \A i \in p.list : i.kind = "enum" =>
        i.label \notin p.to.labels /\ (i.label \in Source.labels => i.using \in p.to.labels)
  BY DEF Meant, Unfounded
<1> QED BY <1>1, <1>3, <1>4 DEF L

\* The new enum type leaves a value as it is, or as it is declared to become.
LEMMA MapSpares ==
  ASSUME NEW p, NEW x, NEW y, Lasts(p, x, y), p.enum,
         NEW c \in p.to.cols, Before(p, c).type = "mood", NEW st,
         st.op = "map_type", st.col = Key(c), st.using = Using(p)
  PROVE  Moves(p.list, x, st, y, y)
<1>1. ASSUME st.col = y, NEW v, Kept(p.list, x, v)
      PROVE  Kept(p.list, x, Mapped(st.using, v))
  <2>1. Before(p, c) = Col(Source, x) BY <1>1 DEF Before, Lasts, Leads, Meant, Key
  <2>2. Holds(x) = Label BY <2>1 DEF Holds, Lasts
  <2>3. /\ DOMAIN Using(p) = {i.label : i \in {i \in p.list : i.kind = "enum"}}
        /\ \A l \in DOMAIN Using(p) : \E i \in p.list : i.kind = "enum" /\ i.label = l /\ i.using = Using(p)[l]
        /\ \A i \in p.list : i.kind = "enum" =>
             i.label \notin p.to.labels /\ (i.label \in Source.labels => i.using \in p.to.labels)
    BY UsingIs DEF Lasts
  <2>4. Label \in Source.labels /\ "null" \notin p.to.labels BY LabelAssumption DEF Lasts, Meant, Intended
  <2>5. CASE v \notin DOMAIN Using(p) BY <1>1, <2>5 DEF Mapped
  <2>6. CASE v \in DOMAIN Using(p)
    <3>1. PICK i \in p.list : i.kind = "enum" /\ i.label = v /\ i.using = Using(p)[v] BY <2>3, <2>6
    <3>2. v \notin p.to.labels BY <2>3, <3>1
    <3>3. v = Label BY <1>1, <2>2, <2>3, <2>4, <3>2 DEF Kept
    <3>4. i.using \in p.to.labels BY <2>3, <2>4, <3>1, <3>3
    <3>5. Mapped(st.using, v) = i.using BY <2>6, <3>1 DEF Mapped
    <3> QED BY <2>2, <2>4, <3>1, <3>3, <3>4, <3>5 DEF Kept
  <2> QED BY <2>5, <2>6
<1> QED BY <1>1 DEF Moves

\* A column that the target computes is another,
LEMMA ComputedOther ==
  ASSUME NEW p, NEW x, NEW y, Lasts(p, x, y), NEW g \in p.to.cols, g.gen # {}
  PROVE  Key(g) # y
<1>1. WellFormed(p.to) /\ HasCol(p.to, y) BY NamesFormed DEF Lasts, Leads, Meant
<1>2. Col(p.to, y) \in p.to.cols /\ Key(Col(p.to, y)) = y BY <1>1, ColIs
<1> QED BY <1>1, <1>2, NamesFormed DEF Lasts

\* and may be taken down,
LEMMA DropGeneratedSpares ==
  ASSUME NEW p, NEW x, NEW y, Lasts(p, x, y), NEW g \in p.to.cols, g.gen # {}
  PROVE  Stays(p.list, x, DropGenerated(p, g), y)
<1> DEFINE st == [op |-> "drop_column", col |-> Key(g)]
<1>1. IsFiniteSet(RestingOn(p, Key(g)))
  <2>1. IsFiniteSet(p.to.parts) BY DEF Lasts, Meant, Told, Finite
  <2> QED BY <2>1, FS_Subset DEF RestingOn, Resting
<1>2. st.op = "drop_column" /\ st.col = Key(g) OBVIOUS
<1> HIDE DEF st
<1>3. Moves(p.list, x, st, y, y) BY <1>2, ComputedOther DEF Moves
<1>4. Stays(p.list, x, <<st>>, y) BY <1>3, OneStays
<1>5. DropGenerated(p, g) = Each(RestingOn(p, Key(g)), DropPart) \o <<st>> BY DEF DropGenerated, DropColumn, Key, st
<1> QED BY <1>1, <1>4, <1>5, PartsSpare, BothStay

\* and added.
LEMMA AddSpares ==
  ASSUME NEW ds, NEW x, NEW y, NEW c, DOMAIN c = ColFields
  PROVE  Stays(ds, x, <<[op |-> "add_column", col |-> c]>>, y)
<1> DEFINE st == [op |-> "add_column", col |-> c]
<1>1. st.op = "add_column" /\ st.col = c OBVIOUS
<1> HIDE DEF st
<1>2. Moves(ds, x, st, y, y) BY <1>1 DEF Moves, ColFields
<1>3. Stays(ds, x, <<st>>, y) BY <1>2, OneStays
<1> QED BY <1>3 DEF st

\* A computed column is put back with what rests on it.
LEMMA AddGeneratedSpares ==
  ASSUME NEW p, NEW x, NEW y, Lasts(p, x, y), NEW g \in p.to.cols
  PROVE  Stays(p.list, x, AddGenerated(p, g), y)
<1> DEFINE k == <<g.rel, g.name>>
<1>1. IsFiniteSet(RestingOn(p, k)) /\ IsFiniteSet(Alongside(p, k))
  <2>1. IsFiniteSet(p.to.parts) BY DEF Lasts, Meant, Told, Finite
  <2> QED BY <2>1, FS_Subset DEF RestingOn, Resting, Alongside, PartsOf
<1>2. Stays(p.list, x, PutBack(p, g), y) BY <1>1, PartsSpare, BothStay DEF PutBack
<1>3. DOMAIN g = ColFields BY DEF Lasts, Meant, WellFormed, ColumnsFormed, ColFields
<1>4. Stays(p.list, x, <<[op |-> "add_column", col |-> g]>>, y) BY <1>3, AddSpares
<1> QED BY <1>2, <1>4, BothStay DEF AddGenerated

\* A column changes its type, between what depends on it going and coming back.
LEMMA RetypeSpares ==
  ASSUME NEW p, NEW x, NEW y, Lasts(p, x, y), NEW c
  PROVE  Stays(p.list, x, AlterColumnType(p, c), y)
<1> DEFINE ds == p.list
           D == DropsFor(p, c)
           order == Listed(D)
           downs == [i \in DOMAIN order |-> DropGenerated(p, order[i])]
           ups == [i \in DOMAIN order |-> AddGenerated(p, order[i])]
           policies == {a \in PartsOf(p.to, c.rel) : a.kind = "policy" /\ c.name \in a.cols}
           st == [op |-> "type", col |-> <<c.rel, c.name>>, type |-> c.type]
<1>1. IsFiniteSet(D) /\ IsFiniteSet(policies)
  <2>1. IsFiniteSet(p.to.cols) /\ IsFiniteSet(p.to.parts) BY DEF Lasts, Meant, Told, Finite
  <2> QED BY <2>1, FS_Subset DEF DropsFor, PartsOf
<1>2. \A g \in D : g \in p.to.cols /\ g.gen # {} BY DEF DropsFor, Depends
<1> HIDE DEF D
<1>3. order \in Seq(D) BY <1>1, ListedIs
<1>4. Stays(ds, x, FlattenSeq(downs), y)
  <2>1. downs = [i \in DOMAIN order |-> downs[i]] /\ \A i \in DOMAIN order : Stays(ds, x, downs[i], y)
    <3> HIDE DEF order
    <3> QED BY <1>2, <1>3, DropGeneratedSpares
  <2> HIDE DEF downs, order
  <2> QED BY <2>1, <1>3, TurnStays
<1>5. Stays(ds, x, FlattenSeq(ups), y)
  <2>1. ups = [i \in DOMAIN order |-> ups[i]] /\ \A i \in DOMAIN order : Stays(ds, x, ups[i], y)
    <3> HIDE DEF order
    <3> QED BY <1>2, <1>3, AddGeneratedSpares
  <2> HIDE DEF ups, order
  <2> QED BY <2>1, <1>3, TurnStays
<1> HIDE DEF policies
<1>6. Stays(ds, x, Each(policies, DropPart), y) /\ Stays(ds, x, Each(policies, AddPart), y) BY <1>1, PartsSpare
<1>7. Stays(ds, x, <<st>>, y) BY OthersSpare DEF Touching
<1>8. AlterColumnType(p, c) =
        FlattenSeq(downs) \o Each(policies, DropPart) \o <<st>> \o FlattenSeq(ups) \o Each(policies, AddPart)
  BY DEF AlterColumnType, Each, InTurn, D, policies
<1> HIDE DEF st, downs, ups, ds
<1>9. Stays(ds, x, FlattenSeq(downs) \o Each(policies, DropPart) \o <<st>> \o FlattenSeq(ups) \o Each(policies, AddPart), y)
  BY <1>4, <1>5, <1>6, <1>7, BothStay
<1> QED BY <1>8, <1>9 DEF ds

\* A column changes, in whatever way.
LEMMA AlterColumnSpares ==
  ASSUME NEW p, NEW x, NEW y, Lasts(p, x, y), NEW c \in p.to.cols
  PROVE  Stays(p.list, x, AlterColumn(p, c), y)
<1> DEFINE ds == p.list
           old == Before(p, c)
           type == When(Retyped(p, c), AlterColumnType(p, c))
           dflt == When(old.default # c.default, Alter(IF c.default THEN "set_default" ELSE "drop_default", c))
           null == When(old.notNull # c.notNull,
                        IF c.notNull THEN Backfill(p, c) \o Alter("set_not_null", c) ELSE Alter("drop_not_null", c))
           expr == When(old.gen # {} /\ c.gen = {}, Alter("drop_expression", c))
           redo == When(Rewritten(p, c), DropGenerated(p, c) \o AddGenerated(p, c))
<1>1. Stays(ds, x, type, y) BY RetypeSpares, WhenStays
<1>2. \A op \in {"set_default", "drop_default", "set_not_null", "drop_not_null", "drop_expression", "update"} :
        Stays(ds, x, Alter(op, c), y)
  BY AlterSpares DEF Touching
<1>3. Stays(ds, x, dflt, y)
  <2>1. Stays(ds, x, Alter(IF c.default THEN "set_default" ELSE "drop_default", c), y) BY <1>2
  <2> QED BY <2>1, WhenStays
<1>4. Stays(ds, x, null, y)
  <2>1. Stays(ds, x, Backfill(p, c), y) BY <1>2, WhenStays DEF Backfill
  <2>2. Stays(ds, x, Backfill(p, c) \o Alter("set_not_null", c), y) BY <2>1, <1>2, BothStay
  <2>3. Stays(ds, x, IF c.notNull THEN Backfill(p, c) \o Alter("set_not_null", c) ELSE Alter("drop_not_null", c), y)
    BY <1>2, <2>2
  <2> QED BY <2>3, WhenStays
<1>5. Stays(ds, x, expr, y) BY <1>2, WhenStays
<1>6. Stays(ds, x, redo, y)
  <2> SUFFICES ASSUME Rewritten(p, c) PROVE Stays(ds, x, DropGenerated(p, c) \o AddGenerated(p, c), y)
    BY WhenStays
  <2>1. c.gen # {} BY DEF Rewritten
  <2> QED BY <2>1, DropGeneratedSpares, AddGeneratedSpares, BothStay
<1>7. AlterColumn(p, c) = type \o dflt \o null \o expr \o redo BY DEF AlterColumn
<1> HIDE DEF type, dflt, null, expr, redo
<1> QED BY <1>1, <1>3, <1>4, <1>5, <1>6, <1>7, BothStay

\* The alterations leave the column alone, but for what its label is declared to become.
LEMMA AltersSpare ==
  ASSUME NEW p, NEW x, NEW y, Lasts(p, x, y)
  PROVE  Stays(p.list, x, Alters(p), y)
<1> DEFINE ds == p.list
<1>0. IsFiniteSet(p.to.labels) /\ IsFiniteSet(p.to.cols) BY DEF Lasts, Meant, Told, Finite
<1>1. Stays(ds, x, Each(p.to.labels \ p.from.labels, LAMBDA l : <<[op |-> "add_label", label |-> l]>>), y)
  <2> DEFINE order == Listed(p.to.labels \ p.from.labels)
             s == [i \in DOMAIN order |-> <<[op |-> "add_label", label |-> order[i]]>>]
  <2>1. IsFiniteSet(p.to.labels \ p.from.labels) BY <1>0, FS_Subset
  <2>2. order \in Seq(ToSet(order)) BY <2>1, ListedIs
  <2>3. \A l : Stays(ds, x, <<[op |-> "add_label", label |-> l]>>, y) BY OthersSpare DEF Touching
  <2>4. s = [i \in DOMAIN order |-> s[i]] /\ \A i \in DOMAIN order : Stays(ds, x, s[i], y)
    <3> HIDE DEF order
    <3> QED BY <2>3
  <2>5. Stays(ds, x, FlattenSeq(s), y)
    <3> HIDE DEF s, order
    <3> QED BY <2>2, <2>4, TurnStays
  <2> QED BY <2>5 DEF Each, InTurn
<1>2. ASSUME p.enum PROVE Stays(ds, x, RecreateEnum(p), y)
  <2> DEFINE S == {c \in p.to.cols : Continues(p, c) /\ Before(p, c).type = "mood"}
             Turn(c) == When(Before(p, c).default, Alter("drop_default", c))
                          \o <<[op |-> "map_type", col |-> <<c.rel, c.name>>, using |-> Using(p)]>>
                          \o When(c.default, Alter("set_default", c))
             order == Listed(S)
             s == [i \in DOMAIN order |-> Turn(order[i])]
             old == <<[op |-> "rename_type"], [op |-> "create_type", labels |-> p.to.labels]>>
             end == <<[op |-> "drop_type"]>>
  <2>1. IsFiniteSet(S) BY <1>0, FS_Subset
  <2>2. \A c \in S : c \in p.to.cols /\ Before(p, c).type = "mood" OBVIOUS
  <2> HIDE DEF S
  <2>3. order \in Seq(S) BY <2>1, ListedIs
  <2>4. \A c \in S : Stays(ds, x, Turn(c), y)
    <3> SUFFICES ASSUME NEW c \in S PROVE Stays(ds, x, Turn(c), y) OBVIOUS
    <3> DEFINE st == [op |-> "map_type", col |-> <<c.rel, c.name>>, using |-> Using(p)]
               a == When(Before(p, c).default, Alter("drop_default", c))
               d == When(c.default, Alter("set_default", c))
    <3>1. st.op = "map_type" /\ st.col = Key(c) /\ st.using = Using(p) BY DEF Key
    <3>2. Stays(ds, x, a, y) /\ Stays(ds, x, d, y) BY AlterSpares, WhenStays DEF Touching
    <3> HIDE DEF a, d, st
    <3>3. Moves(ds, x, st, y, y) BY <1>2, <2>2, <3>1, MapSpares
    <3>4. Stays(ds, x, <<st>>, y) BY <3>3, OneStays
    <3>5. Stays(ds, x, a \o <<st>> \o d, y) BY <3>2, <3>4, BothStay
    <3> QED BY <3>5 DEF a, d, st
  <2>5. s = [i \in DOMAIN order |-> s[i]] /\ \A i \in DOMAIN order : Stays(ds, x, s[i], y)
    <3> HIDE DEF order, Turn
    <3> QED BY <2>3, <2>4
  <2>6. Stays(ds, x, FlattenSeq(s), y)
    <3> HIDE DEF s, order
    <3> QED BY <2>3, <2>5, TurnStays
  <2>7. Stays(ds, x, old, y)
    <3> DEFINE a == [op |-> "rename_type"]
               b == [op |-> "create_type", labels |-> p.to.labels]
    <3>1. Stays(ds, x, <<a>>, y) /\ Stays(ds, x, <<b>>, y) BY OthersSpare DEF Touching
    <3>2. old = <<a>> \o <<b>> BY Zenon, PairIs
    <3> HIDE DEF a, b, old
    <3> QED BY <3>1, <3>2, BothStay
  <2>8. Stays(ds, x, end, y) BY OthersSpare DEF Touching
  <2>9. RecreateEnum(p) = old \o FlattenSeq(s) \o end BY DEF RecreateEnum, Each, InTurn, S
  <2> HIDE DEF old, s, end
  <2> QED BY <2>6, <2>7, <2>8, <2>9, BothStay
<1>3. Stays(ds, x, AlterType(p), y) BY <1>1, <1>2, WhenStays DEF AlterType
<1>4. \A r : Stays(ds, x, AlterTable(p, r), y)
  <2> TAKE r
  <2> DEFINE old == {c \in ColumnsOf(p.to, r) : Continues(p, c)}
             order == InOrder(old)
             s == [i \in DOMAIN order |-> AlterColumn(p, order[i])]
  <2>1. IsFiniteSet(old) BY <1>0, FS_Subset DEF ColumnsOf
  <2>2. old \subseteq p.to.cols BY DEF ColumnsOf
  <2>3. order \in Seq(old)
    <3> HIDE DEF old
    <3> QED BY InOrderIn
  <2> HIDE DEF old
  <2>4. \A c \in old : Stays(ds, x, AlterColumn(p, c), y) BY <2>2, AlterColumnSpares
  <2>5. s = [i \in DOMAIN order |-> s[i]] /\ \A i \in DOMAIN order : Stays(ds, x, s[i], y)
    <3> HIDE DEF order
    <3> QED BY <2>3, <2>4
  <2>6. Stays(ds, x, FlattenSeq(s), y)
    <3> HIDE DEF s, order
    <3> QED BY <2>3, <2>5, TurnStays
  <2>7. Stays(ds, x, BackfillsLeft(p, old), y) BY <2>1, UpdatesSpare
  <2>8. AlterTable(p, r) = FlattenSeq(s) \o BackfillsLeft(p, old) BY DEF AlterTable, InTurn, old
  <2> HIDE DEF s
  <2> QED BY <2>6, <2>7, <2>8, BothStay
<1>5. Stays(ds, x, InTurn(Ordered(RelationOrder, Continued(p)), LAMBDA r : AlterTable(p, r)), y)
  <2> DEFINE order == Ordered(RelationOrder, Continued(p))
             s == [i \in DOMAIN order |-> AlterTable(p, order[i])]
  <2>1. order \in Seq(Continued(p)) BY OrderedIn, OrderAssumption
  <2>2. s = [i \in DOMAIN order |-> s[i]] /\ \A i \in DOMAIN order : Stays(ds, x, s[i], y)
    <3> HIDE DEF order
    <3> QED BY <1>4
  <2>3. Stays(ds, x, FlattenSeq(s), y)
    <3> HIDE DEF s, order
    <3> QED BY <2>1, <2>2, TurnStays
  <2> QED BY <2>3 DEF InTurn
<1> QED BY <1>3, <1>5, BothStay DEF Alters

\* So do the additions.
LEMMA AddsSpare ==
  ASSUME NEW p, Told(p), WellFormed(p.to), NEW x, NEW y
  PROVE  Stays(p.list, x, Adds(p), y)
<1> DEFINE ds == p.list
<1>0. IsFiniteSet(p.to.parts) /\ IsFiniteSet(p.to.cols) BY DEF Told, Finite
<1>1. \A kinds : Stays(ds, x, Each(Missing(p, kinds), AddPart), y)
  <2>1. \A kinds : IsFiniteSet(Missing(p, kinds)) BY <1>0, FS_Subset DEF Missing
  <2> QED BY <2>1, PartsSpare
<1>2. \A c \in p.to.cols : Stays(ds, x, AddColumn(p, c), y)
  <2> SUFFICES ASSUME NEW c \in p.to.cols PROVE Stays(ds, x, AddColumn(p, c), y) OBVIOUS
  <2> DEFINE nullable == [c EXCEPT !.notNull = FALSE]
             a == <<[op |-> "add_column", col |-> nullable]>>
             b == Backfill(p, c)
             d == Alter("set_not_null", c)
             e == <<[op |-> "add_column", col |-> c]>>
  <2>1. DOMAIN c = ColFields BY DEF WellFormed, ColumnsFormed, ColFields
  <2>2. DOMAIN nullable = ColFields BY <2>1
  <2> HIDE DEF nullable
  <2>3. Stays(ds, x, a, y) /\ Stays(ds, x, e, y) BY <2>1, <2>2, AddSpares
  <2>4. Stays(ds, x, b, y) /\ Stays(ds, x, d, y) BY AlterSpares, WhenStays DEF Backfill, Touching
  <2>5. AddColumn(p, c) = IF c.notNull /\ <<c.rel, c.name>> \in Filling(p) THEN a \o b \o d ELSE e
    BY DEF AddColumn, nullable
  <2> HIDE DEF a, b, d, e
  <2>6. Stays(ds, x, a \o b \o d, y) BY <2>3, <2>4, BothStay
  <2> QED BY <2>3, <2>5, <2>6
<1>3. \A r : Stays(ds, x, AddRelation(p, r), y)
  <2> TAKE r
  <2> DEFINE fresh == {c \in ColumnsOf(p.to, r) : ~Continues(p, c)}
             order == ReadsLast(fresh)
             s == [i \in DOMAIN order |-> AddColumn(p, order[i])]
             v == View(p.to, r)
             st == [op |-> "create_table", rel |-> r, cols |-> ColumnsOf(p.to, r),
                    checks |-> {a \in PartsOf(p.to, r) : a.kind = "check"}]
             view == <<[op |-> "create_view", view |-> v]>>
             anew == <<[op |-> "replace_view", view |-> v]>>
  <2>1. IsFiniteSet(fresh) BY <1>0, FS_Subset DEF ColumnsOf
  <2>2. fresh \subseteq p.to.cols BY DEF ColumnsOf
  <2>3. order \in Seq(fresh)
    <3> HIDE DEF fresh
    <3> QED BY ReadsLastIn
  <2>4. s = [i \in DOMAIN order |-> s[i]] /\ \A i \in DOMAIN order : Stays(ds, x, s[i], y)
    <3> HIDE DEF order, fresh
    <3> QED BY <1>2, <2>2, <2>3
  <2>5. Stays(ds, x, FlattenSeq(s), y)
    <3> HIDE DEF s, order, fresh
    <3> QED BY <2>3, <2>4, TurnStays
  <2>6. Stays(ds, x, BackfillsLeft(p, fresh), y)
    <3> HIDE DEF fresh
    <3> QED BY <2>1, UpdatesSpare
  <2>7. Stays(ds, x, <<st>>, y)
    <3>1. st.op = "create_table" /\ st.cols = ColumnsOf(p.to, r) /\ st.rel = r OBVIOUS
    <3> HIDE DEF st
    <3>2. \A c \in st.cols : DOMAIN c = ColFields /\ c.rel = st.rel
      BY <3>1 DEF ColumnsOf, WellFormed, ColumnsFormed, ColFields
    <3>3. Moves(ds, x, st, y, y) BY <3>1, <3>2 DEF Moves, ColFields
    <3> QED BY <3>3, OneStays
  <2>8. Stays(ds, x, view, y) /\ Stays(ds, x, anew, y) BY OthersSpare DEF Touching
  <2>9. \A b : Stays(ds, x, When(b, anew), y)
    <3> HIDE DEF anew
    <3> QED BY <2>8, WhenStays
  <2>10. \/ AddRelation(p, r) = FlattenSeq(s) \o BackfillsLeft(p, fresh) \/ AddRelation(p, r) = <<st>>
         \/ AddRelation(p, r) = view \/ \E b : AddRelation(p, r) = When(b, anew)
    BY DEF AddRelation, InTurn
  <2> HIDE DEF s, fresh, st, view, anew
  <2>11. Stays(ds, x, FlattenSeq(s) \o BackfillsLeft(p, fresh), y) BY <2>5, <2>6, BothStay
  <2> QED BY <2>7, <2>8, <2>9, <2>10, <2>11
<1>4. Stays(ds, x, InTurn(Ordered(RelationOrder, p.to.tables \cup ViewNames(p.to)), LAMBDA r : AddRelation(p, r)), y)
  <2> DEFINE S == p.to.tables \cup ViewNames(p.to)
             order == Ordered(RelationOrder, S)
             s == [i \in DOMAIN order |-> AddRelation(p, order[i])]
  <2>1. order \in Seq(S)
    <3> HIDE DEF S
    <3> QED BY OrderedIn, OrderAssumption
  <2>2. s = [i \in DOMAIN order |-> s[i]] /\ \A i \in DOMAIN order : Stays(ds, x, s[i], y)
    <3> HIDE DEF order
    <3> QED BY <1>3
  <2>3. Stays(ds, x, FlattenSeq(s), y)
    <3> HIDE DEF s, order, S
    <3> QED BY <2>1, <2>2, TurnStays
  <2> QED BY <2>3 DEF InTurn
<1> QED BY <1>1, <1>4, BothStay DEF Adds

\* A plan takes what x held to where the author means it to be.
LEMMA PlanCarries ==
  ASSUME NEW p, NEW x, NEW y, Lasts(p, x, y), Silent(p.list, x)
  PROVE  Carries(p.list, x, Plan(p), x, y)
<1>1. Told(p) /\ WellFormed(p.to) BY DEF Lasts, Meant
<1>2. Carries(p.list, x, Drops(p), x, x) BY <1>1, DropsSpare, StaysCarries
<1>3. Carries(p.list, x, Renames(p), x, y) BY RenamesCarry DEF Lasts
<1>4. Carries(p.list, x, Alters(p), y, y) BY AltersSpare, StaysCarries
<1>5. Carries(p.list, x, Adds(p), y, y) BY <1>1, AddsSpare, StaysCarries
<1> QED BY <1>2, <1>3, <1>4, <1>5, BothCarry DEF Plan
-----------------------------------------------------------------------------
(* what is left of a plan does to the values of the database *)

\* A planner that reports no problem is made from what the author means.
LEMMA PlannerMeant ==
  ASSUME Authored, Finite(to), IsFiniteSet(list), Intended(to, list, was),
         NEW p, p = Planner(Source, to, list), ~HasProblems(p)
  PROVE  Meant(p) /\ p.to = to /\ p.list = list
<1>1. Told(p) BY PlannerTold
<1>2. /\ p.from = Source /\ p.to = to /\ p.list = list
      /\ p.relTo = {<<i.rel, i.to>> : i \in {i \in list : TableRenamed(Source, to, i)}}
      /\ p.colTo = {<<i.col, i.to>> : i \in {i \in list : ColumnRenamed(Source, to, p.relTo, i)}}
      /\ p.enum = Recreates(Source, to, list)
  BY DEF Planner
<1>3. Unfounded(p) = {} BY DEF HasProblems
<1> QED BY <1>1, <1>2, <1>3 DEF Meant, Authored

\* Every value that no declaration gives up is on its way, by what is left of the plan q, to the
\* column the author means it to be in, unless the target computes that.
Delivers(t, ds, w, d, q) ==
  \A x \in Names(Source) :
    \/ Holds(x) = "null" \/ Col(Source, x).gen # {} \/ ~Silent(ds, x)
    \/ \E y \in DOMAIN w :
         /\ w[y] = x
         /\ Col(t, y).gen # {} \/ \E u : Holding(ds, x, d, u) /\ Carries(ds, x, q, u, y)

Carried ==
  /\ pc = "edit" => /\ Sound(db) /\ DOMAIN db.val = Names(Source)
                    /\ \A x \in Names(Source) : db.val[x] = Holds(x)
  /\ pc \in {"run", "done"} => Delivers(to, list, was, db, plan)
  /\ pc = "done" => plan = <<>>

\* At first every column holds what it holds.
LEMMA CarriedInit == Init => Carried
<1> SUFFICES ASSUME Init PROVE Carried OBVIOUS
<1>1. /\ DOMAIN db = {"tables", "cols", "parts", "views", "labels", "val"}
      /\ db.tables = Source.tables /\ db.cols = Source.cols /\ db.val = [x \in Names(Source) |-> Holds(x)]
  BY DEF Init
<1>2. Names(db) = Names(Source) BY <1>1 DEF Names
<1>3. Sound(db) BY <1>1, <1>2, SourceAssumption DEF Sound, WellFormed, ColumnsFormed
<1>4. pc = "edit" BY DEF Init
<1> QED BY <1>1, <1>3, <1>4 DEF Carried

\* A plan that has just been made takes every value where it is to be.
LEMMA PlanDelivers ==
  ASSUME Authored, PlansTold, Intended(to, list, was), Carried, pc = "edit",
         NEW p, p = Planner(Source, to, list), ~HasProblems(p)
  PROVE  Delivers(to, list, was, db, Plan(p))
<1>1. Meant(p) /\ p.to = to /\ p.list = list BY PlannerMeant DEF PlansTold
<1>2. ASSUME NEW x \in Names(Source), Holds(x) # "null", Silent(list, x)
      PROVE  \E y \in DOMAIN was :
               /\ was[y] = x
               /\ Col(to, y).gen # {} \/ \E u : Holding(list, x, db, u) /\ Carries(list, x, Plan(p), u, y)
  <2> DEFINE y == ToCol(p, x)
  <2>1. Leads(p, x, y) BY <1>1, <1>2, LeadsOn
  <2> HIDE DEF y
  <2>2. y \in DOMAIN was /\ was[y] = x BY <2>1 DEF Leads
  <2>3. ASSUME Col(to, y).gen = {}
        PROVE  Holding(list, x, db, x) /\ Carries(list, x, Plan(p), x, y)
    <3>1. Lasts(p, x, y) BY <1>1, <1>2, <2>1, <2>3 DEF Lasts
    <3>2. Carries(list, x, Plan(p), x, y) BY <1>1, <1>2, <3>1, PlanCarries
    <3>3. Holding(list, x, db, x) BY <1>2 DEF Carried, Holding, Kept
    <3> QED BY <3>2, <3>3
  <2> QED BY <2>2, <2>3
<1> QED BY <1>2 DEF Delivers

\* Each statement takes the values on their way one step further.
LEMMA StepDelivers ==
  ASSUME NEW t, NEW ds, NEW w, NEW d, NEW q, Delivers(t, ds, w, d, q), q # <<>>, Accepts(d, Head(q))
  PROVE  Delivers(t, ds, w, After(d, Head(q)), Tail(q))
<1>1. ASSUME NEW x, NEW y, NEW u, Holding(ds, x, d, u), Carries(ds, x, q, u, y)
      PROVE  \E v : Holding(ds, x, After(d, Head(q)), v) /\ Carries(ds, x, Tail(q), v, y)
  <2>1. PICK v : Moves(ds, x, Head(q), u, v) /\ Carries(ds, x, Tail(q), v, y) BY <1>1, TailCarries
  <2>2. Holding(ds, x, After(d, Head(q)), v) BY <1>1, <2>1, StepHolds
  <2> QED BY <2>1, <2>2
<1> QED BY <1>1 DEF Delivers

\* The author changes what is planned for, and nothing of the database.
LEMMA EditsSpare ==
  ASSUME \/ DropColumnEdit \/ RetypeEdit \/ NullEdit \/ RenameColumnEdit \/ RenameTableEdit \/ DropTableEdit
         \/ AddColumnEdit \/ AddTableEdit \/ PartEdit \/ ViewEdit \/ LabelEdit \/ GeneratedEdit
  PROVE  pc = "edit" /\ pc' = pc /\ db' = db /\ plan' = plan
<1>1. \A kind, new, origin, ds : Edit(kind, new, origin, ds) => pc' = pc /\ db' = db /\ plan' = plan BY DEF Edit
<1>2. DropColumnEdit => Editing /\ \E kind, new, origin, ds : Edit(kind, new, origin, ds) BY Zenon DEF DropColumnEdit
<1>3. RetypeEdit => Editing /\ \E kind, new, origin, ds : Edit(kind, new, origin, ds) BY Zenon DEF RetypeEdit, Same
<1>4. NullEdit => Editing /\ \E kind, new, origin, ds : Edit(kind, new, origin, ds) BY Zenon DEF NullEdit
<1>5. RenameColumnEdit => Editing /\ \E kind, new, origin, ds : Edit(kind, new, origin, ds)
  BY Zenon DEF RenameColumnEdit
<1>6. RenameTableEdit => Editing /\ \E kind, new, origin, ds : Edit(kind, new, origin, ds)
  BY Zenon DEF RenameTableEdit
<1>7. DropTableEdit => Editing /\ \E kind, new, origin, ds : Edit(kind, new, origin, ds) BY Zenon DEF DropTableEdit
<1>8. AddColumnEdit => Editing /\ \E kind, new, origin, ds : Edit(kind, new, origin, ds) BY Zenon DEF AddColumnEdit
<1>9. AddTableEdit => Editing /\ \E kind, new, origin, ds : Edit(kind, new, origin, ds)
  BY Zenon DEF AddTableEdit, Same
<1>10. PartEdit => Editing /\ \E kind, new, origin, ds : Edit(kind, new, origin, ds) BY Zenon DEF PartEdit, Same
<1>11. ViewEdit => Editing /\ \E kind, new, origin, ds : Edit(kind, new, origin, ds) BY Zenon DEF ViewEdit, Same
<1>12. LabelEdit => Editing /\ \E kind, new, origin, ds : Edit(kind, new, origin, ds) BY Zenon DEF LabelEdit, Same
<1>13. GeneratedEdit => Editing /\ \E kind, new, origin, ds : Edit(kind, new, origin, ds)
  BY Zenon DEF GeneratedEdit, Same
<1>14. Editing => pc = "edit" BY DEF Editing
<1> QED BY <1>1, <1>2, <1>3, <1>4, <1>5, <1>6, <1>7, <1>8, <1>9, <1>10, <1>11, <1>12, <1>13, <1>14

\* No change of the author loses a value of the database, and no statement one that is on its way.
LEMMA CarriedNext == Authored /\ PlansTold /\ Intended(to, list, was) /\ Carried /\ [Next]_vars => Carried'
<1> SUFFICES ASSUME Authored, PlansTold, Intended(to, list, was), Carried, [Next]_vars PROVE Carried' OBVIOUS
<1>1. CASE \/ DropColumnEdit \/ RetypeEdit \/ NullEdit \/ RenameColumnEdit \/ RenameTableEdit \/ DropTableEdit
           \/ AddColumnEdit \/ AddTableEdit \/ PartEdit \/ ViewEdit \/ LabelEdit \/ GeneratedEdit
  BY <1>1, EditsSpare DEF Carried
<1>2. CASE MakePlan
  <2> DEFINE p == Planner(Source, to, list)
  <2>1. pc = "edit" /\ to' = to /\ list' = list /\ was' = was /\ db' = db BY <1>2 DEF MakePlan
  <2>2. CASE HasProblems(p)
    <3>1. pc' = "problems" BY <1>2, <2>2 DEF MakePlan
    <3> QED BY <3>1 DEF Carried
  <2>3. CASE ~HasProblems(p)
    <3>1. plan' = Plan(p) /\ pc' = IF Plan(p) = <<>> THEN "done" ELSE "run" BY <1>2, <2>3 DEF MakePlan
    <3>2. Delivers(to, list, was, db, Plan(p)) BY <2>1, <2>3, PlanDelivers
    <3>3. Delivers(to', list', was', db', plan') BY <2>1, <3>1, <3>2
    <3> HIDE DEF p
    <3> QED BY <3>1, <3>3 DEF Carried
  <2> QED BY <2>2, <2>3
<1>3. CASE Execute
  <2>1. pc = "run" /\ to' = to /\ list' = list /\ was' = was BY <1>3 DEF Execute
  <2>2. plan # <<>> /\ plan \in Seq(ToSet(plan)) BY <2>1 DEF PlansTold, Explained
  <2>3. CASE Accepts(db, Head(plan))
    <3>1. db' = After(db, Head(plan)) /\ plan' = Tail(plan) /\ pc' = IF Len(plan) = 1 THEN "done" ELSE "run"
      BY <1>3, <2>3 DEF Execute
    <3>2. Delivers(to, list, was, After(db, Head(plan)), Tail(plan)) BY <2>1, <2>2, <2>3, StepDelivers DEF Carried
    <3>3. Delivers(to', list', was', db', plan') BY <2>1, <3>1, <3>2
    <3>4. Len(plan) = 1 => Tail(plan) = <<>>
      <4> DEFINE A == ToSet(plan)
      <4>1. plan \in Seq(A) BY <2>2
      <4> HIDE DEF A
      <4> DEFINE rest == Tail(plan)
      <4>2. rest \in Seq(A) /\ Len(rest) = Len(plan) - 1 BY <2>2, <4>1
      <4> HIDE DEF rest
      <4>3. Len(plan) = 1 => rest = <<>> BY <4>2
      <4> QED BY <4>3 DEF rest
    <3> QED BY <3>1, <3>3, <3>4 DEF Carried
  <2>4. CASE ~Accepts(db, Head(plan))
    <3>1. pc' = "refused" BY <1>3, <2>4 DEF Execute
    <3> QED BY <3>1 DEF Carried
  <2> QED BY <2>3, <2>4
<1>4. CASE UNCHANGED vars BY <1>4 DEF Carried, vars
<1> QED BY <1>1, <1>2, <1>3, <1>4 DEF Next

\* Once there is no more to run, a value is where it is to be.
LEMMA CarriedKept == Carried => LossIsDeclared
<1> SUFFICES ASSUME Carried, pc = "done", NEW x \in Names(Source), HasValue(x), ~Announced(x)
             PROVE  \E y \in DOMAIN was : was[y] = x /\ (Col(to, y).gen # {} \/ KeptAs(x, y))
  BY DEF LossIsDeclared
<1>1. Silent(list, x) BY DEF Announced, Silent
<1>2. plan = <<>> BY DEF Carried
<1>3. PICK y \in DOMAIN was :
        /\ was[y] = x
        /\ Col(to, y).gen # {} \/ \E u : Holding(list, x, db, u) /\ Carries(list, x, plan, u, y)
  BY <1>1 DEF Carried, Delivers, HasValue
<1>4. ASSUME NEW u, Holding(list, x, db, u), Carries(list, x, plan, u, y) PROVE KeptAs(x, y)
  <2>1. Len(plan) + 1 = 1 BY <1>2
  <2>2. u = y BY <1>4, <2>1 DEF Carries
  <2> QED BY <1>4, <2>2 DEF Holding, Kept, KeptAs
<1> QED BY <1>3, <1>4

\* Whatever the author changes, and forgets to declare, a plan without problems that the server has
\* run leaves every value in the column the author means it to be in, unless the column or its
\* table is declared dropped, or the target computes the column; a label may be one that it is
\* declared to become.
THEOREM LossDeclared == Spec => []LossIsDeclared
<1> DEFINE Inv == Authored /\ PlansTold /\ Intended(to, list, was) /\ Carried
<1>1. Init => Inv
  <2>1. Init => Intended(to, list, was) BY LabelAssumption, IntendedInit DEF Init
  <2> QED BY <2>1, AuthoredInit, ToldInit, CarriedInit
<1>2. Inv /\ [Next]_vars => Inv' BY AuthoredNext, ToldNext, IntendedNext, CarriedNext
<1>3. Inv => LossIsDeclared BY CarriedKept
<1> QED BY <1>1, <1>2, <1>3, PTL DEF Spec
=============================================================================
