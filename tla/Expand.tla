------------------------------- MODULE Expand -------------------------------
(***************************************************************************)
(* The checker's side (x/expand): every SQL text a template can produce.   *)
(* A list of partial expansions is taken from node to node; a control      *)
(* multiplies them, unless an earlier one has read the same path in the    *)
(* same iteration: then the two agree.  When the branches multiply beyond  *)
(* MaxExpansions, a sparse set stands for the product.                     *)
(***************************************************************************)
EXTENDS TemplateTree

CONSTANT MaxExpansions
ASSUME ExpandAssumption == MaxExpansions \in Nat \ {0}

NewRootState ==
  [sql |-> <<>>, params |-> <<>>, branch |-> <<>>, dot |-> <<>>, vars |-> (Root :> <<>>),
   iter |-> <<>>, decisions |-> <<>>, guarded |-> {}]

\* which way to go where nothing is decided: every way, or (sparse) the one given by position
Everywhere == [every |-> TRUE, on |-> <<>>]
Sparsely(on) == [every |-> FALSE, on |-> on]
Chosen(pol, at) == IF at \in DOMAIN pol.on THEN pol.on[at] ELSE 0

\* the path of a reference, from the root
PipePath(ref, s) == (IF ref.var = "" THEN s.dot ELSE s.vars[ref.var]) \o ref.fields

Param(s, path) ==
  LET key == [path |-> path, iter |-> s.iter]
      n == NumberOf(s.params, key)
  IN [s EXCEPT !.sql = Append(@, Placeholder(n)),
               !.params = IF n > Len(@) THEN Append(@, key) ELSE @]

\* variant: a path is decided once for all iterations
TieKeyForAll(n, s) == <<n.node, PipePath(n.ref, s), <<>>>>

\* what a control has read
TieKey(n, s) == <<n.node, PipePath(n.ref, s), s.iter>>

\* variant: reading a path proves it set, whichever way it went
EnterGuarding(n, at, s, times) ==
  LET path == PipePath(n.ref, s) IN
  [s EXCEPT !.branch = Append(@, Took(n, at, times)),
            !.decisions = IF n.plain THEN TieKey(n, s) :> times @@ @ ELSE @,
            !.guarded = IF n.plain THEN @ \cup {path} ELSE @,
            !.dot = IF n.node = "with" /\ times = 1 THEN path ELSE @]

\* a state goes one way at a control (or a range runs so many times)
Enter(n, at, s, times) ==
  LET path == PipePath(n.ref, s) IN
  [s EXCEPT !.branch = Append(@, Took(n, at, times)),
            !.decisions = IF n.plain THEN TieKey(n, s) :> times @@ @ ELSE @,
            !.guarded = IF n.plain /\ n.node # "range" /\ times = 1 THEN @ \cup {path} ELSE @,
            !.dot = IF n.node = "with" /\ times = 1 THEN path ELSE @]

Decided(n, s) == n.plain /\ TieKey(n, s) \in DOMAIN s.decisions

\* the ways a state may go: the one decided, the one chosen, or all
Ways(n, at, s, pol) ==
  CASE Decided(n, s) -> {s.decisions[TieKey(n, s)]}
    [] ~Decided(n, s) /\ pol.every -> IF n.node = "range" THEN 0 .. 2 ELSE {0, 1}
    [] OTHER -> {Chosen(pol, at)}

Going(n, at, states, pol, times) ==
  LET goes(s) == times \in Ways(n, at, s, pol)
      enter(s) == Enter(n, at, s, times)
  IN Each(SelectSeq(states, goes), enter)

BindVar(states, var, path) == Each(states, LAMBDA s : [s EXCEPT !.vars = var :> path @@ @])

\* dot, for all of them, is again what it was before the control
WithDot(states, dot) == Each(states, LAMBDA s : [s EXCEPT !.dot = dot])

\* variant: the index and the element change places
ElementVarsSwapped(vars, elem) ==
  CASE Len(vars) = 0 -> <<>>
    [] Len(vars) = 1 -> vars[1] :> elem
    [] OTHER -> vars[1] :> elem @@ vars[2] :> <<"#index">>

\* the paths of a range's variables; the index has a path of its own
ElementVars(vars, elem) ==
  CASE Len(vars) = 0 -> <<>>
    [] Len(vars) = 1 -> vars[1] :> elem
    [] OTHER -> vars[1] :> <<"#index">> @@ vars[2] :> elem

\* into the i-th element of a range, and out of it
Element(n, path, s, i) ==
  LET elem == Append(path, "[]")
  IN [s EXCEPT !.dot = elem, !.iter = Append(@, i), !.vars = ElementVars(n.vars, elem) @@ @]
Leave(s) == [s EXCEPT !.iter = Front(@)]

RECURSIVE ExpandFrom(_, _, _, _, _), Iterations(_, _, _, _, _, _, _), ExpandRange(_, _, _, _)

ExpandList(l, at, states, pol) == ExpandFrom(l, at, 1, states, pol)

Iterations(n, at, path, states, pol, i, times) ==
  IF states = <<>> \/ i = times THEN states
  ELSE LET element(s) == Element(n, path, s, i)
           inside == ExpandList(n.body, Body(at), Each(states, element), pol)
       IN Iterations(n, at, path, Each(inside, Leave), pol, i + 1, times)

\* a range over one path, run `times` times by the states that go so
RunRange(n, at, path, states, pol, times) ==
  IF states = <<>> THEN <<>>
  ELSE IF times = 0 THEN ExpandList(n.orelse, OrElse(at), states, pol)
  ELSE WithDot(Iterations(n, at, path, states, pol, 0, times), states[1].dot)

\* states that range over different paths are taken one path after another; within a path
\* the decided ones come first
ExpandRange(n, at, states, pol) ==
  IF states = <<>> THEN <<>>
  ELSE LET path == PipePath(n.ref, states[1])
           alike == SelectSeq(states, LAMBDA s : PipePath(n.ref, s) = path)
           others == SelectSeq(states, LAMBDA s : PipePath(n.ref, s) # path)
           group(d) == SelectSeq(alike, LAMBDA s : Decided(n, s) = d)
           run(d, times) == RunRange(n, at, path, Going(n, at, group(d), pol, times), pol, times)
           counts(d) == run(d, 0) \o run(d, 1) \o run(d, 2)
       IN counts(TRUE) \o counts(FALSE) \o ExpandRange(n, at, others, pol)

\* the dot that is put back after a {{with}} is read from the first state once the states
\* have been routed; one that was decided is not copied, and has the path for its dot by then
\* (and would have that of a {{with}} in the body, were it decided as well)
DotAfter(n, s) ==
  IF Decided(n, s) /\ s.decisions[TieKey(n, s)] = 1 THEN PipePath(n.ref, s) ELSE s.dot

\* the then part of all states, and after it the else part of all
ExpandBranches(n, at, states, pol) ==
  LET then == ExpandList(n.body, Body(at), Going(n, at, states, pol, 1), pol)
      els == ExpandList(n.orelse, OrElse(at), Going(n, at, states, pol, 0), pol)
  IN (IF n.node = "with" THEN WithDot(then, DotAfter(n, states[1])) ELSE then) \o els

\* the path of a value, of a declaration and of a {{with}} is looked up in the first state
ExpandNode(n, at, states, pol) ==
  CASE n.node = "text" ->
         Each(states, LAMBDA s : [s EXCEPT !.sql = Append(@, TextAt(at))])
    [] n.node = "value" ->
         Each(states, LAMBDA s : Param(s, PipePath(n.ref, states[1])))
    [] n.node = "declare" -> BindVar(states, n.var, PipePath(n.ref, states[1]))
    [] n.node = "with" /\ n.vars # <<>> ->
         ExpandBranches(n, at, BindVar(states, n.vars[1], PipePath(n.ref, states[1])), pol)
    [] n.node = "range" -> ExpandRange(n, at, states, pol)
    [] OTHER -> ExpandBranches(n, at, states, pol)

ExpandFrom(l, at, i, states, pol) ==
  IF states = <<>> \/ i > Len(l) THEN states
  ELSE ExpandFrom(l, at, i + 1, ExpandNode(l[i], Append(at, i), states, pol), pol)
-----------------------------------------------------------------------------
\* the controls of a template in source order
RECURSIVE Controls(_, _)
Controls(l, at) ==
  FlattenSeq([i \in DOMAIN l |->
    LET here == Append(at, i) IN
    IF ~IsControl(l[i]) THEN <<>>
    ELSE <<[node |-> l[i].node, at |-> here, plain |-> l[i].plain, ref |-> l[i].ref]>>
           \o Controls(l[i].body, Body(here)) \o Controls(l[i].orelse, OrElse(here))])

\* variant: a computed condition is taken for the reference it reads
AlikeComputed(c, d) == c.node = d.node /\ c.ref = d.ref
\* written alike: ".F", wherever dot may be
Alike(c, d) == c.plain /\ d.plain /\ c.node = d.node /\ c.ref = d.ref

\* those that count: the first of all that are written alike
BranchNodes(l) ==
  LET all == Controls(l, <<>>)
      first(k) == \A j \in 1 .. k - 1 : ~Alike(all[j], all[k])
      add(acc, k) == IF first(k) THEN Append(acc, all[k]) ELSE acc
  IN FoldLeft(add, <<>>, [k \in DOMAIN all |-> k])

Combinations(cs) == FoldLeft(LAMBDA acc, c : acc * (IF c.node = "range" THEN 3 ELSE 2), 1, cs)

\* all off, all on, each on alone
Policies(cs) ==
  LET ats == {cs[k].at : k \in DOMAIN cs}
      allOn == [at \in ats |->
                  IF \E k \in DOMAIN cs : cs[k].at = at /\ cs[k].node = "range" THEN 2 ELSE 1]
  IN <<Sparsely(<<>>), Sparsely(allOn)>> \o [k \in DOMAIN cs |-> Sparsely(cs[k].at :> 1)]

\* what is kept of a complete state
Emit(states) ==
  Each(states, LAMBDA s : [sql |-> s.sql, params |-> s.params, branch |-> s.branch,
                           guarded |-> s.guarded])

\* reading path itself has proved it set
Guarded(e, path) == path \in e.guarded

\* the expansions; or none, when a elements of a range multiply the branches beyond the limit
ExpandTemplate(t) ==
  LET cs == BranchNodes(t)
      sparse == Combinations(cs) > MaxExpansions
      pols == IF sparse THEN Policies(cs) ELSE <<Everywhere>>
      passes == [k \in DOMAIN pols |-> ExpandList(t, <<>>, <<NewRootState>>, pols[k])]
      failed == \E k \in DOMAIN passes : Len(passes[k]) > MaxExpansions
  IN [sparse |-> sparse, failed |-> failed,
      expansions |-> IF failed THEN <<>> ELSE Emit(FlattenSeq(passes))]
=============================================================================
