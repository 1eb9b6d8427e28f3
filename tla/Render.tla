------------------------------- MODULE Render -------------------------------
(***************************************************************************)
(* A statement from its declaration to the database: the checker expands   *)
(* the template (Expand), and each call renders it on its parameter and    *)
(* compares the SQL with the expansion of the same branches (render.go).   *)
(* The evaluator is a second implementation of the templates' semantics;   *)
(* Meaning, at the end, is that of text/template.                          *)
(***************************************************************************)
EXTENDS Expand

CONSTANTS
  Templates, \* the statements, as lists of nodes
  Params     \* the values of the parameter struct they are called with

VARIABLES
  stmt,      \* the statement
  pc,        \* "written", "checked", "rejected"; then how a rendering ended
  checked,   \* what the checker analyzed
  param,     \* the parameter of the call
  out        \* the rendering

vars == <<stmt, pc, checked, param, out>>

Nothing == [none |-> TRUE]
-----------------------------------------------------------------------------
NewEvaluator(p) ==
  [sql |-> <<>>, args |-> <<>>, vars |-> (Root :> p), branch |-> <<>>, path |-> <<>>,
   iter |-> <<>>, unchecked |-> FALSE, failed |-> FALSE]

Failed == [kind |-> "failed"]

\* a chain of fields; there is none behind a nil pointer
FieldChain(v, fields) ==
  FoldLeft(LAMBDA acc, f : IF acc.kind = "struct" THEN acc.fields[f] ELSE Failed, v, fields)

\* a reference has a value and a static path, which starts with the variable it reads
ActionValue(ref, ev, dot) ==
  IF ref.var = "" THEN FieldChain(dot, ref.fields)
  ELSE IF ref.var \in DOMAIN ev.vars THEN FieldChain(ev.vars[ref.var], ref.fields)
  ELSE Failed
ActionPath(ref, ev) == (IF ref.var = "" THEN ev.path ELSE <<ref.var>>) \o ref.fields

\* a placeholder for an origin, which is one per path and iteration
EvParam(ev, path, val) ==
  LET key == [path |-> path, iter |-> ev.iter]
      n == NumberOf(Each(ev.args, LAMBDA a : a.key), key)
  IN [ev EXCEPT !.sql = Append(@, Placeholder(n)),
                !.args = IF n > Len(@) THEN Append(@, [key |-> key, val |-> val]) ELSE @]

EvFail(ev) == [ev EXCEPT !.failed = TRUE]
EvTook(ev, n, at, times) == [ev EXCEPT !.branch = Append(@, Took(n, at, times))]

\* variant: a variable keeps its first value
RebindOnce(old, new) == old @@ new
Rebind(old, new) == new @@ old

\* the values of a range's variables at its element i
ElementValues(n, elems, i) ==
  CASE Len(n.vars) = 0 -> <<>>
    [] Len(n.vars) = 1 -> n.vars[1] :> elems[i + 1]
    [] OTHER -> n.vars[1] :> IndexValue(i) @@ n.vars[2] :> elems[i + 1]

\* entering an element: its variables, which stay when the range is over, and its path
EvElement(n, ev, path, elems, i) ==
  [ev EXCEPT !.vars = Rebind(@, ElementValues(n, elems, i)), !.path = Append(path, "[]"),
             !.iter = Append(@, i)]

RECURSIVE EvFrom(_, _, _, _, _), EvElems(_, _, _, _, _, _)

EvList(l, at, ev, dot) == EvFrom(l, at, 1, ev, dot)

EvElems(n, at, ev, path, elems, i) ==
  IF ev.failed \/ i = Len(elems) THEN ev
  ELSE LET done == EvList(n.body, Body(at), EvElement(n, ev, path, elems, i), elems[i + 1])
       IN EvElems(n, at, [done EXCEPT !.path = ev.path, !.iter = ev.iter], path, elems, i + 1)

\* more than two iterations have no expansion to be compared with
EvRange(n, at, ev, dot) ==
  LET elems == Elems(ActionValue(n.ref, ev, dot))
      took == [EvTook(ev, n, at, Len(elems)) EXCEPT !.unchecked = @ \/ Len(elems) > 2]
  IN IF elems = <<>> THEN EvList(n.orelse, OrElse(at), took, dot)
     ELSE EvElems(n, at, took, ActionPath(n.ref, ev), elems, 0)

\* {{with}} moves dot and its path; its variable, if it has one, is not bound
EvBranch(n, at, ev, dot) ==
  LET val == ActionValue(n.ref, ev, dot)
      cond == IsTrue(val) = n.plain
      took == EvTook(ev, n, at, IF cond THEN 1 ELSE 0)
      moved == [took EXCEPT !.path = ActionPath(n.ref, ev)]
  IN CASE cond /\ n.node = "with" -> [EvList(n.body, Body(at), moved, val) EXCEPT !.path = ev.path]
       [] cond /\ n.node = "if" -> EvList(n.body, Body(at), took, dot)
       [] OTHER -> EvList(n.orelse, OrElse(at), took, dot)

EvNode(n, at, ev, dot) ==
  CASE n.node = "text" -> [ev EXCEPT !.sql = Append(@, TextAt(at))]
    [] n.node # "text" /\ ActionValue(n.ref, ev, dot) = Failed -> EvFail(ev)
    [] n.node = "value" /\ ActionValue(n.ref, ev, dot) # Failed ->
         EvParam(ev, ActionPath(n.ref, ev), ActionValue(n.ref, ev, dot))
    [] n.node = "declare" /\ ActionValue(n.ref, ev, dot) # Failed ->
         [ev EXCEPT !.vars = n.var :> ActionValue(n.ref, ev, dot) @@ @]
    [] n.node = "range" /\ ActionValue(n.ref, ev, dot) # Failed ->
         IF Rangeable(ActionValue(n.ref, ev, dot)) THEN EvRange(n, at, ev, dot) ELSE EvFail(ev)
    [] OTHER -> EvBranch(n, at, ev, dot)

EvFrom(l, at, i, ev, dot) ==
  IF ev.failed \/ i > Len(l) THEN ev
  ELSE EvFrom(l, at, i + 1, EvNode(l[i], Append(at, i), ev, dot), dot)

Evaluate(t, p) == EvList(t, <<>>, NewEvaluator(p), p)
-----------------------------------------------------------------------------
\* there is an expansion to hold the rendering against
Comparable(ev, exps) == ~ev.unchecked /\ ~exps.sparse

\* the first expansion with the rendering's branches is the one it is held against
TwinOf(ev, exps) ==
  LET alike == SelectSeq(exps.expansions, LAMBDA e : e.branch = ev.branch)
  IN IF alike = <<>> THEN Nothing ELSE alike[1]

\* how a rendering ends
CheckAgainstExpansion(ev, exps) ==
  LET twin == TwinOf(ev, exps) IN
  CASE ev.failed -> "failed"
    [] ~ev.failed /\ ~Comparable(ev, exps) -> "sent"
    [] ~ev.failed /\ Comparable(ev, exps) /\ twin = Nothing -> "unseen"
    [] OTHER -> IF twin.sql = ev.sql /\ Len(twin.params) = Len(ev.args) THEN "sent" ELSE "differs"
-----------------------------------------------------------------------------
Init ==
  /\ stmt \in Templates
  /\ pc = "written"
  /\ checked = Nothing
  /\ param = Nothing
  /\ out = Nothing

\* the checker expands the template and analyzes each expansion
Vet ==
  /\ pc = "written"
  /\ checked' = ExpandTemplate(stmt)
  /\ pc' = IF checked'.failed THEN "rejected" ELSE "checked"
  /\ UNCHANGED <<stmt, param, out>>

\* a call of the statement
Call ==
  /\ pc = "checked"
  /\ param' \in Params
  /\ out' = Evaluate(stmt, param')
  /\ pc' = CheckAgainstExpansion(out', checked)
  /\ UNCHANGED <<stmt, checked>>

Next == Vet \/ Call

Spec == Init /\ [][Next]_vars
-----------------------------------------------------------------------------
(* text/template: variables are scoped, a placeholder is its value *)

RECURSIVE Meaning(_, _, _, _, _)

MeaningOf(n, at, scope, dot) ==
  LET base == IF n.ref.var = "" THEN dot ELSE scope[n.ref.var]
      val == FieldChain(base, n.ref.fields)
      inner(v) == (IF n.vars = <<>> THEN <<>> ELSE Last(n.vars) :> v) @@ scope
      indexed(i) == IF Len(n.vars) = 2 THEN n.vars[1] :> IndexValue(i) @@ scope ELSE scope
      elems == Elems(val)
  IN CASE n.node = "value" -> <<val>>
       [] n.node = "range" /\ elems # <<>> ->
            FlattenSeq([i \in DOMAIN elems |->
              Meaning(n.body, Body(at), 1,
                      (IF n.vars = <<>> THEN <<>> ELSE Last(n.vars) :> elems[i])
                        @@ indexed(i - 1), elems[i])])
       [] n.node = "if" /\ IsTrue(val) = n.plain -> Meaning(n.body, Body(at), 1, scope, dot)
       [] n.node = "with" /\ IsTrue(val) -> Meaning(n.body, Body(at), 1, inner(val), val)
       [] OTHER -> Meaning(n.orelse, OrElse(at), 1, scope, dot)

\* the texts and values that a list, from its i-th node on, stands for
Meaning(l, at, i, scope, dot) ==
  LET here == Append(at, i) IN
  CASE i > Len(l) -> <<>>
    [] i <= Len(l) /\ l[i].node = "text" -> <<TextAt(here)>> \o Meaning(l, at, i + 1, scope, dot)
    [] i <= Len(l) /\ l[i].node = "declare" ->
         LET base == IF l[i].ref.var = "" THEN dot ELSE scope[l[i].ref.var]
         IN Meaning(l, at, i + 1, l[i].var :> FieldChain(base, l[i].ref.fields) @@ scope, dot)
    [] OTHER -> MeaningOf(l[i], here, scope, dot) \o Meaning(l, at, i + 1, scope, dot)

MeaningIn(t, p) == Meaning(t, <<>>, 1, Root :> p, p)

\* the values that lie at a path of the parameter
RECURSIVE ValuesAt(_, _)
ValuesAt(v, path) ==
  CASE path = <<>> -> {v}
    [] path # <<>> /\ Head(path) = "[]" ->
         UNION {ValuesAt(Elems(v)[i], Tail(path)) : i \in DOMAIN Elems(v)}
    [] OTHER -> IF v.kind = "struct" /\ Head(path) \in DOMAIN v.fields
                THEN ValuesAt(v.fields[Head(path)], Tail(path)) ELSE {}
-----------------------------------------------------------------------------
Sent == pc = "sent"
Compared == Sent /\ Comparable(out, checked)

\* A checked statement can be called with every parameter: neither does the rendering fail,
\* nor does it take branches the checker never analyzed, nor differ from what it analyzed
\* (render.go's three refusals).
NeverRefused == pc \notin {"unseen", "differs", "failed"}

\* What is sent binds to each placeholder the value that stands in its place in the
\* template: replacing the one by the other gives what text/template would give. A range may
\* have any number of elements, one action may share its placeholder with another, and
\* variables outlive their range (render.go's dedupe keys, vars and path).
BoundToItsValue ==
  Sent =>
    [i \in DOMAIN out.sql |->
       IF "n" \in DOMAIN out.sql[i] THEN out.args[out.sql[i].n].val ELSE out.sql[i]]
    = MeaningIn(stmt, param)

\* The argument sent for a placeholder lies at the path the checker took the placeholder's
\* type from: the two implementations agree on the origin, not only on the text.
ArgsAsChecked ==
  Compared =>
    \A i \in DOMAIN out.args :
      LET path == TwinOf(out, checked).params[i].path IN
      path # <<"#index">> => out.args[i].val \in ValuesAt(param, path)

\* An unset value that is sent has been seen as one that may be: some expansion has a
\* placeholder for its path and does not count it as proved set. (The checker drops the NOT
\* NULL violations of a path that is guarded: vet's possibleViolations.)
NilSeen ==
  Compared =>
    \A i \in DOMAIN out.args :
      out.args[i].val.kind = "scalar" /\ ~out.args[i].val.set =>
        LET path == TwinOf(out, checked).params[i].path IN
        \E k \in DOMAIN checked.expansions :
          LET e == checked.expansions[k] IN
          ~Guarded(e, path) /\ \E j \in DOMAIN e.params : e.params[j].path = path

\* The controls outside every other, and those of them that always agree
Outer == {c \in ToSet(Controls(stmt, <<>>)) : Len(c.at) = 1}
Agree(c, d) == c = d \/ (c.plain /\ d.plain /\ c.node = d.node /\ c.ref.fields = d.ref.fields)
TakenIn(e, c) == \E i \in DOMAIN e.branch : e.branch[i].at = c.at /\ e.branch[i].times > 0

\* A sparse set has what it is said to have: every branch off, every branch on, and each
\* branch on alone (expand.go's MaxExpansions), for the controls that stand outside all
\* others.
SparseCovers ==
  checked # Nothing /\ checked.sparse =>
    LET hasExactly(on) ==
          \E k \in DOMAIN checked.expansions :
            \A d \in Outer : TakenIn(checked.expansions[k], d) = (d \in on)
    IN /\ hasExactly({})
       /\ hasExactly(Outer)
       /\ \A c \in Outer : hasExactly({d \in Outer : Agree(c, d)})
=============================================================================
