---------------------------- MODULE TemplateTree ----------------------------
(***************************************************************************)
(* Query templates as text/template parses them, and the values they run   *)
(* on.  A node's position is its way from the root: its index in a list,   *)
(* and 1 or 2 for the body and the {{else}} part of a control.             *)
(***************************************************************************)
EXTENDS Naturals, Sequences, SequencesExt, TLC

\* .F.G is relative to dot (var = ""), $v.F to a variable; $ is the whole parameter
Ref(var, fields) == [var |-> var, fields |-> fields]
Field(name) == Ref("", <<name>>)
Dot == Ref("", <<>>)
Root == "$"

Text == [node |-> "text"]
Value(ref) == [node |-> "value", ref |-> ref]
Declare(var, ref) == [node |-> "declare", var |-> var, ref |-> ref]
\* a condition is a reference by itself (plain), or is computed from one: {{if not .F}}
If(plain, ref, body, orelse) ==
  [node |-> "if", plain |-> plain, ref |-> ref, vars |-> <<>>, body |-> body, orelse |-> orelse]
With(vars, ref, body, orelse) ==
  [node |-> "with", plain |-> TRUE, ref |-> ref, vars |-> vars, body |-> body,
   orelse |-> orelse]
ForEach(vars, ref, body, orelse) ==
  [node |-> "range", plain |-> TRUE, ref |-> ref, vars |-> vars, body |-> body,
   orelse |-> orelse]

\* Op applied to each element (\o makes TLC evaluate it once, here, and not at each use)
Each(s, Op(_)) == [i \in DOMAIN s |-> Op(s[i])] \o <<>>

IsControl(n) == n.node \in {"if", "with", "range"}
Body(at) == Append(at, 1)
OrElse(at) == Append(at, 2)

\* what a rendering or an expansion consists of
TextAt(at) == [text |-> at]
Placeholder(n) == [n |-> n]
\* the way it went: 1 and 0 for then and else, the number of iterations of a range
Took(n, at, times) == [kind |-> n.node, at |-> at, times |-> times]

\* the number of the placeholder for a key: an old one's, or the next
NumberOf(keys, key) ==
  IF Contains(keys, key) THEN CHOOSE n \in DOMAIN keys : keys[n] = key ELSE Len(keys) + 1

\* values: scalars (pointers, for what matters here), nested structs, slices
Scalar(id, set) == [kind |-> "scalar", id |-> id, set |-> set]
Struct(fields) == [kind |-> "struct", fields |-> fields]
Slice(elems) == [kind |-> "slice", elems |-> elems]
NilPtr == [kind |-> "nil"]

IsTrue(v) ==
  CASE v.kind = "scalar" -> v.set
    [] v.kind = "struct" -> TRUE
    [] v.kind = "slice" -> v.elems # <<>>
    [] v.kind = "nil" -> FALSE

\* what a {{range}} takes; behind a nil pointer there are no elements
Rangeable(v) == v.kind \in {"slice", "nil"}
Elems(v) == IF v.kind = "slice" THEN v.elems ELSE <<>>
IndexValue(i) == Scalar(<<"index", i>>, i # 0)
=============================================================================
