------------------------------ MODULE MCRender ------------------------------
(* Templates and parameters for Render.  The parameter struct has A and B (scalars), S   *)
(* (a struct with a field A of its own, or nil), L (a slice of structs with a scalar F   *)
(* and a slice K) and N (a slice of scalars).                                            *)
EXTENDS Render

Is(name) == Ref("", <<name>>)
Of(var, name) == Ref(var, <<name>>)
Var(var) == Ref(var, <<>>)
Val(name) == Value(Field(name))
IfSet(ref, body, orelse) == If(TRUE, ref, body, orelse)
IfNot(ref, body, orelse) == If(FALSE, ref, body, orelse)
Comma == IfSet(Var("$i"), <<Text>>, <<>>)

\* no range
Plain == {
  Val("A"), Val("B"),
  IfSet(Is("A"), <<Val("A")>>, <<Text>>),
  IfSet(Is("A"), <<Text>>, <<Val("A")>>),
  IfNot(Is("A"), <<>>, <<Val("B"), Val("A")>>),
  IfSet(Is("B"), <<IfSet(Is("A"), <<Val("A")>>, <<Val("A"), Val("B")>>)>>, <<Text>>),
  IfSet(Is("S"), <<Value(Ref("", <<"S", "A">>)), Val("A")>>, <<>>),
  With(<<>>, Is("S"), <<Val("A"), IfSet(Is("A"), <<Text>>, <<>>)>>, <<Val("A")>>),
  With(<<>>, Is("A"), <<Value(Dot)>>, <<Val("B")>>)}

\* ranges that read their elements through dot
Dotted == {
  ForEach(<<>>, Is("N"), <<Value(Dot)>>, <<>>),
  ForEach(<<>>, Is("N"), <<With(<<>>, Dot, <<Value(Dot)>>, <<Text>>)>>, <<Val("A")>>),
  ForEach(<<>>, Is("L"), <<Val("F"), Value(Of(Root, "A"))>>, <<Text>>),
  ForEach(<<>>, Is("L"), <<IfSet(Is("F"), <<Val("F")>>, <<Text, Val("F")>>)>>, <<>>),
  ForEach(<<>>, Is("L"), <<ForEach(<<>>, Is("K"), <<Value(Dot)>>, <<Text>>), Val("F")>>, <<>>),
  ForEach(<<>>, Is("L"), <<ForEach(<<>>, Of(Root, "N"), <<Value(Dot), Value(Of(Root, "B"))>>, <<>>)>>,
          <<>>)}

\* ranges that read them through variables
Named == {
  ForEach(<<"$i", "$x">>, Is("N"), <<Comma, Value(Var("$x"))>>, <<Text>>),
  ForEach(<<"$e">>, Is("L"), <<Value(Of("$e", "F")), Value(Of("$e", "F"))>>, <<>>),
  ForEach(<<"$i", "$e">>, Is("L"), <<Comma, Value(Var("$i")), Value(Of("$e", "F"))>>, <<>>),
  ForEach(<<"$e">>, Is("L"),
          <<IfSet(Of("$e", "F"), <<Text>>, <<>>),
            ForEach(<<"$i", "$k">>, Of("$e", "K"), <<Comma, Value(Var("$k"))>>, <<Text>>),
            Value(Of("$e", "F"))>>, <<Val("B")>>)}

Pairs(nodes) == {<<m, n>> : m, n \in nodes}

\* beside a wide one: beyond MaxExpansions by the count of the branches, or (where there are few)
\* only when the elements of its range have multiplied them
Few == {
  Val("A"),
  IfSet(Is("A"), <<Val("A")>>, <<Text>>),
  IfSet(Is("B"), <<Val("B")>>, <<>>),
  IfNot(Is("B"), <<IfSet(Is("L"), <<Text>>, <<Val("A")>>)>>, <<>>),
  With(<<>>, Is("S"), <<Val("A")>>, <<Val("B")>>),
  ForEach(<<"$i", "$x">>, Is("N"), <<Comma, Value(Var("$x"))>>, <<Text>>),
  ForEach(<<>>, Is("L"), <<IfSet(Is("F"), <<Text>>, <<Val("F")>>)>>, <<>>)}
Wide == ForEach(<<>>, Is("L"),
  <<IfSet(Is("F"), <<Text>>, <<>>),
    ForEach(<<>>, Is("K"), <<IfSet(Dot, <<Value(Dot)>>, <<>>), IfNot(Of(Root, "B"), <<Text>>, <<>>)>>, <<>>)>>,
  <<>>)
MCWide == {<<a, b, Wide>> : a, b \in Few}

MCTemplates ==
  Pairs(Plain \cup Dotted) \cup Pairs(Plain \cup Named) \cup MCWide
    \cup {<<Declare("$y", Is("A")), IfSet(Var("$y"), <<Text>>, <<>>), Value(Var("$y"))>>}

\* two ranges with the same variable
MCReuse == {
  <<ForEach(<<"$i", "$e">>, Is("L"), <<Comma, Value(Of("$e", "F"))>>, <<>>),
    ForEach(<<"$i", "$e">>, Is("M"), <<Comma, Value(Of("$e", "F"))>>, <<>>)>>}
\* the indexes of two ranges in the body of the inner one
MCIndex == {
  <<ForEach(<<"$i", "$e">>, Is("L"),
      <<ForEach(<<"$j", "$k">>, Of("$e", "K"), <<Value(Var("$i")), Value(Var("$j"))>>, <<>>)>>,
      <<>>)>>}
\* the variable of a {{with}}
MCWith == {
  <<With(<<"$y">>, Is("A"), <<Value(Var("$y"))>>, <<>>)>>,
  <<With(<<>>, Is("S"), <<Text>>, <<>>), With(<<>>, Is("S"), <<Text>>, <<>>), Val("A")>>}
\* a condition spelled like one whose dot is another
MCHidden == {
  <<With(<<>>, Is("S"), <<IfSet(Is("A"), <<Text>>, <<>>)>>, <<>>),
    IfSet(Is("A"), <<Text>>, <<>>)>>}
-----------------------------------------------------------------------------
Elements(name, sets) ==
  Slice([i \in DOMAIN sets |->
    Struct([F |-> Scalar(<<name, i>>, sets[i]),
            K |-> Slice([k \in 1 .. (i + Len(sets)) % 3 |-> Scalar(<<"K", i, k>>, k = 1)])])])
Scalars(n) == Slice([i \in 1 .. n |-> Scalar(<<"N", i>>, i # 2)])

MCSets == {<<>>, <<TRUE>>, <<FALSE>>, <<FALSE, TRUE>>, <<TRUE, FALSE>>, <<TRUE, FALSE, TRUE>>}

MCParams ==
  {Struct([A |-> Scalar("A", a), B |-> Scalar("B", b), S |-> s, L |-> Elements("L", l),
           M |-> Elements("M", l), N |-> Scalars(n)]) :
     a \in BOOLEAN, b \in BOOLEAN,
     s \in {NilPtr, Struct([A |-> Scalar("SA", TRUE)]), Struct([A |-> Scalar("SA", FALSE)])},
     l \in MCSets, n \in 0 .. 3}
=============================================================================
