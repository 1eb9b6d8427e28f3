-------------------------------- MODULE Ddl --------------------------------
(***************************************************************************)
(* Schemas, the statements of a DDL file, what a server does with one, and *)
(* the diff and the plan between two schemas.  An object is whatever the   *)
(* diff compares as a unit (a table with its columns, a view, a routine,   *)
(* the rows of a seeded table); two versions of it are two definitions the *)
(* diff tells apart (on PostgreSQL the order of columns is not one).       *)
(***************************************************************************)
EXTENDS Naturals, FiniteSets, SequencesExt

CONSTANTS
  Objects,   \* what a schema is made of
  Versions,  \* definitions an object may have
  None,      \* the object is not there
  TypeOf,    \* what a statement of the Go packages sees of a definition
  Recreated  \* objects a change drops and creates again (triggers, routines)

ASSUME DdlAssumption ==
  /\ IsFiniteSet(Objects)
  /\ None \notin Versions
  /\ DOMAIN TypeOf = Versions
  /\ Recreated \subseteq Objects

Schemas == [Objects -> Versions \cup {None}]
Kinds == {"create", "drop", "alter", "replace", "update"}
Statements == [kind : Kinds, obj : Objects, ver : Versions \cup {None}]

Absent == [o \in Objects |-> None]

Stmt(kind, o, v) == [kind |-> kind, obj |-> o, ver |-> v]

\* the server accepts the statement in schema s, the rows aside
Legal(st, s) ==
  \/ st.kind = "create" /\ s[st.obj] = None
  \/ st.kind = "replace"
  \/ st.kind \in {"drop", "alter", "update"} /\ s[st.obj] # None

\* what it makes of the schema; an "update" changes rows only
After(st, s) ==
  IF st.kind = "update" THEN s ELSE [s EXCEPT ![st.obj] = st.ver]

\* a whole file runs from s to t, nothing in between: every statement is accepted where the ones
\* before it have led
Reaches(file, s, t) ==
  \E path \in [1 .. Len(file) + 1 -> Schemas] :
    /\ path[1] = s /\ path[Len(file) + 1] = t
    /\ \A i \in 1 .. Len(file) :
         Legal(file[i], path[i]) /\ path[i + 1] = After(file[i], path[i])

Differs(s, t) == \E o \in Objects : s[o] # t[o]

\* variant: only what is dropped
ImpactsDrops(s, t, used) == {o \in used : s[o] # None /\ t[o] = None}

\* the changes from s to t that drop or retype what a statement of the packages names; a
\* change of another kind (a default, a comment) does not concern it
Impacts(s, t, used) ==
  {o \in used : s[o] # None /\ (t[o] = None \/ TypeOf[s[o]] # TypeOf[t[o]])}

\* one statement of the kind for each object of the set, making it what it is in t
Each(kind, objs, t) ==
  LET q == SetToSeq(objs) IN [i \in DOMAIN q |-> Stmt(kind, q[i], t[q[i]])]

Changed(s, t) == {o \in Objects : s[o] # None /\ t[o] # None /\ s[o] # t[o]}
Gone(s, t) == {o \in Objects : s[o] # None /\ t[o] = None} \cup (Changed(s, t) \cap Recreated)
New(s, t) == {o \in Objects : s[o] = None /\ t[o] # None} \cup (Changed(s, t) \cap Recreated)

\* variant: the additions before the drops
PlanAddsFirst(s, t) ==
  Each("create", New(s, t), t) \o Each("drop", Gone(s, t), Absent)
    \o Each("alter", Changed(s, t) \ Recreated, t)

\* the drops, then the alterations, then the additions; a changed trigger or routine is
\* dropped with the first and created with the last
Plan(s, t) ==
  Each("drop", Gone(s, t), Absent) \o Each("alter", Changed(s, t) \ Recreated, t)
    \o Each("create", New(s, t), t)
=============================================================================
