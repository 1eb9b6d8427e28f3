--------------------------- MODULE MigrateProofs ---------------------------
(***************************************************************************)
(* Proofs about Migrate for any number of commands, objects, files and     *)
(* targets, on either server.                                              *)
(***************************************************************************)
EXTENDS Migrate, FiniteSetTheorems, TLAPS

(***************************************************************************)
(* The statements and the plan.                                            *)
(***************************************************************************)

\* A server takes a schema to a schema.
LEMMA AfterType ==
  ASSUME NEW st \in Statements, NEW s \in Schemas
  PROVE  After(st, s) \in Schemas
  BY DEF After, Statements, Schemas

\* A statement changes no object but its own.
LEMMA AfterElsewhere ==
  ASSUME NEW st \in Statements, NEW s \in Schemas, NEW o \in Objects, o # st.obj
  PROVE  After(st, s)[o] = s[o]
  BY DEF After, Statements, Schemas

\* Two schemas the diff finds no change between are equal.
LEMMA SameSchema ==
  ASSUME NEW s \in Schemas, NEW t \in Schemas, ~Differs(s, t)
  PROVE  s = t
  BY DEF Differs, Schemas

\* The enumeration of a finite set is a sequence over it.
LEMMA SetToSeqType ==
  ASSUME NEW S, IsFiniteSet(S)
  PROVE  SetToSeq(S) \in Seq(S)
<1>1. PICK f : f \in Bijection(1..Cardinality(S), S)
  BY FS_CardinalityType DEF ExistsBijection
<1>2. f \in [1..Cardinality(S) -> S] /\ IsInjective(f)
  BY <1>1 DEF Bijection, Injection
<1>3. SetToSeq(S) \in [1..Cardinality(S) -> S]
  BY <1>2 DEF SetToSeq
<1>4. Cardinality(S) \in Nat
  BY FS_CardinalityType
<1> QED
  BY <1>3, <1>4

\* The statements made for a set of objects are statements.
LEMMA EachType ==
  ASSUME NEW kind \in Kinds, NEW S \in SUBSET Objects, NEW t \in Schemas
  PROVE  Each(kind, S, t) \in Seq(Statements)
<1>1. SetToSeq(S) \in Seq(S)
  BY SetToSeqType, FS_Subset, DdlAssumption
<1>2. \A i \in DOMAIN SetToSeq(S) : Stmt(kind, SetToSeq(S)[i], t[SetToSeq(S)[i]]) \in Statements
  BY <1>1 DEF Stmt, Statements, Schemas
<1> QED
  BY <1>1, <1>2 DEF Each

\* What diff prints is a DDL file.
LEMMA PlanType ==
  ASSUME NEW s \in Schemas, NEW t \in Schemas
  PROVE  Plan(s, t) \in Seq(Statements)
<1>1. Absent \in Schemas
  BY DEF Absent, Schemas
<1>2. Gone(s, t) \in SUBSET Objects /\ New(s, t) \in SUBSET Objects
      /\ Changed(s, t) \ Recreated \in SUBSET Objects
  BY DEF Gone, New, Changed
<1>3. {"drop", "alter", "create"} \subseteq Kinds
  BY DEF Kinds
<1>4. /\ Each("drop", Gone(s, t), Absent) \in Seq(Statements)
      /\ Each("alter", Changed(s, t) \ Recreated, t) \in Seq(Statements)
      /\ Each("create", New(s, t), t) \in Seq(Statements)
  BY <1>1, <1>2, <1>3, EachType
<1> QED
  BY <1>4 DEF Plan
-----------------------------------------------------------------------------
(***************************************************************************)
(* Type correctness.                                                       *)
(***************************************************************************)
\* The schema with nothing in it is one.
LEMMA AbsentType == Absent \in Schemas
  BY DEF Absent, Schemas

\* What a transaction sees is a schema.
LEMMA ViewType ==
  ASSUME TypeOK, NEW r \in Runs
  PROVE  View(r) \in Schemas
  BY DEF TypeOK, View, Schemas

\* While statements are left, the next one is a statement.
LEMMA CurrentType ==
  ASSUME TypeOK, NEW r \in Runs, More(r)
  PROVE  Current(r) \in Statements
  BY DEF TypeOK, More, Current

\* Whether a command was disturbed is a truth value.
LEMMA DisturbType ==
  ASSUME TypeOK, NEW keep, Disturb(keep)
  PROVE  fresh' \in [Runs -> BOOLEAN]
  BY DEF TypeOK, Disturb

\* A COMMIT (the end of runApply) keeps the types of what it changes.
LEMMA PublishType ==
  ASSUME TypeOK, NEW r \in Runs, Publish(r)
  PROVE  /\ db' \in Schemas
         /\ touched' \in [Runs -> SUBSET Objects]
         /\ mine' \in [Runs -> Schemas]
         /\ committed' \in [Runs -> Nat]
         /\ fresh' \in [Runs -> BOOLEAN]
<1>1. fresh' \in [Runs -> BOOLEAN]
  BY DisturbType DEF Publish
<1>2. Len(ddl[r]) \in Nat
  BY DEF TypeOK
<1> QED
  BY <1>1, <1>2, ViewType, AbsentType DEF Publish, Rollback, TypeOK

\* A statement of runApplyMySQL keeps the types of what it changes.
LEMMA DoMySQLType ==
  ASSUME TypeOK, NEW r \in Runs, More(r), DoMySQL(r)
  PROVE  /\ db' \in Schemas
         /\ committed' \in [Runs -> Nat]
         /\ fresh' \in [Runs -> BOOLEAN]
<1>1. fresh' \in [Runs -> BOOLEAN]
  BY DisturbType DEF DoMySQL
<1>2. db' \in Schemas
  BY CurrentType, AfterType DEF DoMySQL, TypeOK
<1>3. committed[r] + 1 \in Nat
  BY DEF TypeOK
<1>4. committed' \in [Runs -> Nat]
  BY <1>3 DEF DoMySQL, TypeOK
<1> QED
  BY <1>1, <1>2, <1>4

\* The initial state is well typed.
LEMMA TypeInit == Init => TypeOK
  BY MigrateAssumption, AbsentType DEF Init, TypeOK, Places, Outcomes, Options, NoOptions

\* Every step of a command that goes well keeps the types.
LEMMA TypeStep ==
  ASSUME TypeOK, NEW r \in Runs, Before(r), Step(r)
  PROVE  TypeOK'
<1>1. CASE DumpPG(r)
  <2>1. Dumped \in Schemas
    BY DEF Dumped, TypeOK, Schemas
  <2> QED
    BY <1>1, <2>1, MigrateAssumption DEF DumpPG, TypeOK, Places
<1>16. CASE ListMySQL(r)
  BY <1>16 DEF ListMySQL, TypeOK, Places
<1>2. ASSUME NEW o \in Objects, ReadOne(r, o) PROVE TypeOK'
  BY <1>2 DEF ReadOne, TypeOK, Places, Schemas
<1>3. ASSUME NEW o \in Objects, ReadGone(r, o) PROVE TypeOK'
  BY <1>3 DEF ReadGone, End, TypeOK, Places, Outcomes
<1>4. CASE Compare(r)
  BY <1>4 DEF Compare, End, TypeOK, Places, Outcomes
<1>5. CASE WritePlan(r)
  <2>1. up' \in Seq(Statements)
    BY <1>5, PlanType DEF WritePlan, TypeOK
  <2> QED
    BY <1>5, <2>1 DEF WritePlan, End, TypeOK, Places, Outcomes
<1>6. CASE Restore(r)
  BY <1>6 DEF Restore, TypeOK, Places
<1>7. CASE JudgeStmt(r)
  <2> DEFINE n == Len(judged[r])
  <2>1. CASE End(r, "refused") /\ UNCHANGED judged
    BY <1>7, <2>1 DEF JudgeStmt, End, TypeOK, Places, Outcomes
  <2>2. CASE judged' = [judged EXCEPT ![r] = Append(@, After(ddl[r][n], judged[r][n]))]
             /\ UNCHANGED <<pc, outcome>>
    <3>1. judged[r] # <<>> /\ n <= Len(ddl[r])
      BY <1>7 DEF JudgeStmt, Before
    <3>2. n \in Nat \ {0} /\ judged[r][n] \in Schemas /\ ddl[r][n] \in Statements
      BY <3>1 DEF TypeOK
    <3>3. Append(judged[r], After(ddl[r][n], judged[r][n])) \in Seq(Schemas)
      BY <3>2, AfterType DEF TypeOK
    <3> QED
      BY <1>7, <2>2, <3>3 DEF JudgeStmt, TypeOK
  <2> QED
    BY <1>7, <2>1, <2>2 DEF JudgeStmt
<1>8. CASE JudgeEnd(r)
  BY <1>8 DEF JudgeEnd, End, TypeOK, Places, Outcomes
<1>9. CASE Index(r)
  BY <1>9 DEF Index, End, TypeOK, Places, Outcomes
<1>10. CASE ExecPG(r)
  <2>1. After(Current(r), View(r)) \in Schemas /\ Current(r).obj \in Objects
    BY <1>10, CurrentType, ViewType, AfterType DEF ExecPG, Statements
  <2> QED
    BY <1>10, <2>1 DEF ExecPG, TypeOK
<1>11. CASE RefusePG(r)
  BY <1>11, AbsentType DEF RefusePG, Rollback, Over, TypeOK, Places, Outcomes
<1>12. CASE CommitPG(r)
  BY <1>12, PublishType DEF CommitPG, Over, TypeOK, Places, Outcomes
<1>13. CASE ExecMySQL(r)
  <2>1. next[r] + 1 \in Nat \ {0}
    BY DEF TypeOK
  <2>2. next' \in [Runs -> Nat \ {0}]
    BY <1>13, <2>1 DEF ExecMySQL, TypeOK
  <2> QED
    BY <1>13, <2>2, DoMySQLType DEF ExecMySQL, TypeOK
<1>14. CASE RefuseMySQL(r)
  BY <1>14 DEF RefuseMySQL, End, TypeOK, Places, Outcomes
<1>15. CASE FinishMySQL(r)
  BY <1>15 DEF FinishMySQL, End, TypeOK, Places, Outcomes
<1> QED
  BY <1>1, <1>2, <1>3, <1>4, <1>5, <1>6, <1>7, <1>8, <1>9, <1>10, <1>11, <1>12, <1>13, <1>14,
     <1>15, <1>16 DEF Step

\* Parsing the command line and reading the files keeps the types.
LEMMA TypeBegin ==
  ASSUME TypeOK, NEW r \in Runs, Begin(r)
  PROVE  TypeOK'
<1>1. NoOptions \in Options /\ Flags \subseteq Options /\ Targets \subseteq Schemas
  BY MigrateAssumption DEF Options, NoOptions
<1>2. /\ cmd' \in [Runs -> {"none", "apply", "diff", "verify"}]
      /\ opt' \in [Runs -> Options]
      /\ ddl' \in [Runs -> Seq(Statements)]
  <2>1. CASE \E o \in Flags :
               /\ cmd' = [cmd EXCEPT ![r] = "apply"]
               /\ opt' = [opt EXCEPT ![r] = o]
               /\ ddl' = [ddl EXCEPT ![r] = up]
    BY <1>1, <2>1 DEF TypeOK
  <2>2. CASE \E c \in {"diff", "verify"} :
               /\ cmd' = [cmd EXCEPT ![r] = c]
               /\ opt' = [opt EXCEPT ![r] = NoOptions]
               /\ ddl' = [ddl EXCEPT ![r] = <<>>]
    BY <1>1, <2>2 DEF TypeOK
  <2> QED
    BY <2>1, <2>2 DEF Begin
<1>3. tgt' \in [Runs -> Schemas]
  BY <1>1 DEF Begin, TypeOK
<1> QED
  BY <1>2, <1>3, AbsentType DEF Begin, TypeOK, Places, Outcomes

\* Losing the connection or the process keeps the types.
LEMMA TypeCut ==
  ASSUME TypeOK, NEW r \in Runs, NEW how \in Outcomes, Cut(r, how)
  PROVE  TypeOK'
<1>1. CASE CutRequest(r, how)
  BY <1>1 DEF CutRequest, TypeOK, Places
<1>2. CASE CutTransaction(r, how)
  <2>1. CASE Rollback(r) /\ UNCHANGED <<db, committed, fresh>>
    BY <1>2, <2>1, AbsentType DEF CutTransaction, End, Rollback, TypeOK, Places
  <2>2. CASE Publish(r)
    <3>1. /\ db' \in Schemas
          /\ touched' \in [Runs -> SUBSET Objects]
          /\ mine' \in [Runs -> Schemas]
          /\ committed' \in [Runs -> Nat]
          /\ fresh' \in [Runs -> BOOLEAN]
      BY <2>2, PublishType
    <3>2. /\ pc' \in [Runs -> Places] /\ outcome' \in [Runs -> Outcomes] /\ faults' \in Nat
          /\ UNCHANGED <<uses, up, cmd, opt, tgt, ddl, snap, unread, judged, next, commands,
                         edits>>
      BY <1>2 DEF CutTransaction, End, TypeOK, Places
    <3> QED
      BY <3>1, <3>2 DEF TypeOK
  <2> QED
    BY <1>2, <2>1, <2>2 DEF CutTransaction
<1>3. CASE CutMySQL(r, how)
  <2>1. CASE UNCHANGED <<db, committed, fresh>>
    BY <1>3, <2>1 DEF CutMySQL, End, TypeOK, Places
  <2>2. CASE More(r) /\ DoMySQL(r)
    <3>1. /\ db' \in Schemas
          /\ committed' \in [Runs -> Nat]
          /\ fresh' \in [Runs -> BOOLEAN]
      BY <2>2, DoMySQLType
    <3>2. /\ pc' \in [Runs -> Places] /\ outcome' \in [Runs -> Outcomes] /\ faults' \in Nat
          /\ UNCHANGED <<uses, up, cmd, opt, tgt, ddl, snap, unread, judged, next, touched,
                         mine, commands, edits>>
      BY <1>3 DEF CutMySQL, End, TypeOK, Places
    <3> QED
      BY <3>1, <3>2 DEF TypeOK
  <2> QED
    BY <1>3, <2>1, <2>2 DEF CutMySQL
<1> QED
  BY <1>1, <1>2, <1>3 DEF Cut

\* Every fault keeps the types.
LEMMA TypeFault ==
  ASSUME TypeOK, NEW r \in Runs, Fault(r)
  PROVE  TypeOK'
<1>1. CASE EnvError(r)
  BY <1>1 DEF EnvError, End, TypeOK, Places, Outcomes
<1>2. CASE RowsRefuse(r)
  BY <1>2, AbsentType DEF RowsRefuse, Rollback, Over, TypeOK, Places, Outcomes
<1>3. CASE LoseServer(r) \/ Crash(r)
  BY <1>3, TypeCut DEF LoseServer, Crash, Outcomes
<1> QED
  BY <1>1, <1>2, <1>3 DEF Fault

\* What people do outside the commands keeps the types.
LEMMA TypeOutside ==
  ASSUME TypeOK, HandEdit \/ EditCode \/ EditFile \/ UNCHANGED vars
  PROVE  TypeOK'
<1>1. CASE HandEdit
  <2>1. db' \in Schemas
    BY <1>1 DEF HandEdit, TypeOK, Schemas
  <2>2. fresh' \in [Runs -> BOOLEAN]
    BY <1>1, DisturbType DEF HandEdit
  <2> QED
    BY <1>1, <2>1, <2>2 DEF HandEdit, local, TypeOK
<1>2. CASE EditCode
  <2>1. fresh' \in [Runs -> BOOLEAN]
    BY <1>2, DisturbType DEF EditCode
  <2> QED
    BY <1>2, <2>1 DEF EditCode, local, TypeOK
<1>3. CASE EditFile
  BY <1>3, MigrateAssumption DEF EditFile, local, TypeOK
<1>4. CASE UNCHANGED vars
  BY <1>4 DEF vars, TypeOK
<1> QED
  BY <1>1, <1>2, <1>3, <1>4
-----------------------------------------------------------------------------
(***************************************************************************)
(* What one command knows stays true while the others work: they leave its *)
(* state alone, and a change of theirs to the database ends its freshness. *)
(***************************************************************************)
Kept(q) ==
  /\ pc'[q] = pc[q] /\ cmd'[q] = cmd[q] /\ opt'[q] = opt[q] /\ tgt'[q] = tgt[q]
  /\ ddl'[q] = ddl[q] /\ snap'[q] = snap[q] /\ unread'[q] = unread[q]
  /\ judged'[q] = judged[q] /\ next'[q] = next[q] /\ touched'[q] = touched[q]
  /\ mine'[q] = mine[q] /\ outcome'[q] = outcome[q] /\ committed'[q] = committed[q]
  /\ fresh'[q] => fresh[q] /\ db' = db

\* A command that is left alone still knows what it knew.
LEMMA KeptInv ==
  ASSUME NEW q \in Runs, RunInv(q), Kept(q)
  PROVE  RunInv(q)'
<1>1. Chain(q)' /\ Before(q)' /\ Verified(q)' /\ Reports(q)'
  BY DEF RunInv, Kept, Chain, Before, Verified, Reports, SaysFailed, More, Running
<1>2. Reads(q)' /\ Judged(q)'
  BY DEF RunInv, Kept, Reads, Judged
<1>3. Progress(q)'
  BY DEF RunInv, Kept, Progress, Running, View
<1> QED
  BY <1>1, <1>2, <1>3 DEF RunInv

\* A change to the database ends the freshness of the other commands.
LEMMA KeptByDisturb ==
  ASSUME TypeOK, NEW r \in Runs, NEW q \in Runs \ {r}, Disturb({r})
  PROVE  ~fresh'[q]
  BY DEF Disturb

\* A step of one command leaves the others alone.
LEMMA KeptByStep ==
  ASSUME TypeOK, NEW r \in Runs, NEW q \in Runs \ {r}, Step(r)
  PROVE  Kept(q)
<1>1. CASE DumpPG(r) \/ ListMySQL(r)
  BY <1>1 DEF DumpPG, ListMySQL, TypeOK, Kept
<1>2. ASSUME NEW o \in Objects, ReadOne(r, o) \/ ReadGone(r, o) PROVE Kept(q)
  BY <1>2 DEF ReadOne, ReadGone, End, TypeOK, Kept
<1>3. CASE Compare(r) \/ WritePlan(r) \/ Restore(r)
  BY <1>3 DEF Compare, WritePlan, Restore, End, TypeOK, Kept
<1>4. CASE JudgeStmt(r) \/ JudgeEnd(r) \/ Index(r)
  BY <1>4 DEF JudgeStmt, JudgeEnd, Index, End, TypeOK, Kept
<1>5. CASE ExecPG(r) \/ RefusePG(r)
  BY <1>5 DEF ExecPG, RefusePG, Rollback, Over, TypeOK, Kept
<1>6. CASE CommitPG(r)
  BY <1>6, KeptByDisturb DEF CommitPG, Publish, Rollback, Over, TypeOK, Kept
<1>7. CASE ExecMySQL(r)
  BY <1>7, KeptByDisturb DEF ExecMySQL, DoMySQL, TypeOK, Kept
<1>8. CASE RefuseMySQL(r) \/ FinishMySQL(r)
  BY <1>8 DEF RefuseMySQL, FinishMySQL, End, TypeOK, Kept
<1> QED
  BY <1>1, <1>2, <1>3, <1>4, <1>5, <1>6, <1>7, <1>8 DEF Step

\* So does a command that begins, or a fault of one.
LEMMA KeptByFault ==
  ASSUME TypeOK, NEW r \in Runs, NEW q \in Runs \ {r}, Begin(r) \/ Fault(r)
  PROVE  Kept(q)
<1>1. CASE Begin(r)
  BY <1>1 DEF Begin, TypeOK, Kept
<1>2. CASE EnvError(r) \/ RowsRefuse(r)
  BY <1>2 DEF EnvError, RowsRefuse, Rollback, Over, End, TypeOK, Kept
<1>3. ASSUME NEW how, Cut(r, how) PROVE Kept(q)
  <2>1. CASE CutRequest(r, how)
    BY <2>1 DEF CutRequest, TypeOK, Kept
  <2>2. CASE CutTransaction(r, how)
    BY <2>2, KeptByDisturb DEF CutTransaction, Publish, Rollback, End, TypeOK, Kept
  <2>3. CASE CutMySQL(r, how)
    BY <2>3, KeptByDisturb DEF CutMySQL, DoMySQL, End, TypeOK, Kept
  <2> QED
    BY <1>3, <2>1, <2>2, <2>3 DEF Cut
<1> QED
  BY <1>1, <1>2, <1>3 DEF Fault, LoseServer, Crash

\* So does what people do outside the commands.
LEMMA KeptOutside ==
  ASSUME TypeOK, NEW q \in Runs, HandEdit \/ EditCode \/ EditFile \/ UNCHANGED vars
  PROVE  Kept(q)
<1>1. CASE HandEdit \/ EditCode
  BY <1>1 DEF HandEdit, EditCode, Disturb, local, Kept
<1>2. CASE EditFile \/ UNCHANGED vars
  BY <1>2 DEF EditFile, vars, local, Kept
<1> QED
  BY <1>1, <1>2
-----------------------------------------------------------------------------
(***************************************************************************)
(* What one command knows stays true while it works itself.                *)
(***************************************************************************)
\* A command that begins has read, judged and run nothing.
LEMMA InvBegin ==
  ASSUME TypeOK, NEW r \in Runs, Begin(r), RunInv(r)
  PROVE  RunInv(r)'
<1>1. /\ pc'[r] = "list" /\ snap'[r] = Absent /\ judged'[r] = <<>> /\ next'[r] = 1
      /\ committed'[r] = 0 /\ outcome'[r] = "none" /\ touched'[r] = touched[r]
  BY DEF Begin, TypeOK
<1>2. touched[r] = {}
  BY DEF Begin, RunInv, Before, Running
<1>3. ddl'[r] \in Seq(Statements)
  BY TypeBegin DEF TypeOK
<1> QED
  BY <1>1, <1>2, <1>3 DEF RunInv, Chain, Before, Reads, Verified, Progress, Judged, Reports,
     SaysFailed, Running

\* What has been read of an undisturbed database is what is there.
LEMMA InvReading ==
  ASSUME TypeOK, NEW r \in Runs, RunInv(r),
         \/ DumpPG(r) \/ ListMySQL(r)
         \/ \E o \in Objects : ReadOne(r, o) \/ ReadGone(r, o)
         \/ Compare(r) \/ WritePlan(r)
  PROVE  RunInv(r)'
<1>1. /\ judged'[r] = <<>> /\ next'[r] = 1 /\ committed'[r] = 0 /\ touched'[r] = {}
      /\ ddl'[r] = ddl[r] /\ ddl[r] \in Seq(Statements)
      /\ pc'[r] \in {"load", "done"}
      /\ outcome'[r] \in {"none", "error", "differs", "matches", "undeclared", "planned"}
      /\ pc'[r] = "load" => outcome'[r] = "none"
  BY DEF RunInv, Before, Running, DumpPG, ListMySQL, ReadOne, ReadGone, Compare, WritePlan, End,
     TypeOK
<1>2. Reads(r)'
  <2>1. CASE DumpPG(r)
    BY <2>1 DEF DumpPG, Dumped, Reads, TypeOK
  <2>2. CASE ListMySQL(r)
    BY <2>2 DEF ListMySQL, Reads, RunInv, Before, Absent, TypeOK
  <2>3. ASSUME NEW o \in Objects, ReadOne(r, o) PROVE Reads(r)'
    BY <2>3 DEF ReadOne, Reads, RunInv, TypeOK, Schemas
  <2>4. CASE pc'[r] = "done"
    BY <2>4 DEF Reads
  <2>5. CASE (\E o \in Objects : ReadGone(r, o)) \/ Compare(r) \/ WritePlan(r)
    BY <2>4, <2>5 DEF ReadGone, Compare, WritePlan, End, TypeOK
  <2> QED
    BY <2>1, <2>2, <2>3, <2>5
<1> QED
  BY <1>1, <1>2 DEF RunInv, Chain, Before, Verified, Progress, Judged, Reports, SaysFailed, Running

\* The scratch database begins as the state that was read.
LEMMA InvRestore ==
  ASSUME TypeOK, NEW r \in Runs, RunInv(r), Restore(r)
  PROVE  RunInv(r)'
<1>1. /\ pc'[r] = "judge" /\ judged'[r] = <<snap[r]>> /\ next'[r] = 1 /\ committed'[r] = 0
      /\ touched'[r] = {} /\ outcome'[r] = "none" /\ ddl'[r] = ddl[r] /\ db' = db
      /\ fresh'[r] = fresh[r]
      /\ ddl[r] \in Seq(Statements) /\ snap[r] \in Schemas /\ db \in Schemas
  BY DEF RunInv, Before, Running, Restore, TypeOK
<1>2. fresh[r] => snap[r] = db
  BY <1>1 DEF RunInv, Reads, Restore, Schemas
<1>3. Chain(r)' /\ Judged(r)'
  BY <1>1, <1>2 DEF Chain, Judged
<1> QED
  BY <1>1, <1>3 DEF RunInv, Before, Reads, Verified, Progress, Reports, SaysFailed, Running

\* A statement on the scratch database extends the chain of judged states.
LEMMA InvJudgeStmt ==
  ASSUME TypeOK, NEW r \in Runs, RunInv(r), JudgeStmt(r)
  PROVE  RunInv(r)'
<1> DEFINE n == Len(judged[r])
           s == After(ddl[r][n], judged[r][n])
<1>1. /\ pc[r] = "judge" /\ n \in 1 .. Len(ddl[r]) /\ ddl[r] \in Seq(Statements)
      /\ judged[r] \in Seq(Schemas) /\ judged[r] # <<>> /\ next[r] = 1 /\ committed[r] = 0
      /\ touched[r] = {} /\ outcome[r] = "none"
  BY DEF RunInv, Before, Running, JudgeStmt, TypeOK
<1>2. /\ ddl' = ddl /\ next' = next /\ committed' = committed /\ touched' = touched /\ db' = db
      /\ fresh' = fresh
  BY DEF JudgeStmt
<1>3. CASE judged' = [judged EXCEPT ![r] = Append(@, s)] /\ UNCHANGED <<pc, outcome>>
  <2>1. judged'[r] = Append(judged[r], s)
    BY <1>3 DEF TypeOK
  <2>2. judged'[r] # <<>> /\ judged'[r][1] = judged[r][1]
    BY <1>1, <2>1
  <2>3. Chain(r)'
    <3>1. Len(judged'[r]) = n + 1
      BY <1>1, <2>1
    <3>2. \A m \in 1 .. n : judged'[r][m] = judged[r][m]
      BY <1>1, <2>1
    <3>3. judged'[r][n + 1] = s
      BY <1>1, <2>1
    <3>4. ASSUME NEW m \in 1 .. n PROVE judged'[r][m + 1] = After(ddl[r][m], judged'[r][m])
      <4>1. CASE m = n
        BY <4>1, <1>1, <3>2, <3>3
      <4>2. CASE m # n
        BY <4>2, <1>1, <3>2 DEF RunInv, Chain
      <4> QED
        BY <4>1, <4>2
    <3> QED
      BY <1>1, <1>2, <3>1, <3>4 DEF Chain
  <2> QED
    BY <1>1, <1>2, <1>3, <2>2, <2>3 DEF RunInv, Before, Reads, Verified, Progress, Judged,
       Reports, SaysFailed, Running
<1>4. CASE End(r, "refused") /\ UNCHANGED judged
  <2>1. pc'[r] = "done" /\ outcome'[r] = "refused" /\ judged' = judged
    BY <1>4 DEF End, TypeOK
  <2> QED
    BY <1>1, <1>2, <2>1 DEF RunInv, Chain, Before, Reads, Verified, Progress, Judged, Reports,
       SaysFailed, Running
<1> QED
  BY <1>3, <1>4 DEF JudgeStmt

\* the end of the judgement, the look at the packages, and what stops a command before it runs
LEMMA InvJudgeEnd ==
  ASSUME TypeOK, NEW r \in Runs, RunInv(r), JudgeEnd(r) \/ Index(r) \/ EnvError(r)
  PROVE  RunInv(r)'
<1>1. /\ next[r] = 1 /\ committed[r] = 0 /\ touched[r] = {} /\ outcome[r] = "none"
      /\ ddl[r] \in Seq(Statements) /\ judged[r] \in Seq(Schemas)
  <2>1. ddl[r] \in Seq(Statements) /\ judged[r] \in Seq(Schemas)
    BY DEF TypeOK
  <2>2. CASE pc[r] \in {"list", "load", "judge", "index"}
    BY <2>1, <2>2 DEF RunInv, Before, Running
  <2>3. CASE pc[r] = "run" /\ next[r] = 1
    <3>1. touched[r] = {} /\ outcome[r] = "none"
      BY <2>3 DEF RunInv, Before, Progress
    <3>2. committed[r] = 0
      BY <2>3, MigrateAssumption DEF RunInv, Progress, Running
    <3> QED
      BY <2>1, <2>3, <3>1, <3>2
  <2> QED
    BY <2>2, <2>3 DEF JudgeEnd, Index, EnvError
<1>2. /\ ddl' = ddl /\ next' = next /\ committed' = committed /\ touched' = touched /\ db' = db
      /\ fresh' = fresh /\ judged' = judged /\ tgt' = tgt /\ mine' = mine
  BY DEF JudgeEnd, Index, EnvError
<1>3. CASE pc'[r] = "done" /\ outcome'[r] \in {"refused", "dry", "error"}
  BY <1>1, <1>2, <1>3 DEF RunInv, Chain, Before, Reads, Verified, Progress, Judged, Reports,
     SaysFailed, Running
<1>4. CASE /\ JudgeEnd(r) /\ pc'[r] = "index" /\ UNCHANGED outcome
           /\ ~Differs(judged[r][Len(judged[r])], tgt[r])
  <2>1. Len(judged[r]) = Len(ddl[r]) + 1 /\ judged[r][Len(judged[r])] \in Schemas
    BY <1>1, <1>4 DEF JudgeEnd
  <2>2. judged[r][Len(ddl[r]) + 1] = tgt[r]
    BY <1>4, <2>1, SameSchema DEF TypeOK
  <2> QED
    BY <1>1, <1>2, <1>4, <2>1, <2>2 DEF RunInv, Chain, Before, Reads, Verified, Progress, Judged,
       Reports, SaysFailed, Running
<1>5. CASE Index(r) /\ pc'[r] = "run" /\ UNCHANGED outcome
  <2>1. /\ Len(judged[r]) = Len(ddl[r]) + 1
        /\ judged[r][Len(ddl[r]) + 1] = tgt[r]
    BY <1>5 DEF Index, RunInv, Verified
  <2>2. fresh[r] => View(r) = judged[r][1]
    BY <1>1, <2>1 DEF RunInv, Judged, View, TypeOK, Schemas
  <2>3. View(r)' = View(r)
    BY <1>2 DEF View
  <2>4. Progress(r)'
    BY <1>1, <1>2, <1>5, <2>2, <2>3 DEF Progress, Running
  <2> QED
    BY <1>1, <1>2, <1>5, <2>1, <2>4 DEF RunInv, Chain, Before, Reads, Verified, Judged, Reports,
       SaysFailed, Running
<1> QED
  <2>1. CASE JudgeEnd(r)
    BY <2>1, <1>3, <1>4 DEF JudgeEnd, End, TypeOK
  <2>2. CASE Index(r)
    BY <2>2, <1>3, <1>5 DEF Index, End, TypeOK
  <2>3. CASE EnvError(r)
    BY <2>3, <1>3 DEF EnvError, End, TypeOK
  <2> QED
    BY <2>1, <2>2, <2>3

\* a statement succeeds inside the transaction: what it sees is the next judged state
LEMMA InvExecPG ==
  ASSUME TypeOK, NEW r \in Runs, RunInv(r), ExecPG(r)
  PROVE  RunInv(r)'
<1> DEFINE st == Current(r)
<1>1. /\ Engine = "postgres" /\ Running(r) /\ next[r] \in 1 .. Len(ddl[r])
      /\ ddl[r] \in Seq(Statements) /\ judged[r] \in Seq(Schemas)
      /\ committed[r] = 0 /\ Len(judged[r]) = Len(ddl[r]) + 1
  BY DEF ExecPG, More, RunInv, Progress, Verified, TypeOK
<1>2. /\ st = ddl[r][next[r]] /\ st \in Statements /\ st.obj \in Objects
      /\ View(r) \in Schemas /\ After(st, View(r)) \in Schemas
  BY CurrentType, ViewType, AfterType DEF ExecPG, Current, Statements
<1>3. /\ ddl' = ddl /\ judged' = judged /\ committed' = committed /\ db' = db /\ fresh' = fresh
      /\ outcome' = outcome /\ pc' = pc /\ tgt' = tgt /\ snap' = snap /\ unread' = unread
      /\ next'[r] = next[r] + 1 /\ touched'[r] = touched[r] \cup {st.obj}
      /\ mine'[r] = After(st, View(r))
  BY DEF ExecPG, TypeOK
<1>4. View(r)' = After(st, View(r))
  <2>1. \A o \in Objects : o # st.obj => After(st, View(r))[o] = View(r)[o]
    BY <1>2, AfterElsewhere
  <2>2. \A o \in Objects : View(r)'[o] = After(st, View(r))[o]
    BY <1>3, <2>1 DEF View
  <2>3. View(r)' = [o \in Objects |-> View(r)'[o]]
    BY DEF View
  <2>4. After(st, View(r)) = [o \in Objects |-> After(st, View(r))[o]]
    BY <1>2 DEF Schemas
  <2> QED
    BY <2>2, <2>3, <2>4
<1>5. fresh[r] => View(r)' = judged[r][next[r] + 1]
  <2>1. fresh[r] => View(r) = judged[r][next[r]]
    BY <1>1 DEF RunInv, Progress
  <2>2. judged[r][next[r] + 1] = After(ddl[r][next[r]], judged[r][next[r]])
    BY <1>1 DEF RunInv, Chain
  <2> QED
    BY <1>2, <1>4, <2>1, <2>2
<1>6. Progress(r)'
  BY <1>1, <1>3, <1>5 DEF RunInv, Progress, Running
<1>7. Before(r)' /\ Reports(r)'
  BY <1>1, <1>3 DEF RunInv, Before, Reports, SaysFailed, Running
<1> QED
  BY <1>1, <1>3, <1>6, <1>7 DEF RunInv, Chain, Reads, Verified, Judged, Running

\* a transaction that is rolled back: nothing of the file is in the database
LEMMA InvRollback ==
  ASSUME TypeOK, NEW r \in Runs, RunInv(r), Running(r), Rollback(r),
         pc' = [pc EXCEPT ![r] = "done"], outcome'[r] \in {"failed", "lost", "crashed"}, Engine = "postgres",
         UNCHANGED <<db, tgt, ddl, snap, unread, judged, next, committed, fresh>>
  PROVE  RunInv(r)'
<1>1. /\ pc'[r] = "done" /\ touched'[r] = {} /\ committed[r] = 0
  BY DEF Rollback, RunInv, Progress, TypeOK
<1> QED
  BY <1>1 DEF RunInv, Chain, Before, Reads, Verified, Progress, Judged, Reports, SaysFailed, Running

\* a transaction that commits: the whole file is in the database
LEMMA InvPublish ==
  ASSUME TypeOK, NEW r \in Runs, RunInv(r), Running(r), ~More(r), Publish(r),
         pc' = [pc EXCEPT ![r] = "done"],
         outcome'[r] \in {"applied", "lost", "crashed"}, Engine = "postgres",
         UNCHANGED <<tgt, ddl, snap, unread, judged, next>>
  PROVE  RunInv(r)'
<1>1. /\ pc'[r] = "done" /\ touched'[r] = {} /\ committed'[r] = Len(ddl[r])
      /\ db' = View(r) /\ (fresh'[r] => fresh[r])
  BY DEF Publish, Rollback, Disturb, TypeOK
<1>2. /\ ddl[r] \in Seq(Statements) /\ Len(ddl[r]) \in Nat
      /\ next[r] = Len(ddl[r]) + 1 /\ Len(judged[r]) = Len(ddl[r]) + 1
      /\ judged[r][Len(ddl[r]) + 1] = tgt[r]
      /\ fresh[r] => View(r) = judged[r][next[r]]
  BY DEF More, RunInv, Progress, Verified, TypeOK
<1> QED
  BY <1>1, <1>2 DEF RunInv, Chain, Before, Reads, Verified, Progress, Judged, Reports,
     SaysFailed, More, Running

\* a statement on MySQL: the database is the next judged state
LEMMA DoneMySQL ==
  ASSUME TypeOK, NEW r \in Runs, RunInv(r), Engine = "mysql", Running(r), More(r), DoMySQL(r)
  PROVE  /\ next[r] \in 1 .. Len(ddl[r])
         /\ committed'[r] = next[r]
         /\ Len(judged[r]) = Len(ddl[r]) + 1
         /\ fresh'[r] => db' = judged[r][next[r] + 1]
<1>1. /\ next[r] \in 1 .. Len(ddl[r]) /\ committed[r] = next[r] - 1
      /\ Len(judged[r]) = Len(ddl[r]) + 1
  BY DEF More, RunInv, Progress, Verified, TypeOK
<1>2. /\ committed'[r] = committed[r] + 1
      /\ db' = After(ddl[r][next[r]], db) /\ (fresh'[r] => fresh[r])
  BY DEF DoMySQL, Current, Disturb, TypeOK
<1>3. fresh[r] => db = judged[r][next[r]]
  <2>1. judged[r] # <<>> /\ committed[r] + 1 = next[r]
    BY <1>1
  <2> QED
    BY <2>1 DEF RunInv, Judged
<1>4. judged[r][next[r] + 1] = After(ddl[r][next[r]], judged[r][next[r]])
  BY <1>1 DEF RunInv, Chain
<1> QED
  BY <1>1, <1>2, <1>3, <1>4

\* PostgreSQL: the statement is refused, by the schema, the rows or the lock manager, or the
\* transaction commits
LEMMA InvEndPG ==
  ASSUME TypeOK, NEW r \in Runs, RunInv(r), Engine = "postgres",
         RefusePG(r) \/ RowsRefuse(r) \/ CommitPG(r)
  PROVE  RunInv(r)'
<1>1. Running(r) /\ (pc[r] = "orphan" => outcome[r] \in {"lost", "crashed"})
  BY DEF RefusePG, RowsRefuse, CommitPG, RunInv, Progress
<1>2. CASE RefusePG(r) \/ RowsRefuse(r)
  <2>1. pc' = [pc EXCEPT ![r] = "done"] /\ outcome'[r] \in {"failed", "lost", "crashed"}
    BY <1>1, <1>2 DEF RefusePG, RowsRefuse, Over, TypeOK
  <2>2. Rollback(r) /\ UNCHANGED <<db, tgt, ddl, snap, unread, judged, next, committed, fresh>>
    BY <1>2 DEF RefusePG, RowsRefuse
  <2> QED
    BY <1>1, <2>1, <2>2, InvRollback
<1>3. CASE CommitPG(r)
  <2>1. pc' = [pc EXCEPT ![r] = "done"] /\ outcome'[r] \in {"applied", "lost", "crashed"}
    BY <1>1, <1>3 DEF CommitPG, Over, TypeOK
  <2>2. ~More(r) /\ Publish(r) /\ UNCHANGED <<tgt, ddl, snap, unread, judged, next>>
    BY <1>3 DEF CommitPG
  <2> QED
    BY <1>1, <2>1, <2>2, InvPublish
<1> QED
  BY <1>2, <1>3

\* MySQL: a statement runs, is refused, or none is left
LEMMA InvRunMySQL ==
  ASSUME TypeOK, NEW r \in Runs, RunInv(r), Engine = "mysql",
         ExecMySQL(r) \/ RefuseMySQL(r) \/ RowsRefuse(r) \/ FinishMySQL(r)
  PROVE  RunInv(r)'
<1>1. /\ Running(r) /\ pc[r] = "run" /\ outcome[r] = "none" /\ committed[r] = next[r] - 1
      /\ touched[r] = {} /\ next[r] \in Nat \ {0} /\ next[r] <= Len(ddl[r]) + 1
      /\ Len(judged[r]) = Len(ddl[r]) + 1 /\ ddl[r] \in Seq(Statements)
      /\ judged[r][Len(ddl[r]) + 1] = tgt[r]
  BY DEF ExecMySQL, RefuseMySQL, RowsRefuse, FinishMySQL, Running, RunInv, Progress, Verified,
     TypeOK
<1>2. CASE ExecMySQL(r)
  <2>1. More(r) /\ DoMySQL(r)
    BY <1>2 DEF ExecMySQL
  <2>2. /\ next[r] \in 1 .. Len(ddl[r])
        /\ committed'[r] = next[r]
        /\ fresh'[r] => db' = judged[r][next[r] + 1]
    BY <1>1, <2>1, DoneMySQL
  <2>3. /\ ddl' = ddl /\ judged' = judged /\ tgt' = tgt /\ pc' = pc /\ outcome' = outcome
        /\ touched' = touched /\ next'[r] = next[r] + 1
    BY <1>2 DEF ExecMySQL, TypeOK
  <2>4. Before(r)' /\ Progress(r)' /\ Reports(r)'
    BY <1>1, <2>2, <2>3 DEF Before, Progress, Reports, SaysFailed, Running
  <2> QED
    BY <1>1, <2>2, <2>3, <2>4 DEF RunInv, Chain, Reads, Verified, Judged, Running
<1>3. CASE RefuseMySQL(r) \/ RowsRefuse(r)
  <2>1. pc'[r] = "done" /\ outcome'[r] = "failed" /\ touched'[r] = {}
    BY <1>1, <1>3 DEF RefuseMySQL, RowsRefuse, End, Over, Rollback, TypeOK
  <2> QED
    BY <1>1, <1>3, <2>1 DEF RefuseMySQL, RowsRefuse, RunInv, Chain, Before, Reads,
       Verified, Progress, Judged, Reports, SaysFailed, Running
<1>4. CASE FinishMySQL(r)
  BY <1>1, <1>4 DEF FinishMySQL, End, More, TypeOK, RunInv, Chain, Before, Reads, Verified,
     Progress, Judged, Reports, SaysFailed, Running
<1> QED
  BY <1>2, <1>3, <1>4

\* the connection or the command is lost: the server goes on with a request it has got, rolls
\* a transaction back or has committed it, and on MySQL has run the statement or has not
LEMMA InvCut ==
  ASSUME TypeOK, NEW r \in Runs, RunInv(r), NEW how \in {"lost", "crashed"}, Cut(r, how)
  PROVE  RunInv(r)'
<1>1. CASE CutRequest(r, how)
  <2>1. /\ pc[r] = "run" /\ pc'[r] = "orphan" /\ outcome'[r] = how /\ Engine # "mysql"
        /\ UNCHANGED <<db, tgt, ddl, snap, unread, judged, next, touched, mine, committed, fresh>>
    BY <1>1 DEF CutRequest, TypeOK
  <2>2. View(r)' = View(r)
    BY <2>1 DEF View
  <2>3. Progress(r)'
    BY <2>1, <2>2 DEF RunInv, Progress, Running
  <2>4. Before(r)'
    BY <2>1 DEF RunInv, Before, Running
  <2>5. committed[r] = 0 /\ Reports(r)'
    BY <2>1, MigrateAssumption DEF RunInv, Progress, Running, Reports, SaysFailed
  <2> QED
    BY <2>1, <2>3, <2>4, <2>5 DEF RunInv, Chain, Reads, Verified, Judged, Running
<1>2. CASE CutTransaction(r, how)
  <2>1. /\ Engine = "postgres" /\ Running(r) /\ pc' = [pc EXCEPT ![r] = "done"]
        /\ outcome'[r] = how
        /\ UNCHANGED <<tgt, ddl, snap, unread, judged, next>>
    BY <1>2 DEF CutTransaction, End, Running, TypeOK
  <2>2. CASE Rollback(r) /\ UNCHANGED <<db, committed, fresh>>
    BY <2>1, <2>2, InvRollback
  <2>3. CASE ~More(r) /\ Publish(r)
    BY <2>1, <2>3, InvPublish
  <2> QED
    BY <1>2, <2>2, <2>3 DEF CutTransaction
<1>3. CASE CutMySQL(r, how)
  <2>1. /\ Engine = "mysql" /\ Running(r) /\ pc[r] = "run" /\ touched[r] = {}
        /\ committed[r] = next[r] - 1 /\ next[r] \in Nat \ {0} /\ next[r] <= Len(ddl[r]) + 1
    BY <1>3 DEF CutMySQL, Running, RunInv, Progress, TypeOK
  <2>2. /\ pc'[r] = "done" /\ outcome'[r] = how
        /\ UNCHANGED <<tgt, ddl, snap, unread, judged, next, touched, mine>>
    BY <1>3 DEF CutMySQL, End, TypeOK
  <2>3. CASE UNCHANGED <<db, committed, fresh>>
    BY <2>1, <2>2, <2>3 DEF RunInv, Chain, Before, Reads, Verified, Progress, Judged, Reports,
       SaysFailed, Running
  <2>4. CASE More(r) /\ DoMySQL(r)
    <3>1. /\ committed'[r] = next[r]
          /\ fresh'[r] => db' = judged[r][next[r] + 1]
      BY <2>1, <2>4, DoneMySQL
    <3> QED
      BY <2>1, <2>2, <3>1 DEF RunInv, Chain, Before, Reads, Verified, Progress, Judged, Reports,
         SaysFailed, Running
  <2> QED
    BY <1>3, <2>3, <2>4 DEF CutMySQL
<1> QED
  BY <1>1, <1>2, <1>3 DEF Cut

\* every step of a command keeps what it knows
LEMMA InvStep ==
  ASSUME TypeOK, NEW r \in Runs, RunInv(r), Begin(r) \/ Step(r) \/ Fault(r)
  PROVE  RunInv(r)'
<1>1. CASE Begin(r)
  BY <1>1, InvBegin
<1>2. CASE \/ DumpPG(r) \/ ListMySQL(r)
           \/ \E o \in Objects : ReadOne(r, o) \/ ReadGone(r, o)
           \/ Compare(r) \/ WritePlan(r)
  BY <1>2, InvReading
<1>3. CASE Restore(r)
  BY <1>3, InvRestore
<1>4. CASE JudgeStmt(r)
  BY <1>4, InvJudgeStmt
<1>5. CASE JudgeEnd(r) \/ Index(r) \/ EnvError(r)
  BY <1>5, InvJudgeEnd
<1>6. CASE ExecPG(r)
  BY <1>6, InvExecPG
<1>7. CASE RefusePG(r) \/ CommitPG(r)
  BY <1>7, InvEndPG DEF RefusePG, CommitPG
<1>8. CASE ExecMySQL(r) \/ RefuseMySQL(r) \/ FinishMySQL(r)
  BY <1>8, InvRunMySQL DEF ExecMySQL, RefuseMySQL, FinishMySQL
<1>9. CASE RowsRefuse(r)
  BY <1>9, InvEndPG, InvRunMySQL, MigrateAssumption
<1>10. CASE LoseServer(r) \/ Crash(r)
  BY <1>10, InvCut DEF LoseServer, Crash
<1> QED
  BY <1>1, <1>2, <1>3, <1>4, <1>5, <1>6, <1>7, <1>8, <1>9, <1>10 DEF Step, Fault
-----------------------------------------------------------------------------
(***************************************************************************)
(* The invariant, and what follows from it.                                *)
(***************************************************************************)

\* Nothing has been read, judged or run at first.
LEMMA IInvInit == Init => IInv
<1> SUFFICES ASSUME Init PROVE IInv
  OBVIOUS
<1>1. TypeOK
  BY TypeInit
<1>2. ASSUME NEW r \in Runs PROVE RunInv(r)
  BY DEF Init, RunInv, Chain, Before, Reads, Verified, Progress, Judged, Reports, SaysFailed,
     Running
<1> QED
  BY <1>1, <1>2 DEF IInv

\* Every step keeps the invariant: a command's own for itself, and for the others because it
\* leaves their state alone.
LEMMA IInvNext == IInv /\ [Next]_vars => IInv'
<1> SUFFICES ASSUME IInv, [Next]_vars PROVE IInv'
  OBVIOUS
<1>1. TypeOK /\ \A r \in Runs : RunInv(r)
  BY DEF IInv
<1>2. ASSUME NEW r \in Runs, Begin(r) \/ Step(r) \/ Fault(r) PROVE IInv'
  <2>1. TypeOK'
    BY <1>1, <1>2, TypeBegin, TypeStep, TypeFault DEF RunInv
  <2>2. RunInv(r)'
    BY <1>1, <1>2, InvStep
  <2>3. ASSUME NEW q \in Runs \ {r} PROVE RunInv(q)'
    BY <1>1, <1>2, <2>3, KeptByStep, KeptByFault, KeptInv
  <2> QED
    BY <2>1, <2>2, <2>3 DEF IInv
<1>3. CASE HandEdit \/ EditCode \/ EditFile \/ UNCHANGED vars
  <2>1. TypeOK'
    BY <1>1, <1>3, TypeOutside
  <2>2. ASSUME NEW q \in Runs PROVE RunInv(q)'
    BY <1>1, <1>3, <2>2, KeptOutside, KeptInv
  <2> QED
    BY <2>1, <2>2 DEF IInv
<1> QED
  BY <1>2, <1>3 DEF Next

\* The inductive invariant holds throughout, on both servers.
THEOREM Invariance == Spec => []IInv
  BY IInvInit, IInvNext, PTL DEF Spec

\* Type correctness of the commands' state (cli.go, apply.go, mysql.go).
THEOREM TypeCorrect == Spec => []TypeOK
<1>1. IInv => TypeOK
  BY DEF IInv
<1> QED
  BY <1>1, Invariance, PTL

\* What an undisturbed apply leaves in the database is what its scratch database held after
\* as many statements, for any number of commands, files and objects (runApply, runApplyMySQL).
THEOREM RunsAsJudged == Spec => []AsJudged
<1>1. IInv => AsJudged
  BY DEF IInv, RunInv, Judged, AsJudged
<1> QED
  BY <1>1, Invariance, PTL

\* The outcome and the statement number of an apply tell how much of its file is in the database,
\* whatever the others do: all, nothing, or on MySQL the statements before the one that is named,
\* and perhaps that one too when it is the connection that was lost (runApply, runApplyMySQL).
THEOREM ReportsAreTrue == Spec => []ReportsWhatRan
<1>1. IInv => ReportsWhatRan
  BY DEF IInv, RunInv, Reports, ReportsWhatRan
<1> QED
  BY <1>1, Invariance, PTL

\* "applied: the database now matches" is true of an apply nobody else disturbed.
THEOREM AppliedMatches == Spec => []AppliedIsTarget
<1>1. ASSUME IInv, NEW r \in Runs, fresh[r], outcome[r] = "applied" PROVE db = tgt[r]
  <2>1. /\ Len(judged[r]) = Len(ddl[r]) + 1 /\ judged[r][Len(ddl[r]) + 1] = tgt[r]
        /\ committed[r] = Len(ddl[r])
    BY <1>1 DEF IInv, RunInv, Verified, Reports
  <2>2. judged[r] # <<>>
    <3>1. ddl[r] \in Seq(Statements) /\ Len(ddl[r]) \in Nat
      BY <1>1 DEF IInv, TypeOK
    <3> QED
      BY <2>1, <3>1
  <2> QED
    BY <1>1, <2>1, <2>2 DEF IInv, RunInv, Judged
<1>2. IInv => AppliedIsTarget
  BY <1>1 DEF AppliedIsTarget
<1> QED
  BY <1>2, Invariance, PTL
-----------------------------------------------------------------------------
(***************************************************************************)
(* What diff prints is accepted where it was printed for.                  *)
(***************************************************************************)

\* The enumeration of a finite set has each of its elements once.
LEMMA SetToSeqOnce ==
  ASSUME NEW S, IsFiniteSet(S)
  PROVE  LET q == SetToSeq(S) IN
         /\ Len(q) \in Nat /\ q \in [1 .. Len(q) -> S]
         /\ \A i, j \in 1 .. Len(q) : q[i] = q[j] => i = j
         /\ \A x \in S : \E i \in 1 .. Len(q) : q[i] = x
<1> DEFINE c == Cardinality(S)
           q == SetToSeq(S)
<1>1. PICK f : f \in Bijection(1 .. c, S)
  BY FS_CardinalityType DEF ExistsBijection
<1>2. f \in [1 .. c -> S] /\ IsInjective(f)
  BY <1>1 DEF Bijection, Injection
<1>3. q \in [1 .. c -> S] /\ IsInjective(q)
  BY <1>2 DEF SetToSeq
<1>4. c \in Nat
  BY FS_CardinalityType
<1>5. q \in Injection(1 .. c, S)
  BY <1>3 DEF Injection
<1>6. Cardinality(1 .. c) = c
  BY <1>4, FS_Interval
<1>7. q \in Surjection(1 .. c, S)
  BY <1>5, <1>6, FS_Injection
<1>8. Len(q) = c
  BY <1>3, <1>4
<1>9. \A i, j \in 1 .. c : q[i] = q[j] => i = j
  BY <1>3 DEF IsInjective
<1>10. \A x \in S : \E i \in 1 .. c : q[i] = x
  BY <1>7 DEF Surjection
<1> HIDE DEF q
<1> QED
  BY <1>3, <1>4, <1>8, <1>9, <1>10 DEF q

\* The statements q are of one kind, one for each object of S, making it what it is in t.
OneEach(q, kind, S, t) ==
  /\ Len(q) \in Nat
  /\ \A i \in 1 .. Len(q) : q[i].kind = kind /\ q[i].obj \in S /\ q[i].ver = t[q[i].obj]
  /\ \A i, j \in 1 .. Len(q) : q[i].obj = q[j].obj => i = j
  /\ \A x \in S : \E i \in 1 .. Len(q) : q[i].obj = x

\* So has the sequence of the statements made for a set of objects.
LEMMA EachOnce ==
  ASSUME NEW kind, NEW S \in SUBSET Objects, NEW t \in Schemas
  PROVE  OneEach(Each(kind, S, t), kind, S, t)
<1> DEFINE s == SetToSeq(S)
           q == Each(kind, S, t)
<1>1. /\ Len(s) \in Nat /\ s \in [1 .. Len(s) -> S]
      /\ \A i, j \in 1 .. Len(s) : s[i] = s[j] => i = j
      /\ \A x \in S : \E i \in 1 .. Len(s) : s[i] = x
  BY SetToSeqOnce, FS_Subset, DdlAssumption
<1>2. DOMAIN s = 1 .. Len(s)
  BY <1>1
<1> HIDE DEF s
<1>3. q = [i \in 1 .. Len(s) |-> Stmt(kind, s[i], t[s[i]])]
  BY <1>2 DEF Each, s
<1>4. Len(q) = Len(s)
  BY <1>1, <1>3
<1>5. \A i \in 1 .. Len(s) : q[i].kind = kind /\ q[i].obj = s[i] /\ q[i].ver = t[s[i]]
  BY <1>3 DEF Stmt
<1> HIDE DEF q
<1>6. OneEach(q, kind, S, t)
  BY <1>1, <1>4, <1>5 DEF OneEach
<1> QED
  BY <1>6 DEF q

\* p is D, then A, then C.
InParts(p, D, A, C) ==
  /\ Len(D) \in Nat /\ Len(A) \in Nat /\ Len(C) \in Nat
  /\ Len(p) = Len(D) + Len(A) + Len(C)
  /\ \A i \in 1 .. Len(D) : p[i] = D[i]
  /\ \A i \in 1 .. Len(A) : p[Len(D) + i] = A[i]
  /\ \A i \in 1 .. Len(C) : p[Len(D) + Len(A) + i] = C[i]

LEMMA PartsOf ==
  ASSUME NEW D \in Seq(Statements), NEW A \in Seq(Statements), NEW C \in Seq(Statements)
  PROVE  InParts(D \o A \o C, D, A, C)
  BY DEF InParts

\* What a sequence of statements is that drops G, alters H and creates W.
OncePlanned(p, G, H, W, t) ==
  /\ \A i \in 1 .. Len(p) :
       \/ p[i].kind = "drop" /\ p[i].obj \in G /\ p[i].ver = None
       \/ p[i].kind = "alter" /\ p[i].obj \in H /\ p[i].ver = t[p[i].obj]
       \/ p[i].kind = "create" /\ p[i].obj \in W /\ p[i].ver = t[p[i].obj]
  /\ \A i, j \in 1 .. Len(p) : i < j /\ p[i].kind = p[j].kind => p[i].obj # p[j].obj
  /\ \A i, j \in 1 .. Len(p) : p[i].kind = "drop" /\ p[j].kind # "drop" => i < j
  /\ \A o \in G : \E i \in 1 .. Len(p) : p[i].kind = "drop" /\ p[i].obj = o
  /\ \A o \in H : \E i \in 1 .. Len(p) : p[i].kind = "alter" /\ p[i].obj = o
  /\ \A o \in W : \E i \in 1 .. Len(p) : p[i].kind = "create" /\ p[i].obj = o

\* Three such parts make one.
LEMMA PartsOnce ==
  ASSUME NEW p, NEW D, NEW A, NEW C, NEW G \in SUBSET Objects, NEW H, NEW W, NEW t,
         InParts(p, D, A, C),
         OneEach(D, "drop", G, Absent), OneEach(A, "alter", H, t), OneEach(C, "create", W, t)
  PROVE  OncePlanned(p, G, H, W, t)
<1> DEFINE d == Len(D)
           a == Len(A)
           c == Len(C)
<1>2. /\ \A i \in 1 .. d : D[i].kind = "drop" /\ D[i].obj \in G /\ D[i].ver = None
      /\ \A i, j \in 1 .. d : D[i].obj = D[j].obj => i = j
      /\ \A x \in G : \E i \in 1 .. d : D[i].obj = x
  BY DEF OneEach, Absent
<1>3. /\ \A i \in 1 .. a : A[i].kind = "alter" /\ A[i].obj \in H /\ A[i].ver = t[A[i].obj]
      /\ \A i, j \in 1 .. a : A[i].obj = A[j].obj => i = j
      /\ \A x \in H : \E i \in 1 .. a : A[i].obj = x
  BY DEF OneEach
<1>4. /\ \A i \in 1 .. c : C[i].kind = "create" /\ C[i].obj \in W /\ C[i].ver = t[C[i].obj]
      /\ \A i, j \in 1 .. c : C[i].obj = C[j].obj => i = j
      /\ \A x \in W : \E i \in 1 .. c : C[i].obj = x
  BY DEF OneEach
<1>5. /\ d \in Nat /\ a \in Nat /\ c \in Nat /\ Len(p) = d + a + c
      /\ \A i \in 1 .. d : p[i] = D[i]
      /\ \A i \in 1 .. a : p[d + i] = A[i]
      /\ \A i \in 1 .. c : p[d + a + i] = C[i]
  BY DEF InParts
<1> HIDE DEF d, a, c
<1>6. \A i \in 1 .. Len(p) : \/ i \in 1 .. d
                             \/ i - d \in 1 .. a /\ i = d + (i - d)
                             \/ i - d - a \in 1 .. c /\ i = d + a + (i - d - a)
  BY <1>5
<1>7. \A i \in 1 .. Len(p) :
        \/ i \in 1 .. d /\ p[i] = D[i] /\ p[i].kind = "drop"
        \/ i - d \in 1 .. a /\ p[i] = A[i - d] /\ p[i].kind = "alter"
        \/ i - d - a \in 1 .. c /\ p[i] = C[i - d - a] /\ p[i].kind = "create"
  <2> SUFFICES ASSUME NEW i \in 1 .. Len(p)
               PROVE  \/ i \in 1 .. d /\ p[i] = D[i] /\ p[i].kind = "drop"
                      \/ i - d \in 1 .. a /\ p[i] = A[i - d] /\ p[i].kind = "alter"
                      \/ i - d - a \in 1 .. c /\ p[i] = C[i - d - a] /\ p[i].kind = "create"
    OBVIOUS
  <2>1. CASE i \in 1 .. d
    BY <1>2, <1>5, <2>1
  <2>2. CASE i - d \in 1 .. a /\ i = d + (i - d)
    <3>1. p[d + (i - d)] = A[i - d]
      BY <1>5, <2>2
    <3> QED
      BY <1>3, <2>2, <3>1
  <2>3. CASE i - d - a \in 1 .. c /\ i = d + a + (i - d - a)
    <3>1. p[d + a + (i - d - a)] = C[i - d - a]
      BY <1>5, <2>3
    <3> QED
      BY <1>4, <2>3, <3>1
  <2> QED
    BY <1>6, <2>1, <2>2, <2>3
<1>8. \A i \in 1 .. Len(p) :
        \/ p[i].kind = "drop" /\ p[i].obj \in G /\ p[i].ver = None
        \/ p[i].kind = "alter" /\ p[i].obj \in H /\ p[i].ver = t[p[i].obj]
        \/ p[i].kind = "create" /\ p[i].obj \in W /\ p[i].ver = t[p[i].obj]
  BY <1>2, <1>3, <1>4, <1>5, <1>7
<1>9. ASSUME NEW i \in 1 .. Len(p), NEW j \in 1 .. Len(p), i < j, p[i].kind = p[j].kind,
             p[i].obj = p[j].obj
      PROVE  FALSE
  <2>1. CASE i \in 1 .. d
    <3>1. j \in 1 .. d /\ p[i] = D[i] /\ p[j] = D[j]
      BY <1>5, <1>7, <1>9, <2>1
    <3> QED
      BY <1>2, <1>5, <1>9, <2>1, <3>1
  <2>2. CASE i - d \in 1 .. a
    <3>1. j - d \in 1 .. a /\ p[i] = A[i - d] /\ p[j] = A[j - d]
      BY <1>5, <1>7, <1>9, <2>2
    <3>2. A[i - d].obj = A[j - d].obj
      BY <1>9, <3>1
    <3>3. i - d = j - d
      BY <1>3, <2>2, <3>1, <3>2
    <3> QED
      BY <1>5, <1>9, <3>3
  <2>3. CASE i - d - a \in 1 .. c
    <3>1. j - d - a \in 1 .. c /\ p[i] = C[i - d - a] /\ p[j] = C[j - d - a]
      BY <1>5, <1>7, <1>9, <2>3
    <3>2. C[i - d - a].obj = C[j - d - a].obj
      BY <1>9, <3>1
    <3>3. i - d - a = j - d - a
      BY <1>4, <2>3, <3>1, <3>2
    <3> QED
      BY <1>5, <1>9, <3>3
  <2> QED
    BY <1>7, <2>1, <2>2, <2>3
<1>10. ASSUME NEW i \in 1 .. Len(p), NEW j \in 1 .. Len(p), p[i].kind = "drop", p[j].kind # "drop"
       PROVE  i < j
  <2>1. i \in 1 .. d
    BY <1>7, <1>10
  <2>2. j - d \in 1 .. a \/ j - d - a \in 1 .. c
    BY <1>7, <1>10
  <2> QED
    BY <1>5, <2>1, <2>2
<1>11. /\ \A i \in 1 .. d : i \in 1 .. Len(p)
       /\ \A i \in 1 .. a : d + i \in 1 .. Len(p)
       /\ \A i \in 1 .. c : d + a + i \in 1 .. Len(p)
  BY <1>5
<1>12. \A o \in G : \E i \in 1 .. Len(p) : p[i].kind = "drop" /\ p[i].obj = o
  BY <1>2, <1>5, <1>11
<1>13. \A o \in H : \E i \in 1 .. Len(p) : p[i].kind = "alter" /\ p[i].obj = o
  <2> SUFFICES ASSUME NEW o \in H PROVE \E i \in 1 .. Len(p) : p[i].kind = "alter" /\ p[i].obj = o
    OBVIOUS
  <2>1. PICK i \in 1 .. a : A[i].kind = "alter" /\ A[i].obj = o
    BY <1>3
  <2>2. d + i \in 1 .. Len(p) /\ p[d + i] = A[i]
    BY <1>5, <1>11
  <2> QED
    BY <2>1, <2>2
<1>14. \A o \in W : \E i \in 1 .. Len(p) : p[i].kind = "create" /\ p[i].obj = o
  <2> SUFFICES ASSUME NEW o \in W PROVE \E i \in 1 .. Len(p) : p[i].kind = "create" /\ p[i].obj = o
    OBVIOUS
  <2>1. PICK i \in 1 .. c : C[i].kind = "create" /\ C[i].obj = o
    BY <1>4
  <2>2. d + a + i \in 1 .. Len(p) /\ p[d + a + i] = C[i]
    BY <1>5, <1>11
  <2> QED
    BY <2>1, <2>2
<1> QED
  BY <1>8, <1>9, <1>10, <1>12, <1>13, <1>14 DEF OncePlanned

\* The plan drops what is gone, alters what has changed and creates what is new, each once.
LEMMA PlanOnce ==
  ASSUME NEW s \in Schemas, NEW t \in Schemas
  PROVE  OncePlanned(Plan(s, t), Gone(s, t), Changed(s, t) \ Recreated, New(s, t), t)
<1> DEFINE D == Each("drop", Gone(s, t), Absent)
           A == Each("alter", Changed(s, t) \ Recreated, t)
           C == Each("create", New(s, t), t)
<1>1. Gone(s, t) \in SUBSET Objects /\ New(s, t) \in SUBSET Objects
      /\ Changed(s, t) \ Recreated \in SUBSET Objects
  BY DEF Gone, New, Changed
<1>2. {"drop", "alter", "create"} \subseteq Kinds /\ Absent \in Schemas
  BY AbsentType DEF Kinds
<1>3. D \in Seq(Statements) /\ A \in Seq(Statements) /\ C \in Seq(Statements)
  BY <1>1, <1>2, EachType
<1>4. /\ OneEach(D, "drop", Gone(s, t), Absent)
      /\ OneEach(A, "alter", Changed(s, t) \ Recreated, t)
      /\ OneEach(C, "create", New(s, t), t)
  BY <1>1, <1>2, EachOnce
<1>5. Plan(s, t) = D \o A \o C
  BY DEF Plan
<1> HIDE DEF D, A, C
<1>6. InParts(Plan(s, t), D, A, C)
  BY <1>3, <1>5, PartsOf
<1> QED
  BY <1>1, <1>4, <1>6, PartsOnce

-----------------------------------------------------------------------------
\* A statement changes what the ones before it have made.
LEMMA MadeMore ==
  ASSUME NEW s \in Schemas, NEW x \in Schemas, NEW file \in Seq(Statements), NEW n \in Nat,
         n + 1 <= Len(file), MadeBy(x, file, n, s)
  PROVE  MadeBy(After(file[n + 1], x), file, n + 1, s)
<1> DEFINE st == file[n + 1]
           y == After(st, x)
<1>1. st \in Statements /\ st.obj \in Objects
  <2>1. n + 1 \in 1 .. Len(file)
    OBVIOUS
  <2>2. st \in Statements
    BY <2>1
  <2> QED
    BY <2>2 DEF Statements
<1> SUFFICES ASSUME NEW o \in Objects
             PROVE  \/ y[o] = s[o] /\ \A i \in 1 .. n + 1 : ~Writes(file[i], o)
                    \/ \E i \in 1 .. n + 1 :
                         /\ Writes(file[i], o) /\ y[o] = file[i].ver
                         /\ \A j \in i + 1 .. n + 1 : ~Writes(file[j], o)
  BY DEF MadeBy
<1>2. CASE Writes(st, o)
  <2>1. y[o] = st.ver
    BY <1>1, <1>2 DEF After, Writes, Schemas
  <2>2. \A j \in n + 1 + 1 .. n + 1 : ~Writes(file[j], o)
    OBVIOUS
  <2> QED
    BY <1>2, <2>1, <2>2
<1>3. CASE ~Writes(st, o)
  <2>1. y[o] = x[o]
    BY <1>1, <1>3 DEF After, Writes, Schemas
  <2>2. \A i \in 1 .. n + 1 : i \in 1 .. n \/ i = n + 1
    OBVIOUS
  <2>3. CASE x[o] = s[o] /\ \A i \in 1 .. n : ~Writes(file[i], o)
    BY <1>3, <2>1, <2>2, <2>3
  <2>4. CASE \E i \in 1 .. n :
               /\ Writes(file[i], o) /\ x[o] = file[i].ver
               /\ \A j \in i + 1 .. n : ~Writes(file[j], o)
    <3>1. PICK i \in 1 .. n :
               /\ Writes(file[i], o) /\ x[o] = file[i].ver
               /\ \A j \in i + 1 .. n : ~Writes(file[j], o)
      BY <2>4
    <3>2. i \in 1 .. n + 1 /\ \A j \in i + 1 .. n + 1 : j \in i + 1 .. n \/ j = n + 1
      OBVIOUS
    <3> QED
      BY <1>3, <2>1, <3>1, <3>2
  <2> QED
    BY <2>3, <2>4 DEF MadeBy
<1> QED
  BY <1>2, <1>3

\* Where the plan has come to, its next statement is accepted.
LEMMA PlanLegal ==
  ASSUME NEW s \in Schemas, NEW t \in Schemas, NEW x \in Schemas, NEW n \in Nat,
         n + 1 <= Len(Plan(s, t)), MadeBy(x, Plan(s, t), n, s)
  PROVE  Legal(Plan(s, t)[n + 1], x)
<1> DEFINE p == Plan(s, t)
           st == p[n + 1]
           o == st.obj
<1>1. p \in Seq(Statements)
  BY PlanType
<1>2. OncePlanned(p, Gone(s, t), Changed(s, t) \ Recreated, New(s, t), t)
  BY PlanOnce
<1> HIDE DEF p
<1>3. n + 1 \in 1 .. Len(p) /\ \A i \in 1 .. n : i \in 1 .. Len(p) /\ i < n + 1
  BY <1>1 DEF p
<1>4. st \in Statements /\ o \in Objects
  <2>1. st \in Statements
    BY <1>1, <1>3
  <2> QED
    BY <2>1 DEF Statements
<1>5. \A i \in 1 .. n : Writes(p[i], o) => p[i].obj = o /\ p[i].kind # st.kind
  BY <1>2, <1>3 DEF OncePlanned, Writes
<1>6. \/ x[o] = s[o] /\ \A i \in 1 .. n : ~Writes(p[i], o)
      \/ \E i \in 1 .. n : Writes(p[i], o) /\ x[o] = p[i].ver
  BY <1>4 DEF MadeBy, p
<1>7. CASE st.kind = "drop" /\ o \in Gone(s, t)
  <2>1. \A i \in 1 .. n : p[i].kind = "drop"
    BY <1>2, <1>3, <1>7 DEF OncePlanned
  <2>2. s[o] # None
    BY <1>7 DEF Gone, Changed
  <2> QED
    BY <1>5, <1>6, <1>7, <2>1, <2>2 DEF Legal, p
<1>8. CASE st.kind = "alter" /\ o \in Changed(s, t) \ Recreated
  <2>1. o \notin Gone(s, t) /\ o \notin New(s, t) /\ s[o] # None
    BY <1>8 DEF Gone, New, Changed
  <2>2. \A i \in 1 .. n : ~Writes(p[i], o)
    BY <1>2, <1>3, <1>5, <1>8, <2>1 DEF OncePlanned
  <2> QED
    BY <1>6, <1>8, <2>1, <2>2 DEF Legal, p
<1>9. CASE st.kind = "create" /\ o \in New(s, t)
  <2>1. \A i \in 1 .. n : Writes(p[i], o) => p[i].kind = "drop" /\ p[i].ver = None
    <3>1. o \notin Changed(s, t) \ Recreated
      BY <1>9 DEF New, Changed
    <3> QED
      BY <1>2, <1>3, <1>5, <1>9, <3>1 DEF OncePlanned
  <2>2. x[o] = None
    <3>1. CASE \E i \in 1 .. n : Writes(p[i], o) /\ x[o] = p[i].ver
      BY <2>1, <3>1
    <3>2. CASE s[o] = None
      BY <1>6, <3>1, <3>2
    <3>3. CASE s[o] # None
      <4>1. o \in Gone(s, t)
        BY <1>9, <3>3 DEF New, Gone
      <4>2. PICK i \in 1 .. Len(p) : p[i].kind = "drop" /\ p[i].obj = o
        BY <1>2, <4>1 DEF OncePlanned
      <4>3. i < n + 1
        BY <1>2, <1>3, <1>9, <4>2 DEF OncePlanned
      <4>4. i \in 1 .. n /\ Writes(p[i], o)
        BY <4>2, <4>3 DEF Writes
      <4> QED
        BY <1>6, <3>1, <4>4
    <3> QED
      BY <3>2, <3>3
  <2> QED
    BY <1>9, <2>2 DEF Legal, p
<1> QED
  BY <1>2, <1>3, <1>7, <1>8, <1>9 DEF OncePlanned

\* Run to its end, the plan makes the target of what it was made for.
LEMMA PlanArrives ==
  ASSUME NEW s \in Schemas, NEW t \in Schemas, NEW x \in Schemas,
         MadeBy(x, Plan(s, t), Len(Plan(s, t)), s)
  PROVE  ~Differs(x, t)
<1> DEFINE p == Plan(s, t)
           n == Len(p)
<1>1. OncePlanned(p, Gone(s, t), Changed(s, t) \ Recreated, New(s, t), t)
  BY PlanOnce
<1>2. n \in Nat
  BY PlanType
<1> HIDE DEF p
<1> SUFFICES ASSUME NEW o \in Objects PROVE x[o] = t[o]
  BY DEF Differs
<1>3. CASE x[o] = s[o] /\ \A i \in 1 .. n : ~Writes(p[i], o)
  <2>1. o \notin Gone(s, t) /\ o \notin Changed(s, t) \ Recreated /\ o \notin New(s, t)
    BY <1>1, <1>3 DEF OncePlanned, Writes
  <2> QED
    BY <1>3, <2>1 DEF Gone, Changed, New
<1>4. CASE \E i \in 1 .. n :
             /\ Writes(p[i], o) /\ x[o] = p[i].ver
             /\ \A j \in i + 1 .. n : ~Writes(p[j], o)
  <2>1. PICK i \in 1 .. n :
             /\ Writes(p[i], o) /\ x[o] = p[i].ver
             /\ \A j \in i + 1 .. n : ~Writes(p[j], o)
    BY <1>4
  <2>2. p[i].obj = o
    BY <2>1 DEF Writes
  <2>3. CASE p[i].kind = "drop" /\ o \in Gone(s, t) /\ p[i].ver = None
    <3>1. o \notin New(s, t)
      <4> SUFFICES ASSUME o \in New(s, t) PROVE FALSE
        OBVIOUS
      <4>1. PICK j \in 1 .. n : p[j].kind = "create" /\ p[j].obj = o
        BY <1>1 DEF OncePlanned
      <4>2. i < j
        BY <1>1, <2>3, <4>1 DEF OncePlanned
      <4>3. j \in i + 1 .. n /\ Writes(p[j], o)
        BY <1>2, <4>1, <4>2 DEF Writes
      <4> QED
        BY <2>1, <4>3
    <3> QED
      BY <2>1, <2>3, <3>1 DEF Gone, New
  <2> QED
    BY <1>1, <2>1, <2>2, <2>3 DEF OncePlanned
<1> QED
  BY <1>3, <1>4 DEF MadeBy, p
-----------------------------------------------------------------------------
\* What another command does leaves what was judged alone.
LEMMA KeptPlan ==
  ASSUME NEW q \in Runs, Kept(q), LastWritten(q)
  PROVE  LastWritten(q)'
  BY DEF Kept, LastWritten

\* A statement on the scratch database makes the next state.
LEMMA PlanJudgeStmt ==
  ASSUME TypeOK, NEW r \in Runs, RunInv(r), JudgeStmt(r), LastWritten(r)
  PROVE  LastWritten(r)'
<1> DEFINE n == Len(judged[r])
<1>1. /\ judged[r] # <<>> /\ judged[r] \in Seq(Schemas) /\ ddl[r] \in Seq(Statements)
      /\ n \in Nat /\ n >= 1 /\ n <= Len(ddl[r]) /\ judged[r][n] \in Schemas
      /\ snap[r] \in Schemas
  BY DEF JudgeStmt, RunInv, Before, TypeOK
<1>2. ddl' = ddl /\ snap' = snap
  BY DEF JudgeStmt
<1>3. MadeBy(judged[r][n], ddl[r], n - 1, snap[r])
  BY <1>1 DEF LastWritten
<1>4. CASE judged' = [judged EXCEPT ![r] = Append(@, After(ddl[r][n], judged[r][n]))]
  <2>1. judged'[r] = Append(judged[r], After(ddl[r][n], judged[r][n]))
    BY <1>4 DEF TypeOK
  <2>2. MadeBy(After(ddl[r][n], judged[r][n]), ddl[r], n, snap[r])
    <3>1. n - 1 \in Nat /\ (n - 1) + 1 = n
      BY <1>1
    <3> QED
      BY <1>1, <1>3, <3>1, MadeMore
  <2>3. ASSUME NEW m \in 1 .. n + 1 PROVE MadeBy(judged'[r][m], ddl[r], m - 1, snap[r])
    <3>1. CASE m = n + 1
      BY <1>1, <2>1, <2>2, <3>1
    <3>2. CASE m \in 1 .. n
      BY <1>1, <2>1, <3>2 DEF LastWritten
    <3> QED
      BY <1>1, <3>1, <3>2
  <2>4. Len(judged'[r]) = n + 1
    BY <1>1, <2>1
  <2> QED
    BY <1>1, <1>2, <2>3, <2>4 DEF LastWritten
<1>5. CASE UNCHANGED judged
  BY <1>2, <1>5 DEF LastWritten
<1> QED
  BY <1>4, <1>5 DEF JudgeStmt

\* Every step of a command keeps what is known of what was judged.
LEMMA PlanStep ==
  ASSUME TypeOK, NEW r \in Runs, RunInv(r), LastWritten(r), Begin(r) \/ Step(r) \/ Fault(r)
  PROVE  LastWritten(r)'
<1>1. CASE Begin(r)
  <2>1. judged'[r] = <<>>
    BY <1>1 DEF Begin, TypeOK
  <2> QED
    BY <2>1 DEF LastWritten
<1>2. CASE \/ DumpPG(r) \/ ListMySQL(r)
           \/ \E o \in Objects : ReadOne(r, o) \/ ReadGone(r, o)
           \/ Compare(r) \/ WritePlan(r)
  <2>1. judged'[r] = <<>>
    BY <1>2 DEF RunInv, Before, DumpPG, ListMySQL, ReadOne, ReadGone, Compare, WritePlan
  <2> QED
    BY <2>1 DEF LastWritten
<1>3. CASE Restore(r)
  <2>1. judged'[r] = <<snap[r]>> /\ snap' = snap
    BY <1>3 DEF Restore, TypeOK
  <2>2. MadeBy(snap[r], ddl'[r], 0, snap[r])
    BY DEF MadeBy
  <2>3. \A m \in 1 .. Len(judged'[r]) : m = 1
    BY <2>1
  <2>4. judged'[r][1] = snap[r]
    BY <2>1
  <2> QED
    BY <2>1, <2>2, <2>3, <2>4 DEF LastWritten
<1>4. CASE JudgeStmt(r)
  BY <1>4, PlanJudgeStmt
<1>5. ASSUME judged' = judged, ddl' = ddl, snap' = snap PROVE LastWritten(r)'
  BY <1>5 DEF LastWritten
<1>6. CASE JudgeEnd(r) \/ Index(r) \/ EnvError(r) \/ RowsRefuse(r)
  BY <1>5, <1>6 DEF JudgeEnd, Index, EnvError, RowsRefuse
<1>7. CASE ExecPG(r) \/ RefusePG(r) \/ CommitPG(r)
  BY <1>5, <1>7 DEF ExecPG, RefusePG, CommitPG
<1>8. CASE ExecMySQL(r) \/ RefuseMySQL(r) \/ FinishMySQL(r)
  BY <1>5, <1>8 DEF ExecMySQL, RefuseMySQL, FinishMySQL
<1>9. CASE LoseServer(r) \/ Crash(r)
  BY <1>5, <1>9 DEF LoseServer, Crash, Cut, CutRequest, CutTransaction, CutMySQL
<1> QED
  BY <1>1, <1>2, <1>3, <1>4, <1>6, <1>7, <1>8, <1>9 DEF Step, Fault

\* What is known of what was judged is kept by every step.
LEMMA PlanInvNext == IInv /\ PlanInv /\ [Next]_vars => PlanInv'
<1> SUFFICES ASSUME IInv, PlanInv, [Next]_vars PROVE PlanInv'
  OBVIOUS
<1>1. TypeOK /\ \A r \in Runs : RunInv(r) /\ LastWritten(r)
  BY DEF IInv, PlanInv
<1>2. ASSUME NEW r \in Runs, Begin(r) \/ Step(r) \/ Fault(r) PROVE PlanInv'
  <2>1. LastWritten(r)'
    BY <1>1, <1>2, PlanStep
  <2>2. ASSUME NEW q \in Runs \ {r} PROVE LastWritten(q)'
    BY <1>1, <1>2, <2>2, KeptByStep, KeptByFault, KeptPlan
  <2> QED
    BY <2>1, <2>2 DEF PlanInv
<1>3. CASE HandEdit \/ EditCode \/ EditFile \/ UNCHANGED vars
  BY <1>1, <1>3, KeptOutside, KeptPlan DEF PlanInv
<1> QED
  BY <1>2, <1>3 DEF Next

\* A scratch server that judges the plan for what was read finds nothing against it: each of its
\* statements runs where the ones before it have, and all of them reach the target.
LEMMA VerdictOnPlan ==
  ASSUME TypeOK, NEW r \in Runs, RunInv(r), LastWritten(r), judged[r] # <<>>,
         ddl[r] = Plan(snap[r], tgt[r])
  PROVE  ~Verdict(r)
<1> DEFINE n == Len(judged[r])
<1>1. /\ judged[r] \in Seq(Schemas) /\ ddl[r] \in Seq(Statements) /\ Len(ddl[r]) \in Nat
      /\ n \in Nat /\ n >= 1 /\ n <= Len(ddl[r]) + 1 /\ judged[r][n] \in Schemas
      /\ snap[r] \in Schemas /\ tgt[r] \in Schemas
  BY DEF RunInv, Chain, TypeOK
<1>2. MadeBy(judged[r][n], ddl[r], n - 1, snap[r])
  BY <1>1 DEF LastWritten
<1>3. CASE n <= Len(ddl[r])
  <2>1. n - 1 \in Nat /\ (n - 1) + 1 = n
    BY <1>1
  <2>2. Legal(ddl[r][n], judged[r][n])
    BY <1>1, <1>2, <1>3, <2>1, PlanLegal
  <2> QED
    BY <1>3, <2>2 DEF Verdict
<1>4. CASE ~(n <= Len(ddl[r]))
  <2>1. n - 1 = Len(ddl[r])
    BY <1>1, <1>4
  <2>2. ~Differs(judged[r][n], tgt[r])
    BY <1>1, <1>2, <2>1, PlanArrives
  <2> QED
    BY <1>4, <2>2 DEF Verdict
<1> QED
  BY <1>3, <1>4

\* The file that diff printed for what an apply reads is not refused by its check, on either
\* server and from whatever state a half-run file has left (runDiff, runApply, runApplyMySQL).
THEOREM PlansAccepted == Spec => []PlanAccepted
<1>1. Init => PlanInv
  BY DEF Init, PlanInv, LastWritten
<1>2. IInv /\ PlanInv => PlanAccepted
  BY VerdictOnPlan DEF IInv, PlanInv, PlanAccepted
<1> QED
  BY <1>1, <1>2, PlanInvNext, Invariance, PTL DEF Spec

-----------------------------------------------------------------------------
\* What people do outside the commands leaves the code alone while a command stays fresh.
LEMMA UsesKept ==
  ASSUME NEW q \in Runs, IInv, Next \/ UNCHANGED vars, fresh'[q], uses' # uses
  PROVE  FALSE
<1>1. ASSUME NEW r \in Runs, Begin(r) \/ Fault(r) PROVE uses' = uses
  BY <1>1 DEF Begin, Fault, EnvError, RowsRefuse, LoseServer, Crash, Cut, CutRequest,
     CutTransaction, CutMySQL
<1>2. ASSUME NEW r \in Runs, Step(r) PROVE uses' = uses
  BY <1>2 DEF Step, DumpPG, ListMySQL, ReadOne, ReadGone, Compare, WritePlan, Restore, JudgeStmt,
     JudgeEnd, Index, ExecPG, RefusePG, CommitPG, ExecMySQL, RefuseMySQL, FinishMySQL
<1>3. HandEdit \/ EditFile \/ UNCHANGED vars => uses' = uses
  BY DEF HandEdit, EditFile, vars
<1>4. EditCode => ~fresh'[q]
  BY DEF EditCode, Disturb
<1> QED
  BY <1>1, <1>2, <1>3, <1>4 DEF Next

\* Every step of a command keeps what its look at the packages has found.
LEMMA CodeStep ==
  ASSUME IInv, NEW r \in Runs, Harmless(r), Begin(r) \/ Step(r) \/ Fault(r)
  PROVE  Harmless(r)'
<1>0. TypeOK /\ RunInv(r)
  BY DEF IInv
<1>1. fresh'[r] => uses' = uses
  BY UsesKept DEF Next
<1>2. CASE \/ Begin(r) \/ DumpPG(r) \/ ListMySQL(r)
           \/ \E o \in Objects : ReadOne(r, o) \/ ReadGone(r, o)
           \/ Compare(r) \/ WritePlan(r) \/ Restore(r) \/ JudgeStmt(r) \/ JudgeEnd(r) \/ EnvError(r)
  <2>1. pc'[r] \notin {"run", "orphan"} /\ outcome'[r] # "applied"
    BY <1>0, <1>2 DEF RunInv, Before, Begin, DumpPG, ListMySQL, ReadOne, ReadGone, Compare,
       WritePlan, Restore, JudgeStmt, JudgeEnd, EnvError, End, TypeOK
  <2> QED
    BY <2>1 DEF Harmless, Running
<1>3. CASE Index(r)
  <2>1. /\ UNCHANGED <<uses, snap, tgt, opt>>
        /\ outcome'[r] # "applied"
        /\ pc'[r] \in {"run", "done"}
        /\ pc'[r] = "run" /\ opt[r].packages /\ ~opt[r].force => Impacts(snap[r], tgt[r], uses) = {}
    BY <1>0, <1>3 DEF Index, Impacted, RunInv, Before, End, TypeOK
  <2> QED
    BY <2>1 DEF Harmless, Running
<1>4. ASSUME UNCHANGED <<snap, tgt, opt>>, Running(r), fresh'[r] => fresh[r]
      PROVE  Harmless(r)'
  BY <1>1, <1>4 DEF Harmless
<1>5. CASE RowsRefuse(r)
  BY <1>4, <1>5 DEF RowsRefuse
<1>6. CASE ExecPG(r) \/ RefusePG(r) \/ CommitPG(r) \/ ExecMySQL(r) \/ RefuseMySQL(r) \/ FinishMySQL(r)
  <2>1. UNCHANGED <<snap, tgt, opt>> /\ Running(r)
    BY <1>6 DEF ExecPG, RefusePG, CommitPG, ExecMySQL, RefuseMySQL, FinishMySQL, Running
  <2>2. fresh'[r] => fresh[r]
    BY <1>6 DEF ExecPG, RefusePG, CommitPG, Publish, Disturb, ExecMySQL, DoMySQL, RefuseMySQL,
       FinishMySQL
  <2> QED
    BY <1>4, <2>1, <2>2
<1>7. CASE LoseServer(r) \/ Crash(r)
  <2>1. UNCHANGED <<snap, tgt, opt>> /\ Running(r)
    BY <1>7 DEF LoseServer, Crash, Cut, CutRequest, CutTransaction, CutMySQL, Running
  <2>2. fresh'[r] => fresh[r]
    BY <1>7 DEF LoseServer, Crash, Cut, CutRequest, CutTransaction, CutMySQL, Publish, DoMySQL,
       Disturb
  <2> QED
    BY <1>4, <2>1, <2>2
<1> QED
  BY <1>2, <1>3, <1>5, <1>6, <1>7 DEF Step, Fault

\* A command that is left alone, with the code as it is, keeps it as well.
LEMMA KeptCode ==
  ASSUME IInv, NEW q \in Runs, Harmless(q), Kept(q), Next \/ UNCHANGED vars
  PROVE  Harmless(q)'
<1>1. fresh'[q] => uses' = uses
  BY UsesKept
<1> QED
  BY <1>1 DEF Kept, Harmless, Running

\* What the looks at the packages have found is kept by every step.
LEMMA CodeInvNext == IInv /\ CodeInv /\ [Next]_vars => CodeInv'
<1> SUFFICES ASSUME IInv, CodeInv, [Next]_vars PROVE CodeInv'
  OBVIOUS
<1>1. TypeOK /\ \A r \in Runs : Harmless(r)
  BY DEF IInv, CodeInv
<1>2. ASSUME NEW r \in Runs, Begin(r) \/ Step(r) \/ Fault(r) PROVE CodeInv'
  <2>1. Harmless(r)'
    BY <1>1, <1>2, CodeStep
  <2>2. ASSUME NEW q \in Runs \ {r} PROVE Harmless(q)'
    BY <1>1, <1>2, <2>2, KeptByStep, KeptByFault, KeptCode
  <2> QED
    BY <2>1, <2>2 DEF CodeInv
<1>3. CASE HandEdit \/ EditCode \/ EditFile \/ UNCHANGED vars
  BY <1>1, <1>3, KeptOutside, KeptCode DEF CodeInv
<1> QED
  BY <1>2, <1>3 DEF Next

\* An undisturbed apply that looked at the packages, and was not forced, has neither taken away
\* nor retyped what their statements depend on (runApply, consumers.Impacts).
THEOREM ConsumersUnharmed == Spec => []ConsumersKept
<1>1. Init => CodeInv
  BY DEF Init, CodeInv, Harmless, Running
<1>2. IInv /\ AppliedIsTarget /\ CodeInv => ConsumersKept
  <2> SUFFICES ASSUME IInv, AppliedIsTarget, CodeInv, NEW r \in Runs,
                      fresh[r], outcome[r] = "applied", opt[r].packages, ~opt[r].force,
                      NEW o \in uses, snap[r][o] # None
               PROVE  db[o] # None /\ TypeOf[db[o]] = TypeOf[snap[r][o]]
    BY DEF ConsumersKept
  <2>1. db = tgt[r]
    BY DEF AppliedIsTarget
  <2>2. Impacts(snap[r], tgt[r], uses) = {}
    BY DEF CodeInv, Harmless
  <2> QED
    BY <2>1, <2>2 DEF Impacts
<1> QED
  BY <1>1, <1>2, CodeInvNext, AppliedMatches, Invariance, PTL DEF Spec

-----------------------------------------------------------------------------
(***************************************************************************)
(* What a file makes of a schema.                                          *)
(***************************************************************************)

\* No statement leads nowhere else.
LEMMA ReachesHere ==
  ASSUME NEW s \in Schemas, NEW f, Len(f) = 0
  PROVE  Reaches(f, s, s)
<1> DEFINE p == [i \in 1 .. Len(f) + 1 |-> s]
<1>1. p \in [1 .. Len(f) + 1 -> Schemas] /\ p[1] = s /\ p[Len(f) + 1] = s
  OBVIOUS
<1>2. \A i \in 1 .. Len(f) : FALSE
  OBVIOUS
<1> QED
  BY <1>1, <1>2 DEF Reaches

\* Nor does a file without statements.
LEMMA ReachesOnlyHere ==
  ASSUME NEW s, NEW t, NEW f, Len(f) = 0, Reaches(f, s, t)
  PROVE  t = s
  BY DEF Reaches

\* One statement more, accepted where the file has led, leads on.
LEMMA ReachesMore ==
  ASSUME NEW s \in Schemas, NEW t \in Schemas, NEW f \in Seq(Statements), NEW n \in Nat,
         n + 1 <= Len(f), Reaches(SubSeq(f, 1, n), s, t), Legal(f[n + 1], t)
  PROVE  Reaches(SubSeq(f, 1, n + 1), s, After(f[n + 1], t))
<1> DEFINE g == SubSeq(f, 1, n)
           h == SubSeq(f, 1, n + 1)
<1>1. /\ Len(g) = n /\ Len(h) = n + 1
      /\ \A i \in 1 .. n : g[i] = f[i]
      /\ \A i \in 1 .. n + 1 : h[i] = f[i]
  OBVIOUS
<1>2. After(f[n + 1], t) \in Schemas
  <2>1. f[n + 1] \in Statements
    OBVIOUS
  <2> QED
    BY <2>1, AfterType
<1> HIDE DEF g, h
<1>3. PICK p \in [1 .. n + 1 -> Schemas] :
        /\ p[1] = s /\ p[n + 1] = t
        /\ \A i \in 1 .. n : Legal(f[i], p[i]) /\ p[i + 1] = After(f[i], p[i])
  BY <1>1 DEF Reaches, g
<1> DEFINE q == [i \in 1 .. n + 2 |-> IF i <= n + 1 THEN p[i] ELSE After(f[n + 1], t)]
<1>4. q \in [1 .. n + 2 -> Schemas] /\ q[1] = s /\ q[n + 2] = After(f[n + 1], t)
  BY <1>2, <1>3
<1>5. ASSUME NEW i \in 1 .. n + 1 PROVE Legal(h[i], q[i]) /\ q[i + 1] = After(h[i], q[i])
  <2>1. CASE i \in 1 .. n
    <3>1. q[i] = p[i] /\ q[i + 1] = p[i + 1] /\ h[i] = f[i]
      BY <1>1, <2>1
    <3> QED
      BY <1>3, <2>1, <3>1
  <2>2. CASE i = n + 1
    <3>1. q[i] = t /\ q[i + 1] = After(f[n + 1], t) /\ h[i] = f[n + 1]
      BY <1>1, <1>3, <2>2
    <3> QED
      BY <3>1
  <2> QED
    BY <2>1, <2>2
<1>6. n + 2 = Len(h) + 1
  BY <1>1
<1> HIDE DEF q
<1>7. /\ q \in [1 .. Len(h) + 1 -> Schemas]
      /\ q[1] = s /\ q[Len(h) + 1] = After(f[n + 1], t)
      /\ \A i \in 1 .. Len(h) : Legal(h[i], q[i]) /\ q[i + 1] = After(h[i], q[i])
  BY <1>1, <1>4, <1>5, <1>6
<1> QED
  BY <1>7 DEF Reaches, h

\* t on the objects of T, u elsewhere
Overlay(T, t, u) == [o \in Objects |-> IF o \in T THEN t[o] ELSE u[o]]

\* From a schema that is the same where the file writes, it makes the same there, and leaves the
\* rest as it is.
LEMMA ReachesElsewhere ==
  ASSUME NEW s \in Schemas, NEW t \in Schemas, NEW u \in Schemas, NEW f \in Seq(Statements),
         NEW T \in SUBSET Objects, Reaches(f, s, t),
         \A i \in 1 .. Len(f) : f[i].obj \in T, \A o \in T : u[o] = s[o]
  PROVE  Reaches(f, u, Overlay(T, t, u))
<1> DEFINE n == Len(f)
           mix(x) == [o \in Objects |-> IF o \in T THEN x[o] ELSE u[o]]
<1>1. n \in Nat
  OBVIOUS
<1>2. PICK p \in [1 .. n + 1 -> Schemas] :
        /\ p[1] = s /\ p[n + 1] = t
        /\ \A i \in 1 .. n : Legal(f[i], p[i]) /\ p[i + 1] = After(f[i], p[i])
  BY DEF Reaches
<1> DEFINE q == [i \in 1 .. n + 1 |-> mix(p[i])]
<1>3. \A x \in Schemas : mix(x) \in Schemas
  BY DEF Schemas
<1>4. q \in [1 .. n + 1 -> Schemas]
  BY <1>2, <1>3
<1>5. q[1] = u
  <2>1. q[1] = mix(s)
    BY <1>1, <1>2
  <2>2. mix(s) = u
    BY DEF Schemas
  <2> QED
    BY <2>1, <2>2
<1>6. q[n + 1] = mix(t)
  BY <1>1, <1>2
<1>7. ASSUME NEW i \in 1 .. n PROVE Legal(f[i], q[i]) /\ q[i + 1] = After(f[i], q[i])
  <2> DEFINE st == f[i]
             x == p[i]
  <2>1. st \in Statements /\ st.obj \in T
    OBVIOUS
  <2>0. i \in 1 .. n + 1 /\ i + 1 \in 1 .. n + 1
    BY <1>1
  <2>2. x \in Schemas /\ q[i] = mix(x) /\ q[i + 1] = mix(p[i + 1])
    <3>1. x \in Schemas
      BY <2>0
    <3>2. q[i] = mix(x)
      BY <2>0
    <3>3. q[i + 1] = mix(p[i + 1])
      BY <2>0
    <3> QED
      BY <3>1, <3>2, <3>3
  <2>3. Legal(st, x) /\ p[i + 1] = After(st, x)
    BY <1>2
  <2> HIDE DEF st, x, q
  <2>4. mix(x)[st.obj] = x[st.obj]
    BY <2>1
  <2>5. Legal(st, mix(x))
    BY <2>3, <2>4 DEF Legal
  <2>6. mix(After(st, x)) = After(st, mix(x))
    <3>1. CASE st.kind = "update"
      BY <3>1 DEF After
    <3>2. CASE st.kind # "update"
      <4>1. After(st, x) = [x EXCEPT ![st.obj] = st.ver]
            /\ After(st, mix(x)) = [mix(x) EXCEPT ![st.obj] = st.ver]
        BY <3>2 DEF After
      <4>2. mix([x EXCEPT ![st.obj] = st.ver]) = [mix(x) EXCEPT ![st.obj] = st.ver]
        BY <2>1, <2>2 DEF Schemas
      <4> QED
        BY <4>1, <4>2
    <3> QED
      BY <3>1, <3>2
  <2> QED
    BY <2>2, <2>3, <2>5, <2>6 DEF st
<1> HIDE DEF q
<1>8. Reaches(f, u, mix(t))
  BY <1>4, <1>5, <1>6, <1>7 DEF Reaches
<1> QED
  BY <1>8 DEF Overlay

-----------------------------------------------------------------------------
(***************************************************************************)
(* The transactions of PostgreSQL.                                         *)
(***************************************************************************)

\* Only a transaction under way keeps locks; a run knows what it has run.
LEMMA RunningFacts ==
  ASSUME IInv, Engine = "postgres", NEW r \in Runs
  PROVE  /\ ~Running(r) => touched[r] = {}
         /\ Running(r) => /\ committed[r] = 0 /\ next[r] \in Nat \ {0}
                          /\ next[r] <= Len(ddl[r]) + 1
         /\ ddl[r] \in Seq(Statements) /\ Len(ddl[r]) \in Nat
  BY DEF IInv, RunInv, Before, Progress, TypeOK

\* What q sees when the others change, of the database, only what it has not written.
LEMMA SoFarElsewhere ==
  ASSUME IInv, Engine = "postgres", NEW q \in Runs, SoFar(q), db' \in Schemas,
         pc'[q] = pc[q], ddl'[q] = ddl[q], next'[q] = next[q], touched'[q] = touched[q],
         mine'[q] = mine[q], \A o \in touched[q] : db'[o] = db[o]
  PROVE  SoFar(q)'
<1> SUFFICES ASSUME Running(q)
             PROVE  /\ \A i \in 1 .. next[q] - 1 : ddl[q][i].obj \in touched[q]
                    /\ Reaches(SubSeq(ddl[q], 1, next[q] - 1), db', View(q)')
  BY DEF SoFar, Running
<1> DEFINE f == SubSeq(ddl[q], 1, next[q] - 1)
           T == touched[q]
<1>1. /\ next[q] - 1 \in Nat /\ next[q] - 1 <= Len(ddl[q]) /\ ddl[q] \in Seq(Statements)
      /\ T \in SUBSET Objects /\ db \in Schemas /\ View(q) \in Schemas
  BY RunningFacts, ViewType DEF IInv, TypeOK
<1>2. f \in Seq(Statements) /\ Len(f) = next[q] - 1 /\ \A i \in 1 .. Len(f) : f[i] = ddl[q][i]
  BY <1>1
<1>3. (\A i \in 1 .. next[q] - 1 : ddl[q][i].obj \in T) /\ Reaches(f, db, View(q))
  BY DEF SoFar
<1> HIDE DEF f
<1>4. \A i \in 1 .. Len(f) : f[i].obj \in T
  BY <1>2, <1>3
<1> DEFINE s == db
           t == View(q)
           u == db'
<1>7. /\ s \in Schemas /\ t \in Schemas /\ u \in Schemas /\ f \in Seq(Statements)
      /\ T \in SUBSET Objects /\ Reaches(f, s, t) /\ \A o \in T : u[o] = s[o]
  BY <1>1, <1>2, <1>3
<1> HIDE DEF s, t, u, T
<1>8. Reaches(f, u, Overlay(T, t, u))
  BY <1>4, <1>7, ReachesElsewhere
<1>5. Reaches(f, db', Overlay(T, View(q), db'))
  BY <1>8 DEF s, t, u
<1>6. View(q)' = Overlay(T, View(q), db')
  BY DEF View, T, Overlay
<1> QED
  BY <1>3, <1>5, <1>6 DEF f, T

\* The same when nothing of its own and nothing of the database changes.
LEMMA SoFarStays ==
  ASSUME NEW q \in Runs, SoFar(q), Running(q)' => Running(q), ddl'[q] = ddl[q],
         next'[q] = next[q], touched'[q] = touched[q], mine'[q] = mine[q], db' = db
  PROVE  SoFar(q)'
  BY DEF SoFar, View

\* A statement in r's transaction.
LEMMA LockExec ==
  ASSUME IInv, LockInv, Engine = "postgres", NEW r \in Runs, ExecPG(r)
  PROVE  Apart' /\ SoFar(r)'
<1> DEFINE st == Current(r)
           n == next[r]
<1>1. /\ Running(r) /\ More(r) /\ Legal(st, View(r)) /\ Free(r, st.obj) /\ TypeOK
  BY DEF ExecPG, IInv
<1>2. /\ n \in 1 .. Len(ddl[r]) /\ ddl[r] \in Seq(Statements) /\ st = ddl[r][n]
      /\ View(r) \in Schemas /\ st \in Statements /\ st.obj \in Objects /\ db \in Schemas
      /\ n - 1 \in Nat /\ n = (n - 1) + 1
  <2>1. n \in 1 .. Len(ddl[r]) /\ ddl[r] \in Seq(Statements) /\ n - 1 \in Nat /\ n = (n - 1) + 1
    BY <1>1, RunningFacts DEF More
  <2>2. st = ddl[r][n] /\ st \in Statements /\ View(r) \in Schemas
    BY <1>1, CurrentType, ViewType DEF Current
  <2>3. st.obj \in Objects
    BY <2>2 DEF Statements
  <2> QED
    BY <1>1, <2>1, <2>2, <2>3 DEF TypeOK
<1>3. /\ ddl' = ddl /\ db' = db /\ pc' = pc /\ next'[r] = n + 1
      /\ touched' = [touched EXCEPT ![r] = @ \cup {st.obj}]
      /\ touched'[r] = touched[r] \cup {st.obj}
      /\ mine'[r] = After(st, View(r))
  BY <1>1 DEF ExecPG, TypeOK
<1>4. Apart'
  BY <1>1, <1>3 DEF LockInv, Apart, Free, TypeOK
<1>5. View(r)' = After(st, View(r))
  <2>1. \A o \in Objects : o # st.obj => After(st, View(r))[o] = View(r)[o]
    BY <1>2, AfterElsewhere
  <2>2. \A o \in Objects : View(r)'[o] = After(st, View(r))[o]
    BY <1>3, <2>1 DEF View
  <2>3. View(r)' = [o \in Objects |-> View(r)'[o]]
    BY DEF View
  <2>4. After(st, View(r)) \in Schemas
    BY <1>2, AfterType
  <2> QED
    BY <2>2, <2>3, <2>4 DEF Schemas
<1>6. /\ \A i \in 1 .. n - 1 : ddl[r][i].obj \in touched[r]
      /\ Reaches(SubSeq(ddl[r], 1, n - 1), db, View(r))
  BY <1>1 DEF LockInv, SoFar
<1> HIDE DEF st, n
<1>7. Reaches(SubSeq(ddl[r], 1, n), db, After(st, View(r)))
  <2> DEFINE m == n - 1
             f == ddl[r]
             t == View(r)
  <2>1. /\ m \in Nat /\ m + 1 = n /\ m + 1 <= Len(f) /\ f \in Seq(Statements) /\ t \in Schemas
        /\ Reaches(SubSeq(f, 1, m), db, t) /\ Legal(f[m + 1], t) /\ db \in Schemas
    BY <1>1, <1>2, <1>6
  <2> HIDE DEF m, f, t
  <2>2. Reaches(SubSeq(f, 1, m + 1), db, After(f[m + 1], t))
    BY <2>1, ReachesMore
  <2> QED
    BY <1>2, <2>1, <2>2 DEF f, t
<1>8. \A i \in 1 .. n : ddl[r][i].obj \in touched'[r]
  <2>1. \A i \in 1 .. n : i \in 1 .. n - 1 \/ i = n
    BY <1>2
  <2> QED
    BY <1>2, <1>3, <1>6, <2>1
<1>9. (n + 1) - 1 = n
  BY <1>2
<1> QED
  BY <1>3, <1>4, <1>5, <1>7, <1>8, <1>9 DEF SoFar, n, st

\* A transaction that ends gives up its locks, with or without having changed the database.
LEMMA LockEnd ==
  ASSUME IInv, LockInv, Engine = "postgres", NEW r \in Runs, Rollback(r), pc'[r] = "done",
         \A q \in Runs \ {r} : pc'[q] = pc[q], UNCHANGED <<ddl, next>>,
         db' \in {db, View(r)}
  PROVE  LockInv'
<1>1. TypeOK /\ db \in Schemas /\ View(r) \in Schemas
  BY ViewType DEF IInv, TypeOK
<1>2. /\ touched' = [touched EXCEPT ![r] = {}] /\ touched'[r] = {}
      /\ \A q \in Runs \ {r} : touched'[q] = touched[q] /\ mine'[q] = mine[q]
  BY <1>1 DEF Rollback, TypeOK
<1>3. Apart'
  BY <1>2 DEF LockInv, Apart
<1>4. SoFar(r)'
  BY DEF SoFar, Running
<1>5. ASSUME NEW q \in Runs \ {r} PROVE SoFar(q)'
  <2>1. \A o \in touched[q] : db'[o] = db[o]
    <3>1. \A o \in touched[q] : o \in Objects /\ o \notin touched[r]
      BY <1>1 DEF LockInv, Apart, TypeOK
    <3> QED
      BY <3>1 DEF View
  <2> QED
    BY <1>1, <1>2, <2>1, SoFarElsewhere DEF LockInv
<1> QED
  BY <1>3, <1>4, <1>5 DEF LockInv

\* A step that leaves the database and the transactions alone, before or after one.
LEMMA LockIdle ==
  ASSUME IInv, LockInv, Engine = "postgres", NEW r \in Runs, db' = db, touched' = touched,
         \A q \in Runs \ {r} : pc'[q] = pc[q] /\ ddl'[q] = ddl[q] /\ next'[q] = next[q] /\ mine'[q] = mine[q],
         \/ ~Running(r)'
         \/ Running(r) /\ ddl'[r] = ddl[r] /\ next'[r] = next[r] /\ mine'[r] = mine[r]
         \/ touched[r] = {} /\ next'[r] = 1
  PROVE  LockInv'
<1>1. Apart'
  BY DEF LockInv, Apart
<1>2. ASSUME NEW q \in Runs \ {r} PROVE SoFar(q)'
  BY <1>2, SoFarStays DEF LockInv, Running
<1>3. CASE ~Running(r)'
  BY <1>1, <1>2, <1>3 DEF LockInv, SoFar
<1>4. CASE Running(r) /\ ddl'[r] = ddl[r] /\ next'[r] = next[r] /\ mine'[r] = mine[r]
  BY <1>1, <1>2, <1>4, SoFarStays DEF LockInv
<1>5. CASE touched[r] = {} /\ next'[r] = 1
  <2>1. View(r)' = db /\ db \in Schemas
    BY <1>5 DEF View, IInv, TypeOK, Schemas
  <2>2. Len(SubSeq(ddl'[r], 1, 0)) = 0
    OBVIOUS
  <2>3. Reaches(SubSeq(ddl'[r], 1, 0), db, db)
    BY <2>1, <2>2, ReachesHere
  <2>4. SoFar(r)'
    BY <1>5, <2>1, <2>3 DEF SoFar
  <2> QED
    BY <1>1, <1>2, <2>4 DEF LockInv
<1> QED
  BY <1>3, <1>4, <1>5

\* Every step keeps the transactions apart, and each true to the database.
LEMMA LockInvNext ==
  ASSUME Engine = "postgres", IInv, LockInv, [Next]_vars
  PROVE  LockInv'
<1>0. TypeOK /\ \A r \in Runs : RunInv(r)
  BY DEF IInv
<1>1. ASSUME NEW r \in Runs, Begin(r) PROVE LockInv'
  <2>1. /\ db' = db /\ touched' = touched /\ ~Running(r)'
        /\ \A q \in Runs \ {r} : pc'[q] = pc[q] /\ ddl'[q] = ddl[q] /\ next'[q] = next[q] /\ mine'[q] = mine[q]
    BY <1>0, <1>1 DEF Begin, TypeOK, Running
  <2> QED
    BY <2>1, LockIdle
<1>2. ASSUME NEW r \in Runs,
             \/ DumpPG(r) \/ (\E o \in Objects : ReadOne(r, o) \/ ReadGone(r, o))
             \/ Compare(r) \/ WritePlan(r) \/ Restore(r) \/ JudgeStmt(r) \/ JudgeEnd(r) \/ EnvError(r)
      PROVE  LockInv'
  <2>1. /\ db' = db /\ touched' = touched /\ ~Running(r)'
        /\ \A q \in Runs \ {r} : pc'[q] = pc[q] /\ ddl'[q] = ddl[q] /\ next'[q] = next[q] /\ mine'[q] = mine[q]
    BY <1>0, <1>2 DEF DumpPG, ReadOne, ReadGone, Compare, WritePlan, Restore, JudgeStmt, JudgeEnd,
       EnvError, End, TypeOK, Running
  <2> QED
    BY <2>1, LockIdle
<1>3. ASSUME NEW r \in Runs, Index(r) PROVE LockInv'
  <2>1. /\ db' = db /\ touched' = touched /\ touched[r] = {} /\ next'[r] = 1
        /\ \A q \in Runs \ {r} : pc'[q] = pc[q] /\ ddl'[q] = ddl[q] /\ next'[q] = next[q] /\ mine'[q] = mine[q]
    BY <1>0, <1>3 DEF Index, RunInv, Before, End, TypeOK, Running
  <2> QED
    BY <2>1, LockIdle
<1>4. ASSUME NEW r \in Runs, ExecPG(r) PROVE LockInv'
  <2>1. ASSUME NEW q \in Runs \ {r} PROVE SoFar(q)'
    BY <1>0, <1>4, SoFarStays DEF ExecPG, Running, LockInv, TypeOK
  <2> QED
    BY <1>4, <2>1, LockExec DEF LockInv
<1>5. ASSUME NEW r \in Runs, RefusePG(r) \/ RowsRefuse(r) \/ CommitPG(r) PROVE LockInv'
  <2>1. /\ Rollback(r) /\ pc'[r] = "done" /\ UNCHANGED <<ddl, next>> /\ db' \in {db, View(r)}
        /\ \A q \in Runs \ {r} : pc'[q] = pc[q]
    BY <1>0, <1>5 DEF RefusePG, RowsRefuse, CommitPG, Publish, Over, TypeOK
  <2> QED
    BY <2>1, LockEnd
<1>6. ASSUME NEW r \in Runs, NEW how, Cut(r, how) PROVE LockInv'
  <2>1. CASE CutRequest(r, how)
    <3>1. /\ db' = db /\ touched' = touched /\ Running(r) /\ ddl' = ddl /\ next' = next /\ mine' = mine
          /\ \A q \in Runs \ {r} : pc'[q] = pc[q]
      BY <1>0, <2>1 DEF CutRequest, Running, TypeOK
    <3> QED
      BY <3>1, LockIdle
  <2>2. CASE CutTransaction(r, how)
    <3>1. /\ Rollback(r) /\ pc'[r] = "done" /\ UNCHANGED <<ddl, next>> /\ db' \in {db, View(r)}
          /\ \A q \in Runs \ {r} : pc'[q] = pc[q]
      BY <1>0, <2>2 DEF CutTransaction, Publish, End, TypeOK
    <3> QED
      BY <3>1, LockEnd
  <2> QED
    BY <1>6, <2>1, <2>2 DEF Cut, CutMySQL
<1>7. CASE HandEdit
  <2>1. /\ UNCHANGED local /\ db' \in Schemas
        /\ \A q \in Runs : \A o \in touched[q] : db'[o] = db[o]
    BY <1>0, <1>7 DEF HandEdit, TypeOK, Schemas
  <2>2. ASSUME NEW q \in Runs PROVE SoFar(q)'
    BY <2>1, SoFarElsewhere DEF LockInv, local
  <2>3. Apart'
    BY <2>1 DEF LockInv, Apart, local
  <2> QED
    BY <2>2, <2>3 DEF LockInv
<1>8. CASE EditCode \/ EditFile \/ UNCHANGED vars
  BY <1>8 DEF EditCode, EditFile, vars, local, LockInv, Apart, SoFar, Running, View
<1>9. ASSUME NEW r \in Runs, Step(r) PROVE LockInv'
  BY <1>2, <1>3, <1>4, <1>5, <1>9 DEF Step, ListMySQL, ExecMySQL, RefuseMySQL, FinishMySQL
<1> QED
  BY <1>1, <1>2, <1>5, <1>6, <1>7, <1>8, <1>9 DEF Next, Fault, LoseServer, Crash

-----------------------------------------------------------------------------
(***************************************************************************)
(* On PostgreSQL the commands implement AtomicApply.                       *)
(***************************************************************************)

\* the runs whose file is in the database
Applied == {r \in Runs : ddl[r] # <<>> /\ committed[r] = Len(ddl[r])}

\* A step that changes neither the database nor any file nor what is committed of it is none of
\* the abstract specification's.
LEMMA AtomicStutter ==
  ASSUME db' = db, ddl' = ddl, committed' = committed
  PROVE  UNCHANGED Atomic!avars
  BY DEF Atomic!avars

\* A command that takes up a file has none of it in the database.
LEMMA AtomicTake ==
  ASSUME TypeOK, NEW r \in Runs, Begin(r)
  PROVE  Atomic!Take(r)
<1>1. TypeOK'
  BY TypeBegin
<1>2. /\ db' = db /\ committed' = [committed EXCEPT ![r] = 0]
      /\ \A q \in Runs \ {r} : ddl'[q] = ddl[q]
  BY DEF Begin, TypeOK
<1>3. ddl' \in [Runs -> Seq(Statements)]
  BY <1>1 DEF TypeOK
<1>4. ddl'[r] = <<>> \/ committed'[r] # Len(ddl'[r])
  <2>1. ddl'[r] \in Seq(Statements) /\ committed'[r] = 0
    BY <1>2, <1>3 DEF TypeOK
  <2> QED
    BY <2>1
<1>5. Applied' = Applied \ {r}
  BY <1>2, <1>4 DEF Applied, TypeOK
<1>6. Atomic!Statements = Statements
  BY DEF Atomic!Statements, Atomic!Kinds, Statements, Kinds
<1> QED
  BY <1>2, <1>3, <1>5, <1>6 DEF Atomic!Take, Applied

\* A commit puts the whole file into the database as it stands.
LEMMA AtomicCommit ==
  ASSUME IInv, LockInv, Engine = "postgres", NEW r \in Runs, Running(r), ~More(r), Publish(r),
         ddl' = ddl
  PROVE  Atomic!Apply(r) \/ UNCHANGED Atomic!avars
<1>1. /\ committed[r] = 0 /\ next[r] - 1 = Len(ddl[r]) /\ ddl[r] \in Seq(Statements) /\ TypeOK
      /\ Len(ddl[r]) \in Nat /\ db \in Schemas
  BY RunningFacts DEF More, IInv, TypeOK
<1>2. db' = View(r) /\ committed' = [committed EXCEPT ![r] = Len(ddl[r])]
  BY DEF Publish
<1>3. Reaches(ddl[r], db, View(r))
  <2>1. Reaches(SubSeq(ddl[r], 1, next[r] - 1), db, View(r))
    BY DEF LockInv, SoFar
  <2>2. SubSeq(ddl[r], 1, Len(ddl[r])) = ddl[r]
    BY <1>1
  <2> QED
    BY <1>1, <2>1, <2>2
<1>4. CASE ddl[r] = <<>>
  <2>1. Len(ddl[r]) = 0
    BY <1>4
  <2>2. db' = db
    BY <1>2, <1>3, <2>1, ReachesOnlyHere
  <2>3. committed' = committed
    BY <1>1, <1>2, <2>1 DEF TypeOK
  <2> QED
    BY <2>2, <2>3, AtomicStutter
<1>5. CASE ddl[r] # <<>>
  <2>1. committed[r] # Len(ddl[r])
    BY <1>1, <1>5
  <2>2. r \notin Applied /\ Applied' = Applied \cup {r}
    BY <1>1, <1>2, <1>5, <2>1 DEF Applied, TypeOK
  <2>3. Reaches(ddl[r], db, db')
    BY <1>2, <1>3
  <2>4. Atomic!Reaches(ddl[r], db, db')
    BY <2>3 DEF Atomic!Reaches, Reaches, Atomic!Schemas, Schemas, Atomic!Legal, Legal,
       Atomic!After, After
  <2> QED
    BY <2>2, <2>4 DEF Atomic!Apply, Applied
<1> QED
  BY <1>4, <1>5

\* Every step of the commands, of the people around them and of the faults is a step of
\* AtomicApply, or none.
LEMMA AtomicStep ==
  ASSUME Engine = "postgres", IInv, LockInv, [Next]_vars
  PROVE  [Atomic!ANext]_(Atomic!avars)
<1>0. TypeOK
  BY DEF IInv
<1>1. ASSUME NEW r \in Runs, Begin(r) PROVE Atomic!ANext
  BY <1>0, <1>1, AtomicTake DEF Atomic!ANext
<1>2. ASSUME NEW r \in Runs,
             \/ DumpPG(r) \/ (\E o \in Objects : ReadOne(r, o) \/ ReadGone(r, o))
             \/ Compare(r) \/ WritePlan(r) \/ Restore(r) \/ JudgeStmt(r) \/ JudgeEnd(r)
             \/ Index(r) \/ EnvError(r) \/ ExecPG(r) \/ RefusePG(r) \/ RowsRefuse(r)
      PROVE  UNCHANGED Atomic!avars
  BY <1>2, AtomicStutter DEF DumpPG, ReadOne, ReadGone, Compare, WritePlan, Restore, JudgeStmt,
     JudgeEnd, Index, EnvError, ExecPG, RefusePG, RowsRefuse
<1>3. ASSUME NEW r \in Runs, CommitPG(r) PROVE [Atomic!ANext]_(Atomic!avars)
  BY <1>3, AtomicCommit DEF CommitPG, Atomic!ANext
<1>4. ASSUME NEW r \in Runs, NEW how, Cut(r, how) PROVE [Atomic!ANext]_(Atomic!avars)
  <2>1. CASE CutRequest(r, how)
    BY <2>1, AtomicStutter DEF CutRequest
  <2>2. CASE CutTransaction(r, how) /\ UNCHANGED <<db, committed, fresh>>
    BY <2>2, AtomicStutter DEF CutTransaction
  <2>3. CASE CutTransaction(r, how) /\ ~More(r) /\ Publish(r)
    BY <2>3, AtomicCommit DEF CutTransaction, Running, Atomic!ANext
  <2> QED
    BY <1>4, <2>1, <2>2, <2>3 DEF Cut, CutTransaction, CutMySQL
<1>5. CASE HandEdit
  <2>1. /\ \E o \in Objects, v \in Versions \cup {None} : db' = [db EXCEPT ![o] = v]
        /\ ddl' = ddl /\ committed' = committed
    BY <1>5 DEF HandEdit, local
  <2> QED
    BY <2>1 DEF Atomic!ANext, Atomic!Edit
<1>6. CASE EditCode \/ EditFile \/ UNCHANGED vars
  BY <1>6, AtomicStutter DEF EditCode, EditFile, local, vars
<1>7. ASSUME NEW r \in Runs, Step(r) PROVE [Atomic!ANext]_(Atomic!avars)
  BY <1>2, <1>3, <1>7 DEF Step, ListMySQL, ExecMySQL, RefuseMySQL, FinishMySQL
<1> QED
  BY <1>1, <1>2, <1>4, <1>5, <1>6, <1>7 DEF Next, Fault, LoseServer, Crash

\* At first nothing is locked and no file taken up.
LEMMA AtomicInit ==
  ASSUME Init
  PROVE  LockInv /\ Atomic!AInit
<1>1. LockInv
  BY DEF Init, LockInv, Apart, SoFar, Running
<1>2. db \in Schemas
  BY MigrateAssumption DEF Init
<1>3. ddl = [r \in Runs |-> <<>>]
  BY DEF Init
<1>4. {r \in Runs : ddl[r] # <<>> /\ committed[r] = Len(ddl[r])} = {}
  BY <1>3
<1> QED
  BY <1>1, <1>2, <1>3, <1>4 DEF Atomic!AInit, Atomic!Schemas, Schemas

\* On PostgreSQL the commands implement AtomicApply for any number of operators, files and
\* objects: whole files, or nothing of them, on the database as it stands, whatever the
\* interleaving, the locks, the refusals and the lost connections (runApply).
THEOREM AppliesAtomically ==
  ASSUME Engine = "postgres"
  PROVE  Spec => AtomicSpec
<1>1. Init => LockInv /\ Atomic!AInit
  BY AtomicInit
<1>2. IInv /\ LockInv /\ [Next]_vars => LockInv'
  BY LockInvNext
<1>3. IInv /\ LockInv /\ [Next]_vars => [Atomic!ANext]_(Atomic!avars)
  BY AtomicStep
<1> QED
  BY <1>1, <1>2, <1>3, Invariance, PTL DEF Spec, AtomicSpec, Atomic!ASpec
=============================================================================
