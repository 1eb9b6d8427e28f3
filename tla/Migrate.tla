------------------------------ MODULE Migrate ------------------------------
(***************************************************************************)
(* The migration commands (sqlshape diff / apply / verify-schema) run by   *)
(* several operators against one database.  A command reads the database   *)
(* piece by piece, judges the DDL file on a scratch database, looks at the *)
(* Go packages that consume the schema, and only then runs the file on the *)
(* live database.  Nothing is locked between those steps: another command, *)
(* a statement typed by hand or an edit of the Go code may come between.   *)
(***************************************************************************)
EXTENDS Ddl

CONSTANTS
  Runs,        \* command processes; a process runs one command after another
  Seeds,       \* the objects that are rows of seeded tables (PostgreSQL)
  Engine,      \* "postgres" or "mysql"
  Starts,      \* the schemas the database may begin with
  Targets,     \* the schema.sql texts the operators work from
  Flags,       \* the flags they pass to apply
  Consumers,   \* the objects the Go packages may depend on at first
  Files,       \* the DDL files the operators write by hand
  Undroppable, \* objects no `-- @migrate drop` declares
  MaxCommands, \* bound: commands begun in all
  MaxFaults,   \* bound: refusals by live rows, lost connections, crashes
  MaxEdits     \* bound: statements typed by hand, edits of the Go code or the file

Options == [packages : BOOLEAN, force : BOOLEAN, dryRun : BOOLEAN, noTx : BOOLEAN]

ASSUME MigrateAssumption ==
  /\ Engine \in {"postgres", "mysql"}
  /\ Seeds \subseteq Objects
  /\ Undroppable \subseteq Objects
  /\ Starts \subseteq Schemas /\ Targets \subseteq Schemas
  /\ Flags \subseteq Options
  /\ Consumers \subseteq SUBSET Objects
  /\ \A f \in Files : f \in Seq(Statements)
  /\ MaxCommands \in Nat /\ MaxFaults \in Nat /\ MaxEdits \in Nat

NoOptions == [packages |-> FALSE, force |-> FALSE, dryRun |-> FALSE, noTx |-> FALSE]
Places == {"idle", "list", "load", "judge", "index", "run", "orphan", "done"}
Outcomes == {"none", "applied", "dry", "refused", "failed", "lost", "error",
             "crashed", "planned", "undeclared", "matches", "differs"}

VARIABLES
  db,        \* the live database: its committed schema
  uses,      \* the objects the statements of the Go packages depend on
  up,        \* the DDL file on disk
  pc,        \* where each command is
  cmd,       \* the command each process runs
  opt,       \* its flags
  tgt,       \* its target: schema.sql in canonical form
  ddl,       \* the DDL file as it read it
  snap,      \* what it has read of the database
  unread,    \* what it has still to read
  judged,    \* the states its scratch database went through, statement by statement
  next,      \* the statement of ddl it runs next on the live database
  touched,   \* objects its open transaction has written and keeps locked
  mine,      \* what that transaction wrote there
  outcome,   \* how the command ended
  committed, \* how many statements of its file are in the database because of it
  fresh,     \* nobody else changed the database or the code since it began (history)
  commands, faults, edits   \* the bounded counters

local == <<pc, cmd, opt, tgt, ddl, snap, unread, judged, next, touched, mine,
           outcome, committed>>
vars == <<db, uses, up, pc, cmd, opt, tgt, ddl, snap, unread, judged, next,
          touched, mine, outcome, committed, fresh, commands, faults, edits>>

Init ==
  /\ db \in Starts
  /\ uses \in Consumers
  /\ up \in Files
  /\ pc = [r \in Runs |-> "idle"]
  /\ cmd = [r \in Runs |-> "none"]
  /\ opt = [r \in Runs |-> NoOptions]
  /\ tgt = [r \in Runs |-> Absent]
  /\ ddl = [r \in Runs |-> <<>>]
  /\ snap = [r \in Runs |-> Absent]
  /\ unread = [r \in Runs |-> {}]
  /\ judged = [r \in Runs |-> <<>>]
  /\ next = [r \in Runs |-> 1]
  /\ touched = [r \in Runs |-> {}]
  /\ mine = [r \in Runs |-> Absent]
  /\ outcome = [r \in Runs |-> "none"]
  /\ committed = [r \in Runs |-> 0]
  /\ fresh = [r \in Runs |-> TRUE]
  /\ commands = 0 /\ faults = 0 /\ edits = 0

-----------------------------------------------------------------------------
(***************************************************************************)
(* Reading the database and judging the file.                              *)
(***************************************************************************)

\* others know nothing of it: whoever is at work, or has finished, is not fresh any more
Disturb(keep) == fresh' = [q \in Runs |-> fresh[q] /\ q \in keep]

End(r, how) ==
  /\ pc' = [pc EXCEPT ![r] = "done"]
  /\ outcome' = [outcome EXCEPT ![r] = how]

\* the command line is parsed, the DDL file and schema.sql are read
Begin(r) ==
  /\ pc[r] \in {"idle", "done"}
  /\ commands < MaxCommands
  /\ commands' = commands + 1
  /\ \/ \E o \in Flags :
          /\ cmd' = [cmd EXCEPT ![r] = "apply"]
          /\ opt' = [opt EXCEPT ![r] = o]
          /\ ddl' = [ddl EXCEPT ![r] = up]
     \/ \E c \in {"diff", "verify"} :
          /\ cmd' = [cmd EXCEPT ![r] = c]
          /\ opt' = [opt EXCEPT ![r] = NoOptions]
          /\ ddl' = [ddl EXCEPT ![r] = <<>>]
  /\ \E s \in Targets : tgt' = [tgt EXCEPT ![r] = s]
  /\ pc' = [pc EXCEPT ![r] = "list"]
  /\ snap' = [snap EXCEPT ![r] = Absent]
  /\ unread' = [unread EXCEPT ![r] = {}]
  /\ judged' = [judged EXCEPT ![r] = <<>>]
  /\ next' = [next EXCEPT ![r] = 1]
  /\ mine' = [mine EXCEPT ![r] = Absent]
  /\ outcome' = [outcome EXCEPT ![r] = "none"]
  /\ committed' = [committed EXCEPT ![r] = 0]
  /\ fresh' = [fresh EXCEPT ![r] = TRUE]
  /\ UNCHANGED <<db, uses, up, touched, faults, edits>>

\* the schema as pg_dump reads it, in one snapshot, without the rows of the seeded tables
Dumped == [o \in Objects |-> IF o \in Seeds THEN None ELSE db[o]]

\* variant: nobody asks for the seeded rows afterwards
DumpPGNoSeeds(r) ==
  /\ Engine = "postgres" /\ pc[r] = "list"
  /\ pc' = [pc EXCEPT ![r] = "load"]
  /\ snap' = [snap EXCEPT ![r] = Dumped]
  /\ UNCHANGED <<db, uses, up, cmd, opt, tgt, ddl, unread, judged, next, touched, mine, outcome,
                 committed, fresh, commands, faults, edits>>

\* pg_dump; the rows of the seeded tables are left for queries of their own
DumpPG(r) ==
  /\ Engine = "postgres" /\ pc[r] = "list"
  /\ pc' = [pc EXCEPT ![r] = "load"]
  /\ snap' = [snap EXCEPT ![r] = Dumped]
  /\ unread' = [unread EXCEPT ![r] = Seeds]
  /\ UNCHANGED <<db, uses, up, cmd, opt, tgt, ddl, judged, next, touched, mine, outcome,
                 committed, fresh, commands, faults, edits>>

\* MySQL lists the objects; each is asked for afterwards
ListMySQL(r) ==
  /\ Engine = "mysql" /\ pc[r] = "list"
  /\ pc' = [pc EXCEPT ![r] = "load"]
  /\ unread' = [unread EXCEPT ![r] = {o \in Objects : db[o] # None}]
  /\ UNCHANGED <<db, uses, up, cmd, opt, tgt, ddl, snap, judged, next, touched, mine, outcome,
                 committed, fresh, commands, faults, edits>>

\* the rows of a seeded table, or SHOW CREATE of an object listed before
ReadOne(r, o) ==
  /\ pc[r] = "load"
  /\ o \in unread[r]
  /\ Engine = "postgres" \/ db[o] # None
  /\ snap' = [snap EXCEPT ![r][o] = db[o]]
  /\ unread' = [unread EXCEPT ![r] = @ \ {o}]
  /\ UNCHANGED <<db, uses, up, pc, cmd, opt, tgt, ddl, judged, next, touched, mine, outcome,
                 committed, fresh, commands, faults, edits>>

\* the object went between the listing and its SHOW CREATE
ReadGone(r, o) ==
  /\ pc[r] = "load"
  /\ o \in unread[r]
  /\ Engine = "mysql" /\ db[o] = None
  /\ End(r, "error")
  /\ UNCHANGED <<db, uses, up, cmd, opt, tgt, ddl, snap, unread, judged, next, touched, mine,
                 committed, fresh, commands, faults, edits>>

\* verify-schema lists the differences; exit 1 when there is one
Compare(r) ==
  /\ pc[r] = "load" /\ unread[r] = {} /\ cmd[r] = "verify"
  /\ End(r, IF Differs(snap[r], tgt[r]) THEN "differs" ELSE "matches")
  /\ UNCHANGED <<db, uses, up, cmd, opt, tgt, ddl, snap, unread, judged, next, touched, mine,
                 committed, fresh, commands, faults, edits>>

\* diff prints the plan, which becomes the DDL file; an undeclared drop is in it all the same
WritePlan(r) ==
  /\ pc[r] = "load" /\ unread[r] = {} /\ cmd[r] = "diff"
  /\ up' = Plan(snap[r], tgt[r])
  /\ End(r, IF \E o \in Undroppable : snap[r][o] # None /\ tgt[r][o] = None
              THEN "undeclared" ELSE "planned")
  /\ UNCHANGED <<db, uses, cmd, opt, tgt, ddl, snap, unread, judged, next, touched, mine,
                 committed, fresh, commands, faults, edits>>

\* a scratch database is brought to the state that was read
Restore(r) ==
  /\ pc[r] = "load" /\ unread[r] = {} /\ cmd[r] = "apply"
  /\ pc' = [pc EXCEPT ![r] = "judge"]
  /\ judged' = [judged EXCEPT ![r] = <<snap[r]>>]
  /\ UNCHANGED <<db, uses, up, cmd, opt, tgt, ddl, snap, unread, next, touched, mine, outcome,
                 committed, fresh, commands, faults, edits>>

\* the scratch server runs the next statement of the file, on tables without rows
JudgeStmt(r) ==
  LET n == Len(judged[r]) IN
  /\ pc[r] = "judge" /\ n <= Len(ddl[r])
  /\ IF Legal(ddl[r][n], judged[r][n])
       THEN /\ judged' = [judged EXCEPT ![r] = Append(@, After(ddl[r][n], judged[r][n]))]
            /\ UNCHANGED <<pc, outcome>>
       ELSE End(r, "refused") /\ UNCHANGED judged
  /\ UNCHANGED <<db, uses, up, cmd, opt, tgt, ddl, snap, unread, next, touched, mine,
                 committed, fresh, commands, faults, edits>>

\* variant: that the file runs is enough
JudgeEndRuns(r) ==
  LET n == Len(judged[r]) IN
  /\ pc[r] = "judge" /\ n = Len(ddl[r]) + 1
  /\ pc' = [pc EXCEPT ![r] = "index"]
  /\ UNCHANGED <<db, uses, up, cmd, opt, tgt, ddl, snap, unread, judged, next, touched, mine,
                 outcome, committed, fresh, commands, faults, edits>>

\* what the scratch database reads back as is compared with the target
JudgeEnd(r) ==
  LET n == Len(judged[r]) IN
  /\ pc[r] = "judge" /\ n = Len(ddl[r]) + 1
  /\ IF Differs(judged[r][n], tgt[r])
       THEN End(r, "refused")
       ELSE pc' = [pc EXCEPT ![r] = "index"] /\ UNCHANGED outcome
  /\ UNCHANGED <<db, uses, up, cmd, opt, tgt, ddl, snap, unread, judged, next, touched, mine,
                 committed, fresh, commands, faults, edits>>

\* -packages: the statements of the Go packages that depend on what the file takes away
Impacted(r) == opt[r].packages /\ Impacts(snap[r], tgt[r], uses) # {}

\* without -force they stop the command; else -dry-run does; else the file goes to the server
Index(r) ==
  /\ pc[r] = "index"
  /\ \/ Impacted(r) /\ ~opt[r].force /\ End(r, "refused")
     \/ (Impacted(r) => opt[r].force) /\ opt[r].dryRun /\ End(r, "dry")
     \/ /\ (Impacted(r) => opt[r].force) /\ ~opt[r].dryRun
        /\ pc' = [pc EXCEPT ![r] = "run"] /\ UNCHANGED outcome
  /\ UNCHANGED <<db, uses, up, cmd, opt, tgt, ddl, snap, unread, judged, next, touched, mine,
                 committed, fresh, commands, faults, edits>>

\* a file that cannot be read, packages that do not load, a server that cannot be reached, at the
\* beginning of the live run too.  Whatever goes wrong on the scratch server is reported as a refusal
EnvError(r) ==
  /\ \/ pc[r] \in {"list", "load", "judge"}
     \/ pc[r] = "index" /\ opt[r].packages
     \/ pc[r] = "run" /\ next[r] = 1
  /\ faults < MaxFaults /\ faults' = faults + 1
  /\ End(r, IF pc[r] = "judge" THEN "refused" ELSE "error")
  /\ UNCHANGED <<db, uses, up, cmd, opt, tgt, ddl, snap, unread, judged, next, touched, mine,
                 committed, fresh, commands, edits>>

-----------------------------------------------------------------------------
(***************************************************************************)
(* Running the file.  PostgreSQL: inside apply's transaction, or (with     *)
(* -no-transaction) as one request, which the server makes a transaction   *)
(* of its own and finishes without the client.  MySQL: one statement at a  *)
(* time, each committed by itself.                                         *)
(***************************************************************************)
Current(r) == ddl[r][next[r]]
More(r) == next[r] <= Len(ddl[r])
Running(r) == pc[r] \in {"run", "orphan"}

\* the schema as r's transaction sees it
View(r) == [o \in Objects |-> IF o \in touched[r] THEN mine[r][o] ELSE db[o]]

\* variant: no statement waits for another transaction
FreeAlways(r, o) == TRUE

Free(r, o) == \A q \in Runs \ {r} : o \notin touched[q]

\* the next statement succeeds inside r's transaction; it keeps the object's lock
ExecPG(r) ==
  /\ Engine = "postgres" /\ Running(r) /\ More(r)
  /\ Free(r, Current(r).obj)
  /\ Legal(Current(r), View(r))
  /\ touched' = [touched EXCEPT ![r] = @ \cup {Current(r).obj}]
  /\ mine' = [mine EXCEPT ![r] = After(Current(r), View(r))]
  /\ next' = [next EXCEPT ![r] = @ + 1]
  /\ UNCHANGED <<db, uses, up, pc, cmd, opt, tgt, ddl, snap, unread, judged, outcome,
                 committed, fresh, commands, faults, edits>>

\* r is over; a command that lost its server earlier has reported that already
Over(r, how) ==
  /\ pc' = [pc EXCEPT ![r] = "done"]
  /\ outcome' = [outcome EXCEPT ![r] = IF pc[r] = "orphan" THEN @ ELSE how]

\* the server takes back what the transaction did
Rollback(r) == touched' = [touched EXCEPT ![r] = {}] /\ mine' = [mine EXCEPT ![r] = Absent]

\* variant: nobody looks for deadlocks
DeadlockedNever(r) == FALSE

\* r waits for a lock in a circle of transactions that do
Deadlocked(r) ==
  \E S \in SUBSET Runs :
    /\ r \in S
    /\ \A q \in S : Running(q) /\ More(q)
         /\ \E p \in S \ {q} : Current(q).obj \in touched[p]

\* the schema refuses the statement, or the server breaks a deadlock
RefusePG(r) ==
  /\ Engine = "postgres" /\ Running(r) /\ More(r)
  /\ ~Legal(Current(r), View(r)) \/ Deadlocked(r)
  /\ Rollback(r)
  /\ Over(r, "failed")
  /\ UNCHANGED <<db, uses, up, cmd, opt, tgt, ddl, snap, unread, judged, next, committed,
                 fresh, commands, faults, edits>>

\* variant: only what the transaction wrote is left
PublishWritten(r) ==
  /\ db' = [o \in touched[r] |-> mine[r][o]]
  /\ Rollback(r)
  /\ committed' = [committed EXCEPT ![r] = Len(ddl[r])]
  /\ Disturb({r})

Publish(r) ==
  /\ db' = View(r)
  /\ Rollback(r)
  /\ committed' = [committed EXCEPT ![r] = Len(ddl[r])]
  /\ Disturb({r})

CommitPG(r) ==
  /\ Engine = "postgres" /\ Running(r) /\ ~More(r)
  /\ Publish(r)
  /\ Over(r, "applied")
  /\ UNCHANGED <<uses, up, cmd, opt, tgt, ddl, snap, unread, judged, next, commands, faults,
                 edits>>

\* the server runs one statement on MySQL: when it succeeds it is committed
DoMySQL(r) ==
  /\ db' = After(Current(r), db)
  /\ committed' = [committed EXCEPT ![r] = @ + 1]
  /\ Disturb({r})

ExecMySQL(r) ==
  /\ Engine = "mysql" /\ pc[r] = "run" /\ More(r)
  /\ Legal(Current(r), db)
  /\ DoMySQL(r)
  /\ next' = [next EXCEPT ![r] = @ + 1]
  /\ UNCHANGED <<uses, up, pc, cmd, opt, tgt, ddl, snap, unread, judged, touched, mine,
                 outcome, commands, faults, edits>>

\* variant: the number reported is the next statement's
RefuseMySQLNext(r) ==
  /\ Engine = "mysql" /\ pc[r] = "run" /\ More(r)
  /\ ~Legal(Current(r), db)
  /\ End(r, "failed")
  /\ next' = [next EXCEPT ![r] = @ + 1]
  /\ UNCHANGED <<db, uses, up, cmd, opt, tgt, ddl, snap, unread, judged, touched, mine,
                 committed, fresh, commands, faults, edits>>

RefuseMySQL(r) ==
  /\ Engine = "mysql" /\ pc[r] = "run" /\ More(r)
  /\ ~Legal(Current(r), db)
  /\ End(r, "failed")
  /\ UNCHANGED <<db, uses, up, cmd, opt, tgt, ddl, snap, unread, judged, next, touched, mine,
                 committed, fresh, commands, faults, edits>>

FinishMySQL(r) ==
  /\ Engine = "mysql" /\ pc[r] = "run" /\ ~More(r)
  /\ End(r, "applied")
  /\ UNCHANGED <<db, uses, up, cmd, opt, tgt, ddl, snap, unread, judged, next, touched, mine,
                 committed, fresh, commands, faults, edits>>

\* variant: what ran before the refusal is kept
RowsRefuseKeeps(r) ==
  /\ Running(r) /\ More(r)
  /\ faults < MaxFaults /\ faults' = faults + 1
  /\ db' = View(r)
  /\ committed' = [committed EXCEPT ![r] = next[r] - 1]
  /\ Rollback(r)
  /\ Over(r, "failed")
  /\ UNCHANGED <<uses, up, cmd, opt, tgt, ddl, snap, unread, judged, next, fresh, commands,
                 edits>>

\* variant: the statement is skipped and the rest runs
RowsRefuseSkips(r) ==
  /\ Running(r) /\ More(r)
  /\ faults < MaxFaults /\ faults' = faults + 1
  /\ next' = [next EXCEPT ![r] = @ + 1]
  /\ UNCHANGED <<db, uses, up, pc, cmd, opt, tgt, ddl, snap, unread, judged, touched, mine,
                 outcome, committed, fresh, commands, edits>>

\* the rows refuse what the scratch tables, which have none, let pass
RowsRefuse(r) ==
  /\ Running(r) /\ More(r)
  /\ faults < MaxFaults /\ faults' = faults + 1
  /\ Rollback(r)
  /\ Over(r, "failed")
  /\ UNCHANGED <<db, uses, up, cmd, opt, tgt, ddl, snap, unread, judged, next, committed,
                 fresh, commands, edits>>

\* the connection, or the command itself, is lost while the file runs.  A request on its own
\* (-no-transaction) the server carries through
CutRequest(r, how) ==
  /\ Engine = "postgres" /\ opt[r].noTx /\ pc[r] = "run"
  /\ faults < MaxFaults /\ faults' = faults + 1
  /\ outcome' = [outcome EXCEPT ![r] = how]
  /\ pc' = [pc EXCEPT ![r] = "orphan"]
  /\ UNCHANGED <<db, uses, up, cmd, opt, tgt, ddl, snap, unread, judged, next, touched, mine,
                 committed, fresh, commands, edits>>

\* apply's own transaction it rolls back, unless the COMMIT had reached it
CutTransaction(r, how) ==
  /\ Engine = "postgres" /\ ~opt[r].noTx /\ pc[r] = "run"
  /\ faults < MaxFaults /\ faults' = faults + 1
  /\ End(r, how)
  /\ \/ Rollback(r) /\ UNCHANGED <<db, committed, fresh>>
     \/ ~More(r) /\ Publish(r)
  /\ UNCHANGED <<uses, up, cmd, opt, tgt, ddl, snap, unread, judged, next, commands, edits>>

\* on MySQL the statement under way was executed, or it was not.  A lost connection is an error of
\* that statement; the command has not gone on to the next.  With nothing under way it is not noticed
CutMySQL(r, how) ==
  /\ Engine = "mysql" /\ pc[r] = "run"
  /\ More(r) \/ how = "crashed"
  /\ faults < MaxFaults /\ faults' = faults + 1
  /\ End(r, how)
  /\ \/ UNCHANGED <<db, committed, fresh>>
     \/ More(r) /\ Legal(Current(r), db) /\ DoMySQL(r)
  /\ UNCHANGED <<uses, up, cmd, opt, tgt, ddl, snap, unread, judged, next, touched, mine, commands,
                 edits>>

Cut(r, how) == CutRequest(r, how) \/ CutTransaction(r, how) \/ CutMySQL(r, how)
LoseServer(r) == Cut(r, "lost")
Crash(r) == Cut(r, "crashed")

\* somebody types a statement on the live database
HandEdit ==
  /\ edits < MaxEdits /\ edits' = edits + 1
  /\ \E o \in Objects, v \in Versions \cup {None} :
       /\ v # db[o]
       /\ \A q \in Runs : o \notin touched[q]
       /\ db' = [db EXCEPT ![o] = v]
  /\ Disturb({})
  /\ UNCHANGED <<uses, up, local, commands, faults>>

\* the Go code starts, or stops, to depend on an object
EditCode ==
  /\ edits < MaxEdits /\ edits' = edits + 1
  /\ \E o \in Objects : uses' = (uses \ {o}) \cup ({o} \ uses)
  /\ Disturb({})
  /\ UNCHANGED <<db, up, local, commands, faults>>

\* somebody writes the DDL file
EditFile ==
  /\ edits < MaxEdits /\ edits' = edits + 1
  /\ up' \in Files \ {up}
  /\ UNCHANGED <<db, uses, local, fresh, commands, faults>>

Step(r) ==
  \/ DumpPG(r) \/ ListMySQL(r)
  \/ \E o \in Objects : ReadOne(r, o) \/ ReadGone(r, o)
  \/ Compare(r) \/ WritePlan(r) \/ Restore(r) \/ JudgeStmt(r) \/ JudgeEnd(r) \/ Index(r)
  \/ ExecPG(r) \/ RefusePG(r) \/ CommitPG(r)
  \/ ExecMySQL(r) \/ RefuseMySQL(r) \/ FinishMySQL(r)

Fault(r) == EnvError(r) \/ RowsRefuse(r) \/ LoseServer(r) \/ Crash(r)

Next ==
  \/ \E r \in Runs : Begin(r) \/ Step(r) \/ Fault(r)
  \/ HandEdit \/ EditCode \/ EditFile

Spec == Init /\ [][Next]_vars
\* a command that was begun, and the servers it talks to, keep working
FairSpec == Spec /\ \A r \in Runs : WF_vars(Step(r))
-----------------------------------------------------------------------------
(***************************************************************************)
(* Properties.                                                             *)
(***************************************************************************)

\* Every variable keeps its type: the commands of cli.go and their local state.
TypeOK ==
  /\ db \in Schemas
  /\ uses \subseteq Objects
  /\ up \in Seq(Statements)
  /\ pc \in [Runs -> Places]
  /\ cmd \in [Runs -> {"none", "apply", "diff", "verify"}]
  /\ opt \in [Runs -> Options]
  /\ tgt \in [Runs -> Schemas]
  /\ ddl \in [Runs -> Seq(Statements)]
  /\ snap \in [Runs -> Schemas]
  /\ unread \in [Runs -> SUBSET Objects]
  /\ judged \in [Runs -> Seq(Schemas)]
  /\ next \in [Runs -> Nat \ {0}]
  /\ touched \in [Runs -> SUBSET Objects]
  /\ mine \in [Runs -> Schemas]
  /\ outcome \in [Runs -> Outcomes]
  /\ committed \in [Runs -> Nat]
  /\ fresh \in [Runs -> BOOLEAN]
  /\ commands \in Nat /\ faults \in Nat /\ edits \in Nat

\* An apply nobody else disturbs leaves the live database, wherever and however it ends, in
\* the very state its scratch database had after the statements that were executed: what was
\* judged is what runs (runApply's Verify before Exec, runApplyMySQL's statement loop).
AsJudged ==
  \A r \in Runs :
    fresh[r] /\ judged[r] # <<>> => db = judged[r][committed[r] + 1]

\* "statement next of n failed, the ones before it are applied": mysql.go says so of every error of
\* a statement, the server's refusal and a connection that was lost alike
SaysFailed(r) == Engine = "mysql" /\ outcome[r] \in {"failed", "lost"}

\* What the exit code and the message say of an apply, against what happened.  Refused, dry, an
\* error before the run: nothing of the file is in the database; applied: all of it.  Failed on
\* PostgreSQL, and "apply (rolled back)" where the connection is lost before COMMIT: nothing.  Failed
\* on MySQL: the statements before the one named are in the database and none after it; that one
\* itself is only if the connection was lost, not if the server refused it.
ReportsWhatRan ==
  \A r \in Runs :
    /\ outcome[r] \in {"refused", "dry", "error"} => committed[r] = 0
    /\ outcome[r] = "applied" => committed[r] = Len(ddl[r])
    /\ Engine = "postgres" =>
         /\ committed[r] \in {0, Len(ddl[r])}
         /\ outcome[r] = "failed" => committed[r] = 0
         /\ outcome[r] = "lost" /\ ~opt[r].noTx /\ More(r) => committed[r] = 0
    /\ SaysFailed(r) =>
         committed[r] \in {next[r] - 1} \cup (IF outcome[r] = "lost" THEN {next[r]} ELSE {})

\* mysql.go's message by the letter, "statement %d of %d failed, the %d before it are applied", and
\* docs/migrations.md: apply says "how many before it are applied".  Violated when the answer of a
\* statement that was executed is lost: it is applied as well, and counted as failed.
SaysWhatRan == \A r \in Runs : SaysFailed(r) => committed[r] = next[r] - 1

\* "applied: the database now matches": so it does, unless somebody else came in between.
AppliedIsTarget ==
  \A r \in Runs : fresh[r] /\ outcome[r] = "applied" => db = tgt[r]

\* Without -force, an undisturbed apply that looked at the packages takes away or retypes
\* nothing that their statements depend on, whatever the file does on its way.
ConsumersKept ==
  \A r \in Runs :
    fresh[r] /\ outcome[r] = "applied" /\ opt[r].packages /\ ~opt[r].force =>
      \A o \in uses : snap[r][o] # None =>
        db[o] # None /\ TypeOf[db[o]] = TypeOf[snap[r][o]]

\* the scratch server refuses the file at the statement it has come to, or its end at the end
Verdict(r) ==
  LET n == Len(judged[r]) IN
  IF n <= Len(ddl[r]) THEN ~Legal(ddl[r][n], judged[r][n]) ELSE Differs(judged[r][n], tgt[r])

\* The file diff printed for the state an apply reads is never refused by apply's own check, at
\* none of its statements, not even from the states a half-run file leaves on MySQL ("`sqlshape
\* diff` from here gives the rest").
PlanAccepted ==
  \A r \in Runs :
    judged[r] # <<>> /\ ddl[r] = Plan(snap[r], tgt[r]) => ~Verdict(r)

\* docs/migrations.md on exit codes: apply's 1 is "when it refused before running anything", "every
\* command: 2 for a usage or environment error".  Violated when the scratch server fails: 1 as well.
RefusedByVerdict ==
  \A r \in Runs : outcome[r] = "refused" => opt[r].packages \/ Verdict(r)

\* Every command that was begun ends: no apply waits for another's locks forever.
Terminates == \A r \in Runs : pc[r] # "idle" ~> pc[r] \in {"idle", "done"}

\* docs/migrations.md of the DDL file sent to several environments: one that "already took
\* the step, is refused by apply before anything runs".
TakenStepRefused ==
  \A r \in Runs : pc[r] = "run" => Differs(snap[r], tgt[r])

\* On PostgreSQL the commands implement AtomicApply: concurrent runs, rollbacks, crashes and
\* lost answers notwithstanding, the database goes from state to state by whole files.
Atomic == INSTANCE AtomicApply WITH
  file <- ddl,
  applied <- {r \in Runs : ddl[r] # <<>> /\ committed[r] = Len(ddl[r])}
AtomicSpec == Atomic!ASpec
-----------------------------------------------------------------------------
(***************************************************************************)
(* The inductive invariant behind AsJudged, ReportsWhatRan and             *)
(* AppliedIsTarget (MigrateProofs).                                        *)
(***************************************************************************)

\* the scratch database went from state to state by the statements of the file
Chain(r) ==
  /\ Len(judged[r]) <= Len(ddl[r]) + 1
  /\ \A n \in 1 .. Len(judged[r]) - 1 : judged[r][n + 1] = After(ddl[r][n], judged[r][n])

\* before it runs, a command has run nothing
Before(r) ==
  /\ pc[r] \in {"idle", "list", "load"} => judged[r] = <<>>
  /\ pc[r] = "list" => snap[r] = Absent
  /\ pc[r] = "judge" => judged[r] # <<>>
  /\ pc[r] \in {"idle", "list", "load", "judge", "index"} =>
       next[r] = 1 /\ committed[r] = 0 /\ outcome[r] = "none"
  /\ ~Running(r) \/ next[r] = 1 => touched[r] = {}

\* while nobody disturbs it, what it has read is what there is
Reads(r) ==
  pc[r] = "load" /\ fresh[r] => \A o \in Objects \ unread[r] : snap[r][o] = db[o]

\* what it runs was judged to the end, and reaches the target
Verified(r) ==
  pc[r] = "index" \/ Running(r) \/ outcome[r] = "applied" =>
    /\ Len(judged[r]) = Len(ddl[r]) + 1
    /\ judged[r][Len(ddl[r]) + 1] = tgt[r]

\* how far it is
Progress(r) ==
  /\ Engine = "postgres" /\ Running(r) =>
       /\ committed[r] = 0
       /\ next[r] <= Len(ddl[r]) + 1
       /\ fresh[r] => View(r) = judged[r][next[r]]
  /\ Engine = "mysql" /\ Running(r) =>
       /\ pc[r] = "run" /\ outcome[r] = "none" /\ touched[r] = {}
       /\ committed[r] = next[r] - 1
       /\ next[r] <= Len(ddl[r]) + 1
  /\ pc[r] = "run" => outcome[r] = "none"
  /\ pc[r] = "orphan" => outcome[r] \in {"lost", "crashed"}

Judged(r) == fresh[r] /\ judged[r] # <<>> => db = judged[r][committed[r] + 1]

Reports(r) ==
  /\ outcome[r] \in {"refused", "dry", "error"} => committed[r] = 0
  /\ outcome[r] = "applied" => committed[r] = Len(ddl[r])
  /\ Engine = "postgres" =>
       /\ committed[r] \in {0, Len(ddl[r])}
       /\ outcome[r] = "failed" => committed[r] = 0
       /\ outcome[r] = "lost" /\ ~opt[r].noTx /\ More(r) => committed[r] = 0
  /\ SaysFailed(r) =>
       committed[r] \in {next[r] - 1} \cup (IF outcome[r] = "lost" THEN {next[r]} ELSE {})

RunInv(r) ==
  /\ Chain(r) /\ Before(r) /\ Reads(r) /\ Verified(r) /\ Progress(r) /\ Judged(r) /\ Reports(r)

IInv == TypeOK /\ \A r \in Runs : RunInv(r)

(***************************************************************************)
(* What more is needed for PlanAccepted, ConsumersKept and AtomicSpec.     *)
(***************************************************************************)
Writes(st, o) == st.kind # "update" /\ st.obj = o

\* what the first n statements of the file make of s: an object is what the last of them that
\* writes it made of it, or what it was
MadeBy(x, file, n, s) ==
  \A o \in Objects :
    \/ x[o] = s[o] /\ \A i \in 1 .. n : ~Writes(file[i], o)
    \/ \E i \in 1 .. n :
         /\ Writes(file[i], o) /\ x[o] = file[i].ver
         /\ \A j \in i + 1 .. n : ~Writes(file[j], o)

\* the states the scratch database went through are what the file makes of what was read
LastWritten(r) ==
  \A n \in 1 .. Len(judged[r]) : MadeBy(judged[r][n], ddl[r], n - 1, snap[r])

PlanInv == \A r \in Runs : LastWritten(r)

\* past the look at the packages, nothing of theirs is in the way while nobody disturbs the run
Harmless(r) ==
  fresh[r] /\ opt[r].packages /\ ~opt[r].force /\ (Running(r) \/ outcome[r] = "applied") =>
    Impacts(snap[r], tgt[r], uses) = {}

CodeInv == \A r \in Runs : Harmless(r)

\* no two transactions have written one object, ...
Apart == \A r \in Runs : \A q \in Runs \ {r} : touched[r] \cap touched[q] = {}

\* ... and what one sees is the database with the statements it has run, whatever the others
\* have committed meanwhile
SoFar(r) ==
  Running(r) =>
    /\ \A i \in 1 .. next[r] - 1 : ddl[r][i].obj \in touched[r]
    /\ Reaches(SubSeq(ddl[r], 1, next[r] - 1), db, View(r))

LockInv == Apart /\ \A r \in Runs : SoFar(r)
=============================================================================
