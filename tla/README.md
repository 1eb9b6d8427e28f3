# sqlshape, specified

sqlshape type-checks SQL that Go programs write by hand. A statement is declared once with a
Go parameter type and a row type; an analyzer expands its template, types every resulting text
against `schema.sql`, and at run time a small evaluator renders the same template and a small
runtime sends it. Next to that stand a migration tool (`sqlshape diff`, `apply`,
`verify-schema`), which judges a DDL file on a scratch database before it touches the live
one, and test helpers that boot real database servers.

This directory holds TLA+ models of the parts whose correctness depends on an order of steps,
on several actors, or on two implementations agreeing; TLC configurations that check them on
small instances; and proofs, checked by TLAPS, of what matters most for every instance.

Contents: [inventory](#inventory) · [modules](#modules-and-how-they-map-to-the-code) ·
[runs and bounds](#runs) · [fairness](#fairness) · [proofs](#proofs) ·
[disagreements found](#disagreements-between-code-and-documentation) ·
[what is left out](#what-is-not-modelled) · [plan](#plan)

---

## Inventory

### Components, their state and their operations

| component | source | state | operations |
|---|---|---|---|
| Migration commands | `cmd/sqlshape/internal/cli` | none of its own between commands: the live database, the DDL file, `schema.sql`, the Go packages | `diff`, `apply`, `verify-schema` |
| Scratch databases, dump | `check/*/dump` | a server of the command's own for one judgement | load a text, run a file, read back in canonical form |
| Diff | `check/*/diff` | none | compare two schemas |
| Planner | `check/*/migrate` | one plan: what was declared, what is put back already | read the declarations of `schema.sql`; print the DDL between two schemas, or the problems |
| Consumer index | `cli/consumers.go` | an index built from the Go packages at one moment | which statements use what a change drops or retypes |
| Template expander | `x/expand` | a list of partial expansions | every SQL text a template can give |
| Template evaluator | `render.go` | one rendering: SQL, arguments, variables, dot, iteration | `Stmt.Render`, comparison with the checked expansion |
| Analyzers | `check/postgres/analyze`, `check/mysql/analyze` | scopes of one statement | names, types, nullability; the facts of each query level |
| One proof | `x/cardinality` | sets of known columns, single leaves, pinned ranges | judge a level "at most one row" |
| Obligations | `x/obligation` | none | judge that a statement keeps a table's declared obligations |
| vet | `cmd/sqlshape/internal/vet` | a schema cache per process | go/analysis over declarations and call sites |
| PostgreSQL runtime | `postgres/runtime.go`, `nested.go`, `batch.go` | process-wide caches of mappers, formats and batch plans; each connection's TypeMap and prepared plans | `Run`, `All`, `Get`, `Exec`, `Batch` |
| MySQL runtime | `mysql/` | none | `Run`, `Exec` |
| Shared test servers | `mysqltest` | a pool of `mysqld` processes under a mutex | `Main`, `Start`, `StartOwn`, `Close` |
| Template directory | `mysqltest`, `ensureTemplate` | a directory on disk shared by all processes, a lock file | initialize once, copy |
| pgtest | `pgtest` | one embedded PostgreSQL per test | `Start` |
| Schema loaders, catalogs, parsers, oracles | `check/*/schema`, `pgparse`, `mysqlparse`, `sqlmode` ... | none | parse and load; partly generated |
| Declarations | `sqlshape.go`, `errors.go` | none | types and error values |

### How they interact

* A **statement** goes `declaration -> expander -> analyzer -> One proof / obligations` when it is
  checked, and `declaration -> evaluator -> runtime -> server` when it runs. The two paths share
  no code for the template: they meet only where the evaluator compares its text with the
  checker's expansion of the same branches.
* An **apply** goes `dump live -> scratch: restore, run the file, read back -> compare with
  schema.sql -> consumer index -> run on live`. The only shared state with other operators is the
  live database, and nothing is locked between the steps.
* A **Run** uses the connection of its caller (or one of a pool's), pgx's TypeMap and prepared plan
  on it, and two caches that all goroutines of the process share.
* A **test** takes a server out of the pool of its package, loads its schema, and hands it back; the
  pool's mutex is given up during everything slow.

### Where it is hard

| behaviour | where | what could go wrong |
|---|---|---|
| judge, then act | `cli/apply.go` | the database or the code changes between the judgement and the execution |
| partial failure | `cli/mysql.go` | MySQL commits statement by statement: what ran, what is said to have run, what diff makes of it |
| lost answers, crashes | `cli/apply.go` | COMMIT or a whole request is carried out although its answer is lost |
| a fixpoint of mutually enabling rules | `x/cardinality` | outer joins, NULL, partial and temporal keys, derived columns, groups: a wrong "One" is a wrong program |
| two implementations of one language | `x/expand`, `render.go` | dot, variables, iterations, shared placeholders, decided branches |
| a product that is given up | `x/expand` | a sparse set of expansions stands for it, calls are no longer compared |
| a lock given up during slow work | `mysqltest` | servers leaked, shared with a test that is over, or lent with an old database |
| retries that run a statement again | `postgres/runtime.go` | double execution, stale OIDs in shared caches, loops |
| a round trip that fails in the middle | `postgres/batch.go` | handles that say otherwise than the server did; nil before all is done |
| a plan in one order for every pair of schemas | `check/postgres/migrate` | a drop the server refuses because something else still needs it; something dropped on the way and not put back; data lost that nobody declared |
| many processes, one directory | `mysqltest` | a template copied while it is written; leftovers of a killed start |
| connections handed back and used | `postgres/runtime.go`, `nested.go` | a pool's connection used by two callers |

### What correctness means, per component

* **Migration**: what was judged is what runs; the outcome reported is what happened; "applied" means
  the database is at the target; with `-packages` nothing the code uses is taken away; a half-run file
  can be continued from; no command hangs.
* **Planner**: a plan without problems, run to its end, makes the target; no value is lost that the author
  did not declare; declarations left behind are errors; the server refuses nothing for its order.
* **Batch**: handles and Send's answer say what happened; the round trip takes effect as a whole.
* **Template directory**: what is copied is whole; nothing that failed is in the way; every start is answered.
* **One proof**: "One" is answered only where no database and no parameters give two rows; the facts
  it starts from are true; the answer does not depend on the order of the rules.
* **Templates**: every call of a checked statement renders, renders what was checked, and binds every
  placeholder to the value that stands in its place.
* **Shared servers**: one user at a time, an empty database for each; no process leaks.
* **Runtime**: a `sql.Scanner` gets text; a recreated type keeps working; a Run executes its statement
  no more than it must, and ends.

---

## Modules and how they map to the code

### Migration: `Ddl`, `Migrate`, `AtomicApply`, `MCMigrate`, `MigrateProofs`

`Ddl` is the data: a schema is a function from objects to definitions (what the diff compares as
units), a statement creates, drops, alters, replaces, or changes rows; `Reaches` a whole file, `Plan`
the order the planner prints (drops, alterations, additions; changed triggers and routines among the
drops and again among the additions), `Impacts` what the packages check looks for.

`Migrate` has a process per operator that runs one command after another. Its steps follow the code's
order of effects:

| place | actions | code |
|---|---|---|
| `list`, `load` | `DumpPG`, `ListMySQL`, `ReadOne`, `ReadGone` | pg_dump's snapshot, then the seeded tables on another connection; MySQL's list, then one SHOW CREATE after another |
| `judge` | `Restore`, `JudgeStmt`, `JudgeEnd` | `migrate.Verify` on the scratch server |
| `index` | `Index` | `gateConsumers`, `-force`, `-dry-run` |
| `run` | `ExecPG`, `RefusePG`, `CommitPG`; `ExecMySQL`, `RefuseMySQL`, `FinishMySQL` | `runApply`'s transaction or single request; `runApplyMySQL`'s loop |
| faults | `RowsRefuse`, `CutRequest`, `CutTransaction`, `CutMySQL`, `EnvError` | rows that refuse what empty scratch tables accept; a lost connection; a killed command; files, packages or servers that are not there |
| outside | `HandEdit`, `EditCode`, `EditFile` | statements typed by hand, changes of the packages, a new DDL file |

A transaction's writes are private (`mine`, `touched`) and lock their objects until it ends; a circle
of waiting transactions is broken by refusing one. With `-no-transaction` the server carries the
request through whatever happens to the client (`orphan`). On MySQL a connection that is lost is an error of the
statement under way, which the server executed or did not; the command has counted only the ones before it
(`next`), and says so in the same words as for a refusal (`SaysFailed`). A lost connection is told from a refusal in
`outcome` (`lost`, `failed`) for the properties to speak of both. What cannot be reached before the run ends the command with
an `error`, but an error of the scratch server ends it as a refusal, like a verdict (`EnvError`).

`AtomicApply` is the promise on PostgreSQL: a file runs whole, in one step, on the database as it
stands, or not at all. `Migrate` implements it with `applied` read off the history variable
`committed` (property `AtomicSpec`, and theorem `AppliesAtomically`).

### The planner: `PgSchema`, `PgPlan`, `PgMigrate`, `MCPgMigrate`, `PgMigrateProofs`

`PgSchema` has a PostgreSQL schema as the planner reads it (tables with their columns, generated ones
among them; keys, checks, indexes, foreign keys, policies; views over tables and views; one enum) and
the server as a function of it: which statement it accepts and what the statement does, to one row in
each table as well. `PgPlan` is the planner phase by phase, from `readIntents` to `adds`, each
definition named for the function it translates: which declarations the schemas bear out, which
views stand, which foreign keys follow their keys, what a retyped column takes down and puts back.
`PgMigrate` is the step of an author: changes of `schema.sql`, each declared or forgotten, then the plan,
then the server, one statement at a time. `was` remembers which column the author means each
column to continue, which is what "no data is lost" is about. An author who declares a rename of *x* to *z*, drops *z* and
then adds another column *z* has a declaration that says something else than was meant, and the planner goes by
what it says; so a new column takes no name that a declared rename gives (`Fresh`). It takes three edits.

Abstracted: an order among equals (the code goes by name); casts always succeed; a backfill fills the
NULLs; a foreign key's column types fit. Outside the schema: partitions, sequences and identity, triggers,
rules, functions, domains, composites and ranges, extensions, comments, several schemas, seeded rows, the
flags of row security, renamed views.

### At most one row, and obligations: `JoinedRows`, `OneProof`, `QueryLevel`, `Obligation`, `Obliged`, `MCOneProof`, `OneProofProofs`, `ObligedProofs`

`OneProof` is `x/cardinality` with each rule of its fixpoint an action (`FollowEdge`, `HoldPoint`,
`FixLeaf`), so that TLC tries every order, and `Shape` and `Judge` for what is decided before and
after. Its input is what the analyzer writes down about a level (`Facts`); its second half states what
those facts *promise* about the rows (`FixedHold`, `EdgesHold`, `KeysHold`, ...).

`QueryLevel` is the other side: it computes the facts as `addItem`, `addQuals` and `scopeFacts` do, and,
independently, the joined rows that SQL gives on a database (`LevelResults`). A value is the set of the
points in it, so that NULL is the empty set, a scalar a singleton, and a range any set: equality,
containment and temporal keys have one definition each. Its last section says in what forms relations and
levels come from the schema loader and the analyzer (`LeafFormed`, `LevelFormed`); `Obligation` ends with those of
declarations and writes. They are the assumptions of the proofs (`LeavesAssumption`, `LevelsAssumption`), and TLC
evaluates them on the instances of every run of these modules.

`Obligation` is `x/obligation` over the same facts. A level gains what it writes; `Discharged` is `Check`'s
verdict on a leaf, with the judgement of leaves (`LeafAccepts`) and of writes (`WriteAccepts`) as the code
has them, the implication between conditions, the witness of an EXISTS on the level, and the pins that a
foreign key or a parent carries over. `Kept` says, of the rows and without the facts, what the declaration
asks: the predicate is true of every row, a pinned column has one value whatever the database holds, a row
leaves only a state it may leave. `Obliged` puts the two side by side for the statements of `OneProof`,
since a single write is judged by the leaves the proof found single. The foreign keys between the leaves restrict the
databases; they are what the pins rest on. The end of `Obliged` names the statements and declarations of which all
of it can be promised (`NoTies`, `GroupsInEveryRow`, `JudgedAsWritten`, `KeysCarry`), each for one disagreement found;
`MCOneProof` has TLC evaluate that `one_proof`'s are of them.

### Templates: `TemplateTree`, `Expand`, `Render`, `MCRender`

`TemplateTree` has the nodes and the values; `Expand` is the checker's expander node by node, including
which of its states a path is looked up in, when a control is decided by an earlier one, and the
sparse set beyond `MaxExpansions`; `Render` is the evaluator with its flat map of variables and its
keys for sharing placeholders, the comparison with the expansion, and a third, independent reading of
the same template: `Meaning`, what `text/template` would do. The state machine is a statement's life:
written, checked (or rejected), then called with a parameter.

### Shared servers: `ServerPool`, `Lease`, `ServerPoolProofs`

`ServerPool` has any number of users, each a goroutine that calls `Start` or `StartOwn`, works, and
closes, again and again, and `Main`. The mutex's critical sections are single actions (`TakeFree`,
`Booted`, `Free`, `Evict`, `MainSweeps`), and what the code does without the lock lies between them:
the boot, loading, DROP DATABASE, stopping a process. mysqld may die at any time and the context a
`Start` was called with may end. `Lease` is the promise to a test: a server is lent to one user at a
time, never after it was stopped, and nobody stops it under its user before `m.Run` has returned.

### The template directory: `TemplateDir`, `TemplateDirProofs`

A start is a goroutine in `ensureTemplate` and then `copyTree`, in this process or another. Each call
that others can see is an action: the two Stats, the flock, RemoveAll, mysqld's directory, the rename. mysqld
writes its files one after the other, `mysql.ibd` not the last; it may fail, and when its start is killed
it writes on. A directory is the start whose mysqld made it, so that "the same path" and "the same
directory" are told apart. On Windows `lock` takes nothing and says so: one process at a time is
the user's part there, and the model is of Unix.

### Run: `Runtime`, `RuntimeProofs`

`Runtime` is `postgres.Run` for one statement whose result has a column of a user-defined type. The
steps of `runAttempt` are actions, each shared cache access one of its own: `Query`, `Types`, `Load`,
`Map`, `StoreMapper`, `RememberFormats`, `QueryText`, `Read`, and `Retry` for Run's second attempt.
`Recreate` is a migration that drops and creates the type; `Connect` replaces an idle connection.
Callers have connections of their own or take one of a pool's at each Query.

pgx and the server are external and behave as the comments in `runtime.go` say: a connection's plan
from before the recreation is refused (0A000) when formats are asked for, and prepared anew when not; a
type the connection has not registered comes in text.

### Batch: `Batch`, `RoundTrip`, `BatchProofs`

`Batch` has the batch as the caller sees it (the kinds queued, the handles, Send) and the server at the other
end of a connection that may break. Statements with rows and without ride in the round trip, those for a
Scanner follow it, one that does not render fails Send before anything is sent. What is external is what
pgx does with the queue (prepare all, send all, read one after another, stop at the first error) and
what the server makes of one Sync: an implicit transaction. `RoundTrip` is the promise, in
four actions; `Batch` implements it by a refinement mapping that renames two sets.

---

## Runs

`CHECK_DEADLOCK FALSE` stands in every configuration because everything here may stop: commands and
boots are bounded, a proof answers once, a statement is called once per behaviour, and a caller need
not call again.

### Runs that pass

| run | configuration | what it asks | bounds |
|---|---|---|---|
| `migrate_pg` | `MigratePG.cfg` | `TypeOK`, `AsJudged`; that concurrent commands implement `AtomicApply` (`AtomicSpec`); `Terminates` with files that cross | two operators, two commands, two objects (one the rows of a seeded table), one fault, one edit |
| `migrate_resume` | `MigrateResume.cfg` | `ReportsWhatRan`, `AppliedIsTarget`, `PlanAccepted`, `ConsumersKept` on MySQL: fail half-way, diff, apply again, forth and back, with `-packages`, `-force`, `-dry-run` | one operator, four commands, three targets, three definitions (two of one type), an undeclared drop |
| `plan` | `PgMigrate.cfg` | `Reached`, `LossIsDeclared`, `StaleAreErrors`, `DropsDeclared`, `NothingElseBlocks` | two tables and a new one, two views, every kind of part, twelve kinds of change, any two of them in one step, each declared or not |
| `one_proof` | `OneProof.cfg` | `AtMostOneRow`, `FactsHold`, `LeafSound`, `LeastClosed`, `DischargedHolds` | levels of up to two of fourteen kinds of relation, up to two conditions in WHERE and three in ON, every join, every database of two rows (one of a relation with a foreign key); thirteen obligations on a parent and its members, under SELECT, INSERT, UPDATE, DELETE, an upsert, a WITH |
| `render` | `Render.cfg` | `NeverRefused`, `BoundToItsValue`, `ArgsAsChecked`, `NilSeen`, `SparseCovers` | all pairs of the fragments in `MCRender`, and pairs beside a wide range; slices of up to three elements, unset scalars, nil structs; `MaxExpansions` as in the code |
| `server_pool` | `ServerPool.cfg` | `TypeOK`, `OneUser`, `FreshDatabase`, `NoOrphan`, `LeaseSpec`, `AllStopped` | three users, two servers, two lists of options |
| `template_dir` | `TemplateDir.cfg` | `CopiesWhole`, `LeftoversHarmless`, `EveryStartAnswered` | three starts, three files, the second is `mysql.ibd` |
| `runtime` | `Runtime.cfg` | `ScannerGetsText`, `KeepsWorking`, `OnceWhenReady`, `EveryRunEnds` | two callers on connections of their own, one recreation |
| `batch` | `Batch.cfg` | `HandlesTell`, `ServerErrorUndoes`; that Send implements `RoundTrip` (`KeepsPromise`); `SendReturns` | five statements of four kinds, one loss of the connection |

Why these bounds are enough to be interesting, and what they could miss:

* **Two operators** are needed for every interleaving of the migration commands and for a deadlock;
  a third adds longer waiting circles only. Two objects are needed for a file to stop half-way, and a
  table and a routine for the order of the plan. Four commands in `migrate_resume` are a failed apply,
  a diff, an apply, and one more of any kind. One fault and one edit each reach every place; the proofs
  do not depend on the number.
* **Two rows per leaf** are enough to refute "at most one row": two joined rows that differ need no more
  than two rows of each leaf, and every property of the One proof speaks of two rows. Two leaves have
  every direction of an equality, both sides of an outer join, and derived leaves that are fixed from
  the other side. Longer chains of equalities are the theorem's, not the run's.
* **A parent and a member** are what a pin is carried between. One row of the member will do, for what is
  asked of rows is asked of the rows of all databases together; two of the parent show whether its key is
  used. Members come with a tenant that may be NULL, with one that may not, and with a key of one column.
* **Two fragments** suffice for one to disturb another (tied branches, shared placeholders, restored
  dot); fragments nest ranges and conditions up to two deep. **Three elements** are one more than any
  expansion has, so renderings that nothing is compared with are among them. Beside the wide range,
  templates go beyond the 256 of `MaxExpansions` in both ways: by the count of their branches, which makes
  the set sparse, and by the elements of a range, which the checker rejects.
* **Three users and two servers** have a user that boots while another frees and a third takes, and a
  server evicted and another booted in its place; `Servers` bounds how many can be booted at all, and
  the proofs take away the bound.
* **One operator** in `migrate_resume` is enough for its three properties: they speak of an apply that
  nobody else disturbed, or of what one command read and judged.
* **Two changes of one step** are what two phases of the plan need to get in each other's way: a key
  and the type of a column it is over, a rename and a generated expression, an enum and a retype. The schema has
  one of everything that holds on to something else, and its views form a chain; a new column or table may
  take the place of one that went. `Reached` and `NothingElseBlocks`, which no theorem states, were also checked with `MaxEdits` 3 for
  the changes of any three kinds at a time (220 configurations, up to 450,000 states each), that is for every
  step of three changes; one exception was found so (`NewOnGenerated`).
* **Three starts** are one that waits for the lock, one that holds it, and the mysqld of a third that was
  killed. **Five statements** have some before, at and after the one that fails, in both halves of a batch.
* **One recreation** (`MaxOid` 2) makes a plan, a cache entry, a TypeMap entry stale; a second makes them
  stale again. `MaxExecs` 5 counts beyond what one Run can execute.

### Runs that must fail

`one_groups` (`OneGroups.cfg`), `render_reuse` (`RenderReuse.cfg`) and `batch_not_sent` (`BatchNotSent.cfg`) each check
one sentence one sentence of a document or a comment and end in a counterexample. Fourteen more configurations of the
same kind are kept to be run by hand: `OneTies`, `RenderIndex`, `RenderWith`, `RenderHidden`,
`RuntimeOwn`, `RuntimeAlone`, `RuntimePool`, `MigrateTaken`, `MigrateLost`, `PgRefusals`, `PgRewrites`,
`PgGenerated`, `ObligationKeys`, `ObligationWrites`. They differ from the passing ones only in the inputs that reach the case, or in the
property; six show two or three cases each, and TLC goes on to the next with `-continue`.
What each shows is listed under [disagreements](#disagreements-between-code-and-documentation).

The passing runs do without those inputs, so that each shows what holds of the rest. For `render` that
means: two ranges of one template do not give their variables one name unless they range over
the same slice; one range is not read both by dot and by a variable; `{{$.A}}` and `{{.A}}` do not meet
in one iteration; two indexes do not meet in an inner body; a `{{with}}` declares no variable; no value
follows two `{{with}}`s on one path. `one_proof` groups no outer join, has no WITH TIES, and
obliges no column of a composite foreign key whose other columns are not unique in the parent, no table
with a foreign key that is NOT ENFORCED, and, where an update is not the statement itself, only what is
judged per write.
`runtime` has no pool. The properties of `plan` name their exceptions: `Reached` excepts two kinds of step
(`EnumRetyped`, `KeyedGenerated`), and `NothingElseBlocks` the six reasons for which a plan may be refused: something that still reads what goes or is retyped, a row without a
value under NOT NULL, a generated expression over a column that is added later, a policy that changes around a retype, a foreign
key that is new over a rewritten column, a backfill of a column that is still computed. `LossIsDeclared` excepts the columns the target computes.

---

## Fairness

* `Migrate`: weak fairness of each command's steps. A command that was begun goes on, and the
  server answers it or breaks its deadlock; nothing makes an operator begin one, and no fault is
  fair.
* `ServerPool`: weak fairness of each user's steps between `Start` and the end of `Close`, and of
  `Main`'s after it has begun: a Start gets through or fails within its context, tests call Close (they
  register it with `t.Cleanup`), and `m.Run` returns. That mysqld dies, or a context ends, is not fair.
* `Runtime`: weak fairness of each caller's steps: a Run that has begun goes on, and the server
  answers. Neither Begin nor a recreation is fair.

* `Batch`: weak fairness of Send's steps and of the server's. A lost connection is noticed by both; that it
  is lost is not fair, and nothing makes the caller queue or send.
* `TemplateDir`: weak fairness of each start's steps and of each mysqld's, strong fairness of taking the lock:
  flock wakes those that wait, and each gives the lock back. A start that failed need not be tried again, and
  no kill is fair.

The counterexamples below are all of invariants, so none of them depends on fairness.

---

## Proofs

The theorems hold for every value of the constants that satisfies the named assumptions of the modules
(`DdlAssumption`, `MigrateAssumption`, `NoneAssumption`, `RuntimeAssumption`, ...): any number of
operators, objects, statements, users, servers, callers; any relations, keys and rows.

The `TypeOK` of `Runtime`, `Batch` and `OneProof` is in no run: `TypeCorrect` proves it.

### `MigrateProofs`

`TypeCorrect`, `RunsAsJudged` (`AsJudged`), `ReportsAreTrue` (`ReportsWhatRan`), `AppliedMatches`
(`AppliedIsTarget`). None of the three properties is inductive alone: that the live database is in a state
the scratch database went through needs to know that what was read is what there is (`Reads`), that
the scratch states are linked by the file's statements (`Chain`), that a command which runs was judged
to its end (`Verified`), and, in the middle of a transaction, that what the transaction *sees* is the
judged state after as many statements (`Progress`). `IInv`, at the end of `Migrate`, is their
conjunction, per command; the proof takes one action after another and, under it, the conjuncts it can
disturb. The history variable `fresh` is what makes the other operators' steps harmless. `ReportsAreTrue` needs no `fresh`: it
holds whatever the others do. Of MySQL it says as much as is true: the statement a message names has not run if the server
refused it, and may have if the connection was lost.

`PlansAccepted` (`PlanAccepted`), from any half-run state and for any number of objects: the judged states are what the
file's statements make of what was read, an object at a time (`LastWritten`), and each statement of `Plan` finds what
it needs, since a drop stands before an alteration and that before an addition and each object is in one of them
(twice only if it is dropped and made anew). So the scratch server's verdict on it is never a refusal (`Verdict`); a
scratch server that fails is another matter. `ConsumersUnharmed` (`ConsumersKept`) adds to `IInv` that past the look at the packages nothing of theirs
is changed between what was read and the target (`Harmless`).

`AppliesAtomically` (`AtomicSpec`) assumes `Engine = "postgres"` and is the refinement, one action after another: only
a COMMIT, or the server's when it carries a request through, changes `db`, and it does to it what the whole file does
to whatever is there. That is not what the transaction read when others committed meanwhile. The invariant is
the locks': no two running files have written one object (`Apart`), and what one sees is the present database with its own
first statements (`SoFar`). A commit of another then changes only objects this one has not touched.

### `OneProofProofs`

`TypeCorrect`, `LeafSoundness` (`LeafSound`), `Soundness` (`AtMostOneRow`), `EndsWithLeast` (`LeastClosed`). The argument is the
one a reader of `cardinality.go` makes: known columns have one value in all rows that have their
leaf, pinned ranges overlap, single leaves have one row; each rule keeps that; at the end the rows
agree on all leaves, or on all groups. `LeafSoundness` and `Soundness` assume that the facts are true of the rows
(`AllPromised`), which `ObligedProofs` proves of `QueryLevel`, and `Soundness` that grouped leaves are never
without a row (`GroupsKept`): without that the code is wrong, as `one_groups` shows. They hold of any analyzer
that keeps the promises of `facts.go`, MySQL's as well.

`EndsWithLeast` says that the order of the rules does not matter: the rules are monotone (`RulesMore`), so what they
have added is within every closed set (`WithinClosed`), and the proof stops only where nothing is to be added.

### `ObligedProofs`

From the facts to the rows, for any relations, any contents, any level in the forms of `LevelFormed`, and any parameter.

* `FactsAreTrue` (`FactsHold`): each promise of `facts.go` is a lemma about the joined rows that pass the WHERE. A conjunct is
  true of every row that has a leaf it restricts (`PredTrue`), which is where the side an outer join may leave without a row
  is told apart from the other; an equality leads from a column to another only in rows that have the second
  (`SelectedEdges`); what the equalities reach from a fixed column has, for each parameter, one value in every database
  (`FixedValue`, by the least set `Reached`); two rows of a leaf that agree in a key clash, so they are one (`SelectedKeys`,
  `SelectedBodies`); a row of a LEFT JOIN without a partner has none (`SelectedLevel`).
* `LeavesOfLevels` (`LeafSound`) and `OneMeansOne` (`AtMostOneRow`) put `OneProofProofs` on top: analyzer and proof together,
  with no assumption left about the facts.
* `ObligationsKept` (`DischargedHolds`): per kind of obligation, what `Check` looks at makes `Kept` true of the rows. A
  satisfied condition is true (`SatisfiedTrue`), with `$n` it has one value (`SatisfiedGives`); a witness has a row wherever the
  subject has one, since one of its conditions compares the two (`WitnessThere`, `WitnessFound`); a pin carried over
  a foreign key is the pin of the row referred to, which is the joined one because the other columns are a key there
  (`CarriedOver`); a parent is joined in every row (`ParentFound`); a row that is updated is in one of the states the
  condition names (`TransitionKept`); a write is single by the level or by the target's leaf (`SingleKept`).

The hypotheses beyond the forms are `OfLevels` (facts and results are `QueryLevel`'s), `NoTies` (all four),
`GroupsInEveryRow` (`OneMeansOne`), `JudgedAsWritten` and `KeysCarry` (`ObligationsKept`). Each of the last four excludes one
kind of disagreement below and nothing else; `OneTies`, `OneGroups`, `ObligationWrites` and `ObligationKeys` are
counterexamples without it.

### `ServerPoolProofs`

`TypeCorrect`, `Exclusive` (`OneUser`), `StartsFromNothing` (`FreshDatabase`), `NothingLeaks`
(`NoOrphan`), `RunsOnDeclared` (a lent server has the options its user declared), `NobodyElsesContext` (none that
others may get is tied to its booter's context), and `Lends`: the pool implements `Lease`. The inductive invariant adds to the properties when sharing is on
(`Phases`), that pooled servers run or ran (`Booting`), who may hold what at which place (`Held`), where
no database is (`Empty`) and what is tied to no context (`Untied`). The refinement maps a server's
holder to the user whose `srv` it is; by `OneUser` there is only one, and three lemmas (`HolderIs`,
`Getting`, `GivingUp`) say how the mapping moves when a user gets or gives up a server. Every step is
then a step of `Lease` or a stutter.

### `RuntimeProofs`

`TypeCorrect`, `ScannersGetText` (`ScannerGetsText`), and for callers on connections of their own (`~Pooled`)
`RunsKeepWorking` (`KeepsWorking`) and `RunsOnce` (`OnceWhenReady`). Of the second: whatever the shared caches hold and whoever
fills them, with a pool or without, for any number of recreations, rows that are scanned for a Scanner
came in text. The invariant says that an attempt made with formats has its rows in text (`Asked`), and
that a Scanner's mapper asks for them (`Wanted`). Of the last two: a Run that has executed did so on its caller's
connection (`Own`), which nobody replaces meanwhile, so its plan is of today's type unless the type was
recreated since (`Fresh`), and the Query for text is not refused; and what was in place when a Run began
stays in place, since formats are the attempt's own and not read from the cache again (`Kept`). With a
pool neither holds: `RuntimePool.cfg`.

### `BatchProofs`

`TypeCorrect`, `HandlesTellTruth` (`HandlesTell`), `ServerErrorsUndo` (`ServerErrorUndoes`) and `Keeps`: Send implements
`RoundTrip`. The invariant says how the two ends of the connection stand to each other: what the server has
executed rides in the round trip, which is applied exactly when it is committed (`Serving`); a handle without an
error was executed, and handles are told in order up to the first error (`Reading`); what follows the round trip runs
when that is through and until its own first error (`Following`); before Send, and after an error of the server's,
nothing goes on (`Unsent`, `Failing`).

### `TemplateDirProofs`

`WholeTemplate` (`CopiesWhole`) and `NothingInTheWay` (`LeftoversHarmless`), for any number of starts and files. The
lock alone does not carry them, for a mysqld outlives the start that held it. The invariant adds that a running
mysqld is waited for or its start was killed (`WaitedFor`), that who has looked again under the lock knows that there
is no template and, once it initializes, that `template.tmp` is its own (`Alone`; before, it is that of a killed start
at most), and that an mysqld that has ended has written everything (`Ended`).

### `PgMigrateProofs`

For any schema that is well formed (`SourceAssumption`: a column is of a table and has a name of its own there, views
have names of their own, there are finitely many of each), any orders of the names, any number of edits and any choice of
the columns that hold a NULL. `LabelAssumption`: the label that the enum columns hold is one of the enum's, and none of the
enum's is the word that stands for a NULL.

* `StaleDeclarationsFail` (`StaleAreErrors`): each declaration left in `schema.sql` is an error of the next plan, which has
  no statement. It rests on `PlanOfNothing`, phase by phase: from a schema to itself every column continues itself
  (`NamesStay`, `AllContinue`), every part and view stands, and a backfill is for no column (`NothingFilled`), so
  no phase has anything to do, whatever is declared. The invariant is that every schema the author arrives at is well formed
  (`Authored`, one edit after another): what the argument needs is that a name leads to one column and one view.
* `NothingToReport`: with nothing declared such a plan has no problem either.
* `DropsAreDeclared` (`DropsDeclared`): the property is of the tail of the plan that is left to run, and what comes back
  must come later. So `Explained` says of a sequence of statements that each drop is declared or *answered* further on,
  which goes over to longer sequences and to tails (`BothExplained`, `AllExplained`, `TailExplained`), and each phase is
  `Explained`. The drops of `drops` are declared because a plan with a problem is not run (`AllDeclared`). In `alters` it
  takes more: a retype takes computed columns down, one after another, and adds them after it, in the other order, so the drops are not
  explained alone: they are *owed* (`Owed`) what the additions settle (`OwedExplained`, `RetypeExplained`). The invariant adds
  to `Authored` that the plan is empty while the author edits, and finite and `Explained` afterwards (`PlansTold`).
* `LossDeclared` (`LossIsDeclared`): run to its end, a plan without problems has left each value in the column the author means
  it to be in (a label as the one it is declared to become), or its column is declared dropped, or the target computes
  it (then it is lost, and nothing announces it: `LossIsAnnounced` does not hold). The property says nothing before the end, so the invariant does: a value that
  is not announced as lost is, at any moment, in some column *u* of the server, and what is left of the plan
  `Carries` it from *u* to the column the author means (`Carried`, `Delivers`). Four arguments make it:
  * What the author means stays told from what is there by chance (`Intended`, one edit after another in `IntendedNext`): a
    column that continues another has its name, or a declaration that says so; no two declarations speak of one table or one column; a
    name a declaration gives is of the column it is given to.
  * The planner takes each column for the one meant, or reports a problem, or the column is declared dropped
    (`LeadsOn`): the declarations it honours are one to one on tables (`TablePairs`) and on columns (`ColumnPairs`), so that
    following them forth and back comes to the column it started from (`NameBack`).
  * The phases of the plan take the value there (`PlanCarries`): `DropsSpare` it, `RenamesCarry` it, first with its table and
    then under its new name, `AltersSpare` it through a retype's drops, updates and additions (the labels that go are
    mapped as declared, `MapSpares`), `AddsSpare` it.
  * The server's statements do what the plan is counted on for (`StepHolds`, a lemma for each kind of statement before it), on
    any schema that is `Sound`: a value for each column and a name for each column.

That sets are put in a sequence (`Listed`), and sequences one after another (`FlattenSeq`), is the library's fold and
a recursive function. Their lemmas (`ListsAll`, `FlatSet`) and that of `FkOrder` (`FkOrderIn`) are by least counterexample,
on the length or the number of elements, since the induction rules cannot be instantiated.

### Only model-checked

* Liveness (`Terminates`, `AllStopped`, `EveryRunEnds`, `SendReturns`, `EveryStartAnswered`): temporal reasoning under fairness needs ENABLED,
  which the prover does not have.
* All template properties: `Expand` and `Render` are recursive over trees, and what a recursive
  definition computes for every input needs an induction the provers cannot instantiate.
* Of the planner, what the server's schema becomes: `Reached` and `NothingElseBlocks` need, of every column, part and view, what
  it is between any two statements of any plan, and that no statement is too early for another; that is a second model of the
  planner as an invariant. `LossDeclared` does without it, for it follows one value, whatever else is there.

---

## Disagreements between code and documentation

| configuration | what the code does |
|---|---|
| `MigrateTaken.cfg` | `docs/migrations.md` says an environment that already took the step is refused; `apply` runs the file again wherever its end state is the target, so a repeatable file is repeated |
| `MigrateLost.cfg` | `mysql.go` reports every error of a statement as "statement i of n failed, the i-1 before it are applied", and `docs/migrations.md` repeats that `apply` "says which one and how many before it are applied". When the connection is lost after the server executed the statement, that one is applied as well (`SaysWhatRan`). The advice in the same message, `diff` from here, is right all the same: `diff` reads the database (`PlanAccepted`) |
| `MigrateLost.cfg` | `docs/migrations.md` and `cli.go` have exit code 1 for a refused apply and 2 for an environment error; `apply` takes every error of `Verify` for a refusal, one of the scratch server's connection too: "the DDL does not apply to the database's current schema", 1 (`RefusedByVerdict`) |
| `OneGroups.cfg` | a GROUP BY column of an outer join's nullable side, fixed by ON, counts as one group; rows without a partner are a second, with NULL |
| `OneTies.cfg` | `FETCH FIRST 1 ROW WITH TIES` is read as LIMIT 1 |
| `RenderReuse.cfg` | two ranges over different slices with one variable name share placeholders: the second sends the first slice's values. Up to two elements the comparison refuses the call, from three on it is sent |
| `RenderIndex.cfg` | indexes of nested ranges are one placeholder to the checker and two to the evaluator: a call of a checked statement is refused as a bug |
| `RenderWith.cfg` | `{{with $y := .A}}` is expanded, and fails in every rendering that takes the branch |
| `RenderWith.cfg` | after two `{{with}}`s on one path the checker's dot stays moved: it type-checks another field than the one sent |
| `RenderHidden.cfg` | in the sparse set, a condition written like an earlier one under another dot is never tried alone |
| `RuntimeOwn.cfg` | a Run that meets an unknown type executes its statement twice, also one that writes |
| `RuntimeOwn.cfg` | once a type was recreated under its name, the connection never registers the new OID, and every Run executes twice |
| `RuntimePool.cfg` | with a pool, the last Query after a retry may meet an old plan on another connection: 0A000 reaches the caller |
| `BatchNotSent.cfg` | `batch.go:171-173` and `docs/postgres.md` say the statements after the first failing one are not executed and report ErrNotSent; when the failure is in mapping the rows, they are executed and committed, and report it all the same |
| `ObligationKeys.cfg` | `viaForeignKey` carries a pin over a composite key when the *other* columns are joined: "the referenced key is unique, so the rows agree on every column of it" (`x/obligation/check.go`; `docs/obligations.md` likewise). The joined columns need not be unique by themselves: with `FOREIGN KEY (order_id, tenant_id)`, `JOIN orders o ON o.tenant_id = i.tenant_id WHERE o.id = $1` passes `pinned(order_id)` and an aggregate, and returns the items of all of the tenant's orders. The same holds of `tenant_id` under a primary key `(tenant_id, id)` |
| `ObligationKeys.cfg` | `ForeignKeys` hands over keys that are NOT ENFORCED too, which `schema.go` says "documents an intent the database does not check"; a pin is carried over them |
| `ObligationWrites.cfg` | the obligations on leaves are judged by the kind of the main statement (`kindAt`): `immutable(t)` passes an `ON CONFLICT DO UPDATE SET t` and an UPDATE in a WITH. `analyze/stmt.go` says of the upsert "its own write, so an obligation `on update` sees it", and `docs/checks.md` that it "is an insert and an update" |
| `PgRefusals.cfg` | `migrate.go` says a policy goes around a retype "whether or not the policy itself changes"; when it changes it is dropped twice, and the server refuses the second (`PoliciesGoAround`) |
| `PgRefusals.cfg` | `Plan`'s comment and `docs/migrations.md` say dependents are dropped first; a view that stands, or is only replaced later, still reads the view or column that is dropped, and the server refuses (`DependentsFirst`) |
| `PgRewrites.cfg` | `dropGenerated` "drops what would block the DROP COLUMN": it drops the target's foreign keys on the column, also one that is new in the same step (three changes: a key on a column, a table that references it, the column computed from now on), and the server does not find it |
| `PgGenerated.cfg` | `addGenerated` is said to restore what the drop took down; a foreign key on the rewritten generated column itself is lost (`RewriteRestores`) |
| `PgGenerated.cfg` | `docs/migrations.md` says a column that disappears without a declaration is an error, "so data loss is always announced". A plain column that the target computes is dropped and added again (`migrate.go`, `dropGenerated` and `addGenerated`), its values with it, and the plan reports nothing; there is no declaration for it either (`LossIsAnnounced`) |
| `PgGenerated.cfg` | `intents.go` says of a backfill that "the database holds the target's shape for this column by then"; where the column is computed until this step and gets NOT NULL in it, the UPDATE stands before DROP EXPRESSION, passes the type check against the target, and the server refuses it (`BackfillsFit`) |
| `RuntimeAlone.cfg` | with a pool, types are loaded on a connection that was given back and may be in use |

---

## What is not modelled

* **The analyzers' name and type resolution**, the schema loaders, the parsers and the generated grammars:
  pure functions of large data without an order of steps. The repository checks them against the real
  servers' parsers, which is the better oracle.
* **The comparison of schemas property by property**, the text forms of dumps and plans: data. What the
  commands make of the comparison is modelled.
* **`COMMIT` inside a DDL file** and **`diff -from`**: the first makes the transaction the operator's
  own affair, the second reads no database.
* **In `Obligation`**: nested levels (each is judged like the outermost), witnesses in subqueries, the paths through
  views and policies, MERGE, `paired`, `alone`, `via view`, `sensitive`, contexts, waivers: they ask for the presence of
  a table, column or comment. The parsing of declarations is text.
* **Subqueries in predicates, views, row security, the leaf of an INSERT ... SELECT** in `QueryLevel`: they add leaves and facts of
  the kinds that are there.
* **Maps, channels, method calls and builtin functions** in templates: conditions computed from a field
  stand for builtins; a field behind a nil pointer ends the process in the code and is not called here.
* **The planner's other objects** (listed with its modules), and the whole of MySQL's planner but its phases:
  what is there is the part of the plan in which statements stand in each other's way.
* **Parameters of unknown types, `Exec`, row mapping** in the runtime; the MySQL runtime, which
  is one call per statement.
* **vet's matching of Go types**, the declarations, pgtest, examples.

---

### Why the mapped share is small

Of the implementation's lines, most are parsers generated from PostgreSQL's and MySQL's sources
(`pg_query.pb.go`, `mysqlast`, `mysqlparse`, `parsegen`), and the analyzers and loaders over them, which are
functions of one text without an order of steps. The models follow what acts: the commands, the planner, the proof,
the templates, the runtimes, the servers.

### What the planner's run leaves to its exceptions

Beyond the configurations above, refusals that the code leaves to the author: a label that goes in the
step in which one of the enum's columns gets another type (each part of the planner leaves the column to the
other); a generated column rewritten to read a column that is added later in the plan; a generated column or
a policy over an enum column whose type is made anew; a generated column that reads, after a rename, by the
old name. None loses data, and only the first ends in another schema.

---

## Plan

In order of weight; what is done is above.

1. Subqueries in `QueryLevel`: EXISTS and IN as predicates with levels of their own, then the witnesses of
   `Obligation` in them, and policies and views as further sources of conditions.
2. Partitions and sequences in `PgPlan`: detaching, attaching, repartitioning, ownership around renames; then
   MySQL's planner beyond its phases (foreign keys, generated columns, renames).
3. Parameters of unknown types in `Runtime` (`withParamTypes`, with and without a pool).
4. The scratch servers' lifecycle.
5. Proofs: of the planner, `Reached`, for steps without a retype first (there each phase is one kind of
   statement, and the schema between two phases can be named).
