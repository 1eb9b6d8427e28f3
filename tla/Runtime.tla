------------------------------ MODULE Runtime ------------------------------
(***************************************************************************)
(* postgres/runtime.go: Run, for one statement whose result has a column   *)
(* of a user-defined type.  A Run may execute the statement again, to      *)
(* decode a type its connection does not know, or to have the column in    *)
(* text for a sql.Scanner; the caches of mappers and formats are shared by *)
(* all callers of the process.  Meanwhile a migration drops the type and   *)
(* creates it anew: same name, another OID.                                *)
(*                                                                         *)
(* pgx and the server are external, as runtime.go describes them: a        *)
(* connection prepares the statement once; a plan made before the type was *)
(* recreated is prepared anew silently when no formats are asked for, and  *)
(* refused with SQLSTATE 0A000 when some are; a registered type comes in   *)
(* binary unless formats are asked for.                                    *)
(***************************************************************************)
EXTENDS Naturals, FiniteSets

CONSTANTS
  Callers,       \* goroutines that run the statement
  Conns,         \* connections; without a pool, each caller's own
  Pooled,        \* db is a pgxpool.Pool
  AfterConnect,  \* LoadUserTypes runs on every new connection
  Scanned,       \* the column's Go type is a sql.Scanner
  MaxOid,        \* the type is recreated MaxOid - 1 times at most
  MaxExecs,      \* executions are counted up to here
  None

ASSUME RuntimeAssumption ==
  /\ Pooled \in BOOLEAN /\ AfterConnect \in BOOLEAN /\ Scanned \in BOOLEAN
  /\ MaxOid \in Nat \ {0} /\ MaxExecs \in Nat \ {0}
  /\ Pooled \/ Conns = Callers
  /\ None \notin Callers \cup Conns

VARIABLES
  oid,          \* the type's OID in the database
  known,        \* the OIDs each connection's TypeMap has (under the one name)
  plan,         \* the type each connection's prepared statement returns, 0 when not prepared
  user,         \* who uses each connection
  formatCache,  \* the OID formatCache has for the statement, 0 when it has no entry
  mapperCache,  \* the OID of the cached mapper's textOIDs, 0 when none is cached
  pc,           \* where each Run is
  conn,         \* rows.Conn(), the connection it last used
  formats,      \* runAttempt's formats, 0 for nil
  retried,      \* it is the second attempt
  rows,         \* the column's OID in the open rows, 0 when none are open
  inText,       \* whether the column comes in text there
  mapper,       \* the mapper's textOIDs, 0 when empty
  execs,        \* how often this Run has executed the statement
  quiet,        \* no type was recreated since this Run began
  ready,        \* everything was in place when it began
  got           \* what its caller got last

connVars == <<known, plan, user>>
cacheVars == <<formatCache, mapperCache>>
runVars == <<pc, conn, formats, retried, rows, inText, mapper, execs, quiet, ready, got>>
vars == <<oid, connVars, cacheVars, runVars>>

Oids == 1 .. MaxOid

TypeOK ==
  /\ oid \in Oids
  /\ known \in [Conns -> SUBSET Oids]
  /\ plan \in [Conns -> 0 .. MaxOid]
  /\ user \in [Conns -> Callers \cup {None}]
  /\ formatCache \in 0 .. MaxOid /\ mapperCache \in 0 .. MaxOid
  /\ pc \in [Callers -> {"idle", "query", "types", "load", "again", "map", "store", "text", "read", "last", "stale"}]
  /\ conn \in [Callers -> Conns \cup {None}]
  /\ formats \in [Callers -> 0 .. MaxOid]
  /\ retried \in [Callers -> BOOLEAN]
  /\ rows \in [Callers -> 0 .. MaxOid] /\ inText \in [Callers -> BOOLEAN]
  /\ \A u \in Callers : rows[u] # 0 <=> pc[u] \in {"types", "map", "store", "read", "last"}
  /\ mapper \in [Callers -> 0 .. MaxOid]
  /\ execs \in [Callers -> 0 .. MaxExecs]
  /\ quiet \in [Callers -> BOOLEAN] /\ ready \in [Callers -> BOOLEAN]
  /\ got \in [Callers -> {"nothing", "rows", "error", "stale"}]

AtConnect == IF AfterConnect THEN {oid} ELSE {}

Init ==
  /\ oid = 1
  /\ known = [c \in Conns |-> AtConnect] /\ plan = [c \in Conns |-> 0]
  /\ user = [c \in Conns |-> None]
  /\ formatCache = 0 /\ mapperCache = 0
  /\ pc = [u \in Callers |-> "idle"] /\ conn = [u \in Callers |-> None]
  /\ formats = [u \in Callers |-> 0] /\ retried = [u \in Callers |-> FALSE]
  /\ rows = [u \in Callers |-> 0] /\ inText = [u \in Callers |-> FALSE]
  /\ mapper = [u \in Callers |-> 0]
  /\ execs = [u \in Callers |-> 0]
  /\ quiet = [u \in Callers |-> TRUE] /\ ready = [u \in Callers |-> FALSE]
  /\ got = [u \in Callers |-> "nothing"]
-----------------------------------------------------------------------------
(* db.Query *)

Available(u) == IF Pooled THEN {c \in Conns : user[c] = None} ELSE {u}

\* a request with formats f on c meets a plan from before the type was recreated
Refused(c, f) == f # 0 /\ plan[c] \notin {0, oid}

Executes(u, c, f, next) ==
  /\ ~Refused(c, f)
  /\ rows' = [rows EXCEPT ![u] = oid]
  /\ inText' = [inText EXCEPT ![u] = f # 0 \/ oid \notin known[c]]
  /\ plan' = [plan EXCEPT ![c] = oid]
  /\ user' = [user EXCEPT ![c] = u]
  /\ conn' = [conn EXCEPT ![u] = c]
  /\ execs' = [execs EXCEPT ![u] = IF @ = MaxExecs THEN @ ELSE @ + 1]
  /\ pc' = [pc EXCEPT ![u] = next]
  /\ UNCHANGED got

\* 0A000, at Query or as the first thing of the rows; pgx may or may not drop the plan
StaleResult(u, c, f) ==
  /\ Refused(c, f)
  /\ \E p \in {0, plan[c]} : plan' = [plan EXCEPT ![c] = p]
  /\ UNCHANGED <<user, rows, inText, conn, execs>>

\* any other error: a constraint, a lost connection
OtherError(u) ==
  /\ pc' = [pc EXCEPT ![u] = "idle"]
  /\ got' = [got EXCEPT ![u] = "error"]
  /\ UNCHANGED <<plan, user, rows, inText, conn, execs>>

\* rows.Close: a pool's connection goes back, one of the caller's own is just not used
CloseRows(u) ==
  /\ rows' = [rows EXCEPT ![u] = 0]
  /\ user' = [user EXCEPT ![conn[u]] = None]
-----------------------------------------------------------------------------
(* Run, runAttempt *)

\* everything a Run needs is there: the type is registered, its plan is of today's type, and
\* the formats are cached if a Scanner needs them
InPlace(u) ==
  /\ ~Pooled /\ oid \in known[u] /\ plan[u] \in {0, oid}
  /\ Scanned => formatCache # 0

Begin(u) ==
  /\ pc[u] = "idle"
  /\ formats' = [formats EXCEPT ![u] = formatCache]
  /\ retried' = [retried EXCEPT ![u] = FALSE]
  /\ execs' = [execs EXCEPT ![u] = 0]
  /\ quiet' = [quiet EXCEPT ![u] = TRUE]
  /\ ready' = [ready EXCEPT ![u] = InPlace(u)]
  /\ got' = [got EXCEPT ![u] = "nothing"]
  /\ mapper' = [mapper EXCEPT ![u] = 0]
  /\ pc' = [pc EXCEPT ![u] = "query"]
  /\ UNCHANGED <<oid, conn, rows, inText>> /\ UNCHANGED connVars /\ UNCHANGED cacheVars

\* the first Query of an attempt, and the one after the types were loaded
Query(u, at, next) ==
  /\ pc[u] = at
  /\ \E c \in Available(u) :
       \/ Executes(u, c, formats[u], next)
       \/ StaleResult(u, c, formats[u]) /\ pc' = [pc EXCEPT ![u] = "stale"] /\ UNCHANGED got
       \/ OtherError(u)
  /\ UNCHANGED <<oid, known, formats, retried, mapper, quiet, ready>> /\ UNCHANGED cacheVars

\* variant: the retry asks for the same formats
RetryAsBefore(u) ==
  /\ pc[u] = "stale"
  /\ retried' = [retried EXCEPT ![u] = TRUE]
  /\ pc' = [pc EXCEPT ![u] = "query"]
  /\ UNCHANGED <<oid, conn, formats, rows, inText, mapper, execs, quiet, ready, got>>
  /\ UNCHANGED connVars /\ UNCHANGED cacheVars

\* variant: the error is handed to the caller
NoRetry(u) ==
  /\ pc[u] = "stale"
  /\ got' = [got EXCEPT ![u] = "stale"]
  /\ formatCache' = 0
  /\ pc' = [pc EXCEPT ![u] = "idle"]
  /\ UNCHANGED <<oid, conn, formats, retried, rows, inText, mapper, execs, quiet, ready, mapperCache>>
  /\ UNCHANGED connVars

\* staleFormatCache: the entry is dropped, and the second attempt asks for no formats
Retry(u) ==
  /\ pc[u] = "stale"
  /\ formatCache' = 0
  /\ formats' = [formats EXCEPT ![u] = 0]
  /\ retried' = [retried EXCEPT ![u] = TRUE]
  /\ pc' = [pc EXCEPT ![u] = "query"]
  /\ UNCHANGED <<oid, mapperCache, conn, rows, inText, mapper, execs, quiet, ready, got>>
  /\ UNCHANGED connVars

\* unknownTypes: the rows are closed to load the type
Types(u) ==
  /\ pc[u] = "types"
  /\ IF rows[u] \in known[conn[u]]
     THEN pc' = [pc EXCEPT ![u] = "map"] /\ UNCHANGED <<rows, user>>
     ELSE pc' = [pc EXCEPT ![u] = "load"] /\ CloseRows(u)
  /\ UNCHANGED <<oid, known, plan, conn, formats, retried, inText, mapper, execs, quiet, ready, got>>
  /\ UNCHANGED cacheVars

\* what registerTypes adds: nothing when the name is taken already
Registered(c) == IF known[c] = {} THEN {oid} ELSE {}

\* loadTypes, on the connection the closed rows came from
Load(u) ==
  /\ pc[u] = "load"
  /\ \/ /\ known' = [known EXCEPT ![conn[u]] = @ \cup Registered(conn[u])]
        /\ pc' = [pc EXCEPT ![u] = "again"]
        /\ UNCHANGED got
     \/ /\ pc' = [pc EXCEPT ![u] = "idle"]
        /\ got' = [got EXCEPT ![u] = "error"]
        /\ UNCHANGED known
  /\ UNCHANGED <<oid, plan, user, conn, formats, retried, rows, inText, mapper, execs, quiet, ready>>
  /\ UNCHANGED cacheVars

\* newMapper finds a mapper, or makes one that is yet to be stored
Map(u) ==
  /\ pc[u] = "map"
  /\ IF mapperCache # 0
     THEN mapper' = [mapper EXCEPT ![u] = mapperCache] /\ pc' = [pc EXCEPT ![u] = "read"]
     ELSE IF Scanned
          THEN mapper' = [mapper EXCEPT ![u] = rows[u]] /\ pc' = [pc EXCEPT ![u] = "store"]
          ELSE mapper' = [mapper EXCEPT ![u] = 0] /\ pc' = [pc EXCEPT ![u] = "read"]
  /\ UNCHANGED <<oid, conn, formats, retried, rows, inText, execs, quiet, ready, got>>
  /\ UNCHANGED connVars /\ UNCHANGED cacheVars

StoreMapper(u) ==
  /\ pc[u] = "store"
  /\ mapperCache' = mapper[u]
  /\ pc' = [pc EXCEPT ![u] = "read"]
  /\ UNCHANGED <<oid, formatCache, conn, formats, retried, rows, inText, mapper, execs, quiet, ready, got>>
  /\ UNCHANGED connVars

\* variant: the shared cache is asked in place of the formats this attempt was made with
NotCachedYet(u) == mapper[u] # 0 /\ formatCache = 0

\* variant: the columns are asked for in text every time
AlwaysAgain(u) == mapper[u] # 0

\* a Scanner's column came as the connection likes it
NeedsText(u) == mapper[u] # 0 /\ formats[u] = 0

\* the formats are remembered and the statement is run once more
RememberFormats(u) ==
  /\ pc[u] = "read" /\ NeedsText(u)
  /\ formatCache' = mapper[u]
  /\ CloseRows(u)
  /\ pc' = [pc EXCEPT ![u] = "text"]
  /\ UNCHANGED <<oid, known, plan, mapperCache, conn, formats, retried, inText, mapper, execs, quiet, ready,
                 got>>

\* that last Query; what it reports goes to the caller as it is
QueryText(u) ==
  /\ pc[u] = "text"
  /\ \E c \in Available(u) :
       \/ Executes(u, c, mapper[u], "last")
       \/ /\ StaleResult(u, c, mapper[u])
          /\ got' = [got EXCEPT ![u] = "stale"]
          /\ pc' = [pc EXCEPT ![u] = "idle"]
       \/ OtherError(u)
  /\ UNCHANGED <<oid, known, formats, retried, mapper, quiet, ready>> /\ UNCHANGED cacheVars

\* the rows are scanned and handed to the caller, then closed
Scanning(u) == pc[u] = "last" \/ (pc[u] = "read" /\ ~NeedsText(u))

Read(u) ==
  /\ Scanning(u)
  /\ got' = [got EXCEPT ![u] = "rows"]
  /\ CloseRows(u)
  /\ pc' = [pc EXCEPT ![u] = "idle"]
  /\ UNCHANGED <<oid, known, plan, conn, formats, retried, inText, mapper, execs, quiet, ready>>
  /\ UNCHANGED cacheVars
-----------------------------------------------------------------------------
(* the outside *)

\* a migration recreates the type; open rows hold locks that keep it from it
Recreate ==
  /\ oid < MaxOid
  /\ \A u \in Callers : rows[u] = 0
  /\ oid' = oid + 1
  /\ quiet' = [u \in Callers |-> FALSE]
  /\ UNCHANGED <<pc, conn, formats, retried, rows, inText, mapper, execs, ready, got>>
  /\ UNCHANGED connVars /\ UNCHANGED cacheVars

\* a connection nobody uses is replaced by a new one
Connect(c) ==
  /\ user[c] = None /\ \A u \in Callers : pc[u] # "idle" => conn[u] # c
  /\ known' = [known EXCEPT ![c] = AtConnect]
  /\ plan' = [plan EXCEPT ![c] = 0]
  /\ ready' = [u \in Callers |-> FALSE]
  /\ UNCHANGED <<oid, user, pc, conn, formats, retried, rows, inText, mapper, execs, quiet, got>>
  /\ UNCHANGED cacheVars

Step(u) ==
  \/ Query(u, "query", "types") \/ Query(u, "again", "map") \/ Retry(u)
  \/ Types(u) \/ Load(u) \/ Map(u) \/ StoreMapper(u)
  \/ RememberFormats(u) \/ QueryText(u) \/ Read(u)

Next == (\E u \in Callers : Begin(u) \/ Step(u)) \/ Recreate \/ (\E c \in Conns : Connect(c))

Spec == Init /\ [][Next]_vars

\* a Run that has begun goes on
FairSpec == Spec /\ \A u \in Callers : WF_vars(Step(u))
-----------------------------------------------------------------------------
\* A Scanner is never handed the raw binary of a registered type (mapper.textOIDs): the rows
\* that are scanned came in text, whatever the caches held and whoever filled them meanwhile.
ScannerGetsText ==
  \A u \in Callers : Scanned /\ Scanning(u) => inText[u]

\* A type that was dropped and recreated goes on working: 0A000 reaches a caller only if the
\* type is recreated while its Run is under way (docs/postgres.md, "without a restart").
KeepsWorking == \A u \in Callers : got[u] = "stale" => ~quiet[u]

\* When the type is registered, the plan is of today and the formats are cached, a Run
\* executes its statement once, whatever the other callers do.
OnceWhenReady == \A u \in Callers : ready[u] /\ quiet[u] => execs[u] <= 1

\* Every Run ends: no retry leads to another without end.
EveryRunEnds == \A u \in Callers : pc[u] # "idle" ~> pc[u] = "idle"

\* "runAttempt runs one execution of the statement": a Run without a retry executes once.
OneExecution == \A u \in Callers : ~retried[u] => execs[u] <= 1

\* "Run loads the types a result needs on the connection the first time it meets them"
\* (docs/postgres.md): once they are loaded the connection knows them.
TypesLoaded == \A u \in Callers : pc[u] = "again" /\ quiet[u] => oid \in known[conn[u]]

\* A Run loads types only on a connection nobody else uses.
LoadsAlone == \A u \in Callers : pc[u] = "load" => user[conn[u]] = None
=============================================================================
