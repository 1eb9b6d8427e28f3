------------------------------- MODULE Batch -------------------------------
(***************************************************************************)
(* postgres/batch.go: statements queued with Queue, sent in one round trip *)
(* by Send, read from the handles Queue returned.  A statement received by *)
(* a sql.Scanner cannot ride in the round trip and follows it as a query   *)
(* of its own.                                                             *)
(*                                                                         *)
(* pgx and the server are external, as batch.go uses them: the statements  *)
(* are prepared, then sent with one Sync at the end, so that the server    *)
(* runs them in one implicit transaction while the client reads their      *)
(* results, and undoes them all when one fails; the connection (or Send's  *)
(* context) may break at any time.  db is a connection or a pool: in a     *)
(* transaction of the caller's everything stands or falls with it.         *)
(***************************************************************************)
EXTENDS Naturals, FiniteSets

CONSTANT MaxQueued  \* how many statements are queued, at most

ASSUME BatchAssumption == MaxQueued \in Nat

VARIABLES
  kind,      \* the kind of each queued statement, "none" where none is
  handle,    \* its Queued: "open" (not done), "ok" or "error"
  sent,      \* Batch.sent
  pc,        \* where Send is; "build" outside it
  answer,    \* what the first Send returned, "none" before that
  failure,   \* what went wrong in the round trip, as the client sees it
  server,    \* the round trip's transaction
  executed,  \* the statements it has executed
  refused,   \* the statement it failed at, 0 for none
  applied,   \* the statements that have taken effect
  link       \* the connection, from the client's side

clientVars == <<kind, handle, sent, pc, answer, failure>>
serverVars == <<server, executed, refused, applied, link>>
vars == <<clientVars, serverVars>>

Places == 1 .. MaxQueued
Kinds == {"exec", "rows", "scanner", "unrendered"}

TypeOK ==
  /\ kind \in [Places -> Kinds \cup {"none", "late"}]
  /\ handle \in [Places -> {"open", "ok", "error"}]
  /\ sent \in BOOLEAN
  /\ pc \in {"build", "prepare", "read", "close", "after"}
  /\ answer \in {"none", "ok", "error"}
  /\ failure \in {"none", "server", "mapping", "link"}
  /\ server \in {"idle", "running", "committed", "aborted"}
  /\ executed \subseteq Places /\ applied \subseteq Places
  /\ refused \in Places \cup {0}
  /\ link \in {"up", "lost"}

Init ==
  /\ kind = [i \in Places |-> "none"] /\ handle = [i \in Places |-> "open"]
  /\ sent = FALSE /\ pc = "build" /\ answer = "none" /\ failure = "none"
  /\ server = "idle" /\ executed = {} /\ refused = 0 /\ applied = {} /\ link = "up"

Of(ks) == {i \in Places : kind[i] \in ks}

Queued == Of(Kinds)

Riders == Of({"exec", "rows"})      \* Batch.b
Followers == Of({"scanner"})        \* Batch.after
BatchErr == Of({"unrendered"}) # {} \* Batch.err
Least(S) == {i \in S : \A j \in S : i <= j}
Open(S) == {i \in S : handle[i] = "open"}
-----------------------------------------------------------------------------
(* Queue *)

\* "sqlshape: batch already sent", or the error rendering it; else the handle is left open
Answered(i, k) ==
  handle' = [handle EXCEPT ![i] = IF k \in {"late", "unrendered"} THEN "error" ELSE @]

Queue(k) ==
  /\ pc = "build"
  /\ k \in IF sent THEN {"late"} ELSE Kinds
  /\ \E i \in Least(Of({"none"})) :
       /\ kind' = [kind EXCEPT ![i] = k]
       /\ Answered(i, k)
  /\ UNCHANGED <<sent, pc, answer, failure>> /\ UNCHANGED serverVars
-----------------------------------------------------------------------------
(* Send *)

Returns(a) == pc' = "build" /\ answer' = a

\* the next thing Send does when the round trip is over, or there is none
AfterRoundTrip == pc' = "after" /\ UNCHANGED answer

Send ==
  /\ pc = "build"
  /\ sent' = TRUE
  /\ IF sent THEN UNCHANGED <<pc, answer>>  \* "sqlshape: batch already sent"
     ELSE IF BatchErr THEN Returns("error")
     ELSE IF Riders # {} THEN pc' = "prepare" /\ UNCHANGED answer
     ELSE AfterRoundTrip
  /\ UNCHANGED <<kind, handle, failure>> /\ UNCHANGED serverVars

\* db.SendBatch: one statement that cannot be prepared, and none is executed
Prepare ==
  /\ pc = "prepare"
  /\ \/ link = "up" /\ pc' = "read" /\ server' = "running" /\ UNCHANGED <<answer, failure>>
     \/ /\ Returns("error") /\ UNCHANGED server
        /\ failure' = IF link = "lost" THEN "link" ELSE "server"
  /\ UNCHANGED <<kind, handle, sent, executed, refused, applied, link>>

NextOf(S) == Least(Open(S))

\* pgx calls the function of a statement with rows only when br.Query itself succeeds: what the
\* server refuses before its first row description leaves the handle as it is
Told(i) ==
  \/ handle' = [handle EXCEPT ![i] = "error"]
  \/ kind[i] = "rows" /\ UNCHANGED handle

\* variant: the results after an error are read as well
ReadsOn(i, why) == Told(i) /\ failure' = why /\ UNCHANGED pc

Stops(i, why) == Told(i) /\ failure' = why /\ pc' = "close"

\* Fn of the next statement, called by br.Close; the first error ends the calls
ReadResult(i) ==
  /\ pc = "read" /\ i \in NextOf(Riders)
  /\ \/ /\ i \in executed
        /\ handle' = [handle EXCEPT ![i] = "ok"]
        /\ UNCHANGED <<pc, failure>>
     \/ /\ i \in executed /\ kind[i] = "rows"
        /\ Stops(i, "mapping") /\ handle'[i] = "error"
     \/ refused = i /\ Stops(i, "server")
     \/ link = "lost" /\ Stops(i, "link")
  /\ UNCHANGED <<kind, sent, answer>> /\ UNCHANGED serverVars

AllRead ==
  /\ pc = "read" /\ Open(Riders) = {}
  /\ pc' = "close"
  /\ UNCHANGED <<kind, handle, sent, answer, failure>> /\ UNCHANGED serverVars

\* variant: what the last answer says of the commit is not looked at
CloseUnread ==
  /\ pc = "close"
  /\ server \in {"committed", "aborted"} \/ link = "lost"
  /\ IF failure # "none" THEN Returns("error") ELSE AfterRoundTrip
  /\ UNCHANGED <<kind, handle, sent, failure>> /\ UNCHANGED serverVars

\* variant: only a commit ends the round trip
CloseAtCommit ==
  /\ pc = "close"
  /\ server = "committed" \/ link = "lost"
  /\ IF failure # "none" THEN Returns("error") ELSE AfterRoundTrip
  /\ UNCHANGED <<kind, handle, sent, failure>> /\ UNCHANGED serverVars

\* variant: the error is left to the handles
CloseQuietly ==
  /\ pc = "close"
  /\ server \in {"committed", "aborted"} \/ link = "lost"
  /\ AfterRoundTrip
  /\ UNCHANGED <<kind, handle, sent, failure>> /\ UNCHANGED serverVars

\* br.Close returns: the first error, else what became of the commit
Close ==
  /\ pc = "close"
  /\ \/ server = "committed" /\ failure = "none" /\ AfterRoundTrip /\ UNCHANGED failure
     \/ server \in {"committed", "aborted"} /\ failure # "none" /\ Returns("error") /\ UNCHANGED failure
     \/ /\ server = "aborted" /\ failure = "none"
        /\ Returns("error") /\ failure' = IF link = "lost" THEN "link" ELSE "server"
     \/ /\ link = "lost" /\ Returns("error")
        /\ failure' = IF failure = "none" THEN "link" ELSE failure
  /\ UNCHANGED <<kind, handle, sent>> /\ UNCHANGED serverVars

\* Collect of a statement that follows; when it reports an error, it may have taken effect or
\* not (it has not when db is no DB, and cannot run a plain query)
RunAfter(i) ==
  /\ pc = "after" /\ i \in NextOf(Followers)
  /\ \/ /\ handle' = [handle EXCEPT ![i] = "ok"]
        /\ applied' = applied \cup {i}
        /\ UNCHANGED <<pc, answer>>
     \/ /\ handle' = [handle EXCEPT ![i] = "error"]
        /\ applied' \in {applied, applied \cup {i}}
        /\ Returns("error")
  /\ UNCHANGED <<kind, sent, failure, server, executed, refused, link>>

AllSent ==
  /\ pc = "after" /\ Open(Followers) = {}
  /\ Returns("ok")
  /\ UNCHANGED <<kind, handle, sent, failure>> /\ UNCHANGED serverVars
-----------------------------------------------------------------------------
(* the server, and the connection to it *)

Execute(i) ==
  /\ server = "running" /\ i \in Least(Riders \ executed)
  /\ \/ executed' = executed \cup {i} /\ UNCHANGED <<server, refused>>
     \/ refused' = i /\ server' = "aborted" /\ UNCHANGED executed
  /\ UNCHANGED <<applied, link>> /\ UNCHANGED clientVars

\* at the Sync: a deferred constraint may still fail
Commit ==
  /\ server = "running" /\ Riders \subseteq executed
  /\ \/ server' = "committed" /\ applied' = Riders
     \/ server' = "aborted" /\ UNCHANGED applied
  /\ UNCHANGED <<executed, refused, link>> /\ UNCHANGED clientVars

\* it notices that the client is gone, unless it has received everything: then it goes on
Abandon ==
  /\ server = "running" /\ link = "lost"
  /\ server' = "aborted"
  /\ UNCHANGED <<executed, refused, applied, link>> /\ UNCHANGED clientVars

LoseLink ==
  /\ link = "up" /\ pc \in {"prepare", "read", "close"}
  /\ link' = "lost"
  /\ UNCHANGED <<server, executed, refused, applied>> /\ UNCHANGED clientVars

Client == Prepare \/ (\E i \in Places : ReadResult(i) \/ RunAfter(i)) \/ AllRead \/ Close \/ AllSent

Server == (\E i \in Places : Execute(i)) \/ Commit \/ Abandon

Next == (\E k \in Kinds \cup {"late"} : Queue(k)) \/ Send \/ Client \/ Server \/ LoseLink

Spec == Init /\ [][Next]_vars

\* Send goes on, and the server works through what it was sent
FairSpec == Spec /\ WF_vars(Client) /\ WF_vars(Server)
-----------------------------------------------------------------------------
\* A batch does what its sender is told: the round trip takes effect as a whole or not at
\* all, what follows it comes after it and in order, and nil means that all of it is done.
Promise == INSTANCE RoundTrip WITH riding <- Riders, following <- Followers

KeepsPromise == Promise!Spec

\* "A handle says what happened": one that reports no error was executed by the server, one
\* with an error is the only one, all before it were executed and nothing after it was read.
HandlesTell ==
  /\ \A i \in Riders : handle[i] = "ok" => i \in executed
  /\ \A i \in Followers : handle[i] = "ok" => i \in applied
  /\ \A i, j \in Queued : handle[i] = "error" /\ handle[j] = "error" => i = j \/ BatchErr
  /\ \A i, j \in Riders : i < j /\ handle[j] # "open" => handle[i] = "ok"

\* After an error of the server's nothing of the round trip stays, whatever the handles of
\* the statements before it say; no statement that follows is run.
ServerErrorUndoes ==
  failure = "server" /\ answer = "error" => applied = {} /\ Open(Followers) = Followers

\* "The first failing statement's error is returned; the statements after it are not
\* executed, and their accessors return ErrNotSent."
NotSentIsNotExecuted ==
  answer = "error" /\ failure \in {"server", "mapping"} => Open(Riders) \cap applied = {}

\* Send returns.
SendReturns == pc # "build" ~> pc = "build"
=============================================================================
