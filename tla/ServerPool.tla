----------------------------- MODULE ServerPool -----------------------------
(***************************************************************************)
(* mysqltest.go: the tests of a package share mysqld servers.  A user is   *)
(* one goroutine's Start, its tests and its Close, over and over; Main     *)
(* turns the sharing on and, when m.Run returns, stops what is shared.     *)
(* The pool is guarded by a mutex, which booting, CREATE DATABASE, DROP    *)
(* DATABASE and stopping a server are done without.                        *)
(***************************************************************************)
EXTENDS FiniteSets

CONSTANTS
  Users,    \* the callers of Start
  Servers,  \* the servers that can be booted: a bound on the number of boots
  Keys,     \* the lists of options a schema can declare
  None

ASSUME NoneAssumption == None \notin Users \cup Keys \cup Servers

VARIABLES
  sharing,  \* pool.sharing
  pool,     \* pool.servers
  main,     \* where Main is
  toStop,   \* Main's own copy of the servers, those it has not stopped yet
  proc,     \* each server's process: not booted, up, exited, or stopped with its directory gone
  key,      \* server.key
  busy,     \* server.busy
  tied,     \* the user whose context ends the process (cmdCtx), if any
  base,     \* whose database the server holds
  pc,       \* where each user is
  want,     \* the options its schema declares
  shares,   \* acquire's local sharing
  srv,      \* DB.srv
  owned     \* DB.owned

mainVars == <<sharing, pool, main, toStop>>
serverVars == <<proc, key, busy, tied, base>>
userVars == <<pc, want, shares, srv, owned>>
vars == <<sharing, pool, main, toStop, proc, key, busy, tied, base, pc, want, shares, srv, owned>>

Live == {"up", "exited"}   \* a process to stop, a directory to remove
UserPCs == {"idle", "boot", "load", "use", "close", "free", "evict", "stop"}

TypeOK ==
  /\ sharing \in BOOLEAN
  /\ pool \subseteq Servers
  /\ main \in {"before", "run", "stopping", "over"}
  /\ toStop \subseteq Servers
  /\ proc \in [Servers -> {"none", "up", "exited", "removed"}]
  /\ key \in [Servers -> Keys \cup {None}]
  /\ busy \subseteq Servers
  /\ tied \in [Servers -> Users \cup {None}]
  /\ base \in [Servers -> Users \cup {None}]
  /\ pc \in [Users -> UserPCs]
  /\ want \in [Users -> Keys \cup {None}]
  /\ shares \in [Users -> BOOLEAN]
  /\ srv \in [Users -> Servers \cup {None}]
  /\ owned \in [Users -> BOOLEAN]
  /\ \A u \in Users : pc[u] = "idle" <=> srv[u] = None

Init ==
  /\ sharing = FALSE /\ pool = {} /\ main = "before" /\ toStop = {}
  /\ proc = [s \in Servers |-> "none"] /\ key = [s \in Servers |-> None] /\ busy = {}
  /\ tied = [s \in Servers |-> None] /\ base = [s \in Servers |-> None]
  /\ pc = [u \in Users |-> "idle"] /\ want = [u \in Users |-> None]
  /\ shares = [u \in Users |-> FALSE] /\ srv = [u \in Users |-> None]
  /\ owned = [u \in Users |-> FALSE]
-----------------------------------------------------------------------------
(* start, acquire, boot *)

\* variant: a server in use is handed out
FreeOrBusy(k) == {s \in pool : key[s] = k}

\* the servers of the pool that serve these options and nobody uses
FreeFor(k) == {s \in pool : key[s] = k /\ s \notin busy}

\* acquire finds a free server; whether it still runs is not asked
TakeFree(u, k) ==
  /\ pc[u] = "idle" /\ sharing
  /\ \E s \in FreeFor(k) :
       /\ busy' = busy \cup {s}
       /\ srv' = [srv EXCEPT ![u] = s]
  /\ pc' = [pc EXCEPT ![u] = "load"]
  /\ want' = [want EXCEPT ![u] = k]
  /\ shares' = [shares EXCEPT ![u] = TRUE]
  /\ owned' = [owned EXCEPT ![u] = FALSE]
  /\ UNCHANGED mainVars /\ UNCHANGED <<proc, key, tied, base>>

\* the user whose context the process of a new server ends with: a shared server outlives it
CmdCtx(u, share) == IF share THEN None ELSE u

\* acquire finds none, or own asks for a server of the caller's: the lock is given up and boot
\* starts a process
Boot(u, k, own) ==
  LET share == sharing /\ ~own
  IN  /\ pc[u] = "idle"
      /\ share => FreeFor(k) = {}
      /\ \E s \in Servers :
           /\ proc[s] = "none"
           /\ proc' = [proc EXCEPT ![s] = "up"]
           /\ tied' = [tied EXCEPT ![s] = CmdCtx(u, share)]
           /\ srv' = [srv EXCEPT ![u] = s]
      /\ pc' = [pc EXCEPT ![u] = "boot"]
      /\ want' = [want EXCEPT ![u] = k]
      /\ shares' = [shares EXCEPT ![u] = share]
      /\ UNCHANGED mainVars /\ UNCHANGED <<key, busy, base, owned>>

\* boot failed (the context, an option mysqld does not know): the server is stopped
BootFails(u) ==
  /\ pc[u] = "boot"
  /\ proc' = [proc EXCEPT ![srv[u]] = "removed"]
  /\ pc' = [pc EXCEPT ![u] = "idle"]
  /\ srv' = [srv EXCEPT ![u] = None]
  /\ UNCHANGED mainVars /\ UNCHANGED <<key, busy, tied, base, want, shares, owned>>

\* variant: sharing is not looked at again after the boot
SharedAsMeant(u) == shares[u]

\* a booted server is the caller's own when it did not mean to share it, or when the sharing
\* has ended during the boot; else it goes into the pool, busy
Joins(u) == shares[u] /\ sharing

Booted(u) ==
  /\ pc[u] = "boot" /\ proc[srv[u]] = "up"
  /\ key' = [key EXCEPT ![srv[u]] = want[u]]
  /\ owned' = [owned EXCEPT ![u] = ~Joins(u)]
  /\ pool' = IF Joins(u) THEN pool \cup {srv[u]} ELSE pool
  /\ busy' = IF Joins(u) THEN busy \cup {srv[u]} ELSE busy
  /\ pc' = [pc EXCEPT ![u] = "load"]
  /\ UNCHANGED <<sharing, main, toStop, proc, tied, base, want, shares, srv>>

\* load: CREATE DATABASE, which fails where one is there, then the schema's statements
Load(u) ==
  /\ pc[u] = "load"
  /\ \/ /\ proc[srv[u]] = "up" /\ base[srv[u]] = None
        /\ base' = [base EXCEPT ![srv[u]] = u]
        /\ \E next \in {"use", "close"} : pc' = [pc EXCEPT ![u] = next]
     \/ /\ pc' = [pc EXCEPT ![u] = "close"]
        /\ UNCHANGED base
  /\ UNCHANGED mainVars
  /\ UNCHANGED <<proc, key, busy, tied, want, shares, srv, owned>>
-----------------------------------------------------------------------------
(* Close, release, stop *)

\* the test is done with its database and calls Close
EndUse(u) ==
  /\ pc[u] = "use"
  /\ pc' = [pc EXCEPT ![u] = "close"]
  /\ UNCHANGED mainVars /\ UNCHANGED serverVars /\ UNCHANGED <<want, shares, srv, owned>>

\* variant: the outcome of DROP DATABASE is ignored
DropAnyway(u) ==
  /\ pc[u] = "close" /\ ~owned[u]
  /\ \/ base' = [base EXCEPT ![srv[u]] = None]
     \/ UNCHANGED base
  /\ pc' = [pc EXCEPT ![u] = "free"]
  /\ UNCHANGED mainVars
  /\ UNCHANGED <<proc, key, busy, tied, want, shares, srv, owned>>

\* release drops the database; it may fail to, and does when the server does not run
Drop(u) ==
  /\ pc[u] = "close" /\ ~owned[u]
  /\ \/ /\ proc[srv[u]] = "up"
        /\ base' = [base EXCEPT ![srv[u]] = None]
        /\ pc' = [pc EXCEPT ![u] = "free"]
     \/ /\ pc' = [pc EXCEPT ![u] = "evict"]
        /\ UNCHANGED base
  /\ UNCHANGED mainVars
  /\ UNCHANGED <<proc, key, busy, tied, want, shares, srv, owned>>

\* variant: Close leaves d.srv set
FreeButKept(u) ==
  /\ pc[u] = "free"
  /\ busy' = busy \ {srv[u]}
  /\ pc' = [pc EXCEPT ![u] = "idle"]
  /\ UNCHANGED mainVars /\ UNCHANGED <<proc, key, tied, base, want, shares, srv, owned>>

\* the database is dropped: the server is free
Free(u) ==
  /\ pc[u] = "free"
  /\ busy' = busy \ {srv[u]}
  /\ pc' = [pc EXCEPT ![u] = "idle"]
  /\ srv' = [srv EXCEPT ![u] = None]
  /\ UNCHANGED mainVars /\ UNCHANGED <<proc, key, tied, base, want, shares, owned>>

\* variant: a server that is about to be stopped is marked free
EvictToFree(u) ==
  /\ pc[u] = "evict"
  /\ busy' = busy \ {srv[u]}
  /\ pc' = [pc EXCEPT ![u] = "stop"]
  /\ UNCHANGED mainVars /\ UNCHANGED <<proc, key, tied, base, want, shares, srv, owned>>

\* variant: a server is taken out of the pool and left running
EvictOnly(u) ==
  /\ pc[u] = "evict"
  /\ pool' = pool \ {srv[u]}
  /\ pc' = [pc EXCEPT ![u] = "idle"]
  /\ srv' = [srv EXCEPT ![u] = None]
  /\ UNCHANGED <<sharing, main, toStop>> /\ UNCHANGED serverVars
  /\ UNCHANGED <<want, shares, owned>>

\* it is not: the server leaves the pool
Evict(u) ==
  /\ pc[u] = "evict"
  /\ pool' = pool \ {srv[u]}
  /\ pc' = [pc EXCEPT ![u] = "stop"]
  /\ UNCHANGED <<sharing, main, toStop>> /\ UNCHANGED serverVars
  /\ UNCHANGED <<want, shares, srv, owned>>

\* stop: Close of a server of one's own, and the end of an eviction
Stop(u) ==
  /\ pc[u] = "stop" \/ (pc[u] = "close" /\ owned[u])
  /\ proc' = [proc EXCEPT ![srv[u]] = "removed"]
  /\ pc' = [pc EXCEPT ![u] = "idle"]
  /\ srv' = [srv EXCEPT ![u] = None]
  /\ UNCHANGED mainVars /\ UNCHANGED <<key, busy, tied, base, want, shares, owned>>
-----------------------------------------------------------------------------
(* Main *)

MainShares ==
  /\ main = "before"
  /\ main' = "run" /\ sharing' = TRUE
  /\ UNCHANGED <<pool, toStop>> /\ UNCHANGED serverVars /\ UNCHANGED userVars

\* m.Run has returned; goroutines the tests left behind go on
MainSweeps ==
  /\ main = "run"
  /\ main' = "stopping" /\ sharing' = FALSE
  /\ toStop' = pool /\ pool' = {}
  /\ UNCHANGED serverVars /\ UNCHANGED userVars

MainStops(s) ==
  /\ main = "stopping" /\ s \in toStop
  /\ proc' = [proc EXCEPT ![s] = "removed"]
  /\ toStop' = toStop \ {s}
  /\ UNCHANGED <<sharing, pool, main, key, busy, tied, base>> /\ UNCHANGED userVars

MainEnds ==
  /\ main = "stopping" /\ toStop = {}
  /\ main' = "over"
  /\ UNCHANGED <<sharing, pool, toStop>> /\ UNCHANGED serverVars /\ UNCHANGED userVars
-----------------------------------------------------------------------------
(* the outside *)

\* mysqld dies by itself
Crash(s) ==
  /\ proc[s] = "up"
  /\ proc' = [proc EXCEPT ![s] = "exited"]
  /\ UNCHANGED mainVars /\ UNCHANGED <<key, busy, tied, base>> /\ UNCHANGED userVars

\* the context a Start was called with ends, and the processes tied to it
CtxEnds(u) ==
  LET its == {s \in Servers : tied[s] = u /\ proc[s] = "up"}
  IN  /\ its # {}
      /\ proc' = [s \in Servers |-> IF s \in its THEN "exited" ELSE proc[s]]
      /\ UNCHANGED mainVars /\ UNCHANGED <<key, busy, tied, base>> /\ UNCHANGED userVars

Start(u) == \E k \in Keys : TakeFree(u, k) \/ (\E own \in BOOLEAN : Boot(u, k, own))
Step(u) == BootFails(u) \/ Booted(u) \/ Load(u) \/ EndUse(u) \/ Drop(u) \/ Free(u) \/ Evict(u) \/ Stop(u)
MainStep == MainSweeps \/ (\E s \in Servers : MainStops(s)) \/ MainEnds
Outside == (\E s \in Servers : Crash(s)) \/ (\E u \in Users : CtxEnds(u))

Next == (\E u \in Users : Start(u) \/ Step(u)) \/ MainShares \/ MainStep \/ Outside

\* every Start gets through or fails, every test calls Close, and m.Run returns
Fairness == (\A u \in Users : WF_vars(Step(u))) /\ WF_vars(MainStep)

Spec == Init /\ [][Next]_vars
FairSpec == Spec /\ Fairness
-----------------------------------------------------------------------------
(* What the pool promises *)

\* Two users never work on one server: the check for a free server and its marking are one
\* step under the lock, and a server enters the pool busy.
OneUser == \A u, v \in Users : srv[u] = srv[v] /\ srv[u] # None => u = v

\* "so the schema starts from nothing each time" (Main): a Start that is about to load its
\* schema finds no database of an earlier user, and while it uses the server the database
\* there is its own.
FreshDatabase ==
  \A u \in Users : /\ pc[u] = "load" => base[srv[u]] = None
                   /\ pc[u] = "use" => base[srv[u]] = u

\* Nothing leaks: a process that was started, alive or dead, is at every moment somebody's to
\* stop, be it the pool's, Main's, or the one user's that boots, owns or evicts it; also when
\* m.Run returns during a boot.
NoOrphan ==
  \A s \in Servers : proc[s] \in Live =>
    \/ sharing /\ s \in pool
    \/ s \in toStop
    \/ \E u \in Users : srv[u] = s /\ (pc[u] \in {"boot", "stop"} \/ owned[u])

\* who has a server, when the users have those of at
HolderIn(at, s) == IF \E u \in Users : at[u] = s THEN CHOOSE u \in Users : at[u] = s ELSE None
holderOf == [s \in Servers |-> HolderIn(srv, s)]
stopped == {s \in Servers : proc[s] = "removed"}

\* Each server is lent to one user at a time and none is stopped under its user before m.Run
\* has returned.
Lending == INSTANCE Lease WITH
  holder <- holderOf, retired <- stopped, closing <- main \in {"stopping", "over"}
LeaseSpec == Lending!LSpec

\* In the end every server that was booted is stopped and its directory removed.
AllStopped == <>[](\A s \in Servers : proc[s] \in {"none", "removed"})
=============================================================================
