-------------------------- MODULE ServerPoolProofs --------------------------
(***************************************************************************)
(* Proofs about the pool of mysqltest's servers, for any users, servers    *)
(* and options: one user a server, a fresh database for each, no server    *)
(* without somebody to stop it, and the abstract lending of Lease.         *)
(***************************************************************************)
EXTENDS ServerPool, TLAPS

\* A test runs on a server that was started with the options its own schema declares.
AsDeclared == \A u \in Users : pc[u] \in {"load", "use"} => key[srv[u]] = want[u]

\* A test's context ends no server but its own: one that others may be handed later is tied to
\* nobody (acquire's cmdCtx).
OthersUntouched == \A s \in pool \cup toStop : tied[s] = None

\* Sharing is on exactly while m.Run runs; the servers are in the pool before, Main's after.
Phases ==
  /\ sharing <=> main = "run"
  /\ ~sharing => pool = {}
  /\ main # "stopping" => toStop = {}

\* What is in the pool was booted and not stopped; what Main has left to stop was booted.
Booting ==
  /\ \A s \in pool : proc[s] \in Live
  /\ \A s \in toStop : proc[s] # "none"

\* A server somebody has was booted; when it is in the pool it is marked busy, and its user
\* neither boots, owns nor stops it.  A server of one's own is not released.
Held ==
  \A u \in Users : srv[u] # None =>
    /\ pc[u] \in {"free", "evict"} => ~owned[u]
    /\ proc[srv[u]] # "none"
    /\ srv[u] \in pool => srv[u] \in busy /\ ~owned[u] /\ pc[u] \notin {"boot", "stop"}

\* Where no database is: on a server not booted, being booted, about to be marked free, or free.
Empty ==
  /\ \A s \in Servers : proc[s] = "none" => base[s] = None
  /\ \A s \in pool : s \notin busy => base[s] = None
  /\ \A u \in Users : pc[u] \in {"boot", "free"} => base[srv[u]] = None

\* A server booted to be shared is tied to no context from the start.
Untied ==
  /\ OthersUntouched
  /\ \A u \in Users : pc[u] = "boot" /\ shares[u] => tied[srv[u]] = None

\* The inductive invariant.
IInv ==
  /\ TypeOK /\ OneUser /\ Phases /\ Booting /\ Held
  /\ Empty /\ FreshDatabase /\ Untied /\ NoOrphan /\ AsDeclared

\* The pool starts empty and nothing is booted.
LEMMA IInvInit == Init => IInv
BY NoneAssumption DEF Init, IInv, TypeOK, OneUser, Phases, Booting, Held, Empty, FreshDatabase, Untied,
  OthersUntouched, NoOrphan, AsDeclared, UserPCs, Live

\* Every step keeps the variables in their types.
LEMMA TypeNext == TypeOK /\ [Next]_vars => TypeOK'
<1> SUFFICES ASSUME TypeOK, [Next]_vars PROVE TypeOK'
  OBVIOUS
<1> USE NoneAssumption DEF TypeOK, UserPCs, mainVars, serverVars, userVars
<1>1. ASSUME NEW u \in Users, NEW k \in Keys, TakeFree(u, k) PROVE TypeOK'
  BY <1>1 DEF TakeFree, FreeFor
<1>2. ASSUME NEW u \in Users, NEW k \in Keys, NEW own \in BOOLEAN, Boot(u, k, own) PROVE TypeOK'
  BY <1>2 DEF Boot, CmdCtx
<1>3. ASSUME NEW u \in Users, BootFails(u) PROVE TypeOK'
  BY <1>3 DEF BootFails
<1>4. ASSUME NEW u \in Users, Booted(u) PROVE TypeOK'
  BY <1>4 DEF Booted, Joins
<1>5. ASSUME NEW u \in Users, Load(u) PROVE TypeOK'
  BY <1>5 DEF Load
<1>6. ASSUME NEW u \in Users, EndUse(u) PROVE TypeOK'
  BY <1>6 DEF EndUse
<1>7. ASSUME NEW u \in Users, Drop(u) PROVE TypeOK'
  BY <1>7 DEF Drop
<1>8. ASSUME NEW u \in Users, Free(u) PROVE TypeOK'
  BY <1>8 DEF Free
<1>9. ASSUME NEW u \in Users, Evict(u) PROVE TypeOK'
  BY <1>9 DEF Evict
<1>10. ASSUME NEW u \in Users, Stop(u) PROVE TypeOK'
  BY <1>10 DEF Stop
<1>11. CASE MainShares \/ MainStep
  BY <1>11 DEF MainShares, MainStep, MainSweeps, MainStops, MainEnds
<1>12. CASE Outside
  BY <1>12 DEF Outside, Crash, CtxEnds
<1>13. CASE UNCHANGED vars
  BY <1>13 DEF vars
<1> QED
  BY <1>1, <1>2, <1>3, <1>4, <1>5, <1>6, <1>7, <1>8, <1>9, <1>10, <1>11, <1>12, <1>13
     DEF Next, Start, Step

\* Every step keeps the inductive invariant.
LEMMA IInvNext == IInv /\ [Next]_vars => IInv'
<1> SUFFICES ASSUME IInv, [Next]_vars PROVE IInv'
  OBVIOUS
<1>0. TypeOK'
  BY TypeNext DEF IInv
<1> USE <1>0, NoneAssumption DEF IInv, TypeOK, OneUser, Phases, Booting, Held, Empty, FreshDatabase, Untied,
  OthersUntouched, NoOrphan, AsDeclared, Live, mainVars, serverVars, userVars
<1>1. ASSUME NEW u \in Users, NEW k \in Keys, TakeFree(u, k) PROVE IInv'
  BY <1>1 DEF TakeFree, FreeFor
<1>2. ASSUME NEW u \in Users, NEW k \in Keys, NEW own \in BOOLEAN, Boot(u, k, own) PROVE IInv'
  <2> DEFINE share == sharing /\ ~own
  <2>1. PICK s \in Servers : /\ proc[s] = "none" /\ proc' = [proc EXCEPT ![s] = "up"]
                             /\ srv' = [srv EXCEPT ![u] = s]
                             /\ tied' = [tied EXCEPT ![s] = CmdCtx(u, share)]
    BY <1>2 DEF Boot
  <2>2. OneUser'
    BY <2>1, <1>2 DEF Boot, CmdCtx
  <2>3. (Phases /\ Booting)'
    BY <2>1, <1>2 DEF Boot, CmdCtx
  <2>4. Held'
    BY <2>1, <1>2 DEF Boot, CmdCtx
  <2>5. Empty'
    BY <2>1, <1>2 DEF Boot, CmdCtx
  <2>6. FreshDatabase'
    BY <2>1, <1>2 DEF Boot, CmdCtx
  <2>7. Untied'
    <3>1. ASSUME NEW v \in Users, v # u, pc'[v] = "boot", shares'[v] PROVE tied'[srv'[v]] = None
      <4>1. pc[v] = "boot" /\ shares[v] /\ srv'[v] = srv[v]
        BY <1>2, <2>1, <3>1 DEF Boot
      <4>2. srv[v] \in Servers /\ srv[v] # s
        BY <2>1, <4>1
      <4> QED
        BY <2>1, <4>1, <4>2
    <3>2. ASSUME shares'[u] PROVE tied'[srv'[u]] = None
      <4>1. shares' = [shares EXCEPT ![u] = share]
        BY <1>2 DEF Boot
      <4>2. share
        <5>1. shares'[u] = share
          BY <4>1
        <5> QED
          BY <3>2, <5>1
      <4>3. srv'[u] = s /\ tied'[s] = CmdCtx(u, share)
        BY <2>1
      <4>4. CmdCtx(u, share) = None
        BY <4>2 DEF CmdCtx
      <4> QED
        BY <4>3, <4>4
    <3>3. OthersUntouched'
      <4>1. pool' = pool /\ toStop' = toStop /\ s \notin pool \cup toStop
        BY <1>2, <2>1 DEF Boot
      <4>2. \A q \in Servers : q # s => tied'[q] = tied[q]
        BY <2>1
      <4> QED
        BY <4>1, <4>2
    <3> QED
      BY <3>1, <3>2, <3>3
  <2>8. NoOrphan'
    BY <2>1, <1>2 DEF Boot, CmdCtx
  <2>9. AsDeclared'
    BY <2>1, <1>2 DEF Boot, CmdCtx
  <2> QED
    BY <2>2, <2>3, <2>4, <2>5, <2>6, <2>7, <2>8, <2>9
<1>3. ASSUME NEW u \in Users, BootFails(u) PROVE IInv'
  BY <1>3 DEF BootFails
<1>4. ASSUME NEW u \in Users, Booted(u) PROVE IInv'
  <2>1. srv[u] \in Servers /\ srv[u] \notin pool /\ \A v \in Users \ {u} : srv[v] # srv[u]
    BY <1>4 DEF Booted
  <2>2. OneUser'
    BY <2>1, <1>4 DEF Booted, Joins
  <2>3. (Phases /\ Booting)'
    BY <2>1, <1>4 DEF Booted, Joins
  <2>4. Held'
    <3>1. ASSUME NEW v \in Users \ {u} PROVE srv'[v] = srv[v] /\ pc'[v] = pc[v] /\ owned'[v] = owned[v]
      BY <1>4 DEF Booted
    <3>2. pc'[u] = "load" /\ srv' = srv /\ proc' = proc /\ owned'[u] = ~Joins(u)
      BY <1>4 DEF Booted
    <3>3. srv[u] \in pool' => srv[u] \in busy' /\ Joins(u)
      BY <1>4, <2>1 DEF Booted
    <3>4. ASSUME NEW v \in Users \ {u}, srv[v] \in pool' PROVE srv[v] \in pool /\ srv[v] \in busy'
      <4>1. srv[v] \in pool
        BY <1>4, <2>1, <3>4 DEF Booted
      <4> QED
        BY <1>4, <4>1 DEF Booted
    <3> QED
      BY <3>1, <3>2, <3>3, <3>4
  <2>5. Empty'
    BY <2>1, <1>4 DEF Booted, Joins
  <2>6. FreshDatabase'
    BY <2>1, <1>4 DEF Booted, Joins
  <2>7. Untied'
    BY <2>1, <1>4 DEF Booted, Joins
  <2>8. NoOrphan'
    <3>1. proc' = proc /\ srv' = srv /\ toStop' = toStop /\ sharing' = sharing /\ pool \subseteq pool'
      BY <1>4 DEF Booted
    <3>2. (sharing' /\ srv[u] \in pool') \/ owned'[u]
      <4>1. ASSUME Joins(u) PROVE sharing' /\ srv[u] \in pool'
        <5>1. sharing /\ sharing' = sharing /\ pool' = pool \cup {srv[u]}
          BY <1>4, <4>1 DEF Booted, Joins
        <5> QED
          BY <5>1
      <4>2. owned'[u] = ~Joins(u)
        BY <1>4 DEF Booted
      <4> QED
        BY <4>1, <4>2
    <3>3. ASSUME NEW v \in Users, v # u PROVE pc'[v] = pc[v] /\ owned'[v] = owned[v]
      BY <1>4, <3>3 DEF Booted
    <3>4. ASSUME NEW s \in Servers, proc'[s] \in Live, srv[u] # s
          PROVE \/ sharing' /\ s \in pool'
                \/ s \in toStop'
                \/ \E v \in Users : srv'[v] = s /\ (pc'[v] \in {"boot", "stop"} \/ owned'[v])
      <4>1. CASE \E v \in Users : srv[v] = s /\ (pc[v] \in {"boot", "stop"} \/ owned[v])
        BY <3>1, <3>3, <3>4, <4>1
      <4> QED
        BY <3>1, <3>4, <4>1
    <3> QED
      BY <3>1, <3>2, <3>4
  <2>9. AsDeclared'
    BY <2>1, <1>4 DEF Booted, Joins
  <2> QED
    BY <2>2, <2>3, <2>4, <2>5, <2>6, <2>7, <2>8, <2>9
<1>5. ASSUME NEW u \in Users, Load(u) PROVE IInv'
  BY <1>5 DEF Load
<1>6. ASSUME NEW u \in Users, EndUse(u) PROVE IInv'
  BY <1>6 DEF EndUse
<1>7. ASSUME NEW u \in Users, Drop(u) PROVE IInv'
  BY <1>7 DEF Drop
<1>8. ASSUME NEW u \in Users, Free(u) PROVE IInv'
  <2>1. srv[u] \in Servers /\ \A v \in Users \ {u} : srv[v] # srv[u]
    BY <1>8 DEF Free
  <2>2. OneUser'
    BY <2>1, <1>8 DEF Free
  <2>3. (Phases /\ Booting)'
    BY <2>1, <1>8 DEF Free
  <2>4. Held'
    BY <2>1, <1>8 DEF Free
  <2>5. Empty'
    BY <2>1, <1>8 DEF Free
  <2>6. FreshDatabase'
    BY <2>1, <1>8 DEF Free
  <2>7. Untied'
    BY <2>1, <1>8 DEF Free
  <2>8. NoOrphan'
    BY <2>1, <1>8 DEF Free
  <2>9. AsDeclared'
    BY <2>1, <1>8 DEF Free
  <2> QED
    BY <2>2, <2>3, <2>4, <2>5, <2>6, <2>7, <2>8, <2>9
<1>9. ASSUME NEW u \in Users, Evict(u) PROVE IInv'
  BY <1>9 DEF Evict
<1>10. ASSUME NEW u \in Users, Stop(u) PROVE IInv'
  BY <1>10 DEF Stop
<1>11. CASE MainShares
  BY <1>11 DEF MainShares
<1>12. CASE MainSweeps
  BY <1>12 DEF MainSweeps
<1>13. ASSUME NEW s \in Servers, MainStops(s) PROVE IInv'
  BY <1>13 DEF MainStops
<1>14. CASE MainEnds
  BY <1>14 DEF MainEnds
<1>15. ASSUME NEW s \in Servers, Crash(s) PROVE IInv'
  BY <1>15 DEF Crash
<1>16. ASSUME NEW u \in Users, CtxEnds(u) PROVE IInv'
  BY <1>16 DEF CtxEnds
<1>17. CASE UNCHANGED vars
  BY <1>17 DEF vars
<1> QED
  BY <1>1, <1>2, <1>3, <1>4, <1>5, <1>6, <1>7, <1>8, <1>9, <1>10, <1>11, <1>12, <1>13, <1>14, <1>15,
     <1>16, <1>17 DEF Next, Start, Step, MainStep, Outside

\* The inductive invariant holds throughout.
THEOREM Invariance == Spec => []IInv
  BY IInvInit, IInvNext, PTL DEF Spec

\* Type correctness of the pool, Main and the users; a user has a server exactly while it is not idle
\* (mysqltest.go, start to Close).
THEOREM TypeCorrect == Spec => []TypeOK
<1>1. IInv => TypeOK
  BY DEF IInv
<1> QED
  BY <1>1, Invariance, PTL

\* No two users ever have one server (acquire, release).
THEOREM Exclusive == Spec => []OneUser
<1>1. IInv => OneUser
  BY DEF IInv
<1> QED
  BY <1>1, Invariance, PTL

\* Every schema is loaded where no database of an earlier user is left (release, load).
THEOREM StartsFromNothing == Spec => []FreshDatabase
<1>1. IInv => FreshDatabase
  BY DEF IInv
<1> QED
  BY <1>1, Invariance, PTL

\* Every process that was started is somebody's to stop (acquire, release, Main).
THEOREM NothingLeaks == Spec => []NoOrphan
<1>1. IInv => NoOrphan
  BY DEF IInv
<1> QED
  BY <1>1, Invariance, PTL

\* A test never runs on a server with another test's options, though servers pass from one to
\* the next (acquire's search of the pool by key).
THEOREM RunsOnDeclared == Spec => []AsDeclared
<1>1. IInv => AsDeclared
  BY DEF IInv
<1> QED
  BY <1>1, Invariance, PTL

\* No server that another test may get ends with the context of the test that booted it.
THEOREM NobodyElsesContext == Spec => []OthersUntouched
<1>1. IInv => OthersUntouched
  BY DEF IInv, Untied
<1> QED
  BY <1>1, Invariance, PTL

\* The holder of a server somebody has is that user, and None when no user has it.
LEMMA HolderIs ==
  ASSUME NEW at, NEW s \in Servers, NEW u \in Users, at[u] = s,
         \A v \in Users : at[v] = s => v = u
  PROVE  HolderIn(at, s) = u
BY DEF HolderIn

LEMMA HolderNone ==
  ASSUME NEW at, NEW s \in Servers, \A v \in Users : at[v] # s
  PROVE  HolderIn(at, s) = None
BY DEF HolderIn

\* A user without a server who gets one that nobody has is its holder from then on.
LEMMA Getting ==
  ASSUME TypeOK, OneUser, NEW u \in Users, NEW s \in Servers, pc[u] = "idle",
         srv' = [srv EXCEPT ![u] = s], \A v \in Users : srv[v] # s
  PROVE  holderOf[s] = None /\ holderOf' = [holderOf EXCEPT ![s] = u]
<1> USE NoneAssumption DEF TypeOK
<1>1. srv[u] = None /\ srv'[u] = s /\ \A v \in Users : v # u => srv'[v] = srv[v]
  OBVIOUS
<1>2. HolderIn(srv, s) = None
  BY HolderNone
<1>3. HolderIn(srv', s) = u
  <2>1. \A v \in Users : srv'[v] = s => v = u
    BY <1>1
  <2> QED
    BY <1>1, <2>1 DEF HolderIn
<1>4. ASSUME NEW q \in Servers, q # s PROVE HolderIn(srv', q) = HolderIn(srv, q)
  <2>1. \A v \in Users : srv'[v] = q <=> srv[v] = q
    BY <1>1, <1>4
  <2> QED
    BY <2>1 DEF HolderIn
<1> QED
  BY <1>2, <1>3, <1>4 DEF holderOf

\* A user that gives up its server leaves it without a holder.
LEMMA GivingUp ==
  ASSUME TypeOK, OneUser, NEW u \in Users, pc[u] # "idle", srv' = [srv EXCEPT ![u] = None]
  PROVE  /\ srv[u] \in Servers /\ holderOf[srv[u]] # None
         /\ holderOf' = [holderOf EXCEPT ![srv[u]] = None]
<1> USE NoneAssumption DEF TypeOK, OneUser
<1> DEFINE s == srv[u]
<1>1. s \in Servers /\ s # None /\ \A v \in Users : srv[v] = s => v = u
  OBVIOUS
<1>2. srv'[u] = None /\ \A v \in Users : v # u => srv'[v] = srv[v]
  OBVIOUS
<1>3. HolderIn(srv, s) = u
  BY <1>1, HolderIs
<1>4. HolderIn(srv', s) = None
  BY <1>1, <1>2, HolderNone
<1>5. ASSUME NEW q \in Servers, q # s PROVE HolderIn(srv', q) = HolderIn(srv, q)
  <2>1. \A v \in Users : srv'[v] = q <=> srv[v] = q
    BY <1>1, <1>2, <1>5
  <2> QED
    BY <2>1 DEF HolderIn
<1>6. holderOf[s] = u /\ u # None
  BY <1>1, <1>3 DEF holderOf
<1>7. holderOf' = [holderOf EXCEPT ![s] = None]
  BY <1>1, <1>4, <1>5 DEF holderOf
<1> QED
  BY <1>1, <1>6, <1>7

\* Every step of the pool is a step of Lease, or changes nothing there.
LEMMA LeaseStep == IInv /\ [Next]_vars => [Lending!LNext]_(Lending!lvars)
<1> DEFINE closing == main \in {"stopping", "over"}
<1> SUFFICES ASSUME IInv, [Next]_vars PROVE [Lending!LNext]_(Lending!lvars)
  OBVIOUS
<1> USE DEF Lending!lvars, mainVars, serverVars, userVars
<1>0. TypeOK /\ OneUser
  BY DEF IInv
<1>1. ASSUME NEW u \in Users, NEW s \in Servers, pc[u] = "idle", srv' = [srv EXCEPT ![u] = s],
             \A v \in Users : srv[v] # s, s \notin stopped, stopped' = stopped, closing' = closing
      PROVE  Lending!LNext
  <2>1. holderOf[s] = None /\ holderOf' = [holderOf EXCEPT ![s] = u]
    BY <1>0, <1>1, Getting
  <2> QED
    BY <1>1, <2>1 DEF Lending!LNext, Lending!Lend
<1>2. ASSUME NEW u \in Users, NEW k \in Keys, TakeFree(u, k) PROVE Lending!LNext
  <2>1. PICK s \in FreeFor(k) : srv' = [srv EXCEPT ![u] = s]
    BY <1>2 DEF TakeFree
  <2>2. s \in Servers /\ s \in pool /\ s \notin busy
    BY <1>0 DEF FreeFor, TypeOK
  <2>3. \A v \in Users : srv[v] # s
    BY <1>0, <2>2, NoneAssumption DEF IInv, Held
  <2>4. s \notin stopped
    BY <2>2 DEF IInv, Booting, Live, stopped
  <2>5. stopped' = stopped /\ closing' = closing /\ pc[u] = "idle"
    BY <1>2 DEF TakeFree, stopped
  <2> QED
    BY <1>1, <2>1, <2>2, <2>3, <2>4, <2>5
<1>3. ASSUME NEW u \in Users, NEW k \in Keys, NEW own \in BOOLEAN, Boot(u, k, own) PROVE Lending!LNext
  <2>1. PICK s \in Servers : /\ proc[s] = "none" /\ proc' = [proc EXCEPT ![s] = "up"]
                             /\ srv' = [srv EXCEPT ![u] = s]
    BY <1>3 DEF Boot
  <2>2. \A v \in Users : srv[v] # s
    BY <2>1, NoneAssumption DEF IInv, Held
  <2>3. s \notin stopped /\ stopped' = stopped
    BY <1>0, <2>1 DEF stopped, TypeOK
  <2>4. closing' = closing /\ pc[u] = "idle"
    BY <1>3 DEF Boot
  <2> QED
    BY <1>1, <2>1, <2>2, <2>3, <2>4
<1>4. ASSUME NEW u \in Users, BootFails(u) \/ Stop(u) PROVE Lending!LNext
  <2>1. /\ pc[u] # "idle" /\ srv' = [srv EXCEPT ![u] = None] /\ closing' = closing
        /\ proc' = [proc EXCEPT ![srv[u]] = "removed"]
    BY <1>4 DEF BootFails, Stop
  <2>2. /\ srv[u] \in Servers /\ holderOf[srv[u]] # None
        /\ holderOf' = [holderOf EXCEPT ![srv[u]] = None]
    BY <1>0, <2>1, GivingUp
  <2>3. stopped' = stopped \cup {srv[u]}
    BY <1>0, <2>1, <2>2 DEF stopped, TypeOK
  <2> QED
    BY <2>1, <2>2, <2>3 DEF Lending!LNext, Lending!ReturnStopped
<1>5. ASSUME NEW u \in Users, Free(u) PROVE Lending!LNext
  <2>1. /\ pc[u] # "idle" /\ srv' = [srv EXCEPT ![u] = None] /\ closing' = closing
        /\ stopped' = stopped
    BY <1>5 DEF Free, stopped
  <2>2. /\ srv[u] \in Servers /\ holderOf[srv[u]] # None
        /\ holderOf' = [holderOf EXCEPT ![srv[u]] = None]
    BY <1>0, <2>1, GivingUp
  <2> QED
    BY <2>1, <2>2 DEF Lending!LNext, Lending!Return
<1>6. CASE MainSweeps
  <2>1. closing' = TRUE /\ holderOf' = holderOf /\ stopped' = stopped
    BY <1>6 DEF MainSweeps, holderOf, stopped
  <2> QED
    BY <2>1 DEF Lending!LNext, Lending!Close
<1>7. ASSUME NEW s \in Servers, MainStops(s) PROVE Lending!LNext
  <2>1. closing /\ closing' = closing /\ holderOf' = holderOf
    BY <1>7 DEF MainStops, holderOf
  <2>2. stopped' = stopped \cup {s}
    BY <1>0, <1>7 DEF MainStops, stopped, TypeOK
  <2> QED
    BY <2>1, <2>2 DEF Lending!LNext, Lending!Retire
<1>8. ASSUME srv' = srv, proc' = proc, closing' = closing PROVE UNCHANGED Lending!lvars
  BY <1>8 DEF holderOf, stopped
<1>9. ASSUME NEW u \in Users, Booted(u) \/ Load(u) \/ EndUse(u) \/ Drop(u) \/ Evict(u)
      PROVE UNCHANGED Lending!lvars
  BY <1>8, <1>9 DEF Booted, Load, EndUse, Drop, Evict
<1>10. CASE MainShares \/ MainEnds \/ UNCHANGED vars
  BY <1>8, <1>10 DEF MainShares, MainEnds, vars
<1>11. CASE Outside
  <2>1. srv' = srv /\ closing' = closing
    BY <1>11 DEF Outside, Crash, CtxEnds
  <2>2. stopped' = stopped
    BY <1>0, <1>11 DEF Outside, Crash, CtxEnds, stopped, TypeOK
  <2> QED
    BY <2>1, <2>2 DEF holderOf
<1> QED
  BY <1>2, <1>3, <1>4, <1>5, <1>6, <1>7, <1>9, <1>10, <1>11 DEF Next, Start, Step, MainStep

\* The pool implements the lending of servers: one user each, none lent again once stopped,
\* and none stopped under its user before m.Run has returned (mysqltest.go).
THEOREM Lends == Spec => LeaseSpec
<1>1. Init => Lending!LInit
  <2> SUFFICES ASSUME Init PROVE Lending!LInit
    OBVIOUS
  <2>1. \A s \in Servers : HolderIn(srv, s) = None
    BY NoneAssumption, HolderNone DEF Init
  <2>2. holderOf = [s \in Servers |-> None]
    BY <2>1 DEF holderOf
  <2>3. stopped = {}
    BY DEF Init, stopped
  <2> QED
    BY <2>2, <2>3 DEF Init, Lending!LInit
<1> QED
  BY <1>1, LeaseStep, Invariance, PTL DEF Spec, LeaseSpec, Lending!LSpec
=============================================================================
