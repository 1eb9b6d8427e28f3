--------------------------- MODULE RuntimeProofs ---------------------------
(***************************************************************************)
(* Proofs about Run, for any callers, connections and recreations of the   *)
(* type.  With and without a pool, what a Scanner is handed came in text;  *)
(* with connections of their own, callers do not meet the refused plan of  *)
(* an earlier recreation, and a Run that finds all in place executes once. *)
(***************************************************************************)
EXTENDS Runtime, TLAPS

\* Open rows have a column of some type, in text when the attempt asked for formats.
Asked ==
  \A u \in Callers :
    pc[u] \in {"types", "map", "store", "read", "last"} =>
      rows[u] \in Oids /\ (formats[u] # 0 => inText[u])

\* A Scanner's mapper asks for text, and the last Query is made with what it asks for.
Wanted ==
  \A u \in Callers :
    /\ Scanned /\ pc[u] \in {"store", "read"} => mapper[u] # 0
    /\ pc[u] = "text" => mapper[u] # 0
    /\ pc[u] = "last" => inText[u]

\* The inductive invariant.
IInv == TypeOK /\ Asked /\ Wanted

\* Nothing runs at first.
LEMMA IInvInit == Init => IInv
BY RuntimeAssumption DEF Init, IInv, TypeOK, Asked, Wanted, Oids, AtConnect

\* An execution leaves open rows at a place where rows are open.
LEMMA ExecuteType ==
  ASSUME TypeOK, NEW u \in Callers, NEW c \in Conns, NEW f, NEW next \in {"types", "map", "last"},
         Executes(u, c, f, next),
         UNCHANGED <<oid, known, formats, retried, mapper, quiet, ready>>, UNCHANGED cacheVars
  PROVE  TypeOK'
<1> USE RuntimeAssumption DEF TypeOK, Oids, cacheVars
<1>1. (f # 0 \/ oid \notin known[c]) \in BOOLEAN
  OBVIOUS
<1>2. inText' \in [Callers -> BOOLEAN]
  BY <1>1 DEF Executes
<1>3. execs' \in [Callers -> 0 .. MaxExecs]
  <2>1. execs[u] \in 0 .. MaxExecs
    OBVIOUS
  <2> HIDE DEF TypeOK
  <2>2. MaxExecs \in Nat
    BY RuntimeAssumption
  <2>3. (IF execs[u] = MaxExecs THEN execs[u] ELSE execs[u] + 1) \in 0 .. MaxExecs
    BY <2>1, <2>2
  <2> QED
    BY <2>3 DEF Executes, TypeOK
<1>4. rows' \in [Callers -> 0 .. MaxOid] /\ plan' \in [Conns -> 0 .. MaxOid]
  BY DEF Executes
<1>5. \A v \in Callers : rows'[v] # 0 <=> pc'[v] \in {"types", "map", "store", "read", "last"}
  BY DEF Executes
<1> QED
  BY <1>2, <1>3, <1>4, <1>5 DEF Executes

\* A Query of an attempt keeps the types.
LEMMA QueryType ==
  ASSUME TypeOK, NEW u \in Callers, NEW at \in {"query", "again"}, NEW next \in {"types", "map"},
         Query(u, at, next)
  PROVE  TypeOK'
<1> USE RuntimeAssumption
<1>1. PICK c \in Available(u) :
        \/ Executes(u, c, formats[u], next)
        \/ StaleResult(u, c, formats[u]) /\ pc' = [pc EXCEPT ![u] = "stale"] /\ UNCHANGED got
        \/ OtherError(u)
  BY DEF Query
<1>2. c \in Conns
  BY DEF Available
<1>3. /\ pc[u] = at
      /\ UNCHANGED <<oid, known, formats, retried, mapper, quiet, ready>> /\ UNCHANGED cacheVars
  BY DEF Query
<1>4. CASE Executes(u, c, formats[u], next)
  BY <1>2, <1>3, <1>4, ExecuteType
<1>5. CASE StaleResult(u, c, formats[u]) /\ pc' = [pc EXCEPT ![u] = "stale"] /\ UNCHANGED got
  BY <1>2, <1>3, <1>5 DEF StaleResult, TypeOK, Oids, cacheVars
<1>6. CASE OtherError(u)
  BY <1>2, <1>3, <1>6 DEF OtherError, TypeOK, Oids, cacheVars
<1> QED
  BY <1>1, <1>4, <1>5, <1>6

\* Every step keeps the variables in their types.
LEMMA TypeNext == TypeOK /\ [Next]_vars => TypeOK'
<1> SUFFICES ASSUME TypeOK, [Next]_vars PROVE TypeOK'
  OBVIOUS
<1> USE RuntimeAssumption DEF TypeOK, Oids, connVars, cacheVars, runVars
<1>1. ASSUME NEW u \in Callers, Begin(u) PROVE TypeOK'
  <2>1. InPlace(u) \in BOOLEAN
    BY DEF InPlace
  <2> QED
    BY <1>1, <2>1 DEF Begin
<1>2. ASSUME NEW u \in Callers, Query(u, "query", "types") PROVE TypeOK'
  BY <1>2, QueryType
<1>3. ASSUME NEW u \in Callers, Query(u, "again", "map") PROVE TypeOK'
  BY <1>3, QueryType
<1>4. ASSUME NEW u \in Callers, Retry(u) PROVE TypeOK'
  BY <1>4 DEF Retry
<1>5. ASSUME NEW u \in Callers, Types(u) PROVE TypeOK'
  BY <1>5 DEF Types, CloseRows
<1>6. ASSUME NEW u \in Callers, Load(u) PROVE TypeOK'
  <2>1. known' \in [Conns -> SUBSET Oids]
    <3>1. CASE conn[u] \in Conns
      BY <1>6, <3>1 DEF Load, Registered
    <3>2. CASE conn[u] \notin Conns
      BY <1>6, <3>2 DEF Load
    <3> QED
      BY <3>1, <3>2
  <2> QED
    BY <1>6, <2>1 DEF Load
<1>7. ASSUME NEW u \in Callers, Map(u) PROVE TypeOK'
  BY <1>7 DEF Map
<1>8. ASSUME NEW u \in Callers, StoreMapper(u) PROVE TypeOK'
  BY <1>8 DEF StoreMapper
<1>9. ASSUME NEW u \in Callers, RememberFormats(u) PROVE TypeOK'
  BY <1>9 DEF RememberFormats, CloseRows, NeedsText
<1>10. ASSUME NEW u \in Callers, QueryText(u) PROVE TypeOK'
  <2>1. PICK c \in Available(u) :
          \/ Executes(u, c, mapper[u], "last")
          \/ StaleResult(u, c, mapper[u]) /\ got' = [got EXCEPT ![u] = "stale"] /\ pc' = [pc EXCEPT ![u] = "idle"]
          \/ OtherError(u)
    BY <1>10 DEF QueryText
  <2>2. c \in Conns /\ pc[u] = "text"
    BY <1>10 DEF Available, QueryText
  <2>3. /\ UNCHANGED <<oid, known, formats, retried, mapper, quiet, ready>> /\ UNCHANGED cacheVars
    BY <1>10 DEF QueryText
  <2>4. CASE Executes(u, c, mapper[u], "last")
    BY <2>2, <2>3, <2>4, ExecuteType
  <2>5. CASE StaleResult(u, c, mapper[u]) /\ got' = [got EXCEPT ![u] = "stale"] /\ pc' = [pc EXCEPT ![u] = "idle"]
    <3>1. plan' \in [Conns -> 0 .. MaxOid]
      BY <2>2, <2>5 DEF StaleResult
    <3>2. UNCHANGED <<user, rows, inText, conn, execs>>
      BY <2>5 DEF StaleResult
    <3>3. \A v \in Callers : rows'[v] # 0 <=> pc'[v] \in {"types", "map", "store", "read", "last"}
      BY <2>2, <2>5, <3>2
    <3> QED
      BY <2>2, <2>3, <2>5, <3>1, <3>2, <3>3
  <2>6. CASE OtherError(u)
    BY <2>2, <2>3, <2>6 DEF OtherError
  <2> QED
    BY <2>1, <2>4, <2>5, <2>6
<1>11. ASSUME NEW u \in Callers, Read(u) PROVE TypeOK'
  <2>2. \A v \in Callers : rows'[v] # 0 <=> pc'[v] \in {"types", "map", "store", "read", "last"}
    BY <1>11 DEF Read, CloseRows
  <2>3. user' \in [Conns -> Callers \cup {None}] /\ rows' \in [Callers -> 0 .. MaxOid]
    <3>1. user' = [user EXCEPT ![conn[u]] = None] /\ rows' = [rows EXCEPT ![u] = 0]
      BY <1>11 DEF Read, CloseRows
    <3>2. rows' \in [Callers -> 0 .. MaxOid]
      BY <3>1
    <3>3. user \in [Conns -> Callers \cup {None}]
      OBVIOUS
    <3> HIDE DEF TypeOK
    <3>4. user' \in [Conns -> Callers \cup {None}]
      BY <3>1, <3>3
    <3> QED
      BY <3>2, <3>4
  <2>4. /\ got' = [got EXCEPT ![u] = "rows"] /\ pc' = [pc EXCEPT ![u] = "idle"]
        /\ UNCHANGED <<oid, known, plan, conn, formats, retried, inText, mapper, execs, quiet, ready>>
        /\ UNCHANGED cacheVars
    BY <1>11 DEF Read
  <2> QED
    BY <2>2, <2>3, <2>4
<1>12. CASE Recreate
  BY <1>12 DEF Recreate
<1>13. ASSUME NEW c \in Conns, Connect(c) PROVE TypeOK'
  BY <1>13 DEF Connect, AtConnect
<1>14. CASE UNCHANGED vars
  BY <1>14 DEF vars
<1> QED
  BY <1>1, <1>2, <1>3, <1>4, <1>5, <1>6, <1>7, <1>8, <1>9, <1>10, <1>11, <1>12, <1>13, <1>14 DEF Next, Step

\* Every step keeps the inductive invariant.
LEMMA IInvNext == IInv /\ [Next]_vars => IInv'
<1> SUFFICES ASSUME IInv, [Next]_vars PROVE IInv'
  OBVIOUS
<1>0. TypeOK'
  BY TypeNext DEF IInv
<1> USE <1>0, RuntimeAssumption DEF IInv, Asked, Wanted, TypeOK, Oids, connVars, cacheVars, runVars
<1>1. ASSUME NEW u \in Callers, Begin(u) PROVE IInv'
  BY <1>1 DEF Begin
<1>2. ASSUME NEW u \in Callers, Query(u, "query", "types") PROVE IInv'
  BY <1>2 DEF Query, Available, Executes, StaleResult, OtherError
<1>3. ASSUME NEW u \in Callers, Query(u, "again", "map") PROVE IInv'
  BY <1>3 DEF Query, Available, Executes, StaleResult, OtherError
<1>4. ASSUME NEW u \in Callers, Retry(u) PROVE IInv'
  BY <1>4 DEF Retry
<1>5. ASSUME NEW u \in Callers, Types(u) PROVE IInv'
  BY <1>5 DEF Types, CloseRows
<1>6. ASSUME NEW u \in Callers, Load(u) PROVE IInv'
  BY <1>6 DEF Load, Registered
<1>7. ASSUME NEW u \in Callers, Map(u) PROVE IInv'
  BY <1>7 DEF Map
<1>8. ASSUME NEW u \in Callers, StoreMapper(u) PROVE IInv'
  BY <1>8 DEF StoreMapper
<1>9. ASSUME NEW u \in Callers, RememberFormats(u) PROVE IInv'
  BY <1>9 DEF RememberFormats, CloseRows, NeedsText
<1>10. ASSUME NEW u \in Callers, QueryText(u) PROVE IInv'
  BY <1>10 DEF QueryText, Available, Executes, StaleResult, OtherError
<1>11. ASSUME NEW u \in Callers, Read(u) PROVE IInv'
  BY <1>11 DEF Read, Scanning, NeedsText, CloseRows
<1>12. CASE Recreate
  BY <1>12 DEF Recreate
<1>13. ASSUME NEW c \in Conns, Connect(c) PROVE IInv'
  BY <1>13 DEF Connect, AtConnect
<1>14. CASE UNCHANGED vars
  BY <1>14 DEF vars
<1> QED
  BY <1>1, <1>2, <1>3, <1>4, <1>5, <1>6, <1>7, <1>8, <1>9, <1>10, <1>11, <1>12, <1>13, <1>14 DEF Next, Step

\* Type correctness of connections, caches and Runs; rows are open exactly while they are
\* looked at (runtime.go, runAttempt).
THEOREM TypeCorrect == Spec => []TypeOK
<1>1. IInv => TypeOK
  BY DEF IInv
<1> QED
  BY <1>1, IInvInit, IInvNext, PTL DEF Spec

\* Whatever the caches hold and whoever filled them, with a pool or without, a Scanner is
\* never handed binary (runtime.go, newMapper and runAttempt).
THEOREM ScannersGetText == Spec => []ScannerGetsText
<1>1. IInv => ScannerGetsText
  BY DEF IInv, Asked, Wanted, ScannerGetsText, Scanning, NeedsText
<1> QED
  BY <1>1, IInvInit, IInvNext, PTL DEF Spec
-----------------------------------------------------------------------------
(***************************************************************************)
(* Callers on connections of their own.                                    *)
(***************************************************************************)
Underway == {"types", "load", "again", "map", "store", "read", "text", "last"}

\* A Run that has executed used its caller's connection.
Own == \A u \in Callers : pc[u] \in Underway => conn[u] = u

\* Its plan is of today's type, unless the type was recreated meanwhile.
Fresh == \A u \in Callers : quiet[u] /\ pc[u] \in Underway => plan[u] = oid

\* Only a Scanner's column is asked for in text.
Unscanned == ~Scanned => mapperCache = 0 /\ \A u \in Callers : mapper[u] = 0

\* A Run that found everything in place still has it, and has not executed twice.
InOrder(u) ==
  /\ pc[u] \in {"idle", "query", "types", "map", "store", "read"}
  /\ execs[u] <= 1
  /\ pc[u] = "query" => execs[u] = 0 /\ plan[u] \in {0, oid}
  /\ pc[u] # "idle" => oid \in known[u] /\ (Scanned => formats[u] # 0)
  /\ pc[u] = "types" => rows[u] = oid
Kept == \A u \in Callers : ready[u] /\ quiet[u] => InOrder(u)

OwnInv == IInv /\ Own /\ Fresh /\ Unscanned /\ KeepsWorking /\ Kept

\* Nothing runs at first, and nothing is ready.
LEMMA OwnInit == Init => OwnInv
<1> SUFFICES ASSUME Init PROVE OwnInv
  OBVIOUS
<1>1. IInv
  BY IInvInit
<1>2. Own /\ Fresh /\ Unscanned /\ KeepsWorking /\ Kept
  BY DEF Init, Own, Fresh, Unscanned, KeepsWorking, Kept, Underway
<1> QED
  BY <1>1, <1>2 DEF OwnInv

\* With a connection of its own, a caller is offered no other.
LEMMA OwnConnection ==
  ASSUME ~Pooled, NEW u \in Callers
  PROVE  Available(u) = {u} /\ u \in Conns
BY RuntimeAssumption DEF Available

\* Every step keeps the invariant, for callers on their own connections.
LEMMA OwnNext == ~Pooled /\ OwnInv /\ [Next]_vars => OwnInv'
<1> SUFFICES ASSUME ~Pooled, OwnInv, [Next]_vars PROVE OwnInv'
  OBVIOUS
<1>0. IInv' /\ TypeOK /\ TypeOK' /\ Conns = Callers
  BY IInvNext, RuntimeAssumption DEF OwnInv, IInv
<1>t. /\ oid \in Oids
      /\ plan \in [Conns -> 0 .. MaxOid] /\ known \in [Conns -> SUBSET Oids]
      /\ pc \in [Callers -> {"idle", "query", "types", "load", "again", "map", "store", "text", "read", "last", "stale"}]
      /\ conn \in [Callers -> Conns \cup {None}]
      /\ formats \in [Callers -> 0 .. MaxOid] /\ mapper \in [Callers -> 0 .. MaxOid]
      /\ rows \in [Callers -> 0 .. MaxOid]
      /\ execs \in [Callers -> 0 .. MaxExecs]
      /\ quiet \in [Callers -> BOOLEAN] /\ ready \in [Callers -> BOOLEAN]
      /\ got \in [Callers -> {"nothing", "rows", "error", "stale"}]
      /\ MaxOid \in Nat \ {0} /\ MaxExecs \in Nat \ {0} /\ Conns = Callers
  BY <1>0, RuntimeAssumption DEF TypeOK
<1> USE <1>t DEF Underway, Oids
<1> DEFINE Rest == Own /\ Fresh /\ Unscanned /\ KeepsWorking /\ Kept
<1>i. Rest
  BY DEF OwnInv
<1>1. ASSUME NEW u \in Callers, Begin(u) PROVE Rest'
  BY <1>1, <1>i, <1>0 DEF Begin, InPlace, Own, Fresh, Unscanned, KeepsWorking, Kept, InOrder, connVars, cacheVars
<1>2. ASSUME NEW u \in Callers, Query(u, "query", "types") PROVE Rest'
  <2>1. Available(u) = {u} /\ u \in Conns
    BY OwnConnection
  <2>2. /\ pc[u] = "query" /\ UNCHANGED <<oid, known, formats, retried, mapper, quiet, ready>> /\ UNCHANGED cacheVars
    BY <1>2 DEF Query
  <2>3. CASE Executes(u, u, formats[u], "types")
    BY <2>2, <2>3, <1>i, <1>0, RuntimeAssumption DEF Executes, Own, Fresh, Unscanned, KeepsWorking, Kept, InOrder, cacheVars
  <2>4. CASE StaleResult(u, u, formats[u]) /\ pc' = [pc EXCEPT ![u] = "stale"] /\ UNCHANGED got
    BY <2>2, <2>4, <1>i, <1>0 DEF StaleResult, Refused, Own, Fresh, Unscanned, KeepsWorking, Kept, InOrder, cacheVars
  <2>5. CASE OtherError(u)
    BY <2>2, <2>5, <1>i, <1>0 DEF OtherError, Own, Fresh, Unscanned, KeepsWorking, Kept, InOrder, cacheVars
  <2> QED
    BY <2>1, <2>3, <2>4, <2>5, <1>2 DEF Query
<1>3. ASSUME NEW u \in Callers, Query(u, "again", "map") PROVE Rest'
  <2>1. Available(u) = {u} /\ u \in Conns
    BY OwnConnection
  <2>2. /\ pc[u] = "again" /\ UNCHANGED <<oid, known, formats, retried, mapper, quiet, ready>> /\ UNCHANGED cacheVars
    BY <1>3 DEF Query
  <2>3. CASE Executes(u, u, formats[u], "map")
    BY <2>2, <2>3, <1>i, <1>0, RuntimeAssumption DEF Executes, Own, Fresh, Unscanned, KeepsWorking, Kept, InOrder, cacheVars
  <2>4. CASE StaleResult(u, u, formats[u]) /\ pc' = [pc EXCEPT ![u] = "stale"] /\ UNCHANGED got
    BY <2>2, <2>4, <1>i, <1>0 DEF StaleResult, Refused, Own, Fresh, Unscanned, KeepsWorking, Kept, InOrder, cacheVars
  <2>5. CASE OtherError(u)
    BY <2>2, <2>5, <1>i, <1>0 DEF OtherError, Own, Fresh, Unscanned, KeepsWorking, Kept, InOrder, cacheVars
  <2> QED
    BY <2>1, <2>3, <2>4, <2>5, <1>3 DEF Query
<1>4. ASSUME NEW u \in Callers, Retry(u) PROVE Rest'
  BY <1>4, <1>i DEF Retry, Own, Fresh, Unscanned, KeepsWorking, Kept, InOrder, connVars
<1>5. ASSUME NEW u \in Callers, Types(u) PROVE Rest'
  BY <1>5, <1>i DEF Types, CloseRows, Own, Fresh, Unscanned, KeepsWorking, Kept, InOrder, cacheVars
<1>6. ASSUME NEW u \in Callers, Load(u) PROVE Rest'
  BY <1>6, <1>i DEF Load, Own, Fresh, Unscanned, KeepsWorking, Kept, InOrder, cacheVars
<1>7. ASSUME NEW u \in Callers, Map(u) PROVE Rest'
  BY <1>7, <1>i DEF Map, Own, Fresh, Unscanned, KeepsWorking, Kept, InOrder, cacheVars, connVars
<1>8. ASSUME NEW u \in Callers, StoreMapper(u) PROVE Rest'
  BY <1>8, <1>i DEF StoreMapper, Own, Fresh, Unscanned, KeepsWorking, Kept, InOrder, connVars
<1>9. ASSUME NEW u \in Callers, RememberFormats(u) PROVE Rest'
  BY <1>9, <1>i DEF RememberFormats, NeedsText, CloseRows, Own, Fresh, Unscanned, KeepsWorking, Kept, InOrder
<1>10. ASSUME NEW u \in Callers, QueryText(u) PROVE Rest'
  <2>1. Available(u) = {u} /\ u \in Conns
    BY OwnConnection
  <2>2. /\ pc[u] = "text" /\ UNCHANGED <<oid, known, formats, retried, mapper, quiet, ready>> /\ UNCHANGED cacheVars
    BY <1>10 DEF QueryText
  <2>3. CASE Executes(u, u, mapper[u], "last")
    BY <2>2, <2>3, <1>i, <1>0, RuntimeAssumption DEF Executes, Own, Fresh, Unscanned, KeepsWorking, Kept, InOrder, cacheVars
  <2>4. CASE /\ StaleResult(u, u, mapper[u])
             /\ got' = [got EXCEPT ![u] = "stale"] /\ pc' = [pc EXCEPT ![u] = "idle"]
    BY <2>2, <2>4, <1>i, <1>0 DEF StaleResult, Refused, Own, Fresh, Unscanned, KeepsWorking, Kept, InOrder, cacheVars
  <2>5. CASE OtherError(u)
    BY <2>2, <2>5, <1>i, <1>0 DEF OtherError, Own, Fresh, Unscanned, KeepsWorking, Kept, InOrder, cacheVars
  <2> QED
    BY <2>1, <2>3, <2>4, <2>5, <1>10 DEF QueryText
<1>11. ASSUME NEW u \in Callers, Read(u) PROVE Rest'
  BY <1>11, <1>i DEF Read, Scanning, CloseRows, Own, Fresh, Unscanned, KeepsWorking, Kept, InOrder, cacheVars
<1>12. ASSUME Recreate PROVE Rest'
  BY <1>12, <1>i DEF Recreate, Own, Fresh, Unscanned, KeepsWorking, Kept, cacheVars, connVars
<1>13. ASSUME NEW c \in Conns, Connect(c) PROVE Rest'
  BY <1>13, <1>i, <1>0 DEF Connect, Own, Fresh, Unscanned, KeepsWorking, Kept, cacheVars
<1>14. ASSUME UNCHANGED vars PROVE Rest'
  BY <1>14, <1>i DEF vars, connVars, cacheVars, runVars, Own, Fresh, Unscanned, KeepsWorking, Kept, InOrder
<1> HIDE DEF Rest
<1>15. Rest'
  BY <1>1, <1>2, <1>3, <1>4, <1>5, <1>6, <1>7, <1>8, <1>9, <1>10, <1>11, <1>12, <1>13, <1>14 DEF Next, Step
<1> QED
  BY <1>0, <1>15 DEF OwnInv, Rest

\* With connections of their own, callers meet 0A000 only when the type is recreated while
\* their Run is under way, however often it was recreated before (docs/postgres.md).
THEOREM RunsKeepWorking == ~Pooled => (Spec => []KeepsWorking)
<1> SUFFICES ASSUME ~Pooled PROVE Spec => []KeepsWorking
  OBVIOUS
<1>1. OwnInv /\ [Next]_vars => OwnInv'
  BY OwnNext
<1>2. OwnInv => KeepsWorking
  BY DEF OwnInv
<1> QED
  BY <1>1, <1>2, OwnInit, PTL DEF Spec

\* A Run that finds everything in place executes its statement once, whatever the other
\* callers do to the caches (runtime.go, runAttempt).
THEOREM RunsOnce == ~Pooled => (Spec => []OnceWhenReady)
<1> SUFFICES ASSUME ~Pooled PROVE Spec => []OnceWhenReady
  OBVIOUS
<1>1. OwnInv /\ [Next]_vars => OwnInv'
  BY OwnNext
<1>2. OwnInv => OnceWhenReady
  BY DEF OwnInv, Kept, InOrder, OnceWhenReady
<1> QED
  BY <1>1, <1>2, OwnInit, PTL DEF Spec
=============================================================================
