------------------------------- MODULE Lease -------------------------------
(***************************************************************************)
(* What mysqltest promises about its servers: a server is lent to one user *)
(* at a time, never again once it is retired, and nobody retires a server  *)
(* under its user before the package's tests are over.                     *)
(***************************************************************************)
CONSTANTS Users, Servers, None

VARIABLES
  holder,   \* the user of each server, or None
  retired,  \* the servers that were stopped
  closing   \* the package's tests are over

lvars == <<holder, retired, closing>>

LInit == holder = [s \in Servers |-> None] /\ retired = {} /\ closing = FALSE

Lend(s, u) ==
  /\ holder[s] = None /\ s \notin retired
  /\ holder' = [holder EXCEPT ![s] = u]
  /\ UNCHANGED <<retired, closing>>

Return(s) ==
  /\ holder[s] # None
  /\ holder' = [holder EXCEPT ![s] = None]
  /\ UNCHANGED <<retired, closing>>

\* a user gives a server back by stopping it
ReturnStopped(s) ==
  /\ holder[s] # None
  /\ holder' = [holder EXCEPT ![s] = None]
  /\ retired' = retired \cup {s}
  /\ UNCHANGED closing

Close == closing' = TRUE /\ UNCHANGED <<holder, retired>>

Retire(s) ==
  /\ closing
  /\ retired' = retired \cup {s}
  /\ UNCHANGED <<holder, closing>>

LNext ==
  \/ \E s \in Servers : (\E u \in Users : Lend(s, u)) \/ Return(s) \/ ReturnStopped(s) \/ Retire(s)
  \/ Close

LSpec == LInit /\ [][LNext]_lvars
=============================================================================
