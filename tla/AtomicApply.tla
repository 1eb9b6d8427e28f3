---------------------------- MODULE AtomicApply ----------------------------
(***************************************************************************)
(* What apply promises on PostgreSQL: a DDL file runs on the database as   *)
(* it stands, all of it and in one step, or nothing of it runs; it does    *)
(* not run where a statement of it would be refused.  Between such steps   *)
(* the database changes only by statements typed by hand.                  *)
(***************************************************************************)
EXTENDS Ddl

CONSTANT Runs

VARIABLES
  db,      \* the database
  file,    \* the DDL file each run has taken up
  applied  \* the runs whose file is in the database

avars == <<db, file, applied>>

AInit == db \in Schemas /\ file = [r \in Runs |-> <<>>] /\ applied = {}

\* a run takes up a file
Take(r) ==
  /\ file' \in [Runs -> Seq(Statements)]
  /\ \A q \in Runs \ {r} : file'[q] = file[q]
  /\ applied' = applied \ {r}
  /\ UNCHANGED db

\* the file runs, whole
Apply(r) ==
  /\ r \notin applied
  /\ applied' = applied \cup {r}
  /\ Reaches(file[r], db, db')
  /\ UNCHANGED file

\* a statement typed by hand
Edit ==
  /\ \E o \in Objects, v \in Versions \cup {None} : db' = [db EXCEPT ![o] = v]
  /\ UNCHANGED <<file, applied>>

ANext == (\E r \in Runs : Take(r) \/ Apply(r)) \/ Edit

ASpec == AInit /\ [][ANext]_avars
=============================================================================
