----------------------------- MODULE MCMigrate -----------------------------
(***************************************************************************)
(* Small instances of Migrate: two operators, a table t and a second       *)
(* object u (the rows of a seeded table, or a routine), two definitions of *)
(* each.                                                                   *)
(***************************************************************************)
EXTENDS Migrate

CONSTANTS t, u, v1, v2, v3

MCObjects == {t, u}
MCVersions == {v1, v2}
MCMoreVersions == {v1, v2, v3}
\* v3 is v1 with another default
MCTypeOf == [v \in {v1, v2} |-> v]
MCMoreTypes == [v \in {v1, v2, v3} |-> IF v = v3 THEN v1 ELSE v]
Schema(x, y) == [o \in MCObjects |-> IF o = t THEN x ELSE y]

\* one release and the next; on the way back the table changes and u goes
Old == Schema(v1, None)
Newer == Schema(v2, v1)
MCStart == {Old}
MCTargets == {Old, Newer, Schema(v3, v1)}
MCNext == {Newer}

\* written by hand for the next release, in the order diff would not take: one that stops where
\* u is there already, and one that runs again on what it made
MCFiles ==
  { <<Stmt("create", u, v1), Stmt("alter", t, v2)>>,
    <<Stmt("update", t, None), Stmt("replace", u, v1), Stmt("alter", t, v2)>> }
\* the objects in opposite orders
MCCrossing ==
  { <<Stmt("create", u, v1), Stmt("alter", t, v2)>>,
    <<Stmt("alter", t, v2), Stmt("update", t, None), Stmt("replace", u, v1)>> }
MCAgain == { <<Stmt("update", t, None), Stmt("replace", u, v1), Stmt("alter", t, v2)>> }

Flag(packages, force, dryRun, noTx) ==
  [packages |-> packages, force |-> force, dryRun |-> dryRun, noTx |-> noTx]
MCPlain == {Flag(FALSE, FALSE, FALSE, FALSE)}
MCTransactions == {Flag(FALSE, FALSE, FALSE, b) : b \in BOOLEAN}
MCChecks == MCPlain \cup
  {Flag(TRUE, FALSE, FALSE, FALSE), Flag(TRUE, TRUE, FALSE, FALSE), Flag(TRUE, FALSE, TRUE, FALSE)}
MCNoCode == {{}}
MCCode == {{}, {t}}
=============================================================================
