---------------------------- MODULE TemplateDir ----------------------------
(***************************************************************************)
(* mysqltest.go, ensureTemplate and copyTree: the starts of servers, of    *)
(* one test process or of many, share one template of a data directory,    *)
(* which the first of them has mysqld write.  A directory is named after   *)
(* the start whose mysqld made it.  A start may be killed; its mysqld is   *)
(* not asked to stop with it and writes on, and the file lock is the       *)
(* kernel's to give back.                                                  *)
(***************************************************************************)
EXTENDS Naturals

CONSTANTS
  Starts,   \* the starts that find no server to share
  Files,    \* how many files mysqld --initialize writes, one after the other
  Ibd,      \* which of them is mysql.ibd
  None

ASSUME StartsAssumption == None \notin Starts
ASSUME FilesAssumption == Files \in Nat /\ Ibd \in 1..Files

VARIABLES
  pc,        \* where each start is
  holder,    \* who has the lock on init.lock
  tmp,       \* the directory at template.tmp
  template,  \* the directory at template
  child,     \* each start's mysqld --initialize
  written,   \* how many files it has written into the directory it made
  refusal    \* why a start has failed

vars == <<pc, holder, tmp, template, child, written, refusal>>
dirVars == <<tmp, template, child, written>>

Inside == {"look again", "clear", "initialize", "wait", "rename"}

TypeOK ==
  /\ pc \in [Starts -> {"idle", "look", "lock", "copy", "done", "failed", "killed"} \cup Inside]
  /\ holder \in Starts \cup {None}
  /\ tmp \in Starts \cup {None}
  /\ template \in Starts \cup {None}
  /\ child \in [Starts -> {"none", "running", "ended", "broken"}]
  /\ written \in [Starts -> 0..Files]
  /\ refusal \in [Starts -> {"none", "initialize", "not empty", "rename"}]

Init ==
  /\ pc = [s \in Starts |-> "idle"]
  /\ holder = None
  /\ tmp = None
  /\ template = None
  /\ child = [s \in Starts |-> "none"]
  /\ written = [s \in Starts |-> 0]
  /\ refusal = [s \in Starts |-> "none"]

Goes(s, where) == pc' = [pc EXCEPT ![s] = where]

\* os.Stat of template/mysql.ibd.
Found == template # None /\ written[template] >= Ibd

(***************************************************************************)
(* A start.                                                                *)
(***************************************************************************)
\* A start comes, or one that failed is tried again, when its mysqld is over.
Come(s) ==
  /\ pc[s] \in {"idle", "failed"}
  /\ child[s] # "running"
  /\ Goes(s, "look")
  /\ refusal' = [refusal EXCEPT ![s] = "none"]
  /\ UNCHANGED <<holder, tmp, template, child, written>>

Look(s) ==
  /\ pc[s] = "look"
  /\ Goes(s, IF Found THEN "copy" ELSE "lock")
  /\ UNCHANGED <<holder, tmp, template, child, written, refusal>>

\* A mutant of Take below: a lock that keeps nobody out, as lock_windows.go has it.
TakeAtOnce(s) ==
  /\ pc[s] = "lock"
  /\ holder' = s
  /\ Goes(s, "look again")
  /\ UNCHANGED <<tmp, template, child, written, refusal>>

Take(s) ==
  /\ pc[s] = "lock"
  /\ holder = None
  /\ holder' = s
  /\ Goes(s, "look again")
  /\ UNCHANGED <<tmp, template, child, written, refusal>>

\* A mutant of Leave below: an error returns without the deferred unlock.
LeaveLocked(s, where, why) ==
  /\ Goes(s, where)
  /\ holder' = IF why = "none" THEN None ELSE holder
  /\ refusal' = [refusal EXCEPT ![s] = why]

\* ensureTemplate returns under the lock, which it gives back.
Leave(s, where, why) ==
  /\ Goes(s, where)
  /\ holder' = None
  /\ refusal' = [refusal EXCEPT ![s] = why]

LookAgain(s) ==
  /\ pc[s] = "look again"
  /\ \/ Found /\ Leave(s, "copy", "none")
     \/ ~Found /\ Goes(s, "clear") /\ UNCHANGED <<holder, refusal>>
  /\ UNCHANGED dirVars

\* A mutant of Clear below: what is at template.tmp is left there.
ClearNothing(s) ==
  /\ pc[s] = "clear"
  /\ Goes(s, "initialize")
  /\ UNCHANGED <<holder, tmp, template, child, written, refusal>>

\* os.RemoveAll, whose error is not looked at: it fails when a mysqld still writes there.
Clear(s) ==
  /\ pc[s] = "clear"
  /\ \/ tmp' = None
     \/ tmp # None /\ child[tmp] = "running" /\ tmp' = tmp
  /\ Goes(s, "initialize")
  /\ UNCHANGED <<holder, template, child, written, refusal>>

\* mysqld makes the directory, and takes none that has files in it.
Initialize(s) ==
  /\ pc[s] = "initialize"
  /\ \/ /\ tmp = None
        /\ tmp' = s
        /\ child' = [child EXCEPT ![s] = "running"]
        /\ written' = [written EXCEPT ![s] = 1]
        /\ Goes(s, "wait")
        /\ UNCHANGED <<holder, refusal>>
     \/ /\ tmp # None
        /\ Leave(s, "failed", "not empty")
        /\ UNCHANGED <<tmp, child, written>>
  /\ UNCHANGED template

Initialized(s) ==
  /\ pc[s] = "wait"
  /\ \/ child[s] = "ended" /\ Goes(s, "rename") /\ UNCHANGED <<holder, refusal>>
     \/ child[s] = "broken" /\ Leave(s, "failed", "initialize")
  /\ UNCHANGED dirVars

\* os.Rename, which replaces no directory that has files in it.
Rename(s) ==
  /\ pc[s] = "rename"
  /\ LET moved == tmp # None /\ template = None IN
       /\ template' = IF moved THEN tmp ELSE template
       /\ tmp' = IF moved THEN None ELSE tmp
       /\ Leave(s, IF moved THEN "copy" ELSE "failed", IF moved THEN "none" ELSE "rename")
  /\ UNCHANGED <<child, written>>

CopyTree(s) ==
  /\ pc[s] = "copy"
  /\ Goes(s, "done")
  /\ UNCHANGED <<holder, tmp, template, child, written, refusal>>

Step(s) ==
  \/ Look(s) \/ Take(s) \/ LookAgain(s) \/ Clear(s) \/ Initialize(s)
  \/ Initialized(s) \/ Rename(s) \/ CopyTree(s)

\* The process of the start is gone, and with it its lock.
Kill(s) ==
  /\ pc[s] \notin {"idle", "done", "failed", "killed"}
  /\ Goes(s, "killed")
  /\ holder' = IF holder = s THEN None ELSE holder
  /\ UNCHANGED <<tmp, template, child, written, refusal>>

(***************************************************************************)
(* mysqld --initialize.  Its files are made in the directory it made: when *)
(* that is removed, no other is.                                           *)
(***************************************************************************)
Write(s) ==
  /\ child[s] = "running"
  /\ written[s] < Files
  /\ s \in {tmp, template}
  /\ written' = [written EXCEPT ![s] = @ + 1]
  /\ UNCHANGED <<pc, holder, tmp, template, child, refusal>>

End(s) ==
  /\ child[s] = "running"
  /\ written[s] = Files
  /\ child' = [child EXCEPT ![s] = "ended"]
  /\ UNCHANGED <<pc, holder, tmp, template, written, refusal>>

\* It fails: the disk is full, the context is over, the directory is gone.
Break(s) ==
  /\ child[s] = "running"
  /\ child' = [child EXCEPT ![s] = "broken"]
  /\ UNCHANGED <<pc, holder, tmp, template, written, refusal>>

Mysqld(s) == Write(s) \/ End(s) \/ (s \notin {tmp, template} /\ Break(s))

Next == \E s \in Starts : Come(s) \/ Step(s) \/ Kill(s) \/ Write(s) \/ End(s) \/ Break(s)

Spec == Init /\ [][Next]_vars

\* A start and a mysqld go on; the kernel hands the lock to each that waits.
FairSpec ==
  Spec /\ \A s \in Starts : WF_vars(Step(s)) /\ SF_vars(Take(s)) /\ WF_vars(Mysqld(s))

(***************************************************************************)
(* The properties.                                                         *)
(***************************************************************************)
\* What a start copies is all that one mysqld has written, and stays so: a start that
\* finds mysql.ibd need not know whether another is still at it (mysqltest.go:425-427).
CopiesWhole ==
  /\ \A s \in Starts : pc[s] = "copy" => template # None
  /\ template # None => written[template] = Files

\* What another start left is in no start's way: not the directory of an initialization
\* that failed, and not the template made while it waited for the lock.  The one exception
\* is the mysqld of a killed start, which outlives it and may still be writing.
LeftoversHarmless ==
  \A s \in Starts :
    /\ refusal[s] # "rename"
    /\ refusal[s] = "not empty" => \E k \in Starts : pc[k] = "killed"

\* Every start gets the template or an error, whoever fails or is killed around it.
EveryStartAnswered ==
  \A s \in Starts : (pc[s] = "look") ~> (pc[s] \in {"done", "failed", "killed"})
=============================================================================
