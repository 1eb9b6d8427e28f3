------------------------- MODULE TemplateDirProofs -------------------------
(***************************************************************************)
(* Proofs about TemplateDir, for any number of starts and files: what is   *)
(* copied is whole, and what a start leaves is in no other's way.          *)
(***************************************************************************)
EXTENDS TemplateDir, TLAPS

\* Who is between taking the lock and giving it back is its holder.
Locked == \A s \in Starts : pc[s] \in Inside <=> holder = s

\* A running mysqld is waited for, or its start was killed.
WaitedFor == \A s \in Starts : child[s] = "running" => pc[s] \in {"wait", "killed"}

\* Who has looked again under the lock knows that there is no template; after
\* Initialize template.tmp is its own, before it that of a killed start at most.
Alone ==
  \A s \in Starts :
    /\ pc[s] \in Inside \ {"look again"} => template = None
    /\ pc[s] \in {"wait", "rename"} => tmp = s
    /\ pc[s] = "initialize" /\ tmp # None => pc[tmp] = "killed"

\* What an mysqld that ended has written is whole.
Ended ==
  \A s \in Starts :
    /\ child[s] = "ended" => written[s] = Files
    /\ pc[s] = "rename" => child[s] = "ended"

IInv == TypeOK /\ Locked /\ WaitedFor /\ Alone /\ Ended /\ CopiesWhole /\ LeftoversHarmless

USE DEF vars, dirVars, Inside, Goes, Leave, Found

\* What is whole has mysql.ibd.
LEMMA IbdInside == Files \in Nat /\ Ibd \in Nat /\ 1 <= Ibd /\ Ibd <= Files
  BY FilesAssumption

LEMMA FirstFile == 1 \in 0..Files
  BY FilesAssumption

LEMMA OneMore ==
  ASSUME NEW n \in 0..Files, n < Files
  PROVE  n + 1 \in 0..Files /\ n # Files
  BY FilesAssumption

LEMMA InitHolds == Init => IInv
  BY StartsAssumption, FilesAssumption
  DEF Init, IInv, TypeOK, Locked, WaitedFor, Alone, Ended, CopiesWhole, LeftoversHarmless

LEMMA NextHolds == IInv /\ [Next]_vars => IInv'
<1> SUFFICES ASSUME IInv, [Next]_vars PROVE IInv'
  OBVIOUS
<1> USE StartsAssumption, IbdInside
<1> USE DEF IInv, TypeOK, Locked, WaitedFor, Alone, Ended, CopiesWhole, LeftoversHarmless
<1>1. CASE UNCHANGED vars
  BY <1>1
<1>2. ASSUME NEW s \in Starts, Come(s) PROVE IInv'
  BY <1>2 DEF Come
<1>3. ASSUME NEW s \in Starts, Look(s) PROVE IInv'
  BY <1>3 DEF Look
<1>4. ASSUME NEW s \in Starts, Take(s) PROVE IInv'
  BY <1>4 DEF Take
<1>5. ASSUME NEW s \in Starts, LookAgain(s) PROVE IInv'
  <2>1. CASE Found
    <3>1. /\ pc[s] = "look again" /\ pc' = [pc EXCEPT ![s] = "copy"]
          /\ holder = s /\ holder' = None
          /\ refusal' = [refusal EXCEPT ![s] = "none"]
          /\ template # None /\ UNCHANGED <<tmp, template, child, written>>
      BY <1>5, <2>1 DEF LookAgain
    <3>2. TypeOK' /\ Locked' /\ WaitedFor'
      BY <3>1
    <3>3. Alone' /\ Ended'
      BY <3>1
    <3>4. CopiesWhole' /\ LeftoversHarmless'
      BY <3>1
    <3> QED
      BY <3>2, <3>3, <3>4
  <2>2. CASE ~Found
    <3>1. template = None
      BY <2>2
    <3>2. /\ pc[s] = "look again" /\ pc' = [pc EXCEPT ![s] = "clear"]
          /\ holder = s
          /\ UNCHANGED <<holder, refusal, tmp, template, child, written>>
      BY <1>5, <2>2 DEF LookAgain
    <3> QED
      BY <3>1, <3>2
  <2> QED
    BY <2>1, <2>2
<1>6. ASSUME NEW s \in Starts, Clear(s) PROVE IInv'
  <2>1. /\ pc[s] = "clear" /\ pc' = [pc EXCEPT ![s] = "initialize"]
        /\ holder = s /\ template = None
        /\ tmp' # None => tmp' = tmp /\ pc[tmp] = "killed" /\ tmp # s
        /\ tmp' \in Starts \cup {None}
        /\ UNCHANGED <<holder, template, child, written, refusal>>
    BY <1>6 DEF Clear
  <2> QED
    BY <2>1
<1>7. ASSUME NEW s \in Starts, Initialize(s) PROVE IInv'
  <2>1. pc[s] = "initialize" /\ holder = s /\ template = None /\ template' = None
    BY <1>7 DEF Initialize
  <2>2. CASE tmp = None
    <3>1. /\ pc' = [pc EXCEPT ![s] = "wait"]
          /\ tmp' = s
          /\ child' = [child EXCEPT ![s] = "running"]
          /\ written' = [written EXCEPT ![s] = 1]
          /\ UNCHANGED <<holder, refusal>>
      BY <1>7, <2>2 DEF Initialize
    <3>2. TypeOK'
      <4>1. 1 \in 0..Files
        BY FirstFile
      <4> QED
        BY <2>1, <3>1, <4>1
    <3>3. Locked' /\ WaitedFor'
      BY <2>1, <3>1
    <3>4. Alone'
      BY <2>1, <3>1
    <3>5. Ended'
      BY <2>1, <3>1
    <3>6. CopiesWhole'
      BY <2>1, <3>1
    <3>7. LeftoversHarmless'
      BY <2>1, <3>1
    <3> QED
      BY <3>2, <3>3, <3>4, <3>5, <3>6, <3>7
  <2>3. CASE tmp # None
    <3>1. /\ pc' = [pc EXCEPT ![s] = "failed"]
          /\ holder' = None
          /\ refusal' = [refusal EXCEPT ![s] = "not empty"]
          /\ tmp \in Starts /\ pc[tmp] = "killed" /\ pc'[tmp] = "killed"
          /\ UNCHANGED <<tmp, child, written>>
      BY <1>7, <2>1, <2>3 DEF Initialize
    <3> QED
      BY <2>1, <2>3, <3>1
  <2> QED
    BY <2>2, <2>3
<1>8. ASSUME NEW s \in Starts, Initialized(s) PROVE IInv'
  <2>1. pc[s] = "wait" /\ holder = s /\ tmp = s /\ template = None
    BY <1>8 DEF Initialized
  <2>2. UNCHANGED <<tmp, template, child, written>>
    BY <1>8 DEF Initialized
  <2>3. CASE child[s] = "ended"
    <3>1. pc' = [pc EXCEPT ![s] = "rename"] /\ UNCHANGED <<holder, refusal>>
      BY <1>8, <2>3 DEF Initialized
    <3> QED
      BY <2>1, <2>2, <2>3, <3>1
  <2>4. CASE child[s] = "broken"
    <3>1. /\ pc' = [pc EXCEPT ![s] = "failed"]
          /\ holder' = None
          /\ refusal' = [refusal EXCEPT ![s] = "initialize"]
      BY <1>8, <2>4 DEF Initialized
    <3> QED
      BY <2>1, <2>2, <2>4, <3>1
  <2> QED
    BY <1>8, <2>3, <2>4 DEF Initialized
<1>9. ASSUME NEW s \in Starts, Rename(s) PROVE IInv'
  <2>1. /\ pc[s] = "rename" /\ holder = s /\ tmp = s /\ template = None
        /\ written[s] = Files
    BY <1>9 DEF Rename
  <2>2. /\ pc' = [pc EXCEPT ![s] = "copy"]
        /\ template' = s /\ tmp' = None /\ holder' = None
        /\ refusal' = [refusal EXCEPT ![s] = "none"]
        /\ UNCHANGED <<child, written>>
    BY <1>9, <2>1 DEF Rename
  <2> QED
    BY <2>1, <2>2
<1>10. ASSUME NEW s \in Starts, CopyTree(s) PROVE IInv'
  BY <1>10 DEF CopyTree
<1>11. ASSUME NEW s \in Starts, Kill(s) PROVE IInv'
  BY <1>11 DEF Kill
<1>12. ASSUME NEW s \in Starts, Write(s) PROVE IInv'
  <2>1. /\ child[s] = "running" /\ written[s] < Files
        /\ written' = [written EXCEPT ![s] = written[s] + 1]
        /\ UNCHANGED <<pc, holder, tmp, template, child, refusal>>
    BY <1>12 DEF Write
  <2>2. written[s] \in 0..Files
    OBVIOUS
  <2>3. written[s] + 1 \in 0..Files /\ written[s] # Files
    BY <2>1, <2>2, OneMore
  <2>4. template # s
    BY <2>3
  <2> QED
    BY <2>1, <2>3, <2>4
<1>13. ASSUME NEW s \in Starts, End(s) PROVE IInv'
  <2>1. TypeOK'
    BY <1>13 DEF End
  <2>2. Locked'
    BY <1>13 DEF End
  <2>3. WaitedFor'
    BY <1>13 DEF End
  <2>4. Alone'
    BY <1>13 DEF End
  <2>5. Ended'
    BY <1>13 DEF End
  <2>6. CopiesWhole'
    BY <1>13 DEF End
  <2>7. LeftoversHarmless'
    BY <1>13 DEF End
  <2> QED
    BY <2>1, <2>2, <2>3, <2>4, <2>5, <2>6, <2>7
<1>14. ASSUME NEW s \in Starts, Break(s) PROVE IInv'
  <2>1. TypeOK'
    BY <1>14 DEF Break
  <2>2. Locked'
    BY <1>14 DEF Break
  <2>3. WaitedFor'
    BY <1>14 DEF Break
  <2>4. Alone'
    BY <1>14 DEF Break
  <2>5. Ended'
    BY <1>14 DEF Break
  <2>6. CopiesWhole'
    BY <1>14 DEF Break
  <2>7. LeftoversHarmless'
    BY <1>14 DEF Break
  <2> QED
    BY <2>1, <2>2, <2>3, <2>4, <2>5, <2>6, <2>7
<1> QED
  BY <1>1, <1>2, <1>3, <1>4, <1>5, <1>6, <1>7, <1>8, <1>9, <1>10, <1>11, <1>12, <1>13, <1>14
  DEF Next, Step

\* For any number of starts: a start copies the whole template, whoever is killed or fails.
THEOREM WholeTemplate == Spec => []CopiesWhole
<1>1. IInv => CopiesWhole
  BY DEF IInv
<1> QED
  BY InitHolds, NextHolds, <1>1, PTL DEF Spec

\* For any number of starts: what a start leaves behind makes no other fail, but for the
\* mysqld of one that was killed.
THEOREM NothingInTheWay == Spec => []LeftoversHarmless
<1>1. IInv => LeftoversHarmless
  BY DEF IInv
<1> QED
  BY InitHolds, NextHolds, <1>1, PTL DEF Spec
=============================================================================
