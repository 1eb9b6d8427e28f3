----------------------------- MODULE RoundTrip -----------------------------
(***************************************************************************)
(* What a batch promises to whoever sends it: the statements of the round  *)
(* trip take effect together or not at all, those that follow it one by    *)
(* one and only after them, and Send says nil only when all of them have.  *)
(***************************************************************************)
EXTENDS Naturals

CONSTANT Places

VARIABLES
  riding,     \* the statements of the round trip
  following,  \* those sent one by one after it, ordered by their places
  applied,    \* the statements that have taken effect
  answer      \* what Send has returned, "none" before it returns

vars == <<riding, following, applied, answer>>

Init == riding = {} /\ following = {} /\ applied = {} /\ answer = "none"

Queue(i) ==
  /\ answer = "none" /\ applied = {} /\ i \notin riding \cup following
  /\ \/ riding' = riding \cup {i} /\ UNCHANGED following
     \/ following' = following \cup {i} /\ UNCHANGED riding
  /\ UNCHANGED <<applied, answer>>

\* the server may have the round trip after the sender gave up, never after it said nil
All ==
  /\ answer # "ok" /\ applied = {}
  /\ applied' = riding
  /\ UNCHANGED <<riding, following, answer>>

\* the least one left, once the round trip is through; its error may be the answer
Follow(i) ==
  /\ answer = "none" /\ riding \subseteq applied
  /\ i \in following \ applied /\ \A j \in following \ applied : i <= j
  /\ applied' = applied \cup {i}
  /\ answer' \in {"none", "error"}
  /\ UNCHANGED <<riding, following>>

Answer ==
  /\ answer = "none"
  /\ answer' \in {"ok", "error"}
  /\ answer' = "ok" => applied = riding \cup following
  /\ UNCHANGED <<riding, following, applied>>

Next == (\E i \in Places : Queue(i) \/ Follow(i)) \/ All \/ Answer

Spec == Init /\ [][Next]_vars
=============================================================================
