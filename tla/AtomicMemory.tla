----------------------------- MODULE AtomicMemory -----------------------------
(***************************************************************************)
(* What the modify block of a shared-memory container promises to the code *)
(* that uses it: the writes between two doUpdate(true) happen all at once  *)
(* or, when the process dies first, not at all.                            *)
(***************************************************************************)
CONSTANTS Addr, Value

VARIABLES
  content,   \* what the next process to look will find
  goal       \* content with the writes that are not committed yet

avars == <<content, goal>>

Init == content \in [Addr -> Value] /\ goal = content

Write == \E a \in Addr, v \in Value : goal' = [goal EXCEPT ![a] = v] /\ UNCHANGED content

Commit == content' = goal /\ UNCHANGED goal

Lose == goal' = content /\ UNCHANGED content

Next == Write \/ Commit \/ Lose

Spec == Init /\ [][Next]_avars
==============================================================================
