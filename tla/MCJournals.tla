------------------------------- MODULE MCJournals -------------------------------
(***************************************************************************)
(* Instances for TLC of the two logs in shared memory: the red-black tree  *)
(* on its undo log, and the redo log with transactions of any writes.  A   *)
(* behaviour is about one of the two.                                      *)
(***************************************************************************)
EXTENDS RBTree, SharedLog

VARIABLE subject

JournalsInit ==
  /\ subject \in {"tree", "redo"}
  /\ TreeInit
  /\ Redo!Init /\ (subject = "tree" => redoMem = [a \in RedoAddr |-> 0])

JournalsNext ==
  /\ \/ subject = "tree" /\ TreeNext /\ UNCHANGED redoVars
     \/ subject = "redo" /\ Redo!Next /\ UNCHANGED vars
  /\ UNCHANGED subject

JournalsSpec == JournalsInit /\ [][JournalsNext]_<<vars, redoVars, subject>>
==============================================================================
