-------------------------------- MODULE SharedLog --------------------------------
(***************************************************************************)
(* A redo log of MemJournal with variables of its own, for a run and for   *)
(* proofs that are about another component as well.                        *)
(***************************************************************************)
CONSTANTS RedoAddr, RedoValue, RedoMaxLog

VARIABLES redoMem, redoLog, redoStatus, redoPc, redoNext, redoGoal

redoVars == <<redoMem, redoLog, redoStatus, redoPc, redoNext, redoGoal>>

Redo == INSTANCE MemJournal
          WITH Addr <- RedoAddr, Value <- RedoValue, MaxLog <- RedoMaxLog,
               mem <- redoMem, log <- redoLog, status <- redoStatus, pc <- redoPc,
               next <- redoNext, goal <- redoGoal

(* MemJournal's property: the writes between two doUpdate(true) happen all *)
(* at once or not at all, although processes die while they are copied.    *)
RedoIsAtomic == Redo!ImplementsAtomic
==============================================================================
