-------------------------------- MODULE UndoLog --------------------------------
(***************************************************************************)
(* The modify block of TC_RBTree (tagModifyHead) with saveValue, doRecover *)
(* and doUpdate: an undo log in shared memory.  saveValue enters the old   *)
(* value of a place in the log and then writes the new one in its place.   *)
(* An operation runs inside a FailureRecover: its constructor undoes what  *)
(* a process that died has left, its destructor drops the log.             *)
(***************************************************************************)
EXTENDS Integers, Sequences

CONSTANTS
  Place,     \* the places saveValue is used on
  Value,
  MaxLog     \* entries in _stModifyData, 1000 in the code

VARIABLES
  undoMem,   \* the shared memory outside the modify block
  log,       \* the first _iNowIndex entries of _stModifyData
  status,    \* _cModifyStatus
  pc,        \* where the process is; "out" of the operations, or dead
  next,      \* the entry that doRecover undoes next, a local variable
  before     \* mem when the log was last dropped (history)

logVars == <<undoMem, log, status, pc, next, before>>

Entry == [place : Place, val : Value]

UndoTypeOK ==
  /\ undoMem \in [Place -> Value]
  /\ log \in Seq(Entry)
  /\ status \in {0, 1}
  /\ pc \in {"out", "run", "entered", "armed", "undo", "dropped"}
  /\ next \in Nat
  /\ before \in [Place -> Value]

UndoInit ==
  /\ undoMem \in [Place -> Value]
  /\ log = <<>> /\ status = 0
  /\ pc = "out" /\ next = 0
  /\ before = undoMem

(***************************************************************************)
(* saveValue(a, v): the entry and _iNowIndex, the status, the store.       *)
(***************************************************************************)
Enter(a) ==
  /\ pc = "run" /\ Len(log) + 1 < MaxLog
  /\ log' = Append(log, [place |-> a, val |-> undoMem[a]])
  /\ pc' = "entered"
  /\ UNCHANGED <<undoMem, status, next, before>>

Arm ==
  /\ pc = "entered"
  /\ status' = 1
  /\ pc' = "armed"
  /\ UNCHANGED <<undoMem, log, next, before>>

Store(v) ==
  /\ pc = "armed"
  /\ undoMem' = [undoMem EXCEPT ![log[Len(log)].place] = v]
  /\ pc' = "run"
  /\ UNCHANGED <<log, status, next, before>>

(***************************************************************************)
(* doUpdate, and the end of doRecover: the index and then the status are   *)
(* set to zero.                                                            *)
(***************************************************************************)
doUpdate ==
  /\ pc = "run" /\ status = 1
  /\ log' = <<>> /\ before' = undoMem
  /\ pc' = "dropped"
  /\ UNCHANGED <<undoMem, status, next>>

ClearStatus ==
  /\ pc = "dropped"
  /\ status' = 0
  /\ pc' = "run"
  /\ UNCHANGED <<undoMem, log, next, before>>

(***************************************************************************)
(* doRecover, when an operation begins: from the last entry to the first.  *)
(* Entries without the status are left where they are.                     *)
(***************************************************************************)
doRecover ==
  /\ pc = "out"
  /\ pc' = IF status = 1 THEN "undo" ELSE "run"
  /\ next' = Len(log)
  /\ UNCHANGED <<undoMem, log, status, before>>

(* Mutant: the entries are undone in the order they were made. *)
UndoForward ==
  /\ pc = "undo" /\ next > 0
  /\ LET e == log[Len(log) + 1 - next]
     IN  undoMem' = [undoMem EXCEPT ![e.place] = e.val]
  /\ next' = next - 1
  /\ UNCHANGED <<log, status, pc, before>>

Undo ==
  /\ pc = "undo" /\ next > 0
  /\ undoMem' = [undoMem EXCEPT ![log[next].place] = log[next].val]
  /\ next' = next - 1
  /\ UNCHANGED <<log, status, pc, before>>

Undone ==
  /\ pc = "undo" /\ next = 0
  /\ log' = <<>>
  /\ pc' = "dropped"
  /\ UNCHANGED <<undoMem, status, next, before>>

UndoReturn ==
  /\ pc = "run" /\ status = 0
  /\ pc' = "out"
  /\ UNCHANGED <<undoMem, log, status, next, before>>

UndoCrash ==
  /\ pc # "out"
  /\ pc' = "out"
  /\ UNCHANGED <<undoMem, log, status, next, before>>

LogStep == Arm \/ ClearStatus \/ Undo \/ Undone

UndoNext ==
  \/ \E a \in Place : Enter(a)
  \/ \E v \in Value : Store(v)
  \/ LogStep
  \/ doUpdate \/ doRecover \/ UndoReturn \/ UndoCrash

UndoSpec == UndoInit /\ [][UndoNext]_logVars

-----------------------------------------------------------------------------
(***************************************************************************)
(* Properties.                                                             *)
(***************************************************************************)

(* Whenever the log is not in use the memory is what the last operation to *)
(* finish has left: what a dead one had written is gone, however many      *)
(* times the processes died, also while undoing.                           *)
ClosedMeansDone == status = 0 => undoMem = before

Atomic == INSTANCE AtomicMemory
            WITH Addr <- Place, content <- before,
                 goal <- IF pc \in {"run", "entered", "armed"} THEN undoMem ELSE before

(* The stores of an operation happen all at once or not at all.            *)
ImplementsAtomic == Atomic!Spec

-----------------------------------------------------------------------------
(* A place without an entry among those still to be undone is as before;   *)
(* the first entry of a place holds the value it had.                      *)
UnloggedIsUntouched ==
  \A a \in Place :
    (\A i \in DOMAIN log : (pc = "undo" => i <= next) => log[i].place # a) =>
      undoMem[a] = before[a]

FirstEntryIsOld ==
  \A i \in DOMAIN log :
    (\A j \in DOMAIN log : j < i => log[j].place # log[i].place) =>
      log[i].val = before[log[i].place]

(* Inductive.                                                              *)
UndoInv ==
  /\ UndoTypeOK
  /\ UnloggedIsUntouched
  /\ FirstEntryIsOld
  /\ status = 0 => undoMem = before
  /\ pc \in {"entered", "armed"} => log # <<>>
  /\ pc \in {"armed", "undo", "dropped"} => status = 1
  /\ pc = "undo" => next <= Len(log)
  /\ pc = "dropped" => log = <<>> /\ undoMem = before
==============================================================================
