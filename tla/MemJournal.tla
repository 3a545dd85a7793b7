------------------------------ MODULE MemJournal ------------------------------
(***************************************************************************)
(* The modify block of TC_HashMap (tagModifyHead) with update and          *)
(* doUpdate: a redo log in shared memory.  update only enters a write in   *)
(* the log; doUpdate(true) commits and copies it to its place.  A process  *)
(* may die between any two stores; the next one to call an operation runs  *)
(* doUpdate(), which discards a log that was not committed and copies one  *)
(* that was again from its start.                                          *)
(***************************************************************************)
EXTENDS Integers, Sequences

CONSTANTS
  Addr,      \* the places a log entry can name
  Value,
  MaxLog     \* entries in _stModifyData, 20 in the code

VARIABLES
  mem,       \* the shared memory outside the modify block
  log,       \* the first _iNowIndex entries of _stModifyData
  status,    \* _cModifyStatus
  pc,        \* where the process is; "down" when it has died
  next,      \* the entry that doUpdate copies next, a local variable
  goal       \* mem with the writes of the open transaction (history)

vars == <<mem, log, status, pc, next, goal>>

Entry == [addr : Addr, val : Value]

TypeOK ==
  /\ mem \in [Addr -> Value]
  /\ log \in Seq(Entry)
  /\ status \in 0 .. 2
  /\ pc \in {"run", "copy", "cleared", "down"}
  /\ next \in Nat \ {0}
  /\ goal \in [Addr -> Value]

Init ==
  /\ mem \in [Addr -> Value]
  /\ log = <<>> /\ status = 0
  /\ pc = "run" /\ next = 1
  /\ goal = mem

(***************************************************************************)
(* update.  The assertion behind it keeps _iNowIndex below MaxLog.         *)
(***************************************************************************)
update(a, v) ==
  /\ pc = "run" /\ Len(log) + 1 < MaxLog
  /\ status' = 1
  /\ log' = Append(log, [addr |-> a, val |-> v])
  /\ goal' = [goal EXCEPT ![a] = v]
  /\ UNCHANGED <<mem, pc, next>>

(* doUpdate(true): the store that commits.                                 *)
Commit ==
  /\ pc = "run"
  /\ status' = 2
  /\ pc' = "copy" /\ next' = 1
  /\ UNCHANGED <<mem, log, goal>>

(* One round of the loop that copies the log.                              *)
Copy ==
  /\ pc = "copy" /\ next \in DOMAIN log
  /\ mem' = [mem EXCEPT ![log[next].addr] = log[next].val]
  /\ next' = next + 1
  /\ UNCHANGED <<log, status, pc, goal>>

(* _iNowIndex = 0, and then _cModifyStatus = 0.                            *)
ClearIndex ==
  /\ pc = "copy" /\ next \notin DOMAIN log
  /\ log' = <<>>
  /\ pc' = "cleared"
  /\ UNCHANGED <<mem, status, next, goal>>

ClearStatus ==
  /\ pc = "cleared"
  /\ status' = 0
  /\ pc' = "run"
  /\ UNCHANGED <<mem, log, next, goal>>

(* Mutant: a log that was committed is discarded as well. *)
doUpdateDiscards ==
  /\ pc \in {"run", "down"}
  /\ IF status = 0
       THEN pc' = "run" /\ UNCHANGED <<log, goal>>
       ELSE log' = <<>> /\ pc' = "cleared" /\ goal' = mem
  /\ UNCHANGED <<mem, status, next>>

(***************************************************************************)
(* doUpdate() at the start of an operation.  Status 1 is what a process    *)
(* that died left, or an operation that returned without committing, as    *)
(* get of the first block of the get list does.                            *)
(***************************************************************************)
doUpdate ==
  /\ pc \in {"run", "down"}
  /\ CASE status = 0 -> pc' = "run" /\ UNCHANGED <<log, next, goal>>
       [] status = 1 -> log' = <<>> /\ pc' = "cleared" /\ goal' = mem /\ UNCHANGED next
       [] status = 2 -> pc' = "copy" /\ next' = 1 /\ UNCHANGED <<log, goal>>
  /\ UNCHANGED <<mem, status>>

Crash ==
  /\ pc # "down"
  /\ pc' = "down"
  /\ UNCHANGED <<mem, log, status, next, goal>>

Next ==
  \/ \E a \in Addr, v \in Value : update(a, v)
  \/ Commit \/ Copy \/ ClearIndex \/ ClearStatus
  \/ doUpdate
  \/ Crash

Spec == Init /\ [][Next]_vars

-----------------------------------------------------------------------------
(***************************************************************************)
(* Properties.                                                             *)
(***************************************************************************)

(* The content the next doUpdate will leave: from the commit on that is    *)
(* what the transaction was after, however much of it has been copied.     *)
content == IF status = 2 THEN goal ELSE mem

Atomic == INSTANCE AtomicMemory

(* A transaction happens all at once or not at all, although the copying   *)
(* can be cut short at any store, any number of times.                     *)
ImplementsAtomic == Atomic!Spec

(* Whenever no log is open, every place has the value that the last        *)
(* committed transaction to write it gave it.                              *)
ClosedMeansDone == status = 0 => mem = goal /\ log = <<>>

-----------------------------------------------------------------------------
(* Places that the part of the log still to be copied does not write are   *)
(* as they will be; the last entry of a place is the value it will have.   *)
CopiedIsFinal ==
  \A a \in Addr :
    (\A i \in DOMAIN log : (pc = "copy" => next <= i) => log[i].addr # a) =>
      mem[a] = goal[a]

LastEntryWins ==
  \A i \in DOMAIN log :
    (\A j \in DOMAIN log : i < j => log[j].addr # log[i].addr) =>
      goal[log[i].addr] = log[i].val

(* Inductive.                                                              *)
IndInv ==
  /\ TypeOK
  /\ CopiedIsFinal
  /\ LastEntryWins
  /\ pc = "run" => status # 2
  /\ pc = "copy" => status = 2 /\ next <= Len(log) + 1
  /\ pc = "cleared" => status # 0 /\ log = <<>>
  /\ status = 0 => log = <<>>
==============================================================================
