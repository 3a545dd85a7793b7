--------------------------- MODULE TimeoutQueueOps ---------------------------
(***************************************************************************)
(* The critical sections of TC_TimeoutQueue (include/util/                 *)
(* tc_timeout_queue.h) as operators on one queue value.                    *)
(*                                                                         *)
(* The code keeps a hash map _data (id -> message, list iterator) and a    *)
(* list _time of nodes (hasPoped, createTime, map iterator).  Map and list *)
(* are changed together under the queue's mutex, so one sequence of nodes  *)
(* stands for both.  The list iterator _firstNoPopIter is the third piece  *)
(* of state and is not kept in step with removals: here it is the id of    *)
(* the live node it points to, or one of                                   *)
(*   End       _time.end();                                                *)
(*   Dangling  a node that was erased, or the constructor's garbage (the   *)
(*             constructor leaves the iterator uninitialised).             *)
(* Ids are unique among live nodes (push refuses a live id), so an id      *)
(* names a node.  createTime is kept as the age of the node, in seconds,   *)
(* counted up to one more than the queue's time-out.                       *)
(***************************************************************************)
EXTENDS Integers, Sequences, SequencesExt

End      == -1
Dangling == -2

Node(id, msg) == [id |-> id, msg |-> msg, popped |-> FALSE, age |-> 0]

NewQueue(garbage) == [time |-> <<>>, first |-> garbage]

Ids(q) == {q.time[i].id : i \in DOMAIN q.time}
Pos(q, id) == CHOOSE i \in DOMAIN q.time : q.time[i].id = id
Msg(q, id) == q.time[Pos(q, id)].msg

(* Mutant: _firstNoPopIter is never moved off end().                       *)
PushedBehindEnd(q, id, msg) == {[q EXCEPT !.time = Append(@, Node(id, msg))]}

(* Mutant: new nodes go to the front of the list.                          *)
PushedInFront(q, id, msg) ==
  {[time |-> <<Node(id, msg)>> \o q.time, first |-> IF q.first = End THEN id ELSE q.first]}

(***************************************************************************)
(* push on an id that is not live.  A dangling iterator differs from       *)
(* end(), so push leaves it alone; the allocator may however hand the new  *)
(* node the address of the erased one, and then it points to the new node. *)
(***************************************************************************)
Pushed(q, id, msg) ==
  LET firsts == IF q.first = End THEN {id}
                ELSE {q.first} \cup IF q.first = Dangling THEN {id} ELSE {}
  IN  {[time |-> Append(q.time, Node(id, msg)), first |-> f] : f \in firsts}

(***************************************************************************)
(* Erasing the node at position i, by get, erase or timeout.               *)
(***************************************************************************)
Removed(q, i) ==
  [time  |-> RemoveAt(q.time, i),
   first |-> IF q.first = q.time[i].id THEN Dangling ELSE q.first]

Taken(q, id) == Removed(q, Pos(q, id))

(***************************************************************************)
(* pop: the head if it has not been popped, else what _firstNoPopIter      *)
(* points to.  CanPop says that pop gets past its two "return NULL";       *)
(* PopSafe that it then neither follows a dead iterator nor fails          *)
(* assert(it->hasPoped == false).                                          *)
(***************************************************************************)
CanPop(q) ==
  /\ q.time # <<>>
  /\ q.time[1].popped => q.first # End

PopPos(q) == IF q.time[1].popped THEN Pos(q, q.first) ELSE 1

PopSafe(q) ==
  CanPop(q) /\ q.time[1].popped => /\ q.first \in Ids(q)
                                   /\ ~q.time[PopPos(q)].popped

(* Mutant: _firstNoPopIter does not move on.                               *)
PoppedInPlace(q) == [q EXCEPT !.time[PopPos(q)].popped = TRUE]

Popped(q) ==
  LET i == PopPos(q)
  IN  [time  |-> [q.time EXCEPT ![i].popped = TRUE],
       first |-> IF i = Len(q.time) THEN End ELSE q.time[i + 1].id]

(* Mutant: _firstNoPopIter is left where it was.                           *)
SwappedInPlace(q) ==
  [q EXCEPT !.time = [i \in DOMAIN @ |-> [@[i] EXCEPT !.popped = @ \/ i >= PopPos(q)]]]

(***************************************************************************)
(* swap: pops from PopPos to the end of the list in one critical section.  *)
(***************************************************************************)
Swapped(q) ==
  [time  |-> [i \in DOMAIN q.time |->
                IF i < PopPos(q) THEN q.time[i]
                                 ELSE [q.time[i] EXCEPT !.popped = TRUE]],
   first |-> End]

(* Mutant: a request that was never sent does not time out.                *)
HeadExpiredSent(q, timeout) ==
  q.time # <<>> /\ q.time[1].age > timeout /\ q.time[1].popped

(***************************************************************************)
(* timeout looks at the head only: now - createTime > _timeout / 1000.     *)
(***************************************************************************)
HeadExpired(q, timeout) == q.time # <<>> /\ q.time[1].age > timeout

Aged(q, timeout) ==
  [q EXCEPT !.time = [i \in DOMAIN q.time |->
     [q.time[i] EXCEPT !.age = IF @ > timeout THEN @ ELSE @ + 1]]]

Waiting(q) == {i \in DOMAIN q.time : ~q.time[i].popped}
==============================================================================
