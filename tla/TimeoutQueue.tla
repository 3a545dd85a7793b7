----------------------------- MODULE TimeoutQueue -----------------------------
(***************************************************************************)
(* One TC_TimeoutQueue and the threads that use it in the RPC client:      *)
(* callers number and push requests (AdapterProxy::invoke), the network    *)
(* thread pops them for sending (sendRequest) and takes them out when an   *)
(* answer arrives (finished), the timer thread drops the expired ones.     *)
(* Each action is one critical section of the queue's mutex.               *)
(***************************************************************************)
EXTENDS TimeoutQueueOps, FiniteSets

CONSTANTS
  Reqs,      \* the requests callers make
  FromRpc,   \* those made by rpc_call / rpc_call_async: the caller chooses the id
  MaxId,     \* the largest request id, 2^32 - 1 in the code
  Timeout    \* _timeout / 1000, in seconds

ASSUME MaxIdAssumption   == MaxId \in Nat \ {0}
ASSUME TimeoutAssumption == Timeout \in Nat
ASSUME FromRpcAssumption == FromRpc \subseteq Reqs
ASSUME ReqsAssumption    == IsFiniteSet(Reqs)

VARIABLES
  q,         \* the queue: _data, _time and _firstNoPopIter
  uniqId,    \* _uniqId
  id,        \* request.iRequestId of each request, 0 before it has one
  status,    \* how far each request has come
  wire,      \* sent requests whose answer has not come: [id, msg]
  answer,    \* the request whose answer each request was given, or itself if none
  ticket,    \* order in which requests were pushed (history)
  accepted   \* number of successful pushes (history)

vars == <<q, uniqId, id, status, wire, answer, ticket, accepted>>

IdRange == 0 .. MaxId

Status == {"new", "numbered", "queued", "sent", "answered", "expired", "refused"}

NodeType == [id : IdRange, msg : Reqs, popped : BOOLEAN, age : 0 .. Timeout + 1]

TypeOK ==
  /\ q \in [time : Seq(NodeType), first : IdRange \cup {End, Dangling}]
  /\ uniqId \in IdRange
  /\ id \in [Reqs -> IdRange]
  /\ status \in [Reqs -> Status]
  /\ wire \subseteq [id : IdRange, msg : Reqs]
  /\ answer \in [Reqs -> Reqs]
  /\ ticket \in [Reqs -> Nat]
  /\ accepted \in Nat

Init ==
  /\ q \in {NewQueue(garbage) : garbage \in {End, Dangling}}
  /\ uniqId = 0
  /\ id = [r \in Reqs |-> 0]
  /\ status = [r \in Reqs |-> "new"]
  /\ wire = {}
  /\ answer = [r \in Reqs |-> r]
  /\ ticket = [r \in Reqs |-> 0]
  /\ accepted = 0

(***************************************************************************)
(* generateId: while (++_uniqId == 0);  A 32-bit id comes round again      *)
(* after 2^32 - 1 requests; IdIsFree is the bound that says the request    *)
(* that had it last is over by then and no answer to it is on its way.     *)
(***************************************************************************)
NextId == IF uniqId = MaxId THEN 1 ELSE uniqId + 1

IdIsFree(i) ==
  /\ \A r \in Reqs : status[r] \in {"numbered", "queued", "sent"} => id[r] # i
  /\ \A a \in wire : a.id # i

generateId(r) ==
  /\ r \notin FromRpc
  /\ status[r] = "new"
  /\ IdIsFree(NextId)
  /\ uniqId' = NextId
  /\ id' = [id EXCEPT ![r] = NextId]
  /\ status' = [status EXCEPT ![r] = "numbered"]
  /\ UNCHANGED <<q, wire, answer, ticket, accepted>>

rpcId(r) ==
  /\ r \in FromRpc
  /\ status[r] = "new"
  /\ \E i \in IdRange : id' = [id EXCEPT ![r] = i]
  /\ status' = [status EXCEPT ![r] = "numbered"]
  /\ UNCHANGED <<q, uniqId, wire, answer, ticket, accepted>>

(***************************************************************************)
(* push returns false on an id that is still in the queue; its callers     *)
(* ignore the result.                                                      *)
(***************************************************************************)
push(r) ==
  /\ status[r] = "numbered"
  /\ IF id[r] \in Ids(q)
       THEN /\ status' = [status EXCEPT ![r] = "refused"]
            /\ UNCHANGED <<q, ticket, accepted>>
       ELSE /\ q' \in Pushed(q, id[r], r)
            /\ status' = [status EXCEPT ![r] = "queued"]
            /\ accepted' = accepted + 1
            /\ ticket' = [ticket EXCEPT ![r] = accepted + 1]
  /\ UNCHANGED <<uniqId, id, wire, answer>>

(***************************************************************************)
(* pop, and the sending of what it returned.                               *)
(***************************************************************************)
pop ==
  /\ CanPop(q)
  /\ PopSafe(q)
  /\ q' = Popped(q)
  /\ LET n == q.time[PopPos(q)]
     IN  /\ status' = [status EXCEPT ![n.msg] = "sent"]
         /\ wire' = wire \cup {[id |-> n.id, msg |-> n.msg]}
  /\ UNCHANGED <<uniqId, id, answer, ticket, accepted>>

swap ==
  /\ CanPop(q)
  /\ PopSafe(q)
  /\ q' = Swapped(q)
  /\ LET out == {q.time[i] : i \in PopPos(q) .. Len(q.time)}
     IN  /\ status' = [r \in Reqs |-> IF \E n \in out : n.msg = r
                                        THEN "sent" ELSE status[r]]
         /\ wire' = wire \cup {[id |-> n.id, msg |-> n.msg] : n \in out}
  /\ UNCHANGED <<uniqId, id, answer, ticket, accepted>>

(* Mutant: answers are given to the requests in their order.               *)
getHead(a) ==
  /\ a \in wire
  /\ wire' = wire \ {a}
  /\ IF q.time # <<>>
       THEN LET r == q.time[1].msg
            IN  /\ q' = Removed(q, 1)
                /\ status' = [status EXCEPT ![r] = "answered"]
                /\ answer' = [answer EXCEPT ![r] = a.msg]
       ELSE UNCHANGED <<q, status, answer>>
  /\ UNCHANGED <<uniqId, id, ticket, accepted>>

(* Mutant: get is called with bErase = false.                              *)
getUnerased(a) ==
  /\ a \in wire
  /\ wire' = wire \ {a}
  /\ IF a.id \in Ids(q)
       THEN LET r == Msg(q, a.id)
            IN  /\ status' = [status EXCEPT ![r] = "answered"]
                /\ answer' = [answer EXCEPT ![r] = a.msg]
       ELSE UNCHANGED <<status, answer>>
  /\ UNCHANGED <<q, uniqId, id, ticket, accepted>>

(***************************************************************************)
(* An answer comes in and get looks its id up.  Answers are in no order,   *)
(* and one that comes after its request has expired finds nothing.         *)
(***************************************************************************)
get(a) ==
  /\ a \in wire
  /\ wire' = wire \ {a}
  /\ IF a.id \in Ids(q)
       THEN LET r == Msg(q, a.id)
            IN  /\ q' = Taken(q, a.id)
                /\ status' = [status EXCEPT ![r] = "answered"]
                /\ answer' = [answer EXCEPT ![r] = a.msg]
       ELSE UNCHANGED <<q, status, answer>>
  /\ UNCHANGED <<uniqId, id, ticket, accepted>>

timeout ==
  /\ HeadExpired(q, Timeout)
  /\ q' = Removed(q, 1)
  /\ status' = [status EXCEPT ![q.time[1].msg] = "expired"]
  /\ UNCHANGED <<uniqId, id, wire, answer, ticket, accepted>>

(***************************************************************************)
(* A second passes.  Only while some node is not yet expired, so that      *)
(* ages stay within Timeout + 1.                                           *)
(***************************************************************************)
Tick ==
  /\ \E i \in DOMAIN q.time : q.time[i].age <= Timeout
  /\ q' = Aged(q, Timeout)
  /\ UNCHANGED <<uniqId, id, status, wire, answer, ticket, accepted>>

Next ==
  \/ \E r \in Reqs : generateId(r) \/ rpcId(r) \/ push(r)
  \/ pop
  \/ swap
  \/ \E a \in wire : get(a)
  \/ timeout
  \/ Tick

(***************************************************************************)
(* The timer thread calls timeout every 100 ms and time passes; nothing    *)
(* makes the network thread or the peer do anything.                       *)
(***************************************************************************)
Fairness == WF_vars(timeout) /\ WF_vars(Tick)

Spec == Init /\ [][Next]_vars

FairSpec == Spec /\ Fairness

-----------------------------------------------------------------------------
(***************************************************************************)
(* Properties.                                                             *)
(***************************************************************************)

(* The iterator pop follows is alive and points to an unpopped node:       *)
(* assert(it->hasPoped == false), tc_timeout_queue.h:304 and 339, holds    *)
(* and no freed node is read, after any mix of pushes, answers and         *)
(* time-outs.                                                              *)
PopAssertion == PopSafe(q)

(* A request that waits can always be popped, and the one that is popped   *)
(* is the oldest that waits: _firstNoPopIter never skips a request, so     *)
(* none is left in the queue unsent behind it.                             *)
PopIsOldestWaiting ==
  Waiting(q) # {} => /\ CanPop(q)
                     /\ \A i \in Waiting(q) : PopPos(q) <= i

(* get hands an answer to the request it answers, also when the answer is  *)
(* late and the id counter has moved on.                                   *)
AnswerToItsRequest == \A r \in Reqs : answer[r] = r

(* Each request that entered the queue is in it exactly while it is        *)
(* neither answered nor expired: none is lost, none stays behind.          *)
QueueHoldsOpenRequests ==
  /\ \A r \in Reqs : status[r] \in {"queued", "sent"}
                       <=> \E i \in DOMAIN q.time : q.time[i].msg = r
  /\ \A i, j \in DOMAIN q.time : i # j => q.time[i].msg # q.time[j].msg

(* The queue implements PendingRequests: at most one sending, in order,    *)
(* and exactly one way out for each request.                               *)
StateOf(s) == IF s = "numbered" THEN "new"
              ELSE IF s = "queued" THEN "waiting" ELSE s

Pending == INSTANCE PendingRequests
             WITH state <- [r \in Reqs |-> StateOf(status[r])]

ImplementsPending == Pending!Spec

(* Every request that enters the queue leaves it, even when no answer      *)
(* comes and nothing is ever popped.                                       *)
EveryRequestLeaves ==
  \A r \in Reqs : status[r] \in {"queued", "sent"}
                    ~> status[r] \in {"answered", "expired"}

-----------------------------------------------------------------------------
(***************************************************************************)
(* The inductive invariant behind the properties, for requests whose ids   *)
(* all come from generateId.                                               *)
(***************************************************************************)

(* _data is a map: an id names one node; a node is the request of that id. *)
NodesMatchRequests ==
  /\ \A i, j \in DOMAIN q.time : q.time[i].id = q.time[j].id => i = j
  /\ \A i \in DOMAIN q.time :
       LET n == q.time[i]
       IN  /\ id[n.msg] = n.id
           /\ status[n.msg] = IF n.popped THEN "sent" ELSE "queued"
  /\ \A r \in Reqs : status[r] \in {"queued", "sent"}
                       => \E i \in DOMAIN q.time : q.time[i].msg = r

(* What has been popped lies before what has not.                          *)
PoppedIsPrefix ==
  \A i, j \in DOMAIN q.time : i < j /\ q.time[j].popped => q.time[i].popped

(* Once the head is popped, _firstNoPopIter is exact.                      *)
FirstIsExact ==
  q.time # <<>> /\ q.time[1].popped =>
    \/ q.first = End /\ \A i \in DOMAIN q.time : q.time[i].popped
    \/ \E i \in DOMAIN q.time : /\ q.first = q.time[i].id
                                /\ ~q.time[i].popped
                                /\ \A j \in 1 .. i - 1 : q.time[j].popped

(* An id belongs to one open request, or to one answer on its way; only a  *)
(* request that was sent has an answer on its way.                         *)
IdsAreNotShared ==
  /\ \A r, s \in Reqs : /\ status[r] \in {"numbered", "queued", "sent"}
                        /\ status[s] \in {"numbered", "queued", "sent"}
                        /\ id[r] = id[s]
                        => r = s
  /\ \A a \in wire : id[a.msg] = a.id /\ status[a.msg] \in {"sent", "expired"}
  /\ \A a \in wire, r \in Reqs :
       status[r] \in {"numbered", "queued", "sent"} /\ id[r] = a.id => r = a.msg

(* The list is in the order of the pushes.                                 *)
TicketsIncrease ==
  /\ \A i, j \in DOMAIN q.time :
       i < j => ticket[q.time[i].msg] < ticket[q.time[j].msg]
  /\ \A r \in Reqs : ticket[r] <= accepted

(* Inductive when FromRpc is empty.                                        *)
IndInv ==
  /\ TypeOK
  /\ NodesMatchRequests
  /\ PoppedIsPrefix
  /\ FirstIsExact
  /\ IdsAreNotShared
  /\ TicketsIncrease
  /\ AnswerToItsRequest
==============================================================================
