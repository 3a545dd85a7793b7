--------------------------- MODULE RpcClient_proofs ---------------------------
(***************************************************************************)
(* Proofs about RpcClient, for any calls, adapters and connections.        *)
(*                                                                         *)
(* An id is the key of everything: the queues hold at most one request for *)
(* an id and for a call, and whatever is under way with an id (in a send   *)
(* buffer, at the peer, received) belongs to the request of that id, which *)
(* has been popped.  From that follow that a response finds its own call,  *)
(* that pop never follows a dead iterator, and, call by call, who is going *)
(* to end it.                                                              *)
(***************************************************************************)
EXTENDS RpcClient, QueueLemmas, FiniteSetTheorems, TLAPS

-----------------------------------------------------------------------------
(***************************************************************************)
(* One queue: what was popped precedes what was not, and _firstNoPopIter,  *)
(* where pop looks at it, points to the first request that waits.          *)
(***************************************************************************)
QueueType == [time : Seq(Request), first : Nat \cup {End, Dangling}]

WellKept(q) ==
  /\ q \in QueueType
  /\ \A i, j \in DOMAIN q.time : q.time[i].id = q.time[j].id => i = j
  /\ \A i, j \in DOMAIN q.time : i < j /\ q.time[j].popped => q.time[i].popped
  /\ q.first = End => Waiting(q) = {}
  /\ q.time # <<>> /\ q.time[1].popped =>
       \/ q.first = End
       \/ \E i \in Waiting(q) : q.time[i].id = q.first /\ \A j \in Waiting(q) : i <= j

In(q) == Range(q.time)

-----------------------------------------------------------------------------
(***************************************************************************)
(* The inductive invariant.                                                *)
(***************************************************************************)
QueuesAreWellKept == \A k \in Queues : WellKept(queue[k])

(* An id, and a call, have one request in all the queues together.         *)
RequestsAreDistinct ==
  \A k, l \in Queues : \A n \in In(queue[k]), m \in In(queue[l]) :
    n.id = m.id \/ n.msg = m.msg => k = l /\ n = m

(* What is under way with an id belongs to the request that has it.        *)
Known(p) ==
  /\ p.id <= uniqId
  /\ \A k \in Queues : \A n \in In(queue[k]) : n.id = p.id => n.msg = p.msg /\ n.popped

AllKnown(s) == \A i \in DOMAIN s : Known(s[i])

PacketsAreKnown ==
  /\ \A c \in Conns : AllKnown(conn[c].sendBuf) /\ AllKnown(conn[c].inbound)
  /\ AllKnown(reactor.done)
  /\ \A s \in server : Known(s)

(* A request in a queue has not been answered, and its caller has chosen   *)
(* the connection that will be woken for it.                               *)
Busy(c) == reactor.conn = c /\ reactor.pc # "idle"

RequestsArePlaced ==
  \A k \in Queues : \A n \in In(queue[k]) :
    LET r == n.msg
        c == trans[r]
    IN  /\ n.id <= uniqId
        /\ pc[r] # "new" /\ ~resp[r].ver /\ c \in Conns
        /\ conn[c].st # "unused" /\ (k # Obj => conn[c].owner = k)
        /\ ~n.popped /\ conn[c].st = "open" => pc[r] = "pushed" \/ conn[c].edge \/ Busy(c)

Copying == {"copy", "copyRet", "copyBuffer", "deliver"}

(* The network thread's locals.                                            *)
ReactorAtWork ==
  /\ reactor.pc # "idle" =>
       /\ reactor.conn \in Conns
       /\ conn[reactor.conn].st # "unused" /\ conn[reactor.conn].owner \in Adapters
  /\ reactor.cur # None => reactor.pc \in Copying \cup {"pop"} /\ pc[reactor.cur] # "new"
  /\ reactor.pc \in Copying =>
       /\ reactor.cur # None /\ reactor.done # <<>> /\ Head(reactor.done).msg = reactor.cur
       /\ ~Queued(reactor.cur, queue)
       /\ resp[reactor.cur].ver <=> reactor.pc # "copy"
  /\ reactor.pc = "deliver" => resp[reactor.cur].body = reactor.cur
  /\ reactor.pc \in {"close", "closeNotify"} => reactor.after \in {"finished", "pop"}
  /\ reactor.pc = "closeNotify" => conn[reactor.conn].lastReq # None

(* Connections in use have an owner.                                       *)
OpenHasOwner == \A c \in Conns : conn[c].st = "open" => conn[c].owner \in Adapters

InAsyncQ(r) == \E i \in DOMAIN asyncQ : asyncQ[i].msg = r

CallbacksAreDistinct ==
  /\ \A i, j \in DOMAIN asyncQ : asyncQ[i].msg = asyncQ[j].msg => i = j
  /\ \A i \in DOMAIN asyncQ : /\ Kind[asyncQ[i].msg] = "async"
                              /\ asyncQ[i].ver => resp[asyncQ[i].msg].body = asyncQ[i].msg

(* The callback of the call has run or is going to.                        *)
Handed(r) == runs[r] = 1 \/ InAsyncQ(r)

AnswersAreOwn ==
  \A r \in Calls :
    /\ resp[r].body \in {r, None} /\ got[r] \in {r, None}
    /\ Kind[r] = "async" /\ outcome[r] = "ok" => got[r] = r

CallersAreConsistent ==
  \A r \in Calls :
    /\ pc[r] = "new" => ~resp[r].ver /\ outcome[r] = "none" /\ ~Handed(r)
    /\ pc[r] = "pushed" => trans[r] \in Conns
    /\ pc[r] \in {"check", "waiting", "woken"} => Kind[r] = "sync"

AsyncCallIsHandedOnce(r) ==
  /\ ~(runs[r] = 1 /\ InAsyncQ(r))
  /\ Handed(r) => /\ pc[r] \in {"pushed", "done"} /\ outcome[r] # "failed"
                  /\ ~Queued(r, queue) /\ reactor.cur # r
                  /\ pc[r] = "pushed" => resp[r].ver
  /\ resp[r].ver => Handed(r) \/ (reactor.pc \in Copying /\ reactor.cur = r)
  /\ pc[r] \in {"pushed", "done"} /\ outcome[r] # "failed" => Handed(r) \/ Referenced(r)
  /\ outcome[r] = "failed" => pc[r] = "done" /\ ~Referenced(r)

AsyncCallsAreHandedOnce == \A r \in Calls : Kind[r] = "async" => AsyncCallIsHandedOnce(r)

IndInv ==
  /\ TypeOK
  /\ QueuesAreWellKept /\ RequestsAreDistinct /\ PacketsAreKnown /\ RequestsArePlaced
  /\ ReactorAtWork /\ OpenHasOwner
  /\ CallbacksAreDistinct /\ AnswersAreOwn /\ CallersAreConsistent
  /\ AsyncCallsAreHandedOnce

-----------------------------------------------------------------------------
(***************************************************************************)
(* Lemmas about the queue operators.                                       *)
(***************************************************************************)

(* The parts of a well kept queue.                                         *)
LEMMA QueueFacts ==
  ASSUME NEW q, WellKept(q)
  PROVE  /\ q.time \in Seq(Request) /\ Len(q.time) \in Nat
         /\ DOMAIN q.time = 1 .. Len(q.time)
         /\ q.first \in Nat \cup {End, Dangling}
         /\ (q.time = <<>>) <=> (Len(q.time) = 0)
         /\ \A i \in 1 .. Len(q.time) :
              /\ q.time[i] \in Request /\ q.time[i] \in In(q)
              /\ q.time[i].id \in Nat /\ q.time[i].msg \in Calls /\ q.time[i].popped \in BOOLEAN
         /\ \A n \in In(q) : /\ n \in Request
                             /\ n.id \in Nat /\ n.msg \in Calls /\ n.popped \in BOOLEAN
                             /\ \E i \in 1 .. Len(q.time) : q.time[i] = n
<1>1. q.time \in Seq(Request) /\ q.first \in Nat \cup {End, Dangling}
  BY DEF WellKept, QueueType
<1>2. /\ Len(q.time) \in Nat /\ DOMAIN q.time = 1 .. Len(q.time)
      /\ \A i \in 1 .. Len(q.time) : q.time[i] \in Request
  BY <1>1
<1>3. (q.time = <<>>) <=> (Len(q.time) = 0)
  BY <1>1
<1>4. \A n \in Request : n.id \in Nat /\ n.msg \in Calls /\ n.popped \in BOOLEAN
  BY DEF Request
<1> QED BY <1>1, <1>2, <1>3, <1>4 DEF In, Range

(* Being in a queue, as the model says it and as the invariant does.       *)
LEMMA QueuedIsIn ==
  ASSUME NEW r, DOMAIN queue = Queues
  PROVE  Queued(r, queue) <=> \E k \in Queues : \E n \in In(queue[k]) : n.msg = r
BY DEF Queued, In, Range

(* push on an id that is not live.                                         *)
LEMMA PushedRequest ==
  ASSUME NEW q, WellKept(q), NEW id \in Nat, NEW r \in Calls, id \notin Ids(q),
         NEW p \in Pushed(q, id, r)
  PROVE  WellKept(p) /\ In(p) = In(q) \cup {Node(id, r)}
<1> DEFINE n == Len(q.time)
           x == Node(id, r)
<1>1. x \in Request /\ x.id = id /\ x.popped = FALSE
  BY DEF Node, Request
<1>2. /\ p.time = Append(q.time, x)
      /\ p = [time |-> p.time, first |-> p.first]
      /\ p.first = id \/ (p.first = q.first /\ q.first # End)
      /\ q.first # End /\ q.first # Dangling => p.first = q.first
  BY DEF Pushed
<1>3. /\ q.time \in Seq(Request) /\ n \in Nat /\ DOMAIN q.time = 1 .. n
      /\ q.first \in Nat \cup {End, Dangling}
      /\ (q.time = <<>>) <=> (n = 0)
      /\ \A i \in 1 .. n : q.time[i] \in Request /\ q.time[i].id \in Nat
                           /\ q.time[i].popped \in BOOLEAN
  BY QueueFacts
<1> HIDE DEF n, x
<1>4. /\ p.time \in Seq(Request) /\ DOMAIN p.time = 1 .. n + 1 /\ p.time # <<>>
      /\ p.time[n + 1] = x /\ \A i \in 1 .. n : p.time[i] = q.time[i]
  BY <1>1, <1>2, <1>3, AppendProperties, LenProperties DEF n
<1>5. \A i \in 1 .. n : q.time[i].id # id
  BY <1>3 DEF Ids
<1>6. p \in QueueType
  BY <1>2, <1>3, <1>4 DEF QueueType
<1>7. \A i, j \in DOMAIN p.time : p.time[i].id = p.time[j].id => i = j
  <2> SUFFICES ASSUME NEW i \in 1 .. n + 1, NEW j \in 1 .. n + 1, p.time[i].id = p.time[j].id
               PROVE  i = j
    BY <1>4
  <2>1. CASE i \in 1 .. n /\ j \in 1 .. n
    BY <1>3, <1>4, <2>1 DEF WellKept
  <2>2. CASE i \notin 1 .. n \/ j \notin 1 .. n
    BY <1>1, <1>3, <1>4, <1>5, <2>2
  <2> QED BY <2>1, <2>2
<1>8. \A i, j \in DOMAIN p.time : i < j /\ p.time[j].popped => p.time[i].popped
  <2> SUFFICES ASSUME NEW i \in 1 .. n + 1, NEW j \in 1 .. n + 1, i < j, p.time[j].popped
               PROVE  p.time[i].popped
    BY <1>4
  <2>1. j # n + 1
    BY <1>1, <1>4
  <2>2. i \in 1 .. n /\ j \in 1 .. n
    BY <1>3, <2>1
  <2> QED BY <1>3, <1>4, <2>2 DEF WellKept
<1>9. p.first # End
  BY <1>2 DEF End
<1>10. ASSUME p.time[1].popped
       PROVE  \E i \in Waiting(p) : p.time[i].id = p.first /\ \A j \in Waiting(p) : i <= j
  <2>1. 1 \in 1 .. n /\ q.time # <<>> /\ q.time[1].popped
    BY <1>1, <1>3, <1>4, <1>10
  <2>2. CASE q.first = End
    <3>1. p.first = id /\ \A i \in 1 .. n : q.time[i].popped
      BY <1>2, <1>3, <2>2 DEF WellKept, Waiting
    <3>2. \A i \in 1 .. n + 1 : i # n + 1 => p.time[i].popped
      <4> SUFFICES ASSUME NEW i \in 1 .. n + 1, i # n + 1 PROVE p.time[i].popped
        OBVIOUS
      <4>1. i \in 1 .. n
        BY <1>3
      <4> QED BY <1>4, <3>1, <4>1
    <3>3. n + 1 \in 1 .. n + 1 /\ ~p.time[n + 1].popped /\ p.time[n + 1].id = id
      BY <1>1, <1>3, <1>4
    <3>4. \A i : i \in Waiting(p) <=> i = n + 1
      BY <1>4, <3>2, <3>3 DEF Waiting
    <3> QED BY <1>3, <3>1, <3>3, <3>4
  <2>3. CASE q.first # End
    <3>1. PICK i \in Waiting(q) : q.time[i].id = q.first /\ \A j \in Waiting(q) : i <= j
      BY <2>1, <2>3 DEF WellKept
    <3>2. i \in 1 .. n /\ ~q.time[i].popped /\ q.first \in Nat
      BY <1>3, <3>1 DEF Waiting
    <3>3. p.first = q.first
      BY <1>2, <3>2, <2>3 DEF End, Dangling
    <3>4. i \in Waiting(p) /\ p.time[i].id = p.first
      BY <1>3, <1>4, <3>1, <3>2, <3>3 DEF Waiting
    <3>5. ASSUME NEW j \in Waiting(p) PROVE i <= j
      <4>1. j \in 1 .. n + 1 /\ ~p.time[j].popped
        BY <1>4 DEF Waiting
      <4>2. CASE j = n + 1
        BY <1>3, <3>2, <4>2
      <4>3. CASE j # n + 1
        <5>1. j \in Waiting(q)
          BY <1>3, <1>4, <4>1, <4>3 DEF Waiting
        <5> QED BY <3>1, <5>1
      <4> QED BY <4>2, <4>3
    <3> QED BY <3>4, <3>5
  <2> QED BY <2>2, <2>3
<1>11. In(p) = In(q) \cup {x}
  <2>1. \A y : y \in In(p) <=> \E i \in 1 .. n + 1 : p.time[i] = y
    BY <1>4 DEF In, Range
  <2>2. \A y : y \in In(q) <=> \E i \in 1 .. n : q.time[i] = y
    BY <1>3 DEF In, Range
  <2>3. n + 1 \in 1 .. n + 1 /\ \A i \in 1 .. n : i \in 1 .. n + 1
    BY <1>3
  <2>4. \A i \in 1 .. n + 1 : i \in 1 .. n \/ i = n + 1
    BY <1>3
  <2> QED BY <1>4, <2>1, <2>2, <2>3, <2>4
<1> QED BY <1>6, <1>7, <1>8, <1>9, <1>10, <1>11 DEF WellKept, x

(* get, erase or timeout: what is removed is the head, or has been popped. *)
LEMMA RemovedRequest ==
  ASSUME NEW q, WellKept(q), NEW i \in 1 .. Len(q.time), i = 1 \/ q.time[i].popped,
         NEW p, p = Removed(q, i)
  PROVE  WellKept(p) /\ In(p) = In(q) \ {q.time[i]}
<1> DEFINE n == Len(q.time)
           at(j) == IF j < i THEN j ELSE j + 1
<1>1. /\ q.time \in Seq(Request) /\ n \in Nat /\ DOMAIN q.time = 1 .. n
      /\ q.first \in Nat \cup {End, Dangling} /\ i \in 1 .. n
      /\ \A j \in 1 .. n : q.time[j] \in Request /\ q.time[j].id \in Nat
                           /\ q.time[j].popped \in BOOLEAN
  BY QueueFacts
<1>2. /\ p.time = RemoveAt(q.time, i)
      /\ p = [time |-> p.time, first |-> p.first]
      /\ p.first = IF q.first = q.time[i].id THEN Dangling ELSE q.first
  BY DEF Removed
<1>3. /\ p.time \in Seq(Request) /\ Len(p.time) = n - 1
      /\ \A j \in 1 .. n - 1 : p.time[j] = q.time[at(j)]
  BY <1>1, <1>2, RemovedAt
<1> HIDE DEF n
<1>4. DOMAIN p.time = 1 .. n - 1
  BY <1>3, LenProperties
<1>5. \A j \in 1 .. n - 1 : at(j) \in 1 .. n /\ at(j) # i
  BY <1>1
<1>6. \A j, k \in 1 .. n - 1 : (at(j) = at(k) => j = k) /\ (j < k => at(j) < at(k))
  BY <1>1
<1>7. \A j \in 1 .. n : j # i => \E k \in 1 .. n - 1 : at(k) = j
  <2> SUFFICES ASSUME NEW j \in 1 .. n, j # i PROVE \E k \in 1 .. n - 1 : at(k) = j
    OBVIOUS
  <2>1. CASE j < i
    <3>1. j \in 1 .. n - 1 /\ at(j) = j
      BY <1>1, <2>1
    <3> QED BY <3>1
  <2>2. CASE j > i
    <3>1. j - 1 \in 1 .. n - 1 /\ at(j - 1) = j
      BY <1>1, <2>2
    <3> QED BY <3>1
  <2> QED BY <1>1, <2>1, <2>2
<1> HIDE DEF at
<1>8. p \in QueueType
  BY <1>1, <1>2, <1>3 DEF QueueType
<1>9. \A j, k \in DOMAIN p.time : p.time[j].id = p.time[k].id => j = k
  <2> SUFFICES ASSUME NEW j \in 1 .. n - 1, NEW k \in 1 .. n - 1, p.time[j].id = p.time[k].id
               PROVE  j = k
    BY <1>4
  <2>1. q.time[at(j)].id = q.time[at(k)].id /\ at(j) \in 1 .. n /\ at(k) \in 1 .. n
    BY <1>3, <1>5
  <2>2. at(j) = at(k)
    BY <1>1, <2>1 DEF WellKept
  <2> QED BY <1>6, <2>2
<1>10. \A j, k \in DOMAIN p.time : j < k /\ p.time[k].popped => p.time[j].popped
  <2> SUFFICES ASSUME NEW j \in 1 .. n - 1, NEW k \in 1 .. n - 1, j < k, p.time[k].popped
               PROVE  p.time[j].popped
    BY <1>4
  <2>1. at(j) < at(k) /\ at(j) \in 1 .. n /\ at(k) \in 1 .. n /\ q.time[at(k)].popped
    BY <1>3, <1>5, <1>6
  <2>2. q.time[at(j)].popped
    BY <1>1, <2>1 DEF WellKept
  <2> QED BY <1>3, <2>2
<1>11. p.first = End => Waiting(p) = {}
  <2> SUFFICES ASSUME p.first = End, NEW j \in 1 .. n - 1 PROVE p.time[j].popped
    BY <1>4 DEF Waiting
  <2>1. q.first = End
    BY <1>2 DEF End, Dangling
  <2> QED BY <1>1, <1>3, <1>5, <2>1 DEF WellKept, Waiting
<1>12. ASSUME p.time # <<>>, p.time[1].popped, p.first # End
       PROVE  \E j \in Waiting(p) : p.time[j].id = p.first /\ \A k \in Waiting(p) : j <= k
  <2>1. 1 \in 1 .. n - 1
    BY <1>1, <1>3, <1>12
  <2>2. 1 \in 1 .. n /\ q.time # <<>> /\ at(1) \in 1 .. n /\ q.time[at(1)].popped
    BY <1>1, <1>3, <1>5, <1>12, <2>1
  <2>3. q.time[1].popped
    <3>1. CASE at(1) = 1
      BY <2>2, <3>1
    <3>2. CASE 1 < at(1)
      BY <1>1, <2>2, <3>2 DEF WellKept
    <3> QED BY <2>2, <3>1, <3>2
  <2>4. q.time[i].popped
    BY <2>3
  <2>5. q.first # End
    BY <1>1, <1>2, <1>12 DEF End
  <2>6. PICK w \in Waiting(q) : q.time[w].id = q.first /\ \A k \in Waiting(q) : w <= k
    BY <2>2, <2>3, <2>5 DEF WellKept
  <2>7. w \in 1 .. n /\ ~q.time[w].popped /\ w # i
    BY <1>1, <2>4, <2>6 DEF Waiting
  <2>8. q.time[w].id # q.time[i].id
    BY <1>1, <2>7 DEF WellKept
  <2>9. p.first = q.first
    BY <1>2, <2>6, <2>8
  <2>10. PICK j \in 1 .. n - 1 : at(j) = w
    BY <1>7, <2>7
  <2>11. j \in Waiting(p) /\ p.time[j].id = p.first
    BY <1>3, <1>4, <2>6, <2>7, <2>9, <2>10 DEF Waiting
  <2>12. ASSUME NEW k \in Waiting(p) PROVE j <= k
    <3>1. k \in 1 .. n - 1 /\ at(k) \in Waiting(q)
      BY <1>1, <1>3, <1>4, <1>5 DEF Waiting
    <3>2. w <= at(k)
      BY <2>6, <3>1
    <3>3. ~(at(k) < at(j))
      BY <1>1, <1>5, <2>10, <3>1, <3>2
    <3> QED BY <1>1, <1>6, <2>10, <3>1, <3>3
  <2> QED BY <2>11, <2>12
<1>13. In(p) = In(q) \ {q.time[i]}
  <2>1. \A y : y \in In(p) <=> \E j \in 1 .. n - 1 : p.time[j] = y
    BY <1>4 DEF In, Range
  <2>2. \A y : y \in In(q) <=> \E j \in 1 .. n : q.time[j] = y
    BY <1>1 DEF In, Range
  <2>3. \A j \in 1 .. n : j # i => q.time[j] # q.time[i]
    BY <1>1 DEF WellKept
  <2>4. ASSUME NEW y \in In(p) PROVE y \in In(q) \ {q.time[i]}
    BY <1>3, <1>5, <2>1, <2>2, <2>3, <2>4
  <2>5. ASSUME NEW y \in In(q), y # q.time[i] PROVE y \in In(p)
    <3>1. PICK j \in 1 .. n : q.time[j] = y
      BY <2>2
    <3>2. PICK k \in 1 .. n - 1 : at(k) = j
      BY <1>7, <2>5, <3>1
    <3> QED BY <1>3, <2>1, <3>1, <3>2
  <2> QED BY <2>4, <2>5
<1> QED BY <1>8, <1>9, <1>10, <1>11, <1>12, <1>13 DEF WellKept

(* pop: it follows no dead iterator, and takes the first that waits; when  *)
(* it returns NULL, nothing waits.                                         *)
LEMMA PopTarget ==
  ASSUME NEW q, WellKept(q), CanPop(q)
  PROVE  /\ PopSafe(q) /\ PopPos(q) \in 1 .. Len(q.time)
         /\ q.time[PopPos(q)] \in In(q) /\ ~q.time[PopPos(q)].popped
         /\ \A j \in 1 .. Len(q.time) : ~q.time[j].popped => PopPos(q) <= j
<1> DEFINE n == Len(q.time)
<1>1. /\ n \in Nat /\ DOMAIN q.time = 1 .. n /\ n # 0 /\ q.time # <<>>
      /\ \A j \in 1 .. n : q.time[j].id \in Nat /\ q.time[j].popped \in BOOLEAN
                           /\ q.time[j] \in In(q)
  BY QueueFacts DEF CanPop
<1>2. 1 \in 1 .. n
  BY <1>1
<1> HIDE DEF n
<1>3. CASE ~q.time[1].popped
  BY <1>1, <1>2, <1>3 DEF PopSafe, PopPos, n
<1>4. CASE q.time[1].popped
  <2>1. q.first # End
    BY <1>4 DEF CanPop
  <2>2. PICK w \in Waiting(q) : q.time[w].id = q.first /\ \A k \in Waiting(q) : w <= k
    BY <1>1, <1>4, <2>1 DEF WellKept
  <2>3. w \in 1 .. n /\ ~q.time[w].popped /\ q.first \in Ids(q)
    BY <1>1, <2>2 DEF Waiting, Ids
  <2>4. Pos(q, q.first) \in DOMAIN q.time /\ q.time[Pos(q, q.first)].id = q.first
    BY <2>3 DEF Ids, Pos
  <2>5. Pos(q, q.first) = w
    BY <1>1, <2>2, <2>3, <2>4 DEF WellKept
  <2>6. PopPos(q) = w
    BY <1>4, <2>5 DEF PopPos
  <2> QED BY <1>1, <2>2, <2>3, <2>6 DEF PopSafe, Waiting, n
<1> QED BY <1>1, <1>2, <1>3, <1>4

LEMMA NothingToPop ==
  ASSUME NEW q, WellKept(q), ~CanPop(q), NEW n \in In(q)
  PROVE  n.popped
<1>1. PICK i \in DOMAIN q.time : q.time[i] = n
  BY DEF In, Range
<1>2. q.time # <<>>
  BY <1>1, QueueFacts
<1>3. q.first = End
  BY <1>2 DEF CanPop
<1>4. i \notin Waiting(q)
  BY <1>3 DEF WellKept
<1> QED BY <1>1, <1>4 DEF Waiting

LEMMA PoppedRequest ==
  ASSUME NEW q, WellKept(q), CanPop(q), NEW p, p = Popped(q), NEW n, n = q.time[PopPos(q)]
  PROVE  WellKept(p) /\ In(p) = (In(q) \ {n}) \cup {[n EXCEPT !.popped = TRUE]}
<1> DEFINE l == Len(q.time)
           i == PopPos(q)
           m == [n EXCEPT !.popped = TRUE]
<1>1. /\ q.time \in Seq(Request) /\ l \in Nat /\ DOMAIN q.time = 1 .. l
      /\ \A j \in 1 .. l : q.time[j] \in Request /\ q.time[j].id \in Nat
                           /\ q.time[j].popped \in BOOLEAN
  BY QueueFacts
<1>2. i \in 1 .. l /\ ~q.time[i].popped /\ \A j \in 1 .. l : ~q.time[j].popped => i <= j
  BY PopTarget
<1>3. /\ p = [time |-> p.time, first |-> p.first]
      /\ p.time = [q.time EXCEPT ![i].popped = TRUE]
      /\ p.first = IF i = l THEN End ELSE q.time[i + 1].id
  BY DEF Popped
<1>4. n \in Request /\ n = q.time[i]
  BY <1>1, <1>2
<1>5. m \in Request /\ m.id = n.id /\ m.msg = n.msg /\ m.popped = TRUE /\ m # n
  BY <1>2, <1>4 DEF Request
<1>6. p.time = [q.time EXCEPT ![i] = m]
  BY <1>3, <1>4
<1> HIDE DEF l, i, m
<1>7. /\ p.time \in Seq(Request) /\ Len(p.time) = l
      /\ \A j \in 1 .. l : p.time[j] = IF j = i THEN m ELSE q.time[j]
  BY <1>1, <1>2, <1>5, <1>6, ExceptSeq DEF l
<1>8. DOMAIN p.time = 1 .. l
  BY <1>7, LenProperties
<1>9. \A j \in 1 .. l : /\ p.time[j].id = q.time[j].id
                        /\ p.time[j].popped <=> (j = i \/ q.time[j].popped)
  BY <1>4, <1>5, <1>7
<1>10. \A j \in 1 .. l : p.time[j].popped <=> j <= i
  <2> SUFFICES ASSUME NEW j \in 1 .. l PROVE p.time[j].popped <=> j <= i
    OBVIOUS
  <2>1. CASE j < i
    BY <1>1, <1>2, <1>9, <2>1
  <2>2. CASE j = i
    BY <1>1, <1>2, <1>9, <2>2
  <2>3. CASE j > i
    <3>1. ~q.time[j].popped
      BY <1>1, <1>2, <2>3 DEF WellKept
    <3> QED BY <1>1, <1>2, <1>9, <2>3, <3>1
  <2> QED BY <1>1, <1>2, <2>1, <2>2, <2>3
<1>11. p \in QueueType
  <2>1. i # l => i + 1 \in 1 .. l
    BY <1>1, <1>2
  <2>2. p.first \in Nat \cup {End, Dangling}
    BY <1>1, <1>3, <2>1
  <2> QED BY <1>3, <1>7, <2>2 DEF QueueType
<1>12. \A j, k \in DOMAIN p.time : p.time[j].id = p.time[k].id => j = k
  BY <1>1, <1>8, <1>9 DEF WellKept
<1>13. \A j, k \in DOMAIN p.time : j < k /\ p.time[k].popped => p.time[j].popped
  BY <1>1, <1>2, <1>8, <1>10
<1>14. p.first = End => Waiting(p) = {}
  <2> SUFFICES ASSUME p.first = End, NEW j \in 1 .. l PROVE p.time[j].popped
    BY <1>8 DEF Waiting
  <2>1. i = l
    <3>1. i # l => i + 1 \in 1 .. l
      BY <1>1, <1>2
    <3> QED BY <1>1, <1>3, <3>1 DEF End
  <2> QED BY <1>1, <1>10, <2>1
<1>15. p.first # End =>
         \E j \in Waiting(p) : p.time[j].id = p.first /\ \A k \in Waiting(p) : j <= k
  <2> SUFFICES ASSUME p.first # End
               PROVE  \E j \in Waiting(p) : p.time[j].id = p.first /\ \A k \in Waiting(p) : j <= k
    OBVIOUS
  <2>1. i + 1 \in 1 .. l /\ p.first = q.time[i + 1].id
    BY <1>1, <1>2, <1>3
  <2>2. i + 1 \in Waiting(p) /\ p.time[i + 1].id = p.first
    BY <1>1, <1>2, <1>8, <1>9, <1>10, <2>1 DEF Waiting
  <2>3. ASSUME NEW k \in Waiting(p) PROVE i + 1 <= k
    <3>1. k \in 1 .. l /\ ~p.time[k].popped
      BY <1>8 DEF Waiting
    <3> QED BY <1>1, <1>2, <1>10, <3>1
  <2> QED BY <2>2, <2>3
<1>16. In(p) = (In(q) \ {n}) \cup {m}
  <2>1. \A y : y \in In(p) <=> \E j \in 1 .. l : p.time[j] = y
    BY <1>8 DEF In, Range
  <2>2. \A y : y \in In(q) <=> \E j \in 1 .. l : q.time[j] = y
    BY <1>1 DEF In, Range
  <2>3. \A j \in 1 .. l : j # i => q.time[j] # n
    BY <1>1, <1>2, <1>4 DEF WellKept
  <2>4. ASSUME NEW y \in In(p) PROVE y \in (In(q) \ {n}) \cup {m}
    BY <1>7, <2>1, <2>2, <2>3, <2>4
  <2>5. m \in In(p)
    BY <1>2, <1>7, <2>1
  <2>6. ASSUME NEW y \in In(q), y # n PROVE y \in In(p)
    <3>1. PICK j \in 1 .. l : q.time[j] = y
      BY <2>2
    <3> QED BY <1>4, <1>7, <2>1, <2>6, <3>1
  <2> QED BY <2>4, <2>5, <2>6
<1> QED BY <1>11, <1>12, <1>13, <1>14, <1>15, <1>16 DEF WellKept, m

-----------------------------------------------------------------------------
(***************************************************************************)
(* Lemmas about the parts of the state.                                    *)
(***************************************************************************)
LEMMA NoneIsNoName ==
  /\ None \notin Calls /\ None \notin Conns /\ None \notin Adapters /\ Obj \in Queues
  /\ \A a \in Adapters : a \in Queues /\ a # Obj
BY NamesAssumption DEF Queues

LEMMA StateFacts ==
  ASSUME TypeOK
  PROVE  /\ DOMAIN queue = Queues /\ uniqId \in Nat
         /\ \A c \in Conns : conn[c] \in Socket
         /\ \A r \in Calls : resp[r] \in Response /\ trans[r] \in Conns \cup {None}
         /\ reactor \in NetThread /\ asyncQ \in Seq(Callback)
         /\ Kind \in [Calls -> {"sync", "async", "oneway", "none"}] /\ Hashed \subseteq Calls
BY MixesAssumption DEF TypeOK, Kind, Hashed

LEMMA SocketFacts ==
  ASSUME NEW s \in Socket
  PROVE  /\ s.st \in {"unused", "open", "closed"} /\ s.owner \in Adapters \cup {None}
         /\ s.up \in BOOLEAN /\ s.edge \in BOOLEAN
         /\ s.sendBuf \in Seq(Packet) /\ s.inbound \in Seq(Packet)
         /\ s.lastReq \in Calls \cup {None}
BY DEF Socket

LEMMA ReactorFacts ==
  ASSUME NEW t \in NetThread
  PROVE  /\ t.conn \in Conns \cup {None} /\ t.done \in Seq(Packet)
         /\ t.cur \in Calls \cup {None} /\ t.any \in BOOLEAN
         /\ t.after \in {"idle", "finished", "pop"}
         /\ t.pc \in {"idle", "recv", "close", "closeNotify", "finished", "copy", "copyRet",
                      "copyBuffer", "deliver", "send", "pop"}
BY DEF NetThread

LEMMA EntryFacts ==
  ASSUME asyncQ \in Seq(Callback)
  PROVE  \A i \in DOMAIN asyncQ : asyncQ[i] \in Callback /\ asyncQ[i].msg \in Calls
<1>1. \A i \in DOMAIN asyncQ : asyncQ[i] \in Callback
  OBVIOUS
<1> QED BY <1>1 DEF Callback

(* A message comes in behind the others.                                   *)
LEMMA EntryAdded ==
  ASSUME asyncQ \in Seq(Callback), CallbacksAreDistinct, NEW e \in Callback,
         asyncQ' = Append(asyncQ, e), ~InAsyncQ(e.msg),
         Kind'[e.msg] = "async", e.ver => resp'[e.msg].body = e.msg,
         Kind' = Kind,
         \A r \in Calls : resp[r].body = r => resp'[r].body = r
  PROVE  /\ asyncQ' \in Seq(Callback) /\ CallbacksAreDistinct'
         /\ \A r : InAsyncQ(r)' <=> InAsyncQ(r) \/ r = e.msg
<1> DEFINE n == Len(asyncQ)
<1>1. /\ n \in Nat /\ DOMAIN asyncQ = 1 .. n /\ asyncQ' \in Seq(Callback)
      /\ DOMAIN asyncQ' = 1 .. n + 1 /\ asyncQ'[n + 1] = e
      /\ \A i \in 1 .. n : asyncQ'[i] = asyncQ[i] /\ asyncQ[i].msg \in Calls
  <2>1. \A c \in Callback : c.msg \in Calls
    BY DEF Callback
  <2>2. \A i \in 1 .. n : asyncQ[i] \in Callback
    OBVIOUS
  <2> QED BY <2>1, <2>2
<1> HIDE DEF n
<1>2. \A i \in 1 .. n + 1 : i \in 1 .. n \/ i = n + 1
  BY <1>1
<1>3. n + 1 \in 1 .. n + 1 /\ \A i \in 1 .. n : i \in 1 .. n + 1
  BY <1>1
<1>4. \A r : InAsyncQ(r)' <=> InAsyncQ(r) \/ r = e.msg
  BY <1>1, <1>2, <1>3 DEF InAsyncQ
<1>5. \A i \in 1 .. n : asyncQ[i].msg # e.msg
  BY <1>1 DEF InAsyncQ
<1>6. \A i, j \in 1 .. n + 1 : asyncQ'[i].msg = asyncQ'[j].msg => i = j
  BY <1>1, <1>2, <1>5 DEF CallbacksAreDistinct
<1>7. \A i \in 1 .. n + 1 : /\ Kind'[asyncQ'[i].msg] = "async"
                            /\ asyncQ'[i].ver => resp'[asyncQ'[i].msg].body = asyncQ'[i].msg
  BY <1>1, <1>2 DEF CallbacksAreDistinct
<1> QED BY <1>1, <1>4, <1>6, <1>7 DEF CallbacksAreDistinct

(* A callback thread takes the first message.                              *)
LEMMA EntryTaken ==
  ASSUME asyncQ \in Seq(Callback), CallbacksAreDistinct, asyncQ # <<>>,
         asyncQ' = Tail(asyncQ), UNCHANGED <<resp, Kind>>
  PROVE  /\ asyncQ' \in Seq(Callback) /\ CallbacksAreDistinct'
         /\ Head(asyncQ) \in Callback /\ InAsyncQ(Head(asyncQ).msg)
         /\ Kind[Head(asyncQ).msg] = "async"
         /\ Head(asyncQ).ver => resp[Head(asyncQ).msg].body = Head(asyncQ).msg
         /\ \A r : InAsyncQ(r)' <=> InAsyncQ(r) /\ r # Head(asyncQ).msg
<1> DEFINE n == Len(asyncQ)
<1>1. /\ n \in Nat /\ n >= 1 /\ DOMAIN asyncQ = 1 .. n /\ asyncQ' \in Seq(Callback)
      /\ DOMAIN asyncQ' = 1 .. n - 1 /\ Head(asyncQ) = asyncQ[1]
      /\ Head(asyncQ) \in Callback
      /\ \A i \in 1 .. n - 1 : asyncQ'[i] = asyncQ[i + 1]
  OBVIOUS
<1> HIDE DEF n
<1>2. \A i \in 1 .. n - 1 : i + 1 \in 1 .. n /\ i + 1 # 1
  BY <1>1
<1>3. \A i \in 1 .. n : i # 1 => i - 1 \in 1 .. n - 1 /\ (i - 1) + 1 = i
  BY <1>1
<1>4. 1 \in 1 .. n
  BY <1>1
<1>5. \A i \in 1 .. n : i # 1 => asyncQ[i].msg # asyncQ[1].msg
  BY <1>1, <1>4 DEF CallbacksAreDistinct
<1>6. ASSUME NEW r PROVE InAsyncQ(r)' <=> InAsyncQ(r) /\ r # asyncQ[1].msg
  <2>1. ASSUME InAsyncQ(r)' PROVE InAsyncQ(r) /\ r # asyncQ[1].msg
    <3>1. PICK i \in 1 .. n - 1 : asyncQ'[i].msg = r
      BY <1>1, <2>1 DEF InAsyncQ
    <3> QED BY <1>1, <1>2, <1>5, <3>1 DEF InAsyncQ
  <2>2. ASSUME InAsyncQ(r), r # asyncQ[1].msg PROVE InAsyncQ(r)'
    <3>1. PICK i \in 1 .. n : asyncQ[i].msg = r
      BY <1>1, <2>2 DEF InAsyncQ
    <3>2. i - 1 \in 1 .. n - 1 /\ asyncQ'[i - 1].msg = r
      BY <1>1, <1>3, <2>2, <3>1
    <3> QED BY <1>1, <3>2 DEF InAsyncQ
  <2> QED BY <2>1, <2>2
<1>7. CallbacksAreDistinct'
  <2>1. \A i, j \in 1 .. n - 1 : asyncQ'[i].msg = asyncQ'[j].msg => i = j
    <3> SUFFICES ASSUME NEW i \in 1 .. n - 1, NEW j \in 1 .. n - 1, asyncQ'[i].msg = asyncQ'[j].msg
                 PROVE  i = j
      OBVIOUS
    <3>1. i + 1 = j + 1
      BY <1>1, <1>2 DEF CallbacksAreDistinct
    <3> QED BY <3>1
  <2>2. \A i \in 1 .. n - 1 : /\ Kind[asyncQ'[i].msg] = "async"
                              /\ asyncQ'[i].ver => resp[asyncQ'[i].msg].body = asyncQ'[i].msg
    BY <1>1, <1>2 DEF CallbacksAreDistinct
  <2> QED BY <1>1, <2>1, <2>2 DEF CallbacksAreDistinct
<1> QED BY <1>1, <1>4, <1>6, <1>7 DEF CallbacksAreDistinct, InAsyncQ

-----------------------------------------------------------------------------
(***************************************************************************)
(* IndInv holds initially.                                                 *)
(***************************************************************************)
LEMMA InitIndInv == Init => IndInv
<1> SUFFICES ASSUME Init PROVE IndInv
  OBVIOUS
<1> USE DEF Init
<1>1. \A S : <<>> \in Seq(S)
  BY EmptyQueue
<1>2. TypeOK
  <2>1. NewQueue(Dangling) \in [time : Seq(Request), first : Nat \cup {End, Dangling}]
    BY <1>1 DEF NewQueue
  <2>2. NoConn \in Socket /\ [NoConn EXCEPT !.st = "closed"] \in Socket
    BY <1>1 DEF NoConn, Socket
  <2>3. NoResponse \in Response
    BY DEF NoResponse, Response
  <2>4. Idle \in NetThread
    BY <1>1 DEF Idle, NetThread
  <2> QED BY <1>1, <2>1, <2>2, <2>3, <2>4 DEF TypeOK
<1>3. \A k \in Queues : queue[k] = NewQueue(Dangling) /\ In(queue[k]) = {}
  BY EmptyQueue DEF NewQueue, In
<1>4. QueuesAreWellKept
  <2>1. WellKept(NewQueue(Dangling))
    BY <1>1 DEF WellKept, NewQueue, QueueType, Waiting, Dangling, End
  <2> QED BY <1>3, <2>1 DEF QueuesAreWellKept
<1>5. \A c \in Conns : /\ conn[c].sendBuf = <<>> /\ conn[c].inbound = <<>>
                       /\ conn[c].st # "open"
  BY DEF NoConn
<1>6. PacketsAreKnown
  <2>1. AllKnown(<<>>)
    BY DEF AllKnown
  <2> QED BY <1>5, <2>1 DEF PacketsAreKnown, Idle
<1>7. reactor.pc = "idle" /\ reactor.cur = None
  BY DEF Idle
<1>8. \A r \in Calls : /\ ~Queued(r, queue) /\ ~InAsyncQ(r) /\ runs[r] = 0
                       /\ ~resp[r].ver /\ resp[r].body = None
  <2>1. \A r : ~Queued(r, queue)
    BY DEF Queued, NewQueue
  <2> QED BY <2>1 DEF InAsyncQ, NoResponse
<1>9. RequestsAreDistinct /\ RequestsArePlaced /\ OpenHasOwner
  BY <1>3, <1>5 DEF RequestsAreDistinct, RequestsArePlaced, OpenHasOwner
<1>10. ReactorAtWork
  BY <1>7 DEF ReactorAtWork, Copying
<1>11. CallbacksAreDistinct /\ AnswersAreOwn /\ CallersAreConsistent
  BY <1>8 DEF CallbacksAreDistinct, AnswersAreOwn, CallersAreConsistent, Handed
<1>12. AsyncCallsAreHandedOnce
  BY <1>7, <1>8, NoneIsNoName DEF AsyncCallsAreHandedOnce, AsyncCallIsHandedOnce, Handed,
    Referenced, Copying
<1> QED BY <1>2, <1>4, <1>6, <1>9, <1>10, <1>11, <1>12 DEF IndInv

-----------------------------------------------------------------------------
(***************************************************************************)
(* What leaves the parts of IndInv alone.                                  *)
(***************************************************************************)

(* Nothing changes.                                                        *)
LEMMA Stutter ==
  ASSUME IndInv, UNCHANGED <<vars, mix>>
  PROVE  IndInv'
<1> USE DEF vars, told
<1>1. Kind' = Kind /\ \A r : InAsyncQ(r)' <=> InAsyncQ(r)
  BY DEF Kind, InAsyncQ
<1>2. TypeOK' /\ QueuesAreWellKept' /\ RequestsAreDistinct'
  BY DEF IndInv, TypeOK, QueuesAreWellKept, RequestsAreDistinct
<1>3. PacketsAreKnown' /\ RequestsArePlaced'
  BY DEF IndInv, PacketsAreKnown, AllKnown, Known, RequestsArePlaced, Busy
<1>4. ReactorAtWork' /\ OpenHasOwner'
  BY DEF IndInv, ReactorAtWork, OpenHasOwner
<1>5. CallbacksAreDistinct' /\ AnswersAreOwn' /\ CallersAreConsistent'
  BY <1>1 DEF IndInv, CallbacksAreDistinct, AnswersAreOwn, CallersAreConsistent, Handed
<1>6. AsyncCallsAreHandedOnce'
  BY <1>1 DEF IndInv, AsyncCallsAreHandedOnce, AsyncCallIsHandedOnce, Handed, Referenced
<1> QED BY <1>2, <1>3, <1>4, <1>5, <1>6 DEF IndInv

(* The queues do not change.                                               *)
LEMMA SameQueues ==
  ASSUME IndInv, UNCHANGED queue
  PROVE  QueuesAreWellKept' /\ RequestsAreDistinct'
BY DEF IndInv, QueuesAreWellKept, RequestsAreDistinct

(* Nothing happens to the calls.                                           *)
LEMMA SameCalls ==
  ASSUME IndInv, UNCHANGED <<pc, trans, resp, asyncQ, outcome, got, runs, mix>>
  PROVE  CallbacksAreDistinct' /\ AnswersAreOwn' /\ CallersAreConsistent'
<1>1. Kind' = Kind /\ \A r : InAsyncQ(r)' <=> InAsyncQ(r)
  BY DEF Kind, InAsyncQ
<1> QED BY <1>1 DEF IndInv, CallbacksAreDistinct, AnswersAreOwn, CallersAreConsistent, Handed

(* Responses change, each to its own answer if at all.                     *)
LEMMA SameAnswers ==
  ASSUME IndInv, UNCHANGED <<pc, trans, asyncQ, outcome, got, runs, mix>>,
         \A r \in Calls : /\ resp'[r].ver = resp[r].ver
                          /\ resp'[r].body \in {resp[r].body, r}
  PROVE  CallbacksAreDistinct' /\ AnswersAreOwn' /\ CallersAreConsistent'
<1>1. Kind' = Kind /\ \A r : InAsyncQ(r)' <=> InAsyncQ(r)
  BY DEF Kind, InAsyncQ
<1>2. \A i \in DOMAIN asyncQ : asyncQ[i].msg \in Calls
  BY EntryFacts, StateFacts DEF IndInv
<1> QED BY <1>1, <1>2 DEF IndInv, CallbacksAreDistinct, AnswersAreOwn, CallersAreConsistent, Handed

(* An asynchronous call is where it was.                                   *)
SameReferences ==
  /\ reactor'.cur = reactor.cur
  /\ reactor.cur # None => (reactor'.pc \in Copying <=> reactor.pc \in Copying)

LEMMA SameHands ==
  ASSUME IndInv, UNCHANGED <<queue, asyncQ, outcome, runs, mix>>,
         \A r \in Calls : Kind[r] = "async" => pc'[r] = pc[r],
         \A r \in Calls : resp'[r].ver = resp[r].ver, SameReferences
  PROVE  AsyncCallsAreHandedOnce'
<1>1. Kind' = Kind /\ \A r : InAsyncQ(r)' <=> InAsyncQ(r)
  BY DEF Kind, InAsyncQ
<1> SUFFICES ASSUME NEW r \in Calls, Kind[r] = "async"
             PROVE  AsyncCallIsHandedOnce(r)'
  BY <1>1 DEF AsyncCallsAreHandedOnce
<1>2. AsyncCallIsHandedOnce(r) /\ r # None
  BY NoneIsNoName DEF IndInv, AsyncCallsAreHandedOnce
<1>3. Handed(r)' <=> Handed(r)
  BY <1>1 DEF Handed
<1>4. Queued(r, queue)' <=> Queued(r, queue)
  OBVIOUS
<1>5. Referenced(r)' <=> Referenced(r)
  BY <1>4 DEF Referenced, SameReferences
<1>6. (reactor'.pc \in Copying /\ reactor'.cur = r) <=> (reactor.pc \in Copying /\ reactor.cur = r)
  BY <1>2 DEF SameReferences
<1> QED BY <1>1, <1>2, <1>3, <1>4, <1>5, <1>6 DEF AsyncCallIsHandedOnce, SameReferences

(* The connections serve the requests that they served.                    *)
ServesOn(c) ==
  conn[c].st # "unused" =>
    /\ conn'[c].st # "unused" /\ conn'[c].owner = conn[c].owner
    /\ conn'[c].st = "open" =>
         conn[c].st = "open" /\ (conn[c].edge \/ Busy(c) => conn'[c].edge \/ Busy(c)')

LEMMA SamePlaces ==
  ASSUME IndInv, UNCHANGED <<uniqId, pc, trans>>, \A r \in Calls : resp'[r].ver = resp[r].ver,
         \A k \in Queues : In(queue'[k]) \subseteq In(queue[k]), \A c \in Conns : ServesOn(c)
  PROVE  RequestsArePlaced'
<1> SUFFICES ASSUME NEW k \in Queues, NEW n \in In(queue[k])
             PROVE  LET r == n.msg
                        c == trans[r]
                    IN  /\ n.id <= uniqId
                        /\ pc[r] # "new" /\ ~resp'[r].ver /\ c \in Conns
                        /\ conn'[c].st # "unused" /\ (k # Obj => conn'[c].owner = k)
                        /\ ~n.popped /\ conn'[c].st = "open"
                             => pc[r] = "pushed" \/ conn'[c].edge \/ Busy(c)'
  BY DEF RequestsArePlaced
<1>1. n.msg \in Calls
  BY QueueFacts DEF IndInv, QueuesAreWellKept
<1>2. trans[n.msg] \in Conns /\ ServesOn(trans[n.msg])
  BY DEF IndInv, RequestsArePlaced
<1> QED BY <1>1, <1>2 DEF IndInv, RequestsArePlaced, ServesOn

(* Connections in use keep their owners, and no new ones come into use.    *)
LEMMA SameOwners ==
  ASSUME IndInv, \A c \in Conns : ServesOn(c), \A c \in Conns : conn'[c].st = "open" => conn[c].st = "open"
  PROVE  OpenHasOwner'
BY DEF IndInv, OpenHasOwner, ServesOn

(* What is under way is still known when requests are only popped or       *)
(* removed.                                                                *)
LEMMA StillKnown ==
  ASSUME IndInv, UNCHANGED uniqId, NEW p, Known(p),
         \A k \in Queues : \A m \in In(queue'[k]) :
           \E n \in In(queue[k]) : m.id = n.id /\ m.msg = n.msg /\ (n.popped => m.popped)
  PROVE  Known(p)'
BY DEF Known

LEMMA SameKnown ==
  ASSUME UNCHANGED <<queue, uniqId>>
  PROVE  /\ \A p : Known(p)' <=> Known(p)
         /\ \A s : AllKnown(s)' <=> AllKnown(s)
BY DEF Known, AllKnown

-----------------------------------------------------------------------------
(***************************************************************************)
(* IndInv is preserved by every step of the network thread.                *)
(***************************************************************************)

(* The connection it works on.                                             *)
LEMMA AtWork ==
  ASSUME IndInv, reactor.pc # "idle"
  PROVE  /\ reactor.conn \in Conns /\ C \in Socket /\ C = conn[reactor.conn]
         /\ C.st \in {"open", "closed"} /\ C.owner \in Adapters
<1>1. reactor.conn \in Conns /\ C.st # "unused" /\ C.owner \in Adapters
  BY DEF IndInv, ReactorAtWork, C
<1>2. C \in Socket
  BY <1>1, StateFacts DEF IndInv, C
<1> QED BY <1>1, <1>2, SocketFacts DEF C

LEMMA EventStep ==
  ASSUME IndInv, NEW c \in Conns, Event(c), UNCHANGED mix
  PROVE  IndInv'
<1>1. /\ reactor.pc = "idle" /\ conn[c].st = "open" /\ conn[c].edge
      /\ conn' = [conn EXCEPT ![c].edge = FALSE]
      /\ reactor' = [Idle EXCEPT !.pc = "recv", !.conn = c]
      /\ UNCHANGED <<queue, uniqId, server, pc, trans, resp, asyncQ, outcome, got, runs, mix>>
  BY DEF Event, ReactorAt, told
<1>2. /\ reactor'.pc = "recv" /\ reactor'.conn = c /\ reactor'.done = <<>> /\ reactor'.cur = None
      /\ reactor' \in NetThread
  BY <1>1, EmptyQueue DEF Idle, NetThread
<1>3. TypeOK /\ reactor.cur = None
  BY <1>1 DEF IndInv, ReactorAtWork, Copying
<1>4. /\ conn' \in [Conns -> Socket]
      /\ \A d \in Conns : /\ conn'[d].st = conn[d].st /\ conn'[d].owner = conn[d].owner
                          /\ conn'[d].sendBuf = conn[d].sendBuf
                          /\ conn'[d].inbound = conn[d].inbound
                          /\ d # c => conn'[d] = conn[d]
  <2>1. conn[c] \in Socket /\ [conn[c] EXCEPT !.edge = FALSE] \in Socket
    BY <1>3, StateFacts DEF Socket
  <2> QED BY <1>1, <1>3, <2>1 DEF TypeOK, Socket
<1>5. TypeOK'
  BY <1>1, <1>2, <1>3, <1>4 DEF TypeOK
<1>6. \A d \in Conns : ServesOn(d)
  BY <1>1, <1>2, <1>4 DEF ServesOn, Busy
<1>7. PacketsAreKnown'
  <2>1. AllKnown(<<>>)
    BY DEF AllKnown
  <2> QED BY <1>1, <1>2, <1>4, <2>1, SameKnown DEF IndInv, PacketsAreKnown
<1>8. RequestsArePlaced' /\ OpenHasOwner'
  BY <1>1, <1>4, <1>6, SamePlaces, SameOwners
<1>9. ReactorAtWork'
  <2>1. conn'[c].st # "unused" /\ conn'[c].owner \in Adapters
    BY <1>1, <1>4 DEF IndInv, OpenHasOwner
  <2> QED BY <1>2, <2>1 DEF ReactorAtWork, Copying
<1>10. SameReferences
  BY <1>2, <1>3 DEF SameReferences
<1> QED BY <1>1, <1>5, <1>7, <1>8, <1>9, <1>10, SameQueues, SameCalls, SameHands DEF IndInv

LEMMA RecvStep ==
  ASSUME IndInv, Recv, UNCHANGED mix
  PROVE  IndInv'
<1> DEFINE c == reactor.conn
<1>1. /\ reactor.pc = "recv"
      /\ UNCHANGED <<queue, uniqId, server, pc, trans, resp, asyncQ, outcome, got, runs, mix>>
  BY DEF Recv, ReactorAt, told
<1>2. /\ TypeOK /\ reactor.cur = None /\ reactor \in NetThread
      /\ c \in Conns /\ C \in Socket /\ C = conn[c] /\ C.st # "unused" /\ C.owner \in Adapters
      /\ C.inbound \in Seq(Packet) /\ AllKnown(C.inbound) /\ AllKnown(reactor.done)
  <2>1. c \in Conns /\ C \in Socket /\ C = conn[c] /\ C.st # "unused" /\ C.owner \in Adapters
    BY <1>1, AtWork
  <2> QED BY <1>1, <2>1, SocketFacts, StateFacts DEF IndInv, ReactorAtWork, Copying, PacketsAreKnown
<1>3. /\ reactor' \in NetThread /\ reactor'.conn = c /\ reactor'.cur = None
      /\ reactor'.done \in {C.inbound, reactor.done} /\ reactor'.pc \in {"finished", "close"}
      /\ reactor'.pc = "close" => reactor'.after = "finished"
  <2>1. CASE reactor' = [reactor EXCEPT !.done = C.inbound,
                                        !.pc = IF C.up THEN "finished" ELSE "close",
                                        !.after = "finished"]
    BY <1>2, <2>1 DEF NetThread
  <2>2. CASE reactor' = [reactor EXCEPT !.pc = "finished"]
    BY <1>2, <2>2 DEF NetThread
  <2> QED BY <2>1, <2>2 DEF Recv
<1>4. /\ conn' \in [Conns -> Socket]
      /\ \A d \in Conns : /\ conn'[d].st = conn[d].st /\ conn'[d].owner = conn[d].owner
                          /\ conn'[d].sendBuf = conn[d].sendBuf /\ conn'[d].edge = conn[d].edge
                          /\ conn'[d].inbound \in {<<>>, conn[d].inbound}
  <2>1. [conn[c] EXCEPT !.inbound = <<>>] \in Socket
    BY <1>2, EmptyQueue DEF Socket
  <2>2. CASE conn' = [conn EXCEPT ![c].inbound = <<>>]
    BY <1>2, <2>1, <2>2 DEF TypeOK, Socket
  <2>3. CASE conn' = conn
    BY <1>2, <2>3 DEF TypeOK
  <2> QED BY <2>2, <2>3 DEF Recv
<1>5. TypeOK'
  BY <1>1, <1>2, <1>3, <1>4 DEF TypeOK
<1>6. \A d \in Conns : ServesOn(d)
  BY <1>1, <1>3, <1>4 DEF ServesOn, Busy
<1>7. PacketsAreKnown'
  <2>1. AllKnown(<<>>)
    BY DEF AllKnown
  <2> QED BY <1>1, <1>2, <1>3, <1>4, <2>1, SameKnown DEF IndInv, PacketsAreKnown
<1>8. RequestsArePlaced' /\ OpenHasOwner'
  BY <1>1, <1>4, <1>6, SamePlaces, SameOwners
<1>9. ReactorAtWork'
  BY <1>2, <1>3, <1>4 DEF ReactorAtWork, Copying
<1>10. SameReferences
  BY <1>1, <1>2, <1>3 DEF SameReferences
<1> QED BY <1>1, <1>5, <1>7, <1>8, <1>9, <1>10, SameQueues, SameCalls, SameHands DEF IndInv

LEMMA AllFinishedStep ==
  ASSUME IndInv, AllFinished, UNCHANGED mix
  PROVE  IndInv'
<1>1. /\ reactor.pc = "finished"
      /\ reactor' = [reactor EXCEPT !.pc = IF C.st = "open" THEN "send" ELSE "idle"]
      /\ UNCHANGED <<queue, uniqId, conn, server, pc, trans, resp, asyncQ, outcome, got, runs, mix>>
  BY DEF AllFinished, ReactorAt, told
<1>2. /\ TypeOK /\ reactor.cur = None /\ reactor \in NetThread
      /\ reactor.conn \in Conns /\ C = conn[reactor.conn] /\ C.st # "unused" /\ C.owner \in Adapters
  BY <1>1, AtWork, StateFacts DEF IndInv, ReactorAtWork, Copying
<1>3. /\ reactor' \in NetThread /\ reactor'.conn = reactor.conn /\ reactor'.cur = None
      /\ reactor'.done = reactor.done /\ reactor'.pc = IF C.st = "open" THEN "send" ELSE "idle"
  BY <1>1, <1>2 DEF NetThread
<1>4. TypeOK'
  BY <1>1, <1>2, <1>3 DEF TypeOK
<1>5. \A d \in Conns : ServesOn(d)
  BY <1>1, <1>2, <1>3 DEF ServesOn, Busy
<1>6. PacketsAreKnown'
  BY <1>1, <1>3, SameKnown DEF IndInv, PacketsAreKnown
<1>7. RequestsArePlaced' /\ OpenHasOwner'
  BY <1>1, <1>5, SamePlaces, SameOwners
<1>8. ReactorAtWork'
  BY <1>1, <1>2, <1>3 DEF ReactorAtWork, Copying
<1>9. SameReferences
  BY <1>2, <1>3 DEF SameReferences
<1> QED BY <1>1, <1>4, <1>6, <1>7, <1>8, <1>9, SameQueues, SameCalls, SameHands DEF IndInv

(* The last synchronous request is marked; nobody reads the mark of a call *)
(* that has been answered or has none of its own.                          *)
LEMMA CloseStep ==
  ASSUME IndInv, Close, UNCHANGED mix
  PROVE  IndInv'
<1> DEFINE c == reactor.conn
<1>1. /\ reactor.pc = "close" /\ conn' = [conn EXCEPT ![c].st = "closed"]
      /\ reactor' = [reactor EXCEPT !.pc = IF C.lastReq = None THEN reactor.after
                                           ELSE "closeNotify"]
      /\ resp' = IF C.lastReq = None THEN resp
                 ELSE [resp EXCEPT ![C.lastReq].ret = "connerr"]
      /\ UNCHANGED <<queue, uniqId, server, pc, trans, asyncQ, outcome, got, runs, mix>>
  BY DEF Close, ReactorAt, told
<1>2. /\ TypeOK /\ reactor.cur = None /\ reactor \in NetThread
      /\ c \in Conns /\ C \in Socket /\ C = conn[c] /\ C.st # "unused" /\ C.owner \in Adapters
      /\ reactor.after \in {"finished", "pop"}
  BY <1>1, AtWork, StateFacts DEF IndInv, ReactorAtWork, Copying
<1>3. /\ reactor' \in NetThread /\ reactor'.conn = c /\ reactor'.cur = None
      /\ reactor'.done = reactor.done /\ reactor'.after = reactor.after
      /\ reactor'.pc \in {"finished", "pop", "closeNotify"}
      /\ reactor'.pc = "closeNotify" => C.lastReq # None
  BY <1>1, <1>2 DEF NetThread
<1>4. /\ conn' \in [Conns -> Socket]
      /\ \A d \in Conns : /\ conn'[d].st = IF d = c THEN "closed" ELSE conn[d].st
                          /\ conn'[d].owner = conn[d].owner /\ conn'[d].edge = conn[d].edge
                          /\ conn'[d].lastReq = conn[d].lastReq
                          /\ conn'[d].sendBuf = conn[d].sendBuf
                          /\ conn'[d].inbound = conn[d].inbound
  <2>1. [conn[c] EXCEPT !.st = "closed"] \in Socket
    BY <1>2 DEF Socket
  <2> QED BY <1>1, <1>2, <2>1 DEF TypeOK, Socket
<1>5. /\ resp' \in [Calls -> Response]
      /\ \A r \in Calls : resp'[r].ver = resp[r].ver /\ resp'[r].body = resp[r].body
  <2>1. CASE C.lastReq = None
    BY <1>1, <1>2, <2>1 DEF TypeOK
  <2>2. CASE C.lastReq # None
    <3>1. C.lastReq \in Calls
      BY <1>2, <2>2, SocketFacts
    <3>2. resp[C.lastReq] \in Response /\ [resp[C.lastReq] EXCEPT !.ret = "connerr"] \in Response
      BY <1>2, <3>1, StateFacts DEF Response
    <3> QED BY <1>1, <1>2, <2>2, <3>1, <3>2 DEF TypeOK, Response
  <2> QED BY <2>1, <2>2
<1>6. TypeOK'
  BY <1>1, <1>2, <1>3, <1>4, <1>5 DEF TypeOK
<1>7. \A d \in Conns : ServesOn(d)
  BY <1>1, <1>3, <1>4 DEF ServesOn, Busy
<1>8. PacketsAreKnown'
  BY <1>1, <1>3, <1>4, SameKnown DEF IndInv, PacketsAreKnown
<1>9. RequestsArePlaced' /\ OpenHasOwner'
  BY <1>1, <1>4, <1>5, <1>7, SamePlaces, SameOwners
<1>10. ReactorAtWork'
  BY <1>2, <1>3, <1>4 DEF ReactorAtWork, Copying
<1>11. CallbacksAreDistinct' /\ AnswersAreOwn' /\ CallersAreConsistent'
  BY <1>1, <1>5, SameAnswers
<1>12. AsyncCallsAreHandedOnce'
  <2>1. SameReferences
    BY <1>2, <1>3 DEF SameReferences
  <2> QED BY <1>1, <1>5, <2>1, SameHands
<1> QED BY <1>1, <1>6, <1>8, <1>9, <1>10, <1>11, <1>12, SameQueues DEF IndInv

(* Callers that wait wake up, and nothing else changes for a caller.       *)
OnlyWakes ==
  \A s \in Calls : \/ pc'[s] = pc[s]
                   \/ pc[s] = "waiting" /\ pc'[s] = "woken" /\ Kind[s] = "sync"

LEMMA WokenCalls ==
  ASSUME IndInv, NEW r \in Calls, pc' = Notified(r)
  PROVE  OnlyWakes /\ pc' \in [Calls -> {"new", "pushed", "check", "waiting", "woken", "done"}]
BY DEF IndInv, TypeOK, Notified, CallersAreConsistent, OnlyWakes

LEMMA PlacesWhenWoken ==
  ASSUME IndInv, OnlyWakes, UNCHANGED <<queue, uniqId, conn, trans>>,
         \A r \in Calls : resp'[r].ver = resp[r].ver,
         reactor'.conn = reactor.conn, reactor'.pc # "idle"
  PROVE  RequestsArePlaced'
<1> SUFFICES ASSUME NEW k \in Queues, NEW n \in In(queue[k])
             PROVE  LET r == n.msg
                        c == trans[r]
                    IN  /\ n.id <= uniqId
                        /\ pc'[r] # "new" /\ ~resp'[r].ver /\ c \in Conns
                        /\ conn[c].st # "unused" /\ (k # Obj => conn[c].owner = k)
                        /\ ~n.popped /\ conn[c].st = "open"
                             => pc'[r] = "pushed" \/ conn[c].edge \/ Busy(c)'
  BY DEF RequestsArePlaced
<1>1. n.msg \in Calls
  BY QueueFacts DEF IndInv, QueuesAreWellKept
<1>2. pc[n.msg] # "waiting" => pc'[n.msg] = pc[n.msg]
  BY <1>1 DEF OnlyWakes
<1> QED BY <1>1, <1>2 DEF IndInv, RequestsArePlaced, OnlyWakes, Busy

LEMMA CloseNotifyStep ==
  ASSUME IndInv, CloseNotify, UNCHANGED mix
  PROVE  IndInv'
<1>1. /\ reactor.pc = "closeNotify" /\ pc' = Notified(C.lastReq)
      /\ reactor' = [reactor EXCEPT !.pc = reactor.after]
      /\ UNCHANGED <<queue, uniqId, conn, server, trans, resp, asyncQ, outcome, got, runs, mix>>
  BY DEF CloseNotify, ReactorAt, told
<1>2. /\ TypeOK /\ reactor.cur = None /\ reactor \in NetThread
      /\ reactor.conn \in Conns /\ C \in Socket /\ C = conn[reactor.conn]
      /\ C.st # "unused" /\ C.owner \in Adapters
      /\ reactor.after \in {"finished", "pop"} /\ C.lastReq # None
  BY <1>1, AtWork, StateFacts DEF IndInv, ReactorAtWork, Copying
<1>3. /\ reactor' \in NetThread /\ reactor'.conn = reactor.conn /\ reactor'.cur = None
      /\ reactor'.done = reactor.done /\ reactor'.after = reactor.after
      /\ reactor'.pc \in {"finished", "pop"}
  BY <1>1, <1>2 DEF NetThread
<1>4. C.lastReq \in Calls
  BY <1>2, SocketFacts
<1>5. /\ OnlyWakes
      /\ pc' \in [Calls -> {"new", "pushed", "check", "waiting", "woken", "done"}]
  BY <1>1, <1>4, WokenCalls
<1>6. TypeOK'
  BY <1>1, <1>2, <1>3, <1>5 DEF TypeOK
<1>7. PacketsAreKnown' /\ OpenHasOwner'
  BY <1>1, <1>3, SameKnown DEF IndInv, PacketsAreKnown, OpenHasOwner
<1>8. RequestsArePlaced'
  BY <1>1, <1>3, <1>5, PlacesWhenWoken
<1>9. ReactorAtWork'
  BY <1>1, <1>2, <1>3 DEF ReactorAtWork, Copying
<1>10. Kind' = Kind /\ \A r : InAsyncQ(r)' <=> InAsyncQ(r)
  BY <1>1 DEF Kind, InAsyncQ
<1>11. CallbacksAreDistinct' /\ AnswersAreOwn'
  BY <1>1, <1>10 DEF IndInv, CallbacksAreDistinct, AnswersAreOwn
<1>12. CallersAreConsistent'
  BY <1>1, <1>5, <1>10 DEF IndInv, CallersAreConsistent, Handed, OnlyWakes
<1>13. AsyncCallsAreHandedOnce'
  <2>1. SameReferences
    BY <1>2, <1>3 DEF SameReferences
  <2>2. \A r \in Calls : Kind[r] = "async" => pc'[r] = pc[r]
    BY <1>5 DEF OnlyWakes
  <2> QED BY <1>1, <2>1, <2>2, SameHands
<1> QED BY <1>1, <1>6, <1>7, <1>8, <1>9, <1>11, <1>12, <1>13, SameQueues DEF IndInv

(* The network thread's locals while it copies a response.                 *)
LEMMA CopyFacts ==
  ASSUME IndInv, reactor.pc \in Copying
  PROVE  /\ TypeOK /\ reactor \in NetThread /\ reactor.conn \in Conns
         /\ reactor.cur \in Calls /\ resp[reactor.cur] \in Response
         /\ reactor.done \in Seq(Packet) /\ reactor.done # <<>>
         /\ Head(reactor.done).msg = reactor.cur
         /\ pc[reactor.cur] # "new" /\ ~Queued(reactor.cur, queue)
         /\ conn[reactor.conn].st # "unused" /\ conn[reactor.conn].owner \in Adapters
         /\ resp[reactor.cur].ver <=> reactor.pc # "copy"
<1>1. TypeOK /\ ReactorAtWork /\ reactor.pc # "idle"
  BY DEF IndInv, Copying
<1>2. reactor.cur # None
  BY <1>1 DEF ReactorAtWork
<1> QED BY <1>1, <1>2, StateFacts, ReactorFacts DEF ReactorAtWork

LEMMA CopyVersionStep ==
  ASSUME IndInv, CopyVersion, UNCHANGED mix
  PROVE  IndInv'
<1> DEFINE r == reactor.cur
<1>1. /\ reactor.pc = "copy" /\ resp' = [resp EXCEPT ![r].ver = TRUE]
      /\ reactor' = [reactor EXCEPT !.pc = "copyRet"]
      /\ UNCHANGED <<queue, uniqId, conn, server, pc, trans, asyncQ, outcome, got, runs, mix>>
  BY DEF CopyVersion, ReactorAt, told
<1>2. /\ TypeOK /\ reactor \in NetThread /\ reactor.conn \in Conns
      /\ r \in Calls /\ resp[r] \in Response
      /\ reactor.done # <<>> /\ Head(reactor.done).msg = r
      /\ pc[r] # "new" /\ ~Queued(r, queue)
      /\ conn[reactor.conn].st # "unused" /\ conn[reactor.conn].owner \in Adapters
  BY <1>1, CopyFacts DEF Copying
<1>3. /\ reactor' \in NetThread /\ reactor'.conn = reactor.conn /\ reactor'.cur = r
      /\ reactor'.done = reactor.done /\ reactor'.pc = "copyRet"
  BY <1>1, <1>2 DEF NetThread
<1>4. /\ resp' \in [Calls -> Response]
      /\ \A s \in Calls : /\ resp'[s].body = resp[s].body
                          /\ resp'[s].ver <=> s = r \/ resp[s].ver
  <2>1. [resp[r] EXCEPT !.ver = TRUE] \in Response
    BY <1>2 DEF Response
  <2> QED BY <1>1, <1>2, <2>1 DEF TypeOK, Response
<1>5. TypeOK'
  BY <1>1, <1>2, <1>3, <1>4 DEF TypeOK
<1>6. PacketsAreKnown' /\ OpenHasOwner'
  BY <1>1, <1>3, SameKnown DEF IndInv, PacketsAreKnown, OpenHasOwner
<1>7. RequestsArePlaced'
  <2>1. \A k \in Queues : \A n \in In(queue[k]) : n.msg \in Calls /\ n.msg # r
    BY <1>2, QueuedIsIn, QueueFacts, StateFacts DEF IndInv, QueuesAreWellKept
  <2> QED BY <1>1, <1>3, <1>4, <2>1 DEF IndInv, RequestsArePlaced, Busy
<1>8. ReactorAtWork'
  BY <1>1, <1>2, <1>3, <1>4, NoneIsNoName DEF ReactorAtWork, Copying
<1>9. Kind' = Kind /\ \A s : InAsyncQ(s)' <=> InAsyncQ(s)
  BY <1>1 DEF Kind, InAsyncQ
<1>10. CallbacksAreDistinct' /\ AnswersAreOwn' /\ CallersAreConsistent'
  BY <1>1, <1>2, <1>4, <1>9, EntryFacts, StateFacts DEF IndInv, CallbacksAreDistinct,
    AnswersAreOwn, CallersAreConsistent, Handed
<1>11. ASSUME NEW s \in Calls, Kind[s] = "async" PROVE AsyncCallIsHandedOnce(s)'
  <2>1. AsyncCallIsHandedOnce(s)
    BY <1>11 DEF IndInv, AsyncCallsAreHandedOnce
  <2> QED BY <1>1, <1>3, <1>4, <1>9, <2>1 DEF AsyncCallIsHandedOnce, Handed, Referenced, Copying
<1> QED BY <1>1, <1>5, <1>6, <1>7, <1>8, <1>9, <1>10, <1>11, SameQueues
  DEF IndInv, AsyncCallsAreHandedOnce

LEMMA CopyRetStep ==
  ASSUME IndInv, CopyRet, UNCHANGED mix
  PROVE  IndInv'
<1> DEFINE r == reactor.cur
<1>1. /\ reactor.pc = "copyRet" /\ resp' = [resp EXCEPT ![r].ret = "success"]
      /\ reactor' = [reactor EXCEPT !.pc = "copyBuffer"]
      /\ UNCHANGED <<queue, uniqId, conn, server, pc, trans, asyncQ, outcome, got, runs, mix>>
  BY DEF CopyRet, ReactorAt, told
<1>2. /\ TypeOK /\ reactor \in NetThread /\ reactor.conn \in Conns
      /\ r \in Calls /\ resp[r] \in Response
      /\ reactor.done # <<>> /\ Head(reactor.done).msg = r
      /\ pc[r] # "new" /\ ~Queued(r, queue) /\ resp[r].ver
      /\ conn[reactor.conn].st # "unused" /\ conn[reactor.conn].owner \in Adapters
  BY <1>1, CopyFacts DEF Copying
<1>3. /\ reactor' \in NetThread /\ reactor'.conn = reactor.conn /\ reactor'.cur = r
      /\ reactor'.done = reactor.done /\ reactor'.pc = "copyBuffer"
  BY <1>1, <1>2 DEF NetThread
<1>4. /\ resp' \in [Calls -> Response]
      /\ \A s \in Calls : resp'[s].body = resp[s].body /\ resp'[s].ver = resp[s].ver
  <2>1. [resp[r] EXCEPT !.ret = "success"] \in Response
    BY <1>2 DEF Response
  <2> QED BY <1>1, <1>2, <2>1 DEF TypeOK, Response
<1>5. TypeOK'
  BY <1>1, <1>2, <1>3, <1>4 DEF TypeOK
<1>6. PacketsAreKnown' /\ OpenHasOwner'
  BY <1>1, <1>3, SameKnown DEF IndInv, PacketsAreKnown, OpenHasOwner
<1>7. \A c \in Conns : ServesOn(c)
  BY <1>1, <1>3 DEF ServesOn, Busy
<1>8. RequestsArePlaced'
  BY <1>1, <1>4, <1>7, SamePlaces
<1>9. ReactorAtWork'
  BY <1>1, <1>2, <1>3, <1>4, NoneIsNoName DEF ReactorAtWork, Copying
<1>10. CallbacksAreDistinct' /\ AnswersAreOwn' /\ CallersAreConsistent'
  BY <1>1, <1>2, <1>4, SameAnswers
<1>11. AsyncCallsAreHandedOnce'
  <2>1. SameReferences
    BY <1>1, <1>3 DEF SameReferences, Copying
  <2> QED BY <1>1, <1>4, <2>1, SameHands
<1> QED BY <1>1, <1>5, <1>6, <1>8, <1>9, <1>10, <1>11, SameQueues DEF IndInv

LEMMA CopyBufferStep ==
  ASSUME IndInv, CopyBuffer, UNCHANGED mix
  PROVE  IndInv'
<1> DEFINE r == reactor.cur
<1>1. /\ reactor.pc = "copyBuffer"
      /\ resp' = [resp EXCEPT ![r].body = Head(reactor.done).msg]
      /\ reactor' = [reactor EXCEPT !.pc = "deliver"]
      /\ UNCHANGED <<queue, uniqId, conn, server, pc, trans, asyncQ, outcome, got, runs, mix>>
  BY DEF CopyBuffer, ReactorAt, told
<1>2. /\ TypeOK /\ reactor \in NetThread /\ reactor.conn \in Conns
      /\ r \in Calls /\ resp[r] \in Response
      /\ reactor.done # <<>> /\ Head(reactor.done).msg = r
      /\ pc[r] # "new" /\ ~Queued(r, queue) /\ resp[r].ver
      /\ conn[reactor.conn].st # "unused" /\ conn[reactor.conn].owner \in Adapters
  BY <1>1, CopyFacts DEF Copying
<1>3. /\ reactor' \in NetThread /\ reactor'.conn = reactor.conn /\ reactor'.cur = r
      /\ reactor'.done = reactor.done /\ reactor'.pc = "deliver"
  BY <1>1, <1>2 DEF NetThread
<1>4. /\ resp' \in [Calls -> Response]
      /\ \A s \in Calls : /\ resp'[s].body = IF s = r THEN r ELSE resp[s].body
                          /\ resp'[s].ver = resp[s].ver
  <2>1. [resp[r] EXCEPT !.body = r] \in Response
    BY <1>2 DEF Response
  <2> QED BY <1>1, <1>2, <2>1 DEF TypeOK, Response
<1>5. TypeOK'
  BY <1>1, <1>2, <1>3, <1>4 DEF TypeOK
<1>6. PacketsAreKnown' /\ OpenHasOwner'
  BY <1>1, <1>3, SameKnown DEF IndInv, PacketsAreKnown, OpenHasOwner
<1>7. \A c \in Conns : ServesOn(c)
  BY <1>1, <1>3 DEF ServesOn, Busy
<1>8. RequestsArePlaced'
  BY <1>1, <1>4, <1>7, SamePlaces
<1>9. ReactorAtWork'
  BY <1>1, <1>2, <1>3, <1>4, NoneIsNoName DEF ReactorAtWork, Copying
<1>10. CallbacksAreDistinct' /\ AnswersAreOwn' /\ CallersAreConsistent'
  BY <1>1, <1>2, <1>4, SameAnswers
<1>11. AsyncCallsAreHandedOnce'
  <2>1. SameReferences
    BY <1>1, <1>3 DEF SameReferences, Copying
  <2> QED BY <1>1, <1>4, <2>1, SameHands
<1> QED BY <1>1, <1>5, <1>6, <1>8, <1>9, <1>10, <1>11, SameQueues DEF IndInv

(* The head of what was received is done with.                             *)
LEMMA RestIsKnown ==
  ASSUME IndInv, reactor.done # <<>>
  PROVE  /\ Tail(reactor.done) \in Seq(Packet) /\ AllKnown(Tail(reactor.done))
         /\ Head(reactor.done) \in Packet /\ Known(Head(reactor.done))
<1> DEFINE s == reactor.done
           n == Len(s)
<1>1. s \in Seq(Packet)
  BY StateFacts, ReactorFacts DEF IndInv
<1>2. /\ n \in Nat /\ n >= 1 /\ DOMAIN s = 1 .. n /\ Tail(s) \in Seq(Packet)
      /\ DOMAIN Tail(s) = 1 .. n - 1 /\ Head(s) = s[1] /\ Head(s) \in Packet
      /\ \A i \in 1 .. n - 1 : Tail(s)[i] = s[i + 1]
  <2> HIDE DEF s
  <2> QED BY <1>1 DEF s
<1>3. \A i \in 1 .. n : Known(s[i])
  BY <1>2 DEF IndInv, PacketsAreKnown, AllKnown
<1> HIDE DEF s, n
<1>4. 1 \in 1 .. n /\ \A i \in 1 .. n - 1 : i + 1 \in 1 .. n
  BY <1>2
<1>5. AllKnown(Tail(s))
  BY <1>2, <1>3, <1>4 DEF AllKnown
<1> QED BY <1>2, <1>3, <1>4, <1>5 DEF s

LEMMA DeliverStep ==
  ASSUME IndInv, Deliver, UNCHANGED mix
  PROVE  IndInv'
<1> DEFINE r == reactor.cur
<1>1. /\ reactor.pc = "deliver"
      /\ pc' = IF Kind[r] = "sync" THEN Notified(r) ELSE pc
      /\ asyncQ' = IF Kind[r] = "async" THEN Append(asyncQ, [msg |-> r, ver |-> TRUE]) ELSE asyncQ
      /\ reactor' = [reactor EXCEPT !.cur = None, !.done = Tail(reactor.done), !.pc = "finished"]
      /\ UNCHANGED <<queue, uniqId, conn, server, trans, resp, outcome, got, runs, mix>>
  BY DEF Deliver, ReactorAt, told
<1>2. /\ TypeOK /\ reactor \in NetThread /\ reactor.conn \in Conns
      /\ r \in Calls /\ resp[r] \in Response
      /\ reactor.done # <<>> /\ Head(reactor.done).msg = r
      /\ pc[r] # "new" /\ ~Queued(r, queue) /\ resp[r].ver
      /\ conn[reactor.conn].st # "unused" /\ conn[reactor.conn].owner \in Adapters
  BY <1>1, CopyFacts DEF Copying
<1>3. resp[r].body = r
  BY <1>1 DEF IndInv, ReactorAtWork
<1>4. /\ reactor' \in NetThread /\ reactor'.conn = reactor.conn /\ reactor'.cur = None
      /\ reactor'.done = Tail(reactor.done) /\ reactor'.pc = "finished"
  BY <1>1, <1>2, RestIsKnown DEF NetThread
<1>5. OnlyWakes /\ pc' \in [Calls -> {"new", "pushed", "check", "waiting", "woken", "done"}]
  BY <1>1, <1>2, WokenCalls DEF OnlyWakes, TypeOK
<1>6. Kind' = Kind
  BY <1>1 DEF Kind
<1>7. ASSUME Kind[r] = "async" PROVE ~Handed(r) /\ pc[r] \in {"pushed", "done"} /\ outcome[r] # "failed"
  <2>1. AsyncCallIsHandedOnce(r)
    BY <1>2, <1>7 DEF IndInv, AsyncCallsAreHandedOnce
  <2>2. ~Handed(r) /\ outcome[r] # "failed"
    BY <2>1 DEF AsyncCallIsHandedOnce, Referenced
  <2>3. pc[r] \notin {"check", "waiting", "woken"}
    BY <1>2, <1>7 DEF IndInv, CallersAreConsistent
  <2> QED BY <1>2, <2>2, <2>3 DEF TypeOK
<1>8. /\ asyncQ' \in Seq(Callback) /\ CallbacksAreDistinct'
      /\ \A s \in Calls : Kind[s] = "async" => (InAsyncQ(s)' <=> InAsyncQ(s) \/ s = r)
      /\ \A s \in Calls : s # r => (InAsyncQ(s)' <=> InAsyncQ(s))
  <2>1. CASE Kind[r] # "async"
    <3>1. UNCHANGED <<asyncQ, resp>> /\ asyncQ \in Seq(Callback)
      BY <1>1, <1>2, <2>1, StateFacts
    <3>2. \A s : InAsyncQ(s)' <=> InAsyncQ(s)
      BY <3>1 DEF InAsyncQ
    <3> QED BY <1>6, <2>1, <3>1, <3>2 DEF IndInv, CallbacksAreDistinct
  <2>2. CASE Kind[r] = "async"
    <3> DEFINE e == [msg |-> r, ver |-> TRUE]
    <3>1. e \in Callback /\ e.msg = r /\ asyncQ' = Append(asyncQ, e) /\ ~InAsyncQ(r)
      BY <1>1, <1>2, <1>7, <2>2 DEF Callback, Handed
    <3> HIDE DEF e
    <3> QED BY <1>1, <1>2, <1>3, <1>6, <2>2, <3>1, EntryAdded, StateFacts DEF IndInv
  <2> QED BY <2>1, <2>2
<1>9. TypeOK'
  BY <1>1, <1>2, <1>4, <1>5, <1>8 DEF TypeOK
<1>10. PacketsAreKnown' /\ OpenHasOwner'
  BY <1>1, <1>2, <1>4, SameKnown, RestIsKnown DEF IndInv, PacketsAreKnown, OpenHasOwner
<1>11. RequestsArePlaced'
  BY <1>1, <1>4, <1>5, PlacesWhenWoken
<1>12. ReactorAtWork'
  BY <1>1, <1>2, <1>4 DEF ReactorAtWork, Copying
<1>13. AnswersAreOwn'
  BY <1>1, <1>6 DEF IndInv, AnswersAreOwn
<1>14. CallersAreConsistent'
  <2> SUFFICES ASSUME NEW s \in Calls
               PROVE  /\ pc'[s] = "new" => ~resp[s].ver /\ outcome[s] = "none" /\ ~Handed(s)'
                      /\ pc'[s] = "pushed" => trans[s] \in Conns
                      /\ pc'[s] \in {"check", "waiting", "woken"} => Kind[s] = "sync"
    BY <1>1, <1>6 DEF CallersAreConsistent
  <2>1. pc'[s] = "new" => pc[s] = "new" /\ s # r
    BY <1>2, <1>5 DEF OnlyWakes
  <2>2. s # r => (Handed(s)' <=> Handed(s))
    BY <1>1, <1>8 DEF Handed
  <2> QED BY <1>5, <2>1, <2>2 DEF IndInv, CallersAreConsistent, OnlyWakes
<1>15. ASSUME NEW s \in Calls, Kind[s] = "async" PROVE AsyncCallIsHandedOnce(s)'
  <2>1. AsyncCallIsHandedOnce(s) /\ pc'[s] = pc[s]
    BY <1>5, <1>15 DEF IndInv, AsyncCallsAreHandedOnce, OnlyWakes
  <2>2. CASE s # r
    <3>1. Handed(s)' <=> Handed(s)
      BY <1>1, <1>8, <2>2 DEF Handed
    <3> QED BY <1>1, <1>4, <1>8, <2>1, <2>2, <3>1, NoneIsNoName
          DEF AsyncCallIsHandedOnce, Referenced, Copying
  <2>3. CASE s = r
    <3>1. runs[s] # 1 /\ InAsyncQ(s)'
      BY <1>7, <1>8, <1>15, <2>3 DEF Handed
    <3> QED BY <1>1, <1>2, <1>4, <1>7, <1>15, <2>1, <2>3, <3>1, NoneIsNoName
          DEF AsyncCallIsHandedOnce, Handed, Referenced
  <2> QED BY <2>2, <2>3
<1>16. AsyncCallsAreHandedOnce'
  BY <1>6, <1>15 DEF AsyncCallsAreHandedOnce
<1> QED BY <1>1, <1>8, <1>9, <1>10, <1>11, <1>12, <1>13, <1>14, <1>16, SameQueues DEF IndInv

-----------------------------------------------------------------------------
(***************************************************************************)
(* The steps that change a queue.                                          *)
(***************************************************************************)

(* A request leaves its queue: an answered one, or the head.               *)
LEMMA Removal ==
  ASSUME IndInv, NEW k \in Queues, NEW i \in 1 .. Len(queue[k].time),
         i = 1 \/ queue[k].time[i].popped,
         queue' = [queue EXCEPT ![k] = Removed(queue[k], i)]
  PROVE  /\ QueuesAreWellKept' /\ RequestsAreDistinct'
         /\ queue' \in [Queues -> QueueType]
         /\ \A l \in Queues : In(queue'[l]) \subseteq In(queue[l])
         /\ queue[k].time[i] \in In(queue[k]) /\ queue[k].time[i].msg \in Calls
         /\ \A r \in Calls : Queued(r, queue') <=> Queued(r, queue) /\ r # queue[k].time[i].msg
<1> DEFINE n == queue[k].time[i]
<1>1. /\ DOMAIN queue = Queues /\ WellKept(queue[k])
      /\ \A l \in Queues : WellKept(queue[l])
  BY StateFacts DEF IndInv, QueuesAreWellKept
<1>2. n \in In(queue[k]) /\ n.msg \in Calls
  BY <1>1, QueueFacts
<1>3. \A l \in Queues : queue'[l] = IF l = k THEN Removed(queue[k], i) ELSE queue[l]
  BY <1>1
<1>4. WellKept(queue'[k]) /\ In(queue'[k]) = In(queue[k]) \ {n}
  BY <1>1, <1>3, RemovedRequest
<1>5. QueuesAreWellKept' /\ DOMAIN queue' = Queues
  BY <1>1, <1>3, <1>4 DEF QueuesAreWellKept
<1>6. \A l \in Queues : In(queue'[l]) \subseteq In(queue[l])
  BY <1>3, <1>4
<1>7. RequestsAreDistinct'
  BY <1>6 DEF IndInv, RequestsAreDistinct
<1>8. queue' \in [Queues -> QueueType]
  <2>1. \A l \in Queues : queue'[l] \in QueueType
    BY <1>5 DEF QueuesAreWellKept, WellKept
  <2>2. queue' = [l \in Queues |-> queue'[l]]
    BY <1>1
  <2> QED BY <2>1, <2>2
<1>9. ASSUME NEW r \in Calls PROVE Queued(r, queue') <=> Queued(r, queue) /\ r # n.msg
  <2>1. Queued(r, queue') <=> \E l \in Queues : \E m \in In(queue'[l]) : m.msg = r
    BY <1>5 DEF Queued, In, Range
  <2>2. Queued(r, queue) <=> \E l \in Queues : \E m \in In(queue[l]) : m.msg = r
    BY <1>1 DEF Queued, In, Range
  <2>3. \A l \in Queues : \A m \in In(queue[l]) : m.msg = n.msg => l = k /\ m = n
    BY <1>2 DEF IndInv, RequestsAreDistinct
  <2>4. \A l \in Queues : \A m \in In(queue[l]) : m \in In(queue'[l]) <=> ~(l = k /\ m = n)
    BY <1>3, <1>4
  <2> QED BY <1>6, <2>1, <2>2, <2>3, <2>4
<1> HIDE DEF n
<1> QED BY <1>2, <1>5, <1>6, <1>7, <1>8, <1>9 DEF n

(* A response finds the request of its own call, or none.                  *)
LEMMA ResponseFindsItsCall ==
  ASSUME IndInv, reactor.done # <<>>, NEW k \in Queues, Head(reactor.done).id \in Ids(queue[k])
  PROVE  LET i == Pos(queue[k], Head(reactor.done).id)
         IN  /\ i \in 1 .. Len(queue[k].time) /\ queue[k].time[i].popped
             /\ queue[k].time[i].msg = Head(reactor.done).msg
<1> DEFINE id == Head(reactor.done).id
           i == Pos(queue[k], id)
<1>1. /\ WellKept(queue[k]) /\ Known(Head(reactor.done))
  BY RestIsKnown DEF IndInv, QueuesAreWellKept
<1>2. i \in DOMAIN queue[k].time /\ queue[k].time[i].id = id
  BY DEF Ids, Pos
<1> HIDE DEF i
<1>3. i \in 1 .. Len(queue[k].time) /\ queue[k].time[i] \in In(queue[k])
  BY <1>1, <1>2, QueueFacts
<1>4. queue[k].time[i].popped /\ queue[k].time[i].msg = Head(reactor.done).msg
  BY <1>1, <1>2, <1>3 DEF Known
<1> QED BY <1>3, <1>4 DEF i

LEMMA FinishedStep ==
  ASSUME IndInv, Finished, UNCHANGED mix
  PROVE  IndInv'
<1> DEFINE id == Head(reactor.done).id
<1>1. /\ reactor.pc = "finished" /\ reactor.done # <<>>
      /\ UNCHANGED <<uniqId, conn, server, pc, trans, resp, asyncQ, outcome, got, runs, mix>>
  BY DEF Finished, ReactorAt, told
<1>2. /\ TypeOK /\ reactor.cur = None /\ reactor \in NetThread
      /\ reactor.conn \in Conns /\ conn[reactor.conn].st # "unused"
      /\ conn[reactor.conn].owner \in Adapters /\ C.owner \in Adapters
  BY <1>1, AtWork, StateFacts DEF IndInv, ReactorAtWork, Copying
<1>3. Tail(reactor.done) \in Seq(Packet) /\ AllKnown(Tail(reactor.done))
  BY <1>1, RestIsKnown
<1>4. CASE UNCHANGED queue /\ reactor' = [reactor EXCEPT !.done = Tail(reactor.done)]
  <2>1. /\ reactor' \in NetThread /\ reactor'.conn = reactor.conn /\ reactor'.cur = None
        /\ reactor'.done = Tail(reactor.done) /\ reactor'.pc = "finished"
    BY <1>1, <1>2, <1>3, <1>4 DEF NetThread
  <2>2. TypeOK'
    BY <1>1, <1>2, <1>4, <2>1 DEF TypeOK
  <2>3. PacketsAreKnown' /\ OpenHasOwner'
    BY <1>1, <1>3, <1>4, <2>1, SameKnown DEF IndInv, PacketsAreKnown, OpenHasOwner
  <2>4. \A c \in Conns : ServesOn(c)
    BY <1>1, <2>1 DEF ServesOn, Busy
  <2>5. RequestsArePlaced'
    BY <1>1, <1>4, <2>4, SamePlaces
  <2>6. ReactorAtWork'
    BY <1>1, <1>2, <2>1 DEF ReactorAtWork, Copying
  <2>7. SameReferences
    BY <1>2, <2>1 DEF SameReferences
  <2> QED BY <1>1, <1>4, <2>2, <2>3, <2>5, <2>6, <2>7, SameQueues, SameCalls, SameHands DEF IndInv
<1>5. CASE \E k \in {Obj, C.owner} :
             /\ id \in Ids(queue[k])
             /\ queue' = [queue EXCEPT ![k] = Taken(queue[k], id)]
             /\ reactor' = [reactor EXCEPT !.cur = Msg(queue[k], id), !.pc = "copy"]
  <2>1. PICK k \in {Obj, C.owner} :
             /\ id \in Ids(queue[k])
             /\ queue' = [queue EXCEPT ![k] = Taken(queue[k], id)]
             /\ reactor' = [reactor EXCEPT !.cur = Msg(queue[k], id), !.pc = "copy"]
    BY <1>5
  <2> DEFINE i == Pos(queue[k], id)
             n == queue[k].time[i]
             r == n.msg
  <2>2. k \in Queues
    BY <1>2, <2>1, NoneIsNoName
  <2>3. i \in 1 .. Len(queue[k].time) /\ n.popped /\ r = Head(reactor.done).msg
    BY <1>1, <2>1, <2>2, ResponseFindsItsCall
  <2>4. queue' = [queue EXCEPT ![k] = Removed(queue[k], i)] /\ Msg(queue[k], id) = r
    BY <2>1 DEF Taken, Msg
  <2> HIDE DEF i
  <2>5. /\ QueuesAreWellKept' /\ RequestsAreDistinct' /\ queue' \in [Queues -> QueueType]
        /\ \A l \in Queues : In(queue'[l]) \subseteq In(queue[l])
        /\ n \in In(queue[k]) /\ r \in Calls
        /\ \A s \in Calls : Queued(s, queue') <=> Queued(s, queue) /\ s # r
    BY <2>2, <2>3, <2>4, Removal
  <2>6. /\ reactor' \in NetThread /\ reactor'.conn = reactor.conn /\ reactor'.cur = r
        /\ reactor'.done = reactor.done /\ reactor'.pc = "copy"
    BY <1>2, <2>1, <2>4, <2>5 DEF NetThread
  <2>7. pc[r] # "new" /\ ~resp[r].ver /\ Queued(r, queue)
    BY <1>2, <2>2, <2>5, QueuedIsIn, StateFacts DEF IndInv, RequestsArePlaced
  <2> HIDE DEF n, r
  <2>8. TypeOK'
    BY <1>1, <1>2, <2>5, <2>6 DEF TypeOK, QueueType
  <2>9. PacketsAreKnown' /\ OpenHasOwner'
    <3>1. \A p : Known(p) => Known(p)'
      BY <1>1, <2>5 DEF Known
    <3>2. \A s : AllKnown(s) => AllKnown(s)'
      BY <3>1 DEF AllKnown
    <3> QED BY <1>1, <2>6, <3>1, <3>2 DEF IndInv, PacketsAreKnown, OpenHasOwner
  <2>10. \A c \in Conns : ServesOn(c)
    BY <1>1, <2>6 DEF ServesOn, Busy
  <2>11. RequestsArePlaced'
    BY <1>1, <2>5, <2>10, SamePlaces
  <2>12. ReactorAtWork'
    BY <1>1, <1>2, <2>3, <2>5, <2>6, <2>7, NoneIsNoName DEF ReactorAtWork, Copying, r
  <2>13. Kind' = Kind /\ \A s : InAsyncQ(s)' <=> InAsyncQ(s)
    BY <1>1 DEF Kind, InAsyncQ
  <2>14. ASSUME NEW s \in Calls, Kind[s] = "async" PROVE AsyncCallIsHandedOnce(s)'
    <3>1. AsyncCallIsHandedOnce(s) /\ s # None
      BY <2>14, NoneIsNoName DEF IndInv, AsyncCallsAreHandedOnce
    <3>2. Handed(s)' <=> Handed(s)
      BY <1>1, <2>13 DEF Handed
    <3>3. CASE s # r
      <4>1. Referenced(s)' <=> Referenced(s)
        BY <1>1, <1>2, <2>5, <2>6, <3>1, <3>3 DEF Referenced
      <4> QED BY <1>1, <1>2, <2>5, <2>6, <2>13, <3>1, <3>2, <3>3, <4>1
            DEF AsyncCallIsHandedOnce, Copying
    <3>4. CASE s = r
      <4>1. ~Handed(s) /\ Referenced(s)' /\ outcome[s] # "failed"
        BY <2>6, <2>7, <3>1, <3>4 DEF AsyncCallIsHandedOnce, Referenced
      <4> QED BY <1>1, <2>7, <2>13, <3>1, <3>2, <3>4, <4>1 DEF AsyncCallIsHandedOnce
    <3> QED BY <3>3, <3>4
  <2>15. AsyncCallsAreHandedOnce'
    BY <2>13, <2>14 DEF AsyncCallsAreHandedOnce
  <2> QED BY <1>1, <2>5, <2>8, <2>9, <2>11, <2>12, <2>15, SameCalls DEF IndInv
<1>6. QED
  BY <1>4, <1>5 DEF Finished

(* ~ReqMessage.                                                            *)
LastReference(r, qs, pcs, cur) ==
  r # None /\ cur # r /\ Kind[r] = "async" /\ ~resp[r].ver /\ ~Queued(r, qs) /\ pcs[r] # "pushed"

LEMMA DroppedCases ==
  ASSUME NEW r, NEW qs, NEW pcs, NEW cur, asyncQ' = Dropped(r, qs, pcs, cur)
  PROVE  \/ LastReference(r, qs, pcs, cur) /\ asyncQ' = Append(asyncQ, [msg |-> r, ver |-> FALSE])
         \/ ~LastReference(r, qs, pcs, cur) /\ asyncQ' = asyncQ
BY DEF Dropped, LastReference

(* Whoever drops a call that has not been handed over hands it over when   *)
(* it has no response and nobody else refers to it.                        *)
LEMMA DroppedCall ==
  ASSUME IndInv, NEW r \in Calls \cup {None}, NEW qs, NEW pcs, NEW cur,
         asyncQ' = Dropped(r, qs, pcs, cur), UNCHANGED <<resp, mix>>,
         r \in Calls /\ Kind[r] = "async" /\ ~resp[r].ver => ~InAsyncQ(r)
  PROVE  /\ asyncQ' \in Seq(Callback) /\ CallbacksAreDistinct'
         /\ \A s : InAsyncQ(s)' <=> InAsyncQ(s) \/ (s = r /\ LastReference(r, qs, pcs, cur))
<1>1. Kind' = Kind /\ asyncQ \in Seq(Callback) /\ CallbacksAreDistinct
  BY StateFacts DEF Kind, IndInv
<1>2. CASE ~LastReference(r, qs, pcs, cur) /\ asyncQ' = asyncQ
  <2>1. \A s : InAsyncQ(s)' <=> InAsyncQ(s)
    BY <1>2 DEF InAsyncQ
  <2> QED BY <1>1, <1>2, <2>1 DEF CallbacksAreDistinct
<1>3. CASE LastReference(r, qs, pcs, cur) /\ asyncQ' = Append(asyncQ, [msg |-> r, ver |-> FALSE])
  <2> DEFINE e == [msg |-> r, ver |-> FALSE]
  <2>1. e \in Callback /\ e.msg = r /\ e.ver = FALSE /\ Kind[r] = "async" /\ ~InAsyncQ(r)
    BY <1>3 DEF LastReference, Callback
  <2> HIDE DEF e
  <2> QED BY <1>1, <1>3, <2>1, EntryAdded DEF e
<1> QED BY <1>2, <1>3, DroppedCases

LEMMA ExpireStep ==
  ASSUME IndInv, NEW k \in Queues, Expire(k), UNCHANGED mix
  PROVE  IndInv'
<1>1. TypeOK /\ WellKept(queue[k]) /\ queue[k].time # <<>>
  BY DEF IndInv, QueuesAreWellKept, Expire
<1>2. 1 \in 1 .. Len(queue[k].time)
  BY <1>1, QueueFacts
<1>3. PICK r \in Calls : r = queue[k].time[1].msg
  BY <1>1, <1>2, QueueFacts
<1>4. /\ queue' = [queue EXCEPT ![k] = Removed(queue[k], 1)]
      /\ asyncQ' = Dropped(r, queue', pc, reactor.cur)
      /\ UNCHANGED <<uniqId, conn, server, pc, trans, resp, reactor, outcome, got, runs, mix>>
  BY <1>3 DEF Expire, told
<1>5. /\ QueuesAreWellKept' /\ RequestsAreDistinct' /\ queue' \in [Queues -> QueueType]
      /\ \A l \in Queues : In(queue'[l]) \subseteq In(queue[l])
      /\ \E m \in In(queue[k]) : m.msg = r
      /\ \A s \in Calls : Queued(s, queue') <=> Queued(s, queue) /\ s # r
  BY <1>2, <1>3, <1>4, Removal
<1>6. pc[r] # "new" /\ ~resp[r].ver /\ Queued(r, queue)
  BY <1>1, <1>5, QueuedIsIn, StateFacts DEF IndInv, RequestsArePlaced
<1>7. Kind[r] = "async" => ~Handed(r)
  BY <1>6 DEF IndInv, AsyncCallsAreHandedOnce, AsyncCallIsHandedOnce
<1>8. /\ asyncQ' \in Seq(Callback) /\ CallbacksAreDistinct'
      /\ \A s : InAsyncQ(s)' <=> InAsyncQ(s) \/ (s = r /\ LastReference(r, queue', pc, reactor.cur))
  <2>1. PICK qs : qs = queue'
    OBVIOUS
  <2>2. asyncQ' = Dropped(r, qs, pc, reactor.cur)
    BY <1>4, <2>1
  <2>3. Kind[r] = "async" => ~InAsyncQ(r)
    BY <1>7 DEF Handed
  <2>4. UNCHANGED <<resp, mix>>
    BY <1>4
  <2>5. /\ asyncQ' \in Seq(Callback) /\ CallbacksAreDistinct'
        /\ \A s : InAsyncQ(s)' <=> InAsyncQ(s) \/ (s = r /\ LastReference(r, qs, pc, reactor.cur))
    BY <2>2, <2>3, <2>4, DroppedCall
  <2> QED BY <2>1, <2>5
<1>9. TypeOK'
  BY <1>4, <1>1, <1>5, <1>8 DEF TypeOK, QueueType
<1>10. PacketsAreKnown' /\ OpenHasOwner'
  <2>1. \A p : Known(p) => Known(p)'
    BY <1>4, <1>5 DEF Known
  <2>2. \A s : AllKnown(s) => AllKnown(s)'
    BY <2>1 DEF AllKnown
  <2> QED BY <1>4, <2>1, <2>2 DEF IndInv, PacketsAreKnown, OpenHasOwner
<1>11. \A c \in Conns : ServesOn(c)
  BY <1>4 DEF ServesOn, Busy
<1>12. RequestsArePlaced'
  BY <1>4, <1>5, <1>11, SamePlaces
<1>13. ReactorAtWork'
  <2>1. reactor.pc \in Copying => ~Queued(reactor.cur, queue')
    BY <1>5, CopyFacts
  <2> QED BY <1>4, <2>1 DEF IndInv, ReactorAtWork
<1>14. Kind' = Kind
  BY <1>4 DEF Kind
<1>15. AnswersAreOwn'
  BY <1>4, <1>14 DEF IndInv, AnswersAreOwn
<1>16. CallersAreConsistent'
  BY <1>4, <1>6, <1>8, <1>14 DEF IndInv, CallersAreConsistent, Handed
<1>17. ASSUME NEW s \in Calls, Kind[s] = "async" PROVE AsyncCallIsHandedOnce(s)'
  <2>1. AsyncCallIsHandedOnce(s)
    BY <1>17 DEF IndInv, AsyncCallsAreHandedOnce
  <2>2. CASE s # r
    <3>1. (Handed(s)' <=> Handed(s)) /\ (InAsyncQ(s)' <=> InAsyncQ(s))
      BY <1>4, <1>8, <2>2 DEF Handed
    <3>2. Queued(s, queue') <=> Queued(s, queue)
      BY <1>5, <2>2
    <3> QED BY <1>4, <2>1, <3>1, <3>2 DEF AsyncCallIsHandedOnce, Referenced
  <2>3. CASE s = r
    <3>1. ~Handed(r) /\ ~Queued(r, queue') /\ pc[r] \in {"pushed", "done"} /\ outcome[r] # "failed"
      <4>1. pc[r] \notin {"new", "check", "waiting", "woken"}
        BY <1>5, <1>6, <1>17, <2>3 DEF IndInv, CallersAreConsistent
      <4>2. outcome[r] # "failed"
        BY <1>6, <2>1, <2>3 DEF AsyncCallIsHandedOnce, Referenced
      <4> QED BY <1>1, <1>5, <1>7, <1>17, <2>3, <4>1, <4>2 DEF TypeOK
    <3>2. LastReference(r, queue', pc, reactor.cur) <=> reactor.cur # r /\ pc[r] # "pushed"
      BY <1>5, <1>6, <1>17, <2>3, <3>1, NoneIsNoName DEF LastReference
    <3>3. /\ Handed(r)' <=> reactor.cur # r /\ pc[r] # "pushed"
          /\ runs[r] # 1
      BY <1>4, <1>8, <3>1, <3>2 DEF Handed
    <3>4. Referenced(r)' <=> ~Handed(r)'
      BY <1>4, <3>1, <3>3 DEF Referenced
    <3> QED BY <1>4, <1>6, <2>3, <3>1, <3>3, <3>4 DEF AsyncCallIsHandedOnce
  <2> QED BY <2>2, <2>3
<1>18. AsyncCallsAreHandedOnce'
  BY <1>14, <1>17 DEF AsyncCallsAreHandedOnce
<1> QED BY <1>5, <1>8, <1>9, <1>10, <1>12, <1>13, <1>15, <1>16, <1>18 DEF IndInv

-----------------------------------------------------------------------------
(***************************************************************************)
(* IndInv is preserved by every action of the callers.                     *)
(***************************************************************************)
LEMMA InvokeFailsStep ==
  ASSUME IndInv, NEW r \in Calls, InvokeFails(r), UNCHANGED mix
  PROVE  IndInv'
<1>1. /\ pc[r] = "new" /\ pc' = [pc EXCEPT ![r] = "done"]
      /\ outcome' = [outcome EXCEPT ![r] = "failed"]
      /\ UNCHANGED <<queue, uniqId, conn, server, trans, resp, reactor, asyncQ, got, runs, mix>>
  BY DEF InvokeFails
<1>2. /\ TypeOK
      /\ \A s \in Calls : pc'[s] = IF s = r THEN "done" ELSE pc[s]
      /\ \A s \in Calls : outcome'[s] = IF s = r THEN "failed" ELSE outcome[s]
  BY <1>1 DEF IndInv, TypeOK
<1>3. Kind' = Kind /\ \A s : (InAsyncQ(s)' <=> InAsyncQ(s)) /\ (Handed(s)' <=> Handed(s))
  BY <1>1 DEF Kind, InAsyncQ, Handed
<1>4. TypeOK'
  BY <1>1, <1>2 DEF TypeOK
<1>5. PacketsAreKnown' /\ OpenHasOwner'
  BY <1>1, SameKnown DEF IndInv, PacketsAreKnown, OpenHasOwner
<1>6. RequestsArePlaced'
  <2>1. \A k \in Queues : \A n \in In(queue[k]) : n.msg \in Calls /\ n.msg # r
    BY <1>1, QueueFacts DEF IndInv, QueuesAreWellKept, RequestsArePlaced
  <2> QED BY <1>1, <1>2, <2>1 DEF IndInv, RequestsArePlaced, Busy
<1>7. ReactorAtWork'
  <2>1. reactor.cur \in Calls \cup {None}
    BY <1>2, StateFacts, ReactorFacts
  <2> QED BY <1>1, <1>2, <2>1 DEF IndInv, ReactorAtWork
<1>8. CallbacksAreDistinct' /\ AnswersAreOwn' /\ CallersAreConsistent'
  BY <1>1, <1>2, <1>3 DEF IndInv, CallbacksAreDistinct, AnswersAreOwn, CallersAreConsistent
<1>9. ASSUME NEW s \in Calls, Kind[s] = "async" PROVE AsyncCallIsHandedOnce(s)'
  <2>1. AsyncCallIsHandedOnce(s)
    BY <1>9 DEF IndInv, AsyncCallsAreHandedOnce
  <2>2. CASE s # r
    BY <1>1, <1>2, <1>3, <2>1, <2>2 DEF AsyncCallIsHandedOnce, Referenced
  <2>3. CASE s = r
    <3>1. ~Queued(r, queue) /\ reactor.cur # r
      <4>1. ~Queued(r, queue)
        BY <1>1, <1>2, QueuedIsIn, StateFacts DEF IndInv, RequestsArePlaced
      <4>2. reactor.cur # r
        BY <1>1, NoneIsNoName DEF IndInv, ReactorAtWork
      <4> QED BY <4>1, <4>2
    <3>2. ~Handed(r) /\ ~resp[r].ver
      BY <1>1 DEF IndInv, CallersAreConsistent
    <3> QED BY <1>1, <1>2, <1>3, <2>3, <3>1, <3>2 DEF AsyncCallIsHandedOnce, Referenced, Handed
  <2> QED BY <2>2, <2>3
<1>10. AsyncCallsAreHandedOnce'
  BY <1>3, <1>9 DEF AsyncCallsAreHandedOnce
<1> QED BY <1>1, <1>4, <1>5, <1>6, <1>7, <1>8, <1>10, SameQueues DEF IndInv

(* A synchronous caller looks at its response, waits, or returns.          *)
LEMMA SyncCallerStep ==
  ASSUME IndInv, NEW r \in Calls, pc[r] \in {"check", "waiting", "woken"},
         NEW x \in {"waiting", "done"}, pc' = [pc EXCEPT ![r] = x],
         NEW o \in {"none", "ok", "timeout", "connerr", "unknown", "failed"},
         outcome' = [outcome EXCEPT ![r] = o],
         NEW b \in {r, None}, got' = [got EXCEPT ![r] = b],
         UNCHANGED <<queue, uniqId, conn, server, trans, resp, reactor, asyncQ, runs, mix>>
  PROVE  IndInv'
<1>1. /\ TypeOK /\ Kind[r] = "sync"
      /\ \A s \in Calls : pc'[s] = IF s = r THEN x ELSE pc[s]
      /\ \A s \in Calls : outcome'[s] = IF s = r THEN o ELSE outcome[s]
      /\ \A s \in Calls : got'[s] = IF s = r THEN b ELSE got[s]
  BY DEF IndInv, TypeOK, CallersAreConsistent
<1>2. Kind' = Kind /\ \A s : (InAsyncQ(s)' <=> InAsyncQ(s)) /\ (Handed(s)' <=> Handed(s))
  BY DEF Kind, InAsyncQ, Handed
<1>3. TypeOK'
  BY <1>1 DEF TypeOK
<1>4. PacketsAreKnown' /\ OpenHasOwner'
  BY SameKnown DEF IndInv, PacketsAreKnown, OpenHasOwner
<1>5. RequestsArePlaced'
  <2>1. \A k \in Queues : \A n \in In(queue[k]) : n.msg \in Calls
    BY QueueFacts DEF IndInv, QueuesAreWellKept
  <2> QED BY <1>1, <2>1 DEF IndInv, RequestsArePlaced, Busy
<1>6. ReactorAtWork'
  <2>1. reactor.cur \in Calls \cup {None}
    BY <1>1, StateFacts, ReactorFacts
  <2> QED BY <1>1, <2>1 DEF IndInv, ReactorAtWork
<1>7. CallbacksAreDistinct' /\ AnswersAreOwn' /\ CallersAreConsistent'
  BY <1>1, <1>2 DEF IndInv, CallbacksAreDistinct, AnswersAreOwn, CallersAreConsistent
<1>8. ASSUME NEW s \in Calls, Kind[s] = "async" PROVE AsyncCallIsHandedOnce(s)'
  <2>1. AsyncCallIsHandedOnce(s) /\ s # r
    BY <1>1, <1>8 DEF IndInv, AsyncCallsAreHandedOnce
  <2> QED BY <1>1, <1>2, <2>1 DEF AsyncCallIsHandedOnce, Referenced
<1>9. AsyncCallsAreHandedOnce'
  BY <1>2, <1>8 DEF AsyncCallsAreHandedOnce
<1> QED BY <1>3, <1>4, <1>5, <1>6, <1>7, <1>9, SameQueues DEF IndInv

LEMMA ReturnStep ==
  ASSUME IndInv, NEW r \in Calls, pc[r] \in {"check", "waiting", "woken"},
         ReadResponse(r) \/ Return(r, "timeout"),
         UNCHANGED <<queue, uniqId, conn, server, trans, resp, reactor, asyncQ, mix>>
  PROVE  IndInv'
<1>1. PICK o \in {"ok", "timeout", "connerr", "unknown"} : Return(r, o)
  <2>1. resp[r].ret \in {"unknown", "success", "connerr"}
    BY StateFacts DEF IndInv, Response
  <2> QED BY <2>1 DEF ReadResponse
<1> DEFINE b == IF o = "ok" THEN resp[r].body ELSE None
<1>2. /\ pc' = [pc EXCEPT ![r] = "done"] /\ outcome' = [outcome EXCEPT ![r] = o]
      /\ got' = [got EXCEPT ![r] = b] /\ UNCHANGED runs
  BY <1>1 DEF Return
<1>3. b \in {r, None}
  BY DEF IndInv, AnswersAreOwn
<1> HIDE DEF b
<1> QED BY <1>2, <1>3, SyncCallerStep

LEMMA CheckOrWaitStep ==
  ASSUME IndInv, NEW r \in Calls, CheckOrWait(r), UNCHANGED mix
  PROVE  IndInv'
<1>1. /\ pc[r] = "check"
      /\ UNCHANGED <<queue, uniqId, conn, server, trans, resp, reactor, asyncQ, mix>>
  BY DEF CheckOrWait
<1>2. CASE resp[r].ver
  BY <1>1, <1>2, ReturnStep DEF CheckOrWait
<1>3. CASE ~resp[r].ver
  <2>1. pc' = [pc EXCEPT ![r] = "waiting"] /\ UNCHANGED <<outcome, got, runs>>
    BY <1>3 DEF CheckOrWait, told
  <2>2. /\ outcome[r] \in {"none", "ok", "timeout", "connerr", "unknown", "failed"}
        /\ got[r] \in {r, None}
        /\ outcome' = [outcome EXCEPT ![r] = outcome[r]] /\ got' = [got EXCEPT ![r] = got[r]]
    BY <2>1 DEF IndInv, TypeOK, AnswersAreOwn
  <2> QED BY <1>1, <2>1, <2>2, SyncCallerStep
<1> QED BY <1>2, <1>3

(* A connection that the call can use, or a new one.                       *)
LEMMA SelectedConnection ==
  ASSUME TypeOK, NEW a \in Adapters, NEW s \in Selected(a)
  PROVE  /\ s.c \in Conns /\ s.conns \in [Conns -> Socket]
         /\ s.conns[s.c].st = "open" /\ s.conns[s.c].owner = a
         /\ conn[s.c].st # "unused" => s.conns[s.c] = conn[s.c]
         /\ conn[s.c].st = "unused" => /\ s.conns[s.c].edge /\ s.conns[s.c].sendBuf = <<>>
                                       /\ s.conns[s.c].inbound = <<>>
         /\ \A d \in Conns : d # s.c => s.conns[d] = conn[d]
<1> DEFINE fresh == [NoConn EXCEPT !.st = "open", !.owner = a, !.up = TRUE, !.edge = TRUE]
<1>1. /\ fresh \in Socket /\ fresh.st = "open" /\ fresh.owner = a /\ fresh.edge
      /\ fresh.sendBuf = <<>> /\ fresh.inbound = <<>>
  BY EmptyQueue DEF NoConn, Socket
<1> HIDE DEF fresh
<1>2. CASE \E c \in Conns : /\ conn[c].st = "open" /\ conn[c].owner = a
                            /\ s = [c |-> c, conns |-> conn]
  BY <1>2 DEF TypeOK
<1>3. CASE \E c \in Conns : /\ conn[c].st = "unused"
                            /\ s = [c |-> c, conns |-> [conn EXCEPT ![c] = fresh]]
  <2>1. PICK c \in Conns : /\ conn[c].st = "unused"
                           /\ s = [c |-> c, conns |-> [conn EXCEPT ![c] = fresh]]
    BY <1>3
  <2>2. /\ s.c = c /\ s.conns = [conn EXCEPT ![c] = fresh]
    BY <2>1
  <2>3. s.conns \in [Conns -> Socket] /\ s.conns[c] = fresh
    BY <1>1, <2>2 DEF TypeOK
  <2>4. \A d \in Conns : d # c => s.conns[d] = conn[d]
    BY <2>2 DEF TypeOK
  <2> QED BY <1>1, <2>1, <2>2, <2>3, <2>4
<1>4. QED
  BY <1>2, <1>3 DEF Selected, fresh

(* A new request comes in behind the others, with a new id.                *)
LEMMA Addition ==
  ASSUME IndInv, NEW k \in Queues, NEW r \in Calls, pc[r] = "new",
         NEW p \in Pushed(queue[k], uniqId + 1, r), queue' = [queue EXCEPT ![k] = p]
  PROVE  /\ QueuesAreWellKept' /\ RequestsAreDistinct'
         /\ queue' \in [Queues -> QueueType]
         /\ \A l \in Queues : \A n \in In(queue'[l]) :
              n \in In(queue[l]) \/ (l = k /\ n = Node(uniqId + 1, r))
         /\ \A s \in Calls : Queued(s, queue') <=> Queued(s, queue) \/ s = r
<1> DEFINE x == Node(uniqId + 1, r)
<1>1. /\ DOMAIN queue = Queues /\ WellKept(queue[k]) /\ uniqId \in Nat /\ uniqId + 1 \in Nat
      /\ \A l \in Queues : WellKept(queue[l])
  BY StateFacts DEF IndInv, QueuesAreWellKept
<1>2. \A l \in Queues : \A n \in In(queue[l]) :
         n.id \in Nat /\ n.id # uniqId + 1 /\ n.msg \in Calls /\ n.msg # r
  <2> SUFFICES ASSUME NEW l \in Queues, NEW n \in In(queue[l])
               PROVE  n.id \in Nat /\ n.id # uniqId + 1 /\ n.msg \in Calls /\ n.msg # r
    OBVIOUS
  <2>1. n.id \in Nat /\ n.msg \in Calls
    BY <1>1, QueueFacts
  <2>2. n.id <= uniqId /\ pc[n.msg] # "new"
    BY DEF IndInv, RequestsArePlaced
  <2> QED BY <1>1, <2>1, <2>2
<1>3. uniqId + 1 \notin Ids(queue[k])
  BY <1>2 DEF Ids, In, Range
<1>4. WellKept(p) /\ In(p) = In(queue[k]) \cup {x}
  BY <1>1, <1>3, PushedRequest
<1>5. x.id = uniqId + 1 /\ x.msg = r
  BY DEF Node
<1> HIDE DEF x
<1>6. DOMAIN queue' = Queues /\ \A l \in Queues : queue'[l] = IF l = k THEN p ELSE queue[l]
  BY <1>1
<1>7. QueuesAreWellKept'
  BY <1>1, <1>4, <1>6 DEF QueuesAreWellKept
<1>8. \A l \in Queues : \A n : n \in In(queue'[l]) <=> n \in In(queue[l]) \/ (l = k /\ n = x)
  BY <1>4, <1>6
<1>9. RequestsAreDistinct'
  <2> SUFFICES ASSUME NEW l \in Queues, NEW j \in Queues,
                      NEW n \in In(queue'[l]), NEW m \in In(queue'[j]), n.id = m.id \/ n.msg = m.msg
               PROVE  l = j /\ n = m
    BY DEF RequestsAreDistinct
  <2>1. CASE n \in In(queue[l]) /\ m \in In(queue[j])
    BY <2>1 DEF IndInv, RequestsAreDistinct
  <2>2. CASE n \in In(queue[l]) /\ j = k /\ m = x
    BY <1>2, <1>5, <2>2
  <2>3. CASE l = k /\ n = x /\ m \in In(queue[j])
    BY <1>2, <1>5, <2>3
  <2>4. CASE l = k /\ n = x /\ j = k /\ m = x
    BY <2>4
  <2> QED BY <1>8, <2>1, <2>2, <2>3, <2>4
<1>10. queue' \in [Queues -> QueueType]
  <2>1. \A l \in Queues : queue'[l] \in QueueType
    BY <1>7 DEF QueuesAreWellKept, WellKept
  <2>2. queue' = [l \in Queues |-> queue'[l]]
    BY <1>1
  <2> QED BY <2>1, <2>2
<1>11. ASSUME NEW s \in Calls PROVE Queued(s, queue') <=> Queued(s, queue) \/ s = r
  <2>1. Queued(s, queue') <=> \E l \in Queues : \E m \in In(queue'[l]) : m.msg = s
    BY <1>6 DEF Queued, In, Range
  <2>2. Queued(s, queue) <=> \E l \in Queues : \E m \in In(queue[l]) : m.msg = s
    BY <1>1 DEF Queued, In, Range
  <2> QED BY <1>5, <1>8, <2>1, <2>2
<1> QED BY <1>7, <1>8, <1>9, <1>10, <1>11 DEF x

LEMMA InvokeStep ==
  ASSUME IndInv, NEW r \in Calls, NEW a \in Adapters, Invoke(r, a), UNCHANGED mix
  PROVE  IndInv'
<1>1. /\ pc[r] = "new" /\ uniqId' = uniqId + 1 /\ pc' = [pc EXCEPT ![r] = "pushed"]
      /\ UNCHANGED <<server, resp, reactor, asyncQ, outcome, got, runs, mix>>
  BY DEF Invoke, told
<1>2. TypeOK /\ uniqId \in Nat
  BY StateFacts DEF IndInv
<1>3. PICK s \in Selected(a) : conn' = s.conns /\ trans' = [trans EXCEPT ![r] = s.c]
  BY DEF Invoke
<1>4. PICK c \in Conns : c = s.c
  BY <1>2, SelectedConnection
<1>5. /\ conn' \in [Conns -> Socket] /\ conn'[c].st = "open" /\ conn'[c].owner = a
      /\ conn[c].st # "unused" => conn'[c] = conn[c]
      /\ conn[c].st = "unused" => conn'[c].edge /\ conn'[c].sendBuf = <<>> /\ conn'[c].inbound = <<>>
      /\ \A d \in Conns : d # c => conn'[d] = conn[d]
  BY <1>2, <1>3, <1>4, SelectedConnection
<1>6. PICK k \in Queues : k = IF r \in Hashed THEN a ELSE Obj
  BY NoneIsNoName
<1>7. PICK p \in Pushed(queue[k], uniqId + 1, r) : queue' = [queue EXCEPT ![k] = p]
  BY <1>6 DEF Invoke
<1>8. /\ QueuesAreWellKept' /\ RequestsAreDistinct' /\ queue' \in [Queues -> QueueType]
      /\ \A l \in Queues : \A n \in In(queue'[l]) :
           n \in In(queue[l]) \/ (l = k /\ n = Node(uniqId + 1, r))
      /\ \A t \in Calls : Queued(t, queue') <=> Queued(t, queue) \/ t = r
  BY <1>1, <1>7, Addition
<1>9. /\ \A t \in Calls : pc'[t] = IF t = r THEN "pushed" ELSE pc[t]
      /\ \A t \in Calls : trans'[t] = IF t = r THEN c ELSE trans[t]
  BY <1>1, <1>2, <1>3, <1>4 DEF TypeOK
<1>10. TypeOK'
  <2>1. trans' \in [Calls -> Conns \cup {None}]
    BY <1>2, <1>3, <1>4 DEF TypeOK
  <2>2. pc' \in [Calls -> {"new", "pushed", "check", "waiting", "woken", "done"}]
    BY <1>1, <1>2 DEF TypeOK
  <2> QED BY <1>1, <1>2, <1>5, <1>8, <2>1, <2>2 DEF TypeOK, QueueType
<1>11. PacketsAreKnown'
  <2>1. ASSUME NEW q, q.id \in Nat, Known(q) PROVE Known(q)'
    <3>1. q.id <= uniqId /\ q.id <= uniqId' /\ q.id # uniqId + 1
      BY <1>1, <1>2, <2>1 DEF Known
    <3> SUFFICES ASSUME NEW l \in Queues, NEW n \in In(queue'[l]), n.id = q.id
                 PROVE  n.msg = q.msg /\ n.popped
      BY <3>1 DEF Known
    <3>2. n \in In(queue[l])
      BY <1>8, <3>1 DEF Node
    <3> QED BY <2>1, <3>2 DEF Known
  <2>2. ASSUME NEW q \in Seq(Packet), AllKnown(q) PROVE AllKnown(q)'
    <3>1. \A i \in DOMAIN q : q[i] \in Packet
      OBVIOUS
    <3>2. \A i \in DOMAIN q : q[i].id \in Nat
      BY <3>1 DEF Packet
    <3> QED BY <2>1, <2>2, <3>2 DEF AllKnown
  <2>3. AllKnown(<<>>)'
    BY DEF AllKnown
  <2>4. ASSUME NEW d \in Conns PROVE AllKnown(conn[d].sendBuf)' /\ AllKnown(conn[d].inbound)'
    <3>1. conn'[d].sendBuf \in {conn[d].sendBuf, <<>>} /\ conn'[d].inbound \in {conn[d].inbound, <<>>}
      BY <1>5
    <3>2. conn[d].sendBuf \in Seq(Packet) /\ conn[d].inbound \in Seq(Packet)
      BY <1>2, StateFacts, SocketFacts
    <3>3. AllKnown(conn[d].sendBuf) /\ AllKnown(conn[d].inbound)
      BY DEF IndInv, PacketsAreKnown
    <3> QED BY <2>2, <2>3, <3>1, <3>2, <3>3
  <2>5. AllKnown(reactor.done)'
    BY <1>1, <1>2, <2>2, StateFacts, ReactorFacts DEF IndInv, PacketsAreKnown
  <2>6. \A s1 \in server : Known(s1)'
    BY <1>2, <2>1 DEF IndInv, PacketsAreKnown, TypeOK
  <2> QED BY <1>1, <2>4, <2>5, <2>6 DEF PacketsAreKnown
<1>12. OpenHasOwner'
  BY <1>5 DEF IndInv, OpenHasOwner
<1>13. RequestsArePlaced'
  <2> SUFFICES ASSUME NEW l \in Queues, NEW n \in In(queue'[l])
               PROVE  LET t == n.msg
                          d == trans'[t]
                      IN  /\ n.id <= uniqId'
                          /\ pc'[t] # "new" /\ ~resp[t].ver /\ d \in Conns
                          /\ conn'[d].st # "unused" /\ (l # Obj => conn'[d].owner = l)
                          /\ ~n.popped /\ conn'[d].st = "open"
                               => \/ pc'[t] = "pushed" \/ conn'[d].edge
                                  \/ reactor.conn = d /\ reactor.pc # "idle"
    BY <1>1 DEF RequestsArePlaced, Busy
  <2>1. CASE n \in In(queue[l])
    <3>1. n.msg \in Calls /\ n.id \in Nat /\ n.msg # r
      BY <1>1, <2>1, QueueFacts DEF IndInv, QueuesAreWellKept, RequestsArePlaced
    <3>2. trans[n.msg] \in Conns /\ conn[trans[n.msg]].st # "unused"
      BY <2>1 DEF IndInv, RequestsArePlaced
    <3>3. conn'[trans[n.msg]] = conn[trans[n.msg]]
      BY <1>5, <3>2
    <3> QED BY <1>1, <1>2, <1>9, <2>1, <3>1, <3>2, <3>3 DEF IndInv, RequestsArePlaced, Busy
  <2>2. CASE l = k /\ n = Node(uniqId + 1, r)
    <3>1. n.msg = r /\ n.id = uniqId + 1
      BY <2>2 DEF Node
    <3>2. ~resp[r].ver
      BY <1>1 DEF IndInv, CallersAreConsistent
    <3> QED BY <1>1, <1>2, <1>5, <1>6, <1>9, <2>2, <3>1, <3>2, NoneIsNoName
  <2> QED BY <1>8, <2>1, <2>2
<1>14. ReactorAtWork'
  <2>1. reactor.cur \in Calls \cup {None} /\ (reactor.cur # None => reactor.cur # r)
    BY <1>1, <1>2, StateFacts, ReactorFacts DEF IndInv, ReactorAtWork
  <2>2. reactor.pc # "idle" => /\ reactor.conn \in Conns /\ conn[reactor.conn].st # "unused"
                               /\ conn'[reactor.conn] = conn[reactor.conn]
    BY <1>5 DEF IndInv, ReactorAtWork
  <2>3. reactor.pc \in Copying => ~Queued(reactor.cur, queue')
    BY <1>8, <2>1, CopyFacts DEF IndInv, ReactorAtWork
  <2> QED BY <1>1, <1>9, <2>1, <2>2, <2>3 DEF IndInv, ReactorAtWork
<1>15. Kind' = Kind /\ \A t : (InAsyncQ(t)' <=> InAsyncQ(t)) /\ (Handed(t)' <=> Handed(t))
  BY <1>1 DEF Kind, InAsyncQ, Handed
<1>16. CallbacksAreDistinct' /\ AnswersAreOwn' /\ CallersAreConsistent'
  BY <1>1, <1>9, <1>15 DEF IndInv, CallbacksAreDistinct, AnswersAreOwn, CallersAreConsistent
<1>17. ASSUME NEW t \in Calls, Kind[t] = "async" PROVE AsyncCallIsHandedOnce(t)'
  <2>1. AsyncCallIsHandedOnce(t)
    BY <1>17 DEF IndInv, AsyncCallsAreHandedOnce
  <2>2. CASE t # r
    <3>1. Queued(t, queue') <=> Queued(t, queue)
      BY <1>8, <2>2
    <3> QED BY <1>1, <1>9, <1>15, <2>1, <2>2, <3>1 DEF AsyncCallIsHandedOnce, Referenced
  <2>3. CASE t = r
    <3>1. ~Handed(r) /\ ~resp[r].ver /\ outcome[r] = "none"
      BY <1>1 DEF IndInv, CallersAreConsistent
    <3>2. Referenced(r)'
      BY <1>9 DEF Referenced
    <3> QED BY <1>1, <1>9, <1>15, <2>1, <2>3, <3>1, <3>2 DEF AsyncCallIsHandedOnce
  <2> QED BY <2>2, <2>3
<1>18. AsyncCallsAreHandedOnce'
  BY <1>15, <1>17 DEF AsyncCallsAreHandedOnce
<1> QED BY <1>8, <1>10, <1>11, <1>12, <1>13, <1>14, <1>16, <1>18 DEF IndInv

LEMMA HandleWriteStep ==
  ASSUME IndInv, NEW r \in Calls, HandleWrite(r), UNCHANGED mix
  PROVE  IndInv'
<1> DEFINE x == IF Kind[r] = "sync" THEN "check" ELSE "done"
<1>1. /\ pc[r] = "pushed" /\ pc' = [pc EXCEPT ![r] = x]
      /\ conn' = IF conn[trans[r]].st = "open" THEN [conn EXCEPT ![trans[r]].edge = TRUE] ELSE conn
      /\ asyncQ' = Dropped(r, queue, pc', reactor.cur)
      /\ UNCHANGED <<queue, uniqId, server, trans, resp, reactor, outcome, got, runs, mix>>
  BY DEF HandleWrite, told
<1>2. /\ TypeOK /\ trans[r] \in Conns
      /\ \A s \in Calls : pc'[s] = IF s = r THEN x ELSE pc[s]
  BY <1>1 DEF IndInv, TypeOK, CallersAreConsistent
<1>3. Kind' = Kind
  BY <1>1 DEF Kind
<1>4. /\ conn' \in [Conns -> Socket]
      /\ \A d \in Conns : /\ conn'[d].st = conn[d].st /\ conn'[d].owner = conn[d].owner
                          /\ conn'[d].sendBuf = conn[d].sendBuf
                          /\ conn'[d].inbound = conn[d].inbound
                          /\ conn'[d].lastReq = conn[d].lastReq
                          /\ conn[d].edge => conn'[d].edge
                          /\ d = trans[r] /\ conn[d].st = "open" => conn'[d].edge
  <2>1. CASE conn[trans[r]].st # "open"
    BY <1>1, <1>2, <2>1 DEF TypeOK
  <2>2. CASE conn[trans[r]].st = "open"
    <3>1. conn[trans[r]] \in Socket /\ [conn[trans[r]] EXCEPT !.edge = TRUE] \in Socket
      BY <1>2, StateFacts DEF Socket
    <3> QED BY <1>1, <1>2, <2>2, <3>1 DEF TypeOK, Socket
  <2> QED BY <2>1, <2>2
<1>5. Kind[r] = "async" => AsyncCallIsHandedOnce(r)
  BY DEF IndInv, AsyncCallsAreHandedOnce
<1>6. PICK last \in BOOLEAN :
        last <=> r # None /\ reactor.cur # r /\ Kind[r] = "async" /\ ~resp[r].ver /\ ~Queued(r, queue)
  OBVIOUS
<1>7. /\ asyncQ' \in Seq(Callback) /\ CallbacksAreDistinct'
      /\ \A s : InAsyncQ(s)' <=> InAsyncQ(s) \/ (s = r /\ last)
  <2>1. PICK pcs : pcs = pc'
    OBVIOUS
  <2>2. asyncQ' = Dropped(r, queue, pcs, reactor.cur)
    BY <1>1, <2>1
  <2>3. Kind[r] = "async" /\ ~resp[r].ver => ~InAsyncQ(r)
    BY <1>1, <1>5 DEF AsyncCallIsHandedOnce, Handed
  <2>4. UNCHANGED <<resp, mix>>
    BY <1>1
  <2>5. /\ asyncQ' \in Seq(Callback) /\ CallbacksAreDistinct'
        /\ \A s : InAsyncQ(s)' <=> InAsyncQ(s) \/ (s = r /\ LastReference(r, queue, pcs, reactor.cur))
    BY <2>2, <2>3, <2>4, DroppedCall
  <2>6. LastReference(r, queue, pcs, reactor.cur) <=> last
    BY <1>2, <1>6, <2>1 DEF LastReference
  <2> QED BY <2>5, <2>6
<1> HIDE DEF x
<1>8. x \in {"check", "done"} /\ (x = "check" => Kind[r] = "sync") /\ (Kind[r] = "async" => x = "done")
  BY DEF x
<1>9. TypeOK'
  <2>1. pc' \in [Calls -> {"new", "pushed", "check", "waiting", "woken", "done"}]
    BY <1>1, <1>2, <1>8 DEF TypeOK
  <2> QED BY <1>1, <1>2, <1>4, <1>7, <2>1 DEF TypeOK
<1>10. PacketsAreKnown' /\ OpenHasOwner'
  BY <1>1, <1>4, SameKnown DEF IndInv, PacketsAreKnown, OpenHasOwner
<1>11. RequestsArePlaced'
  <2> SUFFICES ASSUME NEW k \in Queues, NEW n \in In(queue[k])
               PROVE  LET t == n.msg
                          c == trans[t]
                      IN  /\ n.id <= uniqId
                          /\ pc'[t] # "new" /\ ~resp[t].ver /\ c \in Conns
                          /\ conn'[c].st # "unused" /\ (k # Obj => conn'[c].owner = k)
                          /\ ~n.popped /\ conn'[c].st = "open"
                               => pc'[t] = "pushed" \/ conn'[c].edge \/ Busy(c)
    BY <1>1 DEF RequestsArePlaced, Busy
  <2>1. n.msg \in Calls /\ trans[n.msg] \in Conns
    BY QueueFacts DEF IndInv, QueuesAreWellKept, RequestsArePlaced
  <2>2. CASE n.msg # r
    BY <1>2, <1>4, <2>1, <2>2 DEF IndInv, RequestsArePlaced
  <2>3. CASE n.msg = r
    BY <1>2, <1>4, <1>8, <2>1, <2>3 DEF IndInv, RequestsArePlaced
  <2> QED BY <2>2, <2>3
<1>12. ReactorAtWork'
  <2>1. reactor.cur \in Calls \cup {None}
    BY <1>2, StateFacts, ReactorFacts
  <2> QED BY <1>1, <1>2, <1>4, <1>8, <2>1 DEF IndInv, ReactorAtWork
<1>13. AnswersAreOwn'
  BY <1>1, <1>3 DEF IndInv, AnswersAreOwn
<1>14. CallersAreConsistent'
  BY <1>1, <1>2, <1>3, <1>7, <1>8 DEF IndInv, CallersAreConsistent, Handed
<1>15. ASSUME NEW s \in Calls, Kind[s] = "async" PROVE AsyncCallIsHandedOnce(s)'
  <2>1. AsyncCallIsHandedOnce(s)
    BY <1>15 DEF IndInv, AsyncCallsAreHandedOnce
  <2>2. CASE s # r
    <3>1. (Handed(s)' <=> Handed(s)) /\ (InAsyncQ(s)' <=> InAsyncQ(s)) /\ pc'[s] = pc[s]
      BY <1>1, <1>2, <1>7, <2>2 DEF Handed
    <3> QED BY <1>1, <2>1, <3>1 DEF AsyncCallIsHandedOnce, Referenced
  <2>3. CASE s = r
    <3>1. pc[r] = "pushed" /\ pc'[r] = "done" /\ outcome[r] # "failed" /\ r # None
      BY <1>1, <1>2, <1>8, <1>15, <2>1, <2>3, NoneIsNoName DEF AsyncCallIsHandedOnce
    <3>2. Referenced(r)' <=> Queued(r, queue) \/ reactor.cur = r
      BY <1>1, <3>1 DEF Referenced
    <3>3. CASE Handed(r)
      <4>1. resp[r].ver /\ ~last
        BY <1>6, <2>1, <2>3, <3>1, <3>3 DEF AsyncCallIsHandedOnce
      <4>2. (InAsyncQ(r)' <=> InAsyncQ(r)) /\ Handed(r)'
        BY <1>1, <1>7, <3>3, <4>1 DEF Handed
      <4> QED BY <1>1, <2>1, <2>3, <3>1, <3>3, <4>1, <4>2 DEF AsyncCallIsHandedOnce
    <3>4. CASE ~Handed(r)
      <4>1. /\ runs[r] # 1 /\ (InAsyncQ(r)' <=> last) /\ (Handed(r)' <=> last)
        BY <1>1, <1>7, <3>4 DEF Handed
      <4>2. last <=> ~resp[r].ver /\ ~Queued(r, queue) /\ reactor.cur # r
        BY <1>6, <1>15, <2>3, <3>1
      <4>3. resp[r].ver => reactor.pc \in Copying /\ reactor.cur = r
        BY <2>1, <2>3, <3>4 DEF AsyncCallIsHandedOnce
      <4> QED BY <1>1, <2>3, <3>1, <3>2, <4>1, <4>2, <4>3 DEF AsyncCallIsHandedOnce
    <3> QED BY <2>3, <3>3, <3>4
  <2> QED BY <2>2, <2>3
<1>16. AsyncCallsAreHandedOnce'
  BY <1>3, <1>15 DEF AsyncCallsAreHandedOnce
<1> QED BY <1>1, <1>7, <1>9, <1>10, <1>11, <1>12, <1>13, <1>14, <1>16, SameQueues DEF IndInv

LEMMA CallerStep ==
  ASSUME IndInv, NEW r \in Calls, Caller(r), UNCHANGED mix
  PROVE  IndInv'
<1>1. CASE Wake(r)
  BY <1>1, ReturnStep DEF Wake
<1>2. CASE WaitTimesOut(r)
  BY <1>2, ReturnStep DEF WaitTimesOut
<1> QED BY <1>1, <1>2, InvokeStep, InvokeFailsStep, HandleWriteStep, CheckOrWaitStep DEF Caller

LEMMA DoRequestStep ==
  ASSUME IndInv, DoRequest, UNCHANGED mix
  PROVE  IndInv'
<1> DEFINE c == reactor.conn
<1>1. /\ reactor.pc = "send"
      /\ UNCHANGED <<queue, uniqId, pc, trans, resp, asyncQ, outcome, got, runs, mix>>
  BY DEF DoRequest, ReactorAt, told
<1>2. /\ TypeOK /\ reactor.cur = None /\ reactor \in NetThread
      /\ c \in Conns /\ C \in Socket /\ C = conn[c] /\ C.st \in {"open", "closed"}
      /\ C.owner \in Adapters
  BY <1>1, AtWork, StateFacts DEF IndInv, ReactorAtWork, Copying
<1>3. C.sendBuf \in Seq(Packet) /\ AllKnown(C.sendBuf)
  BY <1>2, SocketFacts DEF IndInv, PacketsAreKnown
<1>4. \/ /\ server' = server \cup
               {[conn |-> c, id |-> C.sendBuf[i].id, msg |-> C.sendBuf[i].msg] :
                  i \in {j \in DOMAIN C.sendBuf : Kind[C.sendBuf[j].msg] # "oneway"}}
         /\ conn' = [conn EXCEPT ![c].sendBuf = <<>>]
         /\ reactor' = [reactor EXCEPT !.pc = "pop", !.any = FALSE]
      \/ /\ conn' = [conn EXCEPT ![c].edge = TRUE] /\ reactor' = Idle /\ UNCHANGED server
      \/ /\ \/ reactor' = [reactor EXCEPT !.pc = "close", !.after = "pop", !.any = FALSE]
            \/ reactor' = [reactor EXCEPT !.pc = "pop", !.any = FALSE]
         /\ UNCHANGED <<server, conn>>
      \/ C.st = "closed" /\ reactor' = Idle /\ UNCHANGED <<server, conn>>
  BY DEF DoRequest
<1>5. /\ reactor' \in NetThread /\ reactor'.cur = None /\ reactor'.done \in {reactor.done, <<>>}
      /\ reactor'.pc \in {"pop", "close", "idle"}
      /\ reactor'.pc # "idle" => reactor'.conn = c
      /\ reactor'.pc = "close" => reactor'.after = "pop"
      /\ reactor'.pc = "idle" => \/ C.st = "closed" /\ UNCHANGED conn
                                 \/ conn' = [conn EXCEPT ![c].edge = TRUE]
  <2>1. CASE reactor' = Idle
    <3>1. Idle \in NetThread /\ Idle.cur = None /\ Idle.done = <<>> /\ Idle.pc = "idle"
      BY EmptyQueue DEF Idle, NetThread
    <3>2. reactor'.pc = "idle"
      BY <2>1, <3>1
    <3>3. \/ C.st = "closed" /\ UNCHANGED conn
          \/ conn' = [conn EXCEPT ![c].edge = TRUE]
      <4>1. \A t \in NetThread : [t EXCEPT !.pc = "pop", !.any = FALSE].pc = "pop"
        BY DEF NetThread
      <4>2. \A t \in NetThread : [t EXCEPT !.pc = "close", !.after = "pop", !.any = FALSE].pc = "close"
        BY DEF NetThread
      <4> QED BY <1>2, <1>4, <3>2, <4>1, <4>2
    <3> QED BY <2>1, <3>1, <3>3
  <2>2. CASE reactor' = [reactor EXCEPT !.pc = "pop", !.any = FALSE]
    BY <1>2, <2>2 DEF NetThread
  <2>3. CASE reactor' = [reactor EXCEPT !.pc = "close", !.after = "pop", !.any = FALSE]
    BY <1>2, <2>3 DEF NetThread
  <2> QED BY <1>4, <2>1, <2>2, <2>3
<1>6. /\ conn' \in [Conns -> Socket]
      /\ \A d \in Conns : /\ conn'[d].st = conn[d].st /\ conn'[d].owner = conn[d].owner
                          /\ conn'[d].sendBuf \in {conn[d].sendBuf, <<>>}
                          /\ conn'[d].inbound = conn[d].inbound
                          /\ conn[d].edge => conn'[d].edge
  <2>1. [C EXCEPT !.sendBuf = <<>>] \in Socket /\ [C EXCEPT !.edge = TRUE] \in Socket
    BY <1>2, EmptyQueue DEF Socket
  <2>2. CASE UNCHANGED conn
    BY <1>2, <2>2 DEF TypeOK
  <2>3. CASE conn' = [conn EXCEPT ![c].sendBuf = <<>>]
    BY <1>2, <2>1, <2>3 DEF TypeOK, Socket
  <2>4. CASE conn' = [conn EXCEPT ![c].edge = TRUE]
    BY <1>2, <2>1, <2>4 DEF TypeOK, Socket
  <2> QED BY <1>4, <2>2, <2>3, <2>4
<1>7. reactor'.pc = "idle" => conn'[c].st = "closed" \/ conn'[c].edge
  <2>1. CASE conn' = [conn EXCEPT ![c].edge = TRUE]
    BY <1>2, <2>1 DEF TypeOK, Socket
  <2>2. CASE C.st = "closed" /\ UNCHANGED conn
    BY <1>2, <2>2
  <2> QED BY <1>5, <2>1, <2>2
<1>8. server' \subseteq [conn : Conns, id : Nat, msg : Calls] /\ \A s \in server' : Known(s)
  <2>1. \A s \in server : Known(s)
    BY DEF IndInv, PacketsAreKnown
  <2>2. CASE UNCHANGED server
    BY <1>2, <2>1, <2>2 DEF TypeOK
  <2>3. CASE server' = server \cup
               {[conn |-> c, id |-> C.sendBuf[i].id, msg |-> C.sendBuf[i].msg] :
                  i \in {j \in DOMAIN C.sendBuf : Kind[C.sendBuf[j].msg] # "oneway"}}
    <3>1. \A i \in DOMAIN C.sendBuf : C.sendBuf[i] \in Packet
      BY <1>3
    <3>2. \A i \in DOMAIN C.sendBuf : /\ C.sendBuf[i].id \in Nat /\ C.sendBuf[i].msg \in Calls
                                      /\ Known(C.sendBuf[i])
      BY <1>3, <3>1 DEF Packet, AllKnown
    <3>3. ASSUME NEW i \in DOMAIN C.sendBuf, NEW s,
                 s = [conn |-> c, id |-> C.sendBuf[i].id, msg |-> C.sendBuf[i].msg]
          PROVE  s \in [conn : Conns, id : Nat, msg : Calls] /\ Known(s)
      <4>1. s.id = C.sendBuf[i].id /\ s.msg = C.sendBuf[i].msg
        BY <3>3
      <4> QED BY <1>2, <3>2, <3>3, <4>1 DEF Known
    <3> QED BY <1>2, <2>1, <2>3, <3>3 DEF TypeOK
  <2> QED BY <1>4, <2>2, <2>3
<1>9. TypeOK'
  BY <1>1, <1>2, <1>5, <1>6, <1>8 DEF TypeOK
<1>10. \A d \in Conns : ServesOn(d)
  BY <1>5, <1>6, <1>7 DEF ServesOn, Busy
<1>11. PacketsAreKnown'
  <2>1. AllKnown(<<>>)
    BY DEF AllKnown
  <2>2. \A d \in Conns : AllKnown(conn'[d].sendBuf) /\ AllKnown(conn'[d].inbound)
    BY <1>6, <2>1 DEF IndInv, PacketsAreKnown
  <2>3. AllKnown(reactor'.done)
    BY <1>5, <2>1 DEF IndInv, PacketsAreKnown
  <2>4. /\ \A p : Known(p)' <=> Known(p)
        /\ \A s : AllKnown(s)' <=> AllKnown(s)
    BY <1>1, SameKnown
  <2>5. \A d \in Conns : AllKnown(conn[d].sendBuf)' /\ AllKnown(conn[d].inbound)'
    BY <1>1, <2>2 DEF AllKnown, Known
  <2>6. AllKnown(reactor.done)'
    BY <1>1, <2>3 DEF AllKnown, Known
  <2>7. \A s \in server' : Known(s)'
    BY <1>8, <2>4
  <2> QED BY <2>5, <2>6, <2>7 DEF PacketsAreKnown
<1>12. RequestsArePlaced' /\ OpenHasOwner'
  BY <1>1, <1>6, <1>10, SamePlaces, SameOwners
<1>13. ReactorAtWork'
  BY <1>2, <1>5, <1>6 DEF ReactorAtWork, Copying
<1>14. SameReferences
  BY <1>2, <1>5 DEF SameReferences
<1> QED BY <1>1, <1>9, <1>11, <1>12, <1>13, <1>14, SameQueues, SameCalls, SameHands DEF IndInv

(* pop marks a request; the queues hold the same requests as before.       *)
OnlyMarked(k, n) ==
  /\ QueuesAreWellKept' /\ RequestsAreDistinct' /\ queue' \in [Queues -> QueueType]
  /\ n \in In(queue[k]) /\ n.id \in Nat /\ n.msg \in Calls /\ ~n.popped
  /\ \A l \in Queues : \A m \in In(queue'[l]) :
       \/ m \in In(queue[l]) /\ ~(l = k /\ m = n)
       \/ l = k /\ m.id = n.id /\ m.msg = n.msg /\ m.popped
  /\ \A r : Queued(r, queue') <=> Queued(r, queue)

LEMMA Popping ==
  ASSUME IndInv, NEW k \in Queues, CanPop(queue[k]),
         NEW n, n = queue[k].time[PopPos(queue[k])],
         queue' = [queue EXCEPT ![k] = Popped(queue[k])]
  PROVE  OnlyMarked(k, n)
<1> DEFINE x == [n EXCEPT !.popped = TRUE]
<1>1. /\ DOMAIN queue = Queues /\ WellKept(queue[k])
      /\ \A l \in Queues : WellKept(queue[l])
  BY StateFacts DEF IndInv, QueuesAreWellKept
<1>2. n \in In(queue[k]) /\ ~n.popped
  BY <1>1, PopTarget
<1>3. n \in Request /\ n.id \in Nat /\ n.msg \in Calls
  BY <1>1, <1>2, QueueFacts
<1>4. x.id = n.id /\ x.msg = n.msg /\ x.popped
  BY <1>3 DEF Request
<1> HIDE DEF x
<1>5. DOMAIN queue' = Queues /\ \A l \in Queues : queue'[l] = IF l = k THEN Popped(queue[k]) ELSE queue[l]
  BY <1>1
<1>6. WellKept(queue'[k]) /\ In(queue'[k]) = (In(queue[k]) \ {n}) \cup {x}
  BY <1>1, <1>5, PoppedRequest DEF x
<1>7. QueuesAreWellKept'
  BY <1>1, <1>5, <1>6 DEF QueuesAreWellKept
<1>8. \A l \in Queues : \A m : m \in In(queue'[l]) <=>
         \/ m \in In(queue[l]) /\ ~(l = k /\ m = n)
         \/ l = k /\ m = x
  BY <1>5, <1>6
<1>9. RequestsAreDistinct'
  <2> SUFFICES ASSUME NEW l \in Queues, NEW j \in Queues,
                      NEW y \in In(queue'[l]), NEW m \in In(queue'[j]), y.id = m.id \/ y.msg = m.msg
               PROVE  l = j /\ y = m
    BY DEF RequestsAreDistinct
  <2>1. CASE y \in In(queue[l]) /\ m \in In(queue[j])
    BY <2>1 DEF IndInv, RequestsAreDistinct
  <2>2. CASE y \in In(queue[l]) /\ ~(l = k /\ y = n) /\ j = k /\ m = x
    BY <1>2, <1>4, <2>2 DEF IndInv, RequestsAreDistinct
  <2>3. CASE l = k /\ y = x /\ m \in In(queue[j]) /\ ~(j = k /\ m = n)
    BY <1>2, <1>4, <2>3 DEF IndInv, RequestsAreDistinct
  <2>4. CASE l = k /\ y = x /\ j = k /\ m = x
    BY <2>4
  <2> QED BY <1>8, <2>1, <2>2, <2>3, <2>4
<1>10. queue' \in [Queues -> QueueType]
  <2>1. \A l \in Queues : queue'[l] \in QueueType
    BY <1>7 DEF QueuesAreWellKept, WellKept
  <2>2. queue' = [l \in Queues |-> queue'[l]]
    BY <1>1
  <2> QED BY <2>1, <2>2
<1>11. ASSUME NEW r PROVE Queued(r, queue') <=> Queued(r, queue)
  <2>1. Queued(r, queue') <=> \E l \in Queues : \E m \in In(queue'[l]) : m.msg = r
    BY <1>5 DEF Queued, In, Range
  <2>2. Queued(r, queue) <=> \E l \in Queues : \E m \in In(queue[l]) : m.msg = r
    BY <1>1 DEF Queued, In, Range
  <2>3. x \in In(queue'[k])
    BY <1>8
  <2>4. ASSUME NEW l \in Queues, NEW m \in In(queue[l]), m.msg = r
        PROVE  \E j \in Queues : \E y \in In(queue'[j]) : y.msg = r
    <3>1. CASE l = k /\ m = n
      BY <1>4, <2>3, <2>4, <3>1
    <3>2. CASE ~(l = k /\ m = n)
      BY <1>8, <2>4, <3>2
    <3> QED BY <3>1, <3>2
  <2>5. ASSUME NEW l \in Queues, NEW m \in In(queue'[l]), m.msg = r
        PROVE  \E j \in Queues : \E y \in In(queue[j]) : y.msg = r
    <3>1. CASE l = k /\ m = x
      BY <1>2, <1>4, <2>5, <3>1
    <3>2. CASE m \in In(queue[l])
      BY <2>5, <3>2
    <3> QED BY <1>8, <3>1, <3>2
  <2> QED BY <2>1, <2>2, <2>4, <2>5
<1> QED BY <1>2, <1>3, <1>4, <1>7, <1>8, <1>9, <1>10, <1>11 DEF OnlyMarked

(* The network thread lets go of the request that it popped before.        *)
LEMMA LetGo ==
  ASSUME IndInv, reactor.pc = "pop", NEW t, t # None => t \in Calls /\ Queued(t, queue),
         reactor'.cur = t, reactor'.pc \notin Copying,
         asyncQ' = Dropped(reactor.cur, queue, pc, t),
         \A r : Queued(r, queue') <=> Queued(r, queue),
         UNCHANGED <<pc, trans, resp, outcome, got, runs, mix>>
  PROVE  /\ asyncQ' \in Seq(Callback) /\ CallbacksAreDistinct' /\ AnswersAreOwn'
         /\ CallersAreConsistent' /\ AsyncCallsAreHandedOnce'
<1>1. PICK r : r = reactor.cur
  OBVIOUS
<1>2. /\ r \in Calls \cup {None} /\ (r # None => pc[r] # "new")
  BY <1>1, StateFacts, ReactorFacts DEF IndInv, ReactorAtWork
<1>3. r \in Calls /\ Kind[r] = "async" => ~Handed(r)
  BY <1>1 DEF IndInv, AsyncCallsAreHandedOnce, AsyncCallIsHandedOnce
<1>4. /\ asyncQ' \in Seq(Callback) /\ CallbacksAreDistinct'
      /\ \A s : InAsyncQ(s)' <=> InAsyncQ(s) \/ (s = r /\ LastReference(r, queue, pc, t))
  <2>1. asyncQ' = Dropped(r, queue, pc, t) /\ UNCHANGED <<resp, mix>>
    BY <1>1
  <2>2. r \in Calls /\ Kind[r] = "async" /\ ~resp[r].ver => ~InAsyncQ(r)
    BY <1>3 DEF Handed
  <2> QED BY <1>2, <2>1, <2>2, DroppedCall
<1>5. Kind' = Kind
  BY DEF Kind
<1>6. AnswersAreOwn'
  BY <1>5 DEF IndInv, AnswersAreOwn
<1>7. CallersAreConsistent'
  BY <1>2, <1>4, <1>5 DEF IndInv, CallersAreConsistent, Handed, LastReference
<1>8. ASSUME NEW s \in Calls, Kind[s] = "async" PROVE AsyncCallIsHandedOnce(s)'
  <2>1. AsyncCallIsHandedOnce(s) /\ s # None
    BY <1>8, NoneIsNoName DEF IndInv, AsyncCallsAreHandedOnce
  <2>2. Queued(s, queue') <=> Queued(s, queue)
    OBVIOUS
  <2>3. Referenced(s)' <=> Queued(s, queue) \/ pc[s] = "pushed" \/ t = s
    BY <2>2 DEF Referenced
  <2>4. t = s => Queued(s, queue)
    BY <2>1
  <2>5. resp[s].ver => Handed(s)
    BY <2>1 DEF AsyncCallIsHandedOnce, Copying
  <2>6. CASE s = r
    <3>1. ~Handed(s) /\ ~resp[s].ver
      BY <1>3, <1>8, <2>5, <2>6
    <3>2. /\ InAsyncQ(s)' <=> LastReference(r, queue, pc, t)
          /\ Handed(s)' <=> LastReference(r, queue, pc, t)
          /\ runs[s] # 1
      BY <1>4, <2>6, <3>1 DEF Handed
    <3>3. LastReference(r, queue, pc, t) <=> t # s /\ ~Queued(s, queue) /\ pc[s] # "pushed"
      BY <1>8, <2>1, <2>6, <3>1 DEF LastReference
    <3>4. outcome[s] # "failed" /\ pc[s] \in {"pushed", "done"}
      <4>1. outcome[s] # "failed"
        BY <1>1, <2>1, <2>6 DEF AsyncCallIsHandedOnce, Referenced
      <4>2. pc[s] \notin {"new", "check", "waiting", "woken"}
        BY <1>2, <1>8, <2>1, <2>6 DEF IndInv, CallersAreConsistent
      <4> QED BY <4>1, <4>2 DEF IndInv, TypeOK
    <3> QED BY <2>2, <2>3, <3>1, <3>2, <3>3, <3>4 DEF AsyncCallIsHandedOnce
  <2>7. CASE s # r
    <3>1. (InAsyncQ(s)' <=> InAsyncQ(s)) /\ (Handed(s)' <=> Handed(s))
      BY <1>4, <2>7 DEF Handed
    <3>2. Referenced(s) <=> Queued(s, queue) \/ pc[s] = "pushed"
      BY <1>1, <2>7 DEF Referenced
    <3> QED BY <2>1, <2>2, <2>3, <2>4, <2>5, <3>1, <3>2 DEF AsyncCallIsHandedOnce
  <2> QED BY <2>6, <2>7
<1>9. AsyncCallsAreHandedOnce'
  BY <1>5, <1>8 DEF AsyncCallsAreHandedOnce
<1> QED BY <1>4, <1>6, <1>7, <1>9

LEMMA NothingSentStep ==
  ASSUME IndInv, reactor.pc = "pop", ~CanPop(queue[C.owner]), ~CanPop(queue[Obj]),
         reactor' = [reactor EXCEPT !.pc = IF reactor.any THEN "send" ELSE "idle", !.cur = None],
         asyncQ' = Dropped(reactor.cur, queue, pc, reactor'.cur),
         UNCHANGED <<queue, conn, uniqId, server, pc, trans, resp, outcome, got, runs, mix>>
  PROVE  IndInv'
<1>1. /\ TypeOK /\ reactor \in NetThread /\ reactor.conn \in Conns /\ C = conn[reactor.conn]
      /\ C.st # "unused" /\ C.owner \in Adapters
  BY AtWork, StateFacts DEF IndInv
<1>2. /\ reactor' \in NetThread /\ reactor'.conn = reactor.conn /\ reactor'.cur = None
      /\ reactor'.done = reactor.done /\ reactor'.pc \in {"send", "idle"}
  BY <1>1 DEF NetThread
<1>3. /\ asyncQ' \in Seq(Callback) /\ CallbacksAreDistinct' /\ AnswersAreOwn'
      /\ CallersAreConsistent' /\ AsyncCallsAreHandedOnce'
  <2>1. reactor'.pc \notin Copying /\ asyncQ' = Dropped(reactor.cur, queue, pc, None)
    BY <1>2 DEF Copying
  <2>2. \A r : Queued(r, queue') <=> Queued(r, queue)
    OBVIOUS
  <2>3. UNCHANGED <<pc, trans, resp, outcome, got, runs, mix>>
    OBVIOUS
  <2> QED BY <1>2, <2>1, <2>2, <2>3, LetGo
<1>4. TypeOK'
  BY <1>1, <1>2, <1>3 DEF TypeOK
<1>5. PacketsAreKnown' /\ OpenHasOwner'
  BY <1>2, SameKnown DEF IndInv, PacketsAreKnown, OpenHasOwner
<1>6. RequestsArePlaced'
  <2> SUFFICES ASSUME NEW k \in Queues, NEW n \in In(queue[k])
               PROVE  ~n.popped /\ conn[trans[n.msg]].st = "open"
                        => pc[n.msg] = "pushed" \/ conn[trans[n.msg]].edge
    BY DEF IndInv, RequestsArePlaced
  <2>1. CASE trans[n.msg] # reactor.conn
    BY <2>1 DEF IndInv, RequestsArePlaced, Busy
  <2>2. CASE trans[n.msg] = reactor.conn
    <3>1. k = Obj \/ k = C.owner
      BY <1>1, <2>2 DEF IndInv, RequestsArePlaced
    <3>2. WellKept(queue[k]) /\ ~CanPop(queue[k])
      BY <3>1 DEF IndInv, QueuesAreWellKept
    <3> QED BY <3>2, NothingToPop
  <2> QED BY <2>1, <2>2
<1>7. ReactorAtWork'
  BY <1>1, <1>2 DEF ReactorAtWork, Copying
<1> QED BY <1>3, <1>4, <1>5, <1>6, <1>7, SameQueues DEF IndInv

(* The request n of the queue k goes to the send buffer.                   *)
Sent(k, n) ==
  /\ n = queue[k].time[PopPos(queue[k])]
  /\ queue' = [queue EXCEPT ![k] = Popped(queue[k])]
  /\ conn' = [conn EXCEPT
                ![reactor.conn].lastReq = IF Kind[n.msg] = "sync" THEN n.msg ELSE @,
                ![reactor.conn].sendBuf = Append(@, [id |-> n.id, msg |-> n.msg])]
  /\ \/ reactor' = [reactor EXCEPT !.cur = n.msg, !.any = TRUE]
     \/ reactor' = [reactor EXCEPT !.cur = None, !.pc = "send"]

LEMMA RequestSentStep ==
  ASSUME IndInv, reactor.pc = "pop", NEW k \in Queues, CanPop(queue[k]),
         NEW n, Sent(k, n),
         asyncQ' = Dropped(reactor.cur, queue, pc, reactor'.cur),
         UNCHANGED <<uniqId, server, pc, trans, resp, outcome, got, runs, mix>>
  PROVE  IndInv'
<1> DEFINE c == reactor.conn
           packet == [id |-> n.id, msg |-> n.msg]
<1>1. /\ TypeOK /\ reactor \in NetThread /\ c \in Conns /\ C = conn[c] /\ C \in Socket
      /\ C.st # "unused" /\ C.owner \in Adapters
  BY AtWork, StateFacts DEF IndInv
<1>2. /\ QueuesAreWellKept' /\ RequestsAreDistinct' /\ queue' \in [Queues -> QueueType]
      /\ n \in In(queue[k]) /\ n.id \in Nat /\ n.msg \in Calls /\ ~n.popped
      /\ \A l \in Queues : \A m \in In(queue'[l]) :
           \/ m \in In(queue[l]) /\ ~(l = k /\ m = n)
           \/ l = k /\ m.id = n.id /\ m.msg = n.msg /\ m.popped
      /\ \A r : Queued(r, queue') <=> Queued(r, queue)
  <2>1. /\ n = queue[k].time[PopPos(queue[k])]
        /\ queue' = [queue EXCEPT ![k] = Popped(queue[k])]
    BY DEF Sent
  <2>2. OnlyMarked(k, n)
    BY <2>1, Popping
  <2> QED BY <2>2 DEF OnlyMarked
<1>3. PICK t : t = reactor'.cur
  OBVIOUS
<1>4. /\ reactor' \in NetThread /\ reactor'.conn = c /\ t \in {n.msg, None}
      /\ reactor'.done = reactor.done /\ reactor'.pc \in {"pop", "send"}
      /\ t # None => reactor'.pc = "pop"
  BY <1>1, <1>2, <1>3 DEF NetThread, Sent
<1>5. Queued(n.msg, queue) /\ n.id <= uniqId /\ pc[n.msg] # "new"
  BY <1>1, <1>2, QueuedIsIn, StateFacts DEF IndInv, RequestsArePlaced
<1>6. /\ asyncQ' \in Seq(Callback) /\ CallbacksAreDistinct' /\ AnswersAreOwn'
      /\ CallersAreConsistent' /\ AsyncCallsAreHandedOnce'
  <2>1. reactor'.pc \notin Copying /\ asyncQ' = Dropped(reactor.cur, queue, pc, t)
    BY <1>3, <1>4 DEF Copying
  <2>2. t # None => t \in Calls /\ Queued(t, queue)
    BY <1>2, <1>4, <1>5
  <2>3. UNCHANGED <<pc, trans, resp, outcome, got, runs, mix>>
    OBVIOUS
  <2> QED BY <1>2, <1>3, <2>1, <2>2, <2>3, LetGo
<1>7. packet \in Packet /\ packet.id = n.id /\ packet.msg = n.msg
  BY <1>2 DEF Packet
<1> HIDE DEF packet
<1>8. PICK old, new, buf :
         /\ old = C.sendBuf /\ new = packet /\ buf = Append(old, new)
         /\ old \in Seq(Packet) /\ AllKnown(old) /\ new \in Packet
  BY <1>1, <1>7, SocketFacts DEF IndInv, PacketsAreKnown
<1>9. /\ Len(old) \in Nat /\ DOMAIN old = 1 .. Len(old) /\ buf \in Seq(Packet)
       /\ DOMAIN buf = 1 .. Len(old) + 1 /\ buf[Len(old) + 1] = new
       /\ \A i \in 1 .. Len(old) : buf[i] = old[i]
  BY <1>8
<1>10. /\ conn' \in [Conns -> Socket]
      /\ \A d \in Conns : /\ conn'[d].st = conn[d].st /\ conn'[d].owner = conn[d].owner
                          /\ conn'[d].edge = conn[d].edge /\ conn'[d].inbound = conn[d].inbound
                          /\ conn'[d].sendBuf = IF d = c THEN buf
                                                ELSE conn[d].sendBuf
  <2>1. PICK r : r = IF Kind[n.msg] = "sync" THEN n.msg ELSE C.lastReq
    OBVIOUS
  <2>2. r \in Calls \cup {None}
    BY <1>1, <1>2, <2>1, SocketFacts
  <2>3. PICK s \in Socket : s = [C EXCEPT !.lastReq = r, !.sendBuf = buf]
    BY <1>1, <1>9, <2>2 DEF Socket
  <2>4. /\ s.st = C.st /\ s.owner = C.owner /\ s.edge = C.edge /\ s.inbound = C.inbound
        /\ s.sendBuf = buf
    BY <1>1, <2>3 DEF Socket
  <2>5. conn' = [conn EXCEPT ![c] = s]
    <3>1. conn' = [conn EXCEPT ![c].lastReq = r, ![c].sendBuf = Append(C.sendBuf, packet)]
      BY <1>1, <2>1 DEF packet, Sent
    <3> QED BY <1>1, <1>8, <2>3, <3>1 DEF TypeOK
  <2> QED BY <1>1, <2>4, <2>5 DEF TypeOK
<1>11. TypeOK'
  BY <1>1, <1>2, <1>4, <1>6, <1>10 DEF TypeOK, QueueType
<1>12. PacketsAreKnown'
  <2>1. \A p : Known(p) => Known(p)'
    BY <1>2 DEF Known
  <2>2. Known(new)'
    <3> SUFFICES ASSUME NEW l \in Queues, NEW m \in In(queue'[l]), m.id = n.id
                 PROVE  m.msg = n.msg /\ m.popped
      BY <1>5, <1>7, <1>8 DEF Known
    <3> QED BY <1>2 DEF IndInv, RequestsAreDistinct
  <2>3. \A s : AllKnown(s) => AllKnown(s)'
    BY <2>1 DEF AllKnown
  <2>4. AllKnown(buf)'
    <3>1. \A i \in 1 .. Len(old) + 1 : i \in 1 .. Len(old) \/ i = Len(old) + 1
      BY <1>9
    <3>2. \A i \in 1 .. Len(old) : Known(old[i])'
      BY <1>8, <1>9, <2>1 DEF AllKnown
    <3>3. \A i \in 1 .. Len(old) + 1 : Known(buf[i])'
      BY <1>9, <2>2, <3>1, <3>2
    <3> QED BY <1>9, <3>3 DEF AllKnown
  <2> QED BY <1>4, <1>10, <2>1, <2>3, <2>4 DEF IndInv, PacketsAreKnown
<1>13. OpenHasOwner'
  BY <1>10 DEF IndInv, OpenHasOwner
<1>14. RequestsArePlaced'
  <2> SUFFICES ASSUME NEW l \in Queues, NEW m \in In(queue'[l])
               PROVE  LET r == m.msg
                          d == trans[r]
                      IN  /\ m.id <= uniqId
                          /\ pc[r] # "new" /\ ~resp[r].ver /\ d \in Conns
                          /\ conn'[d].st # "unused" /\ (l # Obj => conn'[d].owner = l)
                          /\ ~m.popped /\ conn'[d].st = "open"
                               => \/ pc[r] = "pushed" \/ conn'[d].edge
                                  \/ reactor'.conn = d /\ reactor'.pc # "idle"
    BY DEF RequestsArePlaced, Busy
  <2>1. PICK o \in In(queue[l]) : o.id = m.id /\ o.msg = m.msg /\ (o.popped => m.popped)
    BY <1>2
  <2> QED BY <1>4, <1>10, <2>1 DEF IndInv, RequestsArePlaced, Busy
<1>15. ReactorAtWork'
  BY <1>1, <1>3, <1>4, <1>5, <1>10 DEF ReactorAtWork, Copying
<1> QED BY <1>2, <1>6, <1>11, <1>12, <1>13, <1>14, <1>15 DEF IndInv

LEMMA SendRequestStep ==
  ASSUME IndInv, SendRequest, UNCHANGED mix
  PROVE  IndInv'
<1>1. /\ reactor.pc = "pop" /\ asyncQ' = Dropped(reactor.cur, queue, pc, reactor'.cur)
      /\ UNCHANGED <<uniqId, server, pc, trans, resp, outcome, got, runs, mix>>
  BY DEF SendRequest, ReactorAt, told
<1>2. C.owner \in Adapters
  BY <1>1, AtWork
<1> DEFINE ready == {k \in {C.owner} : CanPop(queue[k])}
           from  == IF ready # {} THEN ready ELSE {k \in {Obj} : CanPop(queue[k])}
<1>3. from = {} => ~CanPop(queue[C.owner]) /\ ~CanPop(queue[Obj])
  OBVIOUS
<1>4. \A k \in from : k \in Queues /\ CanPop(queue[k])
  BY <1>2, NoneIsNoName
<1>5. CASE from = {}
  <2>1. /\ reactor' = [reactor EXCEPT !.pc = IF reactor.any THEN "send" ELSE "idle", !.cur = None]
        /\ UNCHANGED <<queue, conn>>
    BY <1>5 DEF SendRequest
  <2> QED BY <1>1, <1>3, <1>5, <2>1, NothingSentStep
<1>6. CASE from # {}
  <2>1. PICK k \in from : \E n : Sent(k, n)
    BY <1>6 DEF SendRequest, Sent
  <2>2. k \in Queues /\ CanPop(queue[k])
    BY <1>4
  <2> HIDE DEF from
  <2> QED BY <1>1, <2>1, <2>2, RequestSentStep
<1> QED BY <1>5, <1>6

-----------------------------------------------------------------------------
(***************************************************************************)
(* IndInv is preserved by the callback threads and the peer.               *)
(***************************************************************************)
LEMMA RunCallbackStep ==
  ASSUME IndInv, RunCallback, UNCHANGED mix
  PROVE  IndInv'
<1> DEFINE e == Head(asyncQ)
           o == IF e.ver THEN "ok" ELSE "timeout"
           b == IF e.ver THEN resp[e.msg].body ELSE None
<1>1. /\ asyncQ # <<>> /\ asyncQ' = Tail(asyncQ)
      /\ outcome' = [outcome EXCEPT ![e.msg] = o]
      /\ got' = [got EXCEPT ![e.msg] = b]
      /\ runs' = [runs EXCEPT ![e.msg] = runs[e.msg] + 1]
      /\ UNCHANGED <<queue, uniqId, conn, server, pc, trans, resp, reactor, mix>>
  BY DEF RunCallback
<1>2. /\ TypeOK /\ asyncQ \in Seq(Callback) /\ Kind' = Kind
  BY <1>1, StateFacts DEF IndInv, Kind
<1>3. /\ asyncQ' \in Seq(Callback) /\ CallbacksAreDistinct'
      /\ e \in Callback /\ InAsyncQ(e.msg) /\ Kind[e.msg] = "async"
      /\ e.ver => resp[e.msg].body = e.msg
      /\ \A s : InAsyncQ(s)' <=> InAsyncQ(s) /\ s # e.msg
  BY <1>1, <1>2, EntryTaken DEF IndInv
<1>4. PICK r \in Calls : r = e.msg
  BY <1>3 DEF Callback
<1>5. b \in {r, None} /\ (o = "ok" => b = r) /\ o \in {"ok", "timeout"}
  BY <1>3, <1>4
<1> HIDE DEF o, b
<1>6. AsyncCallIsHandedOnce(r) /\ Handed(r) /\ runs[r] = 0
  <2>1. AsyncCallIsHandedOnce(r) /\ InAsyncQ(r)
    BY <1>3, <1>4 DEF IndInv, AsyncCallsAreHandedOnce
  <2>2. runs[r] # 1 /\ runs[r] \in 0 .. 1
    BY <1>2, <2>1 DEF AsyncCallIsHandedOnce, TypeOK
  <2> QED BY <2>1, <2>2 DEF Handed
<1>7. /\ \A s \in Calls : outcome'[s] = IF s = r THEN o ELSE outcome[s]
      /\ \A s \in Calls : got'[s] = IF s = r THEN b ELSE got[s]
      /\ \A s \in Calls : runs'[s] = IF s = r THEN 1 ELSE runs[s]
      /\ outcome' \in [Calls -> {"none", "ok", "timeout", "connerr", "unknown", "failed"}]
      /\ got' \in [Calls -> Calls \cup {None}] /\ runs' \in [Calls -> 0 .. 1]
  BY <1>1, <1>2, <1>4, <1>5, <1>6 DEF TypeOK
<1>8. \A s \in Calls : Handed(s)' <=> Handed(s)
  BY <1>3, <1>4, <1>6, <1>7 DEF Handed
<1>9. TypeOK'
  BY <1>1, <1>2, <1>3, <1>7 DEF TypeOK
<1>10. PacketsAreKnown' /\ RequestsArePlaced' /\ ReactorAtWork' /\ OpenHasOwner'
  <2>1. RequestsArePlaced' /\ ReactorAtWork'
    BY <1>1 DEF IndInv, RequestsArePlaced, Busy, ReactorAtWork
  <2> QED BY <1>1, <2>1, SameKnown DEF IndInv, PacketsAreKnown, OpenHasOwner
<1>11. AnswersAreOwn'
  BY <1>1, <1>2, <1>5, <1>7 DEF IndInv, AnswersAreOwn
<1>12. CallersAreConsistent'
  BY <1>1, <1>2, <1>6, <1>7, <1>8 DEF IndInv, CallersAreConsistent
<1>13. ASSUME NEW s \in Calls, Kind[s] = "async" PROVE AsyncCallIsHandedOnce(s)'
  <2>1. AsyncCallIsHandedOnce(s) /\ (Referenced(s)' <=> Referenced(s))
    BY <1>1, <1>13 DEF IndInv, AsyncCallsAreHandedOnce, Referenced
  <2>2. CASE s # r
    <3>1. InAsyncQ(s)' <=> InAsyncQ(s)
      BY <1>3, <1>4, <2>2
    <3> QED BY <1>1, <1>7, <1>8, <2>1, <2>2, <3>1 DEF AsyncCallIsHandedOnce
  <2>3. CASE s = r
    <3>1. ~InAsyncQ(r)' /\ outcome'[r] # "failed" /\ outcome[r] # "failed"
      BY <1>3, <1>4, <1>5, <1>6, <1>7 DEF AsyncCallIsHandedOnce
    <3> QED BY <1>1, <1>6, <1>8, <2>1, <2>3, <3>1 DEF AsyncCallIsHandedOnce
  <2> QED BY <2>2, <2>3
<1>14. AsyncCallsAreHandedOnce'
  BY <1>2, <1>13 DEF AsyncCallsAreHandedOnce
<1> QED BY <1>1, <1>3, <1>9, <1>10, <1>11, <1>12, <1>14, SameQueues DEF IndInv

(* The connections of an adapter are closed.                               *)
LEMMA ResetInvokeStep ==
  ASSUME IndInv, NEW a \in Adapters, resetInvoke(a), UNCHANGED mix
  PROVE  IndInv'
<1>1. /\ conn' = [c \in Conns |-> IF conn[c].st = "open" /\ conn[c].owner = a
                                   THEN [conn[c] EXCEPT !.st = "closed"] ELSE conn[c]]
      /\ UNCHANGED <<queue, uniqId, server, pc, trans, resp, reactor, asyncQ,
                     outcome, got, runs, mix>>
  BY DEF resetInvoke, told
<1>2. TypeOK /\ \A c \in Conns : conn[c] \in Socket
  BY StateFacts DEF IndInv
<1>3. /\ conn' \in [Conns -> Socket]
      /\ \A d \in Conns : /\ conn'[d].st = conn[d].st \/ (conn[d].st = "open" /\ conn'[d].st = "closed")
                          /\ conn'[d].owner = conn[d].owner /\ conn'[d].edge = conn[d].edge
                          /\ conn'[d].lastReq = conn[d].lastReq
                          /\ conn'[d].sendBuf = conn[d].sendBuf
                          /\ conn'[d].inbound = conn[d].inbound
  <2>1. \A c \in Conns : [conn[c] EXCEPT !.st = "closed"] \in Socket
    BY <1>2 DEF Socket
  <2> QED BY <1>1, <1>2, <2>1 DEF Socket
<1>4. TypeOK'
  BY <1>1, <1>2, <1>3 DEF TypeOK
<1>5. \A d \in Conns : ServesOn(d)
  BY <1>1, <1>3 DEF ServesOn, Busy
<1>6. PacketsAreKnown'
  BY <1>1, <1>3, SameKnown DEF IndInv, PacketsAreKnown
<1>7. RequestsArePlaced' /\ OpenHasOwner'
  BY <1>1, <1>3, <1>5, SamePlaces, SameOwners
<1>8. ReactorAtWork'
  BY <1>1, <1>3 DEF IndInv, ReactorAtWork
<1>9. SameReferences
  BY <1>1 DEF SameReferences
<1> QED BY <1>1, <1>4, <1>6, <1>7, <1>8, <1>9, SameQueues, SameCalls, SameHands DEF IndInv

(* The peer does something to one connection: what it leaves to be read    *)
(* there is known, and the connection gets an event.                       *)
LEMMA PeerStep ==
  ASSUME IndInv, NEW c \in Conns, NEW up \in BOOLEAN, NEW in \in Seq(Packet), AllKnown(in),
         conn' = [conn EXCEPT ![c].up = up, ![c].edge = TRUE, ![c].inbound = in],
         server' \subseteq server,
         UNCHANGED <<queue, uniqId, pc, trans, resp, reactor, asyncQ, outcome, got, runs, mix>>
  PROVE  IndInv'
<1>1. TypeOK /\ conn[c] \in Socket
  BY StateFacts DEF IndInv
<1>2. PICK s \in Socket : s = [conn[c] EXCEPT !.up = up, !.edge = TRUE, !.inbound = in]
  BY <1>1 DEF Socket
<1>3. /\ s.st = conn[c].st /\ s.owner = conn[c].owner /\ s.sendBuf = conn[c].sendBuf
      /\ s.lastReq = conn[c].lastReq /\ s.edge = TRUE /\ s.inbound = in
  BY <1>1, <1>2 DEF Socket
<1>4. conn' = [conn EXCEPT ![c] = s]
  BY <1>1, <1>2 DEF TypeOK
<1>5. /\ conn' \in [Conns -> Socket]
      /\ \A d \in Conns : /\ conn'[d].st = conn[d].st /\ conn'[d].owner = conn[d].owner
                          /\ conn'[d].sendBuf = conn[d].sendBuf
                          /\ conn'[d].lastReq = conn[d].lastReq
                          /\ conn[d].edge => conn'[d].edge
                          /\ conn'[d].inbound = IF d = c THEN in ELSE conn[d].inbound
  <2>1. \A d \in Conns : conn'[d] = IF d = c THEN s ELSE conn[d]
    BY <1>1, <1>4 DEF TypeOK
  <2>2. conn' \in [Conns -> Socket]
    BY <1>1, <1>4 DEF TypeOK
  <2> QED BY <1>3, <2>1, <2>2
<1>6. TypeOK'
  BY <1>1, <1>5 DEF TypeOK
<1>7. \A d \in Conns : ServesOn(d)
  BY <1>5 DEF ServesOn, Busy
<1>8. PacketsAreKnown'
  BY <1>5, SameKnown DEF IndInv, PacketsAreKnown
<1>9. RequestsArePlaced' /\ OpenHasOwner'
  BY <1>5, <1>7, SamePlaces, SameOwners
<1>10. ReactorAtWork'
  BY <1>5 DEF IndInv, ReactorAtWork
<1>11. SameReferences
  BY DEF SameReferences
<1> QED BY <1>6, <1>8, <1>9, <1>10, <1>11, SameQueues, SameCalls, SameHands DEF IndInv

LEMMA AnswerStep ==
  ASSUME IndInv, NEW s \in server, Answer(s), UNCHANGED mix
  PROVE  IndInv'
<1> DEFINE c == s.conn
<1>1. /\ server' = server \ {s}
      /\ UNCHANGED <<queue, uniqId, pc, trans, resp, reactor, asyncQ, outcome, got, runs, mix>>
  BY DEF Answer, told
<1>2. TypeOK /\ c \in Conns /\ s.id \in Nat /\ s.msg \in Calls /\ Known(s)
  BY DEF IndInv, TypeOK, PacketsAreKnown
<1>3. conn[c] \in Socket /\ conn[c].inbound \in Seq(Packet) /\ AllKnown(conn[c].inbound)
  BY <1>2, StateFacts, SocketFacts DEF IndInv, PacketsAreKnown
<1>4. CASE conn[c].st = "open" /\ conn[c].up
  <2>1. PICK old, new, in :
          /\ old = conn[c].inbound /\ new = [id |-> s.id, msg |-> s.msg] /\ in = Append(old, new)
    OBVIOUS
  <2>2. old \in Seq(Packet) /\ AllKnown(old) /\ new \in Packet /\ Known(new)
    BY <1>2, <1>3, <2>1 DEF Packet, Known
  <2>3. /\ Len(old) \in Nat /\ DOMAIN old = 1 .. Len(old) /\ in \in Seq(Packet)
        /\ DOMAIN in = 1 .. Len(old) + 1 /\ in[Len(old) + 1] = new
        /\ \A i \in 1 .. Len(old) : in[i] = old[i]
    BY <2>1, <2>2
  <2>4. AllKnown(in)
    <3>1. \A i \in 1 .. Len(old) + 1 : i \in 1 .. Len(old) \/ i = Len(old) + 1
      BY <2>3
    <3> QED BY <2>2, <2>3, <3>1 DEF AllKnown
  <2>5. PICK up \in BOOLEAN : up = conn[c].up
    BY <1>3, SocketFacts
  <2>6. conn' = [conn EXCEPT ![c].up = up, ![c].edge = TRUE, ![c].inbound = in]
    <3>1. conn' = [conn EXCEPT ![c].edge = TRUE, ![c].inbound = in]
      BY <1>4, <2>1 DEF Answer
    <3>2. [conn[c] EXCEPT !.edge = TRUE, !.inbound = in]
            = [conn[c] EXCEPT !.up = up, !.edge = TRUE, !.inbound = in]
      BY <1>3, <2>5 DEF Socket
    <3> QED BY <1>2, <3>1, <3>2 DEF TypeOK
  <2> QED BY <1>1, <1>2, <2>3, <2>4, <2>6, PeerStep
<1>5. CASE ~(conn[c].st = "open" /\ conn[c].up)
  <2>1. UNCHANGED conn
    BY <1>5 DEF Answer
  <2>2. TypeOK' /\ OpenHasOwner' /\ PacketsAreKnown'
    BY <1>1, <1>2, <2>1, SameKnown DEF IndInv, TypeOK, OpenHasOwner, PacketsAreKnown
  <2>3. RequestsArePlaced' /\ ReactorAtWork'
    BY <1>1, <2>1 DEF IndInv, RequestsArePlaced, Busy, ReactorAtWork
  <2>4. SameReferences
    BY <1>1 DEF SameReferences
  <2> QED BY <1>1, <2>2, <2>3, <2>4, SameQueues, SameCalls, SameHands DEF IndInv
<1> QED BY <1>4, <1>5

LEMMA PeerClosesStep ==
  ASSUME IndInv, NEW c \in Conns, PeerCloses(c), UNCHANGED mix
  PROVE  IndInv'
<1>1. PICK in \in {conn[c].inbound, <<>>} :
        conn' = [conn EXCEPT ![c].up = FALSE, ![c].edge = TRUE, ![c].inbound = in]
  BY DEF PeerCloses
<1>2. UNCHANGED <<queue, uniqId, server, pc, trans, resp, reactor, asyncQ, outcome, got, runs, mix>>
  BY DEF PeerCloses, told
<1>3. in \in Seq(Packet) /\ AllKnown(in)
  <2>1. conn[c].inbound \in Seq(Packet) /\ AllKnown(conn[c].inbound)
    BY StateFacts, SocketFacts DEF IndInv, PacketsAreKnown
  <2>2. AllKnown(<<>>) /\ <<>> \in Seq(Packet)
    BY EmptyQueue DEF AllKnown
  <2> QED BY <2>1, <2>2
<1> QED BY <1>1, <1>2, <1>3, PeerStep

-----------------------------------------------------------------------------
LEMMA NextStep ==
  ASSUME IndInv, [Next]_<<vars, mix>>
  PROVE  IndInv'
<1>1. CASE UNCHANGED <<vars, mix>>
  BY <1>1, Stutter
<1>2. CASE Next
  <2>1. UNCHANGED mix /\ Step
    BY <1>2 DEF Next
  <2>2. CASE \E r \in Calls : Caller(r)
    BY <2>1, <2>2, CallerStep
  <2>3. CASE Reactor
    BY <2>1, <2>3, EventStep, RecvStep, CloseStep, CloseNotifyStep, FinishedStep,
       CopyVersionStep, CopyRetStep, CopyBufferStep, DeliverStep, AllFinishedStep,
       DoRequestStep, SendRequestStep DEF Reactor
  <2>4. CASE \E k \in Queues : Expire(k)
    BY <2>1, <2>4, ExpireStep
  <2>5. CASE RunCallback
    BY <2>1, <2>5, RunCallbackStep
  <2>6. CASE \E s \in server : Answer(s)
    BY <2>1, <2>6, AnswerStep
  <2>7. CASE \E c \in Conns : PeerCloses(c)
    BY <2>1, <2>7, PeerClosesStep
  <2>8. CASE \E a \in Adapters : resetInvoke(a)
    BY <2>1, <2>8, ResetInvokeStep
  <2> QED BY <2>1, <2>2, <2>3, <2>4, <2>5, <2>6, <2>7, <2>8 DEF Step
<1> QED BY <1>1, <1>2

(* Every state of the client satisfies IndInv.                             *)
THEOREM IndInvIsInvariant == Spec => []IndInv
<1>1. Init => IndInv
  BY InitIndInv
<1>2. IndInv /\ [Next]_<<vars, mix>> => IndInv'
  BY NextStep
<1> QED BY <1>1, <1>2, PTL DEF Spec

-----------------------------------------------------------------------------
(***************************************************************************)
(* What follows from IndInv.                                               *)
(***************************************************************************)

(* The types of the client's state are never left.                         *)
THEOREM TypeCorrect == Spec => []TypeOK
<1>1. IndInv => TypeOK
  BY DEF IndInv
<1> QED BY <1>1, IndInvIsInvariant, PTL

(* Whoever is given an answer is given the answer to its own call.         *)
THEOREM AnswersBelongToTheirCalls == Spec => []AnswerIsOwn
<1>1. IndInv => AnswerIsOwn
  BY DEF IndInv, AnswersAreOwn, AnswerIsOwn
<1> QED BY <1>1, IndInvIsInvariant, PTL

(* Counting the messages of a call in the callback threads' queue.         *)
LEMMA EntriesCounted ==
  ASSUME IndInv, NEW r
  PROVE  Entries(r) = IF InAsyncQ(r) THEN 1 ELSE 0
<1> DEFINE at == {i \in DOMAIN asyncQ : asyncQ[i].msg = r}
<1>1. CASE ~InAsyncQ(r)
  <2>1. at = {}
    BY <1>1 DEF InAsyncQ
  <2> QED BY <1>1, <2>1, FS_EmptySet DEF Entries
<1>2. CASE InAsyncQ(r)
  <2>1. PICK i \in DOMAIN asyncQ : asyncQ[i].msg = r
    BY <1>2 DEF InAsyncQ
  <2>2. at = {i}
    BY <2>1 DEF IndInv, CallbacksAreDistinct
  <2>3. Cardinality(at) = 1
    BY <2>2, FS_Singleton
  <2> QED BY <1>2, <2>3 DEF Entries
<1> QED BY <1>1, <1>2

(* Every accepted asynchronous call is in exactly one place, and its       *)
(* callback runs at most once.                                             *)
THEOREM AsyncCallsAreCalledBackOnce == Spec => []AsyncCalledBackOnce
<1>1. IndInv => AsyncCalledBackOnce
  <2> SUFFICES ASSUME IndInv, NEW r \in Calls, Kind[r] = "async"
               PROVE  /\ runs[r] + Entries(r) <= 1
                      /\ pc[r] \in {"pushed", "done"} /\ outcome[r] # "failed"
                           => (runs[r] + Entries(r) = 1 \/ Referenced(r))
                      /\ outcome[r] = "failed" => runs[r] + Entries(r) = 0 /\ ~Referenced(r)
    BY DEF AsyncCalledBackOnce
  <2>1. AsyncCallIsHandedOnce(r) /\ runs[r] \in 0 .. 1
    BY DEF IndInv, AsyncCallsAreHandedOnce, TypeOK
  <2>2. Entries(r) \in {0, 1} /\ (Entries(r) = 1 <=> InAsyncQ(r))
    BY EntriesCounted
  <2>3. /\ runs[r] + Entries(r) <= 1
        /\ Handed(r) => runs[r] + Entries(r) = 1
        /\ ~Handed(r) => runs[r] + Entries(r) = 0
    BY <2>1, <2>2 DEF AsyncCallIsHandedOnce, Handed
  <2> QED BY <2>1, <2>3 DEF AsyncCallIsHandedOnce
<1> QED BY <1>1, IndInvIsInvariant, PTL

(* No request that waits on an open connection is forgotten by epoll.      *)
THEOREM NoRequestIsForgotten == Spec => []WaitingIsServed
<1>1. IndInv => WaitingIsServed
  <2> SUFFICES ASSUME IndInv, NEW k \in Queues, NEW i \in Waiting(queue[k])
               PROVE  LET r == queue[k].time[i].msg
                      IN  conn[trans[r]].st = "open" =>
                            \/ pc[r] = "pushed"
                            \/ conn[trans[r]].edge
                            \/ reactor.conn = trans[r] /\ reactor.pc # "idle"
    BY DEF WaitingIsServed
  <2>1. i \in DOMAIN queue[k].time /\ ~queue[k].time[i].popped
    BY DEF Waiting
  <2>2. queue[k].time[i] \in In(queue[k])
    BY <2>1, QueueFacts DEF IndInv, QueuesAreWellKept
  <2> QED BY <2>1, <2>2 DEF IndInv, RequestsArePlaced, Busy
<1> QED BY <1>1, IndInvIsInvariant, PTL

(* No answer is slept through.                                             *)
LEMMA AnsweredAreWokenStep ==
  ASSUME IndInv, AnsweredAreWoken, [Next]_<<vars, mix>>
  PROVE  AnsweredAreWoken'
<1> SUFFICES ASSUME NEW r \in Calls, pc'[r] = "waiting", resp'[r].ver
             PROVE  reactor'.cur = r /\ reactor'.pc \in {"copyRet", "copyBuffer", "deliver"}
  BY DEF AnsweredAreWoken
<1> DEFINE Delivering == reactor.cur = r /\ reactor.pc \in {"copyRet", "copyBuffer", "deliver"}
<1>1. pc[r] = "waiting" /\ resp[r].ver => Delivering
  BY DEF AnsweredAreWoken
<1>2. TypeOK
  BY DEF IndInv
<1> HIDE DEF Delivering
<1>3. CASE UNCHANGED <<vars, mix>>
  BY <1>1, <1>3 DEF vars, Delivering
<1>4. CASE \E s \in Calls : Caller(s)
  <2>1. PICK s \in Calls : Caller(s)
    BY <1>4
  <2>2. UNCHANGED <<resp, reactor>>
    BY <2>1 DEF Caller, Invoke, InvokeFails, HandleWrite, CheckOrWait, Wake, WaitTimesOut
  <2>3. pc[r] = "waiting"
    BY <1>2, <2>1, <2>2 DEF TypeOK, Caller, Invoke, InvokeFails, HandleWrite, CheckOrWait, Wake,
      WaitTimesOut, Return, ReadResponse
  <2> QED BY <1>1, <2>2, <2>3 DEF Delivering
<1>5. CASE Reactor
  <2>1. CASE CopyVersion
    <3>1. reactor.pc = "copy" /\ reactor.cur \in Calls
      BY <1>2, <2>1, NoneIsNoName, ReactorFacts DEF IndInv, CopyVersion, ReactorAt, ReactorAtWork,
        Copying, TypeOK
    <3>2. pc[r] = "waiting" /\ ~resp[r].ver
      BY <1>1, <2>1, <3>1 DEF CopyVersion, Delivering
    <3>3. r = reactor.cur
      BY <1>2, <2>1, <3>1, <3>2 DEF CopyVersion, TypeOK
    <3> QED BY <1>2, <2>1, <3>3 DEF CopyVersion, TypeOK, NetThread
  <2>2. CASE CopyRet \/ CopyBuffer
    <3>1. reactor.cur \in Calls /\ reactor.pc \in {"copyRet", "copyBuffer"}
      BY <1>2, <2>2, NoneIsNoName, ReactorFacts DEF IndInv, CopyRet, CopyBuffer, ReactorAt,
        ReactorAtWork, Copying, TypeOK
    <3>2. UNCHANGED pc /\ resp'[r].ver = resp[r].ver
      <4>1. resp[reactor.cur] \in Response
        BY <1>2, <3>1 DEF TypeOK
      <4>2. CASE CopyRet
        <5>1. [resp[reactor.cur] EXCEPT !.ret = "success"].ver = resp[reactor.cur].ver
          BY <4>1 DEF Response
        <5> QED BY <1>2, <3>1, <4>2, <5>1 DEF CopyRet, TypeOK
      <4>3. CASE CopyBuffer
        <5>1. \A b : [resp[reactor.cur] EXCEPT !.body = b].ver = resp[reactor.cur].ver
          BY <4>1 DEF Response
        <5> QED BY <1>2, <3>1, <4>3, <5>1 DEF CopyBuffer, TypeOK
      <4> QED BY <2>2, <4>2, <4>3
    <3>3. reactor'.cur = reactor.cur /\ reactor'.pc \in {"copyBuffer", "deliver"}
      BY <1>2, <2>2 DEF CopyRet, CopyBuffer, TypeOK, NetThread
    <3> QED BY <1>1, <3>2, <3>3 DEF Delivering
  <2>3. CASE Deliver
    <3>1. UNCHANGED resp /\ reactor.pc = "deliver"
      BY <2>3 DEF Deliver, ReactorAt
    <3>2. pc[r] = "waiting"
      BY <1>2, <2>3 DEF Deliver, Notified, TypeOK
    <3>3. reactor.cur = r /\ Kind[r] = "sync"
      BY <1>1, <3>1, <3>2 DEF Delivering, IndInv, CallersAreConsistent
    <3> QED BY <1>2, <2>3, <3>2, <3>3 DEF Deliver, Notified, TypeOK
  <2>4. CASE ~(CopyVersion \/ CopyRet \/ CopyBuffer \/ Deliver)
    <3>1. reactor.pc \notin {"copyRet", "copyBuffer", "deliver"}
      BY <1>5, <2>4, Zenon DEF Reactor, ReactorAt, Event, Recv, Close, CloseNotify, Finished, AllFinished,
        DoRequest, SendRequest
    <3>2. resp'[r].ver = resp[r].ver
      <4>1. CASE Close
        <5>1. UNCHANGED resp \/ resp' = [resp EXCEPT ![C.lastReq].ret = "connerr"]
          BY <4>1 DEF Close
        <5>2. resp[r] \in Response
          BY <1>2 DEF TypeOK
        <5>3. [resp[r] EXCEPT !.ret = "connerr"].ver = resp[r].ver
          BY <5>2 DEF Response
        <5>4. resp'[r] \in {resp[r], [resp[r] EXCEPT !.ret = "connerr"]}
          BY <1>2, <5>1 DEF TypeOK
        <5> QED BY <5>3, <5>4
      <4>2. CASE ~Close
        BY <1>5, <2>4, <4>2, Zenon DEF Reactor, Event, Recv, CloseNotify, Finished, AllFinished, DoRequest,
          SendRequest
      <4> QED BY <4>1, <4>2
    <3>3. pc[r] = "waiting"
      <4>1. CASE CloseNotify
        BY <1>2, <4>1 DEF CloseNotify, Notified, TypeOK
      <4>2. CASE ~CloseNotify
        BY <1>5, <2>4, <4>2, Zenon DEF Reactor, Event, Recv, Close, Finished, AllFinished, DoRequest,
          SendRequest
      <4> QED BY <4>1, <4>2
    <3> QED BY <1>1, <3>1, <3>2, <3>3 DEF Delivering
  <2> QED BY <2>1, <2>2, <2>3, <2>4
<1>6. CASE \/ \E k \in Queues : Expire(k)
           \/ RunCallback
           \/ \E a \in Adapters : resetInvoke(a)
           \/ \E s \in server : Answer(s)
           \/ \E c \in Conns : PeerCloses(c)
  <2>1. UNCHANGED <<pc, resp, reactor>>
    BY <1>6, Zenon DEF Expire, RunCallback, resetInvoke, Answer, PeerCloses
  <2> QED BY <1>1, <2>1 DEF Delivering
<1> QED BY <1>3, <1>4, <1>5, <1>6 DEF Next, Step

(* A caller that waits although its answer has come is always notified:    *)
(* iVersion is tested under the lock of the monitor and set before the     *)
(* notification.                                                           *)
THEOREM NoAnswerIsSleptThrough == Spec => []AnsweredAreWoken
<1>1. Init => AnsweredAreWoken
  BY DEF Init, AnsweredAreWoken
<1>2. IndInv /\ AnsweredAreWoken /\ [Next]_<<vars, mix>> => AnsweredAreWoken'
  BY AnsweredAreWokenStep
<1> QED BY <1>1, <1>2, IndInvIsInvariant, PTL DEF Spec

(* sendRequest's pop never looks at an iterator of a request that has been *)
(* removed: the guard PopSafe of SendRequest holds back no step.  (The     *)
(* queue alone does not promise that: a user that erases a request before  *)
(* it is popped leaves such an iterator.)                                  *)
PopsAreSafe == \A k \in Queues : CanPop(queue[k]) => PopSafe(queue[k])

THEOREM PopIsAlwaysSafe == Spec => []PopsAreSafe
<1>1. IndInv => PopsAreSafe
  BY PopTarget DEF IndInv, QueuesAreWellKept, PopsAreSafe
<1> QED BY <1>1, IndInvIsInvariant, PTL
=============================================================================
