------------------------- MODULE TimeoutQueue_proofs -------------------------
(***************************************************************************)
(* Proofs about TimeoutQueue, for any set of requests, any range of ids    *)
(* and any time-out: with generated ids, IndInv is inductive, and from it  *)
(* follow the assertion in pop, the order of sending, the matching of      *)
(* answers to requests and the refinement of PendingRequests.              *)
(***************************************************************************)
EXTENDS TimeoutQueue, QueueLemmas, TLAPS

-----------------------------------------------------------------------------
(***************************************************************************)
(* Lemmas about the queue operators.                                       *)
(***************************************************************************)

(* Erasing the node at position i shifts the later nodes by one.           *)
LEMMA RemovedNodes ==
  ASSUME NEW S, NEW queue, queue.time \in Seq(S), NEW i \in 1 .. Len(queue.time)
  PROVE  /\ Removed(queue, i).time \in Seq(S)
         /\ Len(Removed(queue, i).time) = Len(queue.time) - 1
         /\ \A j \in 1 .. Len(queue.time) - 1 :
              Removed(queue, i).time[j] =
                IF j < i THEN queue.time[j] ELSE queue.time[j + 1]
BY RemovedAt DEF Removed

(* A live id has one position.                                             *)
LEMMA PosOfId ==
  ASSUME NEW queue, NEW i \in Ids(queue)
  PROVE  Pos(queue, i) \in DOMAIN queue.time /\ queue.time[Pos(queue, i)].id = i
BY DEF Ids, Pos

-----------------------------------------------------------------------------
(***************************************************************************)
(* IndInv holds initially and is preserved by every action.                *)
(***************************************************************************)

(* The empty queue satisfies the invariant.                                *)
LEMMA InitIndInv == Init => IndInv
<1> SUFFICES ASSUME Init PROVE IndInv
  OBVIOUS
<1> USE DEF Init
<1>1. PICK garbage \in {End, Dangling} : q = [time |-> <<>>, first |-> garbage]
  BY DEF NewQueue
<1>2. q.time = <<>> /\ q.first = garbage /\ DOMAIN q.time = {}
  BY <1>1
<1>3. TypeOK
  <2>1. q \in [time : Seq(NodeType), first : IdRange \cup {End, Dangling}]
    BY <1>1
  <2>2. 0 \in IdRange
    BY MaxIdAssumption DEF IdRange
  <2> QED BY <2>1, <2>2 DEF TypeOK, Status
<1>4. NodesMatchRequests /\ PoppedIsPrefix /\ FirstIsExact
  BY <1>2 DEF NodesMatchRequests, PoppedIsPrefix, FirstIsExact
<1>5. IdsAreNotShared
  BY DEF IdsAreNotShared
<1>6. TicketsIncrease
  BY <1>2 DEF TicketsIncrease
<1>7. AnswerToItsRequest
  BY DEF AnswerToItsRequest
<1> QED BY <1>3, <1>4, <1>5, <1>6, <1>7 DEF IndInv

(* What the type invariant says of the queue and of each node.             *)
LEMMA NodeFacts ==
  ASSUME TypeOK
  PROVE  /\ q.time \in Seq(NodeType) /\ Len(q.time) \in Nat
         /\ DOMAIN q.time = 1 .. Len(q.time)
         /\ q.first \in IdRange \cup {End, Dangling}
         /\ \A i \in 1 .. Len(q.time) :
              /\ q.time[i] \in NodeType
              /\ q.time[i].msg \in Reqs
              /\ q.time[i].id \in IdRange
              /\ q.time[i].popped \in BOOLEAN
<1>1. q \in [time : Seq(NodeType), first : IdRange \cup {End, Dangling}]
  BY DEF TypeOK
<1>2. q.time \in Seq(NodeType) /\ q.first \in IdRange \cup {End, Dangling}
  BY <1>1
<1>3. Len(q.time) \in Nat /\ DOMAIN q.time = 1 .. Len(q.time)
  BY <1>2, LenProperties
<1>4. \A i \in 1 .. Len(q.time) : q.time[i] \in NodeType
  BY <1>2, ElementOfSeq
<1>5. \A n \in NodeType : n.msg \in Reqs /\ n.id \in IdRange /\ n.popped \in BOOLEAN
  BY DEF NodeType
<1> QED BY <1>2, <1>3, <1>4, <1>5

(* In the invariant a request names its node, as its id does.              *)
LEMMA NodesAreDistinct ==
  ASSUME IndInv, NEW i \in DOMAIN q.time, NEW j \in DOMAIN q.time, i # j
  PROVE  q.time[i].id # q.time[j].id /\ q.time[i].msg # q.time[j].msg
BY DEF IndInv, NodesMatchRequests

(* The next id stays in range, at the wrap too.                            *)
LEMMA NextIdType == TypeOK => NextId \in IdRange
BY MaxIdAssumption DEF TypeOK, NextId, IdRange

(* generateId keeps the invariant: the queue does not change.              *)
LEMMA GenerateIdStep ==
  ASSUME IndInv, NEW r \in Reqs, generateId(r)
  PROVE  IndInv'
<1> USE DEF generateId
<1>1. /\ TypeOK /\ NodesMatchRequests /\ PoppedIsPrefix /\ FirstIsExact
      /\ IdsAreNotShared /\ TicketsIncrease /\ AnswerToItsRequest
  BY DEF IndInv
<1>2. TypeOK'
  BY <1>1, NextIdType DEF TypeOK, Status
<1>3. /\ \A s \in Reqs : s # r => status'[s] = status[s] /\ id'[s] = id[s]
      /\ status'[r] = "numbered" /\ id'[r] = NextId
  BY <1>1 DEF TypeOK
<1>4. \A i \in DOMAIN q.time : q.time[i].msg \in Reqs /\ q.time[i].msg # r
  BY <1>1, NodeFacts DEF NodesMatchRequests
<1>5. NodesMatchRequests'
  BY <1>1, <1>3, <1>4 DEF NodesMatchRequests
<1>6. PoppedIsPrefix' /\ FirstIsExact'
  BY <1>1 DEF PoppedIsPrefix, FirstIsExact
<1>7. \A a \in wire : a.msg \in Reqs /\ a.msg # r
  BY <1>1 DEF TypeOK, IdsAreNotShared
<1>8. IdsAreNotShared'
  BY <1>1, <1>3, <1>7 DEF IdsAreNotShared, IdIsFree
<1>9. TicketsIncrease' /\ AnswerToItsRequest'
  BY <1>1 DEF TicketsIncrease, AnswerToItsRequest
<1> QED BY <1>2, <1>5, <1>6, <1>8, <1>9 DEF IndInv

(* push keeps the invariant, also when its id is refused.                  *)
LEMMA PushStep ==
  ASSUME IndInv, NEW r \in Reqs, push(r)
  PROVE  IndInv'
<1> DEFINE n == Len(q.time)
<1>1. /\ TypeOK /\ NodesMatchRequests /\ PoppedIsPrefix /\ FirstIsExact
      /\ IdsAreNotShared /\ TicketsIncrease /\ AnswerToItsRequest
      /\ status[r] = "numbered" /\ id[r] \in IdRange
      /\ UNCHANGED <<uniqId, id, wire, answer>>
  BY DEF IndInv, push, TypeOK
<1>2. /\ q.time \in Seq(NodeType) /\ n \in Nat /\ DOMAIN q.time = 1 .. n
      /\ \A i \in 1 .. n : q.time[i] \in NodeType /\ q.time[i].msg \in Reqs
  BY <1>1, NodeFacts
<1>3. \A i \in 1 .. n : q.time[i].msg # r /\ q.time[i].id # id[r]
  BY <1>1, <1>2 DEF NodesMatchRequests, IdsAreNotShared
<1>4. id[r] \notin Ids(q)
  BY <1>2, <1>3 DEF Ids
<1>5. /\ q' \in Pushed(q, id[r], r)
      /\ status' = [status EXCEPT ![r] = "queued"]
      /\ accepted' = accepted + 1
      /\ ticket' = [ticket EXCEPT ![r] = accepted + 1]
  BY <1>4 DEF push
<1>6. PICK f \in {id[r], Dangling, q.first} :
        /\ q' = [time |-> Append(q.time, Node(id[r], r)), first |-> f]
        /\ q.first = End => f = id[r]
        /\ q.first # End /\ q.first # Dangling => f = q.first
  BY <1>5 DEF Pushed
<1>7. Node(id[r], r) \in NodeType
  BY <1>1, TimeoutAssumption DEF Node, NodeType
<1>8. /\ q'.time \in Seq(NodeType) /\ Len(q'.time) = n + 1
      /\ DOMAIN q'.time = 1 .. n + 1 /\ q'.first = f
      /\ \A i \in 1 .. n : q'.time[i] = q.time[i]
      /\ q'.time[n + 1] = Node(id[r], r)
  BY <1>2, <1>6, <1>7, AppendProperties, LenProperties
<1>9. /\ q'.time[n + 1].id = id[r] /\ q'.time[n + 1].msg = r
      /\ q'.time[n + 1].popped = FALSE
  BY <1>8 DEF Node
<1>10. TypeOK'
  <2>1. q' \in [time : Seq(NodeType), first : IdRange \cup {End, Dangling}]
    BY <1>1, <1>6, <1>8 DEF TypeOK
  <2> QED BY <1>1, <1>5, <2>1 DEF TypeOK, Status
<1>11. /\ \A s \in Reqs : s # r => status'[s] = status[s] /\ ticket'[s] = ticket[s]
       /\ status'[r] = "queued" /\ ticket'[r] = accepted + 1
  BY <1>1, <1>5 DEF TypeOK
<1>12. NodesMatchRequests'
  <2>1. \A i, j \in 1 .. n + 1 : q'.time[i].id = q'.time[j].id => i = j
    <3> SUFFICES ASSUME NEW i \in 1 .. n + 1, NEW j \in 1 .. n + 1, i # j
                 PROVE  q'.time[i].id # q'.time[j].id
      OBVIOUS
    <3>1. CASE i = n + 1
      <4>1. j \in 1 .. n
        BY <1>2, <3>1
      <4> QED BY <1>3, <1>8, <1>9, <3>1, <4>1
    <3>2. CASE j = n + 1
      <4>1. i \in 1 .. n
        BY <1>2, <3>2
      <4> QED BY <1>3, <1>8, <1>9, <3>2, <4>1
    <3>3. CASE i # n + 1 /\ j # n + 1
      <4>1. i \in 1 .. n /\ j \in 1 .. n
        BY <1>2, <3>3
      <4> QED BY <1>2, <1>8, <4>1, NodesAreDistinct
    <3> QED BY <3>1, <3>2, <3>3
  <2>2. ASSUME NEW i \in 1 .. n + 1
        PROVE  /\ id'[q'.time[i].msg] = q'.time[i].id
               /\ status'[q'.time[i].msg] = IF q'.time[i].popped THEN "sent" ELSE "queued"
    <3>1. CASE i = n + 1
      BY <1>1, <1>9, <1>11, <3>1
    <3>2. CASE i # n + 1
      <4>1. i \in 1 .. n
        BY <1>2, <3>2
      <4>2. /\ id[q.time[i].msg] = q.time[i].id
            /\ status[q.time[i].msg] = IF q.time[i].popped THEN "sent" ELSE "queued"
        BY <1>1, <1>2, <4>1 DEF NodesMatchRequests
      <4>3. id'[q.time[i].msg] = id[q.time[i].msg]
        BY <1>1
      <4>4. status'[q.time[i].msg] = status[q.time[i].msg]
        BY <1>2, <1>3, <1>11, <4>1
      <4>5. q'.time[i] = q.time[i]
        BY <1>8, <4>1
      <4> QED BY <4>2, <4>3, <4>4, <4>5
    <3> QED BY <3>1, <3>2
  <2>3. ASSUME NEW s \in Reqs, status'[s] \in {"queued", "sent"}
        PROVE  \E i \in 1 .. n + 1 : q'.time[i].msg = s
    <3>1. CASE s = r
      <4>1. n + 1 \in 1 .. n + 1
        BY <1>2
      <4> QED BY <1>9, <3>1, <4>1
    <3>2. CASE s # r
      <4>1. PICK i \in 1 .. n : q.time[i].msg = s
        BY <1>1, <1>2, <1>11, <2>3, <3>2 DEF NodesMatchRequests
      <4>2. i \in 1 .. n + 1
        BY <1>2, <4>1
      <4> QED BY <1>8, <4>1, <4>2
    <3> QED BY <3>1, <3>2
  <2> QED BY <1>8, <2>1, <2>2, <2>3 DEF NodesMatchRequests
<1>13. PoppedIsPrefix'
  BY <1>1, <1>2, <1>8, <1>9 DEF PoppedIsPrefix
<1>14. FirstIsExact'
  <2> SUFFICES ASSUME q'.time # <<>>, q'.time[1].popped
               PROVE  \E i \in 1 .. n + 1 : /\ q'.first = q'.time[i].id
                                            /\ ~q'.time[i].popped
                                            /\ \A j \in 1 .. i - 1 : q'.time[j].popped
    BY <1>8 DEF FirstIsExact
  <2>1. n # 0 /\ q.time # <<>> /\ q.time[1].popped
    BY <1>2, <1>8, <1>9
  <2>2. CASE q.first = End /\ \A i \in 1 .. n : q.time[i].popped
    <3>1. n + 1 \in 1 .. n + 1
      BY <1>2
    <3> QED BY <1>2, <1>6, <1>8, <1>9, <2>2, <3>1
  <2>3. CASE \E i \in 1 .. n : /\ q.first = q.time[i].id
                               /\ ~q.time[i].popped
                               /\ \A j \in 1 .. i - 1 : q.time[j].popped
    <3>1. PICK i \in 1 .. n : /\ q.first = q.time[i].id
                              /\ ~q.time[i].popped
                              /\ \A j \in 1 .. i - 1 : q.time[j].popped
      BY <2>3
    <3>2. q.first \in Nat /\ q.first # End /\ q.first # Dangling
      BY <1>2, <3>1, MaxIdAssumption DEF NodeType, IdRange, End, Dangling
    <3>3. i \in 1 .. n + 1 /\ \A j \in 1 .. i - 1 : j \in 1 .. n
      BY <1>2
    <3> QED BY <1>6, <1>8, <3>1, <3>2, <3>3
  <2> QED BY <1>1, <1>2, <2>1, <2>2, <2>3 DEF FirstIsExact
<1>15. IdsAreNotShared'
  <2>1. \A a \in wire : a.msg \in Reqs /\ a.msg # r
    BY <1>1 DEF TypeOK, IdsAreNotShared
  <2> QED BY <1>1, <1>11, <2>1 DEF IdsAreNotShared
<1>16. TicketsIncrease'
  <2>1. accepted \in Nat /\ ticket \in [Reqs -> Nat]
        /\ \A s \in Reqs : ticket[s] <= accepted
    BY <1>1 DEF TypeOK, TicketsIncrease
  <2>2. ASSUME NEW i \in 1 .. n + 1, NEW j \in 1 .. n + 1, i < j
        PROVE  ticket'[q'.time[i].msg] < ticket'[q'.time[j].msg]
    <3>1. i \in 1 .. n
      BY <1>2, <2>2
    <3>2. ticket'[q'.time[i].msg] = ticket[q.time[i].msg]
      BY <1>2, <1>3, <1>8, <1>11, <3>1
    <3>3. CASE j = n + 1
      BY <1>2, <1>9, <1>11, <2>1, <3>1, <3>2, <3>3
    <3>4. CASE j # n + 1
      <4>1. j \in 1 .. n
        BY <1>2, <3>4
      <4> QED BY <1>1, <1>2, <1>3, <1>8, <1>11, <2>2, <3>1, <3>2, <4>1 DEF TicketsIncrease
    <3> QED BY <3>3, <3>4
  <2>3. \A s \in Reqs : ticket'[s] <= accepted'
    BY <1>5, <1>11, <2>1
  <2> QED BY <1>8, <2>2, <2>3 DEF TicketsIncrease
<1>17. AnswerToItsRequest'
  BY <1>1 DEF AnswerToItsRequest
<1> QED BY <1>10, <1>12, <1>13, <1>14, <1>15, <1>16, <1>17 DEF IndInv

(* Where pop and swap start: the oldest node that waits.                   *)
LEMMA PopTarget ==
  ASSUME IndInv, CanPop(q)
  PROVE  /\ PopSafe(q)
         /\ PopPos(q) \in 1 .. Len(q.time)
         /\ ~q.time[PopPos(q)].popped
         /\ \A j \in 1 .. PopPos(q) - 1 : q.time[j].popped
         /\ \A j \in PopPos(q) .. Len(q.time) : ~q.time[j].popped
<1> DEFINE n == Len(q.time)
           p == PopPos(q)
<1>1. /\ q.time # <<>> /\ (q.time[1].popped => q.first # End)
      /\ PoppedIsPrefix /\ FirstIsExact /\ TypeOK
  BY DEF IndInv, CanPop
<1>2. /\ n \in Nat /\ DOMAIN q.time = 1 .. n /\ n # 0
      /\ \A i \in 1 .. n : q.time[i].id \in IdRange /\ q.time[i].popped \in BOOLEAN
  BY <1>1, NodeFacts, EmptySeq
<1>3. CASE ~q.time[1].popped
  <2>1. p = 1
    BY <1>3 DEF PopPos
  <2>2. \A j \in 1 .. n : ~q.time[j].popped
    BY <1>1, <1>2, <1>3 DEF PoppedIsPrefix
  <2> QED BY <1>1, <1>2, <1>3, <2>1, <2>2 DEF PopSafe
<1>4. CASE q.time[1].popped
  <2>1. PICK i \in 1 .. n : /\ q.first = q.time[i].id
                            /\ ~q.time[i].popped
                            /\ \A j \in 1 .. i - 1 : q.time[j].popped
    BY <1>1, <1>2, <1>4 DEF FirstIsExact
  <2>2. q.first \in Ids(q)
    BY <1>2, <2>1 DEF Ids
  <2>3. p \in 1 .. n /\ q.time[p].id = q.time[i].id
    BY <1>2, <1>4, <2>1, <2>2, PosOfId DEF PopPos
  <2>4. p = i
    BY <1>2, <2>3, NodesAreDistinct
  <2>5. \A j \in i .. n : ~q.time[j].popped
    BY <1>1, <1>2, <2>1 DEF PoppedIsPrefix
  <2> QED BY <2>1, <2>2, <2>3, <2>4, <2>5 DEF PopSafe
<1> QED BY <1>2, <1>3, <1>4

(* pop keeps the invariant.                                                *)
LEMMA PopStep ==
  ASSUME IndInv, pop
  PROVE  IndInv'
<1> DEFINE n == Len(q.time)
           p == PopPos(q)
           r == q.time[p].msg
<1>1. /\ TypeOK /\ NodesMatchRequests /\ PoppedIsPrefix /\ FirstIsExact
      /\ IdsAreNotShared /\ TicketsIncrease /\ AnswerToItsRequest
      /\ UNCHANGED <<uniqId, id, answer, ticket, accepted>>
      /\ q' = Popped(q) /\ CanPop(q)
      /\ status' = [status EXCEPT ![r] = "sent"]
      /\ wire' = wire \cup {[id |-> q.time[p].id, msg |-> r]}
  BY DEF IndInv, pop
<1>2. /\ p \in 1 .. n /\ ~q.time[p].popped
      /\ \A j \in 1 .. p - 1 : q.time[j].popped
      /\ \A j \in p .. n : ~q.time[j].popped
  BY <1>1, PopTarget
<1>3. /\ q.time \in Seq(NodeType) /\ n \in Nat /\ DOMAIN q.time = 1 .. n
      /\ \A i \in 1 .. n : /\ q.time[i] \in NodeType /\ q.time[i].msg \in Reqs
                           /\ q.time[i].id \in IdRange /\ q.time[i].popped \in BOOLEAN
  BY <1>1, NodeFacts
<1>4. /\ q'.time = [q.time EXCEPT ![p] = [q.time[p] EXCEPT !.popped = TRUE]]
      /\ q' = [time |-> q'.time, first |-> q'.first]
      /\ q'.first = IF p = n THEN End ELSE q.time[p + 1].id
  BY <1>1 DEF Popped
<1> HIDE DEF p
<1>5. [q.time[p] EXCEPT !.popped = TRUE] \in NodeType
  BY <1>2, <1>3 DEF NodeType
<1>6. q'.time \in Seq(NodeType) /\ Len(q'.time) = n /\ DOMAIN q'.time = 1 .. n
  <2>1. q'.time \in Seq(NodeType) /\ Len(q'.time) = n
    BY <1>2, <1>3, <1>4, <1>5, ExceptSeq
  <2> QED BY <2>1, LenProperties
<1>7. /\ \A i \in 1 .. n : i # p => q'.time[i] = q.time[i]
      /\ q'.time[p].id = q.time[p].id /\ q'.time[p].msg = r /\ q'.time[p].popped
  <2>1. \A i \in 1 .. n : q'.time[i] = IF i = p THEN [q.time[p] EXCEPT !.popped = TRUE]
                                              ELSE q.time[i]
    BY <1>3, <1>4
  <2>2. q'.time[p] = [q.time[p] EXCEPT !.popped = TRUE]
    BY <1>2, <2>1
  <2>3. \A x \in NodeType : LET y == [x EXCEPT !.popped = TRUE]
                           IN  y.id = x.id /\ y.msg = x.msg /\ y.popped
    BY DEF NodeType
  <2> QED BY <1>2, <1>3, <2>1, <2>2, <2>3
<1>8. q'.first \in IdRange \cup {End, Dangling}
  <2>1. CASE p = n
    BY <1>4, <2>1
  <2>2. CASE p # n
    <3>1. p + 1 \in 1 .. n
      BY <1>2, <1>3, <2>2
    <3> QED BY <1>3, <1>4, <2>2, <3>1
  <2> QED BY <2>1, <2>2
<1>9. r \in Reqs /\ id[r] = q.time[p].id /\ status[r] = "queued"
  BY <1>1, <1>2, <1>3 DEF NodesMatchRequests
<1>10. /\ \A s \in Reqs : s # r => status'[s] = status[s]
       /\ status'[r] = "sent"
  BY <1>1, <1>9 DEF TypeOK
<1>11. \A i \in 1 .. n : i # p => q.time[i].msg # r
  BY <1>2, <1>3, NodesAreDistinct
<1>12. TypeOK'
  <2>1. q' \in [time : Seq(NodeType), first : IdRange \cup {End, Dangling}]
    BY <1>4, <1>6, <1>8
  <2>2. wire' \subseteq [id : IdRange, msg : Reqs]
    BY <1>1, <1>2, <1>3, <1>9 DEF TypeOK
  <2> QED BY <1>1, <1>9, <2>1, <2>2 DEF TypeOK, Status
<1>13. NodesMatchRequests'
  <2>1. \A i \in 1 .. n : q'.time[i].id = q.time[i].id /\ q'.time[i].msg = q.time[i].msg
    BY <1>2, <1>7
  <2>2. \A i, j \in 1 .. n : q'.time[i].id = q'.time[j].id => i = j
    BY <1>1, <1>3, <2>1 DEF NodesMatchRequests
  <2>3. ASSUME NEW i \in 1 .. n
        PROVE  /\ id'[q'.time[i].msg] = q'.time[i].id
               /\ status'[q'.time[i].msg] = IF q'.time[i].popped THEN "sent" ELSE "queued"
    <3>1. CASE i = p
      BY <1>1, <1>7, <1>9, <1>10, <3>1
    <3>2. CASE i # p
      BY <1>1, <1>3, <1>7, <1>10, <1>11, <3>2 DEF NodesMatchRequests
    <3> QED BY <3>1, <3>2
  <2>4. ASSUME NEW s \in Reqs, status'[s] \in {"queued", "sent"}
        PROVE  \E i \in 1 .. n : q'.time[i].msg = s
    <3>1. status[s] \in {"queued", "sent"}
      BY <1>9, <1>10, <2>4
    <3>2. PICK i \in 1 .. n : q.time[i].msg = s
      BY <1>1, <1>3, <3>1 DEF NodesMatchRequests
    <3> QED BY <2>1, <3>2
  <2> QED BY <1>6, <2>2, <2>3, <2>4 DEF NodesMatchRequests
<1>14. PoppedIsPrefix'
  <2> SUFFICES ASSUME NEW i \in 1 .. n, NEW j \in 1 .. n, i < j, q'.time[j].popped
               PROVE  q'.time[i].popped
    BY <1>6 DEF PoppedIsPrefix
  <2>1. j <= p
    BY <1>2, <1>3, <1>7
  <2>2. i \in 1 .. p - 1
    BY <1>2, <1>3, <2>1
  <2> QED BY <1>2, <1>3, <1>7, <2>2
<1>15. FirstIsExact'
  <2>1. \A j \in 1 .. p : q'.time[j].popped
    BY <1>2, <1>3, <1>7
  <2>2. CASE p = n
    BY <1>4, <1>6, <2>1, <2>2 DEF FirstIsExact
  <2>3. CASE p # n
    <3>1. p + 1 \in 1 .. n /\ p + 1 # p /\ p + 1 \in p .. n
      BY <1>2, <1>3, <2>3
    <3>2. /\ q'.first = q'.time[p + 1].id /\ ~q'.time[p + 1].popped
          /\ \A j \in 1 .. (p + 1) - 1 : q'.time[j].popped
      BY <1>2, <1>3, <1>4, <1>7, <2>1, <2>3, <3>1
    <3> QED BY <1>6, <3>1, <3>2 DEF FirstIsExact
  <2> QED BY <2>2, <2>3
<1>16. IdsAreNotShared'
  <2> DEFINE open == {"numbered", "queued", "sent"}
  <2>1. \A s \in Reqs : status'[s] \in open <=> status[s] \in open
    BY <1>9, <1>10
  <2>2. \A a \in wire : a.msg \in Reqs /\ a.msg # r
    BY <1>1, <1>9 DEF TypeOK, IdsAreNotShared
  <2>3. \A a \in wire' : id'[a.msg] = a.id /\ status'[a.msg] \in {"sent", "expired"}
    BY <1>1, <1>9, <1>10, <2>2 DEF IdsAreNotShared
  <2>4. \A a \in wire', s \in Reqs :
          status'[s] \in open /\ id'[s] = a.id => s = a.msg
    BY <1>1, <1>9, <2>1 DEF IdsAreNotShared
  <2>5. \A t, s \in Reqs : status'[t] \in open /\ status'[s] \in open /\ id'[t] = id'[s]
                             => t = s
    BY <1>1, <2>1 DEF IdsAreNotShared
  <2> QED BY <2>3, <2>4, <2>5 DEF IdsAreNotShared
<1>17. TicketsIncrease'
  <2>1. \A i \in 1 .. n : q'.time[i].msg = q.time[i].msg
    BY <1>2, <1>7
  <2> QED BY <1>1, <1>3, <1>6, <2>1 DEF TicketsIncrease
<1>18. AnswerToItsRequest'
  BY <1>1 DEF AnswerToItsRequest
<1> QED BY <1>12, <1>13, <1>14, <1>15, <1>16, <1>17, <1>18 DEF IndInv

(***************************************************************************)
(* What get and timeout have in common: erasing a node that was popped, or *)
(* the head.  When the head waits, nothing has been popped, and it does    *)
(* not matter that _firstNoPopIter is left behind.                         *)
(***************************************************************************)
LEMMA RemovalKeepsOrder ==
  ASSUME IndInv, NEW p \in 1 .. Len(q.time), q' = Removed(q, p),
         q.time[p].popped \/ p = 1
  PROVE  /\ q' \in [time : Seq(NodeType), first : IdRange \cup {End, Dangling}]
         /\ DOMAIN q'.time = 1 .. Len(q.time) - 1
         /\ \A j \in 1 .. Len(q.time) - 1 :
              q'.time[j] = IF j < p THEN q.time[j] ELSE q.time[j + 1]
         /\ PoppedIsPrefix' /\ FirstIsExact'
<1> DEFINE n == Len(q.time)
<1>1. TypeOK /\ PoppedIsPrefix /\ FirstIsExact
  BY DEF IndInv
<1>2. /\ q.time \in Seq(NodeType) /\ n \in Nat /\ DOMAIN q.time = 1 .. n
      /\ q.first \in IdRange \cup {End, Dangling}
      /\ \A i \in 1 .. n : q.time[i].id \in IdRange /\ q.time[i].popped \in BOOLEAN
  BY <1>1, NodeFacts
<1>3. /\ q'.time \in Seq(NodeType) /\ Len(q'.time) = n - 1
      /\ \A j \in 1 .. n - 1 :
           q'.time[j] = IF j < p THEN q.time[j] ELSE q.time[j + 1]
  BY <1>2, RemovedNodes
<1>4. /\ q'.first = IF q.first = q.time[p].id THEN Dangling ELSE q.first
      /\ q' = [time |-> q'.time, first |-> q'.first]
  BY DEF Removed
<1>5. DOMAIN q'.time = 1 .. n - 1
  BY <1>3, LenProperties
<1>6. q' \in [time : Seq(NodeType), first : IdRange \cup {End, Dangling}]
  BY <1>2, <1>3, <1>4
<1>7. PoppedIsPrefix'
  <2> SUFFICES ASSUME NEW i \in 1 .. n - 1, NEW j \in 1 .. n - 1, i < j,
                      q'.time[j].popped
               PROVE  q'.time[i].popped
    BY <1>5 DEF PoppedIsPrefix
  <2> DEFINE i0 == IF i < p THEN i ELSE i + 1
             j0 == IF j < p THEN j ELSE j + 1
  <2>1. i0 \in 1 .. n /\ j0 \in 1 .. n /\ i0 < j0
    BY <1>2
  <2>2. q'.time[i] = q.time[i0] /\ q'.time[j] = q.time[j0]
    BY <1>3
  <2> QED BY <1>1, <1>2, <2>1, <2>2 DEF PoppedIsPrefix
<1>8. FirstIsExact'
  <2> SUFFICES ASSUME q'.time # <<>>, q'.time[1].popped
               PROVE  \/ q'.first = End /\ \A i \in 1 .. n - 1 : q'.time[i].popped
                      \/ \E i \in 1 .. n - 1 :
                           /\ q'.first = q'.time[i].id
                           /\ ~q'.time[i].popped
                           /\ \A j \in 1 .. i - 1 : q'.time[j].popped
    BY <1>5 DEF FirstIsExact
  <2>1. n >= 2
    BY <1>2, <1>3, EmptySeq
  <2>2. q.time # <<>> /\ q.time[1].popped /\ q.time[p].popped
    <3>1. CASE p = 1
      <4>1. q'.time[1] = q.time[2]
        BY <1>3, <2>1, <3>1
      <4>2. 1 \in 1 .. n /\ 2 \in 1 .. n
        BY <1>2, <2>1
      <4> QED BY <1>1, <1>2, <2>1, <3>1, <4>1, <4>2, EmptySeq DEF PoppedIsPrefix
    <3>2. CASE p # 1
      BY <1>2, <1>3, <2>1, <3>2, EmptySeq
    <3> QED BY <3>1, <3>2
  <2>3. CASE q.first = End /\ \A i \in 1 .. n : q.time[i].popped
    <3>1. q'.first = End
      BY <1>2, <1>4, <2>3, MaxIdAssumption DEF IdRange, End
    <3>2. ASSUME NEW i \in 1 .. n - 1
          PROVE  q'.time[i].popped
      <4>1. i \in 1 .. n /\ i + 1 \in 1 .. n
        BY <1>2
      <4>2. q'.time[i] = q.time[i] \/ q'.time[i] = q.time[i + 1]
        BY <1>3
      <4> QED BY <2>3, <4>1, <4>2
    <3> QED BY <3>1, <3>2
  <2>4. CASE \E i \in 1 .. n : /\ q.first = q.time[i].id
                               /\ ~q.time[i].popped
                               /\ \A j \in 1 .. i - 1 : q.time[j].popped
    <3>1. PICK i \in 1 .. n : /\ q.first = q.time[i].id
                              /\ ~q.time[i].popped
                              /\ \A j \in 1 .. i - 1 : q.time[j].popped
      BY <2>4
    <3>2. i # p /\ i > p
      BY <1>1, <1>2, <2>2, <3>1 DEF PoppedIsPrefix
    <3>3. q.time[p].id # q.first
      BY <1>2, <3>1, <3>2, NodesAreDistinct
    <3>4. /\ i - 1 \in 1 .. n - 1
          /\ q'.time[i - 1] = q.time[i]
      <4>1. i - 1 \in 1 .. n - 1 /\ ~(i - 1 < p) /\ (i - 1) + 1 = i
        BY <1>2, <3>2
      <4> QED BY <1>3, <4>1
    <3>5. \A j \in 1 .. (i - 1) - 1 : q'.time[j].popped
      <4> SUFFICES ASSUME NEW j \in 1 .. (i - 1) - 1
                   PROVE  q'.time[j].popped
        OBVIOUS
      <4>1. j \in 1 .. n - 1 /\ j \in 1 .. i - 1 /\ j + 1 \in 1 .. i - 1
        BY <1>2
      <4> QED BY <1>3, <3>1, <4>1
    <3> QED BY <1>4, <3>1, <3>3, <3>4, <3>5
  <2> QED BY <1>1, <1>2, <2>2, <2>3, <2>4 DEF FirstIsExact
<1> QED BY <1>3, <1>5, <1>6, <1>7, <1>8

(* The nodes that are left are those of the other requests.                *)
LEMMA RemovalKeepsNodes ==
  ASSUME IndInv, NEW p \in 1 .. Len(q.time), q' = Removed(q, p),
         q.time[p].popped \/ p = 1,
         NEW over \in {"answered", "expired"},
         status' = [status EXCEPT ![q.time[p].msg] = over],
         UNCHANGED <<id, ticket, accepted>>
  PROVE  NodesMatchRequests' /\ TicketsIncrease'
<1> DEFINE n == Len(q.time)
           r == q.time[p].msg
<1>1. TypeOK /\ NodesMatchRequests /\ TicketsIncrease
  BY DEF IndInv
<1>2. /\ n \in Nat /\ DOMAIN q.time = 1 .. n
      /\ \A i \in 1 .. n : q.time[i].msg \in Reqs
  BY <1>1, NodeFacts
<1>3. /\ DOMAIN q'.time = 1 .. n - 1
      /\ \A j \in 1 .. n - 1 :
           q'.time[j] = IF j < p THEN q.time[j] ELSE q.time[j + 1]
  BY RemovalKeepsOrder
<1> DEFINE old(j) == IF j < p THEN j ELSE j + 1
<1>4. \A j \in 1 .. n - 1 : /\ old(j) \in 1 .. n /\ old(j) # p
                            /\ q'.time[j] = q.time[old(j)]
  BY <1>2, <1>3
<1>5. \A i, j \in 1 .. n - 1 : /\ old(i) = old(j) => i = j
                               /\ i < j => old(i) < old(j)
  BY <1>2
<1>6. \A k \in 1 .. n : k # p => \E j \in 1 .. n - 1 : old(j) = k
  <2> SUFFICES ASSUME NEW k \in 1 .. n, k # p
               PROVE  \E j \in 1 .. n - 1 : old(j) = k
    OBVIOUS
  <2>1. CASE k < p
    <3>1. k \in 1 .. n - 1
      BY <1>2, <2>1
    <3> QED BY <2>1, <3>1
  <2>2. CASE k > p
    <3>1. k - 1 \in 1 .. n - 1 /\ ~(k - 1 < p) /\ (k - 1) + 1 = k
      BY <1>2, <2>2
    <3> QED BY <3>1
  <2> QED BY <1>2, <2>1, <2>2
<1> HIDE DEF old
<1>7. /\ r \in Reqs /\ status'[r] = over
      /\ \A s \in Reqs : s # r => status'[s] = status[s]
  BY <1>1, <1>2 DEF TypeOK
<1>8. \A i \in 1 .. n : i # p => q.time[i].msg # r
  BY <1>2, NodesAreDistinct
<1>9. NodesMatchRequests'
  <2>1. \A i, j \in 1 .. n - 1 : q'.time[i].id = q'.time[j].id => i = j
    <3> SUFFICES ASSUME NEW i \in 1 .. n - 1, NEW j \in 1 .. n - 1, i # j
                 PROVE  q'.time[i].id # q'.time[j].id
      OBVIOUS
    <3>1. old(i) \in 1 .. n /\ old(j) \in 1 .. n /\ old(i) # old(j)
      BY <1>4, <1>5
    <3> QED BY <1>2, <1>4, <3>1, NodesAreDistinct
  <2>2. ASSUME NEW i \in 1 .. n - 1
        PROVE  /\ id'[q'.time[i].msg] = q'.time[i].id
               /\ status'[q'.time[i].msg] = IF q'.time[i].popped THEN "sent" ELSE "queued"
    BY <1>1, <1>2, <1>4, <1>7, <1>8 DEF NodesMatchRequests
  <2>3. ASSUME NEW s \in Reqs, status'[s] \in {"queued", "sent"}
        PROVE  \E i \in 1 .. n - 1 : q'.time[i].msg = s
    <3>1. s # r /\ status[s] \in {"queued", "sent"}
      BY <1>7, <2>3
    <3>2. PICK k \in 1 .. n : q.time[k].msg = s
      BY <1>1, <1>2, <3>1 DEF NodesMatchRequests
    <3>3. k # p
      BY <3>1, <3>2
    <3>4. PICK j \in 1 .. n - 1 : old(j) = k
      BY <1>6, <3>3
    <3> QED BY <1>4, <3>2, <3>4
  <2> QED BY <1>3, <2>1, <2>2, <2>3 DEF NodesMatchRequests
<1>10. TicketsIncrease'
  <2>1. ASSUME NEW i \in 1 .. n - 1, NEW j \in 1 .. n - 1, i < j
        PROVE  ticket'[q'.time[i].msg] < ticket'[q'.time[j].msg]
    <3>1. old(i) \in 1 .. n /\ old(j) \in 1 .. n /\ old(i) < old(j)
      BY <1>4, <1>5, <2>1
    <3> QED BY <1>1, <1>2, <1>4, <3>1 DEF TicketsIncrease
  <2>2. \A s \in Reqs : ticket'[s] <= accepted'
    BY <1>1 DEF TicketsIncrease
  <2> QED BY <1>3, <2>1, <2>2 DEF TicketsIncrease
<1> QED BY <1>9, <1>10

(* timeout keeps the invariant: it erases the head.                        *)
LEMMA TimeoutStep ==
  ASSUME IndInv, timeout
  PROVE  IndInv'
<1> DEFINE r == q.time[1].msg
<1>1. /\ TypeOK /\ IdsAreNotShared /\ TicketsIncrease /\ AnswerToItsRequest
      /\ NodesMatchRequests
      /\ UNCHANGED <<uniqId, id, wire, answer, ticket, accepted>>
      /\ q' = Removed(q, 1) /\ q.time # <<>>
      /\ status' = [status EXCEPT ![r] = "expired"]
  BY DEF IndInv, timeout, HeadExpired
<1>2. 1 \in 1 .. Len(q.time) /\ 1 \in DOMAIN q.time /\ r \in Reqs
  BY <1>1, NodeFacts, EmptySeq
<1>3. /\ q' \in [time : Seq(NodeType), first : IdRange \cup {End, Dangling}]
      /\ PoppedIsPrefix' /\ FirstIsExact'
  BY <1>1, <1>2, RemovalKeepsOrder
<1>4. NodesMatchRequests' /\ TicketsIncrease'
  BY <1>1, <1>2, RemovalKeepsNodes
<1>5. /\ \A s \in Reqs : s # r => status'[s] = status[s]
      /\ status'[r] = "expired" /\ status[r] \in {"queued", "sent"}
  BY <1>1, <1>2 DEF TypeOK, NodesMatchRequests
<1>6. TypeOK'
  BY <1>1, <1>2, <1>3 DEF TypeOK, Status
<1>7. IdsAreNotShared'
  <2>1. \A a \in wire : a.msg \in Reqs
    BY <1>1 DEF TypeOK
  <2> QED BY <1>1, <1>2, <1>5, <2>1 DEF IdsAreNotShared
<1>8. AnswerToItsRequest'
  BY <1>1 DEF AnswerToItsRequest
<1> QED BY <1>3, <1>4, <1>6, <1>7, <1>8 DEF IndInv

(* The node an answer's id finds is the request the answer is for, and it  *)
(* was popped.                                                             *)
LEMMA AnswerFindsItsRequest ==
  ASSUME IndInv, NEW a \in wire, a.id \in Ids(q)
  PROVE  /\ Pos(q, a.id) \in 1 .. Len(q.time)
         /\ q.time[Pos(q, a.id)].popped
         /\ Msg(q, a.id) = a.msg /\ a.msg \in Reqs /\ status[a.msg] = "sent"
<1> DEFINE p == Pos(q, a.id)
<1>1. /\ TypeOK /\ NodesMatchRequests /\ IdsAreNotShared
      /\ a.msg \in Reqs
  BY DEF IndInv, TypeOK
<1>2. p \in DOMAIN q.time /\ p \in 1 .. Len(q.time) /\ q.time[p].id = a.id
  BY <1>1, PosOfId, NodeFacts
<1>3. q.time[p].msg \in Reqs /\ q.time[p].popped \in BOOLEAN
  BY <1>1, <1>2, NodeFacts
<1>4. q.time[p].msg = a.msg
  BY <1>1, <1>2, <1>3 DEF NodesMatchRequests, IdsAreNotShared
<1>5. status[a.msg] \in {"sent", "expired"}
  BY <1>1 DEF IdsAreNotShared
<1>6. status[a.msg] = "sent" /\ q.time[p].popped
  BY <1>1, <1>2, <1>3, <1>4, <1>5 DEF NodesMatchRequests
<1> QED BY <1>1, <1>2, <1>4, <1>6 DEF Msg

(* get keeps the invariant: it erases the node of the id, and only that.   *)
LEMMA GetStep ==
  ASSUME IndInv, NEW a \in wire, get(a)
  PROVE  IndInv'
<1> DEFINE r == a.msg
<1>1. /\ TypeOK /\ NodesMatchRequests /\ PoppedIsPrefix /\ FirstIsExact
      /\ IdsAreNotShared /\ TicketsIncrease /\ AnswerToItsRequest
      /\ UNCHANGED <<uniqId, id, ticket, accepted>>
      /\ wire' = wire \ {a} /\ r \in Reqs
      /\ \A b \in wire : b = [id |-> b.id, msg |-> b.msg] /\ b.msg \in Reqs
  BY DEF IndInv, get, TypeOK
<1>2. CASE a.id \notin Ids(q)
  <2>1. UNCHANGED <<q, status, answer>>
    BY <1>2 DEF get
  <2>2. TypeOK'
    BY <1>1, <2>1 DEF TypeOK
  <2>3. NodesMatchRequests' /\ PoppedIsPrefix' /\ FirstIsExact'
    BY <1>1, <2>1 DEF NodesMatchRequests, PoppedIsPrefix, FirstIsExact
  <2>4. IdsAreNotShared' /\ TicketsIncrease' /\ AnswerToItsRequest'
    BY <1>1, <2>1 DEF IdsAreNotShared, TicketsIncrease, AnswerToItsRequest
  <2> QED BY <2>2, <2>3, <2>4 DEF IndInv
<1>3. CASE a.id \in Ids(q)
  <2> DEFINE p == Pos(q, a.id)
  <2>1. /\ p \in 1 .. Len(q.time) /\ q.time[p].popped
        /\ q.time[p].msg = r /\ status[r] = "sent" /\ Msg(q, a.id) = r
    BY <1>3, AnswerFindsItsRequest DEF Msg
  <2>2. /\ q' = Removed(q, p)
        /\ status' = [status EXCEPT ![r] = "answered"]
        /\ answer' = [answer EXCEPT ![r] = a.msg]
    BY <1>3, <2>1 DEF get, Taken
  <2>3. /\ q' \in [time : Seq(NodeType), first : IdRange \cup {End, Dangling}]
        /\ PoppedIsPrefix' /\ FirstIsExact'
    BY <2>1, <2>2, RemovalKeepsOrder
  <2>4. NodesMatchRequests' /\ TicketsIncrease'
    <3>1. status' = [status EXCEPT ![q.time[p].msg] = "answered"]
      BY <2>1, <2>2
    <3> HIDE DEF p
    <3> QED BY <1>1, <2>1, <2>2, <3>1, RemovalKeepsNodes
  <2>5. /\ \A s \in Reqs : s # r => status'[s] = status[s]
        /\ status'[r] = "answered"
    BY <1>1, <2>2 DEF TypeOK
  <2>6. TypeOK'
    BY <1>1, <2>2, <2>3 DEF TypeOK, Status
  <2>7. \A b \in wire : b # a => b.msg # r
    BY <1>1, <2>1 DEF IdsAreNotShared
  <2>8. IdsAreNotShared'
    BY <1>1, <2>1, <2>5, <2>7 DEF IdsAreNotShared
  <2>9. AnswerToItsRequest'
    BY <1>1, <2>2 DEF AnswerToItsRequest, TypeOK
  <2> QED BY <2>3, <2>4, <2>6, <2>8, <2>9 DEF IndInv
<1> QED BY <1>2, <1>3

(* Ageing touches nothing but ages.                                        *)
LEMMA TickStep ==
  ASSUME IndInv, Tick
  PROVE  IndInv'
<1> DEFINE n == Len(q.time)
           older(x) == [x EXCEPT !.age = IF @ > Timeout THEN @ ELSE @ + 1]
<1>1. /\ TypeOK /\ NodesMatchRequests /\ PoppedIsPrefix /\ FirstIsExact
      /\ IdsAreNotShared /\ TicketsIncrease /\ AnswerToItsRequest
      /\ UNCHANGED <<uniqId, id, status, wire, answer, ticket, accepted>>
      /\ q' = Aged(q, Timeout)
  BY DEF IndInv, Tick
<1>2. /\ q.time \in Seq(NodeType) /\ n \in Nat /\ DOMAIN q.time = 1 .. n
      /\ \A i \in 1 .. n : q.time[i] \in NodeType
  BY <1>1, NodeFacts
<1>3. \A x \in NodeType : /\ older(x) \in NodeType /\ older(x).id = x.id
                         /\ older(x).msg = x.msg /\ older(x).popped = x.popped
  BY TimeoutAssumption DEF NodeType
<1>4. /\ q'.time = [i \in 1 .. n |-> older(q.time[i])]
      /\ q' = [time |-> q'.time, first |-> q.first]
  <2>1. q = [time |-> q.time, first |-> q.first]
    BY <1>1 DEF TypeOK
  <2> QED BY <1>1, <1>2, <2>1 DEF Aged
<1> HIDE DEF older
<1>5. /\ q'.time \in Seq(NodeType) /\ DOMAIN q'.time = 1 .. n
      /\ \A i \in 1 .. n : /\ q'.time[i].id = q.time[i].id
                           /\ q'.time[i].msg = q.time[i].msg
                           /\ q'.time[i].popped = q.time[i].popped
  <2>1. \A i \in 1 .. n : older(q.time[i]) \in NodeType
    BY <1>2, <1>3
  <2>2. q'.time \in Seq(NodeType)
    BY <1>2, <1>4, <2>1, IsASeq
  <2> QED BY <1>2, <1>3, <1>4, <2>2
<1>6. TypeOK'
  <2>1. q' \in [time : Seq(NodeType), first : IdRange \cup {End, Dangling}]
    BY <1>1, <1>4, <1>5, NodeFacts
  <2> QED BY <1>1, <2>1 DEF TypeOK
<1>7. NodesMatchRequests'
  BY <1>1, <1>2, <1>5 DEF NodesMatchRequests
<1>8. PoppedIsPrefix'
  BY <1>1, <1>2, <1>5 DEF PoppedIsPrefix
<1>9. FirstIsExact'
  <2> SUFFICES ASSUME q'.time # <<>>, q'.time[1].popped
               PROVE  FirstIsExact'
    BY DEF FirstIsExact
  <2>1. 1 \in 1 .. n /\ q.time # <<>> /\ q.time[1].popped
    BY <1>2, <1>5, EmptySeq, LenProperties
  <2>2. q'.first = q.first
    BY <1>4
  <2>3. CASE q.first = End /\ \A i \in 1 .. n : q.time[i].popped
    BY <1>5, <2>2, <2>3 DEF FirstIsExact
  <2>4. CASE \E i \in 1 .. n : /\ q.first = q.time[i].id
                               /\ ~q.time[i].popped
                               /\ \A j \in 1 .. i - 1 : q.time[j].popped
    <3>1. PICK i \in 1 .. n : /\ q.first = q.time[i].id
                              /\ ~q.time[i].popped
                              /\ \A j \in 1 .. i - 1 : q.time[j].popped
      BY <2>4
    <3>2. \A j \in 1 .. i - 1 : j \in 1 .. n
      BY <1>2
    <3>3. /\ q'.first = q'.time[i].id /\ ~q'.time[i].popped
          /\ \A j \in 1 .. i - 1 : q'.time[j].popped
      BY <1>5, <2>2, <3>1, <3>2
    <3> QED BY <1>5, <3>3 DEF FirstIsExact
  <2> QED BY <1>1, <1>2, <2>1, <2>3, <2>4 DEF FirstIsExact
<1>10. IdsAreNotShared' /\ AnswerToItsRequest'
  BY <1>1 DEF IdsAreNotShared, AnswerToItsRequest
<1>11. TicketsIncrease'
  BY <1>1, <1>2, <1>5 DEF TicketsIncrease
<1> QED BY <1>6, <1>7, <1>8, <1>9, <1>10, <1>11 DEF IndInv

(* swap keeps the invariant: it pops everything that waits.                *)
LEMMA SwapStep ==
  ASSUME IndInv, swap
  PROVE  IndInv'
<1> DEFINE n == Len(q.time)
           p == PopPos(q)
           sent(x) == [x EXCEPT !.popped = TRUE]
           out == {q.time[i] : i \in p .. n}
<1>1. /\ TypeOK /\ NodesMatchRequests /\ PoppedIsPrefix /\ FirstIsExact
      /\ IdsAreNotShared /\ TicketsIncrease /\ AnswerToItsRequest
      /\ UNCHANGED <<uniqId, id, answer, ticket, accepted>>
      /\ q' = Swapped(q) /\ CanPop(q)
      /\ status' = [r \in Reqs |-> IF \E x \in out : x.msg = r
                                     THEN "sent" ELSE status[r]]
      /\ wire' = wire \cup {[id |-> x.id, msg |-> x.msg] : x \in out}
  BY DEF IndInv, swap
<1>2. /\ p \in 1 .. n /\ \A j \in 1 .. p - 1 : q.time[j].popped
      /\ \A j \in p .. n : ~q.time[j].popped
  BY <1>1, PopTarget
<1>3. /\ q.time \in Seq(NodeType) /\ n \in Nat /\ DOMAIN q.time = 1 .. n
      /\ \A i \in 1 .. n : /\ q.time[i] \in NodeType /\ q.time[i].msg \in Reqs
                           /\ q.time[i].id \in IdRange /\ q.time[i].popped \in BOOLEAN
  BY <1>1, NodeFacts
<1>4. \A x \in NodeType : /\ sent(x) \in NodeType /\ sent(x).id = x.id
                         /\ sent(x).msg = x.msg /\ sent(x).popped = TRUE
  BY DEF NodeType
<1>5. /\ q'.time = [i \in 1 .. n |-> IF i < p THEN q.time[i] ELSE sent(q.time[i])]
      /\ q' = [time |-> q'.time, first |-> End]
  BY <1>1, <1>3 DEF Swapped
<1> HIDE DEF p, sent
<1>6. /\ q'.time \in Seq(NodeType) /\ DOMAIN q'.time = 1 .. n
      /\ \A i \in 1 .. n : /\ q'.time[i].id = q.time[i].id
                           /\ q'.time[i].msg = q.time[i].msg
                           /\ q'.time[i].popped
  <2>1. \A i \in 1 .. n : (IF i < p THEN q.time[i] ELSE sent(q.time[i])) \in NodeType
    BY <1>3, <1>4
  <2>2. q'.time \in Seq(NodeType) /\ DOMAIN q'.time = 1 .. n
    BY <1>3, <1>5, <2>1, IsASeq
  <2>3. ASSUME NEW i \in 1 .. n
        PROVE  /\ q'.time[i].id = q.time[i].id
               /\ q'.time[i].msg = q.time[i].msg
               /\ q'.time[i].popped
    <3>1. CASE i < p
      <4>1. i \in 1 .. p - 1
        BY <1>2, <1>3, <3>1
      <4> QED BY <1>2, <1>5, <3>1, <4>1
    <3>2. CASE ~(i < p)
      BY <1>3, <1>4, <1>5, <3>2
    <3> QED BY <3>1, <3>2
  <2> QED BY <2>2, <2>3
<1>7. \A i \in 1 .. n : /\ i \in p .. n => q.time[i].msg \in {x.msg : x \in out}
                        /\ status'[q.time[i].msg] = "sent"
                        /\ status[q.time[i].msg] \in {"queued", "sent"}
  <2> SUFFICES ASSUME NEW i \in 1 .. n
               PROVE  /\ i \in p .. n => q.time[i].msg \in {x.msg : x \in out}
                      /\ status'[q.time[i].msg] = "sent"
                      /\ status[q.time[i].msg] \in {"queued", "sent"}
    OBVIOUS
  <2>1. status[q.time[i].msg] = IF q.time[i].popped THEN "sent" ELSE "queued"
    BY <1>1, <1>3 DEF NodesMatchRequests
  <2>2. CASE i \in p .. n
    BY <1>1, <1>3, <2>1, <2>2
  <2>3. CASE i \notin p .. n
    <3>1. i \in 1 .. p - 1
      BY <1>2, <1>3, <2>3
    <3>2. status[q.time[i].msg] = "sent"
      BY <1>2, <2>1, <3>1
    <3> QED BY <1>1, <1>3, <2>3, <3>2
  <2> QED BY <2>2, <2>3
<1>8. \A x \in out : /\ x \in NodeType /\ x.msg \in Reqs /\ x.id = id[x.msg]
                     /\ status'[x.msg] = "sent" /\ status[x.msg] = "queued"
  <2> SUFFICES ASSUME NEW i \in p .. n
               PROVE  /\ q.time[i] \in NodeType /\ q.time[i].msg \in Reqs
                      /\ q.time[i].id = id[q.time[i].msg]
                      /\ status'[q.time[i].msg] = "sent"
                      /\ status[q.time[i].msg] = "queued"
    OBVIOUS
  <2>1. i \in 1 .. n
    BY <1>2, <1>3
  <2> QED BY <1>1, <1>2, <1>3, <1>7, <2>1 DEF NodesMatchRequests
<1>9. \A r \in Reqs : \/ status'[r] = status[r]
                      \/ status[r] = "queued" /\ status'[r] = "sent"
  <2> SUFFICES ASSUME NEW r \in Reqs, \E x \in out : x.msg = r
               PROVE  status[r] = "queued" /\ status'[r] = "sent"
    BY <1>1
  <2> QED BY <1>8
<1>10. TypeOK'
  <2>1. q' \in [time : Seq(NodeType), first : IdRange \cup {End, Dangling}]
    BY <1>5, <1>6
  <2>2. {[id |-> x.id, msg |-> x.msg] : x \in out} \subseteq [id : IdRange, msg : Reqs]
    BY <1>8 DEF NodeType
  <2>3. status' \in [Reqs -> Status]
    BY <1>1, <1>9 DEF TypeOK, Status
  <2> QED BY <1>1, <2>1, <2>2, <2>3 DEF TypeOK
<1>11. NodesMatchRequests'
  <2>1. \A r \in Reqs : status'[r] \in {"queued", "sent"} => status[r] \in {"queued", "sent"}
    BY <1>9
  <2>2. \A i, j \in 1 .. n : q'.time[i].id = q'.time[j].id => i = j
    <3> SUFFICES ASSUME NEW i \in 1 .. n, NEW j \in 1 .. n, q'.time[i].id = q'.time[j].id
                 PROVE  i = j
      OBVIOUS
    <3>1. q.time[i].id = q.time[j].id
      BY <1>6
    <3>2. i \in DOMAIN q.time /\ j \in DOMAIN q.time
      BY <1>3
    <3> QED BY <1>1, <3>1, <3>2 DEF NodesMatchRequests
  <2>3. ASSUME NEW i \in 1 .. n
        PROVE  /\ id'[q'.time[i].msg] = q'.time[i].id
               /\ status'[q'.time[i].msg] = IF q'.time[i].popped THEN "sent" ELSE "queued"
    <3>1. id[q.time[i].msg] = q.time[i].id
      BY <1>1, <1>3 DEF NodesMatchRequests
    <3>2. /\ q'.time[i].msg = q.time[i].msg /\ q'.time[i].id = q.time[i].id
          /\ q'.time[i].popped
      BY <1>6
    <3>3. status'[q.time[i].msg] = "sent"
      BY <1>7
    <3> HIDE DEF out
    <3> QED BY <1>1, <3>1, <3>2, <3>3
  <2>4. \A r \in Reqs : status'[r] \in {"queued", "sent"}
                          => \E i \in 1 .. n : q'.time[i].msg = r
    BY <1>1, <1>3, <1>6, <2>1 DEF NodesMatchRequests
  <2> QED BY <1>6, <2>2, <2>3, <2>4 DEF NodesMatchRequests
<1>12. PoppedIsPrefix' /\ FirstIsExact'
  <2>1. q'.first = End
    BY <1>5
  <2>2. \A i \in 1 .. n : q'.time[i].popped
    BY <1>6
  <2>3. DOMAIN q'.time = 1 .. n
    BY <1>6
  <2>4. PoppedIsPrefix'
    BY <2>2, <2>3 DEF PoppedIsPrefix
  <2>5. FirstIsExact'
    BY <2>1, <2>2, <2>3 DEF FirstIsExact
  <2> QED BY <2>4, <2>5
<1>13. IdsAreNotShared'
  <2> DEFINE open == {"numbered", "queued", "sent"}
  <2>1. \A s \in Reqs : status'[s] \in open <=> status[s] \in open
    BY <1>9
  <2>2. \A a \in wire : a.msg \in Reqs
    BY <1>1 DEF TypeOK
  <2>3. \A a \in wire' : \/ a \in wire
                         \/ \E x \in out : a.id = x.id /\ a.msg = x.msg
    BY <1>1
  <2> HIDE DEF out
  <2>4. ASSUME NEW a \in wire'
        PROVE  id'[a.msg] = a.id /\ status'[a.msg] \in {"sent", "expired"}
    BY <1>1, <1>8, <1>9, <2>2, <2>3 DEF IdsAreNotShared
  <2>5. ASSUME NEW a \in wire', NEW s \in Reqs, status'[s] \in open, id'[s] = a.id
        PROVE  s = a.msg
    <3>1. CASE a \in wire
      BY <1>1, <2>1, <2>5, <3>1 DEF IdsAreNotShared
    <3>2. CASE \E x \in out : a.id = x.id /\ a.msg = x.msg
      BY <1>1, <1>8, <2>1, <2>5, <3>2 DEF IdsAreNotShared
    <3> QED BY <2>3, <3>1, <3>2
  <2>6. \A t, s \in Reqs : status'[t] \in open /\ status'[s] \in open /\ id'[t] = id'[s]
                             => t = s
    BY <1>1, <2>1 DEF IdsAreNotShared
  <2> QED BY <2>4, <2>5, <2>6 DEF IdsAreNotShared
<1>14. TicketsIncrease' /\ AnswerToItsRequest'
  BY <1>1, <1>3, <1>6 DEF TicketsIncrease, AnswerToItsRequest
<1> QED BY <1>10, <1>11, <1>12, <1>13, <1>14 DEF IndInv

(* IndInv is an invariant when no request brings an id of its own.         *)
THEOREM IndInvIsInvariant ==
  ASSUME FromRpc = {}
  PROVE  Spec => []IndInv
<1>1. IndInv /\ [Next]_vars => IndInv'
  <2> SUFFICES ASSUME IndInv, [Next]_vars
               PROVE  IndInv'
    OBVIOUS
  <2>1. CASE UNCHANGED vars
    <3> USE <2>1 DEF vars, IndInv
    <3>1. TypeOK'
      BY DEF TypeOK
    <3>2. NodesMatchRequests'
      BY DEF NodesMatchRequests
    <3>3. PoppedIsPrefix' /\ FirstIsExact'
      BY DEF PoppedIsPrefix, FirstIsExact
    <3>4. IdsAreNotShared' /\ TicketsIncrease' /\ AnswerToItsRequest'
      BY DEF IdsAreNotShared, TicketsIncrease, AnswerToItsRequest
    <3> QED BY <3>1, <3>2, <3>3, <3>4
  <2>2. ASSUME NEW r \in Reqs, generateId(r) PROVE IndInv'
    BY <2>2, GenerateIdStep
  <2>3. ASSUME NEW r \in Reqs, push(r) PROVE IndInv'
    BY <2>3, PushStep
  <2>4. ASSUME NEW r \in Reqs, rpcId(r) PROVE FALSE
    BY <2>4 DEF rpcId
  <2>5. CASE pop
    BY <2>5, PopStep
  <2>6. CASE swap
    BY <2>6, SwapStep
  <2>7. ASSUME NEW a \in wire, get(a) PROVE IndInv'
    BY <2>7, GetStep
  <2>8. CASE timeout
    BY <2>8, TimeoutStep
  <2>9. CASE Tick
    BY <2>9, TickStep
  <2> QED BY <2>1, <2>2, <2>3, <2>4, <2>5, <2>6, <2>7, <2>8, <2>9 DEF Next
<1> QED BY InitIndInv, <1>1, PTL DEF Spec

-----------------------------------------------------------------------------
(***************************************************************************)
(* What follows from the invariant.                                        *)
(***************************************************************************)

(* Type correctness.                                                       *)
THEOREM TypeCorrect ==
  ASSUME FromRpc = {}
  PROVE  Spec => []TypeOK
<1>1. IndInv => TypeOK
  BY DEF IndInv
<1> QED BY IndInvIsInvariant, <1>1, PTL

(* assert(it->hasPoped == false) in pop and swap never fails, and neither  *)
(* follows an erased or uninitialised iterator, although nothing but pop   *)
(* and push maintains _firstNoPopIter.                                     *)
THEOREM PopAssertionHolds ==
  ASSUME FromRpc = {}
  PROVE  Spec => []PopAssertion
<1>1. IndInv => PopAssertion
  <2>1. CASE CanPop(q)
    BY <2>1, PopTarget DEF PopAssertion
  <2>2. CASE ~CanPop(q)
    BY <2>2 DEF PopAssertion, PopSafe
  <2> QED BY <2>1, <2>2
<1> QED BY IndInvIsInvariant, <1>1, PTL

(* pop takes the oldest request that waits, whenever one waits.            *)
THEOREM PopTakesOldest ==
  ASSUME FromRpc = {}
  PROVE  Spec => []PopIsOldestWaiting
<1>1. IndInv => PopIsOldestWaiting
  <2> SUFFICES ASSUME IndInv, Waiting(q) # {}
               PROVE  CanPop(q) /\ \A i \in Waiting(q) : PopPos(q) <= i
    BY DEF PopIsOldestWaiting
  <2>1. /\ FirstIsExact /\ Len(q.time) \in Nat
        /\ DOMAIN q.time = 1 .. Len(q.time)
        /\ \A i \in 1 .. Len(q.time) : q.time[i].id \in IdRange
    BY NodeFacts DEF IndInv
  <2>2. PICK w \in 1 .. Len(q.time) : ~q.time[w].popped
    BY <2>1 DEF Waiting
  <2>3. CanPop(q)
    <3>1. q.time # <<>>
      BY <2>1, <2>2, EmptySeq
    <3>2. q.time[1].popped => q.first # End
      BY <2>1, <2>2, <3>1, MaxIdAssumption DEF FirstIsExact, IdRange, End
    <3> QED BY <3>1, <3>2 DEF CanPop
  <2>4. /\ PopPos(q) \in 1 .. Len(q.time)
        /\ \A j \in 1 .. PopPos(q) - 1 : q.time[j].popped
    BY <2>3, PopTarget
  <2>5. ASSUME NEW i \in Waiting(q)
        PROVE  PopPos(q) <= i
    <3>1. i \in 1 .. Len(q.time) /\ ~q.time[i].popped
      BY <2>1 DEF Waiting
    <3>2. i \notin 1 .. PopPos(q) - 1
      BY <2>4, <3>1
    <3> QED BY <2>1, <2>4, <3>1, <3>2
  <2> QED BY <2>3, <2>5
<1> QED BY IndInvIsInvariant, <1>1, PTL

(* No request is ever given the answer to another one.                     *)
THEOREM AnswersAreNotMixedUp ==
  ASSUME FromRpc = {}
  PROVE  Spec => []AnswerToItsRequest
<1>1. IndInv => AnswerToItsRequest
  BY DEF IndInv
<1> QED BY IndInvIsInvariant, <1>1, PTL

(* No request is lost and none stays behind.                               *)
THEOREM OpenRequestsAreInQueue ==
  ASSUME FromRpc = {}
  PROVE  Spec => []QueueHoldsOpenRequests
<1>1. IndInv => QueueHoldsOpenRequests
  <2> SUFFICES ASSUME IndInv PROVE QueueHoldsOpenRequests
    OBVIOUS
  <2>1. NodesMatchRequests
    BY DEF IndInv
  <2>2. \A i, j \in DOMAIN q.time : i # j => q.time[i].msg # q.time[j].msg
    BY NodesAreDistinct
  <2> QED BY <2>1, <2>2 DEF QueueHoldsOpenRequests, NodesMatchRequests
<1> QED BY IndInvIsInvariant, <1>1, PTL

-----------------------------------------------------------------------------
(***************************************************************************)
(* The queue implements PendingRequests.                                   *)
(***************************************************************************)

(* What the mapped state does when one request changes its status.         *)
LEMMA MappedExcept ==
  ASSUME status \in [Reqs -> Status], NEW r \in Reqs, NEW s \in Status,
         status' = [status EXCEPT ![r] = s]
  PROVE  [x \in Reqs |-> StateOf(status'[x])] =
           [[x \in Reqs |-> StateOf(status[x])] EXCEPT ![r] = StateOf(s)]
OBVIOUS

(* The oldest node that waits has the smallest ticket of those that wait,  *)
(* the head has the smallest of all.                                       *)
LEMMA OldestTicket ==
  ASSUME IndInv, NEW p \in 1 .. Len(q.time), NEW r \in Reqs,
         NEW k \in 1 .. Len(q.time), q.time[k].msg = r, p <= k
  PROVE  ticket[q.time[p].msg] <= ticket[r]
<1>1. /\ TypeOK /\ TicketsIncrease /\ DOMAIN q.time = 1 .. Len(q.time)
      /\ q.time[p].msg \in Reqs /\ Len(q.time) \in Nat
  BY NodeFacts DEF IndInv
<1>2. ticket \in [Reqs -> Nat]
  BY <1>1 DEF TypeOK
<1>3. CASE p = k
  BY <1>1, <1>2, <1>3
<1>4. CASE p < k
  BY <1>1, <1>2, <1>4 DEF TicketsIncrease
<1> QED BY <1>1, <1>3, <1>4

(* Every behaviour of the queue with generated ids is one of               *)
(* PendingRequests: each request is sent at most once, in the order of the *)
(* pushes, and leaves exactly once.                                        *)
THEOREM QueueImplementsPending ==
  ASSUME FromRpc = {}
  PROVE  Spec => ImplementsPending
<1> DEFINE state == [r \in Reqs |-> StateOf(status[r])]
<1>1. Init => Pending!Init
  BY DEF Init, Pending!Init, StateOf
<1>2. IndInv /\ [Next]_vars => [Pending!Next]_Pending!pvars
  <2> SUFFICES ASSUME IndInv, [Next]_vars
               PROVE  Pending!Next \/ UNCHANGED <<state, ticket, accepted>>
    BY DEF Pending!pvars
  <2>1. /\ TypeOK /\ NodesMatchRequests /\ DOMAIN q.time = 1 .. Len(q.time)
        /\ status \in [Reqs -> Status] /\ Len(q.time) \in Nat
        /\ \A i \in 1 .. Len(q.time) : q.time[i].msg \in Reqs
    BY NodeFacts DEF IndInv, TypeOK
  <2>2. CASE UNCHANGED vars
    BY <2>2 DEF vars
  <2>3. ASSUME NEW r \in Reqs, generateId(r)
        PROVE  UNCHANGED <<state, ticket, accepted>>
    <3>1. \A s \in Reqs : StateOf(status'[s]) = StateOf(status[s])
      BY <2>1, <2>3 DEF generateId, StateOf
    <3> QED BY <2>3, <3>1 DEF generateId
  <2>4. ASSUME NEW r \in Reqs, push(r)
        PROVE  Pending!Accept(r) \/ Pending!Refuse(r)
    <3>1. state[r] = "new"
      BY <2>4 DEF push, StateOf
    <3>2. CASE id[r] \in Ids(q)
      <4>1. status' = [status EXCEPT ![r] = "refused"] /\ UNCHANGED <<ticket, accepted>>
        BY <2>4, <3>2 DEF push
      <4>2. state' = [state EXCEPT ![r] = "refused"]
        BY <2>1, <4>1, MappedExcept DEF Status, StateOf
      <4> QED BY <3>1, <4>1, <4>2 DEF Pending!Refuse
    <3>3. CASE id[r] \notin Ids(q)
      <4>1. /\ status' = [status EXCEPT ![r] = "queued"]
            /\ accepted' = accepted + 1
            /\ ticket' = [ticket EXCEPT ![r] = accepted + 1]
        BY <2>4, <3>3 DEF push
      <4>2. state' = [state EXCEPT ![r] = "waiting"]
        BY <2>1, <4>1, MappedExcept DEF Status, StateOf
      <4> QED BY <3>1, <4>1, <4>2 DEF Pending!Accept
    <3> QED BY <3>2, <3>3
  <2>5. CASE pop
    <3> DEFINE p == PopPos(q)
               r == q.time[p].msg
    <3>1. /\ p \in 1 .. Len(q.time) /\ ~q.time[p].popped
          /\ \A j \in 1 .. p - 1 : q.time[j].popped
      BY <2>5, PopTarget DEF pop
    <3>2. /\ status' = [status EXCEPT ![r] = "sent"] /\ UNCHANGED <<ticket, accepted>>
      BY <2>5 DEF pop
    <3>3. r \in Reqs /\ status[r] = "queued"
      BY <2>1, <3>1 DEF NodesMatchRequests
    <3>4. state' = [state EXCEPT ![r] = "sent"]
      BY <2>1, <3>2, <3>3, MappedExcept DEF Status, StateOf
    <3>5. ASSUME NEW s \in Reqs, state[s] = "waiting"
          PROVE  ticket[r] <= ticket[s]
      <4>1. status[s] = "queued"
        BY <2>1, <3>5 DEF StateOf, Status
      <4>2. PICK k \in 1 .. Len(q.time) : q.time[k].msg = s
        BY <2>1, <4>1 DEF NodesMatchRequests
      <4>3. ~q.time[k].popped
        BY <2>1, <4>1, <4>2 DEF NodesMatchRequests
      <4>4. p <= k
        BY <2>1, <3>1, <4>2, <4>3
      <4> QED BY <3>1, <4>2, <4>4, OldestTicket
    <3>6. state[r] = "waiting"
      BY <3>3 DEF StateOf
    <3>7. Pending!Send(r)
      BY <3>2, <3>4, <3>5, <3>6 DEF Pending!Send
    <3> QED BY <3>3, <3>7 DEF Pending!Next
  <2>6. CASE swap
    <3> DEFINE p == PopPos(q)
               out == {q.time[i] : i \in p .. Len(q.time)}
    <3>1. /\ p \in 1 .. Len(q.time)
          /\ \A j \in 1 .. p - 1 : q.time[j].popped
          /\ \A j \in p .. Len(q.time) : ~q.time[j].popped
      BY <2>6, PopTarget DEF swap
    <3>2. /\ status' = [r \in Reqs |-> IF \E x \in out : x.msg = r
                                       THEN "sent" ELSE status[r]]
          /\ UNCHANGED <<ticket, accepted>>
      BY <2>6 DEF swap
    <3> HIDE DEF p
    <3>3. ASSUME NEW r \in Reqs
          PROVE  (\E x \in out : x.msg = r) <=> status[r] = "queued"
      <4>1. ASSUME NEW i \in p .. Len(q.time), q.time[i].msg = r
            PROVE  status[r] = "queued"
        <5>1. i \in 1 .. Len(q.time)
          BY <2>1, <3>1
        <5> QED BY <2>1, <3>1, <4>1, <5>1 DEF NodesMatchRequests
      <4>2. ASSUME status[r] = "queued"
            PROVE  \E i \in p .. Len(q.time) : q.time[i].msg = r
        <5>1. PICK k \in 1 .. Len(q.time) : q.time[k].msg = r
          BY <2>1, <4>2 DEF NodesMatchRequests
        <5>2. ~q.time[k].popped
          BY <2>1, <4>2, <5>1 DEF NodesMatchRequests
        <5>3. k \in p .. Len(q.time)
          BY <2>1, <3>1, <5>1, <5>2
        <5> QED BY <5>1, <5>3
      <4> QED BY <4>1, <4>2
    <3> HIDE DEF out
    <3>4. \A r \in Reqs : StateOf(status'[r]) =
                            IF StateOf(status[r]) = "waiting" THEN "sent" ELSE StateOf(status[r])
      BY <2>1, <3>2, <3>3 DEF StateOf, Status
    <3>5. Pending!SendAll
      BY <3>2, <3>4 DEF Pending!SendAll
    <3> QED BY <3>5 DEF Pending!Next
  <2>7. ASSUME NEW a \in wire, get(a)
        PROVE  Pending!Next \/ UNCHANGED <<state, ticket, accepted>>
    <3>1. CASE a.id \notin Ids(q)
      BY <2>7, <3>1 DEF get
    <3>2. CASE a.id \in Ids(q)
      <4> DEFINE r == a.msg
      <4>1. r \in Reqs /\ status[r] = "sent" /\ Msg(q, a.id) = r
        BY <3>2, AnswerFindsItsRequest
      <4>2. /\ status' = [status EXCEPT ![r] = "answered"]
            /\ UNCHANGED <<ticket, accepted>>
        BY <2>7, <3>2, <4>1 DEF get
      <4>3. state' = [state EXCEPT ![r] = "answered"] /\ state[r] = "sent"
        BY <2>1, <4>1, <4>2, MappedExcept DEF Status, StateOf
      <4>4. Pending!Answer(r)
        BY <4>2, <4>3 DEF Pending!Answer
      <4> QED BY <4>1, <4>4 DEF Pending!Next
    <3> QED BY <3>1, <3>2
  <2>8. CASE timeout
    <3> DEFINE r == q.time[1].msg
    <3>1. 1 \in 1 .. Len(q.time)
      BY <2>1, <2>8, NodeFacts, EmptySeq DEF timeout, HeadExpired
    <3>2. /\ status' = [status EXCEPT ![r] = "expired"]
          /\ UNCHANGED <<ticket, accepted>>
      BY <2>8 DEF timeout
    <3>3. r \in Reqs /\ status[r] \in {"queued", "sent"}
      BY <2>1, <3>1 DEF NodesMatchRequests
    <3>4. state' = [state EXCEPT ![r] = "expired"] /\ state[r] \in {"waiting", "sent"}
      BY <2>1, <3>2, <3>3, MappedExcept DEF Status, StateOf
    <3>5. ASSUME NEW s \in Reqs, state[s] \in {"waiting", "sent"}
          PROVE  ticket[r] <= ticket[s]
      <4>1. status[s] \in {"queued", "sent"}
        BY <2>1, <3>5 DEF StateOf, Status
      <4>2. PICK k \in 1 .. Len(q.time) : q.time[k].msg = s
        BY <2>1, <4>1 DEF NodesMatchRequests
      <4> QED BY <2>1, <3>1, <4>2, OldestTicket
    <3>6. Pending!Expire(r)
      BY <3>2, <3>3, <3>4, <3>5 DEF Pending!Expire, Pending!Held
    <3> QED BY <3>3, <3>6 DEF Pending!Next
  <2>9. CASE Tick
    BY <2>9 DEF Tick
  <2>10. ASSUME NEW r \in Reqs, rpcId(r) PROVE FALSE
    BY <2>10 DEF rpcId
  <2> QED BY <2>2, <2>3, <2>4, <2>5, <2>6, <2>7, <2>8, <2>9, <2>10
          DEF Next, Pending!Next
<1> QED BY <1>1, <1>2, IndInvIsInvariant, PTL DEF Spec, ImplementsPending, Pending!Spec
==============================================================================
