--------------------------- MODULE EpollServer_proofs ---------------------------
(***************************************************************************)
(* Proofs about EpollServer, for any set of clients, any size of the table *)
(* and of the queue, and any number of handles: the table, the free list   *)
(* and the counter agree, no command is left without an event, the close   *)
(* notification of a connection comes last and once, its requests stay in  *)
(* order, the queue keeps its bound, everything keeps its type, and only   *)
(* connections whose end or whose close was missed linger.                 *)
(***************************************************************************)
EXTENDS EpollServer, QueueLemmas, FiniteSetTheorems, TLAPS

-----------------------------------------------------------------------------
(***************************************************************************)
(* The inductive invariant.                                                *)
(***************************************************************************)
Connection ==
  [st : {"away", "backlog", "open", "closed"}, next : Nat, inbound : Seq(Nat),
   fin : BOOLEAN, edge : BOOLEAN, bClose : BOOLEAN, buffered : BOOLEAN, unsent : Nat,
   missed : SUBSET {"end", "close"}]

Message == [kind : {"data", "overload", "closed"}, uid : Uids, sock : Socks, n : Nat]

NetPc == {"idle", "recv", "parse", "insert", "write", "del", "free", "swap", "pipe"}

NetThread ==
  [pc : NetPc, uid : Uids, batch : Seq(Nat), chunk : Nat, over : BOOLEAN,
   pipe : Seq(SendData)]

(* The types, without the bounds on what the clients send, which CountInv  *)
(* adds at the end of this module.                                         *)
Types ==
  /\ free \in Seq(Uids)
  /\ slot \in [Uids -> Socks \cup {None}]
  /\ nconn \in Int
  /\ sock \in [Socks -> Connection]
  /\ rq \in Seq(Message)
  /\ sq \in Seq(SendData)
  /\ poke \in BOOLEAN
  /\ mods \in Nat
  /\ net \in NetThread
  /\ working \subseteq [msg : Message, left : 1 .. 2]

(* The net thread works on a connection of the table, and has commands and *)
(* packets where it looks at the first of them.                            *)
NetKnows ==
  /\ net.pc \in {"recv", "parse", "insert", "write", "del", "free"} => Cur # None
  /\ net.pc = "pipe" => net.pipe # <<>>
  /\ net.pc = "insert" => net.chunk \in Good

(* A connection has been told closed only when it is, or is just now.      *)
ToldAreClosed ==
  \A i \in DOMAIN rq :
    rq[i].kind = "closed" =>
      sock[rq[i].sock].st = "closed" \/ (net.pc = "free" /\ Cur = rq[i].sock)

(* The requests of a connection, but for those refused, in the three       *)
(* places they come through: the socket, the net thread, the queue.        *)
Sorted(q) ==
  \A i, j \in DOMAIN q : i < j /\ q[i] # Bad /\ q[j] # Bad => q[i] < q[j]

Precedes(n, q) == \A j \in DOMAIN q : q[j] # Bad => n < q[j]

SocketInOrder ==
  \A s \in Socks :
    Sorted(sock[s].inbound)
    /\ \A i \in DOMAIN sock[s].inbound : sock[s].inbound[i] <= sock[s].next

Parsing == net.pc \in {"parse", "insert"}

BatchInOrder ==
  Parsing =>
    /\ Sorted(net.batch)
    /\ \A i \in DOMAIN net.batch :
         /\ net.batch[i] <= sock[Cur].next
         /\ net.batch[i] # Bad => Precedes(net.batch[i], sock[Cur].inbound)

QueueInOrder ==
  \A i \in DOMAIN rq :
    rq[i].kind = "data" =>
      /\ rq[i].n <= sock[rq[i].sock].next
      /\ Precedes(rq[i].n, sock[rq[i].sock].inbound)
      /\ Parsing /\ Cur = rq[i].sock => Precedes(rq[i].n, net.batch)

IndInv ==
  /\ Types
  /\ ConnectionsAccounted /\ NetKnows
  /\ CommandsAreSeen
  /\ ToldAreClosed /\ CloseIsLast
  /\ SocketInOrder /\ BatchInOrder /\ QueueInOrder /\ RequestsInOrder

-----------------------------------------------------------------------------
(***************************************************************************)
(* Types.                                                                  *)
(***************************************************************************)
LEMMA Constants == Total \in Nat /\ MaxReq \in Nat /\ None \notin Socks /\ Bad = 0
BY TotalAssumption, MaxReqAssumption, NoneAssumption DEF Bad

(* What Connection::send leaves is a connection in the same state.         *)
LEMMA SentIsConnection ==
  ASSUME NEW k \in Connection, NEW r \in Sent(k)
  PROVE  /\ r.k \in Connection /\ r.del \in BOOLEAN
         /\ r.k.st = k.st /\ r.k.inbound = k.inbound /\ r.k.next = k.next
<1>1. CASE r.k = k /\ r.del \in BOOLEAN
  BY <1>1
<1>2. ASSUME NEW b \in BOOLEAN, r = [k |-> [k EXCEPT !.unsent = 0, !.buffered = b], del |-> k.bClose]
      PROVE  /\ r.k \in Connection /\ r.del \in BOOLEAN
             /\ r.k.st = k.st /\ r.k.inbound = k.inbound /\ r.k.next = k.next
  <2> DEFINE c == [k EXCEPT !.unsent = 0, !.buffered = b]
  <2>1. c \in Connection /\ c.st = k.st /\ c.inbound = k.inbound /\ c.next = k.next
        /\ k.bClose \in BOOLEAN
    BY DEF Connection
  <2>2. r = [k |-> c, del |-> k.bClose]
    BY <1>2
  <2> HIDE DEF c
  <2>3. r.k = c /\ r.del = k.bClose
    BY <2>2
  <2> QED BY <2>1, <2>3
<1>3. \/ r.k = k /\ r.del \in BOOLEAN
      \/ \E b \in BOOLEAN : r = [k |-> [k EXCEPT !.unsent = 0, !.buffered = b], del |-> k.bClose]
  <2> DEFINE written(b) == [k |-> [k EXCEPT !.unsent = 0, !.buffered = b], del |-> k.bClose]
             nothing == IF k.unsent > 0 THEN {[k |-> k, del |-> FALSE]} ELSE {}
             failed == IF k.unsent > 0 /\ k.fin THEN {[k |-> k, del |-> TRUE]} ELSE {}
  <2>1. r \in {written(b) : b \in {TRUE, FALSE}} \cup nothing \cup failed
    BY Zenon DEF Sent
  <2>2. nothing \subseteq {[k |-> k, del |-> FALSE]} /\ failed \subseteq {[k |-> k, del |-> TRUE]}
    OBVIOUS
  <2> HIDE DEF written, nothing, failed
  <2>3. \/ \E b \in {TRUE, FALSE} : r = written(b)
        \/ r = [k |-> k, del |-> FALSE]
        \/ r = [k |-> k, del |-> TRUE]
    BY <2>1, <2>2
  <2>4. ASSUME NEW d \in BOOLEAN, r = [k |-> k, del |-> d] PROVE r.k = k /\ r.del \in BOOLEAN
    BY <2>4
  <2> QED BY <2>3, <2>4 DEF written
<1> QED BY <1>1, <1>2, <1>3

(* An accept finds a free uid.                                             *)
LEMMA AcceptFindsSlot ==
  ASSUME Types, ConnectionsAccounted, ~isLimitMaxConnection
  PROVE  free # <<>>
<1>1. nconn + Len(free) = Total /\ nconn + 1 <= Total /\ nconn \in Int /\ Len(free) \in Nat
  BY Constants DEF Types, ConnectionsAccounted, isLimitMaxConnection
<1>2. Len(free) > 0
  BY <1>1, Constants
<1> QED BY <1>2

(* A step that changes one connection.                                     *)
LEMMA OneConnection ==
  ASSUME Types, NEW s \in Socks, NEW k \in Connection, sock' = [sock EXCEPT ![s] = k]
  PROVE  sock' \in [Socks -> Connection] /\ sock'[s] = k
         /\ \A t \in Socks \ {s} : sock'[t] = sock[t]
BY DEF Types

(* What the clients do to a connection.                                    *)
LEMMA ClientConnection ==
  ASSUME Types, NEW s \in Socks, Client(s)
  PROVE  \E k \in Connection :
           /\ sock' = [sock EXCEPT ![s] = k]
           /\ k.st = sock[s].st \/ (sock[s].st = "away" /\ k.st = "backlog")
           /\ \/ k.inbound = sock[s].inbound /\ k.next = sock[s].next
              \/ \E p \in {sock[s].next + 1, Bad} :
                   /\ k.inbound = Append(sock[s].inbound, p) /\ k.next = sock[s].next + 1
                   /\ sock[s].next < MaxReq
<1>0. sock[s] \in Connection /\ sock \in [Socks -> Connection]
  BY DEF Types
<1>1. CASE Connect(s)
  <2> DEFINE k == [sock[s] EXCEPT !.st = "backlog"]
  <2>1. k \in Connection /\ k.st = "backlog" /\ k.inbound = sock[s].inbound /\ k.next = sock[s].next
    BY <1>0 DEF Connection
  <2>2. sock' = [sock EXCEPT ![s] = k] /\ sock[s].st = "away"
    BY <1>0, <1>1 DEF Connect
  <2> QED BY <2>1, <2>2
<1>2. CASE Request(s)
  <2>1. PICK p \in {sock[s].next + 1, Bad} :
          sock' = [sock EXCEPT ![s].next = @ + 1, ![s].edge = TRUE, ![s].inbound = Append(@, p)]
    BY <1>2 DEF Request
  <2> DEFINE k == [sock[s] EXCEPT !.next = @ + 1, !.edge = TRUE, !.inbound = Append(@, p)]
  <2>2. sock[s].next \in Nat /\ sock[s].inbound \in Seq(Nat) /\ p \in Nat
    BY <1>0, Constants DEF Connection
  <2>3. Append(sock[s].inbound, p) \in Seq(Nat) /\ sock[s].next + 1 \in Nat
    BY <2>2
  <2>4. k \in Connection /\ k.st = sock[s].st /\ k.inbound = Append(sock[s].inbound, p)
        /\ k.next = sock[s].next + 1
    BY <1>0, <2>3 DEF Connection
  <2>5. sock' = [sock EXCEPT ![s] = k]
    BY <1>0, <2>1
  <2>6. sock[s].next < MaxReq
    BY <1>2 DEF Request
  <2> QED BY <2>4, <2>5, <2>6
<1>3. CASE Hangup(s)
  <2> DEFINE k == [sock[s] EXCEPT !.fin = TRUE, !.edge = TRUE]
  <2>1. k \in Connection /\ k.st = sock[s].st /\ k.inbound = sock[s].inbound /\ k.next = sock[s].next
    BY <1>0 DEF Connection
  <2>2. sock' = [sock EXCEPT ![s] = k]
    BY <1>0, <1>3 DEF Hangup
  <2> QED BY <2>1, <2>2
<1>4. CASE Writable(s)
  <2> DEFINE k == [sock[s] EXCEPT !.edge = TRUE]
  <2>1. k \in Connection /\ k.st = sock[s].st /\ k.inbound = sock[s].inbound /\ k.next = sock[s].next
    BY <1>0 DEF Connection
  <2>2. sock' = [sock EXCEPT ![s] = k]
    BY <1>0, <1>4 DEF Writable
  <2> QED BY <2>1, <2>2
<1> QED BY <1>1, <1>2, <1>3, <1>4 DEF Client

-----------------------------------------------------------------------------
(***************************************************************************)
(* Steps that leave the table, the queue of requests and the packets alone.*)
(***************************************************************************)
SameConnections ==
  \A s \in Socks : /\ sock'[s].st = sock[s].st
                      \/ {sock[s].st, sock'[s].st} \subseteq {"away", "backlog"}
                   /\ sock'[s].inbound = sock[s].inbound /\ sock'[s].next = sock[s].next

SameNetThread ==
  \/ net' = net
  \/ /\ net.pc # "free"
     /\ Parsing' => Parsing /\ net'.batch = net.batch /\ net'.uid = net.uid

LEMMA MessagesOf ==
  ASSUME NEW q \in Seq(Message)
  PROVE  /\ DOMAIN q = 1 .. Len(q) /\ Len(q) \in Nat
         /\ \A i \in DOMAIN q : q[i] \in Message /\ q[i].sock \in Socks /\ q[i].n \in Nat
<1>1. DOMAIN q = 1 .. Len(q) /\ Len(q) \in Nat /\ \A i \in DOMAIN q : q[i] \in Message
  OBVIOUS
<1> QED BY <1>1 DEF Message

LEMMA QuietStep ==
  ASSUME IndInv, Types', NetKnows', CommandsAreSeen',
         UNCHANGED <<free, slot, nconn, rq>>, SameConnections, SameNetThread
  PROVE  IndInv'
<1>1. Types /\ rq \in Seq(Message) /\ DOMAIN rq = 1 .. Len(rq)
      /\ \A i \in DOMAIN rq : rq[i].sock \in Socks
  BY MessagesOf DEF IndInv, Types
<1>2. ConnectionsAccounted'
  <2>1. \A s \in Socks : sock'[s].st = "open" <=> sock[s].st = "open"
    BY DEF SameConnections
  <2> QED BY <2>1 DEF IndInv, ConnectionsAccounted
<1>3. ToldAreClosed'
  <2> SUFFICES ASSUME NEW i \in DOMAIN rq, rq[i].kind = "closed"
               PROVE  sock'[rq[i].sock].st = "closed" \/ (net'.pc = "free" /\ slot[net'.uid] = rq[i].sock)
    BY DEF ToldAreClosed, Cur
  <2>1. sock[rq[i].sock].st = "closed" \/ (net.pc = "free" /\ Cur = rq[i].sock)
    BY DEF IndInv, ToldAreClosed
  <2>2. CASE sock[rq[i].sock].st = "closed"
    BY <1>1, <2>2 DEF SameConnections
  <2>3. CASE net.pc = "free" /\ Cur = rq[i].sock
    BY <2>3 DEF SameNetThread, Cur
  <2> QED BY <2>1, <2>2, <2>3
<1>4. SocketInOrder'
  BY DEF IndInv, SocketInOrder, SameConnections, Sorted
<1>5. Parsing' => Parsing /\ net'.batch = net.batch /\ Cur' = Cur
  BY DEF SameNetThread, Parsing, Cur
<1>6. BatchInOrder'
  <2> SUFFICES ASSUME Parsing' PROVE BatchInOrder'
    BY DEF BatchInOrder
  <2>1. Cur \in Socks
    BY <1>1, <1>5 DEF IndInv, NetKnows, Parsing, Cur, Types, NetThread
  <2>2. sock'[Cur].inbound = sock[Cur].inbound /\ sock'[Cur].next = sock[Cur].next
    BY <2>1 DEF SameConnections
  <2> QED BY <1>5, <2>2 DEF IndInv, BatchInOrder
<1>7. QueueInOrder'
  <2> SUFFICES ASSUME NEW i \in DOMAIN rq, rq[i].kind = "data"
               PROVE  /\ rq[i].n <= sock'[rq[i].sock].next
                      /\ Precedes(rq[i].n, sock'[rq[i].sock].inbound)
                      /\ Parsing' /\ Cur' = rq[i].sock => Precedes(rq[i].n, net'.batch)
    BY DEF QueueInOrder, Precedes
  <2>1. /\ rq[i].n <= sock[rq[i].sock].next
        /\ Precedes(rq[i].n, sock[rq[i].sock].inbound)
        /\ Parsing /\ Cur = rq[i].sock => Precedes(rq[i].n, net.batch)
    BY DEF IndInv, QueueInOrder
  <2> QED BY <1>1, <1>5, <2>1 DEF SameConnections
<1>8. CloseIsLast' /\ RequestsInOrder'
  BY DEF IndInv, CloseIsLast, RequestsInOrder
<1> QED BY <1>2, <1>3, <1>4, <1>6, <1>7, <1>8 DEF IndInv

-----------------------------------------------------------------------------
(***************************************************************************)
(* The clients.                                                            *)
(***************************************************************************)

(* A new packet is behind all there are, or bad.                           *)
LEMMA NewPacketIsLast ==
  ASSUME NEW q \in Seq(Nat), NEW m \in Nat, NEW p \in {m + 1, Bad},
         Sorted(q), \A i \in DOMAIN q : q[i] <= m
  PROVE  /\ Sorted(Append(q, p)) /\ \A i \in DOMAIN Append(q, p) : Append(q, p)[i] <= m + 1
         /\ \A n \in Nat : n <= m /\ Precedes(n, q) => Precedes(n, Append(q, p))
<1> DEFINE t == Append(q, p)
           l == Len(q)
<1>1. /\ l \in Nat /\ DOMAIN q = 1 .. l /\ DOMAIN t = 1 .. l + 1 /\ t[l + 1] = p
      /\ \A i \in 1 .. l : t[i] = q[i] /\ q[i] \in Nat
  BY Constants
<1> HIDE DEF t, l
<1>2. p = Bad \/ p = m + 1
  OBVIOUS
<1>3. \A i \in DOMAIN t : t[i] <= m + 1
  BY <1>1, <1>2, Constants
<1>4. Sorted(t)
  <2> SUFFICES ASSUME NEW i \in DOMAIN t, NEW j \in DOMAIN t, i < j, t[i] # Bad, t[j] # Bad
               PROVE  t[i] < t[j]
    BY DEF Sorted
  <2>1. i \in 1 .. l
    BY <1>1
  <2>2. CASE j = l + 1
    BY <1>1, <1>2, <2>1, <2>2
  <2>3. CASE j # l + 1
    BY <1>1, <2>1, <2>3 DEF Sorted
  <2> QED BY <2>2, <2>3
<1>5. ASSUME NEW n \in Nat, n <= m, Precedes(n, q) PROVE Precedes(n, t)
  BY <1>1, <1>2, <1>5 DEF Precedes
<1> QED BY <1>3, <1>4, <1>5 DEF t

LEMMA ClientStep ==
  ASSUME IndInv, NEW s \in Socks, Client(s)
  PROVE  IndInv'
<1>1. UNCHANGED <<free, slot, nconn, rq, sq, poke, mods, net, working>>
  BY DEF Client, Connect, Request, Hangup, Writable
<1>2. Types /\ sock[s] \in Connection
  BY DEF IndInv, Types
<1>3. PICK k \in Connection :
        /\ sock' = [sock EXCEPT ![s] = k]
        /\ k.st = sock[s].st \/ (sock[s].st = "away" /\ k.st = "backlog")
        /\ \/ k.inbound = sock[s].inbound /\ k.next = sock[s].next
           \/ \E p \in {sock[s].next + 1, Bad} :
                k.inbound = Append(sock[s].inbound, p) /\ k.next = sock[s].next + 1
  BY <1>2, ClientConnection
<1>4. /\ sock' \in [Socks -> Connection] /\ sock'[s] = k
      /\ \A t \in Socks \ {s} : sock'[t] = sock[t]
  BY <1>2, <1>3, OneConnection
<1>5. Types'
  BY <1>1, <1>4 DEF IndInv, Types
<1>6. NetKnows' /\ CommandsAreSeen'
  BY <1>1 DEF IndInv, NetKnows, CommandsAreSeen, Cur, Good, At
<1>7. CASE k.inbound = sock[s].inbound /\ k.next = sock[s].next
  <2>1. SameConnections
    BY <1>3, <1>4, <1>7 DEF SameConnections
  <2> QED BY <1>1, <1>5, <1>6, <2>1, QuietStep DEF SameNetThread
<1>8. ASSUME NEW p \in {sock[s].next + 1, Bad},
             k.inbound = Append(sock[s].inbound, p), k.next = sock[s].next + 1
      PROVE  IndInv'
  <2> DEFINE q == sock[s].inbound
             m == sock[s].next
  <2>1. q \in Seq(Nat) /\ m \in Nat
    BY <1>2 DEF Connection
  <2>2. Sorted(q) /\ \A i \in DOMAIN q : q[i] <= m
    BY DEF IndInv, SocketInOrder
  <2>3. /\ Sorted(k.inbound) /\ \A i \in DOMAIN k.inbound : k.inbound[i] <= k.next
        /\ \A n \in Nat : n <= m /\ Precedes(n, q) => Precedes(n, k.inbound)
    BY <1>8, <2>1, <2>2, NewPacketIsLast
  <2>4. k.next >= m /\ m \in Nat /\ k.next \in Nat
    BY <1>8, <2>1
  <2> HIDE DEF q, m
  <2>5. SocketInOrder'
    BY <1>4, <2>3 DEF IndInv, SocketInOrder
  <2>6. BatchInOrder'
    <3> SUFFICES ASSUME Parsing, NEW i \in DOMAIN net.batch
                 PROVE  /\ Sorted(net.batch) /\ net.batch[i] <= sock'[Cur].next
                        /\ net.batch[i] # Bad => Precedes(net.batch[i], sock'[Cur].inbound)
      <4>1. Parsing => Sorted(net.batch)
        BY DEF IndInv, BatchInOrder
      <4> QED BY <1>1, <4>1 DEF BatchInOrder, Parsing, Cur
    <3>1. /\ Sorted(net.batch) /\ net.batch[i] <= sock[Cur].next
          /\ net.batch[i] # Bad => Precedes(net.batch[i], sock[Cur].inbound)
      BY DEF IndInv, BatchInOrder
    <3>2. Cur \in Socks /\ net.batch[i] \in Nat
      BY <1>2 DEF IndInv, NetKnows, Parsing, Cur, Types, NetThread
    <3>3. CASE Cur = s
      BY <1>4, <2>3, <2>4, <3>1, <3>2, <3>3 DEF q, m
    <3>4. CASE Cur # s
      BY <1>4, <3>1, <3>2, <3>4
    <3> QED BY <3>3, <3>4
  <2>7. QueueInOrder'
    <3> SUFFICES ASSUME NEW i \in DOMAIN rq, rq[i].kind = "data"
                 PROVE  /\ rq[i].n <= sock'[rq[i].sock].next
                        /\ Precedes(rq[i].n, sock'[rq[i].sock].inbound)
                        /\ Parsing /\ Cur = rq[i].sock => Precedes(rq[i].n, net.batch)
      BY <1>1 DEF QueueInOrder, Parsing, Cur
    <3>1. /\ rq[i].n <= sock[rq[i].sock].next
          /\ Precedes(rq[i].n, sock[rq[i].sock].inbound)
          /\ Parsing /\ Cur = rq[i].sock => Precedes(rq[i].n, net.batch)
      BY DEF IndInv, QueueInOrder
    <3>2. rq[i].sock \in Socks /\ rq[i].n \in Nat
      BY <1>2, MessagesOf DEF Types
    <3>3. CASE rq[i].sock = s
      BY <1>4, <2>3, <2>4, <3>1, <3>2, <3>3 DEF q, m
    <3>4. CASE rq[i].sock # s
      BY <1>4, <3>1, <3>2, <3>4
    <3> QED BY <3>3, <3>4
  <2>8. ConnectionsAccounted'
    <3>1. \A t \in Socks : sock'[t].st = "open" <=> sock[t].st = "open"
      BY <1>3, <1>4
    <3> QED BY <1>1, <3>1 DEF IndInv, ConnectionsAccounted
  <2>9. ToldAreClosed'
    <3> SUFFICES ASSUME NEW i \in DOMAIN rq, rq[i].kind = "closed"
                 PROVE  sock'[rq[i].sock].st = "closed" \/ (net.pc = "free" /\ Cur = rq[i].sock)
      BY <1>1 DEF ToldAreClosed, Cur
    <3>1. sock[rq[i].sock].st = "closed" \/ (net.pc = "free" /\ Cur = rq[i].sock)
      BY DEF IndInv, ToldAreClosed
    <3>2. rq[i].sock \in Socks
      BY <1>2, MessagesOf DEF Types
    <3>3. sock[rq[i].sock].st = "closed" => sock'[rq[i].sock].st = "closed"
      BY <1>3, <1>4, <3>2
    <3> QED BY <3>1, <3>3
  <2>10. CloseIsLast' /\ RequestsInOrder'
    BY <1>1 DEF IndInv, CloseIsLast, RequestsInOrder
  <2> QED BY <1>5, <1>6, <2>5, <2>6, <2>7, <2>8, <2>9, <2>10 DEF IndInv
<1> QED BY <1>3, <1>7, <1>8

-----------------------------------------------------------------------------
(***************************************************************************)
(* The handles.                                                            *)
(***************************************************************************)
LEMMA PushTypes ==
  ASSUME Types, NEW w \in working, NEW cmd \in {"s", "c"}, Push(cmd, w)
  PROVE  sq' \in Seq(SendData) /\ mods' \in Nat /\ mods' > 0
<1>1. w.msg.uid \in Uids /\ w.msg.sock \in Socks
  BY DEF Types, Message
<1>2. [cmd |-> cmd, uid |-> w.msg.uid, sock |-> w.msg.sock] \in SendData
  BY <1>1 DEF SendData
<1>3. sq' = Append(sq, [cmd |-> cmd, uid |-> w.msg.uid, sock |-> w.msg.sock]) /\ mods' = mods + 1
  BY DEF Push
<1> HIDE DEF SendData
<1> QED BY <1>2, <1>3 DEF Types

LEMMA SameForHandles ==
  ASSUME IndInv, UNCHANGED <<sock, net, slot>>
  PROVE  NetKnows' /\ SameConnections /\ SameNetThread
BY DEF IndInv, NetKnows, SameConnections, SameNetThread, Cur, Good

LEMMA AnswerStep ==
  ASSUME IndInv, NEW w \in working, Finish(w) \/ handleClose(w)
  PROVE  IndInv'
<1>1. Types
  BY DEF IndInv
<1>2. UNCHANGED <<free, slot, nconn, sock, rq, poke, net>>
  BY DEF Finish, handleClose
<1>3. sq' \in Seq(SendData) /\ mods' \in Nat
      /\ ((sq' = sq /\ mods' = mods) \/ mods' > 0)
  <2>1. CASE \E cmd \in {"s", "c"} : Push(cmd, w)
    BY <1>1, <2>1, PushTypes
  <2>2. CASE UNCHANGED <<sq, mods>>
    BY <1>1, <2>2 DEF Types
  <2> QED BY <2>1, <2>2 DEF Finish, handleClose
<1>4. working' \subseteq [msg : Message, left : 1 .. 2]
  <2>1. w \in [msg : Message, left : 1 .. 2] /\ working \subseteq [msg : Message, left : 1 .. 2]
    BY <1>1 DEF Types
  <2>2. [w EXCEPT !.left = 1] \in [msg : Message, left : 1 .. 2]
    BY <2>1
  <2>3. CASE Finish(w)
    BY <2>1, <2>3 DEF Finish
  <2>4. CASE handleClose(w)
    BY <2>1, <2>2, <2>4 DEF handleClose
  <2> QED BY <2>3, <2>4
<1>5. Types'
  BY <1>1, <1>2, <1>3, <1>4 DEF Types
<1>6. CommandsAreSeen'
  BY <1>2, <1>3 DEF IndInv, CommandsAreSeen, At
<1> QED BY <1>2, <1>5, <1>6, SameForHandles, QuietStep

LEMMA NotifyStep ==
  ASSUME IndInv, Notify
  PROVE  IndInv'
<1>1. Types' /\ CommandsAreSeen'
  BY DEF IndInv, Types, Notify, CommandsAreSeen
<1>2. UNCHANGED <<free, slot, nconn, rq, sock, net>>
  BY DEF Notify
<1> QED BY <1>1, <1>2, SameForHandles, QuietStep

(* A handle takes the first message; the others move up.                   *)
LEMMA TakeStep ==
  ASSUME IndInv, Take
  PROVE  IndInv'
<1>1. Types
  BY DEF IndInv
<1>2. UNCHANGED <<free, slot, nconn, sock, sq, poke, mods, net>>
      /\ rq # <<>> /\ rq' = Tail(rq)
  BY DEF Take
<1> DEFINE n == Len(rq)
<1>3. /\ n \in Nat \ {0} /\ DOMAIN rq = 1 .. n /\ Head(rq) \in Message
      /\ rq' \in Seq(Message) /\ DOMAIN rq' = 1 .. n - 1
      /\ \A i \in 1 .. n - 1 : i + 1 \in 1 .. n /\ rq'[i] = rq[i + 1]
  <2>1. rq \in Seq(Message)
    BY <1>1 DEF Types
  <2> QED BY <1>2, <2>1
<1> HIDE DEF n
<1>4. Types'
  <2>1. {[msg |-> Head(rq), left |-> 1], [msg |-> Head(rq), left |-> 2]}
          \subseteq [msg : Message, left : 1 .. 2]
    BY <1>3
  <2>2. working' \subseteq working \cup {[msg |-> Head(rq), left |-> 1], [msg |-> Head(rq), left |-> 2]}
    BY DEF Take
  <2>3. working' \subseteq [msg : Message, left : 1 .. 2]
    BY <1>1, <2>1, <2>2 DEF Types
  <2> QED BY <1>1, <1>2, <1>3, <2>3 DEF Types
<1>5. ConnectionsAccounted' /\ NetKnows' /\ CommandsAreSeen' /\ SocketInOrder' /\ BatchInOrder'
  BY <1>2 DEF IndInv, ConnectionsAccounted, NetKnows, CommandsAreSeen, At, Cur, Good,
              SocketInOrder, BatchInOrder, Parsing
<1>6. ToldAreClosed'
  BY <1>2, <1>3 DEF IndInv, ToldAreClosed, Cur
<1>7. QueueInOrder'
  <2> SUFFICES ASSUME NEW i \in DOMAIN rq', rq'[i].kind = "data"
               PROVE  /\ rq'[i].n <= sock[rq'[i].sock].next
                      /\ Precedes(rq'[i].n, sock[rq'[i].sock].inbound)
                      /\ Parsing /\ Cur = rq'[i].sock => Precedes(rq'[i].n, net.batch)
    BY <1>2 DEF QueueInOrder, Parsing, Cur
  <2>1. i + 1 \in DOMAIN rq /\ rq'[i] = rq[i + 1]
    BY <1>3
  <2> QED BY <2>1 DEF IndInv, QueueInOrder
<1>8. ASSUME NEW i \in DOMAIN rq', NEW j \in DOMAIN rq', i < j
      PROVE  i + 1 \in DOMAIN rq /\ j + 1 \in DOMAIN rq /\ i + 1 < j + 1
             /\ rq'[i] = rq[i + 1] /\ rq'[j] = rq[j + 1]
  BY <1>3, <1>8
<1>9. CloseIsLast'
  BY <1>8 DEF IndInv, CloseIsLast
<1>10. RequestsInOrder'
  <2> SUFFICES ASSUME NEW i \in DOMAIN rq', NEW j \in DOMAIN rq', i < j,
                      rq'[i].sock = rq'[j].sock, rq'[i].kind = "data", rq'[j].kind = "data"
               PROVE  rq'[i].n < rq'[j].n
    BY DEF RequestsInOrder
  <2> QED BY <1>8 DEF IndInv, RequestsInOrder
<1> QED BY <1>4, <1>5, <1>6, <1>7, <1>9, <1>10 DEF IndInv

-----------------------------------------------------------------------------
(***************************************************************************)
(* The net thread: steps that leave the table and the queue alone.         *)
(***************************************************************************)
LEMMA IdleIsNetThread ==
  ASSUME NEW p \in NetPc, NEW u \in Uids
  PROVE  /\ Idle \in NetThread /\ Idle.pc = "idle"
         /\ [Idle EXCEPT !.pc = p, !.uid = u] \in NetThread
         /\ [Idle EXCEPT !.pc = p, !.uid = u].pc = p /\ [Idle EXCEPT !.pc = p, !.uid = u].uid = u
         /\ [Idle EXCEPT !.pc = p, !.uid = u].batch = <<>>
         /\ [Idle EXCEPT !.pc = p] \in NetThread /\ [Idle EXCEPT !.pc = p].pc = p
         /\ "idle" \in NetPc
<1>1. 1 \in Uids /\ <<>> \in Seq(Nat) /\ <<>> \in Seq(SendData)
  BY TotalAssumption DEF Uids
<1> HIDE DEF SendData
<1> QED BY <1>1 DEF Idle, NetThread, NetPc

LEMMA QuietNetStep ==
  ASSUME IndInv, UNCHANGED <<free, slot, nconn, rq, mods, working>>,
         sq' \in Seq(SendData), poke' \in BOOLEAN, net' \in NetThread,
         sock' \in [Socks -> Connection], SameConnections,
         net.pc # "free", net'.pc \notin {"parse", "insert"}, NetKnows', CommandsAreSeen'
  PROVE  IndInv'
<1>1. Types'
  BY DEF IndInv, Types
<1>2. SameNetThread
  BY DEF SameNetThread, Parsing
<1> QED BY <1>1, <1>2, QuietStep

(* Steps of the net thread that set out from, or end, the round of events. *)
LEMMA IdleStep ==
  ASSUME IndInv,
         \/ \E s \in Socks : Refuse(s)
         \/ \E u \in Uids : NetEvent(u) \/ Timeout(u)
         \/ NotifyEvent \/ Swap
  PROVE  IndInv'
<1>1. Types /\ sock \in [Socks -> Connection]
  BY DEF IndInv, Types
<1>2. sock' = sock => SameConnections
  BY DEF SameConnections
<1>3. sq \in Seq(SendData) /\ poke \in BOOLEAN /\ net \in NetThread
  BY <1>1 DEF Types
<1>4. ASSUME NEW s \in Socks, Refuse(s) PROVE IndInv'
  <2> DEFINE k == [sock[s] EXCEPT !.st = "away"]
  <2>1. k \in Connection /\ k.st = "away" /\ k.inbound = sock[s].inbound /\ k.next = sock[s].next
    BY <1>1 DEF Connection
  <2>2. sock' = [sock EXCEPT ![s] = k] /\ sock[s].st = "backlog"
        /\ UNCHANGED <<free, slot, nconn, rq, sq, poke, mods, net, working>>
    BY <1>1, <1>4 DEF Refuse
  <2> HIDE DEF k
  <2>3. sock' \in [Socks -> Connection] /\ sock'[s] = k /\ \A t \in Socks \ {s} : sock'[t] = sock[t]
    BY <1>1, <2>1, <2>2, OneConnection
  <2>4. SameConnections
    BY <2>1, <2>2, <2>3 DEF SameConnections
  <2>5. Types' /\ NetKnows' /\ CommandsAreSeen'
    BY <2>2, <2>3 DEF IndInv, Types, NetKnows, CommandsAreSeen, At, Cur, Good
  <2> QED BY <2>2, <2>4, <2>5, QuietStep DEF SameNetThread
<1>5. ASSUME NEW u \in Uids, NetEvent(u) PROVE IndInv'
  <2> DEFINE s == slot[u]
             k == [sock[s] EXCEPT !.edge = FALSE]
  <2>1. s \in Socks /\ net.pc = "idle"
    BY <1>1, <1>5 DEF NetEvent, Types, At
  <2>2. k \in Connection /\ k.st = sock[s].st /\ k.inbound = sock[s].inbound /\ k.next = sock[s].next
    <3>1. sock[s] \in Connection
      BY <1>1, <2>1
    <3> QED BY <3>1 DEF Connection
  <2>3. sock' = [sock EXCEPT ![s] = k]
        /\ UNCHANGED <<free, slot, nconn, rq, sq, poke, mods, working>>
    BY <1>1, <1>5, <2>1 DEF NetEvent
  <2>4. PICK p \in {"recv", "del"} : net' = [Idle EXCEPT !.pc = p, !.uid = u]
    BY <1>5 DEF NetEvent
  <2>5. net' \in NetThread /\ net'.pc = p /\ net'.uid = u
    <3>1. p \in NetPc
      BY DEF NetPc
    <3> QED BY <2>4, <3>1, IdleIsNetThread
  <2>6. slot[u] # None
    BY <1>5 DEF NetEvent
  <2>7. NetKnows' /\ CommandsAreSeen'
    BY <2>1, <2>3, <2>5, <2>6 DEF IndInv, NetKnows, CommandsAreSeen, At, Cur
  <2> HIDE DEF k, s
  <2>8. sock' \in [Socks -> Connection] /\ sock'[s] = k /\ \A t \in Socks \ {s} : sock'[t] = sock[t]
    BY <1>1, <2>1, <2>2, <2>3, OneConnection
  <2>9. SameConnections
    BY <2>1, <2>2, <2>8 DEF SameConnections
  <2> QED BY <1>3, <2>1, <2>3, <2>5, <2>7, <2>8, <2>9, QuietNetStep
<1>6. ASSUME NEW u \in Uids, Timeout(u) PROVE IndInv'
  <2>1. net.pc = "idle" /\ slot[u] # None /\ net' = [Idle EXCEPT !.pc = "del", !.uid = u]
        /\ UNCHANGED <<free, slot, nconn, sock, rq, sq, poke, mods, working>>
    BY <1>6 DEF Timeout, At
  <2>2. net' \in NetThread /\ net'.pc = "del" /\ net'.uid = u
    <3>1. "del" \in NetPc
      BY DEF NetPc
    <3> QED BY <2>1, <3>1, IdleIsNetThread
  <2>3. NetKnows' /\ CommandsAreSeen'
    BY <2>1, <2>2 DEF IndInv, NetKnows, CommandsAreSeen, At, Cur
  <2> QED BY <1>1, <1>2, <1>3, <2>1, <2>2, <2>3, QuietNetStep
<1>7. CASE NotifyEvent
  <2>1. net.pc = "idle" /\ net' = [Idle EXCEPT !.pc = "swap"] /\ poke' = FALSE
        /\ UNCHANGED <<free, slot, nconn, sock, rq, sq, mods, working>>
    BY <1>7 DEF NotifyEvent, At
  <2>2. net' \in NetThread /\ net'.pc = "swap"
    <3>1. "swap" \in NetPc /\ 1 \in Uids
      BY TotalAssumption DEF NetPc, Uids
    <3> QED BY <2>1, <3>1, IdleIsNetThread
  <2>3. NetKnows' /\ CommandsAreSeen'
    BY <2>2 DEF NetKnows, CommandsAreSeen, At
  <2> QED BY <1>1, <1>2, <1>3, <2>1, <2>2, <2>3, QuietNetStep
<1>8. CASE Swap
  <2>1. net.pc = "swap" /\ sq' = <<>>
        /\ UNCHANGED <<free, slot, nconn, sock, rq, poke, mods, working>>
    BY <1>8 DEF Swap, At
  <2>2. net' \in NetThread /\ (net'.pc = "idle" \/ (net'.pc = "pipe" /\ net'.pipe # <<>>))
    <3>1. CASE sq = <<>>
      <4>1. "idle" \in NetPc /\ 1 \in Uids
        BY TotalAssumption DEF NetPc, Uids
      <4> QED BY <1>8, <3>1, <4>1, IdleIsNetThread DEF Swap
    <3>2. CASE sq # <<>>
      <4>1. "pipe" \in NetPc /\ 1 \in Uids
        BY TotalAssumption DEF NetPc, Uids
      <4> DEFINE n == [net EXCEPT !.pc = "pipe", !.pipe = sq]
      <4>2. net' = n
        BY <1>8, <3>2 DEF Swap
      <4>3. n \in NetThread /\ n.pc = "pipe" /\ n.pipe = sq
        BY <1>3 DEF NetThread, NetPc
      <4> HIDE DEF n
      <4> QED BY <3>2, <4>2, <4>3
    <3> QED BY <3>1, <3>2
  <2>3. NetKnows' /\ CommandsAreSeen'
    BY <2>1, <2>2 DEF NetKnows, CommandsAreSeen
  <2>4. sq' \in Seq(SendData)
    BY <2>1, EmptyQueue
  <2> QED BY <1>1, <1>2, <1>3, <2>1, <2>2, <2>3, <2>4, QuietNetStep
<1> QED BY <1>4, <1>5, <1>6, <1>7, <1>8

(* The packets read are looked at, in one or more chunks.                  *)
LEMMA CheckChunkStep ==
  ASSUME IndInv, CheckChunk
  PROVE  IndInv'
<1>1. Types /\ net \in NetThread /\ "insert" \in NetPc
  BY DEF IndInv, Types, NetPc
<1>2. UNCHANGED <<free, slot, nconn, sock, rq, sq, poke, mods, working>> /\ net.pc = "parse"
  BY DEF CheckChunk, At
<1>3. PICK k \in Good : net' = [net EXCEPT !.pc = "insert", !.chunk = k, !.over = isOverload]
  BY DEF CheckChunk
<1>4. isOverload \in BOOLEAN /\ k \in Nat
  <2>1. Len(net.batch) \in Nat
    BY <1>1 DEF NetThread
  <2> QED BY <2>1 DEF isOverload, Good
<1>5. /\ net' \in NetThread /\ net'.pc = "insert" /\ net'.uid = net.uid
      /\ net'.batch = net.batch /\ net'.chunk = k
  <2> DEFINE o == isOverload
  <2> HIDE DEF o
  <2>1. net' = [net EXCEPT !.pc = "insert", !.chunk = k, !.over = o] /\ o \in BOOLEAN
    BY <1>3, <1>4 DEF o
  <2>2. ASSUME NEW c \in Nat, NEW v \in BOOLEAN, net' = [net EXCEPT !.pc = "insert", !.chunk = c, !.over = v]
        PROVE  /\ net' \in NetThread /\ net'.pc = "insert" /\ net'.uid = net.uid
               /\ net'.batch = net.batch /\ net'.chunk = c
    BY <1>1, <2>2 DEF NetThread, NetPc
  <2> QED BY <1>4, <2>1, <2>2
<1>6. Types' /\ NetKnows' /\ CommandsAreSeen'
  <2>1. Good' = Good
    BY <1>5 DEF Good
  <2>2. Cur' = Cur /\ Cur # None
    BY <1>2, <1>5 DEF Cur, IndInv, NetKnows
  <2>3. NetKnows'
    BY <1>5, <2>1, <2>2 DEF NetKnows
  <2> QED BY <1>1, <1>2, <1>5, <2>3 DEF IndInv, Types, CommandsAreSeen, At
<1>7. SameConnections /\ SameNetThread
  BY <1>2, <1>5 DEF SameConnections, SameNetThread, Parsing
<1> QED BY <1>2, <1>6, <1>7, QuietStep

LEMMA ParseEndsStep ==
  ASSUME IndInv, ParseEnds
  PROVE  IndInv'
<1>1. Types /\ net \in NetThread /\ sq \in Seq(SendData) /\ poke \in BOOLEAN
      /\ sock \in [Socks -> Connection]
  BY DEF IndInv, Types
<1>2. UNCHANGED <<free, slot, nconn, sock, rq, sq, poke, mods, working>> /\ net.pc = "parse"
  BY DEF ParseEnds, At
<1>3. net' \in NetThread /\ net'.pc \in {"write", "del"} /\ net'.uid = net.uid
  <2>1. CASE net' = [net EXCEPT !.pc = "write"]
    BY <1>1, <2>1 DEF NetThread, NetPc
  <2>2. CASE net' = [net EXCEPT !.pc = "del", !.batch = <<>>]
    <3>1. ASSUME NEW b \in Seq(Nat), net' = [net EXCEPT !.pc = "del", !.batch = b]
          PROVE  net' \in NetThread /\ net'.pc = "del" /\ net'.uid = net.uid
      BY <1>1, <3>1 DEF NetThread, NetPc
    <3> QED BY <2>2, <3>1, EmptyQueue
  <2> QED BY <2>1, <2>2 DEF ParseEnds
<1>4. NetKnows' /\ CommandsAreSeen'
  BY <1>2, <1>3 DEF IndInv, NetKnows, CommandsAreSeen, At, Cur
<1> QED BY <1>1, <1>2, <1>3, <1>4, QuietNetStep DEF SameConnections

LEMMA WriteStep ==
  ASSUME IndInv, Write
  PROVE  IndInv'
<1>1. Types /\ net \in NetThread /\ sq \in Seq(SendData) /\ poke \in BOOLEAN
      /\ sock \in [Socks -> Connection]
  BY DEF IndInv, Types
<1>2. UNCHANGED <<free, slot, nconn, rq, sq, poke, mods, working>> /\ net.pc = "write"
  BY DEF Write, At
<1>3. Cur \in Socks /\ sock[Cur] \in Connection
  BY <1>1, <1>2 DEF IndInv, NetKnows, Cur, Types, NetThread
<1>4. Idle \in NetThread /\ Idle.pc = "idle"
  <2>1. "idle" \in NetPc /\ 1 \in Uids
    BY TotalAssumption DEF NetPc, Uids
  <2> QED BY <2>1, IdleIsNetThread
<1>5. ASSUME net' = Idle \/ net' = [net EXCEPT !.pc = "del"]
      PROVE  net' \in NetThread /\ net'.pc \in {"idle", "del"} /\ (net'.pc = "del" => net'.uid = net.uid)
  <2>1. CASE net' = Idle
    BY <1>4, <2>1
  <2>2. CASE net' = [net EXCEPT !.pc = "del"]
    BY <1>1, <2>2 DEF NetThread, NetPc
  <2> QED BY <1>5, <2>1, <2>2
<1>6. net' = Idle \/ net' = [net EXCEPT !.pc = "del"]
  BY DEF Write
<1>7. NetKnows' /\ CommandsAreSeen'
  BY <1>2, <1>5, <1>6 DEF IndInv, NetKnows, CommandsAreSeen, At, Cur
<1>8. CASE UNCHANGED sock
  BY <1>1, <1>2, <1>5, <1>6, <1>7, <1>8, QuietNetStep DEF SameConnections
<1>9. CASE \E r \in Sent(sock[Cur]) : sock' = [sock EXCEPT ![Cur] = r.k]
  <2>1. PICK r \in Sent(sock[Cur]) : sock' = [sock EXCEPT ![Cur] = r.k]
    BY <1>9
  <2> DEFINE s == Cur
             k == r.k
  <2>2. k \in Connection /\ k.st = sock[s].st /\ k.inbound = sock[s].inbound /\ k.next = sock[s].next
    BY <1>3, SentIsConnection
  <2> HIDE DEF k, s
  <2>3. s \in Socks /\ sock' = [sock EXCEPT ![s] = k]
    BY <1>3, <2>1 DEF k, s
  <2>4. sock' \in [Socks -> Connection] /\ sock'[s] = k /\ \A t \in Socks \ {s} : sock'[t] = sock[t]
    BY <1>1, <2>2, <2>3, OneConnection
  <2>5. SameConnections
    BY <2>2, <2>3, <2>4 DEF SameConnections
  <2> QED BY <1>1, <1>2, <1>5, <1>6, <1>7, <2>4, <2>5, QuietNetStep
<1> QED BY <1>8, <1>9 DEF Write

(* The commands of the send queue.                                         *)
LEMMA PipeNextStep ==
  ASSUME IndInv, net.pc = "pipe", NEW del \in BOOLEAN, PipeNext(del), UNCHANGED <<slot, sq, poke, mods>>,
         del => slot[Head(net.pipe).uid] # None
  PROVE  net' \in NetThread /\ net'.pc \notin {"parse", "insert"} /\ NetKnows' /\ CommandsAreSeen'
<1>1. Types /\ net \in NetThread
  BY DEF IndInv, Types
<1> DEFINE rest == Tail(net.pipe)
           u == Head(net.pipe).uid
<1>2. rest \in Seq(SendData) /\ u \in Uids
  <2>1. net.pipe \in Seq(SendData) /\ net.pipe # <<>>
    BY <1>1 DEF NetThread, IndInv, NetKnows
  <2>2. Head(net.pipe) \in SendData /\ Tail(net.pipe) \in Seq(SendData)
    BY <2>1
  <2> QED BY <2>2 DEF SendData
<1>3. PipeNext(del) <=> net' = IF del THEN [net EXCEPT !.pc = "del", !.uid = u, !.pipe = rest]
                               ELSE IF rest = <<>> THEN Idle ELSE [net EXCEPT !.pipe = rest]
  BY DEF PipeNext
<1> HIDE DEF rest
<1>4. CASE del
  <2>1. net' = [net EXCEPT !.pc = "del", !.uid = u, !.pipe = rest]
    BY <1>3, <1>4
  <2>2. slot[u] # None
    BY <1>4
  <2> HIDE DEF u
  <2>3. net' \in NetThread /\ net'.pc = "del" /\ net'.uid = u
    BY <1>1, <1>2, <2>1 DEF NetThread, NetPc
  <2> QED BY <2>2, <2>3 DEF IndInv, NetKnows, CommandsAreSeen, At, Cur
<1>5. CASE ~del /\ rest = <<>>
  <2>1. "idle" \in NetPc /\ 1 \in Uids
    BY TotalAssumption DEF NetPc, Uids
  <2>2. net' \in NetThread /\ net'.pc = "idle"
    BY <1>3, <1>5, <2>1, IdleIsNetThread
  <2> QED BY <2>2 DEF IndInv, NetKnows, CommandsAreSeen, At
<1>6. CASE ~del /\ rest # <<>>
  <2>1. net' = [net EXCEPT !.pipe = rest]
    BY <1>3, <1>6
  <2>2. net' \in NetThread /\ net'.pc = "pipe" /\ net'.pipe = rest
    BY <1>1, <1>2, <2>1 DEF NetThread, NetPc
  <2> QED BY <1>6, <2>2 DEF IndInv, NetKnows, CommandsAreSeen, At
<1> QED BY <1>4, <1>5, <1>6

LEMMA PipeCloseStep ==
  ASSUME IndInv, PipeClose
  PROVE  IndInv'
<1>1. Types /\ net \in NetThread /\ sq \in Seq(SendData) /\ poke \in BOOLEAN
      /\ sock \in [Socks -> Connection]
  BY DEF IndInv, Types
<1>2. UNCHANGED <<free, slot, nconn, rq, sq, poke, mods, working>> /\ net.pc = "pipe"
  BY DEF PipeClose, At
<1> DEFINE u == Head(net.pipe).uid
           s == slot[u]
           k == [sock[s] EXCEPT !.bClose = TRUE, !.missed = @ \cup PutOff(sock[s])]
<1>3. u \in Uids /\ s \in Socks \cup {None}
  <2>1. net.pipe \in Seq(SendData) /\ net.pipe # <<>>
    BY <1>1, <1>2 DEF NetThread, IndInv, NetKnows
  <2>2. Head(net.pipe) \in SendData
    BY <2>1
  <2> QED BY <1>1, <2>2 DEF SendData, Types
<1>4. CASE s = None
  <2>1. PipeNext(FALSE) /\ UNCHANGED sock
    BY <1>4 DEF PipeClose
  <2>2. net' \in NetThread /\ net'.pc \notin {"parse", "insert"} /\ NetKnows' /\ CommandsAreSeen'
    BY <1>2, <2>1, PipeNextStep
  <2> QED BY <1>1, <1>2, <2>1, <2>2, QuietNetStep DEF SameConnections
<1>5. CASE s # None
  <2>1. s \in Socks /\ sock[s] \in Connection
    BY <1>1, <1>3, <1>5
  <2>2. k \in Connection /\ k.st = sock[s].st /\ k.inbound = sock[s].inbound /\ k.next = sock[s].next
        /\ (~sock[s].buffered) \in BOOLEAN
    BY <2>1 DEF Connection, PutOff
  <2>3. sock' = [sock EXCEPT ![s] = k] /\ PipeNext(~sock[s].buffered)
    BY <1>1, <1>5, <2>1 DEF PipeClose
  <2>4. net' \in NetThread /\ net'.pc \notin {"parse", "insert"} /\ NetKnows' /\ CommandsAreSeen'
    <3>1. slot[Head(net.pipe).uid] # None
      BY <1>5
    <3> DEFINE del == ~sock[s].buffered
    <3>2. del \in BOOLEAN /\ PipeNext(del)
      BY <2>2, <2>3
    <3> HIDE DEF del
    <3> QED BY <1>2, <3>1, <3>2, PipeNextStep
  <2> HIDE DEF s, k
  <2>5. sock' \in [Socks -> Connection] /\ sock'[s] = k /\ \A t \in Socks \ {s} : sock'[t] = sock[t]
    BY <1>1, <2>1, <2>2, <2>3, OneConnection
  <2>6. SameConnections
    BY <2>1, <2>2, <2>5 DEF SameConnections
  <2> QED BY <1>1, <1>2, <2>4, <2>5, <2>6, QuietNetStep
<1> QED BY <1>4, <1>5

LEMMA PipeSendStep ==
  ASSUME IndInv, PipeSend
  PROVE  IndInv'
<1>1. Types /\ net \in NetThread /\ sq \in Seq(SendData) /\ poke \in BOOLEAN
      /\ sock \in [Socks -> Connection]
  BY DEF IndInv, Types
<1>2. UNCHANGED <<free, slot, nconn, rq, sq, poke, mods, working>> /\ net.pc = "pipe"
  BY DEF PipeSend, At
<1> DEFINE u == Head(net.pipe).uid
           s == slot[u]
           c == [sock[s] EXCEPT !.unsent = @ + 1, !.buffered = TRUE]
<1>3. u \in Uids /\ s \in Socks \cup {None}
  <2>1. net.pipe \in Seq(SendData) /\ net.pipe # <<>>
    BY <1>1, <1>2 DEF NetThread, IndInv, NetKnows
  <2>2. Head(net.pipe) \in SendData
    BY <2>1
  <2> QED BY <1>1, <2>2 DEF SendData, Types
<1>4. CASE s = None
  <2>1. PipeNext(FALSE) /\ UNCHANGED sock
    BY <1>4 DEF PipeSend
  <2>2. net' \in NetThread /\ net'.pc \notin {"parse", "insert"} /\ NetKnows' /\ CommandsAreSeen'
    BY <1>2, <2>1, PipeNextStep
  <2> QED BY <1>1, <1>2, <2>1, <2>2, QuietNetStep DEF SameConnections
<1>5. CASE s # None
  <2>1. s \in Socks /\ sock[s] \in Connection
    BY <1>1, <1>3, <1>5
  <2>2. c \in Connection /\ c.st = sock[s].st /\ c.inbound = sock[s].inbound /\ c.next = sock[s].next
    <3>1. sock[s].unsent \in Nat /\ sock[s].unsent + 1 \in Nat
      BY <2>1 DEF Connection
    <3> QED BY <2>1, <3>1 DEF Connection
  <2>3. PICK r \in Sent(c) : sock' = [sock EXCEPT ![s] = r.k] /\ PipeNext(r.del)
    BY <1>5 DEF PipeSend
  <2> DEFINE k == r.k
  <2>4. k \in Connection /\ k.st = sock[s].st /\ k.inbound = sock[s].inbound /\ k.next = sock[s].next
        /\ r.del \in BOOLEAN
    <3> HIDE DEF c
    <3> QED BY <2>2, SentIsConnection
  <2>5. net' \in NetThread /\ net'.pc \notin {"parse", "insert"} /\ NetKnows' /\ CommandsAreSeen'
    <3>1. slot[Head(net.pipe).uid] # None
      BY <1>5
    <3> DEFINE del == r.del
    <3>2. del \in BOOLEAN /\ PipeNext(del)
      BY <2>3, <2>4
    <3> HIDE DEF del
    <3> QED BY <1>2, <3>1, <3>2, PipeNextStep
  <2>6. sock' = [sock EXCEPT ![s] = k]
    BY <2>3
  <2> HIDE DEF s, k
  <2>7. sock' \in [Socks -> Connection] /\ sock'[s] = k /\ \A t \in Socks \ {s} : sock'[t] = sock[t]
    BY <1>1, <2>1, <2>4, <2>6, OneConnection
  <2>8. SameConnections
    BY <2>1, <2>4, <2>7 DEF SameConnections
  <2> QED BY <1>1, <1>2, <2>5, <2>7, <2>8, QuietNetStep
<1> QED BY <1>4, <1>5

-----------------------------------------------------------------------------
(***************************************************************************)
(* The net thread: connections come, are read, and go.                     *)
(***************************************************************************)

(* The connection the net thread works on is open, so nobody has been told *)
(* that it has closed, but by the deletion that is under way.              *)
LEMMA CurIsOpen ==
  ASSUME IndInv, net.pc \in {"recv", "parse", "insert", "write", "del", "free"}
  PROVE  /\ net.uid \in Uids /\ Cur \in Socks /\ sock[Cur].st = "open"
         /\ net.pc # "free" => \A i \in DOMAIN rq : rq[i].sock = Cur => rq[i].kind # "closed"
<1>1. net.uid \in Uids /\ Cur \in Socks
  BY DEF IndInv, NetKnows, Cur, Types, NetThread
<1>2. sock[Cur].st = "open"
  BY <1>1 DEF IndInv, ConnectionsAccounted, Cur
<1> QED BY <1>1, <1>2 DEF IndInv, ToldAreClosed

LEMMA AcceptStep ==
  ASSUME IndInv, NEW s \in Socks, Accept(s)
  PROVE  IndInv'
<1>1. Types /\ sock \in [Socks -> Connection] /\ slot \in [Uids -> Socks \cup {None}]
      /\ free \in Seq(Uids) /\ rq \in Seq(Message)
  BY DEF IndInv, Types
<1>2. UNCHANGED <<rq, sq, poke, mods, net, working>> /\ net.pc = "idle" /\ sock[s].st = "backlog"
      /\ free' = Tail(free) /\ nconn' = nconn + 1
  BY DEF Accept, At
<1>3. free # <<>>
  BY <1>1, AcceptFindsSlot DEF IndInv, Accept
<1> DEFINE h == Head(free)
           k == [sock[s] EXCEPT !.st = "open", !.edge = TRUE]
<1>4. k \in Connection /\ k.st = "open" /\ k.inbound = sock[s].inbound /\ k.next = sock[s].next
  <2>1. sock[s] \in Connection
    BY <1>1
  <2> QED BY <2>1 DEF Connection
<1>5. sock' = [sock EXCEPT ![s] = k] /\ slot' = [slot EXCEPT ![h] = s]
  BY <1>1 DEF Accept
<1>6. IsInjective(free)
  BY DEF IndInv, ConnectionsAccounted, IsInjective
<1>7. /\ h \in Uids /\ free' \in Seq(Uids) /\ IsInjective(free') /\ h \notin Range(free')
      /\ Range(free) = Range(free') \cup {h}
  BY <1>1, <1>2, <1>3, <1>6, PoppedInFront
<1>8. Len(free) \in Nat /\ Len(free') = Len(free) - 1
  BY <1>1, <1>2, <1>3
<1> HIDE DEF h, k
<1>9. sock' \in [Socks -> Connection] /\ sock'[s] = k /\ \A t \in Socks \ {s} : sock'[t] = sock[t]
  BY <1>1, <1>4, <1>5, OneConnection
<1>10. slot' \in [Uids -> Socks \cup {None}] /\ slot'[h] = s /\ \A u \in Uids \ {h} : slot'[u] = slot[u]
  BY <1>1, <1>5, <1>7
<1>11. Types'
  BY <1>1, <1>2, <1>7, <1>9, <1>10 DEF Types
<1>12. ConnectionsAccounted'
  <2>1. \A i, j \in DOMAIN free' : free'[i] = free'[j] => i = j
    BY <1>7 DEF IsInjective
  <2>2. \A u \in Uids : u \in Range(free') <=> slot'[u] = None
    BY <1>7, <1>10, Constants DEF IndInv, ConnectionsAccounted
  <2>3. \A u \in Uids : slot[u] # s
    BY <1>2 DEF IndInv, ConnectionsAccounted
  <2>4. \A u, v \in Uids : slot'[u] = slot'[v] /\ slot'[u] # None => u = v
    BY <1>10, <2>3 DEF IndInv, ConnectionsAccounted
  <2>5. \A t \in Socks : sock'[t].st = "open" <=> \E u \in Uids : slot'[u] = t
    <3>1. h \in Uids /\ slot[h] = None
      BY <1>7 DEF IndInv, ConnectionsAccounted
    <3>2. sock'[s].st = "open" /\ \E u \in Uids : slot'[u] = s
      BY <1>4, <1>9, <1>10, <3>1
    <3>3. ASSUME NEW t \in Socks \ {s} PROVE sock'[t].st = "open" <=> \E u \in Uids : slot'[u] = t
      <4>1. \A u \in Uids : slot'[u] = t <=> slot[u] = t
        BY <1>10, <3>1, Constants
      <4>2. sock[t].st = "open" <=> \E u \in Uids : slot[u] = t
        BY DEF IndInv, ConnectionsAccounted
      <4> QED BY <1>9, <4>1, <4>2
    <3> QED BY <3>2, <3>3
  <2>6. nconn' + Len(free') = Total
    <3>1. nconn + Len(free) = Total /\ nconn \in Int
      BY DEF IndInv, ConnectionsAccounted, Types
    <3>2. nconn' = nconn + 1
      BY <1>2
    <3> DEFINE m == Len(free)
               n == Len(free')
    <3>3. m \in Nat /\ n = m - 1 /\ nconn + m = Total
      BY <1>8, <3>1
    <3> HIDE DEF m, n
    <3>4. nconn' + n = Total
      BY <3>1, <3>2, <3>3, Constants
    <3> QED BY <3>4 DEF n
  <2> QED BY <2>1, <2>2, <2>4, <2>5, <2>6 DEF ConnectionsAccounted
<1>13. NetKnows' /\ CommandsAreSeen'
  BY <1>2 DEF IndInv, NetKnows, CommandsAreSeen, At
<1>14. \A t \in Socks : /\ sock'[t].inbound = sock[t].inbound /\ sock'[t].next = sock[t].next
                        /\ sock[t].st = "closed" => sock'[t].st = "closed"
  BY <1>2, <1>4, <1>9
<1>15. \A i \in DOMAIN rq : rq[i].sock \in Socks
  BY <1>1, MessagesOf
<1>16. ToldAreClosed'
  BY <1>2, <1>14, <1>15 DEF IndInv, ToldAreClosed
<1>17. SocketInOrder' /\ BatchInOrder'
  BY <1>2, <1>14 DEF IndInv, SocketInOrder, BatchInOrder, Parsing, Sorted
<1>18. QueueInOrder'
  BY <1>2, <1>14, <1>15 DEF IndInv, QueueInOrder, Parsing, Precedes
<1>19. CloseIsLast' /\ RequestsInOrder'
  BY <1>2 DEF IndInv, CloseIsLast, RequestsInOrder
<1> QED BY <1>11, <1>12, <1>13, <1>16, <1>17, <1>18, <1>19 DEF IndInv

(* Reading empties the socket.                                             *)
LEMMA ReadConnection ==
  ASSUME Types, Cur \in Socks, Read
  PROVE  \E k \in Connection :
           /\ sock' = [sock EXCEPT ![Cur] = k]
           /\ k.st = sock[Cur].st /\ k.inbound = <<>> /\ k.next = sock[Cur].next
<1>1. sock \in [Socks -> Connection] /\ sock[Cur] \in Connection /\ <<>> \in Seq(Nat)
  BY EmptyQueue DEF Types
<1>2. CASE sock' = [sock EXCEPT ![Cur].inbound = <<>>]
  <2> DEFINE k == [sock[Cur] EXCEPT !.inbound = <<>>]
  <2>1. k \in Connection /\ k.st = sock[Cur].st /\ k.inbound = <<>> /\ k.next = sock[Cur].next
    BY <1>1 DEF Connection
  <2>2. sock' = [sock EXCEPT ![Cur] = k]
    BY <1>1, <1>2
  <2> QED BY <2>1, <2>2
<1>3. CASE sock' = [sock EXCEPT ![Cur].inbound = <<>>, ![Cur].missed = @ \cup Unread(sock[Cur])]
  <2> DEFINE k == [sock[Cur] EXCEPT !.inbound = <<>>, !.missed = @ \cup Unread(sock[Cur])]
  <2>1. k \in Connection /\ k.st = sock[Cur].st /\ k.inbound = <<>> /\ k.next = sock[Cur].next
    BY <1>1 DEF Connection, Unread
  <2>2. sock' = [sock EXCEPT ![Cur] = k]
    BY <1>1, <1>3
  <2> QED BY <2>1, <2>2
<1> QED BY <1>2, <1>3 DEF Read

(* What has been received goes from the socket to the net thread.          *)
LEMMA ReadStep ==
  ASSUME IndInv, Read
  PROVE  IndInv'
<1>1. Types /\ sock \in [Socks -> Connection] /\ net \in NetThread /\ rq \in Seq(Message)
  BY DEF IndInv, Types
<1>2. UNCHANGED <<free, slot, nconn, rq, sq, poke, mods, working>> /\ net.pc = "recv"
  BY DEF Read, At
<1> DEFINE s == Cur
           q == sock[s].inbound
<1>3. s \in Socks /\ sock[s].st = "open" /\ sock[s] \in Connection
  BY <1>1, <1>2, CurIsOpen
<1>4. PICK k \in Connection :
        /\ sock' = [sock EXCEPT ![s] = k]
        /\ k.st = sock[s].st /\ k.inbound = <<>> /\ k.next = sock[s].next
  BY <1>1, <1>3, ReadConnection
<1>5. q \in Seq(Nat)
  BY <1>3 DEF Connection
<1>6. /\ net' \in NetThread /\ net'.uid = net.uid
      /\ \/ net'.pc = "parse" /\ net'.batch = q
         \/ net'.pc = "del"
  <2>1. net' = [net EXCEPT !.pc = "parse", !.batch = q] \/ net' = [net EXCEPT !.pc = "del"]
    BY DEF Read
  <2>2. CASE net' = [net EXCEPT !.pc = "parse", !.batch = q]
    <3> HIDE DEF q
    <3> QED BY <1>1, <1>5, <2>2 DEF NetThread, NetPc
  <2>3. CASE net' = [net EXCEPT !.pc = "del"]
    BY <1>1, <2>3 DEF NetThread, NetPc
  <2> QED BY <2>1, <2>2, <2>3
<1>7. sock' \in [Socks -> Connection] /\ sock'[s] = k /\ \A t \in Socks \ {s} : sock'[t] = sock[t]
  BY <1>1, <1>3, <1>4, OneConnection
<1>8. Types' /\ NetKnows' /\ CommandsAreSeen'
  <2>1. Cur' = Cur
    BY <1>2, <1>6 DEF Cur
  <2>2. Cur # None
    BY <1>3, Constants
  <2>3. Types'
    BY <1>1, <1>2, <1>6, <1>7 DEF Types
  <2>4. NetKnows'
    BY <1>6, <2>1, <2>2 DEF NetKnows
  <2>5. CommandsAreSeen'
    BY <1>2, <1>6 DEF IndInv, CommandsAreSeen, At
  <2> QED BY <2>3, <2>4, <2>5
<1>9. \A t \in Socks : sock'[t].st = sock[t].st /\ sock'[t].next = sock[t].next
  BY <1>3, <1>4, <1>7
<1>10. ConnectionsAccounted'
  BY <1>2, <1>9 DEF IndInv, ConnectionsAccounted
<1>11. \A i \in DOMAIN rq : rq[i].sock \in Socks
  BY <1>1, MessagesOf
<1>12. ToldAreClosed' /\ CloseIsLast' /\ RequestsInOrder'
  BY <1>2, <1>9, <1>11 DEF IndInv, ToldAreClosed, CloseIsLast, RequestsInOrder
<1>13. Cur' = s /\ DOMAIN k.inbound = {}
  BY <1>2, <1>4, <1>6 DEF Cur
<1>14. SocketInOrder'
  <2>1. Sorted(k.inbound) /\ \A i \in DOMAIN k.inbound : k.inbound[i] <= k.next
    BY <1>13 DEF Sorted
  <2> QED BY <1>7, <2>1 DEF IndInv, SocketInOrder
<1>15. BatchInOrder'
  <2> SUFFICES ASSUME net'.batch = q
               PROVE  Sorted(net'.batch)
                      /\ \A i \in DOMAIN net'.batch : net'.batch[i] <= sock'[s].next
                           /\ (net'.batch[i] # Bad => Precedes(net'.batch[i], sock'[s].inbound))
    BY <1>6, <1>13 DEF BatchInOrder, Parsing, Sorted, Precedes
  <2>1. Sorted(q) /\ \A i \in DOMAIN q : q[i] <= sock[s].next
    BY <1>3 DEF IndInv, SocketInOrder
  <2> HIDE DEF s, q
  <2>2. \A n : Precedes(n, sock'[s].inbound)
    BY <1>7, <1>13 DEF Precedes
  <2> QED BY <1>3, <1>9, <2>1, <2>2
<1>16. QueueInOrder'
  <2> SUFFICES ASSUME NEW i \in DOMAIN rq, rq[i].kind = "data"
               PROVE  /\ rq[i].n <= sock'[rq[i].sock].next
                      /\ Precedes(rq[i].n, sock'[rq[i].sock].inbound)
                      /\ net'.batch = q /\ s = rq[i].sock => Precedes(rq[i].n, q)
    BY <1>2, <1>6, <1>13 DEF QueueInOrder, Parsing, Precedes
  <2>1. rq[i].n <= sock[rq[i].sock].next /\ Precedes(rq[i].n, sock[rq[i].sock].inbound)
    BY DEF IndInv, QueueInOrder
  <2>2. \A n : Precedes(n, sock'[s].inbound)
    BY <1>7, <1>13 DEF Precedes
  <2> QED BY <1>7, <1>9, <1>11, <2>1, <2>2
<1> QED BY <1>8, <1>10, <1>12, <1>14, <1>15, <1>16 DEF IndInv

(* The close notification goes behind all the messages of its connection.  *)
LEMMA DelNotifyStep ==
  ASSUME IndInv, DelNotify
  PROVE  IndInv'
<1>1. Types /\ sock \in [Socks -> Connection] /\ net \in NetThread /\ rq \in Seq(Message)
  BY DEF IndInv, Types
<1>2. UNCHANGED <<free, slot, nconn, sock, sq, poke, mods, working>> /\ net.pc = "del"
  BY DEF DelNotify, At
<1>3. /\ net.uid \in Uids /\ Cur \in Socks /\ sock[Cur].st = "open"
      /\ \A i \in DOMAIN rq : rq[i].sock = Cur => rq[i].kind # "closed"
  BY <1>2, CurIsOpen
<1>4. net' \in NetThread /\ net'.pc = "free" /\ net'.uid = net.uid
  <2>1. net' = [net EXCEPT !.pc = "free"]
    BY DEF DelNotify
  <2> QED BY <1>1, <2>1 DEF NetThread, NetPc
<1> DEFINE m == Recv("closed", net.uid, Cur, 0)
           l == Len(rq)
<1>5. m \in Message /\ m.kind = "closed" /\ m.sock = Cur
  BY <1>3 DEF Recv, Message
<1>6. rq' = Append(rq, m)
  BY DEF DelNotify
<1> HIDE DEF m
<1>7. /\ l \in Nat /\ DOMAIN rq = 1 .. l /\ rq' \in Seq(Message) /\ DOMAIN rq' = 1 .. l + 1
      /\ rq'[l + 1] = m /\ \A i \in 1 .. l : rq'[i] = rq[i]
  BY <1>1, <1>5, <1>6
<1> HIDE DEF l
<1>8. \A i \in DOMAIN rq' : i = l + 1 \/ i \in DOMAIN rq
  BY <1>7
<1>9. Types' /\ CommandsAreSeen'
  BY <1>1, <1>2, <1>4, <1>7 DEF IndInv, Types, CommandsAreSeen, At
<1>10. Cur' = Cur /\ Cur # None
  BY <1>2, <1>3, <1>4, Constants DEF Cur
<1>11. ConnectionsAccounted' /\ NetKnows' /\ SocketInOrder'
  BY <1>2, <1>4, <1>10 DEF IndInv, ConnectionsAccounted, NetKnows, SocketInOrder
<1>12. ToldAreClosed'
  <2> SUFFICES ASSUME NEW i \in DOMAIN rq', rq'[i].kind = "closed"
               PROVE  sock'[rq'[i].sock].st = "closed" \/ (net'.pc = "free" /\ Cur' = rq'[i].sock)
    BY DEF ToldAreClosed
  <2>1. CASE i = l + 1
    BY <1>4, <1>5, <1>7, <1>10, <2>1
  <2>2. CASE i \in DOMAIN rq
    BY <1>2, <1>7, <2>2 DEF IndInv, ToldAreClosed
  <2> QED BY <1>8, <2>1, <2>2
<1>13. CloseIsLast'
  <2> SUFFICES ASSUME NEW i \in DOMAIN rq', NEW j \in DOMAIN rq', i < j, rq'[i].sock = rq'[j].sock
               PROVE  rq'[i].kind # "closed"
    BY DEF CloseIsLast
  <2>1. i \in DOMAIN rq /\ rq'[i] = rq[i]
    BY <1>7
  <2>2. CASE j = l + 1
    BY <1>3, <1>5, <1>7, <2>1, <2>2
  <2>3. CASE j \in DOMAIN rq
    BY <1>7, <2>1, <2>3 DEF IndInv, CloseIsLast
  <2> QED BY <1>8, <2>2, <2>3
<1>14. \A i \in DOMAIN rq' : rq'[i].kind = "data" => i \in DOMAIN rq /\ rq'[i] = rq[i]
  BY <1>5, <1>7
<1>15. BatchInOrder' /\ QueueInOrder'
  BY <1>2, <1>4, <1>14 DEF IndInv, BatchInOrder, QueueInOrder, Parsing, Precedes
<1>16. RequestsInOrder'
  <2> SUFFICES ASSUME NEW i \in DOMAIN rq', NEW j \in DOMAIN rq', i < j,
                      rq'[i].sock = rq'[j].sock, rq'[i].kind = "data", rq'[j].kind = "data"
               PROVE  rq'[i].n < rq'[j].n
    BY DEF RequestsInOrder
  <2> QED BY <1>14 DEF IndInv, RequestsInOrder
<1> QED BY <1>9, <1>11, <1>12, <1>13, <1>15, <1>16 DEF IndInv

(* The slot goes back to the free list, and the socket is closed.          *)
LEMMA DelFreeStep ==
  ASSUME IndInv, DelFree
  PROVE  IndInv'
<1>1. Types /\ sock \in [Socks -> Connection] /\ slot \in [Uids -> Socks \cup {None}]
      /\ free \in Seq(Uids) /\ rq \in Seq(Message) /\ net \in NetThread /\ nconn \in Int
  BY DEF IndInv, Types
<1>2. UNCHANGED <<rq, sq, poke, mods, working>> /\ net.pc = "free" /\ nconn' = nconn - 1
  BY DEF DelFree, At
<1> DEFINE s == Cur
           u == net.uid
           k == [sock[s] EXCEPT !.st = "closed", !.edge = FALSE, !.inbound = <<>>]
<1>3. u \in Uids /\ s \in Socks /\ sock[s].st = "open" /\ sock[s] \in Connection /\ slot[u] = s
  BY <1>1, <1>2, CurIsOpen DEF Cur
<1>4. k \in Connection /\ k.st = "closed" /\ k.inbound = <<>> /\ k.next = sock[s].next
  <2>1. <<>> \in Seq(Nat)
    BY EmptyQueue
  <2>2. ASSUME NEW e \in Seq(Nat), NEW c,
               c = [sock[s] EXCEPT !.st = "closed", !.edge = FALSE, !.inbound = e]
        PROVE  c \in Connection /\ c.st = "closed" /\ c.inbound = e /\ c.next = sock[s].next
    BY <1>3, <2>2 DEF Connection
  <2> QED BY <2>1, <2>2
<1>5. /\ sock' = [sock EXCEPT ![s] = k]
      /\ slot' = [slot EXCEPT ![u] = None] /\ free' = Append(free, u)
  BY <1>1 DEF DelFree
<1>6. net' \in NetThread /\ (net'.pc = "idle" \/ (net'.pc = "pipe" /\ net'.pipe # <<>>))
  <2>1. CASE net.pipe = <<>>
    <3>1. "idle" \in NetPc /\ 1 \in Uids
      BY TotalAssumption DEF NetPc, Uids
    <3> QED BY <2>1, <3>1, IdleIsNetThread DEF DelFree
  <2>2. CASE net.pipe # <<>>
    <3>1. net' = [net EXCEPT !.pc = "pipe"]
      BY <2>2 DEF DelFree
    <3>2. net' \in NetThread /\ net'.pc = "pipe" /\ net'.pipe = net.pipe
      BY <1>1, <3>1 DEF NetThread, NetPc
    <3> QED BY <2>2, <3>2
  <2> QED BY <2>1, <2>2
<1>7. IsInjective(free) /\ u \notin Range(free)
  <2>1. IsInjective(free)
    BY DEF IndInv, ConnectionsAccounted, IsInjective
  <2>2. u \in Range(free) => slot[u] = None
    BY <1>3 DEF IndInv, ConnectionsAccounted
  <2> QED BY <1>3, <2>1, <2>2, Constants
<1>8. free' \in Seq(Uids) /\ IsInjective(free') /\ Range(free') = Range(free) \cup {u}
  BY <1>1, <1>3, <1>5, <1>7, PushedBehind
<1>9. Len(free) \in Nat /\ Len(free') = Len(free) + 1
  BY <1>1, <1>3, <1>5
<1> HIDE DEF s, u, k
<1>10. sock' \in [Socks -> Connection] /\ sock'[s] = k /\ \A t \in Socks \ {s} : sock'[t] = sock[t]
  BY <1>1, <1>3, <1>4, <1>5, OneConnection
<1>11. slot' \in [Uids -> Socks \cup {None}] /\ slot'[u] = None /\ \A v \in Uids \ {u} : slot'[v] = slot[v]
  BY <1>1, <1>3, <1>5
<1>12. Types'
  BY <1>1, <1>2, <1>6, <1>8, <1>10, <1>11 DEF Types
<1>13. ConnectionsAccounted'
  <2>1. \A i, j \in DOMAIN free' : free'[i] = free'[j] => i = j
    BY <1>8 DEF IsInjective
  <2>2. \A v \in Uids : v \in Range(free') <=> slot'[v] = None
    BY <1>3, <1>8, <1>11 DEF IndInv, ConnectionsAccounted
  <2>3. \A v, w \in Uids : slot'[v] = slot'[w] /\ slot'[v] # None => v = w
    BY <1>11 DEF IndInv, ConnectionsAccounted
  <2>4. \A v \in Uids : slot[v] = s => v = u
    BY <1>3, Constants DEF IndInv, ConnectionsAccounted
  <2>5. \A t \in Socks : sock'[t].st = "open" <=> \E v \in Uids : slot'[v] = t
    <3>1. sock'[s].st # "open" /\ \A v \in Uids : slot'[v] # s
      BY <1>3, <1>4, <1>10, <1>11, <2>4, Constants
    <3>2. ASSUME NEW t \in Socks \ {s} PROVE sock'[t].st = "open" <=> \E v \in Uids : slot'[v] = t
      <4>1. \A v \in Uids : slot'[v] = t <=> slot[v] = t
        BY <1>3, <1>11, Constants
      <4>2. sock[t].st = "open" <=> \E v \in Uids : slot[v] = t
        BY DEF IndInv, ConnectionsAccounted
      <4> QED BY <1>10, <4>1, <4>2
    <3> QED BY <3>1, <3>2
  <2>6. nconn' + Len(free') = Total
    <3>1. nconn + Len(free) = Total /\ nconn \in Int
      BY <1>1 DEF IndInv, ConnectionsAccounted
    <3>2. nconn' = nconn - 1
      BY <1>2
    <3> DEFINE m == Len(free)
               n == Len(free')
    <3>3. m \in Nat /\ n = m + 1 /\ nconn + m = Total
      BY <1>9, <3>1
    <3> HIDE DEF m, n
    <3>4. nconn' + n = Total
      BY <3>1, <3>2, <3>3, Constants
    <3> QED BY <3>4 DEF n
  <2> QED BY <2>1, <2>2, <2>3, <2>5, <2>6 DEF ConnectionsAccounted
<1>14. NetKnows' /\ CommandsAreSeen'
  BY <1>2, <1>6 DEF IndInv, NetKnows, CommandsAreSeen, At
<1>15. \A i \in DOMAIN rq : rq[i].sock \in Socks
  BY <1>1, MessagesOf
<1>16. ToldAreClosed'
  <2> SUFFICES ASSUME NEW i \in DOMAIN rq, rq[i].kind = "closed" PROVE sock'[rq[i].sock].st = "closed"
    BY <1>2 DEF ToldAreClosed
  <2>1. sock[rq[i].sock].st = "closed" \/ s = rq[i].sock
    BY DEF IndInv, ToldAreClosed, s
  <2> QED BY <1>4, <1>10, <1>15, <2>1
<1>17. /\ \A n : Precedes(n, sock'[s].inbound)
       /\ Sorted(sock'[s].inbound) /\ DOMAIN sock'[s].inbound = {} /\ sock'[s].next = sock[s].next
  BY <1>4, <1>10 DEF Precedes, Sorted
<1>18. SocketInOrder'
  BY <1>10, <1>17 DEF IndInv, SocketInOrder
<1>19. BatchInOrder'
  BY <1>6 DEF BatchInOrder, Parsing
<1>20. QueueInOrder'
  <2> SUFFICES ASSUME NEW i \in DOMAIN rq, rq[i].kind = "data"
               PROVE  rq[i].n <= sock'[rq[i].sock].next /\ Precedes(rq[i].n, sock'[rq[i].sock].inbound)
    BY <1>2, <1>6 DEF QueueInOrder, Parsing, Precedes
  <2>1. rq[i].n <= sock[rq[i].sock].next /\ Precedes(rq[i].n, sock[rq[i].sock].inbound)
    BY DEF IndInv, QueueInOrder
  <2> QED BY <1>10, <1>15, <1>17, <2>1
<1>21. CloseIsLast' /\ RequestsInOrder'
  BY <1>2 DEF IndInv, CloseIsLast, RequestsInOrder
<1> QED BY <1>12, <1>13, <1>14, <1>16, <1>18, <1>19, <1>20, <1>21 DEF IndInv

(* A chunk comes in behind the queue, or in front of it as overloaded.     *)
LEMMA InsertedChunk ==
  ASSUME Types, net.uid \in Uids, Cur \in Socks, NEW n \in Nat, n <= Len(net.batch)
  PROVE  LET q == Inserted(SubSeq(net.batch, 1, n), net.over)
             l == Len(rq)
         IN  /\ q \in Seq(Message) /\ DOMAIN q = 1 .. l + n
             /\ ~net.over => /\ \A i \in 1 .. l : q[i] = rq[i]
                             /\ \A i \in 1 .. n : /\ q[l + i].kind = "data" /\ q[l + i].sock = Cur
                                                  /\ q[l + i].n = net.batch[i]
             /\ net.over => /\ \A i \in 1 .. n : /\ q[i].kind = "overload" /\ q[i].sock = Cur
                                                 /\ q[i].n = net.batch[(n - i) + 1]
                            /\ \A i \in 1 .. l : q[n + i] = rq[i]
<1> DEFINE b == net.batch
           c == SubSeq(b, 1, n)
           kind == IF net.over THEN "overload" ELSE "data"
           msgs == [i \in DOMAIN c |-> Recv(kind, net.uid, Cur, c[i])]
           l == Len(rq)
           q == Inserted(c, net.over)
<1>1. b \in Seq(Nat) /\ rq \in Seq(Message) /\ net.over \in BOOLEAN
  BY DEF Types, NetThread
<1>2. c \in Seq(Nat) /\ DOMAIN c = 1 .. n /\ \A i \in 1 .. n : c[i] = b[i] /\ c[i] \in Nat
  BY <1>1
<1>3. q = IF net.over THEN Reverse(msgs) \o rq ELSE rq \o msgs
  BY DEF Inserted
<1> HIDE DEF b, c, q
<1>4. \A i \in 1 .. n : /\ Recv(kind, net.uid, Cur, c[i]) \in Message
                        /\ Recv(kind, net.uid, Cur, c[i]).kind = kind
                        /\ Recv(kind, net.uid, Cur, c[i]).sock = Cur
                        /\ Recv(kind, net.uid, Cur, c[i]).n = c[i]
  BY <1>2 DEF Recv, Message
<1>5. /\ msgs \in Seq(Message) /\ Len(msgs) = n
      /\ \A i \in 1 .. n : msgs[i].kind = kind /\ msgs[i].sock = Cur /\ msgs[i].n = c[i]
  BY <1>2, <1>4
<1>6. l \in Nat /\ DOMAIN rq = 1 .. l
  BY <1>1
<1> HIDE DEF msgs, kind, l
<1>7. CASE ~net.over
  <2>1. q = rq \o msgs /\ kind = "data"
    BY <1>3, <1>7 DEF kind
  <2>2. /\ q \in Seq(Message) /\ DOMAIN q = 1 .. l + n
        /\ \A i \in 1 .. l : q[i] = rq[i]
        /\ \A i \in 1 .. n : q[l + i] = msgs[i]
    <3>1. /\ q \in Seq(Message) /\ DOMAIN q = 1 .. Len(rq) + Len(msgs)
          /\ \A i \in 1 .. Len(rq) : q[i] = rq[i]
          /\ \A i \in 1 .. Len(msgs) : q[Len(rq) + i] = msgs[i]
      BY <1>1, <1>5, <2>1, Concatenated
    <3> QED BY <1>5, <3>1 DEF l
  <2> QED BY <1>2, <1>5, <1>7, <2>1, <2>2 DEF b, c, q, l
<1>8. CASE net.over
  <2> DEFINE r == Reverse(msgs)
  <2>1. q = r \o rq /\ kind = "overload"
    BY <1>3, <1>8 DEF kind
  <2>2. /\ r \in Seq(Message) /\ Len(r) = n
        /\ \A i \in 1 .. n : r[i] = msgs[(n - i) + 1] /\ (n - i) + 1 \in 1 .. n
    BY <1>5 DEF Reverse
  <2> HIDE DEF r
  <2>3. /\ q \in Seq(Message) /\ DOMAIN q = 1 .. l + n
        /\ \A i \in 1 .. n : q[i] = r[i]
        /\ \A i \in 1 .. l : q[n + i] = rq[i]
    <3>1. /\ q \in Seq(Message) /\ DOMAIN q = 1 .. n + Len(rq)
          /\ \A i \in 1 .. n : q[i] = r[i]
          /\ \A i \in 1 .. Len(rq) : q[n + i] = rq[i]
      BY <1>1, <2>1, <2>2, Concatenated
    <3>2. n + l = l + n
      BY <1>6
    <3> QED BY <3>1, <3>2 DEF l
  <2>4. \A i \in 1 .. n : q[i].kind = "overload" /\ q[i].sock = Cur /\ q[i].n = c[(n - i) + 1]
    BY <1>5, <2>1, <2>2, <2>3
  <2>5. \A i \in 1 .. n : c[(n - i) + 1] = b[(n - i) + 1]
    BY <1>2, <2>2
  <2> QED BY <1>8, <2>3, <2>4, <2>5 DEF b, c, q, l
<1> QED BY <1>1, <1>7, <1>8

LEMMA InsertChunkStep ==
  ASSUME IndInv, InsertChunk
  PROVE  IndInv'
<1> DEFINE b == net.batch
           n == net.chunk
           l == Len(rq)
           rest == SubSeq(b, n + 1, Len(b))
           m == Len(b)
<1>1. Types /\ sock \in [Socks -> Connection] /\ net \in NetThread /\ rq \in Seq(Message)
      /\ b \in Seq(Nat)
  BY DEF IndInv, Types, NetThread
<1>2. UNCHANGED <<free, slot, nconn, sock, sq, poke, mods, working>> /\ net.pc = "insert"
  BY DEF InsertChunk, At
<1>3. /\ net.uid \in Uids /\ Cur \in Socks
      /\ \A i \in DOMAIN rq : rq[i].sock = Cur => rq[i].kind # "closed"
  BY <1>2, CurIsOpen
<1>4. n \in Nat /\ n <= m /\ m \in Nat /\ \A i \in 1 .. n : b[i] # Bad
  <2>1. n \in Good /\ m \in Nat
    BY <1>1, <1>2 DEF IndInv, NetKnows
  <2> QED BY <2>1 DEF Good
<1>5. rq' = Inserted(SubSeq(b, 1, n), net.over)
  BY DEF InsertChunk
<1>6. /\ rq' \in Seq(Message) /\ DOMAIN rq' = 1 .. l + n /\ l \in Nat /\ DOMAIN rq = 1 .. l
      /\ ~net.over => /\ \A i \in 1 .. l : rq'[i] = rq[i]
                      /\ \A i \in 1 .. n : /\ rq'[l + i].kind = "data" /\ rq'[l + i].sock = Cur
                                           /\ rq'[l + i].n = b[i]
      /\ net.over => /\ \A i \in 1 .. n : rq'[i].kind = "overload" /\ rq'[i].sock = Cur
                     /\ \A i \in 1 .. l : rq'[n + i] = rq[i]
  BY <1>1, <1>3, <1>4, <1>5, InsertedChunk
<1>7. /\ rest \in Seq(Nat) /\ DOMAIN rest = 1 .. m - n /\ DOMAIN b = 1 .. m
      /\ \A i \in 1 .. m - n : n + i \in 1 .. m /\ rest[i] = b[n + i] /\ rest[i] \in Nat
  <2> HIDE DEF b, n
  <2> QED BY <1>1, <1>4, RestOf
<1>8. net' \in NetThread /\ net'.pc = "parse" /\ net'.uid = net.uid /\ net'.batch = rest
  <2> HIDE DEF rest
  <2>1. net' = [net EXCEPT !.pc = "parse", !.chunk = 0, !.over = FALSE, !.batch = rest]
    BY <1>1 DEF InsertChunk, rest, NetThread
  <2>2. ASSUME NEW c \in Nat, NEW o \in BOOLEAN, NEW t \in Seq(Nat),
               net' = [net EXCEPT !.pc = "parse", !.chunk = c, !.over = o, !.batch = t]
        PROVE  net' \in NetThread /\ net'.pc = "parse" /\ net'.uid = net.uid /\ net'.batch = t
    BY <1>1, <2>2 DEF NetThread, NetPc
  <2> QED BY <1>7, <2>1, <2>2
<1> HIDE DEF b, n, l, rest, m
(* A message of the queue is an old one or a packet of this chunk.         *)
<1>9. ASSUME NEW i \in DOMAIN rq'
      PROVE  \/ ~net.over /\ i \in 1 .. l /\ rq'[i] = rq[i]
             \/ ~net.over /\ i - l \in 1 .. n /\ rq'[i].kind = "data" /\ rq'[i].sock = Cur
                          /\ rq'[i].n = b[i - l]
             \/ net.over /\ i \in 1 .. n /\ rq'[i].kind = "overload" /\ rq'[i].sock = Cur
             \/ net.over /\ i - n \in 1 .. l /\ rq'[i] = rq[i - n]
  <2>1. CASE ~net.over /\ i <= l
    BY <1>4, <1>6, <2>1
  <2>2. CASE ~net.over /\ i > l
    <3>1. i - l \in 1 .. n /\ i = l + (i - l)
      BY <1>4, <1>6, <2>2
    <3> QED BY <1>6, <2>2, <3>1
  <2>3. CASE net.over /\ i <= n
    BY <1>4, <1>6, <2>3
  <2>4. CASE net.over /\ i > n
    <3>1. i - n \in 1 .. l /\ i = n + (i - n)
      BY <1>4, <1>6, <2>4
    <3> QED BY <1>6, <2>4, <3>1
  <2> QED BY <1>4, <1>6, <2>1, <2>2, <2>3, <2>4
<1>10. Types' /\ NetKnows' /\ CommandsAreSeen' /\ Cur' = Cur
  <2>1. Cur' = Cur /\ Cur # None
    BY <1>2, <1>3, <1>8, Constants DEF Cur
  <2>2. Types'
    BY <1>1, <1>2, <1>6, <1>8 DEF Types
  <2>3. NetKnows' /\ CommandsAreSeen'
    BY <1>2, <1>8, <2>1 DEF IndInv, NetKnows, CommandsAreSeen, At
  <2> QED BY <2>1, <2>2, <2>3
<1>11. ConnectionsAccounted' /\ SocketInOrder'
  BY <1>2 DEF IndInv, ConnectionsAccounted, SocketInOrder
<1>12. ToldAreClosed'
  <2> SUFFICES ASSUME NEW i \in DOMAIN rq', rq'[i].kind = "closed"
               PROVE  sock[rq'[i].sock].st = "closed"
    BY <1>2 DEF ToldAreClosed
  <2>1. PICK j \in DOMAIN rq : rq'[i] = rq[j]
    BY <1>6, <1>9
  <2> QED BY <1>2, <2>1 DEF IndInv, ToldAreClosed
<1>13. CloseIsLast'
  <2> SUFFICES ASSUME NEW i \in DOMAIN rq', NEW j \in DOMAIN rq', i < j, rq'[i].sock = rq'[j].sock,
                      rq'[i].kind = "closed"
               PROVE  FALSE
    BY DEF CloseIsLast
  <2>1. CASE ~net.over
    <3>1. i \in DOMAIN rq /\ rq'[i] = rq[i]
      BY <1>6, <1>9, <2>1
    <3>2. CASE rq'[j].sock = Cur
      BY <1>3, <3>1, <3>2
    <3>3. CASE rq'[j].sock # Cur
      <4>1. j \in DOMAIN rq /\ rq'[j] = rq[j]
        BY <1>6, <1>9, <2>1, <3>3
      <4> QED BY <3>1, <4>1 DEF IndInv, CloseIsLast
    <3> QED BY <3>2, <3>3
  <2>2. CASE net.over
    <3>1. i - n \in DOMAIN rq /\ rq'[i] = rq[i - n]
      BY <1>6, <1>9, <2>2
    <3>2. j - n \in DOMAIN rq /\ rq'[j] = rq[j - n] /\ i - n < j - n
      BY <1>4, <1>6, <1>9, <2>2, <3>1
    <3> QED BY <3>1, <3>2 DEF IndInv, CloseIsLast
  <2> QED BY <2>1, <2>2
<1>14. Sorted(b) /\ \A i \in DOMAIN b : /\ b[i] <= sock[Cur].next
                                        /\ b[i] # Bad => Precedes(b[i], sock[Cur].inbound)
  BY <1>2 DEF IndInv, BatchInOrder, Parsing, b
<1>15. BatchInOrder'
  <2>1. Sorted(rest)
    <3> SUFFICES ASSUME NEW i \in 1 .. m - n, NEW j \in 1 .. m - n, i < j, rest[i] # Bad, rest[j] # Bad
                 PROVE  rest[i] < rest[j]
      BY <1>7 DEF Sorted
    <3>1. n + i \in DOMAIN b /\ n + j \in DOMAIN b /\ n + i < n + j
      BY <1>4, <1>7
    <3> QED BY <1>7, <1>14, <3>1 DEF Sorted
  <2>2. \A i \in DOMAIN rest : /\ rest[i] <= sock[Cur].next
                               /\ rest[i] # Bad => Precedes(rest[i], sock[Cur].inbound)
    BY <1>7, <1>14
  <2> QED BY <1>2, <1>8, <1>10, <2>1, <2>2 DEF BatchInOrder
<1>16. QueueInOrder'
  <2> SUFFICES ASSUME NEW i \in DOMAIN rq', rq'[i].kind = "data"
               PROVE  /\ rq'[i].n <= sock[rq'[i].sock].next
                      /\ Precedes(rq'[i].n, sock[rq'[i].sock].inbound)
                      /\ Cur = rq'[i].sock => Precedes(rq'[i].n, rest)
    BY <1>2, <1>8, <1>10 DEF QueueInOrder
  <2>1. CASE \E j \in DOMAIN rq : rq'[i] = rq[j]
    <3>1. PICK j \in DOMAIN rq : rq'[i] = rq[j]
      BY <2>1
    <3>2. /\ rq[j].n <= sock[rq[j].sock].next
          /\ Precedes(rq[j].n, sock[rq[j].sock].inbound)
          /\ Cur = rq[j].sock => Precedes(rq[j].n, b)
      BY <1>2, <3>1 DEF IndInv, QueueInOrder, Parsing, b
    <3>3. Precedes(rq[j].n, b) => Precedes(rq[j].n, rest)
      BY <1>7 DEF Precedes
    <3> QED BY <3>1, <3>2, <3>3
  <2>2. CASE \E j \in 1 .. n : rq'[i].sock = Cur /\ rq'[i].n = b[j]
    <3>1. PICK j \in 1 .. n : rq'[i].sock = Cur /\ rq'[i].n = b[j]
      BY <2>2
    <3>2. j \in DOMAIN b /\ b[j] # Bad
      BY <1>4, <1>7
    <3>3. Precedes(b[j], rest)
      <4> SUFFICES ASSUME NEW h \in 1 .. m - n, rest[h] # Bad PROVE b[j] < rest[h]
        BY <1>7 DEF Precedes
      <4>1. n + h \in DOMAIN b /\ j < n + h /\ rest[h] = b[n + h]
        BY <1>4, <1>7
      <4> QED BY <1>14, <3>2, <4>1 DEF Sorted
    <3> QED BY <1>14, <3>1, <3>2, <3>3
  <2> QED BY <1>6, <1>9, <2>1, <2>2
<1>17. RequestsInOrder'
  <2> SUFFICES ASSUME NEW i \in DOMAIN rq', NEW j \in DOMAIN rq', i < j,
                      rq'[i].sock = rq'[j].sock, rq'[i].kind = "data", rq'[j].kind = "data"
               PROVE  rq'[i].n < rq'[j].n
    BY DEF RequestsInOrder
  <2>1. CASE net.over
    <3>1. /\ i - n \in DOMAIN rq /\ rq'[i] = rq[i - n]
          /\ j - n \in DOMAIN rq /\ rq'[j] = rq[j - n] /\ i - n < j - n
      BY <1>4, <1>6, <1>9, <2>1
    <3> QED BY <3>1 DEF IndInv, RequestsInOrder
  <2>2. CASE ~net.over /\ j \in 1 .. l
    <3>1. i \in DOMAIN rq /\ j \in DOMAIN rq /\ rq'[i] = rq[i] /\ rq'[j] = rq[j]
      BY <1>6, <2>2
    <3> QED BY <3>1 DEF IndInv, RequestsInOrder
  <2>3. CASE ~net.over /\ j \notin 1 .. l
    <3>1. j - l \in 1 .. n /\ rq'[j].sock = Cur /\ rq'[j].n = b[j - l]
          /\ j - l \in DOMAIN b /\ b[j - l] # Bad
      BY <1>4, <1>7, <1>9, <2>3
    <3>2. CASE i \in 1 .. l
      <4>1. i \in DOMAIN rq /\ rq'[i] = rq[i]
        BY <1>6, <2>3, <3>2
      <4>2. Precedes(rq[i].n, b)
        BY <1>2, <3>1, <4>1 DEF IndInv, QueueInOrder, Parsing, b
      <4> QED BY <3>1, <4>1, <4>2 DEF Precedes
    <3>3. CASE i \notin 1 .. l
      <4>1. i - l \in DOMAIN b /\ rq'[i].n = b[i - l] /\ b[i - l] # Bad /\ i - l < j - l
        BY <1>4, <1>6, <1>7, <1>9, <2>3, <3>3
      <4> QED BY <1>14, <3>1, <4>1 DEF Sorted
    <3> QED BY <3>2, <3>3
  <2> QED BY <2>1, <2>2, <2>3
<1> QED BY <1>10, <1>11, <1>12, <1>13, <1>15, <1>16, <1>17 DEF IndInv

-----------------------------------------------------------------------------
(***************************************************************************)
(* The invariant.                                                          *)
(***************************************************************************)
LEMMA InitIndInv ==
  ASSUME Init
  PROVE  IndInv
<1>1. Total \in Nat \ {0} /\ Uids = 1 .. Total
  BY TotalAssumption DEF Uids
<1>2. free = [u \in 1 .. Total |-> u] /\ Len(free) = Total /\ DOMAIN free = Uids
      /\ free \in Seq(Uids) /\ Range(free) = Uids
  <2>1. free = [u \in 1 .. Total |-> u]
    BY <1>1 DEF Init
  <2>2. DOMAIN free = 1 .. Total /\ \A u \in 1 .. Total : free[u] = u
    BY <2>1
  <2>3. free \in Seq(1 .. Total) /\ Len(free) = Total
    BY <1>1, <2>1
  <2>4. Range(free) = 1 .. Total
    BY <2>2 DEF Range
  <2> QED BY <1>1, <2>1, <2>2, <2>3, <2>4
<1>3. slot = [u \in Uids |-> None] /\ nconn = 0 /\ rq = <<>> /\ sq = <<>> /\ poke = FALSE
      /\ mods = 0 /\ working = {} /\ net = Idle /\ sock = [s \in Socks |-> Fresh]
  BY DEF Init
<1>4. Fresh \in Connection /\ Fresh.st = "away" /\ Fresh.inbound = <<>> /\ Fresh.next = 0
  <2>1. <<>> \in Seq(Nat)
    BY EmptyQueue
  <2> QED BY <2>1 DEF Fresh, Connection
<1>5. Idle \in NetThread /\ Idle.pc = "idle"
  <2>1. "idle" \in NetPc /\ 1 \in Uids
    BY TotalAssumption DEF NetPc, Uids
  <2> QED BY <2>1, IdleIsNetThread
<1>6. \A s \in Socks : sock[s] = Fresh
  BY <1>3
<1>7. Types
  <2>1. rq \in Seq(Message) /\ sq \in Seq(SendData)
    BY <1>3, EmptyQueue
  <2>2. sock \in [Socks -> Connection] /\ slot \in [Uids -> Socks \cup {None}]
    BY <1>3, <1>4
  <2>3. free \in Seq(Uids) /\ net \in NetThread
    BY <1>2, <1>3, <1>5
  <2>4. nconn \in Int /\ poke \in BOOLEAN /\ mods \in Nat
    <3>1. nconn = 0 /\ mods = 0
      BY <1>3
    <3>2. poke = FALSE
      BY <1>3
    <3>3. poke \in BOOLEAN
      BY <3>2, Zenon
    <3> QED BY <3>1, <3>3
  <2>5. working \subseteq [msg : Message, left : 1 .. 2]
    <3>1. working = {}
      BY DEF Init
    <3> QED BY <3>1, Zenon
  <2> QED BY <2>1, <2>2, <2>3, <2>4, <2>5 DEF Types
<1>8. ConnectionsAccounted
  <2>1. \A i, j \in DOMAIN free : free[i] = free[j] => i = j
    BY <1>1, <1>2
  <2>2. \A u \in Uids : slot[u] = None
    BY <1>3
  <2>3. \A s \in Socks : sock[s].st = "open" <=> \E u \in Uids : slot[u] = s
    BY <1>4, <1>6, <2>2, Constants
  <2> QED BY <1>1, <1>2, <1>3, <2>1, <2>2, <2>3 DEF ConnectionsAccounted
<1>9. NetKnows /\ CommandsAreSeen
  BY <1>3, <1>5 DEF NetKnows, CommandsAreSeen
<1>10. DOMAIN rq = {} /\ ToldAreClosed /\ CloseIsLast /\ QueueInOrder /\ RequestsInOrder
  BY <1>3 DEF ToldAreClosed, CloseIsLast, QueueInOrder, RequestsInOrder
<1>11. SocketInOrder /\ BatchInOrder
  <2>1. \A s \in Socks : DOMAIN sock[s].inbound = {}
    BY <1>4, <1>6
  <2> QED BY <1>3, <1>5, <2>1 DEF SocketInOrder, BatchInOrder, Parsing, Sorted
<1> QED BY <1>7, <1>8, <1>9, <1>10, <1>11 DEF IndInv

LEMMA NextIndInv ==
  ASSUME IndInv, [Next]_vars
  PROVE  IndInv'
<1>1. CASE \E s \in Socks : Client(s)
  BY <1>1, ClientStep
<1>2. CASE Net
  <2>1. CASE \E s \in Socks : Accept(s) \/ Refuse(s)
    BY <2>1, AcceptStep, IdleStep
  <2>2. CASE \E u \in Uids : NetEvent(u)
    BY <2>2, IdleStep
  <2>3. CASE Read \/ CheckChunk \/ InsertChunk \/ ParseEnds \/ Write
    BY <2>3, ReadStep, CheckChunkStep, InsertChunkStep, ParseEndsStep, WriteStep
  <2>4. CASE DelNotify \/ DelFree
    BY <2>4, DelNotifyStep, DelFreeStep
  <2>5. CASE NotifyEvent \/ Swap \/ PipeClose \/ PipeSend
    BY <2>5, IdleStep, PipeCloseStep, PipeSendStep
  <2> QED BY <1>2, <2>1, <2>2, <2>3, <2>4, <2>5 DEF Net
<1>3. CASE \E u \in Uids : Timeout(u)
  BY <1>3, IdleStep
<1>4. CASE Handles
  BY <1>4, TakeStep, AnswerStep, NotifyStep DEF Handles
<1>5. CASE UNCHANGED vars
  <2>1. UNCHANGED <<free, slot, nconn, sock, rq, sq, poke, mods, net, working>>
    BY <1>5 DEF vars
  <2>2. Types' /\ CommandsAreSeen'
    BY <2>1 DEF IndInv, Types, CommandsAreSeen, At
  <2> QED BY <2>1, <2>2, SameForHandles, QuietStep
<1> QED BY <1>1, <1>2, <1>3, <1>4, <1>5 DEF Next

(* The strengthening that the theorems below rest on holds always.         *)
THEOREM IndInvIsInvariant == Spec => []IndInv
<1>1. Init => IndInv
  BY InitIndInv
<1>2. IndInv /\ [Next]_vars => IndInv'
  BY NextIndInv
<1> QED BY <1>1, <1>2, PTL DEF Spec

(* The free list, the table and the counter of the connections agree,      *)
(* whichever way connections end: an accept below the limit finds a uid.   *)
THEOREM ConnectionsStayAccounted == Spec => []ConnectionsAccounted
<1>1. IndInv => ConnectionsAccounted
  BY DEF IndInv
<1> QED BY <1>1, IndInvIsInvariant, PTL

(* A command that a handle has put into the send queue is never left there *)
(* without an event of _notify to come, however pushes and events cross.   *)
THEOREM CommandsStaySeen == Spec => []CommandsAreSeen
<1>1. IndInv => CommandsAreSeen
  BY DEF IndInv
<1> QED BY <1>1, IndInvIsInvariant, PTL

(* The close notification of a connection stays the last of its messages   *)
(* in the receive queue, also when overloaded messages jump the queue.     *)
THEOREM CloseStaysLast == Spec => []CloseIsLast
<1>1. IndInv => CloseIsLast
  BY DEF IndInv
<1> QED BY <1>1, IndInvIsInvariant, PTL

(* The requests of a connection stay in the client's order, in whatever    *)
(* chunks they are inserted and whatever is refused in between.            *)
THEOREM RequestsStayInOrder == Spec => []RequestsInOrder
<1>1. IndInv => RequestsInOrder
  BY DEF IndInv
<1> QED BY <1>1, IndInvIsInvariant, PTL

-----------------------------------------------------------------------------
(***************************************************************************)
(* How much there is: the bounds of the types, one close notification per  *)
(* connection, and the requests in the queue.  Proved on top of IndInv.    *)
(***************************************************************************)
SocketsBounded ==
  \A s \in Socks : Len(sock[s].inbound) <= sock[s].next /\ sock[s].next <= MaxReq

BatchBounded ==
  /\ Len(net.batch) <= MaxReq /\ net.chunk <= MaxReq
  /\ \A i \in DOMAIN net.batch : net.batch[i] <= MaxReq

NumbersBounded ==
  /\ \A i \in DOMAIN rq : rq[i].n <= MaxReq
  /\ \A w \in working : w.msg.n <= MaxReq

(* The close notifications in the hands of the handles: of connections     *)
(* that are closed, one for each, and none is left in the queue.           *)
Closed(w) == w.msg.kind = "closed"

TakenAreClosed ==
  \A w \in working : Closed(w) =>
    /\ sock[w.msg.sock].st = "closed" \/ (net.pc = "free" /\ Cur = w.msg.sock)
    /\ \A v \in working : Closed(v) /\ v.msg.sock = w.msg.sock => v = w
    /\ \A i \in DOMAIN rq : rq[i].kind = "closed" => rq[i].sock # w.msg.sock

(* A chunk that was not refused for overload still has its room: only the  *)
(* net thread adds to the queue.                                           *)
RoomWasLeft == net.pc = "insert" /\ ~net.over => Len(rq) <= Capacity

CountInv ==
  /\ SocketsBounded /\ BatchBounded /\ NumbersBounded /\ mods <= MaxMods
  /\ TakenAreClosed
  /\ RoomWasLeft /\ QueueIsBounded

-----------------------------------------------------------------------------
(***************************************************************************)
(* Which steps touch what.                                                 *)
(***************************************************************************)
LEMMA QueueSteps ==
  ASSUME [Next]_vars
  PROVE  rq' = rq \/ InsertChunk \/ DelNotify \/ Take
<1>1. CASE UNCHANGED vars
  BY <1>1 DEF vars
<1>2. CASE \E s \in Socks : Client(s)
  BY <1>2 DEF Client, Connect, Request, Hangup, Writable
<1>3. CASE Net
  BY <1>3 DEF Net, Accept, Refuse, NetEvent, Read, CheckChunk, ParseEnds, Write, DelFree,
              NotifyEvent, Swap, PipeClose, PipeSend
<1>4. CASE \E u \in Uids : Timeout(u)
  BY <1>4 DEF Timeout
<1>5. CASE Handles
  BY <1>5 DEF Handles, Finish, handleClose, Notify
<1> QED BY <1>1, <1>2, <1>3, <1>4, <1>5 DEF Next

LEMMA WorkingSteps ==
  ASSUME [Next]_vars
  PROVE  working' = working \/ Take \/ \E w \in working : Finish(w) \/ handleClose(w)
<1>1. CASE UNCHANGED vars
  BY <1>1 DEF vars
<1>2. CASE \E s \in Socks : Client(s)
  BY <1>2 DEF Client, Connect, Request, Hangup, Writable
<1>3. CASE Net
  BY <1>3 DEF Net, Accept, Refuse, NetEvent, Read, CheckChunk, InsertChunk, ParseEnds, Write,
              DelNotify, DelFree, NotifyEvent, Swap, PipeClose, PipeSend
<1>4. CASE \E u \in Uids : Timeout(u)
  BY <1>4 DEF Timeout
<1>5. CASE Handles
  BY <1>5 DEF Handles, Notify
<1> QED BY <1>1, <1>2, <1>3, <1>4, <1>5 DEF Next

(* What has packets or a chunk in hand, the net thread had in hand before, *)
(* but for what it has read or taken just now.                             *)
LEMMA BatchSteps ==
  ASSUME IndInv, [Next]_vars
  PROVE  \/ net'.batch = net.batch /\ net'.chunk = net.chunk
         \/ net'.batch = <<>> /\ net'.chunk \in {0, net.chunk}
         \/ Read \/ CheckChunk \/ InsertChunk
<1>0. net \in NetThread /\ Idle.batch = <<>> /\ Idle.chunk = 0
  BY DEF IndInv, Types, Idle
<1>1. CASE net' = net
  BY <1>1
<1>2. CASE \E s \in Socks : Client(s)
  BY <1>2 DEF Client, Connect, Request, Hangup, Writable
<1>3. ASSUME NEW p \in NetPc, NEW u \in Uids, net' = [Idle EXCEPT !.pc = p, !.uid = u]
      PROVE  net'.batch = <<>> /\ net'.chunk = 0
  BY <1>0, <1>3 DEF Idle
<1>4. ASSUME NEW p \in NetPc, net' = [Idle EXCEPT !.pc = p]
      PROVE  net'.batch = <<>> /\ net'.chunk = 0
  BY <1>0, <1>4 DEF Idle
<1>5. CASE net' = Idle
  BY <1>0, <1>5
<1>6. ASSUME NEW p \in NetPc, net' = [net EXCEPT !.pc = p]
      PROVE  net'.batch = net.batch /\ net'.chunk = net.chunk
  BY <1>0, <1>6 DEF NetThread
<1>7. CASE Net
  <2>1. CASE \E s \in Socks : Accept(s) \/ Refuse(s)
    BY <1>1, <2>1 DEF Accept, Refuse
  <2>2. ASSUME NEW u \in Uids, NetEvent(u) PROVE net'.batch = <<>> /\ net'.chunk = 0
    <3>1. PICK p \in {"recv", "del"} : net' = [Idle EXCEPT !.pc = p, !.uid = u]
      BY <2>2 DEF NetEvent
    <3> QED BY <1>3, <3>1 DEF NetPc
  <2>3. CASE ParseEnds
    <3>1. net' = [net EXCEPT !.pc = "write"] \/ net' = [net EXCEPT !.pc = "del", !.batch = <<>>]
      BY <2>3 DEF ParseEnds
    <3>2. CASE net' = [net EXCEPT !.pc = "del", !.batch = <<>>]
      BY <1>0, <3>2 DEF NetThread
    <3> QED BY <1>6, <3>1, <3>2 DEF NetPc
  <2>4. CASE Write
    <3>1. net' = Idle \/ net' = [net EXCEPT !.pc = "del"]
      BY <2>4 DEF Write
    <3> QED BY <1>5, <1>6, <3>1 DEF NetPc, Idle
  <2>5. CASE DelNotify
    BY <1>6, <2>5 DEF DelNotify, NetPc
  <2>6. CASE DelFree
    <3>1. net' = Idle \/ net' = [net EXCEPT !.pc = "pipe"]
      BY <2>6 DEF DelFree
    <3> QED BY <1>5, <1>6, <3>1 DEF NetPc, Idle
  <2>7. CASE NotifyEvent
    BY <1>4, <2>7 DEF NotifyEvent, NetPc
  <2>8. CASE Swap
    <3>1. net' = Idle \/ net' = [net EXCEPT !.pc = "pipe", !.pipe = sq]
      BY <2>8 DEF Swap
    <3>2. CASE net' = [net EXCEPT !.pc = "pipe", !.pipe = sq]
      BY <1>0, <3>2 DEF NetThread
    <3> QED BY <1>5, <3>1, <3>2 DEF Idle
  <2>9. ASSUME NEW d \in BOOLEAN, PipeNext(d)
        PROVE  \/ net'.batch = net.batch /\ net'.chunk = net.chunk
               \/ net'.batch = <<>> /\ net'.chunk = 0
    <3>1. \/ net' = Idle
          \/ net' = [net EXCEPT !.pipe = Tail(net.pipe)]
          \/ net' = [net EXCEPT !.pc = "del", !.uid = Head(net.pipe).uid, !.pipe = Tail(net.pipe)]
      BY <2>9 DEF PipeNext
    <3>2. CASE net' = [net EXCEPT !.pipe = Tail(net.pipe)]
      BY <1>0, <3>2 DEF NetThread
    <3>3. CASE net' = [net EXCEPT !.pc = "del", !.uid = Head(net.pipe).uid, !.pipe = Tail(net.pipe)]
      BY <1>0, <3>3 DEF NetThread
    <3> QED BY <1>5, <3>1, <3>2, <3>3 DEF Idle
  <2>10. CASE PipeClose
    <3>1. PipeNext(FALSE) \/ PipeNext(~sock[slot[Head(net.pipe).uid]].buffered)
      BY <2>10 DEF PipeClose
    <3>2. PipeNext(FALSE) \/ PipeNext(TRUE)
      BY <3>1 DEF PipeNext
    <3> QED BY <2>9, <3>2
  <2>11. CASE PipeSend
    <3>1. \E d : PipeNext(d)
      BY <2>11 DEF PipeSend
    <3>2. PipeNext(FALSE) \/ PipeNext(TRUE)
      BY <3>1 DEF PipeNext
    <3> QED BY <2>9, <3>2
  <2> QED BY <1>7, <2>1, <2>2, <2>3, <2>4, <2>5, <2>6, <2>7, <2>8, <2>10, <2>11 DEF Net
<1>8. ASSUME NEW u \in Uids, Timeout(u) PROVE net'.batch = <<>> /\ net'.chunk = 0
  BY <1>3, <1>8 DEF Timeout, NetPc
<1>9. CASE Handles
  BY <1>1, <1>9 DEF Handles, Take, Finish, handleClose, Notify
<1>10. CASE UNCHANGED vars
  BY <1>1, <1>10 DEF vars
<1> QED BY <1>2, <1>7, <1>8, <1>9, <1>10 DEF Next

(* Only the deletion leads away from its second half.                      *)
LEMMA FreeSteps ==
  ASSUME [Next]_vars, net.pc = "free"
  PROVE  (net' = net /\ slot' = slot) \/ DelFree
<1>1. CASE UNCHANGED vars
  BY <1>1 DEF vars
<1>2. CASE \E s \in Socks : Client(s)
  BY <1>2 DEF Client, Connect, Request, Hangup, Writable
<1>3. CASE Net
  BY <1>3 DEF Net, Accept, Refuse, NetEvent, Read, CheckChunk, InsertChunk, ParseEnds, Write,
              DelNotify, NotifyEvent, Swap, PipeClose, PipeSend, At
<1>4. CASE \E u \in Uids : Timeout(u)
  BY <1>4 DEF Timeout, At
<1>5. CASE Handles
  BY <1>5 DEF Handles, Take, Finish, handleClose, Notify
<1> QED BY <1>1, <1>2, <1>3, <1>4, <1>5 DEF Next

(* What a step does to one connection c: a closed one stays closed, and    *)
(* the packets that are there grow by one that is counted, stay, or go.    *)
Advances(c, k) ==
  /\ c.st = "closed" => k.st = "closed"
  /\ \/ k.inbound = c.inbound /\ k.next = c.next
     \/ k.inbound = <<>> /\ k.next = c.next
     \/ /\ \E p \in Nat : k.inbound = Append(c.inbound, p)
        /\ k.next = c.next + 1 /\ c.next < MaxReq

LEMMA SocketSteps ==
  ASSUME IndInv, [Next]_vars
  PROVE  \A s \in Socks : Advances(sock[s], sock'[s])
<1>0. Types /\ sock \in [Socks -> Connection] /\ \A s \in Socks : sock[s] \in Connection
  BY DEF IndInv, Types
<1>1. CASE sock' = sock
  BY <1>1 DEF Advances
<1>2. ASSUME NEW t \in Socks, NEW k \in Connection, sock' = [sock EXCEPT ![t] = k],
             Advances(sock[t], k)
      PROVE  \A s \in Socks : Advances(sock[s], sock'[s])
  <2>1. sock'[t] = k /\ \A s \in Socks \ {t} : sock'[s] = sock[s]
    BY <1>0, <1>2, OneConnection
  <2> QED BY <1>2, <2>1 DEF Advances
<1>3. ASSUME NEW s \in Socks, Client(s) PROVE \A t \in Socks : Advances(sock[t], sock'[t])
  <2>1. PICK k \in Connection :
           /\ sock' = [sock EXCEPT ![s] = k]
           /\ k.st = sock[s].st \/ (sock[s].st = "away" /\ k.st = "backlog")
           /\ \/ k.inbound = sock[s].inbound /\ k.next = sock[s].next
              \/ \E p \in {sock[s].next + 1, Bad} :
                   /\ k.inbound = Append(sock[s].inbound, p) /\ k.next = sock[s].next + 1
                   /\ sock[s].next < MaxReq
    BY <1>0, <1>3, ClientConnection
  <2>2. sock[s].next \in Nat /\ {sock[s].next + 1, Bad} \subseteq Nat
    BY <1>0, Constants DEF Connection
  <2>3. Advances(sock[s], k)
    BY <2>1, <2>2 DEF Advances
  <2> QED BY <1>2, <2>1, <2>3
<1>4. CASE Net
  <2>1. ASSUME NEW s \in Socks, Accept(s) \/ Refuse(s)
        PROVE  \A t \in Socks : Advances(sock[t], sock'[t])
    <3>1. sock[s].st = "backlog"
      BY <2>1 DEF Accept, Refuse
    <3>2. CASE Accept(s)
      <4> DEFINE k == [sock[s] EXCEPT !.st = "open", !.edge = TRUE]
      <4>1. k \in Connection /\ Advances(sock[s], k)
        BY <1>0, <3>1 DEF Connection, Advances
      <4>2. sock' = [sock EXCEPT ![s] = k]
        BY <1>0, <3>2 DEF Accept
      <4> QED BY <1>2, <4>1, <4>2
    <3>3. CASE Refuse(s)
      <4> DEFINE k == [sock[s] EXCEPT !.st = "away"]
      <4>1. k \in Connection /\ Advances(sock[s], k)
        BY <1>0, <3>1 DEF Connection, Advances
      <4>2. sock' = [sock EXCEPT ![s] = k]
        BY <1>0, <3>3 DEF Refuse
      <4> QED BY <1>2, <4>1, <4>2
    <3> QED BY <2>1, <3>2, <3>3
  <2>2. ASSUME NEW u \in Uids, NetEvent(u) PROVE \A t \in Socks : Advances(sock[t], sock'[t])
    <3> DEFINE s == slot[u]
               k == [sock[s] EXCEPT !.edge = FALSE]
    <3>1. s \in Socks
      BY <1>0, <2>2 DEF NetEvent, Types
    <3>2. sock' = [sock EXCEPT ![s].edge = FALSE]
      BY <2>2 DEF NetEvent
    <3> HIDE DEF s
    <3>3. sock' = [sock EXCEPT ![s] = k]
      BY <1>0, <3>1, <3>2
    <3>4. sock[s] \in Connection
      BY <1>0, <3>1
    <3>5. k \in Connection /\ Advances(sock[s], k)
      BY <3>4 DEF Connection, Advances
    <3> QED BY <1>2, <3>1, <3>3, <3>5
  <2>3. CASE Read
    <3>1. Cur \in Socks
      BY <2>3, CurIsOpen DEF Read, At
    <3>2. PICK k \in Connection :
            /\ sock' = [sock EXCEPT ![Cur] = k]
            /\ k.st = sock[Cur].st /\ k.inbound = <<>> /\ k.next = sock[Cur].next
      BY <1>0, <2>3, <3>1, ReadConnection
    <3>3. Advances(sock[Cur], k)
      BY <3>2 DEF Advances
    <3> QED BY <1>2, <3>1, <3>2, <3>3
  <2>4. CASE Write
    <3>1. Cur \in Socks
      BY <2>4, CurIsOpen DEF Write, At
    <3>2. ASSUME NEW r \in Sent(sock[Cur]), sock' = [sock EXCEPT ![Cur] = r.k]
          PROVE  \A t \in Socks : Advances(sock[t], sock'[t])
      <4>1. r.k \in Connection /\ r.k.st = sock[Cur].st /\ r.k.inbound = sock[Cur].inbound
            /\ r.k.next = sock[Cur].next
        BY <1>0, <3>1, SentIsConnection
      <4> QED BY <1>2, <3>1, <3>2, <4>1 DEF Advances
    <3>3. sock' = sock \/ \E r \in Sent(sock[Cur]) : sock' = [sock EXCEPT ![Cur] = r.k]
      BY <2>4 DEF Write
    <3> QED BY <1>1, <3>2, <3>3
  <2>5. CASE DelFree
    <3> DEFINE k == [sock[Cur] EXCEPT !.st = "closed", !.edge = FALSE, !.inbound = <<>>]
    <3>1. Cur \in Socks /\ <<>> \in Seq(Nat)
      BY <2>5, CurIsOpen, EmptyQueue DEF DelFree, At
    <3>2. k \in Connection /\ Advances(sock[Cur], k)
      BY <1>0, <3>1 DEF Connection, Advances
    <3>3. sock' = [sock EXCEPT ![Cur] = k]
      BY <1>0, <2>5, <3>1 DEF DelFree
    <3> QED BY <1>2, <3>1, <3>2, <3>3
  <2>6. CASE PipeClose \/ PipeSend
    <3> DEFINE u == Head(net.pipe).uid
               s == slot[u]
    <3>1. u \in Uids
      <4>1. net.pipe \in Seq(SendData) /\ net.pipe # <<>>
        BY <1>0, <2>6 DEF Types, NetThread, IndInv, NetKnows, PipeClose, PipeSend, At
      <4>2. Head(net.pipe) \in SendData
        BY <4>1
      <4> QED BY <4>2 DEF SendData
    <3>2. s \in Socks \cup {None}
      BY <1>0, <3>1 DEF Types
    <3>3. ASSUME s # None,
                 sock' = [sock EXCEPT ![s].bClose = TRUE, ![s].missed = @ \cup PutOff(sock[s])]
          PROVE  \A t \in Socks : Advances(sock[t], sock'[t])
      <4> DEFINE k == [sock[s] EXCEPT !.bClose = TRUE, !.missed = @ \cup PutOff(sock[s])]
      <4> HIDE DEF s
      <4>1. sock[s] \in Connection
        BY <1>0, <3>2, <3>3
      <4>2. k \in Connection /\ Advances(sock[s], k)
        BY <4>1 DEF Connection, Advances, PutOff
      <4>3. sock' = [sock EXCEPT ![s] = k]
        BY <1>0, <3>2, <3>3
      <4> QED BY <1>2, <3>2, <3>3, <4>2, <4>3
    <3> DEFINE c == [sock[s] EXCEPT !.unsent = @ + 1, !.buffered = TRUE]
    <3>4. ASSUME s # None, NEW r \in Sent(c), sock' = [sock EXCEPT ![s] = r.k]
          PROVE  \A t \in Socks : Advances(sock[t], sock'[t])
      <4>1. c \in Connection /\ c.st = sock[s].st /\ c.inbound = sock[s].inbound
            /\ c.next = sock[s].next
        <5> HIDE DEF s
        <5>1. sock[s] \in Connection
          BY <1>0, <3>2, <3>4
        <5>2. sock[s].unsent \in Nat /\ sock[s].unsent + 1 \in Nat
          BY <5>1 DEF Connection
        <5> QED BY <5>1, <5>2 DEF Connection
      <4> HIDE DEF c
      <4>2. r.k \in Connection /\ r.k.st = c.st /\ r.k.inbound = c.inbound /\ r.k.next = c.next
        BY <3>4, <4>1, SentIsConnection
      <4> QED BY <1>2, <3>2, <3>4, <4>1, <4>2 DEF Advances
    <3>5. CASE PipeClose
      BY <1>1, <3>3, <3>5 DEF PipeClose
    <3>6. CASE PipeSend
      <4>1. sock' = sock \/ (s # None /\ \E r \in Sent(c) : sock' = [sock EXCEPT ![s] = r.k])
        BY <3>6 DEF PipeSend
      <4> HIDE DEF c, s
      <4>2. CASE s # None /\ \E r \in Sent(c) : sock' = [sock EXCEPT ![s] = r.k]
        <5>1. PICK r \in Sent(c) : sock' = [sock EXCEPT ![s] = r.k]
          BY <4>2
        <5> QED BY <3>4, <4>2, <5>1
      <4> QED BY <1>1, <4>1, <4>2
    <3> QED BY <2>6, <3>5, <3>6
  <2>7. CASE CheckChunk \/ InsertChunk \/ ParseEnds \/ DelNotify \/ NotifyEvent \/ Swap
    BY <1>1, <2>7 DEF CheckChunk, InsertChunk, ParseEnds, DelNotify, NotifyEvent, Swap
  <2> QED BY <1>4, <2>1, <2>2, <2>3, <2>4, <2>5, <2>6, <2>7 DEF Net
<1>5. CASE \E u \in Uids : Timeout(u)
  BY <1>1, <1>5 DEF Timeout
<1>6. CASE Handles
  BY <1>1, <1>6 DEF Handles, Take, Finish, handleClose, Notify
<1>7. CASE UNCHANGED vars
  BY <1>1, <1>7 DEF vars
<1> QED BY <1>3, <1>4, <1>5, <1>6, <1>7 DEF Next

-----------------------------------------------------------------------------
(***************************************************************************)
(* How many requests a queue holds.                                        *)
(***************************************************************************)
Data(q) == {i \in DOMAIN q : q[i].kind = "data"}

LEMMA DataIsFinite ==
  ASSUME NEW q \in Seq(Message)
  PROVE  IsFiniteSet(Data(q)) /\ Cardinality(Data(q)) \in Nat /\ Cardinality(Data(q)) <= Len(q)
<1>1. Len(q) \in Nat /\ Data(q) \subseteq 1 .. Len(q)
  BY DEF Data
<1>2. IsFiniteSet(1 .. Len(q)) /\ Cardinality(1 .. Len(q)) = Len(q)
  <2>1. Cardinality(1 .. Len(q)) = IF 1 > Len(q) THEN 0 ELSE Len(q) - 1 + 1
    BY <1>1, FS_Interval
  <2> QED BY <1>1, <2>1, FS_Interval
<1>3. IsFiniteSet(Data(q)) /\ Cardinality(Data(q)) <= Cardinality(1 .. Len(q))
  BY <1>1, <1>2, FS_Subset
<1> QED BY <1>2, <1>3, FS_CardinalityType

(* The requests of q are requests of p, d places further on.               *)
LEMMA DataMoved ==
  ASSUME NEW p \in Seq(Message), NEW q \in Seq(Message), NEW d \in Int,
         \A i \in DOMAIN q : q[i].kind = "data" => i + d \in DOMAIN p /\ p[i + d].kind = "data"
  PROVE  Cardinality(Data(q)) <= Cardinality(Data(p))
<1> DEFINE f == [i \in Data(q) |-> i + d]
<1>1. Data(q) \subseteq Nat /\ \A i \in Data(q) : i + d \in Data(p)
  BY DEF Data
<1>2. f \in [Data(q) -> Data(p)] /\ \A i, j \in Data(q) : f[i] = f[j] => i = j
  BY <1>1
<1>3. f \in Injection(Data(q), Data(p))
  BY <1>2 DEF Injection, IsInjective
<1> HIDE DEF f
<1> QED BY <1>3, DataIsFinite, FS_Injection

-----------------------------------------------------------------------------
(***************************************************************************)
(* The conjuncts of CountInv, one by one.                                  *)
(***************************************************************************)
LEMMA SocketsStayBounded ==
  ASSUME IndInv, [Next]_vars, SocketsBounded
  PROVE  SocketsBounded'
<1> SUFFICES ASSUME NEW s \in Socks
             PROVE  Len(sock'[s].inbound) <= sock'[s].next /\ sock'[s].next <= MaxReq
  BY DEF SocketsBounded
<1> DEFINE c == sock[s]
           k == sock'[s]
<1>1. c.next \in Nat /\ c.inbound \in Seq(Nat) /\ Len(c.inbound) \in Nat
  <2>1. c \in Connection
    BY DEF IndInv, Types
  <2> QED BY <2>1 DEF Connection
<1>2. Len(c.inbound) <= c.next /\ c.next <= MaxReq /\ MaxReq \in Nat
  BY Constants DEF SocketsBounded
<1>3. Advances(c, k)
  BY SocketSteps
<1> HIDE DEF c, k
<1>4. ASSUME k.inbound = <<>>, k.next = c.next
      PROVE  Len(k.inbound) <= k.next /\ k.next <= MaxReq
  BY <1>1, <1>2, <1>4
<1>5. ASSUME \E p \in Nat : k.inbound = Append(c.inbound, p), k.next = c.next + 1, c.next < MaxReq
      PROVE  Len(k.inbound) <= k.next /\ k.next <= MaxReq
  <2>1. Len(k.inbound) = Len(c.inbound) + 1
    BY <1>1, <1>5
  <2> QED BY <1>1, <1>2, <1>5, <2>1
<1>6. Len(k.inbound) <= k.next /\ k.next <= MaxReq
  BY <1>2, <1>3, <1>4, <1>5 DEF Advances
<1> QED BY <1>6 DEF k

LEMMA BatchStaysBounded ==
  ASSUME IndInv, [Next]_vars, SocketsBounded, BatchBounded
  PROVE  BatchBounded'
<1>1. Types /\ net \in NetThread /\ net.batch \in Seq(Nat) /\ Len(net.batch) \in Nat
      /\ net.chunk \in Nat /\ MaxReq \in Nat
  BY Constants DEF IndInv, Types, NetThread
<1>2. CASE net'.batch = net.batch /\ net'.chunk = net.chunk
  BY <1>2 DEF BatchBounded
<1>3. CASE net'.batch = <<>> /\ net'.chunk \in {0, net.chunk}
  BY <1>1, <1>3 DEF BatchBounded
<1>4. CASE Read
  <2> DEFINE k == sock[Cur]
  <2>1. Cur \in Socks
    BY <1>4, CurIsOpen DEF Read, At
  <2>2. k \in Connection
    BY <1>1, <2>1 DEF Types
  <2>3. /\ k.inbound \in Seq(Nat) /\ k.next \in Nat /\ Len(k.inbound) \in Nat
        /\ Len(k.inbound) <= k.next /\ k.next <= MaxReq
        /\ \A i \in DOMAIN k.inbound : k.inbound[i] \in Nat /\ k.inbound[i] <= k.next
    BY <2>1, <2>2 DEF Connection, SocketsBounded, IndInv, SocketInOrder
  <2>4. net' = [net EXCEPT !.pc = "parse", !.batch = k.inbound] \/ net' = [net EXCEPT !.pc = "del"]
    BY <1>4 DEF Read
  <2> HIDE DEF k
  <2>5. CASE net' = [net EXCEPT !.pc = "parse", !.batch = k.inbound]
    <3>1. net'.batch = k.inbound /\ net'.chunk = net.chunk
      BY <1>1, <2>5 DEF NetThread
    <3> QED BY <1>1, <2>3, <3>1 DEF BatchBounded
  <2>6. CASE net' = [net EXCEPT !.pc = "del"]
    <3>1. net'.batch = net.batch /\ net'.chunk = net.chunk
      BY <1>1, <2>6 DEF NetThread
    <3> QED BY <3>1 DEF BatchBounded
  <2> QED BY <2>4, <2>5, <2>6
<1>5. CASE CheckChunk
  <2>1. PICK k \in Good : net' = [net EXCEPT !.pc = "insert", !.chunk = k, !.over = isOverload]
    BY <1>5 DEF CheckChunk
  <2>2. net'.batch = net.batch /\ net'.chunk = k
    BY <1>1, <2>1 DEF NetThread
  <2>3. k \in 1 .. Len(net.batch)
    BY <2>1 DEF Good
  <2> QED BY <1>1, <2>2, <2>3 DEF BatchBounded
<1>6. CASE InsertChunk
  <2> DEFINE b == net.batch
             n == net.chunk
             rest == SubSeq(b, n + 1, Len(b))
  <2>1. net' = [net EXCEPT !.pc = "parse", !.chunk = 0, !.over = FALSE, !.batch = rest]
    BY <1>6 DEF InsertChunk
  <2>2. net'.batch = rest /\ net'.chunk = 0
    BY <1>1, <2>1 DEF NetThread
  <2>3. b \in Seq(Nat) /\ n \in Nat /\ n <= Len(b)
    BY <1>1, <1>6 DEF IndInv, NetKnows, InsertChunk, At, Good
  <2>4. /\ rest \in Seq(Nat) /\ DOMAIN rest = 1 .. Len(b) - n
        /\ \A i \in 1 .. Len(b) - n : n + i \in 1 .. Len(b) /\ rest[i] = b[n + i]
    <3> HIDE DEF b, n
    <3> QED BY <2>3, RestOf
  <2> HIDE DEF rest
  <2>5. Len(rest) = Len(b) - n
    BY <1>1, <2>3, <2>4
  <2>6. DOMAIN b = 1 .. Len(b)
    BY <1>1
  <2> QED BY <1>1, <2>2, <2>3, <2>4, <2>5, <2>6 DEF BatchBounded
<1> QED BY <1>2, <1>3, <1>4, <1>5, <1>6, BatchSteps

(* What InsertChunk leaves in the queue: the chunk, in front or behind.    *)
LEMMA ChunkInQueue ==
  ASSUME IndInv, InsertChunk
  PROVE  LET l == Len(rq)
             n == net.chunk
         IN  /\ rq' \in Seq(Message) /\ DOMAIN rq' = 1 .. l + n /\ Len(rq') = l + n
             /\ rq \in Seq(Message) /\ l \in Nat /\ DOMAIN rq = 1 .. l
             /\ n \in Nat /\ n <= Len(net.batch)
             /\ Cur \in Socks /\ net.uid \in Uids
             /\ ~net.over => /\ \A i \in 1 .. l : rq'[i] = rq[i]
                             /\ \A i \in 1 .. n : /\ rq'[l + i].kind = "data" /\ rq'[l + i].sock = Cur
                                                  /\ rq'[l + i].n = net.batch[i]
             /\ net.over => /\ \A i \in 1 .. n : /\ rq'[i].kind = "overload" /\ rq'[i].sock = Cur
                                                 /\ rq'[i].n = net.batch[(n - i) + 1]
                            /\ \A i \in 1 .. l : rq'[n + i] = rq[i]
<1> DEFINE l == Len(rq)
           n == net.chunk
<1>1. Types /\ net.pc = "insert" /\ net.uid \in Uids /\ Cur \in Socks /\ n \in Nat
      /\ rq' = Inserted(SubSeq(net.batch, 1, n), net.over) /\ rq \in Seq(Message)
  BY CurIsOpen DEF IndInv, Types, NetThread, InsertChunk, At
<1>2. n <= Len(net.batch)
  BY <1>1 DEF IndInv, NetKnows, Good
<1>3. l \in Nat /\ DOMAIN rq = 1 .. l
  BY <1>1
<1> QED BY <1>1, <1>2, <1>3, InsertedChunk

LEMMA NumbersStayBounded ==
  ASSUME IndInv, [Next]_vars, BatchBounded, NumbersBounded
  PROVE  NumbersBounded'
<1>1. Types /\ rq \in Seq(Message) /\ DOMAIN rq = 1 .. Len(rq) /\ Len(rq) \in Nat /\ MaxReq \in Nat
  BY Constants DEF IndInv, Types
<1>2. \A i \in DOMAIN rq' : rq'[i].n <= MaxReq
  <2>1. CASE rq' = rq
    BY <2>1 DEF NumbersBounded
  <2>2. CASE InsertChunk
    <3> DEFINE l == Len(rq)
               n == net.chunk
               b == net.batch
    <3>1. /\ DOMAIN rq' = 1 .. l + n /\ l \in Nat /\ n \in Nat /\ n <= Len(b)
          /\ ~net.over => /\ \A i \in 1 .. l : rq'[i] = rq[i]
                          /\ \A i \in 1 .. n : rq'[l + i].n = b[i]
          /\ net.over => /\ \A i \in 1 .. n : rq'[i].n = b[(n - i) + 1]
                         /\ \A i \in 1 .. l : rq'[n + i] = rq[i]
      BY <2>2, ChunkInQueue
    <3>2. b \in Seq(Nat) /\ DOMAIN b = 1 .. Len(b) /\ Len(b) \in Nat /\ \A i \in DOMAIN b : b[i] <= MaxReq
      BY <1>1 DEF Types, NetThread, BatchBounded
    <3>3. \A i \in 1 .. n : b[i] <= MaxReq
      <4> SUFFICES ASSUME NEW i \in 1 .. n PROVE b[i] <= MaxReq
        OBVIOUS
      <4> HIDE DEF b, n, l
      <4>1. n \in Nat /\ n <= Len(b)
        BY <3>1
      <4>2. i \in DOMAIN b
        BY <3>2, <4>1
      <4> QED BY <3>2, <4>2
    <3>6. \A i \in 1 .. l : rq[i].n <= MaxReq
      BY <1>1 DEF NumbersBounded
    <3> SUFFICES ASSUME NEW i \in 1 .. l + n PROVE rq'[i].n <= MaxReq
      BY <3>1
    <3> HIDE DEF l, n, b
    <3>4. CASE ~net.over
      <4>1. CASE i \in 1 .. l
        BY <3>1, <3>4, <3>6, <4>1
      <4>2. CASE i \notin 1 .. l
        <5>1. i - l \in 1 .. n /\ l + (i - l) = i
          BY <3>1, <4>2
        <5> QED BY <3>1, <3>3, <3>4, <5>1
      <4> QED BY <4>1, <4>2
    <3>5. CASE net.over
      <4>1. CASE i \in 1 .. n
        <5>1. (n - i) + 1 \in 1 .. n
          BY <3>1, <4>1
        <5> QED BY <3>1, <3>3, <3>5, <4>1, <5>1
      <4>2. CASE i \notin 1 .. n
        <5>1. i - n \in 1 .. l /\ n + (i - n) = i
          BY <3>1, <4>2
        <5> QED BY <3>1, <3>5, <3>6, <5>1
      <4> QED BY <4>1, <4>2
    <3> QED BY <3>4, <3>5
  <2>3. CASE DelNotify
    <3> DEFINE m == Recv("closed", net.uid, Cur, 0)
    <3>1. rq' = Append(rq, m) /\ m.n = 0
      BY <2>3 DEF DelNotify, Recv
    <3> HIDE DEF m
    <3> QED BY <1>1, <3>1 DEF NumbersBounded
  <2>4. CASE Take
    <3>1. rq' = Tail(rq) /\ rq # <<>>
      BY <2>4 DEF Take
    <3>2. \A i \in DOMAIN rq' : i + 1 \in DOMAIN rq /\ rq'[i] = rq[i + 1]
      BY <1>1, <3>1
    <3> QED BY <3>2 DEF NumbersBounded
  <2> QED BY <2>1, <2>2, <2>3, <2>4, QueueSteps
<1>3. \A w \in working' : w.msg.n <= MaxReq
  <2>1. CASE working' = working
    BY <2>1 DEF NumbersBounded
  <2>2. CASE Take
    <3>1. \A w \in working' : w \in working \/ w.msg = Head(rq)
      BY <2>2 DEF Take
    <3>2. Head(rq) = rq[1] /\ 1 \in DOMAIN rq
      BY <1>1, <2>2 DEF Take
    <3> QED BY <3>1, <3>2 DEF NumbersBounded
  <2>3. ASSUME NEW v \in working, Finish(v) \/ handleClose(v)
        PROVE  \A w \in working' : w.msg.n <= MaxReq
    <3>1. v \in [msg : Message, left : 1 .. 2]
      BY <1>1 DEF Types
    <3>2. [v EXCEPT !.left = 1].msg = v.msg
      BY <3>1
    <3>3. \A w \in working' : w \in working \/ w.msg = v.msg
      BY <2>3, <3>2 DEF Finish, handleClose
    <3> QED BY <3>3 DEF NumbersBounded
  <2> QED BY <2>1, <2>2, <2>3, WorkingSteps
<1> QED BY <1>2, <1>3 DEF NumbersBounded

LEMMA ModsStayBounded ==
  ASSUME IndInv, [Next]_vars, mods <= MaxMods
  PROVE  mods' <= MaxMods
<1>1. mods \in Nat /\ MaxMods \in Nat
  BY MaxModsAssumption DEF IndInv, Types
<1>2. CASE UNCHANGED vars
  BY <1>2 DEF vars
<1>3. CASE \E s \in Socks : Client(s)
  BY <1>3 DEF Client, Connect, Request, Hangup, Writable
<1>4. CASE Net
  BY <1>4 DEF Net, Accept, Refuse, NetEvent, Read, CheckChunk, InsertChunk, ParseEnds, Write,
              DelNotify, DelFree, NotifyEvent, Swap, PipeClose, PipeSend
<1>5. CASE \E u \in Uids : Timeout(u)
  BY <1>5 DEF Timeout
<1>6. CASE Handles
  <2>1. mods' = mods \/ mods' = mods - 1 \/ (mods < MaxMods /\ mods' = mods + 1)
    BY <1>6 DEF Handles, Take, Finish, handleClose, Notify, Push
  <2> QED BY <1>1, <2>1
<1> QED BY <1>2, <1>3, <1>4, <1>5, <1>6 DEF Next

LEMMA TakenStayClosed ==
  ASSUME IndInv, [Next]_vars, TakenAreClosed
  PROVE  TakenAreClosed'
<1>1. Types /\ rq \in Seq(Message) /\ DOMAIN rq = 1 .. Len(rq) /\ Len(rq) \in Nat
      /\ working \subseteq [msg : Message, left : 1 .. 2]
      /\ (\A i \in DOMAIN rq : rq[i].sock \in Socks)
      /\ (\A w \in working : w.msg.sock \in Socks)
  <2>1. Types /\ rq \in Seq(Message) /\ working \subseteq [msg : Message, left : 1 .. 2]
    BY DEF IndInv, Types
  <2>2. \A w \in working : w.msg.sock \in Socks
    BY <2>1 DEF Message
  <2> QED BY <2>1, <2>2, MessagesOf
(* Who is closed, or just now being, stays so.                             *)
<1>2. ASSUME NEW s \in Socks, sock[s].st = "closed" \/ (net.pc = "free" /\ Cur = s)
      PROVE  sock'[s].st = "closed" \/ (net'.pc = "free" /\ Cur' = s)
  <2>1. CASE sock[s].st = "closed"
    BY <2>1, SocketSteps DEF Advances
  <2>2. CASE net.pc = "free" /\ Cur = s
    <3>1. CASE net' = net /\ slot' = slot
      BY <2>2, <3>1 DEF Cur
    <3>2. CASE DelFree
      <4>1. sock \in [Socks -> Connection] /\ sock[s] \in Connection
        BY <1>1 DEF Types
      <4>2. sock'[s].st = "closed"
        BY <2>2, <3>2, <4>1 DEF DelFree, Connection
      <4> QED BY <4>2
    <3> QED BY <2>2, <3>1, <3>2, FreeSteps
  <2> QED BY <1>2, <2>1, <2>2
<1>3. CASE rq' = rq /\ working' = working
  <2> SUFFICES ASSUME NEW w \in working, Closed(w)
               PROVE  sock'[w.msg.sock].st = "closed" \/ (net'.pc = "free" /\ Cur' = w.msg.sock)
    BY <1>3 DEF TakenAreClosed, Closed
  <2> QED BY <1>1, <1>2 DEF TakenAreClosed
<1>4. CASE Take
  <2> DEFINE m == Head(rq)
  <2>1. /\ rq' = Tail(rq) /\ rq # <<>> /\ m = rq[1] /\ 1 \in DOMAIN rq
        /\ \A i \in DOMAIN rq' : i + 1 \in DOMAIN rq /\ 1 < i + 1 /\ rq'[i] = rq[i + 1]
    BY <1>1, <1>4 DEF Take
  <2>2. /\ working \subseteq working'
        /\ \A w \in working' : w \in working \/ w.msg = m
        /\ \A v, w \in working' : v \notin working /\ w \notin working => v = w
    BY <1>4 DEF Take
  <2>3. ASSUME m.kind = "closed"
        PROVE  /\ sock[m.sock].st = "closed" \/ (net.pc = "free" /\ Cur = m.sock)
               /\ \A w \in working : Closed(w) => w.msg.sock # m.sock
               /\ \A i \in DOMAIN rq' : rq'[i].sock # m.sock
    BY <2>1, <2>3 DEF TakenAreClosed, IndInv, ToldAreClosed, CloseIsLast
  <2> HIDE DEF m
  <2> SUFFICES ASSUME NEW w \in working', w.msg.kind = "closed"
               PROVE  /\ sock'[w.msg.sock].st = "closed" \/ (net'.pc = "free" /\ Cur' = w.msg.sock)
                      /\ \A v \in working' : v.msg.kind = "closed" /\ v.msg.sock = w.msg.sock => v = w
                      /\ \A i \in DOMAIN rq' : rq'[i].kind = "closed" => rq'[i].sock # w.msg.sock
    BY DEF TakenAreClosed, Closed
  <2>4. CASE w \in working
    BY <1>1, <1>2, <2>1, <2>2, <2>3, <2>4 DEF TakenAreClosed, Closed
  <2>5. CASE w \notin working
    <3>1. w.msg = m /\ m.sock \in Socks
      BY <1>1, <2>1, <2>2, <2>5
    <3> QED BY <1>2, <2>2, <2>3, <2>5, <3>1 DEF Closed
  <2> QED BY <2>4, <2>5
<1>5. ASSUME NEW v \in working, Finish(v) \/ handleClose(v) PROVE TakenAreClosed'
  <2>1. rq' = rq
    BY <1>5 DEF Finish, handleClose
  <2> DEFINE u == [v EXCEPT !.left = 1]
  <2>2. u.msg = v.msg
    BY <1>1
  <2> HIDE DEF u
  <2>3. \A w \in working' : (w \in working /\ w # v) \/ (w = u /\ Closed(v))
    BY <1>5 DEF Finish, handleClose, Closed, u
  <2> SUFFICES ASSUME NEW w \in working', w.msg.kind = "closed"
               PROVE  /\ sock'[w.msg.sock].st = "closed" \/ (net'.pc = "free" /\ Cur' = w.msg.sock)
                      /\ \A x \in working' : x.msg.kind = "closed" /\ x.msg.sock = w.msg.sock => x = w
                      /\ \A i \in DOMAIN rq : rq[i].kind = "closed" => rq[i].sock # w.msg.sock
    BY <2>1 DEF TakenAreClosed, Closed
  <2>4. PICK y \in working : y.msg = w.msg /\ (y = w \/ (w = u /\ y = v)) /\ (w # u => w # v)
    BY <2>2, <2>3
  <2>5. sock'[w.msg.sock].st = "closed" \/ (net'.pc = "free" /\ Cur' = w.msg.sock)
    BY <1>1, <1>2, <2>4 DEF TakenAreClosed, Closed
  <2>6. \A i \in DOMAIN rq : rq[i].kind = "closed" => rq[i].sock # w.msg.sock
    BY <2>4 DEF TakenAreClosed, Closed
  <2>7. ASSUME NEW x \in working', x.msg.kind = "closed", x.msg.sock = w.msg.sock PROVE x = w
    <3>1. (w \in working /\ w # v) \/ (w = u /\ Closed(v))
      BY <2>3
    <3>2. (x \in working /\ x # v) \/ (x = u /\ Closed(v))
      BY <2>3
    <3> QED BY <2>2, <2>7, <3>1, <3>2 DEF TakenAreClosed, Closed
  <2> QED BY <2>5, <2>6, <2>7
<1>6. CASE InsertChunk
  <2>1. working' = working
    BY <1>6 DEF InsertChunk
  <2>2. \A i \in DOMAIN rq' : rq'[i].kind = "closed" => \E j \in DOMAIN rq : rq'[i] = rq[j]
    <3> DEFINE l == Len(rq)
               n == net.chunk
    <3>1. /\ DOMAIN rq' = 1 .. l + n /\ l \in Nat /\ n \in Nat /\ DOMAIN rq = 1 .. l
          /\ net.over \/ /\ \A i \in 1 .. l : rq'[i] = rq[i]
                         /\ \A i \in 1 .. n : rq'[l + i].kind = "data"
          /\ ~net.over \/ /\ \A i \in 1 .. n : rq'[i].kind = "overload"
                          /\ \A i \in 1 .. l : rq'[n + i] = rq[i]
      BY <1>6, ChunkInQueue
    <3> HIDE DEF l, n
    <3> SUFFICES ASSUME NEW i \in 1 .. l + n, rq'[i].kind = "closed"
                 PROVE  \E j \in 1 .. l : rq'[i] = rq[j]
      BY <3>1
    <3>2. CASE ~net.over
      <4>1. i \notin 1 .. l => i - l \in 1 .. n /\ l + (i - l) = i
        BY <3>1
      <4> QED BY <3>1, <3>2, <4>1
    <3>3. CASE net.over
      <4>1. i \notin 1 .. n => i - n \in 1 .. l /\ n + (i - n) = i
        BY <3>1
      <4> QED BY <3>1, <3>3, <4>1
    <3> QED BY <3>2, <3>3
  <2> SUFFICES ASSUME NEW w \in working, w.msg.kind = "closed"
               PROVE  sock'[w.msg.sock].st = "closed" \/ (net'.pc = "free" /\ Cur' = w.msg.sock)
    BY <2>1, <2>2 DEF TakenAreClosed, Closed
  <2> QED BY <1>1, <1>2 DEF TakenAreClosed, Closed
<1>7. CASE DelNotify
  <2> DEFINE m == Recv("closed", net.uid, Cur, 0)
  <2>1. rq' = Append(rq, m) /\ m.sock = Cur /\ working' = working /\ net.pc = "del"
    BY <1>7 DEF DelNotify, Recv, At
  <2>2. Cur \in Socks /\ sock[Cur].st = "open"
    BY <2>1, CurIsOpen
  <2> HIDE DEF m
  <2>3. \A i \in DOMAIN rq' : (i \in DOMAIN rq /\ rq'[i] = rq[i]) \/ rq'[i] = m
    BY <1>1, <2>1
  <2> SUFFICES ASSUME NEW w \in working, w.msg.kind = "closed"
               PROVE  /\ sock'[w.msg.sock].st = "closed" \/ (net'.pc = "free" /\ Cur' = w.msg.sock)
                      /\ w.msg.sock # Cur
    BY <2>1, <2>3 DEF TakenAreClosed, Closed
  <2> QED BY <1>1, <1>2, <2>1, <2>2 DEF TakenAreClosed, Closed
<1>8. rq' # rq \/ working' # working => Take \/ InsertChunk \/ DelNotify
                                      \/ \E v \in working : Finish(v) \/ handleClose(v)
  BY QueueSteps, WorkingSteps
<1> QED BY <1>3, <1>4, <1>5, <1>6, <1>7, <1>8

LEMMA RoomIsStillLeft ==
  ASSUME IndInv, [Next]_vars, RoomWasLeft
  PROVE  RoomWasLeft'
<1>1. Types /\ net \in NetThread /\ rq \in Seq(Message) /\ Len(rq) \in Nat /\ Capacity \in Nat
  BY CapacityAssumption DEF IndInv, Types
<1>2. CASE net' = net
  <2>1. rq' = rq \/ InsertChunk \/ DelNotify \/ Take
    BY QueueSteps
  <2>2. CASE InsertChunk \/ DelNotify
    <3>1. net'.pc \in {"parse", "free"}
      BY <1>1, <2>2 DEF InsertChunk, DelNotify, NetThread
    <3> QED BY <3>1 DEF RoomWasLeft
  <2>3. CASE Take
    <3>1. rq' = Tail(rq) /\ rq # <<>>
      BY <2>3 DEF Take
    <3>2. Len(rq') <= Len(rq) /\ Len(rq') \in Nat
      BY <1>1, <3>1
    <3> QED BY <1>1, <1>2, <3>2 DEF RoomWasLeft
  <2> QED BY <1>2, <2>1, <2>2, <2>3 DEF RoomWasLeft
<1>3. CASE CheckChunk
  <2>1. PICK k \in Good : net' = [net EXCEPT !.pc = "insert", !.chunk = k, !.over = isOverload]
    BY <1>3 DEF CheckChunk
  <2>2. net'.over = isOverload /\ rq' = rq
    BY <1>1, <1>3, <2>1 DEF NetThread, CheckChunk
  <2>3. ~net'.over => ~(Len(rq) > Capacity)
    BY <2>2, Zenon DEF isOverload
  <2> QED BY <1>1, <2>2, <2>3 DEF RoomWasLeft
<1>4. CASE net'.pc # "insert"
  BY <1>4 DEF RoomWasLeft
<1>5. net' = net \/ CheckChunk \/ net'.pc # "insert"
  <2>1. ASSUME NEW p \in NetPc, NEW u \in Uids
        PROVE  [Idle EXCEPT !.pc = p].pc = p
               /\ [Idle EXCEPT !.pc = p, !.uid = u].pc = p
    BY DEF Idle
  <2>10. Idle.pc = "idle" /\ [Idle EXCEPT !.pc = "swap"].pc = "swap"
    BY DEF Idle
  <2>2. ASSUME NEW p \in NetPc PROVE [net EXCEPT !.pc = p].pc = p
    BY <1>1 DEF NetThread
  <2>8. ASSUME NEW q PROVE [net EXCEPT !.pc = "pipe", !.pipe = q].pc = "pipe"
                           /\ [net EXCEPT !.pipe = q].pc = net.pc
    BY <1>1 DEF NetThread
  <2>9. ASSUME NEW u, NEW q PROVE [net EXCEPT !.pc = "del", !.uid = u, !.pipe = q].pc = "del"
    BY <1>1 DEF NetThread
  <2>3. CASE \E s \in Socks : Client(s)
    BY <2>3 DEF Client, Connect, Request, Hangup, Writable
  <2>4. CASE Net
    <3>1. CASE \E u \in Uids : NetEvent(u)
      <4>1. PICK u \in Uids, p \in {"recv", "del"} : net' = [Idle EXCEPT !.pc = p, !.uid = u]
        BY <3>1 DEF NetEvent
      <4> QED BY <2>1, <4>1 DEF NetPc
    <3>2. CASE Read
      BY <1>1, <3>2 DEF Read, NetThread
    <3>3. CASE InsertChunk \/ ParseEnds
      BY <1>1, <3>3 DEF InsertChunk, ParseEnds, NetThread
    <3>4. CASE Write \/ DelNotify \/ DelFree
      <4>1. net' = Idle \/ \E p \in {"del", "free", "pipe"} : net' = [net EXCEPT !.pc = p]
        BY <3>4 DEF Write, DelNotify, DelFree
      <4> QED BY <2>2, <2>10, <4>1 DEF NetPc
    <3>5. CASE NotifyEvent \/ Swap
      <4>1. \/ net' = Idle \/ net' = [Idle EXCEPT !.pc = "swap"]
            \/ net' = [net EXCEPT !.pc = "pipe", !.pipe = sq]
        BY <3>5 DEF NotifyEvent, Swap
      <4> QED BY <2>8, <2>10, <4>1
    <3>6. CASE PipeClose \/ PipeSend
      <4>1. net.pc = "pipe" /\ \E d : PipeNext(d)
        BY <3>6 DEF PipeClose, PipeSend, At
      <4>2. \/ net' = Idle
            \/ net' = [net EXCEPT !.pipe = Tail(net.pipe)]
            \/ net' = [net EXCEPT !.pc = "del", !.uid = Head(net.pipe).uid, !.pipe = Tail(net.pipe)]
        BY <4>1 DEF PipeNext
      <4>3. CASE net' = [net EXCEPT !.pipe = Tail(net.pipe)]
        BY <2>8, <4>1, <4>3
      <4>4. CASE net' = [net EXCEPT !.pc = "del", !.uid = Head(net.pipe).uid, !.pipe = Tail(net.pipe)]
        BY <2>9, <4>4
      <4> QED BY <2>10, <4>2, <4>3, <4>4
    <3>7. CASE \E s \in Socks : Accept(s) \/ Refuse(s)
      BY <3>7 DEF Accept, Refuse
    <3> QED BY <2>4, <3>1, <3>2, <3>3, <3>4, <3>5, <3>6, <3>7 DEF Net
  <2>5. CASE \E u \in Uids : Timeout(u)
    BY <2>1, <2>5 DEF Timeout, NetPc
  <2>6. CASE Handles
    BY <2>6 DEF Handles, Take, Finish, handleClose, Notify
  <2>7. CASE UNCHANGED vars
    BY <2>7 DEF vars
  <2> QED BY <2>3, <2>4, <2>5, <2>6, <2>7 DEF Next
<1> QED BY <1>2, <1>3, <1>4, <1>5

LEMMA QueueRemainsBounded ==
  ASSUME IndInv, [Next]_vars, BatchBounded, RoomWasLeft, QueueIsBounded
  PROVE  QueueIsBounded'
<1>1. Types /\ rq \in Seq(Message) /\ DOMAIN rq = 1 .. Len(rq) /\ Len(rq) \in Nat
      /\ Capacity \in Nat /\ MaxReq \in Nat /\ Types'
  BY Constants, CapacityAssumption, NextIndInv DEF IndInv, Types
<1>2. rq' \in Seq(Message)
  BY <1>1 DEF Types
<1>3. Cardinality(Data(rq)) <= Capacity + MaxReq
  BY DEF QueueIsBounded, Data
<1> SUFFICES Cardinality(Data(rq')) <= Capacity + MaxReq
  BY DEF QueueIsBounded, Data
<1>4. ASSUME Cardinality(Data(rq')) <= Cardinality(Data(rq))
      PROVE  Cardinality(Data(rq')) <= Capacity + MaxReq
  BY <1>1, <1>2, <1>3, <1>4, DataIsFinite
<1>5. CASE rq' = rq
  BY <1>3, <1>5
<1>6. CASE Take
  <2>1. rq' = Tail(rq) /\ rq # <<>>
    BY <1>6 DEF Take
  <2>2. \A i \in DOMAIN rq' : i + 1 \in DOMAIN rq /\ rq'[i] = rq[i + 1]
    BY <1>1, <2>1
  <2> DEFINE d == 1
  <2>3. d \in Int /\ \A i \in DOMAIN rq' : rq'[i].kind = "data" => i + d \in DOMAIN rq /\ rq[i + d].kind = "data"
    BY <2>2
  <2> HIDE DEF d
  <2>4. Cardinality(Data(rq')) <= Cardinality(Data(rq))
    BY <1>1, <1>2, <2>3, DataMoved
  <2> QED BY <1>4, <2>4
<1>7. CASE DelNotify
  <2> DEFINE m == Recv("closed", net.uid, Cur, 0)
  <2>1. rq' = Append(rq, m) /\ m.kind = "closed"
    BY <1>7 DEF DelNotify, Recv
  <2> HIDE DEF m
  <2>2. \A i \in DOMAIN rq' : rq'[i].kind = "data" => i + 0 \in DOMAIN rq /\ rq[i + 0].kind = "data"
    BY <1>1, <2>1
  <2>3. Cardinality(Data(rq')) <= Cardinality(Data(rq))
    BY <1>1, <1>2, <2>2, DataMoved
  <2> QED BY <1>4, <2>3
<1>8. CASE InsertChunk
  <2> DEFINE l == Len(rq)
             n == net.chunk
  <2>1. /\ DOMAIN rq' = 1 .. l + n /\ Len(rq') = l + n /\ l \in Nat /\ DOMAIN rq = 1 .. l
        /\ n \in Nat /\ n <= Len(net.batch)
        /\ net.over => /\ \A i \in 1 .. n : rq'[i].kind = "overload"
                       /\ \A i \in 1 .. l : rq'[n + i] = rq[i]
    BY <1>8, ChunkInQueue
  <2>2. CASE ~net.over
    <3>1. l <= Capacity /\ Len(net.batch) <= MaxReq /\ Len(net.batch) \in Nat
      <4>1. net.batch \in Seq(Nat)
        BY <1>1 DEF Types, NetThread
      <4> QED BY <1>8, <2>2, <4>1 DEF RoomWasLeft, BatchBounded, InsertChunk, At
    <3> HIDE DEF l, n
    <3>2. Len(rq') <= Capacity + MaxReq
      BY <1>1, <2>1, <3>1
    <3> QED BY <1>1, <1>2, <2>1, <3>2, DataIsFinite
  <2>3. CASE net.over
    <3> HIDE DEF l, n
    <3>1. ASSUME NEW i \in DOMAIN rq', rq'[i].kind = "data"
          PROVE  i + (-n) \in DOMAIN rq /\ rq[i + (-n)].kind = "data"
      <4>1. i \notin 1 .. n
        BY <2>1, <2>3, <3>1
      <4>2. i + (-n) \in 1 .. l /\ n + (i + (-n)) = i
        BY <2>1, <4>1
      <4>3. rq'[i] = rq[i + (-n)]
        BY <2>1, <2>3, <4>2
      <4> QED BY <2>1, <3>1, <4>2, <4>3
    <3>2. -n \in Int
      BY <2>1
    <3>3. Cardinality(Data(rq')) <= Cardinality(Data(rq))
      BY <1>1, <1>2, <3>1, <3>2, DataMoved
    <3> QED BY <1>4, <3>3
  <2> QED BY <2>2, <2>3
<1> QED BY <1>5, <1>6, <1>7, <1>8, QueueSteps

-----------------------------------------------------------------------------
LEMMA InitCountInv ==
  ASSUME Init
  PROVE  CountInv
<1>1. MaxReq \in Nat /\ MaxMods \in Nat /\ Capacity \in Nat
  BY MaxReqAssumption, MaxModsAssumption, CapacityAssumption
<1>2. rq = <<>> /\ working = {} /\ mods = 0 /\ net = Idle
      /\ \A s \in Socks : sock[s].inbound = <<>> /\ sock[s].next = 0
  BY DEF Init, Fresh
<1>3. SocketsBounded /\ NumbersBounded /\ TakenAreClosed /\ mods <= MaxMods
  BY <1>1, <1>2 DEF SocketsBounded, NumbersBounded, TakenAreClosed
<1>4. BatchBounded /\ RoomWasLeft
  BY <1>1, <1>2 DEF BatchBounded, RoomWasLeft, Idle
<1>5. QueueIsBounded
  <2>1. {i \in DOMAIN rq : rq[i].kind = "data"} = {}
    BY <1>2
  <2> QED BY <1>1, <2>1, FS_EmptySet DEF QueueIsBounded
<1> QED BY <1>3, <1>4, <1>5 DEF CountInv

LEMMA NextCountInv ==
  ASSUME IndInv, CountInv, [Next]_vars
  PROVE  CountInv'
BY SocketsStayBounded, BatchStaysBounded, NumbersStayBounded, ModsStayBounded, TakenStayClosed,
   RoomIsStillLeft, QueueRemainsBounded DEF CountInv

(* The strengthening of the counts holds always.                           *)
THEOREM CountInvIsInvariant == Spec => []CountInv
<1>1. Init => CountInv
  BY InitCountInv
<1>2. IndInv /\ CountInv /\ [Next]_vars => CountInv'
  BY NextCountInv
<1> QED BY <1>1, <1>2, IndInvIsInvariant, PTL DEF Spec

(* Overload protection holds its bound: the requests that wait exceed the  *)
(* capacity by less than one read, for any number of clients.              *)
THEOREM QueueStaysBounded == Spec => []QueueIsBounded
<1>1. CountInv => QueueIsBounded
  BY DEF CountInv
<1> QED BY <1>1, CountInvIsInvariant, PTL

(* No connection is reported closed twice to the handles, and none that    *)
(* is open is reported.                                                    *)
THEOREM ClosedStaysNotifiedOnce == Spec => []ClosedIsNotifiedOnce
<1>1. IndInv /\ CountInv => ClosedIsNotifiedOnce
  <2> SUFFICES ASSUME IndInv, CountInv, NEW s \in Socks
               PROVE  LET taken == {w \in working : w.msg.kind = "closed" /\ w.msg.sock = s}
                      IN  /\ Notices(s) + Cardinality(taken) <= 1
                          /\ sock[s].st = "open" /\ ~(At("free") /\ Cur = s)
                               => Notices(s) = 0 /\ taken = {}
    BY DEF ClosedIsNotifiedOnce
  <2> DEFINE taken == {w \in working : w.msg.kind = "closed" /\ w.msg.sock = s}
             told == {i \in DOMAIN rq : rq[i].kind = "closed" /\ rq[i].sock = s}
  <2>1. TakenAreClosed /\ CloseIsLast /\ ToldAreClosed /\ DOMAIN rq \subseteq Nat
    BY DEF IndInv, CountInv, Types
  <2>2. \A i, j \in told : i = j
    <3>1. \A i, j \in told : ~(i < j)
      BY <2>1 DEF CloseIsLast
    <3> QED BY <2>1, <3>1
  <2>3. \A v, w \in taken : v = w
    BY <2>1 DEF TakenAreClosed, Closed
  <2>4. told = {} \/ taken = {}
    BY <2>1 DEF TakenAreClosed, Closed
  <2>5. sock[s].st = "open" /\ ~(At("free") /\ Cur = s) => told = {} /\ taken = {}
    BY <2>1 DEF ToldAreClosed, TakenAreClosed, Closed, At
  <2> HIDE DEF taken, told
  <2>6. \A S : (\A x, y \in S : x = y) => S = {} \/ \E x : S = {x}
    OBVIOUS
  <2>7. (told = {} \/ \E x : told = {x}) /\ (taken = {} \/ \E x : taken = {x})
    BY <2>2, <2>3, <2>6
  <2>8. /\ told = {} => Cardinality(told) = 0
        /\ taken = {} => Cardinality(taken) = 0
        /\ Cardinality(told) \in {0, 1} /\ Cardinality(taken) \in {0, 1}
    BY <2>7, FS_EmptySet, FS_Singleton
  <2>9. Cardinality(told) + Cardinality(taken) <= 1
    BY <2>4, <2>8
  <2> QED BY <2>5, <2>8, <2>9 DEF Notices, taken, told
<1> QED BY <1>1, IndInvIsInvariant, CountInvIsInvariant, PTL

(* A sequence of smaller things.                                           *)
LEMMA ElementsIn ==
  ASSUME NEW S, NEW T, NEW q \in Seq(S), \A i \in 1 .. Len(q) : q[i] \in T
  PROVE  q \in Seq(T)
OBVIOUS

(* Everything keeps its type and its bounds: in particular the counter of  *)
(* the connections, which the code never tests, stays within the table.    *)
THEOREM TypeCorrect == Spec => []TypeOK
<1>1. IndInv /\ CountInv => TypeOK
  <2> SUFFICES ASSUME IndInv, CountInv PROVE TypeOK
    OBVIOUS
  <2>1. Types /\ SocketsBounded /\ BatchBounded /\ NumbersBounded /\ mods <= MaxMods
        /\ MaxReq \in Nat /\ Total \in Nat /\ MaxMods \in Nat
    BY Constants, MaxModsAssumption DEF IndInv, CountInv
  <2>2. nconn \in 0 .. Total
    <3>1. /\ nconn + Len(free) = Total /\ nconn \in Int
          /\ free \in Seq(Uids) /\ Len(free) \in Nat /\ DOMAIN free = 1 .. Len(free)
          /\ \A i, j \in DOMAIN free : free[i] = free[j] => i = j
      BY <2>1 DEF IndInv, ConnectionsAccounted, Types
    <3>2. free \in Injection(1 .. Len(free), 1 .. Total)
      BY <3>1 DEF Injection, IsInjective, Uids
    <3>3. Cardinality(1 .. Len(free)) <= Cardinality(1 .. Total)
      BY <2>1, <3>2, FS_Interval, FS_Injection
    <3>4. Cardinality(1 .. Len(free)) = Len(free) /\ Cardinality(1 .. Total) = Total
      <4>1. \A n \in Nat : Cardinality(1 .. n) = n
        <5> SUFFICES ASSUME NEW n \in Nat PROVE Cardinality(1 .. n) = n
          OBVIOUS
        <5>1. Cardinality(1 .. n) = IF 1 > n THEN 0 ELSE n - 1 + 1
          BY FS_Interval
        <5> QED BY <5>1
      <4> QED BY <2>1, <3>1, <4>1
    <3> QED BY <2>1, <3>1, <3>3, <3>4
  <2>3. sock \in [Socks ->
          [st : {"away", "backlog", "open", "closed"}, next : 0 .. MaxReq,
           inbound : Seq(0 .. MaxReq), fin : BOOLEAN, edge : BOOLEAN, bClose : BOOLEAN,
           buffered : BOOLEAN, unsent : Nat, missed : SUBSET {"end", "close"}]]
    <3> SUFFICES ASSUME NEW s \in Socks
                 PROVE  sock[s] \in
                   [st : {"away", "backlog", "open", "closed"}, next : 0 .. MaxReq,
                    inbound : Seq(0 .. MaxReq), fin : BOOLEAN, edge : BOOLEAN, bClose : BOOLEAN,
                    buffered : BOOLEAN, unsent : Nat, missed : SUBSET {"end", "close"}]
      BY <2>1 DEF Types
    <3> DEFINE k == sock[s]
    <3>1. k \in Connection
      BY <2>1 DEF Types
    <3>2. /\ k.next \in Nat /\ k.next <= MaxReq
          /\ k.inbound \in Seq(Nat) /\ \A i \in DOMAIN k.inbound : k.inbound[i] <= k.next
      BY <2>1, <3>1 DEF Connection, SocketsBounded, IndInv, SocketInOrder
    <3> HIDE DEF k
    <3>3. \A i \in 1 .. Len(k.inbound) : k.inbound[i] \in 0 .. MaxReq
      BY <2>1, <3>2
    <3>4. k.inbound \in Seq(0 .. MaxReq) /\ k.next \in 0 .. MaxReq
      <4>1. k.inbound \in Seq(0 .. MaxReq)
        BY <3>2, <3>3, ElementsIn
      <4> QED BY <2>1, <3>2, <4>1
    <3>5. k \in [st : {"away", "backlog", "open", "closed"}, next : 0 .. MaxReq,
                  inbound : Seq(0 .. MaxReq), fin : BOOLEAN, edge : BOOLEAN, bClose : BOOLEAN,
                  buffered : BOOLEAN, unsent : Nat, missed : SUBSET {"end", "close"}]
      BY <3>1, <3>4 DEF Connection
    <3> QED BY <3>5 DEF k
  <2>4. \A m \in Message : m.n <= MaxReq => m \in RecvData
    BY <2>1 DEF Message, RecvData
  <2>5. rq \in Seq(RecvData)
    <3>1. rq \in Seq(Message) /\ \A i \in 1 .. Len(rq) : rq[i] \in Message /\ rq[i].n <= MaxReq
      BY <2>1 DEF Types, NumbersBounded
    <3>2. \A i \in 1 .. Len(rq) : rq[i] \in RecvData
      BY <2>4, <3>1
    <3> QED BY <3>1, <3>2
  <2>6. working \subseteq [msg : RecvData, left : 1 .. 2]
    <3> SUFFICES ASSUME NEW w \in working PROVE w \in [msg : RecvData, left : 1 .. 2]
      OBVIOUS
    <3>1. w \in [msg : Message, left : 1 .. 2] /\ w.msg.n <= MaxReq
      BY <2>1 DEF Types, NumbersBounded
    <3>2. w.msg \in RecvData
      BY <2>4, <3>1
    <3> QED BY <3>1, <3>2
  <2>7. net \in [pc : {"idle", "recv", "parse", "insert", "write", "del", "free", "swap", "pipe"},
                 uid : Uids, batch : Seq(0 .. MaxReq), chunk : 0 .. MaxReq, over : BOOLEAN,
                 pipe : Seq(SendData)]
    <3>1. net \in NetThread
      BY <2>1 DEF Types
    <3>2. net.batch \in Seq(Nat) /\ net.chunk \in Nat
      BY <3>1 DEF NetThread
    <3>3. \A i \in 1 .. Len(net.batch) : net.batch[i] \in 0 .. MaxReq
      BY <2>1, <3>2 DEF BatchBounded
    <3>4. net.chunk \in 0 .. MaxReq
      BY <2>1, <3>2, Constants DEF BatchBounded
    <3>5. net.batch \in Seq(0 .. MaxReq)
      BY <3>2, <3>3, ElementsIn
    <3> QED BY <3>1, <3>4, <3>5 DEF NetThread, NetPc
  <2>8. free \in Seq(Uids) /\ slot \in [Uids -> Socks \cup {None}] /\ sq \in Seq(SendData)
        /\ mods \in 0 .. MaxMods
    BY <2>1 DEF Types
  <2>9. poke \in BOOLEAN
    BY <2>1, Zenon DEF Types
  <2> QED BY <2>2, <2>3, <2>5, <2>6, <2>7, <2>8, <2>9 DEF TypeOK
<1> QED BY <1>1, IndInvIsInvariant, CountInvIsInvariant, PTL

-----------------------------------------------------------------------------
(***************************************************************************)
(* Which connections linger.                                               *)
(***************************************************************************)
ActedOn(s) ==
  /\ sock[s].inbound # <<>> => sock[s].edge \/ Reading(s)
  /\ sock[s].fin => sock[s].edge \/ Reading(s) \/ "end" \in sock[s].missed
  /\ sock[s].bClose => sock[s].unsent > 0 \/ "close" \in sock[s].missed

(* OnlyMissedLinger, and that nobody closes what has not been accepted.    *)
Lingers(s) ==
  /\ sock[s].st \in {"away", "backlog"} => ~sock[s].bClose
  /\ sock[s].st = "open" /\ ~Ending(s) => ActedOn(s)

LingerInv == \A s \in Socks : Lingers(s)

(* A connection that a step leaves alone.                                  *)
LEMMA LeftAlone ==
  ASSUME NEW s \in Socks, Lingers(s), sock'[s] = sock[s],
         Reading(s) => Reading(s)', Ending(s) => Ending(s)'
  PROVE  Lingers(s)'
BY DEF Lingers, ActedOn

(* What a client does comes with an event.                                 *)
LEMMA ClientLingers ==
  ASSUME Types, NEW s \in Socks, Lingers(s), NEW t \in Socks, Client(t)
  PROVE  Lingers(s)'
<1>1. UNCHANGED <<slot, net>> /\ (Reading(s)' <=> Reading(s)) /\ (Ending(s)' <=> Ending(s))
  BY Zenon DEF Client, Connect, Request, Hangup, Writable, Reading, Ending, At, Cur
<1>2. sock \in [Socks -> Connection] /\ sock[s] \in Connection
  BY DEF Types
<1>3. CASE s # t
  <2>1. sock'[s] = sock[s]
    BY <1>2, <1>3 DEF Client, Connect, Request, Hangup, Writable
  <2> QED BY <1>1, <2>1, LeftAlone
<1>4. CASE s = t
  <2>1. CASE Connect(s)
    <3>1. sock[s].st = "away" /\ sock'[s] = [sock[s] EXCEPT !.st = "backlog"]
      BY <1>2, <2>1 DEF Connect
    <3>2. sock'[s].st = "backlog" /\ sock'[s].bClose = sock[s].bClose
      BY <1>2, <3>1 DEF Connection
    <3> QED BY <3>1, <3>2 DEF Lingers
  <2>2. CASE Request(s) \/ Hangup(s) \/ Writable(s)
    <3>1. /\ sock[s].st = "open" /\ sock'[s].st = "open" /\ sock'[s].edge = TRUE
          /\ sock'[s].bClose = sock[s].bClose /\ sock'[s].unsent = sock[s].unsent
          /\ sock'[s].missed = sock[s].missed
      <4>1. CASE Request(s)
        <5>1. PICK p : sock'[s] = [sock[s] EXCEPT !.next = @ + 1, !.edge = TRUE, !.inbound = Append(@, p)]
          BY <1>2, <4>1 DEF Request
        <5> QED BY <1>2, <4>1, <5>1 DEF Request, Connection
      <4>2. CASE Hangup(s)
        <5>1. sock'[s] = [sock[s] EXCEPT !.fin = TRUE, !.edge = TRUE]
          BY <1>2, <4>2 DEF Hangup
        <5> QED BY <1>2, <4>2, <5>1 DEF Hangup, Connection
      <4>3. CASE Writable(s)
        <5>1. sock'[s] = [sock[s] EXCEPT !.edge = TRUE]
          BY <1>2, <4>3 DEF Writable
        <5> QED BY <1>2, <4>3, <5>1 DEF Writable, Connection
      <4> QED BY <2>2, <4>1, <4>2, <4>3
    <3> QED BY <1>1, <3>1 DEF Lingers, ActedOn
  <2> QED BY <1>4, <2>1, <2>2 DEF Client
<1> QED BY <1>3, <1>4

(* Accepting makes a first event; refusing leaves no connection.           *)
LEMMA AcceptLingers ==
  ASSUME Types, NEW s \in Socks, Lingers(s), NEW t \in Socks, Accept(t) \/ Refuse(t)
  PROVE  Lingers(s)'
<1>1. /\ net.pc = "idle" /\ UNCHANGED net /\ sock[t].st = "backlog"
      /\ ~Reading(s) /\ ~Ending(s)
  BY DEF Accept, Refuse, At, Reading, Ending
<1>2. sock \in [Socks -> Connection] /\ sock[s] \in Connection
  BY DEF Types
<1>3. CASE s # t
  <2>1. sock'[s] = sock[s]
    BY <1>2, <1>3 DEF Accept, Refuse
  <2> QED BY <1>1, <2>1, LeftAlone
<1>4. CASE s = t /\ Accept(s)
  <2>1. sock'[s] = [sock[s] EXCEPT !.st = "open", !.edge = TRUE]
    BY <1>2, <1>4 DEF Accept
  <2>2. sock'[s].st = "open" /\ sock'[s].edge = TRUE /\ sock'[s].bClose = sock[s].bClose
    BY <1>2, <2>1 DEF Connection
  <2> QED BY <1>1, <1>4, <2>2 DEF Lingers, ActedOn
<1>5. CASE s = t /\ Refuse(s)
  <2>1. sock'[s] = [sock[s] EXCEPT !.st = "away"]
    BY <1>2, <1>5 DEF Refuse
  <2>2. sock'[s].st = "away" /\ sock'[s].bClose = sock[s].bClose
    BY <1>2, <2>1 DEF Connection
  <2> QED BY <1>1, <1>5, <2>2 DEF Lingers
<1> QED BY <1>3, <1>4, <1>5

(* The net thread that takes an event reads, or ends the connection.       *)
LEMMA NetEventLingers ==
  ASSUME Types, NEW s \in Socks, Lingers(s), NEW u \in Uids, NetEvent(u)
  PROVE  Lingers(s)'
<1>1. /\ net.pc = "idle" /\ UNCHANGED slot /\ slot[u] # None
      /\ sock' = [sock EXCEPT ![slot[u]].edge = FALSE]
      /\ \E p \in {"recv", "del"} : net' = [Idle EXCEPT !.pc = p, !.uid = u]
  BY DEF NetEvent, At
<1>2. ~Reading(s) /\ ~Ending(s) /\ sock \in [Socks -> Connection] /\ sock[s] \in Connection
  BY <1>1 DEF Reading, Ending, At, Types
<1>3. net'.pc \in {"recv", "del"} /\ net'.uid = u
  BY <1>1 DEF Idle
<1>4. CASE s # slot[u]
  <2>1. sock'[s] = sock[s]
    BY <1>1, <1>2, <1>4
  <2> QED BY <1>2, <2>1, LeftAlone
<1>5. CASE s = slot[u]
  <2>1. Cur' = s
    BY <1>1, <1>3, <1>5 DEF Cur
  <2>2. Reading(s)' \/ Ending(s)'
    BY <1>3, <2>1 DEF Reading, Ending, At
  <2>3. sock'[s] = [sock[s] EXCEPT !.edge = FALSE]
    BY <1>1, <1>2, <1>5
  <2>4. /\ sock'[s].st = sock[s].st /\ sock'[s].bClose = sock[s].bClose
        /\ sock'[s].unsent = sock[s].unsent /\ sock'[s].missed = sock[s].missed
    BY <1>2, <2>3 DEF Connection
  <2> QED BY <1>2, <2>2, <2>4 DEF Lingers, ActedOn
<1> QED BY <1>4, <1>5

(* A read takes all that is there; an end of file behind it is missed.     *)
LEMMA ReadLingers ==
  ASSUME IndInv, NEW s \in Socks, Lingers(s), Read
  PROVE  Lingers(s)'
<1>1. /\ net.pc = "recv" /\ UNCHANGED slot /\ net \in NetThread
      /\ sock \in [Socks -> Connection] /\ sock[s] \in Connection /\ ~Ending(s)
  BY DEF Read, At, IndInv, Types, Ending
<1>2. Cur \in Socks /\ sock[Cur].st = "open"
  BY <1>1, CurIsOpen
<1>3. CASE s # Cur
  <2>1. sock'[s] = sock[s]
    BY <1>1, <1>3 DEF Read
  <2>2. ~Reading(s)
    BY <1>3 DEF Reading
  <2> QED BY <1>1, <2>1, <2>2, LeftAlone
<1>4. CASE s = Cur
  <2>1. CASE net' = [net EXCEPT !.pc = "del"]
    <3>1. Ending(s)'
      BY <1>1, <1>4, <2>1 DEF NetThread, Ending, Cur
    <3>2. PICK k \in Connection : /\ sock' = [sock EXCEPT ![Cur] = k]
                                  /\ k.st = sock[Cur].st /\ k.inbound = <<>> /\ k.next = sock[Cur].next
      BY <1>2, ReadConnection DEF IndInv
    <3>3. sock'[s].st = "open"
      BY <1>1, <1>2, <1>4, <3>2
    <3> QED BY <3>1, <3>3 DEF Lingers
  <2>2. CASE ~(sock[s].fin /\ sock[s].inbound = <<>>)
             /\ sock' = [sock EXCEPT ![Cur].inbound = <<>>, ![Cur].missed = @ \cup Unread(sock[Cur])]
    <3> DEFINE k == [sock[s] EXCEPT !.inbound = <<>>, !.missed = @ \cup Unread(sock[s])]
    <3>1. sock'[s] = k
      BY <1>1, <1>4, <2>2
    <3>2. /\ k.inbound = <<>> /\ k.st = sock[s].st /\ k.fin = sock[s].fin /\ k.bClose = sock[s].bClose
          /\ k.unsent = sock[s].unsent /\ k.missed = sock[s].missed \cup Unread(sock[s])
      BY <1>1 DEF Connection
    <3> HIDE DEF k
    <3>3. sock[s].fin => "end" \in k.missed
      BY <2>2, <3>2 DEF Unread
    <3> QED BY <1>1, <1>2, <1>4, <3>1, <3>2, <3>3 DEF Lingers, ActedOn
  <2> QED BY <1>4, <2>1, <2>2 DEF Read
<1> QED BY <1>3, <1>4

(* What send leaves unwritten has a write to come; what it has written of  *)
(* a connection that is to close ends it.                                  *)
LEMMA SentLingers ==
  ASSUME NEW k \in Connection, NEW q \in Sent(k), k.unsent > 0 \/ ~k.bClose \/ "close" \in k.missed
  PROVE  /\ q.k.st = k.st /\ q.k.inbound = k.inbound /\ q.k.edge = k.edge /\ q.k.fin = k.fin
         /\ q.k.bClose = k.bClose /\ q.k.missed = k.missed
         /\ ~q.del => (q.k.bClose => q.k.unsent > 0 \/ "close" \in q.k.missed)
<1>1. CASE q.k = k
  BY <1>1
<1>2. ASSUME NEW b \in BOOLEAN, q = [k |-> [k EXCEPT !.unsent = 0, !.buffered = b], del |-> k.bClose]
      PROVE  /\ q.k.st = k.st /\ q.k.inbound = k.inbound /\ q.k.edge = k.edge /\ q.k.fin = k.fin
             /\ q.k.bClose = k.bClose /\ q.k.missed = k.missed
             /\ ~q.del => ~q.k.bClose
  <2>1. q.k = [k EXCEPT !.unsent = 0, !.buffered = b] /\ q.del = k.bClose
    BY <1>2
  <2> QED BY <2>1 DEF Connection
<1>3. \/ q.k = k
      \/ \E b \in BOOLEAN : q = [k |-> [k EXCEPT !.unsent = 0, !.buffered = b], del |-> k.bClose]
  <2> DEFINE written(b) == [k |-> [k EXCEPT !.unsent = 0, !.buffered = b], del |-> k.bClose]
             nothing == IF k.unsent > 0 THEN {[k |-> k, del |-> FALSE]} ELSE {}
             failed == IF k.unsent > 0 /\ k.fin THEN {[k |-> k, del |-> TRUE]} ELSE {}
  <2>1. q \in {written(b) : b \in {TRUE, FALSE}} \cup nothing \cup failed
    BY Zenon DEF Sent
  <2>2. nothing \subseteq {[k |-> k, del |-> FALSE]} /\ failed \subseteq {[k |-> k, del |-> TRUE]}
    OBVIOUS
  <2> HIDE DEF written, nothing, failed
  <2>3. \/ \E b \in {TRUE, FALSE} : q = written(b)
        \/ q = [k |-> k, del |-> FALSE]
        \/ q = [k |-> k, del |-> TRUE]
    BY <2>1, <2>2
  <2>4. ASSUME NEW d \in BOOLEAN, q = [k |-> k, del |-> d] PROVE q.k = k
    BY <2>4
  <2> QED BY <2>3, <2>4 DEF written
<1> QED BY <1>1, <1>2, <1>3

LEMMA WriteLingers ==
  ASSUME IndInv, NEW s \in Socks, Lingers(s), Write
  PROVE  Lingers(s)'
<1>1. /\ net.pc = "write" /\ UNCHANGED slot /\ net \in NetThread
      /\ sock \in [Socks -> Connection] /\ sock[s] \in Connection
      /\ ~Ending(s) /\ ~Reading(s)
  BY DEF Write, At, IndInv, Types, Ending, Reading
<1>2. Cur \in Socks /\ sock[Cur].st = "open"
  BY <1>1, CurIsOpen
<1>3. CASE s # Cur \/ UNCHANGED sock
  <2>1. sock'[s] = sock[s]
    BY <1>1, <1>3 DEF Write
  <2> QED BY <1>1, <2>1, LeftAlone
<1>4. ASSUME s = Cur, NEW q \in Sent(sock[Cur]), sock' = [sock EXCEPT ![Cur] = q.k],
             net' = IF q.del THEN [net EXCEPT !.pc = "del"] ELSE Idle
      PROVE  Lingers(s)'
  <2>1. sock'[s] = q.k
    BY <1>1, <1>4
  <2>2. sock[s].st = "open" /\ ActedOn(s) /\ sock[s].unsent \in Nat
    BY <1>1, <1>2, <1>4 DEF Lingers, Connection
  <2>3. /\ q.k.st = sock[s].st /\ q.k.inbound = sock[s].inbound /\ q.k.edge = sock[s].edge
        /\ q.k.fin = sock[s].fin /\ q.k.bClose = sock[s].bClose /\ q.k.missed = sock[s].missed
        /\ ~q.del => (q.k.bClose => q.k.unsent > 0 \/ "close" \in q.k.missed)
    <3>1. sock[s].unsent > 0 \/ ~sock[s].bClose \/ "close" \in sock[s].missed
      BY <2>2 DEF ActedOn
    <3> QED BY <1>1, <1>4, <3>1, SentLingers
  <2>4. q.del => Ending(s)'
    <3>1. q.del => net'.pc = "del" /\ net'.uid = net.uid
      BY <1>1, <1>4 DEF NetThread
    <3> QED BY <1>1, <1>4, <3>1 DEF Ending, Cur
  <2> QED BY <1>1, <2>1, <2>2, <2>3, <2>4 DEF Lingers, ActedOn
<1> QED BY <1>3, <1>4 DEF Write

(* The connection a command is for, if it is still there.                  *)
LEMMA PipeTarget ==
  ASSUME IndInv, net.pc = "pipe"
  PROVE  slot[Head(net.pipe).uid] # None =>
           /\ slot[Head(net.pipe).uid] \in Socks
           /\ sock[slot[Head(net.pipe).uid]].st = "open"
<1>1. net \in NetThread /\ slot \in [Uids -> Socks \cup {None}]
  BY DEF IndInv, Types
<1>2. net.pipe \in Seq(SendData) /\ net.pipe # <<>>
  BY <1>1 DEF NetThread, IndInv, NetKnows
<1>3. Head(net.pipe) \in SendData
  BY <1>2
<1> DEFINE u == Head(net.pipe).uid
<1>4. u \in Uids
  BY <1>3 DEF SendData
<1> HIDE DEF u
<1>5. \A t \in Socks : sock[t].st = "open" <=> \E v \in Uids : slot[v] = t
  BY DEF IndInv, ConnectionsAccounted
<1>6. ASSUME slot[u] # None PROVE slot[u] \in Socks /\ sock[slot[u]].st = "open"
  <2>1. slot[u] \in Socks
    BY <1>1, <1>4, <1>6
  <2>2. sock[slot[u]].st = "open" <=> \E v \in Uids : slot[v] = slot[u]
    BY Zenon, <1>5, <2>1
  <2> QED BY Zenon, <1>4, <2>1, <2>2
<1> QED BY <1>6 DEF u

(* A command that ends a connection makes it the one being ended.          *)
LEMMA PipeEnds ==
  ASSUME Types, net.pc = "pipe", PipeNext(TRUE), UNCHANGED slot
  PROVE  net'.pc = "del" /\ Cur' = slot[Head(net.pipe).uid]
<1>1. net' = [net EXCEPT !.pc = "del", !.uid = Head(net.pipe).uid, !.pipe = Tail(net.pipe)]
  BY DEF PipeNext
<1>2. net'.pc = "del" /\ net'.uid = Head(net.pipe).uid
  BY <1>1 DEF Types, NetThread
<1> QED BY <1>2 DEF Cur

LEMMA PipeSendLingers ==
  ASSUME IndInv, NEW s \in Socks, Lingers(s), PipeSend
  PROVE  Lingers(s)'
<1>1. /\ net.pc = "pipe" /\ UNCHANGED slot /\ ~Ending(s) /\ ~Reading(s) /\ Types
      /\ sock \in [Socks -> Connection] /\ sock[s] \in Connection
  BY DEF PipeSend, At, IndInv, Types, Ending, Reading
<1> DEFINE t == slot[Head(net.pipe).uid]
           c == [sock[t] EXCEPT !.unsent = @ + 1, !.buffered = TRUE]
<1>2. CASE t = None
  <2>1. sock' = sock
    BY <1>2 DEF PipeSend
  <2> QED BY <1>1, <2>1, LeftAlone
<1>3. CASE t # None
  <2>1. PICK q \in Sent(c) : sock' = [sock EXCEPT ![t] = q.k] /\ PipeNext(q.del)
    BY <1>3 DEF PipeSend
  <2>2. t \in Socks /\ sock[t].st = "open" /\ sock[t] \in Connection
    BY <1>1, <1>3, PipeTarget
  <2>3. CASE s # t
    <3> HIDE DEF t
    <3>1. sock'[s] = sock[s]
      BY <1>1, <2>1, <2>3
    <3> QED BY <1>1, <3>1, LeftAlone
  <2>4. CASE s = t
    <3>1. sock[s].unsent \in Nat /\ ActedOn(s)
      BY <1>1, <2>2, <2>4 DEF Lingers, Connection
    <3>2. /\ c \in Connection /\ c.unsent > 0 /\ c.st = sock[s].st
          /\ c.inbound = sock[s].inbound /\ c.edge = sock[s].edge
          /\ c.fin = sock[s].fin /\ c.bClose = sock[s].bClose /\ c.missed = sock[s].missed
      <4> DEFINE k == sock[s]
                 n == k.unsent + 1
      <4>1. k \in Connection /\ c = [k EXCEPT !.unsent = n, !.buffered = TRUE] /\ n \in Nat /\ n > 0
        BY <2>2, <2>4, <3>1
      <4> HIDE DEF k, n, c
      <4>2. /\ c \in Connection /\ c.unsent = n /\ c.st = k.st /\ c.inbound = k.inbound /\ c.edge = k.edge
            /\ c.fin = k.fin /\ c.bClose = k.bClose /\ c.missed = k.missed
        BY <4>1 DEF Connection
      <4> QED BY <4>1, <4>2 DEF k
    <3>3. q.del \in BOOLEAN
      BY <2>1, <3>2, SentIsConnection
    <3>4. q.del => Ending(s)'
      <4>1. CASE q.del
        <5>1. PipeNext(TRUE)
          BY <2>1, <3>3, <4>1
        <5> QED BY <1>1, <2>4, <5>1, PipeEnds DEF Ending
      <4> QED BY <4>1
    <3> HIDE DEF c
    <3>5. sock'[s] = q.k
      BY <1>1, <2>1, <2>2, <2>4
    <3>6. /\ q.k.st = c.st /\ q.k.inbound = c.inbound /\ q.k.edge = c.edge /\ q.k.fin = c.fin
          /\ q.k.bClose = c.bClose /\ q.k.missed = c.missed
          /\ ~q.del => (q.k.bClose => q.k.unsent > 0 \/ "close" \in q.k.missed)
      BY <2>1, <3>2, SentLingers
    <3> QED BY <1>1, <2>2, <2>4, <3>1, <3>2, <3>4, <3>5, <3>6 DEF Lingers, ActedOn
  <2> QED BY <2>3, <2>4
<1> QED BY <1>2, <1>3

(* A close is carried out, waits for what is unwritten, or is put off.     *)
LEMMA PipeCloseLingers ==
  ASSUME IndInv, NEW s \in Socks, Lingers(s), PipeClose
  PROVE  Lingers(s)'
<1>1. /\ net.pc = "pipe" /\ UNCHANGED slot /\ ~Ending(s) /\ ~Reading(s) /\ Types
      /\ sock \in [Socks -> Connection] /\ sock[s] \in Connection
  BY DEF PipeClose, At, IndInv, Types, Ending, Reading
<1> DEFINE t == slot[Head(net.pipe).uid]
           c == [sock[t] EXCEPT !.bClose = TRUE, !.missed = @ \cup PutOff(sock[t])]
<1>2. CASE t = None
  <2>1. sock' = sock
    BY <1>2 DEF PipeClose
  <2> QED BY <1>1, <2>1, LeftAlone
<1>3. CASE t # None
  <2>1. t \in Socks /\ sock[t].st = "open" /\ sock[t] \in Connection
    BY <1>1, <1>3, PipeTarget
  <2>2. sock' = [sock EXCEPT ![t] = c] /\ PipeNext(~sock[t].buffered)
    BY <1>1, <1>3, <2>1 DEF PipeClose
  <2>3. CASE s # t
    <3> HIDE DEF t, c
    <3>1. sock'[s] = sock[s]
      BY <1>1, <2>2, <2>3
    <3> QED BY <1>1, <3>1, LeftAlone
  <2>4. CASE s = t
    <3>1. sock[s].unsent \in Nat /\ sock[s].buffered \in BOOLEAN /\ ActedOn(s)
      BY <1>1, <2>1, <2>4 DEF Lingers, Connection
    <3>2. /\ c.st = "open" /\ c.inbound = sock[s].inbound /\ c.edge = sock[s].edge
          /\ c.fin = sock[s].fin /\ c.unsent = sock[s].unsent
          /\ c.missed = sock[s].missed \cup PutOff(sock[s])
      BY <2>1, <2>4 DEF Connection
    <3>3. ~sock[s].buffered => Ending(s)'
      <4>1. CASE ~sock[s].buffered
        <5>1. PipeNext(TRUE)
          BY <2>2, <2>4, <4>1
        <5> QED BY <1>1, <2>4, <5>1, PipeEnds DEF Ending
      <4> QED BY <4>1
    <3> HIDE DEF c
    <3>4. sock'[s] = c
      BY <1>1, <2>1, <2>2, <2>4
    <3>5. sock[s].buffered => c.unsent > 0 \/ "close" \in c.missed
      BY <3>1, <3>2 DEF PutOff
    <3> QED BY <1>1, <3>1, <3>2, <3>3, <3>4, <3>5 DEF Lingers, ActedOn
  <2> QED BY <2>3, <2>4
<1> QED BY <1>2, <1>3

(* The connection that is deleted is open until its slot is free.          *)
LEMMA DelLingers ==
  ASSUME IndInv, NEW s \in Socks, Lingers(s), DelNotify \/ DelFree
  PROVE  Lingers(s)'
<1>1. /\ net.pc \in {"del", "free"} /\ net \in NetThread /\ ~Reading(s)
      /\ sock \in [Socks -> Connection] /\ sock[s] \in Connection
  BY DEF DelNotify, DelFree, At, IndInv, Types, Reading
<1>2. CASE DelNotify
  <2>1. sock' = sock /\ slot' = slot /\ net' = [net EXCEPT !.pc = "free"]
    BY <1>2 DEF DelNotify
  <2>2. net'.pc = "free" /\ net'.uid = net.uid
    BY <1>1, <2>1 DEF NetThread
  <2> QED BY <1>1, <2>1, <2>2, LeftAlone DEF Ending, Cur
<1>3. CASE DelFree
  <2>1. sock' = [sock EXCEPT ![Cur].st = "closed", ![Cur].edge = FALSE, ![Cur].inbound = <<>>]
    BY <1>3 DEF DelFree
  <2>2. CASE s = Cur
    <3>1. sock'[s] = [sock[s] EXCEPT !.st = "closed", !.edge = FALSE, !.inbound = <<>>]
      BY <1>1, <2>1, <2>2
    <3>2. sock'[s].st = "closed"
      BY <1>1, <3>1 DEF Connection
    <3> QED BY <3>2 DEF Lingers
  <2>3. CASE s # Cur
    <3>1. sock'[s] = sock[s]
      BY <1>1, <2>1, <2>3
    <3> QED BY <1>1, <2>3, <3>1, LeftAlone DEF Ending
  <2> QED BY <2>2, <2>3
<1> QED BY <1>2, <1>3

(* The other steps of the net thread, and all those of the handles.        *)
LEMMA OthersLinger ==
  ASSUME NEW s \in Socks, Lingers(s),
         \/ CheckChunk \/ InsertChunk \/ ParseEnds \/ NotifyEvent \/ Swap
         \/ (\E u \in Uids : Timeout(u)) \/ Handles \/ UNCHANGED vars
  PROVE  Lingers(s)'
<1>1. CASE CheckChunk \/ InsertChunk \/ ParseEnds \/ NotifyEvent \/ Swap \/ \E u \in Uids : Timeout(u)
  <2>1. sock' = sock /\ net.pc \notin {"recv", "del", "free"}
    BY <1>1 DEF CheckChunk, InsertChunk, ParseEnds, NotifyEvent, Swap, Timeout, At
  <2> QED BY <2>1, LeftAlone DEF Reading, Ending, At
<1>2. CASE Handles \/ UNCHANGED vars
  <2>1. UNCHANGED <<sock, slot, net>>
    BY <1>2 DEF Handles, Take, Finish, handleClose, Notify, vars
  <2> QED BY <2>1, LeftAlone DEF Reading, Ending, At, Cur
<1> QED BY <1>1, <1>2

LEMMA NextLingerInv ==
  ASSUME IndInv, LingerInv, [Next]_vars
  PROVE  LingerInv'
<1> SUFFICES ASSUME NEW s \in Socks PROVE Lingers(s)'
  BY DEF LingerInv
<1>1. Types /\ Lingers(s)
  BY DEF IndInv, LingerInv
<1>2. CASE \E t \in Socks : Client(t)
  BY <1>1, <1>2, ClientLingers
<1>3. CASE \E t \in Socks : Accept(t) \/ Refuse(t)
  BY <1>1, <1>3, AcceptLingers
<1>4. CASE \E u \in Uids : NetEvent(u)
  BY <1>1, <1>4, NetEventLingers
<1>5. CASE Read
  BY <1>1, <1>5, ReadLingers
<1>6. CASE Write
  BY <1>1, <1>6, WriteLingers
<1>7. CASE PipeClose
  BY <1>1, <1>7, PipeCloseLingers
<1>8. CASE PipeSend
  BY <1>1, <1>8, PipeSendLingers
<1>9. CASE DelNotify \/ DelFree
  BY <1>1, <1>9, DelLingers
<1>10. CASE \/ CheckChunk \/ InsertChunk \/ ParseEnds \/ NotifyEvent \/ Swap
            \/ (\E u \in Uids : Timeout(u)) \/ Handles \/ UNCHANGED vars
  BY <1>1, <1>10, OthersLinger
<1> QED BY <1>2, <1>3, <1>4, <1>5, <1>6, <1>7, <1>8, <1>9, <1>10 DEF Next, Net

(* What has come in, an end of file and a close that has been asked for    *)
(* are acted on, but for the two cases in which only a later event or the  *)
(* time-out ends the connection: those of Connection::recv and setClose.   *)
THEOREM OnlyMissedEverLinger == Spec => []OnlyMissedLinger
<1>1. Init => LingerInv
  BY DEF Init, Fresh, LingerInv, Lingers
<1>2. IndInv /\ LingerInv /\ [Next]_vars => LingerInv'
  BY NextLingerInv
<1>3. LingerInv => OnlyMissedLinger
  BY DEF LingerInv, Lingers, ActedOn, OnlyMissedLinger
<1> QED BY <1>1, <1>2, <1>3, IndInvIsInvariant, PTL DEF Spec
==============================================================================
