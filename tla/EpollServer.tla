------------------------------ MODULE EpollServer ------------------------------
(***************************************************************************)
(* TC_EpollServer: one TCP BindAdapter, the net thread (waitForShutdown)   *)
(* with its table of connections, the receive queue to the handle threads, *)
(* and the send queue back from them.                                      *)
(*                                                                         *)
(* A client socket is accepted at most once; the server knows it by a uid, *)
(* the index of its slot in the table (the magic number in the upper bits  *)
(* is set once, by init).  Not in the code are the sock field of the       *)
(* messages below, the connection the message is about, and missed of a    *)
(* connection: its end of file was left unread, or its closing put off.    *)
(* The handles are ServantHandles: a request may be answered at once,      *)
(* later (asynchronously) or never, by any thread.                         *)
(***************************************************************************)
EXTENDS Integers, Sequences, SequencesExt, FiniteSets

CONSTANTS
  Socks,      \* the client sockets
  Total,      \* getMaxConns(), and so the size of the table
  Capacity,   \* _iQueueCapacity
  MaxReq,     \* requests a client sends at most (bound)
  MaxWork,    \* messages in the hands of the handles at once (bound)
  MaxMods,    \* threads at once between push_back and mod (bound)
  Taf,        \* isTafProtocol()
  None

ASSUME TotalAssumption    == Total \in Nat \ {0}
ASSUME CapacityAssumption == Capacity \in Nat \ {0}
ASSUME TafAssumption      == Taf \in BOOLEAN
ASSUME MaxReqAssumption   == MaxReq \in Nat
ASSUME MaxModsAssumption  == MaxMods \in Nat
ASSUME NoneAssumption     == None \notin Socks

Uids     == 1 .. Total
Requests == 1 .. MaxReq
Bad      == 0            \* a packet the protocol parser refuses

VARIABLES
  free,     \* ConnectionList::_free
  slot,     \* ConnectionList::_vConn: the connection of each uid
  nconn,    \* BindAdapter::_iCurConns
  sock,     \* the sockets and their Connections
  rq,       \* BindAdapter::_rbuffer
  sq,       \* TC_EpollServer::_sbuffer
  poke,     \* an event of _notify is pending
  mods,     \* threads that have pushed to _sbuffer and not yet called mod
  net,      \* the net thread
  working   \* messages in the hands of the handles

vars == <<free, slot, nconn, sock, rq, sq, poke, mods, net, working>>

Fresh == [st |-> "away", next |-> 0, inbound |-> <<>>, fin |-> FALSE, edge |-> FALSE,
          bClose |-> FALSE, buffered |-> FALSE, unsent |-> 0, missed |-> {}]

Idle == [pc |-> "idle", uid |-> 1, batch |-> <<>>, chunk |-> 0, over |-> FALSE,
         pipe |-> <<>>]

Recv(kind, uid, s, n) == [kind |-> kind, uid |-> uid, sock |-> s, n |-> n]

RecvData == [kind : {"data", "overload", "closed"}, uid : Uids, sock : Socks,
             n : 0 .. MaxReq]
SendData == [cmd : {"s", "c"}, uid : Uids, sock : Socks]

TypeOK ==
  /\ free \in Seq(Uids)
  /\ slot \in [Uids -> Socks \cup {None}]
  /\ nconn \in 0 .. Total
  /\ sock \in [Socks ->
       [st : {"away", "backlog", "open", "closed"}, next : 0 .. MaxReq,
        inbound : Seq(0 .. MaxReq), fin : BOOLEAN, edge : BOOLEAN, bClose : BOOLEAN,
        buffered : BOOLEAN, unsent : Nat, missed : SUBSET {"end", "close"}]]
  /\ rq \in Seq(RecvData)
  /\ sq \in Seq(SendData)
  /\ poke \in BOOLEAN
  /\ mods \in 0 .. MaxMods
  /\ net \in [pc : {"idle", "recv", "parse", "insert", "write", "del", "free", "swap", "pipe"},
              uid : Uids, batch : Seq(0 .. MaxReq), chunk : 0 .. MaxReq, over : BOOLEAN,
              pipe : Seq(SendData)]
  /\ working \subseteq [msg : RecvData, left : 1 .. 2]

Init ==
  /\ free = [u \in Uids |-> u]
  /\ slot = [u \in Uids |-> None]
  /\ nconn = 0
  /\ sock = [s \in Socks |-> Fresh]
  /\ rq = <<>>
  /\ sq = <<>>
  /\ poke = FALSE
  /\ mods = 0
  /\ net = Idle
  /\ working = {}

-----------------------------------------------------------------------------
(***************************************************************************)
(* The clients (external).                                                 *)
(***************************************************************************)
Connect(s) ==
  /\ sock[s].st = "away"
  /\ sock' = [sock EXCEPT ![s].st = "backlog"]
  /\ UNCHANGED <<free, slot, nconn, rq, sq, poke, mods, net, working>>

Request(s) ==
  /\ sock[s].st = "open" /\ ~sock[s].fin /\ sock[s].next < MaxReq
  /\ \E p \in {sock[s].next + 1, Bad} :
       sock' = [sock EXCEPT ![s].next = @ + 1, ![s].edge = TRUE,
                            ![s].inbound = Append(@, p)]
  /\ UNCHANGED <<free, slot, nconn, rq, sq, poke, mods, net, working>>

Hangup(s) ==
  /\ sock[s].st = "open" /\ ~sock[s].fin
  /\ sock' = [sock EXCEPT ![s].fin = TRUE, ![s].edge = TRUE]
  /\ UNCHANGED <<free, slot, nconn, rq, sq, poke, mods, net, working>>

(***************************************************************************)
(* The socket takes data again: epoll reports EPOLLOUT.                    *)
(***************************************************************************)
Writable(s) ==
  /\ sock[s].st = "open" /\ sock[s].unsent > 0 /\ ~sock[s].edge
  /\ sock' = [sock EXCEPT ![s].edge = TRUE]
  /\ UNCHANGED <<free, slot, nconn, rq, sq, poke, mods, net, working>>

-----------------------------------------------------------------------------
(***************************************************************************)
(* The net thread: accept.                                                 *)
(***************************************************************************)
At(p) == net.pc = p

isLimitMaxConnection == nconn + 1 > Total

Accept(s) ==
  /\ At("idle") /\ sock[s].st = "backlog"
  /\ ~isLimitMaxConnection
  /\ free' = Tail(free)
  /\ slot' = [slot EXCEPT ![Head(free)] = s]
  /\ nconn' = nconn + 1
  /\ sock' = [sock EXCEPT ![s].st = "open", ![s].edge = TRUE]
  /\ UNCHANGED <<rq, sq, poke, mods, net, working>>

Refuse(s) ==
  /\ At("idle") /\ sock[s].st = "backlog"
  /\ isLimitMaxConnection
  /\ sock' = [sock EXCEPT ![s].st = "away"]
  /\ UNCHANGED <<free, slot, nconn, rq, sq, poke, mods, net, working>>

(***************************************************************************)
(* processNet: a connection has an event.  A reset connection is deleted   *)
(* at once, else what is there is read.                                    *)
(***************************************************************************)
Cur == slot[net.uid]

NetEvent(u) ==
  /\ At("idle") /\ slot[u] # None /\ sock[slot[u]].edge
  /\ sock' = [sock EXCEPT ![slot[u]].edge = FALSE]
  /\ \E p \in IF sock[slot[u]].fin THEN {"recv", "del"} ELSE {"recv"} :
       net' = [Idle EXCEPT !.pc = p, !.uid = u]
  /\ UNCHANGED <<free, slot, nconn, rq, sq, poke, mods, working>>

Unread(k) == IF k.fin /\ k.inbound # <<>> THEN {"end"} ELSE {}

(* Mutant: an end of file that comes alone is taken for a short read.      *)
ReadPastEnd ==
  /\ At("recv")
  /\ \/ /\ net' = [net EXCEPT !.pc = "parse", !.batch = sock[Cur].inbound]
        /\ sock' = [sock EXCEPT ![Cur].inbound = <<>>,
                                ![Cur].missed = @ \cup Unread(sock[Cur])]
     \/ /\ sock[Cur].fin
        /\ net' = [net EXCEPT !.pc = "del"]
        /\ sock' = [sock EXCEPT ![Cur].inbound = <<>>]
  /\ UNCHANGED <<free, slot, nconn, rq, sq, poke, mods, working>>

(***************************************************************************)
(* Connection::recv reads until a read does not fill the buffer: an end of *)
(* file behind such a read is not seen.  Where the data fills the buffer   *)
(* exactly it is seen, and recv fails: what had been parsed is dropped.    *)
(***************************************************************************)
Read ==
  /\ At("recv")
  /\ LET k == sock[Cur]
     IN  \/ /\ ~(k.fin /\ k.inbound = <<>>)
            /\ net' = [net EXCEPT !.pc = "parse", !.batch = k.inbound]
            /\ sock' = [sock EXCEPT ![Cur].inbound = <<>>, ![Cur].missed = @ \cup Unread(k)]
         \/ /\ k.fin
            /\ net' = [net EXCEPT !.pc = "del"]
            /\ sock' = [sock EXCEPT ![Cur].inbound = <<>>]
  /\ UNCHANGED <<free, slot, nconn, rq, sq, poke, mods, working>>

(***************************************************************************)
(* parseProtocol and insertRecvQueue.  The parsed packets go to the queue  *)
(* together at the end, but also whenever more than _iMaxTemQueueSize have *)
(* been parsed, a member that the constructor of a TCP Connection leaves   *)
(* uninitialised: so in chunks of any size.  A bad packet ends the parsing *)
(* and drops those not yet inserted.  isOverload is read before the push.  *)
(***************************************************************************)
Good == {k \in 1 .. Len(net.batch) : \A i \in 1 .. k : net.batch[i] # Bad}

(* Mutant: the capacity is not checked. *)
OverloadUnchecked == FALSE

isOverload == Len(rq) > Capacity

CheckChunk ==
  /\ At("parse")
  /\ \E k \in Good :
       net' = [net EXCEPT !.pc = "insert", !.chunk = k, !.over = isOverload]
  /\ UNCHANGED <<free, slot, nconn, sock, rq, sq, poke, mods, working>>

(* Mutant: everything is inserted like overloaded messages. *)
InsertedInFront(chunk, over) ==
  LET kind == IF over THEN "overload" ELSE "data"
  IN  Reverse([i \in DOMAIN chunk |-> Recv(kind, net.uid, Cur, chunk[i])]) \o rq

Inserted(chunk, over) ==
  LET msg(i) == Recv(IF over THEN "overload" ELSE "data", net.uid, Cur, chunk[i])
      msgs   == [i \in DOMAIN chunk |-> msg(i)]
  IN  IF over THEN Reverse(msgs) \o rq ELSE rq \o msgs

InsertChunk ==
  /\ At("insert")
  /\ rq' = Inserted(SubSeq(net.batch, 1, net.chunk), net.over)
  /\ net' = [net EXCEPT !.pc = "parse", !.chunk = 0, !.over = FALSE,
                        !.batch = SubSeq(@, net.chunk + 1, Len(@))]
  /\ UNCHANGED <<free, slot, nconn, sock, sq, poke, mods, working>>

(* Mutant: a bad packet queues a close notification of its own. *)
ParseEndsNotifies ==
  /\ At("parse")
  /\ \/ net.batch = <<>> /\ net' = [net EXCEPT !.pc = "write"] /\ UNCHANGED rq
     \/ /\ Bad \in Range(net.batch)
        /\ net' = [net EXCEPT !.pc = "del", !.batch = <<>>]
        /\ rq' = Append(rq, Recv("closed", net.uid, Cur, 0))
  /\ UNCHANGED <<free, slot, nconn, sock, sq, poke, mods, working>>

ParseEnds ==
  /\ At("parse")
  /\ \/ net.batch = <<>> /\ net' = [net EXCEPT !.pc = "write"]
     \/ Bad \in Range(net.batch) /\ net' = [net EXCEPT !.pc = "del", !.batch = <<>>]
  /\ UNCHANGED <<free, slot, nconn, sock, rq, sq, poke, mods, working>>

(***************************************************************************)
(* Connection::send with what the socket takes: everything, nothing, or an *)
(* error.  After everything has been written _sendbuffer is emptied only   *)
(* when it is longer than 8192 bytes, otherwise _sendPos moves to its end. *)
(* A connection that is to close is closed once all is written.            *)
(***************************************************************************)
Sent(k) ==
  {[k |-> [k EXCEPT !.unsent = 0, !.buffered = b], del |-> k.bClose] : b \in {TRUE, FALSE}}
    \cup (IF k.unsent > 0 THEN {[k |-> k, del |-> FALSE]} ELSE {})
    \cup (IF k.unsent > 0 /\ k.fin THEN {[k |-> k, del |-> TRUE]} ELSE {})

Write ==
  /\ At("write")
  /\ IF ~sock[Cur].buffered
       THEN /\ net' = Idle
            /\ UNCHANGED sock
       ELSE \E r \in Sent(sock[Cur]) :
              /\ sock' = [sock EXCEPT ![Cur] = r.k]
              /\ net' = IF r.del THEN [net EXCEPT !.pc = "del"] ELSE Idle
  /\ UNCHANGED <<free, slot, nconn, rq, sq, poke, mods, working>>

(***************************************************************************)
(* checkTimeout: a connection that has been idle for its time-out.         *)
(***************************************************************************)
Timeout(u) ==
  /\ At("idle") /\ slot[u] # None
  /\ net' = [Idle EXCEPT !.pc = "del", !.uid = u]
  /\ UNCHANGED <<free, slot, nconn, sock, rq, sq, poke, mods, working>>

(***************************************************************************)
(* delConnection: tell the handles, then close the socket and free the     *)
(* slot (_del, at the end of the free list).                               *)
(***************************************************************************)
(* Mutant: the notification jumps the queue. *)
DelNotifyInFront ==
  /\ At("del")
  /\ rq' = <<Recv("closed", net.uid, Cur, 0)>> \o rq
  /\ net' = [net EXCEPT !.pc = "free"]
  /\ UNCHANGED <<free, slot, nconn, sock, sq, poke, mods, working>>

DelNotify ==
  /\ At("del")
  /\ rq' = Append(rq, Recv("closed", net.uid, Cur, 0))
  /\ net' = [net EXCEPT !.pc = "free"]
  /\ UNCHANGED <<free, slot, nconn, sock, sq, poke, mods, working>>

(* Mutant: the counter goes down twice, in delConnection and in the Connection. *)
DelFreeTwice ==
  /\ At("free")
  /\ nconn' = nconn - 2
  /\ sock' = [sock EXCEPT ![Cur].st = "closed", ![Cur].edge = FALSE, ![Cur].inbound = <<>>]
  /\ slot' = [slot EXCEPT ![net.uid] = None]
  /\ free' = Append(free, net.uid)
  /\ net' = IF net.pipe = <<>> THEN Idle ELSE [net EXCEPT !.pc = "pipe"]
  /\ UNCHANGED <<rq, sq, poke, mods, working>>

(* Mutant: the counter stays up when the deletion is part of processPipe. *)
DelFreeUncounted ==
  /\ At("free")
  /\ nconn' = IF net.pipe = <<>> THEN nconn - 1 ELSE nconn
  /\ sock' = [sock EXCEPT ![Cur].st = "closed", ![Cur].edge = FALSE, ![Cur].inbound = <<>>]
  /\ slot' = [slot EXCEPT ![net.uid] = None]
  /\ free' = Append(free, net.uid)
  /\ net' = IF net.pipe = <<>> THEN Idle ELSE [net EXCEPT !.pc = "pipe"]
  /\ UNCHANGED <<rq, sq, poke, mods, working>>

DelFree ==
  /\ At("free")
  /\ nconn' = nconn - 1
  /\ sock' = [sock EXCEPT ![Cur].st = "closed", ![Cur].edge = FALSE, ![Cur].inbound = <<>>]
  /\ slot' = [slot EXCEPT ![net.uid] = None]
  /\ free' = Append(free, net.uid)
  /\ net' = IF net.pipe = <<>> THEN Idle ELSE [net EXCEPT !.pc = "pipe"]
  /\ UNCHANGED <<rq, sq, poke, mods, working>>

(***************************************************************************)
(* processPipe: take the whole send queue and carry out its commands.      *)
(***************************************************************************)
NotifyEvent ==
  /\ At("idle") /\ poke
  /\ poke' = FALSE
  /\ net' = [Idle EXCEPT !.pc = "swap"]
  /\ UNCHANGED <<free, slot, nconn, sock, rq, sq, mods, working>>

(* Mutant: one command is taken for each event. *)
SwapOne ==
  /\ At("swap")
  /\ sq' = IF sq = <<>> THEN sq ELSE Tail(sq)
  /\ net' = IF sq = <<>> THEN Idle ELSE [net EXCEPT !.pc = "pipe", !.pipe = <<Head(sq)>>]
  /\ UNCHANGED <<free, slot, nconn, sock, rq, poke, mods, working>>

Swap ==
  /\ At("swap")
  /\ sq' = <<>>
  /\ net' = IF sq = <<>> THEN Idle ELSE [net EXCEPT !.pc = "pipe", !.pipe = sq]
  /\ UNCHANGED <<free, slot, nconn, sock, rq, poke, mods, working>>

PipeNext(del) ==
  LET rest == Tail(net.pipe)
  IN  net' = IF del THEN [net EXCEPT !.pc = "del", !.uid = Head(net.pipe).uid, !.pipe = rest]
             ELSE IF rest = <<>> THEN Idle ELSE [net EXCEPT !.pipe = rest]

PutOff(k) == IF k.buffered /\ k.unsent = 0 THEN {"close"} ELSE {}

PipeClose ==
  /\ At("pipe") /\ Head(net.pipe).cmd = "c"
  /\ LET s == slot[Head(net.pipe).uid]
     IN  IF s = None
           THEN PipeNext(FALSE) /\ UNCHANGED sock
           ELSE /\ sock' = [sock EXCEPT ![s].bClose = TRUE,
                                         ![s].missed = @ \cup PutOff(sock[s])]
                /\ PipeNext(~sock[s].buffered)
  /\ UNCHANGED <<free, slot, nconn, rq, sq, poke, mods, working>>

PipeSend ==
  /\ At("pipe") /\ Head(net.pipe).cmd = "s"
  /\ LET s == slot[Head(net.pipe).uid]
     IN  IF s = None
           THEN PipeNext(FALSE) /\ UNCHANGED sock
           ELSE \E r \in Sent([sock[s] EXCEPT !.unsent = @ + 1, !.buffered = TRUE]) :
                  /\ sock' = [sock EXCEPT ![s] = r.k]
                  /\ PipeNext(r.del)
  /\ UNCHANGED <<free, slot, nconn, rq, sq, poke, mods, working>>

-----------------------------------------------------------------------------
(***************************************************************************)
(* The handles.  A request is taken; then it is answered, or its           *)
(* connection is closed (it cannot be decoded, the servant asks for it),   *)
(* or neither (one-way).  A close notification has no request to decode:   *)
(* with the taf protocol createCurrent closes the uid and returns NULL,    *)
(* whose use throws, and handleImp closes the uid again.                   *)
(***************************************************************************)
Take ==
  /\ rq # <<>> /\ Cardinality(working) < MaxWork
  /\ rq' = Tail(rq)
  /\ working' = IF Head(rq).kind # "closed" THEN working \cup {[msg |-> Head(rq), left |-> 1]}
                ELSE IF Taf THEN working \cup {[msg |-> Head(rq), left |-> 2]}
                ELSE working
  /\ UNCHANGED <<free, slot, nconn, sock, sq, poke, mods, net>>

Push(cmd, w) ==
  /\ mods < MaxMods
  /\ sq' = Append(sq, [cmd |-> cmd, uid |-> w.msg.uid, sock |-> w.msg.sock])
  /\ mods' = mods + 1

Finish(w) ==
  /\ w.msg.kind # "closed"
  /\ working' = working \ {w}
  /\ \/ \E cmd \in {"s", "c"} : Push(cmd, w)
     \/ UNCHANGED <<sq, mods>>
  /\ UNCHANGED <<free, slot, nconn, sock, rq, poke, net>>

handleClose(w) ==
  /\ w.msg.kind = "closed"
  /\ working' = (working \ {w}) \cup
                  (IF w.left = 2 THEN {[w EXCEPT !.left = 1]} ELSE {})
  /\ Push("c", w)
  /\ UNCHANGED <<free, slot, nconn, sock, rq, poke, net>>

(***************************************************************************)
(* _epoller.mod(_notify): the event comes after the push.                  *)
(***************************************************************************)
(* Mutant: the event is armed only if the queue has become longer than one. *)
NotifySeldom ==
  /\ mods > 0
  /\ mods' = mods - 1
  /\ poke' = (poke \/ Len(sq) > 1)
  /\ UNCHANGED <<free, slot, nconn, sock, rq, sq, net, working>>

Notify ==
  /\ mods > 0
  /\ mods' = mods - 1
  /\ poke' = TRUE
  /\ UNCHANGED <<free, slot, nconn, sock, rq, sq, net, working>>

-----------------------------------------------------------------------------
Client(s) == Connect(s) \/ Request(s) \/ Hangup(s) \/ Writable(s)

Net ==
  \/ \E s \in Socks : Accept(s) \/ Refuse(s)
  \/ \E u \in Uids : NetEvent(u)
  \/ Read \/ CheckChunk \/ InsertChunk \/ ParseEnds \/ Write
  \/ DelNotify \/ DelFree
  \/ NotifyEvent \/ Swap \/ PipeClose \/ PipeSend

Handles ==
  \/ Take
  \/ \E w \in working : Finish(w) \/ handleClose(w)
  \/ Notify

Next ==
  \/ \E s \in Socks : Client(s)
  \/ Net
  \/ \E u \in Uids : Timeout(u)
  \/ Handles

Spec == Init /\ [][Next]_vars

(***************************************************************************)
(* The net thread and the handles run, and epoll, which reports what is    *)
(* ready in turn, does not keep the event of _notify back for ever.  A     *)
(* servant need not answer, and no connection need ever time out.          *)
(***************************************************************************)
Fairness ==
  /\ WF_vars(Net)
  /\ WF_vars(Take)
  /\ WF_vars(Notify)
  /\ SF_vars(NotifyEvent)

FairSpec == Spec /\ Fairness

-----------------------------------------------------------------------------
(***************************************************************************)
(* Properties.                                                             *)
(***************************************************************************)

(* The free list, the table and the connection counter agree, whichever    *)
(* way connections end: accept below the limit finds a free uid, and       *)
(* the assertions of getUniqId, add and _del hold.                         *)
ConnectionsAccounted ==
  /\ \A i, j \in DOMAIN free : free[i] = free[j] => i = j
  /\ \A u \in Uids : u \in Range(free) <=> slot[u] = None
  /\ \A u, v \in Uids : slot[u] = slot[v] /\ slot[u] # None => u = v
  /\ \A s \in Socks : sock[s].st = "open" <=> \E u \in Uids : slot[u] = s
  /\ nconn + Len(free) = Total

(* The handles are told once that a connection has closed, and only when   *)
(* it has: by the peer, an error, a bad packet, a time-out or a servant.   *)
Notices(s) ==
  Cardinality({i \in DOMAIN rq : rq[i].kind = "closed" /\ rq[i].sock = s})

ClosedIsNotifiedOnce ==
  \A s \in Socks :
    LET taken == {w \in working : w.msg.kind = "closed" /\ w.msg.sock = s}
    IN  /\ Notices(s) + Cardinality(taken) <= 1
        /\ sock[s].st = "open" /\ ~(At("free") /\ Cur = s) => Notices(s) = 0 /\ taken = {}

(* A close notification is the last message of its connection, also when   *)
(* the queue is overloaded and messages jump it.                           *)
CloseIsLast ==
  \A i, j \in DOMAIN rq :
    i < j /\ rq[i].sock = rq[j].sock => rq[i].kind # "closed"

(* The requests of a connection that are to be handled stay in the order   *)
(* in which the client sent them, whatever sizes they were inserted in.    *)
RequestsInOrder ==
  \A i, j \in DOMAIN rq :
    /\ i < j /\ rq[i].sock = rq[j].sock
    /\ rq[i].kind = "data" /\ rq[j].kind = "data"
    => rq[i].n < rq[j].n

(* Overload protection: however many clients there are, the requests that  *)
(* wait to be handled exceed the capacity by less than one read.           *)
QueueIsBounded ==
  Cardinality({i \in DOMAIN rq : rq[i].kind = "data"}) <= Capacity + MaxReq

(* A command in the send queue is seen: there is an event of _notify to    *)
(* come, or the net thread is about to take the queue.                     *)
CommandsAreSeen == sq # <<>> => poke \/ mods > 0 \/ At("swap")

(* "the unique number of the connection" (tc_epoll_server.h:965), "get a   *)
(* unique id" (line 1041): a command is carried out on the connection it   *)
(* was given for, or on none.                                              *)
CommandsReachTheirConnection ==
  At("pipe") => slot[Head(net.pipe).uid] \in {Head(net.pipe).sock, None}

(* epoll is edge triggered: what has come in, the end of file after it and *)
(* a close that a servant has asked for are still going to be acted on, by *)
(* an event to come, a write to come or the net thread at work on them,    *)
(* but for two cases, in which only a later event or the time-out ends the *)
(* connection: an end of file behind a short read, and a close that finds  *)
(* a send buffer already written and not yet emptied.                      *)
Reading(s) == At("recv") /\ Cur = s

Ending(s) == net.pc \in {"del", "free"} /\ Cur = s

OnlyMissedLinger ==
  \A s \in Socks : sock[s].st = "open" /\ ~Ending(s) =>
    /\ sock[s].inbound # <<>> => sock[s].edge \/ Reading(s)
    /\ sock[s].fin => sock[s].edge \/ Reading(s) \/ "end" \in sock[s].missed
    /\ sock[s].bClose => sock[s].unsent > 0 \/ "close" \in sock[s].missed

(* Whatever is put into the send queue is taken out again.                 *)
CommandsAreTaken == sq # <<>> ~> sq = <<>>
==============================================================================
