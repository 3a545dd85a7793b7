------------------------------- MODULE RpcClient -------------------------------
(***************************************************************************)
(* The invocation path of the RPC client: one ObjectProxy with its         *)
(* AdapterProxies, between four kinds of threads:                          *)
(*   callers          ServantProxy::invoke (synchronous, asynchronous and  *)
(*                    one-way calls);                                      *)
(*   the FDReactor    the network thread: Transceiver, TransceiverHandle,  *)
(*                    AdapterProxy::sendRequest and finished;              *)
(*   the TMReactor    the timer thread: TC_TimeoutQueue::timeout;          *)
(*   AsyncProcThread  the threads that run callbacks.                      *)
(* The peer answers a request at most once, on the connection it came on,  *)
(* and may close a connection at any time.  Time is not counted: a         *)
(* time-out may strike whenever the code waits for one.                    *)
(***************************************************************************)
EXTENDS TimeoutQueueOps, FiniteSets

CONSTANTS
  Calls,      \* the calls made through the proxy
  Adapters,   \* the AdapterProxies of the object
  Conns,      \* the connections that can ever be made (bounds reconnection)
  Mixes,      \* which calls and connections there are: [kind, hashed, conns]
  None

ASSUME MixesAssumption ==
  \A m \in Mixes : /\ m.kind \in [Calls -> {"sync", "async", "oneway", "none"}]
                   /\ m.hashed \subseteq Calls /\ m.conns \subseteq Conns

Obj    == "obj"                    \* the ObjectProxy's queue
Queues == {Obj} \cup Adapters      \* and each AdapterProxy's own

ASSUME NamesAssumption == /\ Obj \notin Adapters
                          /\ None \notin Calls \cup Adapters \cup Conns

VARIABLES
  queue,     \* _timeoutQueue of the ObjectProxy and of each AdapterProxy
  uniqId,    \* the ObjectProxy queue's _uniqId
  conn,      \* the Transceivers and their sockets
  server,    \* requests the peer has and has not answered: [conn, id, msg]
  pc,        \* where each caller is
  trans,     \* the connection each caller selected
  resp,      \* ReqMessage::response of each call
  reactor,   \* the network thread
  asyncQ,    \* AsyncProcThread::_queue: [msg, ver]
  outcome,   \* what the caller or its callback was told
  got,       \* the body it was given
  runs,      \* how many times the callback has run
  mix        \* the calls of this behaviour, one of Mixes

Kind   == mix.kind       \* invoke, invoke_async, or one-way; "none" is never made
Hashed == mix.hashed     \* with JCEMESSAGETYPEHASH or GRID: adapter's own queue

told == <<outcome, got, runs>>
vars == <<queue, uniqId, conn, server, pc, trans, resp, reactor, asyncQ, told>>

NoConn == [st |-> "unused", owner |-> None, up |-> FALSE, edge |-> FALSE,
           sendBuf |-> <<>>, inbound |-> <<>>, lastReq |-> None]

Idle == [pc |-> "idle", conn |-> None, done |-> <<>>, cur |-> None,
         any |-> FALSE, after |-> "idle"]

NoResponse == [ver |-> FALSE, ret |-> "unknown", body |-> None]

Packet   == [id : Nat, msg : Calls]
Request  == [id : Nat, msg : Calls, popped : BOOLEAN, age : {0}]
Socket   == [st : {"unused", "open", "closed"}, owner : Adapters \cup {None}, up : BOOLEAN,
             edge : BOOLEAN, sendBuf : Seq(Packet), inbound : Seq(Packet),
             lastReq : Calls \cup {None}]
Response == [ver : BOOLEAN, ret : {"unknown", "success", "connerr"}, body : Calls \cup {None}]
Callback == [msg : Calls, ver : BOOLEAN]
NetThread ==
  [pc : {"idle", "recv", "close", "closeNotify", "finished", "copy", "copyRet",
         "copyBuffer", "deliver", "send", "pop"},
   conn : Conns \cup {None}, done : Seq(Packet), cur : Calls \cup {None},
   any : BOOLEAN, after : {"idle", "finished", "pop"}]

TypeOK ==
  /\ mix \in Mixes
  /\ uniqId \in Nat
  /\ queue \in [Queues -> [time : Seq(Request), first : Nat \cup {End, Dangling}]]
  /\ conn \in [Conns -> Socket]
  /\ server \subseteq [conn : Conns, id : Nat, msg : Calls]
  /\ pc \in [Calls -> {"new", "pushed", "check", "waiting", "woken", "done"}]
  /\ trans \in [Calls -> Conns \cup {None}]
  /\ resp \in [Calls -> Response]
  /\ reactor \in NetThread
  /\ asyncQ \in Seq(Callback)
  /\ outcome \in [Calls -> {"none", "ok", "timeout", "connerr", "unknown", "failed"}]
  /\ got \in [Calls -> Calls \cup {None}]
  /\ runs \in [Calls -> 0 .. 1]

Init ==
  /\ queue = [k \in Queues |-> NewQueue(Dangling)]
  /\ uniqId = 0
  /\ mix \in Mixes
  /\ conn = [c \in Conns |-> IF c \in mix.conns THEN NoConn ELSE [NoConn EXCEPT !.st = "closed"]]
  /\ server = {}
  /\ pc = [r \in Calls |-> IF Kind[r] = "none" THEN "done" ELSE "new"]
  /\ trans = [r \in Calls |-> None]
  /\ resp = [r \in Calls |-> NoResponse]
  /\ reactor = Idle
  /\ asyncQ = <<>>
  /\ outcome = [r \in Calls |-> "none"]
  /\ got = [r \in Calls |-> None]
  /\ runs = [r \in Calls |-> 0]

-----------------------------------------------------------------------------
(***************************************************************************)
(* ReqMessage is reference counted: the queues, the caller inside invoke   *)
(* and the network thread hold references.  Whoever drops the last one     *)
(* runs ~ReqMessage, which turns an asynchronous call without a response   *)
(* into a time-out message for the callback threads.                       *)
(***************************************************************************)
Queued(r, qs) ==
  \E k \in DOMAIN qs : \E i \in DOMAIN qs[k].time : qs[k].time[i].msg = r

(* Mutant: the response is not looked at, the call was answered or not.    *)
DroppedAnswered(r, qs, pcs, cur) ==
  IF r # None /\ cur # r /\ Kind[r] = "async" /\ ~Queued(r, qs) /\ pcs[r] # "pushed"
    THEN Append(asyncQ, [msg |-> r, ver |-> FALSE])
    ELSE asyncQ

(* Mutant: the destructor makes nothing of an unanswered call.             *)
DroppedSilently(r, qs, pcs, cur) == asyncQ

Dropped(r, qs, pcs, cur) ==
  IF /\ r # None /\ cur # r
     /\ Kind[r] = "async" /\ ~resp[r].ver
     /\ ~Queued(r, qs)
     /\ pcs[r] # "pushed"
    THEN Append(asyncQ, [msg |-> r, ver |-> FALSE])
    ELSE asyncQ

-----------------------------------------------------------------------------
(***************************************************************************)
(* Callers.                                                                *)
(***************************************************************************)

(***************************************************************************)
(* ObjectProxy::invoke holds the ObjectProxy's lock from the selection of  *)
(* the adapter to the return of handleWrite.                               *)
(***************************************************************************)
Unlocked == \A r \in Calls : pc[r] # "pushed"

(***************************************************************************)
(* selectTransceiver and doReconnect: a valid connection of the adapter,   *)
(* or a new one, whose registration with epoll makes a first event.        *)
(***************************************************************************)
Selected(a) ==
  LET usable == {c \in Conns : conn[c].st = "open" /\ conn[c].owner = a}
      unused == {c \in Conns : conn[c].st = "unused"}
      fresh  == [NoConn EXCEPT !.st = "open", !.owner = a, !.up = TRUE, !.edge = TRUE]
  IN  IF usable # {}
        THEN {[c |-> c, conns |-> conn] : c \in usable}
        ELSE {[c |-> c, conns |-> [conn EXCEPT ![c] = fresh]] : c \in unused}

(***************************************************************************)
(* AdapterProxy::invoke up to handleWrite: select a connection, number the *)
(* request and push it, the stateful ones to the adapter's queue.          *)
(***************************************************************************)
Invoke(r, a) ==
  /\ pc[r] = "new" /\ Unlocked
  /\ \E s \in Selected(a) :
       /\ conn' = s.conns
       /\ trans' = [trans EXCEPT ![r] = s.c]
  /\ LET k == IF r \in Hashed THEN a ELSE Obj
     IN  \E p \in Pushed(queue[k], uniqId + 1, r) : queue' = [queue EXCEPT ![k] = p]
  /\ uniqId' = uniqId + 1
  /\ pc' = [pc EXCEPT ![r] = "pushed"]
  /\ UNCHANGED <<server, resp, reactor, asyncQ, told>>

(***************************************************************************)
(* No adapter, or no connection to it: the call throws, and req->proxy =   *)
(* NULL keeps ~ReqMessage from making a time-out of it.                    *)
(***************************************************************************)
InvokeFails(r) ==
  /\ pc[r] = "new" /\ Unlocked
  /\ \E a \in Adapters : \A c \in Conns : ~(conn[c].st = "open" /\ conn[c].owner = a)
  /\ pc' = [pc EXCEPT ![r] = "done"]
  /\ outcome' = [outcome EXCEPT ![r] = "failed"]
  /\ UNCHANGED <<queue, uniqId, conn, server, trans, resp, reactor, asyncQ, got, runs>>

(* Mutant: epoll is not re-armed.                                          *)
HandleWriteUnarmed(r) ==
  /\ pc[r] = "pushed"
  /\ pc' = [pc EXCEPT ![r] = IF Kind[r] = "sync" THEN "check" ELSE "done"]
  /\ asyncQ' = Dropped(r, queue, pc', reactor.cur)
  /\ UNCHANGED <<queue, uniqId, conn, server, trans, resp, reactor, told>>

(***************************************************************************)
(* handleWrite(trans->fd()): re-arm epoll for the connection, unless it    *)
(* has been closed since it was selected.  A caller that does not wait     *)
(* leaves invoke and drops its reference.                                  *)
(***************************************************************************)
HandleWrite(r) ==
  /\ pc[r] = "pushed"
  /\ conn' = IF conn[trans[r]].st = "open"
               THEN [conn EXCEPT ![trans[r]].edge = TRUE]
               ELSE conn
  /\ pc' = [pc EXCEPT ![r] = IF Kind[r] = "sync" THEN "check" ELSE "done"]
  /\ asyncQ' = Dropped(r, queue, pc', reactor.cur)
  /\ UNCHANGED <<queue, uniqId, server, trans, resp, reactor, told>>

(***************************************************************************)
(* What a synchronous caller makes of the response it finds.               *)
(***************************************************************************)
Return(r, o) ==
  /\ pc' = [pc EXCEPT ![r] = "done"]
  /\ outcome' = [outcome EXCEPT ![r] = o]
  /\ got' = [got EXCEPT ![r] = IF o = "ok" THEN resp[r].body ELSE None]
  /\ UNCHANGED runs

ReadResponse(r) == Return(r, IF resp[r].ret = "success" THEN "ok" ELSE resp[r].ret)

(* Mutant: the caller waits without a look at iVersion.                    *)
WaitUnchecked(r) ==
  /\ pc[r] = "check"
  /\ pc' = [pc EXCEPT ![r] = "waiting"]
  /\ UNCHANGED <<queue, uniqId, conn, server, trans, resp, reactor, asyncQ, told>>

(***************************************************************************)
(* if (iVersion == -1 && !timedWait(_timeout)), under the monitor's lock.  *)
(* After timedWait has returned true iVersion is not looked at again.      *)
(***************************************************************************)
CheckOrWait(r) ==
  /\ pc[r] = "check"
  /\ IF resp[r].ver
       THEN ReadResponse(r)
       ELSE /\ pc' = [pc EXCEPT ![r] = "waiting"]
            /\ UNCHANGED told
  /\ UNCHANGED <<queue, uniqId, conn, server, trans, resp, reactor, asyncQ>>

Wake(r) ==
  /\ pc[r] = "woken"
  /\ ReadResponse(r)
  /\ UNCHANGED <<queue, uniqId, conn, server, trans, resp, reactor, asyncQ>>

WaitTimesOut(r) ==
  /\ pc[r] = "waiting"
  /\ Return(r, "timeout")
  /\ UNCHANGED <<queue, uniqId, conn, server, trans, resp, reactor, asyncQ>>

(***************************************************************************)
(* monitor->notify(): nothing remembers it when nobody waits.              *)
(***************************************************************************)
Notified(r) ==
  IF pc[r] = "waiting" THEN [pc EXCEPT ![r] = "woken"] ELSE pc

-----------------------------------------------------------------------------
(***************************************************************************)
(* The network thread.  One event at a time: TransceiverHandle::handle     *)
(* reads, hands out the responses, then writes.                            *)
(***************************************************************************)
ReactorAt(p) == reactor.pc = p

C == conn[reactor.conn]

Event(c) ==
  /\ ReactorAt("idle")
  /\ conn[c].st = "open" /\ conn[c].edge
  /\ conn' = [conn EXCEPT ![c].edge = FALSE]
  /\ reactor' = [Idle EXCEPT !.pc = "recv", !.conn = c]
  /\ UNCHANGED <<queue, uniqId, server, pc, trans, resp, asyncQ, told>>

(***************************************************************************)
(* TcpTransceiver::doResponse: recv until the socket is empty; an end of   *)
(* file closes the connection before what was received is parsed.  Nothing *)
(* is received on a connection that resetInvoke has closed meanwhile.      *)
(***************************************************************************)
Recv ==
  /\ ReactorAt("recv")
  /\ \/ /\ C.st = "open"
        /\ conn' = [conn EXCEPT ![reactor.conn].inbound = <<>>]
        /\ reactor' = [reactor EXCEPT !.done = C.inbound,
                                      !.pc = IF C.up THEN "finished" ELSE "close",
                                      !.after = "finished"]
     \/ /\ C.st = "closed"
        /\ reactor' = [reactor EXCEPT !.pc = "finished"]
        /\ UNCHANGED conn
  /\ UNCHANGED <<queue, uniqId, server, pc, trans, resp, asyncQ, told>>

(***************************************************************************)
(* Transceiver::close: close the socket, mark the last synchronous request *)
(* and notify its monitor.  The mark is written without the lock.          *)
(***************************************************************************)
Close ==
  /\ ReactorAt("close")
  /\ conn' = [conn EXCEPT ![reactor.conn].st = "closed"]
  /\ IF C.lastReq = None
       THEN /\ reactor' = [reactor EXCEPT !.pc = reactor.after]
            /\ UNCHANGED resp
       ELSE /\ reactor' = [reactor EXCEPT !.pc = "closeNotify"]
            /\ resp' = [resp EXCEPT ![C.lastReq].ret = "connerr"]
  /\ UNCHANGED <<queue, uniqId, server, pc, trans, asyncQ, told>>

CloseNotify ==
  /\ ReactorAt("closeNotify")
  /\ pc' = Notified(C.lastReq)
  /\ reactor' = [reactor EXCEPT !.pc = reactor.after]
  /\ UNCHANGED <<queue, uniqId, conn, server, trans, resp, asyncQ, told>>

(* Mutant: answers are taken to come in the order of the requests.         *)
FinishedInOrder ==
  /\ ReactorAt("finished") /\ reactor.done # <<>>
  /\ IF queue[Obj].time = <<>>
       THEN /\ reactor' = [reactor EXCEPT !.done = Tail(@)]
            /\ UNCHANGED queue
       ELSE /\ queue' = [queue EXCEPT ![Obj] = Removed(@, 1)]
            /\ reactor' = [reactor EXCEPT !.cur = queue[Obj].time[1].msg, !.pc = "copy"]
  /\ UNCHANGED <<uniqId, conn, server, pc, trans, resp, asyncQ, told>>

(***************************************************************************)
(* AdapterProxy::finished for the next response: get it from the object's  *)
(* queue or the adapter's own.  Ids of both come from the object's queue.  *)
(***************************************************************************)
Finished ==
  /\ ReactorAt("finished") /\ reactor.done # <<>>
  /\ LET id    == Head(reactor.done).id
         found == {k \in {Obj, C.owner} : id \in Ids(queue[k])}
     IN  IF found = {}
           THEN /\ reactor' = [reactor EXCEPT !.done = Tail(@)]
                /\ UNCHANGED queue
           ELSE \E k \in found :
                  /\ queue' = [queue EXCEPT ![k] = Taken(@, id)]
                  /\ reactor' = [reactor EXCEPT !.cur = Msg(queue[k], id), !.pc = "copy"]
  /\ UNCHANGED <<uniqId, conn, server, pc, trans, resp, asyncQ, told>>

(***************************************************************************)
(* ptr->response = req->response: member by member and without the         *)
(* caller's monitor: iVersion, then iRet, then sBuffer.                    *)
(***************************************************************************)
CopyVersion ==
  /\ ReactorAt("copy")
  /\ resp' = [resp EXCEPT ![reactor.cur].ver = TRUE]
  /\ reactor' = [reactor EXCEPT !.pc = "copyRet"]
  /\ UNCHANGED <<queue, uniqId, conn, server, pc, trans, asyncQ, told>>

CopyRet ==
  /\ ReactorAt("copyRet")
  /\ resp' = [resp EXCEPT ![reactor.cur].ret = "success"]
  /\ reactor' = [reactor EXCEPT !.pc = "copyBuffer"]
  /\ UNCHANGED <<queue, uniqId, conn, server, pc, trans, asyncQ, told>>

CopyBuffer ==
  /\ ReactorAt("copyBuffer")
  /\ resp' = [resp EXCEPT ![reactor.cur].body = Head(reactor.done).msg]
  /\ reactor' = [reactor EXCEPT !.pc = "deliver"]
  /\ UNCHANGED <<queue, uniqId, conn, server, pc, trans, asyncQ, told>>

(***************************************************************************)
(* The rest of finished: wake the caller, or queue the callback.           *)
(***************************************************************************)
Deliver ==
  /\ ReactorAt("deliver")
  /\ pc' = IF Kind[reactor.cur] = "sync" THEN Notified(reactor.cur) ELSE pc
  /\ asyncQ' = IF Kind[reactor.cur] = "async"
                 THEN Append(asyncQ, [msg |-> reactor.cur, ver |-> TRUE])
                 ELSE asyncQ
  /\ reactor' = [reactor EXCEPT !.cur = None, !.done = Tail(@), !.pc = "finished"]
  /\ UNCHANGED <<queue, uniqId, conn, server, trans, resp, told>>

AllFinished ==
  /\ ReactorAt("finished") /\ reactor.done = <<>>
  /\ reactor' = [reactor EXCEPT !.pc = IF C.st = "open" THEN "send" ELSE "idle"]
  /\ UNCHANGED <<queue, uniqId, conn, server, pc, trans, resp, asyncQ, told>>

(***************************************************************************)
(* handleOutputImp: while (doRequest() >= 0 && sendRequest(trans)).        *)
(* doRequest fails at once on a closed connection; a full socket ends the  *)
(* loop too (EAGAIN, or no W in the event), and epoll reports when there   *)
(* is room again; but a send error closes the connection and returns 0, so *)
(* that sendRequest still runs.                                            *)
(***************************************************************************)
DoRequest ==
  /\ ReactorAt("send")
  /\ \/ /\ C.st = "open" /\ C.up
        /\ server' = server \cup
             {[conn |-> reactor.conn, id |-> C.sendBuf[i].id, msg |-> C.sendBuf[i].msg] :
                i \in {j \in DOMAIN C.sendBuf : Kind[C.sendBuf[j].msg] # "oneway"}}
        /\ conn' = [conn EXCEPT ![reactor.conn].sendBuf = <<>>]
        /\ reactor' = [reactor EXCEPT !.pc = "pop", !.any = FALSE]
     \/ /\ C.st = "open" /\ C.up
        /\ conn' = [conn EXCEPT ![reactor.conn].edge = TRUE]
        /\ reactor' = Idle
        /\ UNCHANGED server
     \/ /\ C.st = "open" /\ ~C.up
        /\ reactor' = IF C.sendBuf # <<>>
                        THEN [reactor EXCEPT !.pc = "close", !.after = "pop", !.any = FALSE]
                        ELSE [reactor EXCEPT !.pc = "pop", !.any = FALSE]
        /\ UNCHANGED <<server, conn>>
     \/ /\ C.st = "closed"
        /\ reactor' = Idle
        /\ UNCHANGED <<server, conn>>
  /\ UNCHANGED <<queue, uniqId, pc, trans, resp, asyncQ, told>>

(***************************************************************************)
(* sendRequest: pop the adapter's own queue, then the object's, into the   *)
(* send buffer, until both are empty or the buffer is over 8 kB (a choice  *)
(* here).  The message popped before is let go.                            *)
(***************************************************************************)
SendRequest ==
  /\ ReactorAt("pop")
  /\ LET ready == {k \in {C.owner} : CanPop(queue[k])}
         from  == IF ready # {} THEN ready ELSE {k \in {Obj} : CanPop(queue[k])}
     IN  IF from = {}
           THEN /\ reactor' = [reactor EXCEPT !.pc = IF reactor.any THEN "send" ELSE "idle",
                                              !.cur = None]
                /\ UNCHANGED <<queue, conn>>
           ELSE \E k \in from :
                  LET n == queue[k].time[PopPos(queue[k])]
                  IN  /\ PopSafe(queue[k])
                      /\ queue' = [queue EXCEPT ![k] = Popped(@)]
                      /\ conn' = [conn EXCEPT
                           ![reactor.conn].lastReq = IF Kind[n.msg] = "sync" THEN n.msg ELSE @,
                           ![reactor.conn].sendBuf = Append(@, [id |-> n.id, msg |-> n.msg])]
                      /\ \/ reactor' = [reactor EXCEPT !.cur = n.msg, !.any = TRUE]
                         \/ reactor' = [reactor EXCEPT !.cur = None, !.pc = "send"]
  /\ asyncQ' = Dropped(reactor.cur, queue, pc, reactor'.cur)
  /\ UNCHANGED <<uniqId, server, pc, trans, resp, told>>

-----------------------------------------------------------------------------
(***************************************************************************)
(* finishInvoke(true), called by the synchronous caller or the callback    *)
(* thread of a call that has timed out: when the adapter fails too often   *)
(* (a choice here, as is the adapter that sent the call) resetInvoke       *)
(* closes its connections, whatever the network thread is doing with them, *)
(* and tells nobody.                                                       *)
(***************************************************************************)
resetInvoke(a) ==
  /\ \E r \in Calls : outcome[r] = "timeout"
  /\ conn' = [c \in Conns |-> IF conn[c].st = "open" /\ conn[c].owner = a
                                THEN [conn[c] EXCEPT !.st = "closed"]
                                ELSE conn[c]]
  /\ UNCHANGED <<queue, uniqId, server, pc, trans, resp, reactor, asyncQ, told>>

(* Mutant: a request that has been sent is left to its answer.             *)
ExpireUnsent(k) ==
  /\ queue[k].time # <<>> /\ ~queue[k].time[1].popped
  /\ queue' = [queue EXCEPT ![k] = Removed(@, 1)]
  /\ asyncQ' = Dropped(queue[k].time[1].msg, queue', pc, reactor.cur)
  /\ UNCHANGED <<uniqId, conn, server, pc, trans, resp, reactor, told>>

(***************************************************************************)
(* TC_TimeoutQueue::timeout on the timer thread: one expired head.         *)
(***************************************************************************)
Expire(k) ==
  /\ queue[k].time # <<>>
  /\ queue' = [queue EXCEPT ![k] = Removed(@, 1)]
  /\ asyncQ' = Dropped(queue[k].time[1].msg, queue', pc, reactor.cur)
  /\ UNCHANGED <<uniqId, conn, server, pc, trans, resp, reactor, told>>

(***************************************************************************)
(* AsyncProcThreadRunner::run: iVersion == -1 counts as a time-out.        *)
(***************************************************************************)
RunCallback ==
  /\ asyncQ # <<>>
  /\ asyncQ' = Tail(asyncQ)
  /\ LET e == Head(asyncQ)
     IN  /\ outcome' = [outcome EXCEPT ![e.msg] = IF e.ver THEN "ok" ELSE "timeout"]
         /\ got' = [got EXCEPT ![e.msg] = IF e.ver THEN resp[e.msg].body ELSE None]
         /\ runs' = [runs EXCEPT ![e.msg] = @ + 1]
  /\ UNCHANGED <<queue, uniqId, conn, server, pc, trans, resp, reactor>>

(***************************************************************************)
(* The peer (external).                                                    *)
(***************************************************************************)
Answer(s) ==
  /\ s \in server
  /\ server' = server \ {s}
  /\ conn' = IF conn[s.conn].st = "open" /\ conn[s.conn].up
               THEN [conn EXCEPT ![s.conn].edge = TRUE,
                                 ![s.conn].inbound = Append(@, [id |-> s.id, msg |-> s.msg])]
               ELSE conn
  /\ UNCHANGED <<queue, uniqId, pc, trans, resp, reactor, asyncQ, told>>

PeerCloses(c) ==
  /\ conn[c].st = "open" /\ conn[c].up
  /\ \E data \in {conn[c].inbound, <<>>} :
       conn' = [conn EXCEPT ![c].up = FALSE, ![c].edge = TRUE, ![c].inbound = data]
  /\ UNCHANGED <<queue, uniqId, server, pc, trans, resp, reactor, asyncQ, told>>

-----------------------------------------------------------------------------
Caller(r) ==
  \/ \E a \in Adapters : Invoke(r, a)
  \/ InvokeFails(r)
  \/ HandleWrite(r)
  \/ CheckOrWait(r)
  \/ Wake(r)
  \/ WaitTimesOut(r)

Reactor ==
  \/ \E c \in Conns : Event(c)
  \/ Recv
  \/ Close
  \/ CloseNotify
  \/ Finished
  \/ CopyVersion
  \/ CopyRet
  \/ CopyBuffer
  \/ Deliver
  \/ AllFinished
  \/ DoRequest
  \/ SendRequest

Step ==
  \/ \E r \in Calls : Caller(r)
  \/ Reactor
  \/ \E k \in Queues : Expire(k)
  \/ RunCallback
  \/ \E a \in Adapters : resetInvoke(a)
  \/ \E s \in server : Answer(s)
  \/ \E c \in Conns : PeerCloses(c)

Next == Step /\ UNCHANGED mix

Spec == Init /\ [][Next]_<<vars, mix>>

(***************************************************************************)
(* A caller inside the library keeps running (but need not make a call), a *)
(* timed wait ends, the timer thread visits every queue, the callback and  *)
(* network threads run.  Nothing is assumed of the peer.                   *)
(***************************************************************************)
Fairness ==
  /\ \A r \in Calls : WF_vars(pc[r] # "new" /\ Caller(r))
  /\ \A k \in Queues : WF_vars(Expire(k))
  /\ WF_vars(RunCallback)
  /\ WF_vars(Reactor)

FairSpec == Spec /\ Fairness

-----------------------------------------------------------------------------
(***************************************************************************)
(* Properties.                                                             *)
(***************************************************************************)

(* A caller or callback that is given an answer is given the answer to its *)
(* own call, whatever was late, reordered or expired before; a synchronous *)
(* caller can at worst have none of it yet (see AnswersAreComplete).       *)
AnswerIsOwn ==
  \A r \in Calls : /\ got[r] \in {r, None}
                   /\ Kind[r] = "async" /\ outcome[r] = "ok" => got[r] = r

(* Every asynchronous call that invoke accepted is, at any moment, in      *)
(* exactly one place: still referenced by a queue, its caller or the       *)
(* network thread; waiting for the callback threads, once; or called back, *)
(* once.  The response, the time-out and the destructor that makes a       *)
(* time-out of an unanswered call race for it.                             *)
Entries(r) == Cardinality({i \in DOMAIN asyncQ : asyncQ[i].msg = r})

Referenced(r) == Queued(r, queue) \/ pc[r] = "pushed" \/ reactor.cur = r

AsyncCalledBackOnce ==
  \A r \in Calls : Kind[r] = "async" =>
    /\ runs[r] + Entries(r) <= 1
    /\ pc[r] \in {"pushed", "done"} /\ outcome[r] # "failed"
         => (runs[r] + Entries(r) = 1 \/ Referenced(r))
    /\ outcome[r] = "failed" => runs[r] + Entries(r) = 0 /\ ~Referenced(r)

(* A request that waits on an open connection is going to be sent: its     *)
(* caller has yet to re-arm epoll for the connection, an event of the      *)
(* connection is pending, or the network thread is at work on it.  epoll   *)
(* is edge triggered: a missed event would leave the request in the queue. *)
(* (When the connection it selected breaks first, a request in the         *)
(* ObjectProxy's queue does wait for the next event of another one.)       *)
WaitingIsServed ==
  \A k \in Queues : \A i \in Waiting(queue[k]) :
    LET r == queue[k].time[i].msg
    IN  conn[trans[r]].st = "open" =>
          \/ pc[r] = "pushed"
          \/ conn[trans[r]].edge
          \/ reactor.conn = trans[r] /\ reactor.pc # "idle"

(* No answer is slept through: a caller that waits although iVersion is    *)
(* set is going to be notified, whenever it came to wait.  (Of the         *)
(* notification of Transceiver::close this is not true: what it marks is   *)
(* not tested before the wait, which then lasts for its whole time-out.)   *)
AnsweredAreWoken ==
  \A r \in Calls : pc[r] = "waiting" /\ resp[r].ver =>
    reactor.cur = r /\ reactor.pc \in {"copyRet", "copyBuffer", "deliver"}

(* Every accepted asynchronous call has its callback run in the end, also  *)
(* when the peer never answers and its connection is closed meanwhile.     *)
AsyncCallsAreCalledBack ==
  \A r \in Calls : Kind[r] = "async" /\ pc[r] = "pushed" ~> runs[r] = 1

(* "response.iVersion = -1; this field tells whether the response has come" *)
(* (ServantProxy.cpp:513, 557): a caller that sees iVersion set has the     *)
(* response.                                                                *)
AnswersAreComplete ==
  \A r \in Calls : Kind[r] = "sync" =>
    outcome[r] # "unknown" /\ (outcome[r] = "ok" => got[r] = r)
==============================================================================
