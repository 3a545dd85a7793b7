# Verification of the TAF framework (C++)

TLA+ models of the parts of TAF whose correctness depends on the order in which
threads, sockets and timers act, or on the moment a process dies; TLC runs that check
them on small instances; and TLAPS proofs for the RPC client and the container at its
centre, the endpoints, the network server, the thread pool, the hash map in shared
memory and the two logs that protect the shared-memory containers. Source paths are relative to the repository;
`src/src/libservant/X.cpp` is shortened to `X.cpp` where it is unambiguous.

TAF is an RPC framework: `libservant` holds a client (proxies, an epoll network
thread, a timer thread, callback threads) and a server (servants dispatched by
handle threads behind `TC_EpollServer`), `libutil` holds the containers and
threads both are made of, and the rest of the tree is service clients and generators
written with them.

## Inventory

| Part | State it keeps | Operations | Hard behaviour | What makes it correct |
|---|---|---|---|---|
| Request queue, `tc_timeout_queue.h` | `_data` (id to node), `_time` (list), `_firstNoPopIter`, `_uniqId` | push, pop, swap, get, erase, timeout, generateId | an iterator kept across erasures, uninitialised at first; id wrap | pop never follows a dead iterator; requests go out once and in order; an answer finds its own request |
| RPC client: `ServantProxy`, `ObjectProxy`, `AdapterProxy`, `Transceiver(Handle)`, `FDReactor`, `ReqMessage` | queues of the object and of each adapter, connections and send buffers, last request of a connection, the response in each message | invoke, finished, handle, sendRequest, doRequest, close | callers, network, timer and callback threads meet in one message; lost notifications, torn copies, broken connections, late answers | own answer only; every call ends; every callback once; no request misses its epoll event |
| Timer, `TMReactor`, `TimeoutHandle` | set of queues | run, handleTimeout | iteration without the lock | every open request is looked at |
| Callback threads, `AsyncProcThread` | queue of finished messages | put, run, terminate | shut-down | each message is called back |
| Network server, `tc_epoll_server.cpp` | `ConnectionList` (`_free`, `_vConn`, time-outs), `_iCurConns`, `_rbuffer`, `_sbuffer`, per-connection buffers | accept, processNet, processPipe, delConnection, checkTimeout, send, close, handleImp | net thread and handles meet in two queues; uids used again; edge-triggered events; overload | slots and counter agree; close told once and last; order and bound of the queue; commands are seen and reach the right connection |
| Servant dispatch, `ServantHandle.cpp` | none of its own that outlives a message | handle, handleClose, handleTimeout, handleOverload | acts on a uid whose connection may have gone | answers go to the connection they belong to |
| Thread pool, `tc_thread_pool.cpp`, `tc_thread_queue.h`, `tc_monitor.h` | `_jobqueue`, `_startqueue`, `_busthread`, `_bTerminate` | init, start, stop, exec, waitForAllDone | checks under different locks; stop while jobs run | every job once; stop leaves nothing; true from waitForAllDone means done |
| Endpoints, `ObjectProxy.cpp`, `QueryEndpoint.cpp` | `_adapterGroups` by grid code, `_activeEndpoints`, `_serverHasGrid`, each adapter's `_currentGridGroup` | initialize, refreshEndpointInfos, selectAdapterProxy, resetAdapterGrid | registry answers, moves between grids and calls in any order; an adapter outlives its place | one adapter for an endpoint, in one group; what the next answer is compared with is what the groups hold |
| Masking of servers, `AdapterProxy.cpp` (`checkActive`, `finishInvoke`), `AdapterProxyGroup` | activity, connections, three counters and three times of each adapter, `lastRoundPosition` | selectFromGroup, getNextValidProxy, checkActive, finishInvoke, resetInvoke | late answers and time-outs race with the choice; a retry renews the interval | a disabled server is retried, but not too often |
| `Communicator` | reactors, threads, factories | initialize, terminate | order of shut-down | no thread uses what is gone |
| `AppCache`, statistics and property reports | maps under a lock, a write interval | set, report | stale files, data between two reports | nothing counted twice or lost |
| Shared-memory hash map, `tc_hashmap.cpp`, `tc_mem_chunk.cpp` | head, buckets, blocks and chunks in shared memory, three lists over the blocks, cursors, a redo log | set, get, del, erase, sync, backup, recover | a process dies between two changes; eviction inside a set; cursors kept between calls | lists, counts and cursors agree at every moment; a set changes its own record only |
| Shared-memory red-black tree, `tc_rbtree.cpp` | the same, with a tree for the buckets and an undo log | set, del, rotations, doRecover | a process dies at any store of a rotation | the tree that the log leads back to is whole |
| Shared-memory queue, `tc_mem_queue.cpp` | a ring of bytes with two indices, the redo log | push_back, pop_front | the ring wraps anywhere; a process dies half-way through a push | what goes in comes out, whole and in order |
| Other shared-memory containers: multi-key map, compact map, jmem wrappers | variants of the maps | | the same | the same |
| `TC_HttpAsync` | a `TC_TimeoutQueue` of requests | doAsyncRequest, run | uses the queue without pop | each request is answered or timed out |
| Clients of the config, log, notify, node and patch services | files | one remote call each; the servers are not in the repository | I/O | |
| Generators, codecs, tools | none | | sequential | |

How they meet: a caller's thread runs `ServantProxy::invoke` down to
`AdapterProxy::invoke`, which pushes the `ReqMessage` into a request queue and arms
epoll. The `FDReactor` thread pops it into a connection's send buffer, reads
answers, and hands them over by `finished`: to a waiting caller through the
message's monitor, to the callback threads through their queue. The `TMReactor`
thread expires queue heads. On the server, the net thread puts packets into
`_rbuffer`, handles take them, and answer or close through `_sbuffer` and an epoll
event. `TC_ThreadPool` serves the logger and the HTTP client. The maps in shared
memory are used by several processes, or by one after another, under a lock that
their users hold (jmem).

The hazards, each at its line with the properties that watch it, are in
`PROJECT.json`.

## Modules

| Module | Models | Composition |
|---|---|---|
| `PendingRequests` | abstract specification: what the client promises of accepted requests, whatever holds them | |
| `TimeoutQueueOps` | the operations of `TC_TimeoutQueue` as operators on a queue value | used by `TimeoutQueue` and `RpcClient` |
| `TimeoutQueue` | one queue with its users: numbering, push, pop, swap, answers, time-outs | implements `PendingRequests` |
| `TimeoutQueue_proofs` | proofs about `TimeoutQueue` | extends it |
| `RpcClient` | the invocation path: callers, network, timer and callback threads, the peer | composes one queue per object and adapter with the threads |
| `RpcClient_proofs` | proofs about `RpcClient` | extends it |
| `EpollServer` | one TCP adapter of `TC_EpollServer` with its net thread, handles and clients | |
| `EpollServer_proofs` | proofs about `EpollServer` | extends it |
| `QueueLemmas` | lemmas about sequences: pushed, popped, removed, concatenated; induction over a set of numbers | extended by all proofs |
| `ThreadPool` | `TC_ThreadPool` with a controlling thread and a waiter | |
| `ThreadPool_proofs` | proofs about `ThreadPool` | extends it |
| `CacheMap` | abstract specification: what a map in shared memory promises to its users, processes that die included | |
| `HashMap` | `TC_HashMap` with its allocator, one transaction of its log at a time | implements `CacheMap` |
| `BoundedFifo` | abstract specification: a queue in a bounded piece of memory | |
| `MemQueue` | `TC_MemQueue`, byte by byte | implements `BoundedFifo` |
| `HashMap_proofs` | proofs about `HashMap`: its invariant | extends it |
| `SharedMemory_proofs` | proofs about `HashMap` on that invariant, and about `UndoLog`, `MemJournal` and `MemQueue` | extends `HashMap_proofs`, `UndoLog`, `SharedLog` and `SharedRing` |
| `SharedRing`, `SharedLog` | a ring of `MemQueue` and a log of `MemJournal`, each with variables of its own | extended by a run and by proofs that are about another component as well |
| `AtomicMemory` | abstract specification: writes that happen all at once or not at all | |
| `MemJournal` | the redo log of `TC_HashMap`, store by store | implements `AtomicMemory` |
| `UndoLog` | the undo log of `TC_RBTree`, store by store | implements `AtomicMemory` |
| `RBTree` | the balanced tree of `TC_RBTree`, every store of set and del | extends `UndoLog` |
| `Endpoints` | the adapters of an object in their groups | |
| `AdapterGroup` | the choice of a server in one group, masking and retries | |
| `Endpoints_proofs` | proofs about `Endpoints` and `AdapterGroup` | extends `MCEndpoints`, for its instance |
| `MC...` | model values, symmetry sets; `MCJournals`, `MCHashMap` and `MCEndpoints` put two modules side by side in one run | one for each run |

### TimeoutQueue

A queue value is `[time, first]`: the list `_time` from its head, and
`_firstNoPopIter`. `_data` has the same nodes under their ids. The iterator is kept
as the id of the live node it points to, `End`, or `Dangling` for an erased node
and for the constructor's garbage; after an allocation a dangling iterator may come
to point to the new node, as the allocator may reuse the address. `pop` and `swap`
say with `PopSafe` when the code's assertion holds. Requests have a status, the id
they were given, and a ticket, their place in the order of acceptance (a history
variable). `generateId` numbers the requests of the async and sync paths; `rpcId`
models `ServantProxy::rpc_call`, where the caller sets the id (`FromRpc`).

`IdIsFree` is an explicit bound: a request is not numbered with an id that is still
in use. The 32-bit counter needs 2^32 - 1 requests to come round, within the
time-out of one of them; the small `MaxId` in the runs makes the wrap happen, and
the guard keeps the shortened range from meaning more than the long one does. So
no property here watches the case itself, an open id given out again
(`tc_timeout_queue.h:160` has no test for it): the runs show that the wrap is
harmless as long as it does not happen, and `queue_reuse` what a shared id does.

### RpcClient

`Invoke` is `AdapterProxy::invoke` up to the arming of epoll and `HandleWrite` the
rest; the ObjectProxy's lock is held in between (`Unlocked`). `CheckOrWait`, `Wake`
and `WaitTimesOut` are the caller's monitor; `Notified` wakes whoever waits and is
remembered by nobody. The reactor handles one event at a time: `Event`, `Recv`,
`Finished`, the three steps in which a response is copied (`CopyVersion`,
`CopyRet`, `CopyBuffer`), `Deliver`, then `DoRequest` and `SendRequest` by turns,
and `Close`, `CloseNotify` where the connection fails. `resetInvoke` is the other
way for a connection to close: `finishInvoke`, in a caller's or a callback's thread,
disables the adapter after a time-out and closes its connections, without a notice
to anybody and while the reactor may be at work on one. Messages are reference
counted: `Dropped` says when `~ReqMessage` runs and makes a time-out of an
unanswered asynchronous call. `Answer` and `PeerCloses` are the peer, outside the
repository. A packet is its id and the call it belongs to. The timer is not
counted: `Expire` may strike a head at any moment, which covers every time-out.
The kinds of the calls, which of them use the adapter's own queue and how many
connections can be made are a `mix`, chosen at the start from the constant `Mixes`.

### EpollServer

The table is `slot` and `free`; a uid is a slot's index, since the magic number in
its upper bits is set once, by `ConnectionList::init`. Each step of the net thread
is one critical section or one system call: `NetEvent`, `Read`, `CheckChunk`,
`InsertChunk`, `ParseEnds`, `Write` for `processNet`; `NotifyEvent`, `Swap`,
`PipeClose`, `PipeSend` for `processPipe`; `DelNotify` and `DelFree` for
`delConnection`, reached from five places. `Read` may miss an end of file behind a
short read. The size of the chunks in which packets are inserted is free, because
`_iMaxTemQueueSize` is not initialised for TCP connections. `Sent` is what
`Connection::send` does with what the socket takes, including the buffer that stays
non-empty after it has been written. `missed` of a connection is a history field:
`Unread` says that an end of file was left unread, `PutOff` that a close found a
written buffer. The module follows epoll (`waitForShutdown` on Linux); the `select`
branch of the same functions, under `__APPLE__` (lines 1857-1903), is not modelled.
The handles take a message and answer, close,
or do neither; a push to `_sbuffer` and its event are two steps (`Push`, `Notify`).
A send or receive error is possible where the client has hung up.

### ThreadPool

A worker's `pc` follows `ThreadWorker::run`. `Pop` and `SetBusy` are the two halves
of `get`, under two locks. The waiter holds `_tmutex` over the three tests of
`finish` but not the queues' locks. `stop` walks the workers in order, joins each,
and `init` makes new ones; the pool's own lock has no other user here. Every wait
in this code has a time-out of a second (`pop_front`, `timedWait`), so a
notification only shortens a wait and is not modelled apart.

### HashMap and CacheMap

`mem` is what lies in the shared memory: a function from field names to what the
head, the buckets and the blocks have there. `op` is what the process in the map
knows, and what a crash loses. A step is one transaction of the modify block or one
of the direct stores beside it. That a transaction is one step is what
`MemJournal` is about: `JournalIsAtomic` is proved there, so a log entry here is
computed from the memory before the transaction (`Written`), as the code computes
it while its entries are not yet copied. `DirtyTail`, which `sync` and the
refreshing of the set list store directly, and the count of used chunks are merged
with the transaction next to them.

`set` is followed through `allocateMemBlock`, `makeNew`, `allocate`,
`allocateChunk`, `joinChunk`, the flags, the copying of the data part by part, the
counters, the dirty flag and the two lists, with `eraseExcept` wherever the memory
is full; `Erase` and `Releasing` are `Block::erase` and the return of the chunks,
one by one. `get`, `setDirty`, `setClean`, `del`, `erase`, `sync`, `backup` and
`recover` are the other actions. The chunks have one size, so the allocator is a
set. A key's data are a value in its block and in each chunk behind it; `Data` says
what `getBlockData` makes of parts that are missing or belong to another value,
and `KeyReadable` what it makes of a block without data. `_iDataLen` and
`_iNextChunk` share their place, which is why `len` may be `"addr"`.

`CacheMap` is the promise: `set` changes its own key and may drop whole records;
with success it has stored what it was given, with a failure it has left its record
alone; a death leaves the other records as they were. What is read under the own
key of a set that died is anything, and a reader can get a torn value: the code has
no check sum.

### MemQueue and BoundedFifo

`bytes` is the memory behind the control block; each cell holds a byte of a length
or of an element. `push_back` ends in `Full` or goes on: `Store` puts down one byte
and `Commit` is `doUpdate(true)`, from which the new `top` counts. The indices go
through the redo log, so that their change is one step (`JournalIsAtomic`), also
when the process dies in it; `Die` is a death before that, which leaves bytes behind
`top`. `pop_front` only reads before its commit and is one step. `At` and `After`
say which byte the branches of the code reach: an index may stand at the end of the
memory, and starts again when a byte is needed there. `Contents` is the mapping: the
elements one finds from `bot` on, read as `pop_front` reads them. Elements are
`Fitting`, shorter than the ring with their length; what the code does with others
is told under the runs.

### UndoLog, RBTree, MemJournal, AtomicMemory

Both logs are followed store by store, with a death between any two. `MemJournal`
has arbitrary transactions; `UndoLog` has the stores of whatever extends it, and
`RBTree` gives it those of the insertion and the deletion of red-black trees. The
rotations and the two fix-ups are operators on a run `[m, w]`, the memory an
algorithm has got to and the stores it has made, in the order the code makes them;
`saveValue` then makes them one by one in three steps: the entry with its index,
the status, the store. `before` is the memory as it was when the log was last
dropped. A block is named by the key of its record. `finish` is the `doUpdate` at
the end of `Block::erase`, or of the operation; `deallocate` is outside the log.

### Endpoints and AdapterGroup

`Endpoints` takes the registry's answer when a call or `getEndpoint` looks for it
(`refreshEndpointInfos`), under the ObjectProxy's lock, and may find any list of
servers in it. A name with a list of endpoints (`direct`) asks no registry, and has an
adapter for each place in the list, also for an endpoint that is in it twice
(`Listings`). An adapter that has left the groups lives on while a call refers to
it, and its answer can still carry a grid code: `resetAdapterGrid` then looks for
the adapter with the same endpoint, as the code does. `AdapterGroup` has one group
whose servers stop, fall silent and come back; an adapter is `checkActive`d, chosen
and given the call in one step, because `RpcClient` has the queue in between. Times
are ages that stop at the limit they are compared with. `finishInvoke` has its test
of a failed retry as the code has it: a duration is compared with a time, so it is
never true (`AdapterProxy.cpp:369`); no property is about what it should decide, and
`RetriesAreSpaced` is about the adapter that is chosen, while a call in the
ObjectProxy's queue may be sent by another adapter of the object. Calls by `rpc_call`, whose time-outs nobody
counts, are left out.

## Runs

Each run finishes within five minutes on two cores; `client` and `journals` take
two to four of them, the others less. "Violation" runs show a disagreement of the
code with one of its comments or assertions.

| Run | Instance | Shows |
|---|---|---|
| `queue` | 4 requests, ids 1..3 | `PopAssertion`, `PopIsOldestWaiting`, `AnswerToItsRequest`, `QueueHoldsOpenRequests`, the inductive invariant with its types, and that every behaviour is one of `PendingRequests` |
| `queue_rpc` | 3 requests, 2 with ids of their own, fairness | a queued request always leaves, colliding ids or not |
| `queue_reuse` | the same | violation: with a reused id, `pop` follows a dead iterator (`tc_timeout_queue.h:304`) |
| `client` | a sync and an async call with a connection to spare; the two in two queues on one connection; a sync and a one-way call; fairness | own answers, callbacks once, no missed event, no caller sleeping through its answer; callbacks run |
| `client_torn` | 1 sync call | violation: the response is read while it is being copied (`AdapterProxy.cpp:274`) |
| `server` | 2 clients, 2 slots, fairness | slots and counter, close told once, no command without an event; which connections are left to a later event or the time-out; commands are taken |
| `server_queue` | 2 clients for 1 slot, 2 packets each, capacity 1, taf protocol | close is last, requests in order, bounded queue, with uids used again |
| `server_uid` | 2 clients for 1 slot | violation: a command of a gone connection reaches the next one in its slot (`tc_epoll_server.cpp:758`) |
| `pool` | 2 workers, 1 job, 3 control calls, 1 wait, fairness | jobs in one place, stop complete, the one window of `waitForAllDone`; every job leaves, stop returns |
| `hashmap` | 2 keys in one bucket, values of 2 parts, 3 blocks, one crash and 2 operations after it; a ring of 6 bytes, lengths of 2 bytes, elements of 0, 1 and 3 | lists, counts and cursors at every step; blocks in one place; dirty records are found; the map implements `CacheMap`; the ring implements `BoundedFifo` |
| `journals` | trees of up to 6 keys with any number of deaths; transactions of up to 3 writes to 2 places | the tree the log leads back to is a red-black tree with its count, and changes by one key; the undo log's and the redo log's promise |
| `endpoints` | 2 hosts, 2 grids, 3 adapters, with a registry or a list in the name; 2 servers, one call each outstanding | groups, endpoints and what is remembered of them agree; what a refresh leaves behind; when a disabled server is tried |

Further disagreements have no violation run. A
connection that breaks between the sending of a request and its caller's wait
notifies nobody (`Transceiver.cpp:25`), and that caller waits out its time-out
(`WaitTimesOut`); `AnsweredAreWoken` says that this does not happen to a caller
whose answer has been delivered. A close after a complete
answer is put off, because the written send buffer of up to 8 kB is not emptied
(`tc_epoll_server.cpp:1190`, `tc_epoll_server.h:900`), and an end of file behind a
short read is not read (`tc_epoll_server.cpp:1124`): such a connection is left to a
later event or its time-out, and `OnlyMissedLinger` says that no other is. And `waitForAllDone` can return true with a job in a
worker's hand, between the two halves of `get` (`tc_thread_pool.cpp:247`), although
its comment promises that all work is done (`tc_thread_pool.h:113-116`);
`WaitMissesOnlyHandoff` says that this is the only case. A fourth is read from the
code, outside the models: a set of a new record in `TC_RBTree` whose chunks cannot
be allocated erases a block that is not in the tree yet (`tc_rbtree.cpp:2349`),
whose parent 0 stands for the root. A fifth bounds what `MemQueue` is about: `isFull`
answers false for an empty queue whatever the length (`tc_mem_queue.cpp:64`), so
`push_back` takes an element that fills the ring, after which the indices are equal
and it is gone, or one that is longer than the ring; the caller is told true. With
such elements among the `Fitting` the refinement fails.

What the properties say of two cases that look like faults: an endpoint that is
gone from the registry's list stays when a server's answer has moved its adapter to
another group, and `OnlyMovedStay` says that nothing else stays. A disabled server
can get a call before its interval is over when no enabled one has a connection,
and `RetriesAreSpaced` says that it gets none otherwise.

Why the bounds are enough. The queue's hazards need an erasure before, at and
behind the iterator and a wrap while requests are open: three nodes and three ids
do that, the fourth request exercises the order. In the client every race is
between one caller and one other thread over one message, and mix-ups need two
messages in one queue or two queues. On the server two connections give every
interleaving of one connection's end with the life of another; two clients on one
slot give the reuse of a uid; capacity one with four packets passes the limit. In
the pool two workers are what it takes for one to clear the queue under the other.
In the map two records of two parts do not fit into three blocks, so that a new
record and an update both evict, also half-way through a set, and a list of two has
a head, a tail and a cursor at either. Six keys reach every case of the two fix-ups
with its mirror image. Two places and three writes let a later entry of a place
follow an earlier one. In six bytes, elements that take two, three and five put
the end of the memory inside a length, between it and its bytes, inside these and
behind them. Two hosts in two grids with one adapter more let an adapter
outlive its place and its host come back as another.

Named bounds: `Mixes`, `Conns` (connections ever made), `MaxReq`, `MaxWork`,
`MaxMods` (server), `MaxCalls`, `MaxWaits` (pool), `MaxCalls` (operations of the map
after a crash), `MaxStale` (entries that dead processes leave in the undo log
without its status), `RedoMaxLog`, `Adapters` (those of an object at once), `MaxOut` and `MaxTotal` (calls
outstanding and counted), `RingCells`, and the age of a node or an adapter, which stops where
the code no longer tells it from older ones.

Symmetry: requests in `queue`, clients in the two safety runs of the server, keys
and blocks in `hashmap` (one bucket, no order between blocks), hosts in `endpoints`.
No run that checks liveness uses it.

`CHECK_DEADLOCK FALSE` is set in all but `journals` and `endpoints`: the sets of
requests, calls, clients and jobs are finite and the operations after a crash are
bounded, and a system whose last one has ended may stop.

Each property of a passing run has a mutant in its module (marked `Mutant:`), a
plausible mistake at one mapped definition, under which the property fails.

## Fairness

* `TimeoutQueue`: the timer thread calls `timeout` every 100 ms and time passes.
  Nothing is assumed of the network thread or the peer.
* `RpcClient`: a caller inside `invoke` runs on, its timed wait ends, the timer
  visits each queue, the network and callback threads run. The peer owes nothing.
* `EpollServer`: the net thread runs, a handle takes the next message, a thread that
  has pushed a command arms its event. `SF` for `NotifyEvent`: epoll reports the
  descriptors that are ready in turn, so the event of `_notify` is not kept back for
  ever by those of connections. Servants need not answer, and no connection need ever
  time out.
* `ThreadPool`: each thread runs and jobs end. `SF` for the two sections under
  `_tmutex` in a worker: the waiter takes that mutex again once a second and cannot
  keep a worker from it for ever.

## Proofs

### TimeoutQueue_proofs

For any set of requests, id range and time-out, under the one assumption
`FromRpc = {}` (all ids from `generateId`):

* `IndInvIsInvariant`: `IndInv` is inductive;
* `TypeCorrect`, `PopAssertionHolds`, `PopTakesOldest`, `AnswersAreNotMixedUp`,
  `OpenRequestsAreInQueue`: the safety properties of run `queue`;
* `QueueImplementsPending`: every step maps to a step of `PendingRequests` or to a
  stutter.

The assumption is needed: run `queue_reuse` shows the assertion failing without it.

None of the properties is inductive alone. `PopAssertion` speaks of the iterator at
the moment of a pop; it survives an erasure only because the head is always erased
first among popped nodes or the erased node is popped, which needs `PoppedIsPrefix`
and `FirstIsExact` (once the head is popped the iterator is the first waiting node
or the end). These need the nodes to match the requests (`NodesMatchRequests`), or
an answer could name a node that was never sent. That in turn needs that ids are not
shared between open requests and answers under way (`IdsAreNotShared`). The order of
the list (`TicketsIncrease`) carries `PopIsOldestWaiting` and the refinement.
The proof has one lemma per action (`PushStep`, `PopStep`, `SwapStep`, `GetStep`,
`TimeoutStep`, `GenerateIdStep`, `TickStep`), over lemmas about removal from a
sequence (`RemovedNodes`, `RemovalKeepsOrder`, `RemovalKeepsNodes`) and about where
pop starts (`PopTarget`).

### EpollServer_proofs

For any set of clients, any number of requests, any size of the table and of the
queue, any number of handles and pushing threads, under the assumptions the module
names (the table has a slot and the queue a place, `MaxReq` and `MaxMods` are
naturals, `None` is not a socket): `IndInvIsInvariant`, `ConnectionsStayAccounted`,
`CommandsStaySeen`, `CloseStaysLast` and `RequestsStayInOrder`; then
`CountInvIsInvariant`, `QueueStaysBounded`, `ClosedStaysNotifiedOnce`,
`TypeCorrect` and `OnlyMissedEverLinger`.

`ConnectionsAccounted` needs to know that the net thread, between two steps of one
event, works on a connection that is in the table (`NetKnows`): then a deletion
frees a slot that is taken. `CloseIsLast` is not inductive: a message could come in
behind the notification of a connection that is still there. `ToldAreClosed` says
that the handles have been told of a connection only when it is closed or its
deletion is half done, and no packet of such a connection is inserted.
`RequestsInOrder` speaks of the queue, which says nothing of what comes next; the
invariant follows the requests through the three places they pass: those in the
socket are in order (`SocketInOrder`), those the net thread has parsed are in order
and precede the ones in the socket (`BatchInOrder`), those in the queue precede both
(`QueueInOrder`). A refused packet has no number and is left out of all of them.
Most steps touch none of this; `QuietStep` disposes of them at once.

The second invariant, `CountInv`, counts, and is inductive on top of the first. The
queue can pass its capacity only while the net thread inserts what one read gave it,
which looks at the length before each chunk: what it saw still holds when the chunk
goes in, as nobody else adds requests (`RoomWasLeft`), and `BatchBounded` says how
long a chunk can be. A close is told once because a handle that has
taken the notice (`TakenAreClosed`) shows that the connection is gone for good: a
uid comes again, a connection does not. `LingerInv`, the last, adds to
`OnlyMissedLinger` that nobody closes a client that has not been accepted; it needs
the first for the connection that a command of the send queue is about
(`PipeTarget`).

### ThreadPool_proofs

For any number of workers, any jobs and any bounds, under the assumptions the module
names (there is a worker, the bounds are naturals, `None` is not a job):
`IndInvIsInvariant`, `TypeCorrect`, `JobsAreInOnePlace`, `StopLeavesNothing` and
`WaitMissesNoOther`. The waiter looks at the queues and at `_busthread` at different
moments, so what it has seen must be carried along: the invariant says of each of
its steps what may still have a job then, and of the controlling thread which
workers it has already joined, because those can neither hold a job nor clear the
queue again.

### RpcClient_proofs

For any calls, adapters and connections and any set of mixes, under the assumptions
`MixesAssumption` and `NamesAssumption` (a mix names calls and connections there
are; `None` and the ObjectProxy's queue are none of the others): `IndInvIsInvariant`,
`TypeCorrect`, `AnswersBelongToTheirCalls`, `AsyncCallsAreCalledBackOnce`,
`NoRequestIsForgotten`, `NoAnswerIsSleptThrough` and `PopIsAlwaysSafe`.

The id is the key of everything, and that is the argument. All queues draw their ids
from the ObjectProxy's counter, so an id and a call have one request at most in all
queues together (`RequestsAreDistinct`). A packet in a send buffer, at the peer, on
its way back or in the network thread's hands belongs to the request that has its
id, if there is one still, and that request was popped (`PacketsAreKnown`). So a
response finds its own call or nothing, however late it comes and whatever has
expired. It also finds a popped node, and a time-out takes the head, so no iterator
to a waiting node is ever erased (`QueuesAreWellKept`, `PopIsAlwaysSafe`): the guard
`PopSafe` of `SendRequest` never keeps the network thread from a step, which TLC
could not tell from a step that is not there.

`RequestsArePlaced` carries `WaitingIsServed`: a request that waits behind an open
connection has its caller about to arm that connection, an edge to come, or the
network thread at work there, which will look into the queue again before it goes.
`AsyncCallsAreHandedOnce` and `CallbacksAreDistinct` carry the callbacks: the
response, the time-out and the destructor race for a call, and an accepted call is
either referenced by someone or handed over, and never both handed over and run;
`EntriesCounted` turns that into the numbers of `AsyncCalledBackOnce`. The calls'
locals are followed in `ReactorAtWork` and `CallersAreConsistent`: while a response
is copied, the call is in no queue and the copy is the network thread's alone.
TLC had checked `IndInv` before it was proved, on the instance of the run and on one
of six and a half million states.

### Endpoints_proofs

For any hosts, any grid codes that are integers (they are compared) and any number of
adapters: `IndInvIsInvariant`, `EndpointsStayKnown` and `OnlyMovedEverStay`. The
invariant is the first property with what it needs of the state (`Holds`: the groups
are disjoint and hold one adapter in use for each known endpoint, or for a list in
the name one or more), stated of a state
as a value, because an answer is taken in the middle of a step (`Refreshed` in
`invoke`) as well as at its end. `OnlyMovedStay` is about the state after a refresh
that has not been made: it follows from the invariant, since an adapter that
`Removed` leaves in a group is in `eps`, or is in a group that is not its own.
Which unused names the new adapters get is left open in the model: the code
allocates them, and a choice of the first would be a theorem's burden without a
meaning.

`RetriesStaySpaced` is about `AdapterGroup`, for any number of servers, any
intervals and any limits, under `GroupAssumption` (these are naturals).
`getNextValidProxy` goes round the group in a recursive function, and what it returns
and changes is found by induction on the number of adapters it has looked at
(`RoundIsDefined` and the lemmas behind it). The invariant, `GroupInv`, says that an
adapter's counts are within those of the calls made, and, as `Rested`, that a
disabled adapter was not tried for at least as long as its last failure lies back.

### HashMap_proofs, and HashMap in SharedMemory_proofs

For any keys, values, sizes, blocks and buckets, with eviction on or off, one process
dying anywhere and any number of operations after it: the set list, the get list and
the chains of the buckets are whole and hold the same records after every step, the
cursors stand on records and a key has one record (`MapStaysWhole`); no block is in two
places (`BlocksKeepOnePlace`); what is read under the keys changes as `CacheMap` promises
(`MapImplementsCache`); and while no process has died every dirty record lies where
write-back finds it (`DirtyRecordsAreReached`). `HashMapAssumption` says only that there
are finitely many blocks, that 0 and -1 are not addresses, and what `Size` and `Bucket`
map; `NamesDiffer` says that the names the model has for a torn value, for the answers
of a read and for the operations are not values.

None of these properties is inductive. `Whole` relates the memory to what it stands for: the
sequences `S` and `G` of the two lists, the chain `B[i]` of each bucket, the parts
`P[a]` of each record, and `U`, the blocks that are neither free nor counted as used.
On these it says that the links run along the sequences both ways (`Lists`), that the
parts of a record are linked and disjoint from all others (`Chains`), that blocks that
are free or just taken are blank (`Places`, or a new record would begin with the
links of an old one), that a set under way makes the only record of its key
(`UniqueKeys`), what the operation knows in each phase (`Working`: how many chunks it
has and still needs, in a set, an eviction within it and the release of a block within
that), and that the counts of dirty and only-key records are exact, or owed in the log
of the operation, or off by one after a death between the flags and the counts
(`Counts`). The last is why the type invariant lets these counts reach -1 and one more
than the blocks, which no run of two calls had shown.

The argument goes from logs to lists to records. A transaction is a log, and each kind
of log is one lemma about memories (`UnlistedMakes`, `MovedUpMakes`, `MakeNewMakes`,
`EraseMakes`, ...): which fields it touches, and what it makes of a list of whatever
links. That a record is taken out of the set list, the get list and a chain is one
lemma used three times. Each step then has a lemma that names the new `S`, `G`, `B`,
`P` and `U` and keeps each part of `Whole` (`...Keeps`); the parts it does not touch
follow from the fields it does not touch. `Along`, which the model uses to read a
list, is a recursive function: that it reads `S` (`AlongIs`) is shown with the
function it must be, and `SameWay`.

`SharedMemory_proofs` goes on from there. The refinement needs the data as well. `DataIn` says what is read in a record with
given parts, and `Served` what a set has reached in each phase: until its chunks are
joined its key reads as before, from then on until the copy is complete its record
answers to no other key, and afterwards its key reads what was stored (`Setting`). One
lemma for each kind of step says what it makes of what is read: nothing
(`...IsQuiet`), one key lost (`EraseSees`), or the key of the set changed and no other
(`Changes`). `StepFollows` then finds the step of `CacheMap`, or none, that each action
is. That eviction drops another record than the one being set rests on `VictimIsOther`
and on there being one record of the key.

For the dirty records, `Reaching` adds to this what holds until a process dies: each
record but the one being set is dirty only if it comes before the dirty tail in the
set list (`Seen`), can be read, and is not both dirty and its key alone. The exception
(`Loose`, `Empty`) ends with `refreshSetList`, which puts the record in front of the
dirty tail. The steps that move records of the set list or its tail need facts about
the order of a list from which a record was taken or put in front (`AheadWithout`,
`AheadHeaded`, `AheadPrev`); all others leave `Seen` alone (`SteadyArrives`,
`UntouchedArrives`). A death can leave a dirty record behind the tail, which is why
the property ends there.

### The logs and the ring, in SharedMemory_proofs

For any set of places and values and any length of the log, with no assumption on
them (the module is also about `HashMap`, whose assumptions these proofs do not cite):
both invariants are inductive, a log that is not in use leaves nothing to do
(`ClosedLogIsDone`), and the steps implement `AtomicMemory` (`JournalIsAtomic`,
`UndoIsAtomic`). The redo log needs two facts that relate the copied part to the
goal: a place that no entry still to be copied writes is final (`CopiedIsFinal`),
and the last entry of a place is its final value (`LastEntryWins`); they survive a
copy that starts again, since the whole log is then still to be copied. The undo log
has their mirror images: a place without an entry still to be undone is as before
(`UnloggedIsUntouched`), and the first entry of a place is its old value
(`FirstEntryIsOld`). The second is why it is harmless that entries of a dead process
are left in front of the log: they hold the value that was there.

`RingImplementsFifo`: the ring of `MemQueue` implements a queue of elements, for any elements of
any sizes, any length of a length and any size of the memory. `RingAssumption` says
that something is stored as the length of an element and that there is one empty
string. In the invariant, `RingInv`, the elements of a queue lie one behind the
other from the bottom on (`Laid`, with the places where they end), the ring is never
full, `top` is at 0 only when `bot` is, and what a push has stored so far lies behind
the elements. What an element's bytes overwrite lies behind all elements
(`NoOverlap`), wherever the ring wraps. `Contents` and the `Used` of `BoundedFifo`
are recursive functions: that they read what was laid (`ContentsAreLaid`,
`UsedIsEnd`) is shown by induction, the claim being the membership of a number in a
set, to which `InductionOverSet` applies; the library's own theorem, which takes an
operator, is not needed.

### Only model-checked

Liveness everywhere (out of the prover's reach), and the queue with callers' own ids.
`TreeIsWhole` of `RBTree` too: the module is written with recursive operators, which
the prover does not take; what is proved is the log the tree runs on.

## Not modelled

* UDP, partial writes of one packet, decoding and encoding: data, not control.
* In the client: when the registry is asked and the cache file it is kept in, the
  set-up and shut-down of the communicator, adapters made or deleted while the timer
  runs.
* In the server: the `select` branch for Apple systems, several events in one epoll batch, several adapters or handle
  groups, header filters, allow and deny lists,
  shut-down. The receive queue in shared memory: its part in the process is served
  first (`tc_epoll_server.cpp:300`), so that a close or an overloaded request
  overtakes what is in the ring.
* In the hash map: chunks of several sizes, the number of chunks and blocks as the
  code computes it, the version and the synchronisation time of a record, iterators,
  dump and load. In the tree: the data of a record, its lists and its chunks, which
  are as in the hash map.
* In the queue in shared memory: `elementCount` and its counters, `connect`.
* The multi-key and the compact map and the jmem wrappers: variants of the two maps
  modelled, with logs of the same two kinds.
* `TC_HttpAsync`, `AppCache`, statistics and property reports; the service clients;
  generators, codecs and tools, which are sequential.

The tree has more than a hundred thousand lines, most of them generators, codecs,
generated code, utilities and near copies of the containers; the models cover the
parts where threads, processes and messages meet.

## Plan

Done: the request queue, the client, the endpoints and the choice of a server, the
network server, the thread pool, the ring, the two logs and the hash map with their
proofs; the tree. What is left, in order of importance:

1. A table of connections as an abstract specification that `EpollServer` implements.
2. Chunks in `RBTree`, with the failed set of a new record.
3. Epoll batches and shut-down of server and communicator.
4. The receive queue on `MemQueue`, and `TC_HttpAsync`.
