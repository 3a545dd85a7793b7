-------------------------------- MODULE HashMap --------------------------------
(***************************************************************************)
(* TC_HashMap: a hash map with a set list, a get list, dirty data to be    *)
(* written back and eviction, in a shared memory that outlives the         *)
(* processes that use it.  One process at a time is in the map (its users  *)
(* hold a lock); it may die between any two changes of the memory.         *)
(*                                                                         *)
(* A step is one transaction of the modify block, which MemJournal shows   *)
(* to happen at once, or one of the direct stores beside it.  mem is what  *)
(* lies in the shared memory, op what the process knows, lost in a crash.  *)
(* The chunks have one size; a record takes its block and Size(v) chunks.  *)
(***************************************************************************)
EXTENDS Integers, Sequences, FiniteSets, SequencesExt

CONSTANTS
  Keys,
  Values,
  Size,        \* chunks behind the block that a value needs, [Values -> Nat]
  Bucket,      \* hashIndex, [Keys -> 0 .. NBuckets - 1]
  NBuckets,
  Addr,        \* the blocks of the allocator; 0 is the address of none
  EraseCount,  \* _iEraseCount
  AutoErase,   \* _bAutoErase
  MaxCalls,    \* operations begun after a process has died (bound)
  None

ASSUME HashMapAssumption ==
  /\ IsFiniteSet(Addr) /\ Addr \cap {0, -1} = {}
  /\ NBuckets \in Nat \ {0} /\ EraseCount \in Nat \ {0} /\ MaxCalls \in Nat
  /\ Size \in [Values -> Nat] /\ Bucket \in [Keys -> 0 .. NBuckets - 1]
  /\ None \notin Keys \cup Values

ASSUME NamesDiffer ==
  /\ "torn" \notin Values /\ "error" \notin Values /\ "onlyKey" \notin Values
  /\ None \notin {"set", "del", "erase", "recover", "drop", "ok", "error", "noMemory"}

VARIABLES
  mem,       \* the fields of the head, the buckets and the blocks
  free,      \* the allocator's blocks, whatever the order of their list
  op,        \* the operation in progress
  crashed,   \* whether a process has died
  calls      \* operations begun since then

vars == <<mem, free, op, crashed, calls>>

NBlocks == Cardinality(Addr)
Index == 0 .. NBuckets - 1
Torn == "torn"       \* a value that was never set: parts of two, or of one

(* Head fields have the address 0, bucket fields their index.              *)
HeadFields == {"setHead", "setTail", "getHead", "getTail", "dirtyTail", "syncTail",
               "backupTail", "elementCount", "dirtyCount", "onlyKeyCount", "usedChunk"}

SetHead == mem.setHead[0]
SetTail == mem.setTail[0]
GetHead == mem.getHead[0]
GetTail == mem.getTail[0]
DirtyTail == mem.dirtyTail[0]
SyncTail == mem.syncTail[0]
BackupTail == mem.backupTail[0]

(***************************************************************************)
(* len is "none" before the data has been copied, "set" after, and "addr"  *)
(* when the field, which shares its place with nextChunk, still holds the  *)
(* address of a chunk.  nextChunk = 0 stands for _bNextChunk = false.      *)
(***************************************************************************)
ZeroBlock ==
  [setNext |-> 0, setPrev |-> 0, getNext |-> 0, getPrev |-> 0, blockNext |-> 0,
   blockPrev |-> 0, nextChunk |-> 0, index |-> 0, len |-> "none", dirty |-> FALSE,
   onlyKey |-> FALSE, key |-> None, val |-> None]

BlockFields == DOMAIN ZeroBlock

InitMem ==
  [f \in HeadFields \cup BlockFields \cup {"blockAddr", "listCount"} |->
     IF f \in HeadFields THEN [a \in {0} |-> 0]
     ELSE IF f \in BlockFields THEN [a \in Addr |-> ZeroBlock[f]]
     ELSE [i \in Index |-> 0]]

Idle == [pc |-> "idle", name |-> None, key |-> None, val |-> None, dirty |-> FALSE,
         addr |-> 0, fresh |-> FALSE, chunks |-> <<>>, todo |-> <<>>, log |-> <<>>,
         n |-> 0, back |-> "idle", ret |-> "idle", res |-> None, old |-> None]

Init ==
  /\ mem = InitMem
  /\ free = Addr
  /\ op = Idle
  /\ crashed = FALSE /\ calls = 0

-----------------------------------------------------------------------------
(***************************************************************************)
(* A log is a sequence of <<field, address, value>>; what is logged is     *)
(* computed from the memory as it was before the transaction, and a later  *)
(* entry for a place overrides an earlier one.                             *)
(***************************************************************************)
Written(m, log) ==
  LET after[i \in 0 .. Len(log)] ==
        IF i = 0 THEN m
        ELSE [after[i - 1] EXCEPT ![log[i][1]][log[i][2]] = log[i][3]]
  IN  after[Len(log)]

If(c, log) == IF c THEN log ELSE <<>>

Put(f, a, v) == <<<<f, a, v>>>>

Add(f, a, by) == Put(f, a, mem[f][a] + by)

-----------------------------------------------------------------------------
(***************************************************************************)
(* What can be read in a block.                                            *)
(***************************************************************************)

(* The blocks from a on, along a field.                                    *)
Along(f, a) ==
  LET longer == [s \in Seq(Addr) |->
                   LET next == IF s = <<>> THEN a ELSE mem[f][Last(s)]
                   IN  IF next = 0 THEN s ELSE Append(s, next)]
      upto[n \in 0 .. NBlocks] ==            \* the first n of them
        IF n = 0 THEN <<>> ELSE longer[upto[n - 1]]
  IN  upto[NBlocks]

Chain(a) == Along("nextChunk", mem.nextChunk[a])

LastPart(a) == Last(<<a>> \o Chain(a))

(* get of the key.  The data of a block without chunks have _iDataLen      *)
(* bytes, none before they have been copied; a block with chunks counts in *)
(* full, and the zeroes of a new one are taken for an empty key.           *)
KeyReadable(a) == mem.nextChunk[a] # 0 \/ mem.len[a] # "none"

(***************************************************************************)
(* getBlockData unpacks the value from the parts that are there: an error  *)
(* when they are fewer than the length in front of the value says, a torn  *)
(* value when not all of them belong to it.                                *)
(***************************************************************************)
Parts(a) == Len(Chain(a)) + IF mem.len[LastPart(a)] = "none" THEN 0 ELSE 1

Data(a) ==
  IF ~KeyReadable(a) THEN "error"
  ELSE IF mem.onlyKey[a] THEN "onlyKey"
  ELSE LET v == mem.val[a]
       IN  IF v = Torn \/ mem.key[a] = None THEN Torn
           ELSE IF v = None THEN IF Chain(a) = <<>> THEN "error" ELSE Torn
           ELSE IF Parts(a) < Size[v] + 1
                  THEN IF mem.len[LastPart(a)] = "addr" THEN Torn ELSE "error"
           ELSE IF \A i \in 1 .. Size[v] : mem.val[Chain(a)[i]] = v THEN v ELSE Torn

Chained(i) == Along("blockNext", mem.blockAddr[i])

Linked == UNION {Range(Chained(i)) : i \in Index}

(***************************************************************************)
(* find: the block of the key, 0 when it is not there, -1 when it is not   *)
(* there and the last block of the bucket cannot be read, because ret is   *)
(* then the error of that block.  get and del read the values as well.     *)
(***************************************************************************)
Found(k, readable(_)) ==
  LET chain == Chained(Bucket[k])
      at == {i \in DOMAIN chain : readable(chain[i]) /\ mem.key[chain[i]] = k}
  IN  IF at # {} THEN chain[Min(at)]
      ELSE IF chain # <<>> /\ ~readable(Last(chain)) THEN -1
      ELSE 0

find(k) == Found(k, KeyReadable)

findValue(k) == Found(k, LAMBDA a : Data(a) # "error")

(* The blocks of the records with key k, and what is read under each key.  *)
Blocks(k) == {a \in Range(Chained(Bucket[k])) : mem.key[a] = k /\ KeyReadable(a)}

Absent == "absent"

View == [k \in Keys |-> LET blocks == Blocks(k)
                       IN  IF blocks = {} THEN Absent ELSE Data(CHOOSE a \in blocks : TRUE)]

-----------------------------------------------------------------------------
(***************************************************************************)
(* The transactions of Block.                                              *)
(***************************************************************************)

(* A new block goes to the head of one of the two lists.                   *)
Listed(a, head, tail, nextf, prevf) ==
  IF mem[head][0] = 0
    THEN Put(head, 0, a) \o Put(tail, 0, a)
    ELSE Put(nextf, a, mem[head][0]) \o Put(prevf, mem[head][0], a) \o Put(head, 0, a)

(* makeNew links block a at the head of its bucket and of both lists; the  *)
(* stores into the block itself come first, while nothing points to it.    *)
makeNewLog(a, i) ==
  LET first == mem.blockAddr[i]
  IN  Put("index", a, i) \o Put("dirty", a, TRUE)
      \o Add("dirtyCount", 0, 1) \o Add("elementCount", 0, 1) \o Add("listCount", i, 1)
      \o If(first # 0, Put("blockPrev", first, a) \o Put("blockNext", a, first))
      \o Put("blockAddr", i, a)
      \o Listed(a, "setHead", "setTail", "setNext", "setPrev")
      \o Listed(a, "getHead", "getTail", "getNext", "getPrev")

(* One of the two lists loses block a.                                     *)
Unlisted(a, head, tail, nextf, prevf) ==
  IF mem[head][0] # a
    THEN IF mem[tail][0] = a
           THEN Put(tail, 0, mem[prevf][a]) \o Put(nextf, mem[prevf][a], 0)
           ELSE Put(nextf, mem[prevf][a], mem[nextf][a])
                \o Put(prevf, mem[nextf][a], mem[prevf][a])
    ELSE IF mem[tail][0] = a
           THEN Put(head, 0, 0) \o Put(tail, 0, 0)
           ELSE Put(head, 0, mem[nextf][a]) \o Put(prevf, mem[nextf][a], 0)

(* Mutant: the backup goes on from a record that is gone. *)
CursorsOffSetList(a) ==
  If(DirtyTail = a, Put("dirtyTail", 0, mem.setPrev[a]))
  \o If(SyncTail = a, Put("syncTail", 0, mem.setPrev[a]))

CursorsOff(a) ==
  If(DirtyTail = a, Put("dirtyTail", 0, mem.setPrev[a]))
  \o If(SyncTail = a, Put("syncTail", 0, mem.setPrev[a]))
  \o If(BackupTail = a, Put("backupTail", 0, mem.getPrev[a]))

(* Block::erase, without the return of the chunks to the allocator.        *)
eraseLog(a) ==
  LET prev == mem.blockPrev[a]
      next == mem.blockNext[a]
  IN  CursorsOff(a)
      \o Unlisted(a, "setHead", "setTail", "setNext", "setPrev")
      \o Unlisted(a, "getHead", "getTail", "getNext", "getPrev")
      \o If(prev # 0, Put("blockNext", prev, next))
      \o If(next # 0, Put("blockPrev", next, prev))
      \o Add("listCount", mem.index[a], -1)
      \o If(prev = 0, Put("blockAddr", mem.index[a], next))
      \o If(mem.dirty[a], Add("dirtyCount", 0, -1))
      \o If(mem.onlyKey[a], Add("onlyKeyCount", 0, -1))
      \o Add("elementCount", 0, -1)

(* Block a, which is not the head, goes to the head of a list.             *)
MovedUp(a, head, tail, nextf, prevf) ==
  LET prev == mem[prevf][a]
      next == mem[nextf][a]
  IN  Put(nextf, a, mem[head][0]) \o Put(prevf, mem[head][0], a)
      \o Put(head, 0, a) \o Put(prevf, a, 0)
      \o Put(nextf, prev, next)
      \o IF next # 0 THEN Put(prevf, next, prev) ELSE Put(tail, 0, prev)

(* Mutant: the first dirty record does not become the dirty tail. *)
refreshSetListUntailed(a) ==
  If(SyncTail = a /\ SetHead # a, Put("syncTail", 0, mem.setPrev[a]))
  \o If(DirtyTail = a /\ SetHead # a, Put("dirtyTail", 0, mem.setPrev[a]))
  \o If(SetHead # a, MovedUp(a, "setHead", "setTail", "setNext", "setPrev"))

refreshSetListLog(a) ==
  If(SyncTail = a /\ SetHead # a, Put("syncTail", 0, mem.setPrev[a]))
  \o If(DirtyTail = a /\ SetHead # a, Put("dirtyTail", 0, mem.setPrev[a]))
  \o If(DirtyTail = 0, Put("dirtyTail", 0, a))
  \o If(SetHead # a, MovedUp(a, "setHead", "setTail", "setNext", "setPrev"))

refreshGetListLog(a) ==
  If(GetHead # a,
     If(BackupTail = a, Put("backupTail", 0, mem.getPrev[a]))
     \o MovedUp(a, "getHead", "getTail", "getNext", "getPrev"))

(* The tail of the get list goes to its head.                              *)
getTailUpLog ==
  LET prev == mem.getPrev[GetTail]
  IN  Put("getTail", 0, prev) \o Put("getNext", prev, 0)
      \o Put("getPrev", GetTail, 0) \o Put("getNext", GetTail, GetHead)
      \o Put("getPrev", GetHead, GetTail) \o Put("getHead", 0, GetTail)

setDirtyLog(a, b) ==
  If(mem.dirty[a] # b,
     Add("dirtyCount", 0, IF b THEN 1 ELSE -1) \o Put("dirty", a, b))

-----------------------------------------------------------------------------
(* An operation begins.                                                    *)
Begin ==
  /\ op.pc = "idle"
  /\ crashed => calls < MaxCalls
  /\ calls' = IF crashed THEN calls + 1 ELSE 0

Become(p) == op' = [op EXCEPT !.pc = p]

Return(r) == [op EXCEPT !.pc = "return", !.res = r]

Commit(log) == mem' = Written(mem, log)

(* The operation returns to its caller, which makes the next one.          *)
Done ==
  /\ op.pc = "return"
  /\ op' = Idle
  /\ UNCHANGED <<mem, free, crashed, calls>>

Start(name, k) == [Idle EXCEPT !.name = name, !.key = k]

(* The blocks of todo go back to the allocator one by one.                 *)
Releasing(o, todo, ret) ==
  IF todo = <<>> THEN [o EXCEPT !.pc = ret]
  ELSE [o EXCEPT !.pc = "release", !.todo = todo, !.ret = ret]

deallocate ==
  /\ op.pc = "release"
  /\ LET a == Head(op.todo)
     IN  /\ free' = free \cup {a}
         /\ mem' = [f \in DOMAIN mem |->
                      IF f \in BlockFields THEN [mem[f] EXCEPT ![a] = ZeroBlock[f]]
                      ELSE IF f = "usedChunk" THEN [mem[f] EXCEPT ![0] = @ - 1]
                      ELSE mem[f]]
  /\ op' = Releasing(op, Tail(op.todo), op.ret)
  /\ UNCHANGED <<crashed, calls>>

(* Mutant: the chunks behind the block are not given back. *)
EraseBlockOnly(a, o, ret) ==
  /\ Commit(eraseLog(a))
  /\ op' = Releasing(o, <<a>>, ret)
  /\ UNCHANGED <<free, crashed>>

(* Block::erase of a, inside operation o, which goes on at ret.            *)
Erase(a, o, ret) ==
  /\ Commit(eraseLog(a))
  /\ op' = Releasing(o, Chain(a) \o <<a>>, ret)
  /\ UNCHANGED <<free, crashed>>

-----------------------------------------------------------------------------
(***************************************************************************)
(* set(k, v, bDirty) and set(k), which stores the key alone (val = None).  *)
(***************************************************************************)
set(k, v, d) ==
  /\ Begin
  /\ LET a == find(k)
         o == [Start("set", k) EXCEPT !.val = v, !.dirty = d, !.old = View[k]]
     IN  op' = IF a = -1 THEN [o EXCEPT !.pc = "return", !.res = "error"]
               ELSE [o EXCEPT !.addr = a, !.fresh = a = 0,
                              !.pc = IF a = 0 THEN "block" ELSE "room"]
  /\ UNCHANGED <<mem, free, crashed>>

Need == IF op.val = None THEN 0 ELSE Size[op.val]

Evicting(back) == [op EXCEPT !.pc = "evict", !.n = EraseCount, !.back = back]

(* allocateMemBlock takes a block and links it, or evicts and tries again. *)
allocateMemBlock ==
  /\ op.pc = "block"
  /\ \/ free = {} /\ op' = Evicting("block") /\ UNCHANGED free
     \/ \E a \in free : op' = [op EXCEPT !.pc = "link", !.addr = a] /\ free' = free \ {a}
  /\ UNCHANGED <<mem, crashed, calls>>

makeNew ==
  /\ op.pc = "link"
  /\ Commit(makeNewLog(op.addr, Bucket[op.key]) \o Add("usedChunk", 0, 1))
  /\ Become("room")
  /\ UNCHANGED <<free, crashed, calls>>

(* A block that has been linked, but has no data yet, is erased again.     *)
undoNew ==
  /\ op.pc = "undo"
  /\ Erase(op.addr, op, "return")
  /\ UNCHANGED calls

(***************************************************************************)
(* eraseExcept, one record at a time from the tail of the get list; only   *)
(* records with a value are counted.                                       *)
(***************************************************************************)
(* Mutant: the record that is being set may go as well. *)
VictimAny == GetTail

Victim ==
  LET except == IF op.back = "chunk" THEN op.addr ELSE 0
  IN  IF GetTail # 0 /\ GetTail = except THEN mem.getPrev[GetTail] ELSE GetTail

Counted(a) == Data(a) \notin {"error", "onlyKey"}

eraseExcept ==
  /\ op.pc = "evict"
  /\ IF AutoErase /\ op.n # 0 /\ Victim # 0
       THEN /\ Erase(Victim, [op EXCEPT !.n = IF Counted(Victim) THEN @ - 1 ELSE @], "evict")
            /\ UNCHANGED calls
       ELSE /\ op' = IF AutoErase /\ op.n # EraseCount THEN [op EXCEPT !.pc = op.back]
                     ELSE Releasing([op EXCEPT !.chunks = <<>>, !.res = "noMemory"], op.chunks,
                                    IF op.fresh /\ op.back = "chunk" THEN "undo" ELSE "return")
            /\ UNCHANGED <<mem, free, crashed, calls>>

(* Block::allocate gives the block as many chunks as the data need.        *)
allocate ==
  /\ op.pc = "room"
  /\ LET chain == Chain(op.addr)
         last == (<<op.addr>> \o chain)[Need + 1]
     IN  IF Len(chain) > Need
           THEN /\ Commit(Put("nextChunk", last, 0) \o If(Need = 0, Put("len", last, "none")))
                /\ op' = Releasing(op, SubSeq(chain, Need + 1, Len(chain)), "flags")
           ELSE /\ Become(IF Len(chain) = Need THEN "flags" ELSE "chunk")
                /\ UNCHANGED mem
  /\ UNCHANGED <<free, crashed, calls>>

allocateChunk ==
  /\ op.pc = "chunk"
  /\ \/ free = {} /\ op' = Evicting("chunk") /\ UNCHANGED <<mem, free>>
     \/ \E c \in free :
          /\ op' = [op EXCEPT !.chunks = Append(@, c),
                             !.pc = IF Len(Chain(op.addr)) + Len(op.chunks) + 1 = Need
                                    THEN "join" ELSE "chunk"]
          /\ free' = free \ {c}
          /\ Commit(Add("usedChunk", 0, 1))
  /\ UNCHANGED <<crashed, calls>>

(* The chain grows by one chunk at a time.                                 *)
joinChunk ==
  /\ op.pc = "join"
  /\ LET last == LastPart(op.addr)
         c == Head(op.chunks)
     IN  Commit(Put("nextChunk", last, c) \o Put("len", last, "addr")
                \o Put("nextChunk", c, 0) \o Put("len", c, "none"))
  /\ op' = [op EXCEPT !.chunks = Tail(@), !.pc = IF Len(op.chunks) = 1 THEN "flags" ELSE "join"]
  /\ UNCHANGED <<free, crashed, calls>>

(***************************************************************************)
(* Block::set writes the two flags in place and enters the counters in the *)
(* log; then it copies the data, the length last, and commits.             *)
(***************************************************************************)
flags ==
  /\ op.pc = "flags"
  /\ LET a == op.addr
         only == op.val = None
     IN  /\ mem' = [mem EXCEPT !.dirty[a] = ~only, !.onlyKey[a] = only]
         /\ op' = [op EXCEPT !.pc = "copy", !.n = 0,
                     !.log = If(mem.dirty[a] = only, Add("dirtyCount", 0, IF only THEN -1 ELSE 1))
                             \o If(mem.onlyKey[a] # only,
                                   Add("onlyKeyCount", 0, IF only THEN 1 ELSE -1))]
  /\ UNCHANGED <<free, crashed, calls>>

copy ==
  /\ op.pc = "copy"
  /\ LET part == (<<op.addr>> \o Chain(op.addr))[op.n + 1]
     IN  mem' = [mem EXCEPT !.val[part] = op.val,
                            !.key[part] = IF op.n = 0 THEN op.key ELSE @,
                            !.len[part] = IF op.n = Need THEN "set" ELSE @]
  /\ op' = [op EXCEPT !.n = @ + 1, !.pc = IF op.n = Need THEN "count" ELSE "copy"]
  /\ UNCHANGED <<free, crashed, calls>>

count ==
  /\ op.pc = "count"
  /\ Commit(op.log)
  /\ Become(IF op.val = None THEN "setList" ELSE "dirty")
  /\ UNCHANGED <<free, crashed, calls>>

setDirtyFlag ==
  /\ op.pc = "dirty"
  /\ Commit(setDirtyLog(op.addr, op.dirty))
  /\ Become("setList")
  /\ UNCHANGED <<free, crashed, calls>>

refreshSetList ==
  /\ op.pc = "setList"
  /\ Commit(refreshSetListLog(op.addr))
  /\ Become("getList")
  /\ UNCHANGED <<free, crashed, calls>>

refreshGetList ==
  /\ op.pc = "getList"
  /\ Commit(refreshGetListLog(op.addr))
  /\ op' = [op EXCEPT !.pc = "return", !.res = "ok"]
  /\ UNCHANGED <<free, crashed, calls>>

-----------------------------------------------------------------------------
(***************************************************************************)
(* The other operations.  Those that find nothing change nothing.          *)
(***************************************************************************)
get(k) ==
  /\ Begin
  /\ findValue(k) \in Addr /\ ~mem.onlyKey[findValue(k)]
  /\ Commit(refreshGetListLog(findValue(k)))
  /\ UNCHANGED <<free, op, crashed>>

(* setDirty and setClean.                                                  *)
markDirty(k, d) ==
  /\ Begin
  /\ find(k) \in Addr /\ ~mem.onlyKey[find(k)]
  /\ op' = [Start("mark", k) EXCEPT !.pc = "dirty", !.addr = find(k), !.dirty = d]
  /\ UNCHANGED <<mem, free, crashed>>

del(k) ==
  /\ Begin
  /\ findValue(k) \in Addr
  /\ Erase(findValue(k), Start("del", k), "return")

(* erase of the last record of the get list, when enough chunks are used;  *)
(* a dirty one is kept and moved to the head.                              *)
erase(check) ==
  LET a == GetTail
  IN  /\ Begin /\ a # 0
      /\ IF check /\ mem.dirty[a]
           THEN /\ Commit(If(DirtyTail = 0, Put("dirtyTail", 0, a))
                          \o If(GetHead # a, getTailUpLog))
                /\ UNCHANGED <<free, op, crashed>>
           ELSE Erase(a, Start("erase", None), "return")

(* sync(): the next write-back begins at the last dirty record.            *)
syncBegin ==
  /\ Begin
  /\ Commit(Put("syncTail", 0, DirtyTail))
  /\ UNCHANGED <<free, op, crashed>>

(* sync(iNowTime, data): the cursor moves on, then the record is looked at.*)
syncNext ==
  /\ Begin /\ SyncTail # 0
  /\ Commit(Put("syncTail", 0, mem.setPrev[SyncTail]))
  /\ op' = [Start("sync", None) EXCEPT !.pc = "sync", !.addr = SyncTail]
  /\ UNCHANGED <<free, crashed>>

TailPast(a) == If(DirtyTail = a, Put("dirtyTail", 0, mem.setPrev[a]))

sync ==
  /\ op.pc = "sync"
  /\ LET a == op.addr
     IN  IF ~mem.dirty[a] \/ Data(a) \in {"error", "onlyKey"}
           THEN Commit(TailPast(a)) /\ op' = Idle
           ELSE \/ Commit(setDirtyLog(a, FALSE)) /\ Become("synced")
                \/ op' = Idle /\ UNCHANGED mem
  /\ UNCHANGED <<free, crashed, calls>>

synced ==
  /\ op.pc = "synced"
  /\ Commit(TailPast(op.addr))
  /\ op' = Idle
  /\ UNCHANGED <<free, crashed, calls>>

backupBegin(force) ==
  /\ Begin /\ (force \/ BackupTail = 0)
  /\ Commit(Put("backupTail", 0, GetTail))
  /\ UNCHANGED <<free, op, crashed>>

backup ==
  /\ Begin /\ BackupTail # 0
  /\ Commit(Put("backupTail", 0, mem.getPrev[BackupTail]))
  /\ UNCHANGED <<free, op, crashed>>

(* recover(i, true): a record of bucket i that cannot be read goes; the    *)
(* call goes on with the next one as a call of its own would.              *)
Unreadable(i) == {j \in DOMAIN Chained(i) : Data(Chained(i)[j]) = "error"}

recover(i) ==
  /\ Begin
  /\ Unreadable(i) # {}
  /\ Erase(Chained(i)[Min(Unreadable(i))], Start("recover", None), "return")

(***************************************************************************)
(* The process dies.  One that is copying data leaves part of them.        *)
(***************************************************************************)
Crash ==
  /\ op.pc # "idle" /\ ~crashed
  /\ crashed' = TRUE
  /\ op' = Idle
  /\ \/ UNCHANGED mem
     \/ /\ op.pc = "copy"
        /\ LET part == (<<op.addr>> \o Chain(op.addr))[op.n + 1]
           IN  \E v \in {Torn, None} : mem' = [mem EXCEPT !.val[part] = v]
  /\ UNCHANGED <<free, calls>>

-----------------------------------------------------------------------------
Steps ==
  \/ allocateMemBlock \/ makeNew \/ undoNew \/ eraseExcept
  \/ allocate \/ allocateChunk \/ joinChunk \/ deallocate
  \/ flags \/ copy \/ count \/ setDirtyFlag \/ refreshSetList \/ refreshGetList
  \/ sync \/ synced \/ Done

Next ==
  \/ \E k \in Keys :
       \/ \E v \in Values, d \in BOOLEAN : set(k, v, d)
       \/ set(k, None, FALSE)
       \/ get(k) \/ del(k)
       \/ \E d \in BOOLEAN : markDirty(k, d)
  \/ \E check \in BOOLEAN : erase(check)
  \/ syncBegin \/ syncNext
  \/ \E force \in BOOLEAN : backupBegin(force)
  \/ backup
  \/ \E i \in Index : recover(i)
  \/ Steps
  \/ Crash

Spec == Init /\ [][Next]_vars

-----------------------------------------------------------------------------
(***************************************************************************)
(* Properties.                                                             *)
(***************************************************************************)
TypeOK ==
  /\ \A f \in HeadFields :
       mem[f][0] \in IF f \in {"elementCount", "usedChunk"} THEN 0 .. NBlocks
                    ELSE IF f \in {"dirtyCount", "onlyKeyCount"} THEN -1 .. NBlocks + 1
                    ELSE Addr \cup {0}
  /\ free \subseteq Addr
  /\ op.addr \in Addr \cup {0} /\ op.n \in 0 .. NBlocks + EraseCount
  /\ crashed \in BOOLEAN /\ calls \in 0 .. MaxCalls

(* The list is doubly linked and runs once over S.                         *)
IsList(list, prevf, S) ==
  /\ Range(list) = S /\ Len(list) = Cardinality(S)
  /\ \A i \in DOMAIN list : mem[prevf][list[i]] = IF i = 1 THEN 0 ELSE list[i - 1]

EndOf(list) == IF list = <<>> THEN 0 ELSE Last(list)

(* At every point where the process can die, the buckets, the set list and *)
(* the get list are whole, hold the same records and agree with the counts.*)
ListsAgree ==
  LET sets == Along("setNext", SetHead)
      gets == Along("getNext", GetHead)
      records == Linked
  IN  /\ IsList(sets, "setPrev", records) /\ SetTail = EndOf(sets)
      /\ IsList(gets, "getPrev", records) /\ GetTail = EndOf(gets)
      /\ \A i \in Index :
           LET chain == Chained(i)
           IN  /\ IsList(chain, "blockPrev", {a \in records : mem.index[a] = i})
               /\ mem.listCount[i] = Len(chain)
      /\ mem.elementCount[0] = Cardinality(records)

(* The cursors of the write-back, the dirty list and the backup point to   *)
(* records of the map or nowhere, never to a block that has been freed.    *)
CursorsAreLive == {DirtyTail, SyncTail, BackupTail} \subseteq Linked \cup {0}

(* A key has one record.                                                   *)
OneRecordPerKey == \A k \in Keys : Cardinality(Blocks(k)) <= 1

(* What holds whenever the process can die: the lists, the counts of them, *)
(* the cursors that walk them and the buckets.                             *)
MapIsWhole == TypeOK /\ ListsAgree /\ CursorsAreLive /\ OneRecordPerKey

(* No block is in two places: free, a record, a part of one, or in the     *)
(* hands of the operation.  Blocks are lost only in a crash, and then the  *)
(* count of used ones has them.                                            *)
BlocksHaveOnePlace ==
  LET held == op.chunks \o (IF op.pc = "release" THEN op.todo ELSE <<>>)
              \o (IF op.pc = "link" THEN <<op.addr>> ELSE <<>>)
      used == [a \in Linked |-> {a} \cup Range(Chain(a))]
      inUse == UNION Range(used)
  IN  /\ IsInjective(held) /\ Range(held) \cap (free \cup inUse) = {}
      /\ free \cap inUse = {}
      /\ \A a, b \in DOMAIN used : a # b => used[a] \cap used[b] = {}
      /\ ~crashed => /\ Range(held) \cup free \cup inUse = Addr
                        /\ mem.usedChunk[0] = NBlocks - Cardinality(free) - IF op.pc = "link" THEN 1 ELSE 0

(* As long as no process has died, every dirty record lies between the     *)
(* dirty tail and the head of the set list, where sync will find it, every *)
(* record can be read, and the counters of both kinds are exact.           *)
DirtyIsReached ==
  ~crashed /\ op.pc \in {"idle", "return"} =>
    /\ {a \in Linked : mem.dirty[a]} \subseteq Range(Along("setPrev", DirtyTail))
    /\ \A a \in Linked : Data(a) \in Values \cup {"onlyKey"}
    /\ mem.dirtyCount[0] = Cardinality({a \in Linked : mem.dirty[a]})
    /\ mem.onlyKeyCount[0] = Cardinality({a \in Linked : mem.onlyKey[a]})

(***************************************************************************)
(* The map implements CacheMap.                                            *)
(***************************************************************************)
Stored(v) == IF v = None THEN "onlyKey" ELSE v

NoHand == [kind |-> None, key |-> None, new |-> None, old |-> None, res |-> None]

HandOf ==
  CASE op.name = "set" ->
         [kind |-> "set", key |-> op.key, new |-> Stored(op.val), old |-> op.old, res |-> op.res]
    [] op.name \in {"del", "erase", "recover"} -> [NoHand EXCEPT !.kind = "drop"]
    [] OTHER -> NoHand

Cache == INSTANCE CacheMap
           WITH Content <- Values \cup {"onlyKey", "error", Torn}, store <- View, hand <- HandOf

ImplementsCache == Cache!Spec
==============================================================================
