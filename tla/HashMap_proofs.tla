----------------------------- MODULE HashMap_proofs -----------------------------
(***************************************************************************)
(* Proofs about HashMap, for any keys, values, blocks and buckets and a    *)
(* process that dies: its lists, chains, cursors and keys stay whole, and  *)
(* no block is ever in two places.  SharedMemory_proofs goes on from here. *)
(***************************************************************************)
EXTENDS HashMap, QueueLemmas, FiniteSetTheorems, TLAPS

-----------------------------------------------------------------------------
(***************************************************************************)
(* The map of HashMap.  Its memory is related to what it stands for: S is  *)
(* the set list, G the get list, B[i] the chain of bucket i, P[a] the      *)
(* blocks that hold record a, and U the blocks that are neither free nor   *)
(* counted as used.  The inductive invariant Whole says what they are      *)
(* after every step, in every phase of an operation and after a process    *)
(* has died in any of them.                                                *)
(***************************************************************************)

(* Each element of s leads to the next one along nx, the last nowhere.     *)
Strung(s, nx) == \A i \in 1 .. Len(s) : nx[s[i]] = IF i = Len(s) THEN 0 ELSE s[i + 1]

(* Each element of s leads to the one before it along pv, the first        *)
(* nowhere.                                                                *)
Back(s, pv) == \A i \in 1 .. Len(s) : pv[s[i]] = IF i = 1 THEN 0 ELSE s[i - 1]

First(s) == IF s = <<>> THEN 0 ELSE s[1]

(* A doubly linked list of blocks.                                         *)
DList(s, nx, pv) == s \in Seq(Addr) /\ IsInjective(s) /\ Strung(s, nx) /\ Back(s, pv)

(* The memory has its fields.                                              *)
Shape(m) ==
  /\ DOMAIN m = HeadFields \cup BlockFields \cup {"blockAddr", "listCount"}
  /\ \A f \in HeadFields : DOMAIN m[f] = {0}
  /\ \A f \in BlockFields : DOMAIN m[f] = Addr
  /\ DOMAIN m.blockAddr = Index /\ DOMAIN m.listCount = Index

(* List s has its head and tail in h and t and its links in nx and pv.     *)
Spot(m, s, h, t, nx, pv) ==
  DList(s, m[nx], m[pv]) /\ m[h][0] = First(s) /\ m[t][0] = EndOf(s)

(* B[i] is the chain of bucket i, which holds the records of L with that   *)
(* index.                                                                  *)
Buckets(m, L, B) ==
  /\ DOMAIN B = Index
  /\ \A i \in Index : /\ DList(B[i], m.blockNext, m.blockPrev) /\ m.blockAddr[i] = First(B[i])
                      /\ Range(B[i]) = {a \in L : m.index[a] = i}
                      /\ m.listCount[i] = Len(B[i])
  /\ \A a \in L : m.index[a] \in Index

(* S and G are the set list and the get list, B the chains of the buckets. *)
Lists(m, S, G, B) ==
  /\ Spot(m, S, "setHead", "setTail", "setNext", "setPrev")
  /\ Spot(m, G, "getHead", "getTail", "getNext", "getPrev")
  /\ Range(G) = Range(S)
  /\ m.elementCount[0] = Len(S)
  /\ Buckets(m, Range(S), B)

(* The cursors stand on records or nowhere.                                *)
Cursors(m, S) == {m.dirtyTail[0], m.syncTail[0], m.backupTail[0]} \subseteq Range(S) \cup {0}

(* P[a] are the parts of record a, its block first; no part belongs to two *)
(* records.                                                                *)
Chains(m, S, P) ==
  /\ DOMAIN P = Range(S)
  /\ \A a \in Range(S) : /\ P[a] \in Seq(Addr) /\ P[a] # <<>> /\ P[a][1] = a
                         /\ IsInjective(P[a]) /\ Strung(P[a], m.nextChunk)
  /\ \A a, b \in Range(S) : a # b => Range(P[a]) \cap Range(P[b]) = {}

(* The blocks of the records.                                              *)
UsedIn(P) == UNION {Range(P[a]) : a \in DOMAIN P}

(* A block as the allocator hands it out.                                  *)
Blank(m, a) == \A f \in BlockFields : m[f][a] = ZeroBlock[f]

(* What operation o has in hand beside its chunks.                         *)
Unlinked(o) == IF o.pc = "link" THEN {o.addr} ELSE {}
ToRelease(o) == IF o.pc = "release" THEN o.todo ELSE <<>>

(* U are the blocks that are neither free nor counted as used.             *)
Places(m, P, U, fr, o, cr) ==
  /\ fr \subseteq Addr
  /\ o.chunks \in Seq(Addr) /\ IsInjective(o.chunks)
  /\ ToRelease(o) \in Seq(Addr) /\ IsInjective(ToRelease(o))
  /\ Unlinked(o) \subseteq Addr
  /\ Range(o.chunks) \cap (fr \cup Unlinked(o) \cup UsedIn(P)) = {}
  /\ Range(ToRelease(o)) \cap (fr \cup Unlinked(o) \cup UsedIn(P) \cup Range(o.chunks)) = {}
  /\ Unlinked(o) \cap (fr \cup UsedIn(P)) = {}
  /\ fr \cap UsedIn(P) = {}
  /\ \A a \in fr \cup Unlinked(o) \cup Range(o.chunks) : Blank(m, a)
  /\ U \subseteq Addr
  /\ U \cap (fr \cup Range(o.chunks) \cup Range(ToRelease(o)) \cup UsedIn(P)) = {}
  /\ Unlinked(o) \subseteq U
  /\ m.usedChunk[0] = Cardinality(Addr \ (fr \cup U))
  /\ ~cr => /\ U = Unlinked(o)
            /\ Addr = fr \cup U \cup Range(o.chunks) \cup Range(ToRelease(o)) \cup UsedIn(P)

(* A record whose key can be read.                                         *)
Readable(m, a) == m.nextChunk[a] # 0 \/ m.len[a] # "none"

(* Record a is that of key k.                                              *)
Is(m, a, k) == Readable(m, a) /\ m.key[a] = k /\ m.index[a] = Bucket[k]

(* Where the operation is, or will be when it has made room.               *)
Phase(o) == LET pc == IF o.pc = "release" THEN o.ret ELSE o.pc
            IN  IF pc = "evict" THEN o.back ELSE pc

(* The phases of a set before its data are there.                          *)
Making == {"block", "link", "room", "chunk", "undo", "join", "flags", "copy"}
(* The phases in which op.addr is a record of the map.                     *)
AtRecord == {"room", "chunk", "undo", "join", "flags", "copy", "count", "dirty", "setList",
             "getList", "sync", "synced"}

(* No two records have one key, and a set under way makes the only one of  *)
(* its key.                                                                *)
UniqueKeys(m, S, o) ==
  /\ \A k \in Keys : \A a, b \in Range(S) : Is(m, a, k) /\ Is(m, b, k) => a = b
  /\ Phase(o) \in Making => \A a \in Range(S) : Is(m, a, o.key) => a = o.addr
  /\ Phase(o) \in Making \ {"block", "link"} => m.key[o.addr] \in {None, o.key}

Needs(o) == IF o.val = None THEN 0 ELSE Size[o.val]

(* What the operation in progress knows.                                   *)
Working(o, S, P, cr, cl) ==
  /\ DOMAIN o = DOMAIN Idle
  /\ Phase(o) \in Making \cup AtRecord \cup {"idle", "return"}
  /\ o.pc \in Making \cup AtRecord \cup {"idle", "return", "evict", "release"}
  /\ o.pc = "release" => o.todo # <<>> /\ o.ret \in {"return", "flags", "undo", "evict"}
  /\ o.pc = "evict" \/ (o.pc = "release" /\ o.ret = "evict") =>
       o.back \in {"block", "chunk"} /\ o.n \in 0 .. EraseCount
  /\ o.pc = "idle" => o = Idle
  /\ Phase(o) \notin {"chunk", "join"} => o.chunks = <<>>
  /\ Phase(o) \in Making => o.name = "set" /\ o.key \in Keys /\ o.val \in Values \cup {None}
  /\ Phase(o) = "block" => o.addr = 0
  /\ Phase(o) = "link" => o.addr \in Addr
  /\ Phase(o) \in AtRecord => o.addr \in Range(S)
  /\ o.addr \in Addr \cup {0}
  /\ Phase(o) = "chunk" => Len(P[o.addr]) + Len(o.chunks) < Needs(o) + 1
  /\ Phase(o) = "join" => o.chunks # <<>> /\ Len(P[o.addr]) + Len(o.chunks) = Needs(o) + 1
  /\ Phase(o) \in {"flags", "copy"} => Len(P[o.addr]) = Needs(o) + 1
  /\ Phase(o) = "copy" => o.n \in 0 .. Needs(o)
  /\ o.n \in 0 .. NBlocks + EraseCount /\ o.dirty \in BOOLEAN
  /\ cr \in BOOLEAN /\ cl \in 0 .. MaxCalls

DirtyRecords(m, S) == {a \in Range(S) : m.dirty[a]}
KeyRecords(m, S) == {a \in Range(S) : m.onlyKey[a]}

(* From the flags on the counts that are to be are in the log.             *)
Logged(m, l, x, y) ==
  \E c1, c2 \in BOOLEAN :
    /\ l = If(c1, Put("dirtyCount", 0, x)) \o If(c2, Put("onlyKeyCount", 0, y))
    /\ ~c1 => m.dirtyCount[0] = x
    /\ ~c2 => m.onlyKeyCount[0] = y

ToCount(m, l, x, y, cr) ==
  /\ m.dirtyCount[0] \in -1 .. NBlocks + 1 /\ m.onlyKeyCount[0] \in -1 .. NBlocks + 1
  /\ ~cr => m.dirtyCount[0] - x \in {-1, 0, 1} /\ m.onlyKeyCount[0] - y \in {-1, 0, 1}
  /\ Logged(m, l, x, y)

(* The counts are exact, or off by one after a process died between the    *)
(* flags and the counts.                                                   *)
Counts(m, S, o, cr) ==
  \E d, e \in {-1, 0, 1} :
    LET x == Cardinality(DirtyRecords(m, S)) + d
        y == Cardinality(KeyRecords(m, S)) + e
    IN  /\ ~cr => d = 0 /\ e = 0
        /\ Phase(o) \notin {"copy", "count"} => m.dirtyCount[0] = x /\ m.onlyKeyCount[0] = y
        /\ Phase(o) \in {"copy", "count"} => ToCount(m, o.log, x, y, cr)

Flags(m) == m.dirty \in [Addr -> BOOLEAN] /\ m.onlyKey \in [Addr -> BOOLEAN]

(* The inductive invariant.                                                *)
Whole(m, fr, o, cr, cl, S, G, B, P, U) ==
  /\ Shape(m) /\ Flags(m) /\ Lists(m, S, G, B) /\ Cursors(m, S) /\ Chains(m, S, P)
  /\ Places(m, P, U, fr, o, cr) /\ UniqueKeys(m, S, o) /\ Working(o, S, P, cr, cl)
  /\ Counts(m, S, o, cr)

WholeMap(S, G, B, P, U) == Whole(mem, free, op, crashed, calls, S, G, B, P, U)

-----------------------------------------------------------------------------
(***************************************************************************)
(* Logs, and what a transaction makes of the memory.                       *)
(***************************************************************************)

(* Two functions that go the same way from one step to the next are one.   *)
LEMMA SameWay ==
  ASSUME NEW n \in Nat, NEW f, NEW g, f[0] = g[0],
         \A i \in 0 .. n - 1 : f[i] = g[i] => f[i + 1] = g[i + 1]
  PROVE  \A i \in 0 .. n : f[i] = g[i]
<1> DEFINE T == {i \in Nat : i <= n => f[i] = g[i]}
<1>1. 0 \in T
  OBVIOUS
<1>2. ASSUME NEW i \in Nat, i \in T PROVE i + 1 \in T
  BY <1>2
<1>3. Nat \subseteq T
  <2> HIDE DEF T
  <2> QED BY <1>1, <1>2, InductionOverSet
<1> QED BY <1>3

-----------------------------------------------------------------------------
One(m, e) == [m EXCEPT ![e[1]][e[2]] = e[3]]

IsLog(l) == \E T : l \in Seq(T)

(* What a log writes, one entry after the other.                           *)
LEMMA LogRun ==
  ASSUME NEW m, NEW l, IsLog(l)
  PROVE  \E f : /\ f[0] = m
                /\ \A i \in 0 .. Len(l) - 1 : f[i + 1] = One(f[i], l[i + 1])
                /\ Written(m, l) = f[Len(l)]
<1> DEFINE n == Len(l)
           Is2(f, k) == f = [i \in 0 .. k |-> IF i = 0 THEN m ELSE One(f[i - 1], l[i])]
           T == {k \in Nat : \E f : Is2(f, k)}
<1>n. n \in Nat
  BY DEF IsLog
<1>1. 0 \in T
  <2>1. Is2([i \in 0 .. 0 |-> m], 0)
    OBVIOUS
  <2> QED BY <2>1
<1>2. ASSUME NEW k \in Nat, k \in T PROVE k + 1 \in T
  <2>1. PICK g : Is2(g, k)
    BY <1>2
  <2> DEFINE h == [i \in 0 .. k + 1 |-> IF i = k + 1 THEN One(g[k], l[k + 1]) ELSE g[i]]
  <2> HIDE DEF n
  <2>2. Is2(h, k + 1)
    <3>0. g[0] = m /\ \A i \in 1 .. k : g[i] = One(g[i - 1], l[i])
      BY <2>1
    <3>1. \A i \in 0 .. k + 1 : h[i] = IF i = 0 THEN m ELSE One(h[i - 1], l[i])
      <4> SUFFICES ASSUME NEW i \in 0 .. k + 1
                   PROVE h[i] = IF i = 0 THEN m ELSE One(h[i - 1], l[i])
        OBVIOUS
      <4>1. CASE i = k + 1
        <5>1. h[i] = One(g[k], l[k + 1]) /\ i - 1 = k /\ h[k] = g[k] /\ i # 0
          BY <4>1
        <5> QED BY <4>1, <5>1
      <4>2. CASE i = 0
        BY <4>2, <3>0
      <4>3. CASE i \in 1 .. k
        <5>1. h[i] = g[i] /\ h[i - 1] = g[i - 1]
          BY <4>3
        <5> QED BY <4>3, <5>1, <3>0
      <4> QED BY <4>1, <4>2, <4>3
    <3>2. h = [i \in 0 .. k + 1 |-> h[i]]
      OBVIOUS
    <3> HIDE DEF h
    <3> QED BY <3>1, <3>2
  <2> HIDE DEF h, Is2
  <2> QED BY <2>2
<1>3. n \in T
  <2> HIDE DEF T, n
  <2> QED BY <1>n, <1>1, <1>2, InductionOverSet
<1> DEFINE r == CHOOSE f : Is2(f, n)
<1>4. Is2(r, n)
  BY <1>3
<1>5. Written(m, l) = r[n]
  BY DEF Written, One
<1> HIDE DEF r, n
<1>6. r[0] = m /\ \A i \in 0 .. n - 1 : r[i + 1] = One(r[i], l[i + 1])
  <2>1. \A i \in 0 .. n : r[i] = IF i = 0 THEN m ELSE One(r[i - 1], l[i])
    BY <1>4
  <2>2. r[0] = m
    BY <2>1, <1>n
  <2>3. ASSUME NEW i \in 0 .. n - 1 PROVE r[i + 1] = One(r[i], l[i + 1])
    <3>1. i + 1 \in 0 .. n /\ i + 1 # 0 /\ (i + 1) - 1 = i
      BY <1>n
    <3> QED BY <2>1, <3>1
  <2> QED BY <2>2, <2>3
<1> QED BY <1>5, <1>6 DEF n

(* What log l makes of m.                                                  *)
Makes(l, m, n) == IsLog(l) /\ Written(m, l) = n

(* An empty log changes nothing.                                           *)
LEMMA LogOfNone ==
  ASSUME NEW m
  PROVE  Makes(<<>>, m, m)
<1>1. IsLog(<<>>)
  BY DEF IsLog
<1>2. PICK f : f[0] = m /\ Written(m, <<>>) = f[Len(<<>>)]
  BY <1>1, LogRun
<1> QED BY <1>1, <1>2 DEF Makes

(* A log of one entry stores it.                                           *)
LEMMA LogOfOne ==
  ASSUME NEW m, NEW e
  PROVE  Makes(<<e>>, m, One(m, e))
<1>1. IsLog(<<e>>) /\ Len(<<e>>) = 1 /\ <<e>>[1] = e
  <2>1. <<e>> \in Seq({e})
    OBVIOUS
  <2> QED BY <2>1 DEF IsLog
<1> DEFINE l == <<e>>
<1>2. PICK f : /\ f[0] = m /\ \A i \in 0 .. Len(l) - 1 : f[i + 1] = One(f[i], l[i + 1])
               /\ Written(m, l) = f[Len(l)]
  <2> HIDE DEF l
  <2> QED BY <1>1, LogRun DEF l
<1>3. f[0 + 1] = One(f[0], l[0 + 1])
  BY <1>1, <1>2
<1>4. Written(m, l) = f[1]
  BY <1>1, <1>2
<1> HIDE DEF l
<1>5. Written(m, l) = One(m, l[1])
  BY <1>2, <1>3, <1>4
<1> QED BY <1>1, <1>5 DEF Makes, l

(* Two logs, one behind the other, do what one does and then the other.    *)
LEMMA LogOfTwo ==
  ASSUME NEW k, NEW l, NEW m, NEW n, NEW o, Makes(k, m, n), Makes(l, n, o)
  PROVE  Makes(k \o l, m, o)
<1>1. IsLog(k) /\ IsLog(l) /\ Written(m, k) = n /\ Written(n, l) = o
  BY DEF Makes
<1>2. PICK T : k \in Seq(T) /\ l \in Seq(T)
  <2>1. PICK A : k \in Seq(A)
    BY <1>1 DEF IsLog
  <2>2. PICK B : l \in Seq(B)
    BY <1>1 DEF IsLog
  <2>3. k \in Seq(A \cup B) /\ l \in Seq(A \cup B)
    BY <2>1, <2>2
  <2> QED BY <2>3
<1> DEFINE j == k \o l
           p == Len(k)
           q == Len(l)
<1>a. j \in Seq(T) /\ DOMAIN j = 1 .. p + q
      /\ (\A i \in 1 .. p : j[i] = k[i])
      /\ (\A i \in 1 .. q : j[p + i] = l[i])
  BY <1>2, Concatenated
<1>b. p \in Nat /\ q \in Nat
  BY <1>2
<1>c. DOMAIN j = 1 .. Len(j) /\ Len(j) \in Nat
  BY <1>a
<1>d. Len(j) = p + q
  <2> HIDE DEF j, p, q
  <2> QED BY <1>a, <1>b, <1>c
<1>3. /\ j \in Seq(T) /\ p \in Nat /\ q \in Nat /\ Len(j) = p + q
      /\ \A i \in 1 .. p : j[i] = k[i]
      /\ \A i \in 1 .. q : j[p + i] = l[i]
  <2> HIDE DEF j, p, q
  <2> QED BY <1>a, <1>b, <1>d
<1>4. IsLog(j)
  BY <1>3 DEF IsLog
<1> HIDE DEF j
<1>5. PICK f : /\ f[0] = m /\ \A i \in 0 .. Len(j) - 1 : f[i + 1] = One(f[i], j[i + 1])
               /\ Written(m, j) = f[Len(j)]
  BY <1>4, LogRun
<1>6. PICK g : /\ g[0] = m /\ \A i \in 0 .. p - 1 : g[i + 1] = One(g[i], k[i + 1])
               /\ n = g[p]
  BY <1>1, LogRun
<1>7. PICK h : /\ h[0] = n /\ \A i \in 0 .. q - 1 : h[i + 1] = One(h[i], l[i + 1])
               /\ o = h[q]
  BY <1>1, LogRun
<1> HIDE DEF p, q
<1>8. \A i \in 0 .. p : f[i] = g[i]
  <2>1. ASSUME NEW i \in 0 .. p - 1, f[i] = g[i] PROVE f[i + 1] = g[i + 1]
    <3>1. i \in 0 .. Len(j) - 1 /\ i + 1 \in 1 .. p
      BY <1>3
    <3> QED BY <1>3, <1>5, <1>6, <2>1, <3>1
  <2>2. p \in Nat /\ f[0] = g[0]
    BY <1>3, <1>5, <1>6
  <2> QED BY <2>1, <2>2, SameWay
<1>9. \A i \in 0 .. q : f[p + i] = h[i]
  <2> DEFINE e == [i \in 0 .. q |-> f[p + i]]
  <2>1. e[0] = h[0]
    <3>1. e[0] = f[p + 0] /\ p + 0 = p /\ p \in 0 .. p
      BY <1>3
    <3> QED BY <1>6, <1>7, <1>8, <3>1
  <2>2. ASSUME NEW i \in 0 .. q - 1, e[i] = h[i] PROVE e[i + 1] = h[i + 1]
    <3>1. p + i \in 0 .. Len(j) - 1 /\ i + 1 \in 1 .. q /\ (p + i) + 1 = p + (i + 1)
          /\ i \in 0 .. q /\ i + 1 \in 0 .. q
      BY <1>3
    <3>2. f[(p + i) + 1] = One(f[p + i], j[(p + i) + 1])
      BY <1>5, <3>1
    <3>3. j[(p + i) + 1] = l[i + 1]
      BY <1>3, <3>1
    <3>4. h[i + 1] = One(h[i], l[i + 1])
      BY <1>7
    <3>5. e[i + 1] = f[p + (i + 1)] /\ e[i] = f[p + i]
      BY <3>1
    <3> HIDE DEF e
    <3> QED BY <2>2, <3>1, <3>2, <3>3, <3>4, <3>5
  <2>3. \A i \in 0 .. q : e[i] = h[i]
    <3>1. q \in Nat
      BY <1>3
    <3> HIDE DEF e
    <3> QED BY <3>1, <2>1, <2>2, SameWay
  <2> QED BY <2>3
<1>10. Written(m, j) = o
  BY <1>3, <1>5, <1>7, <1>9
<1> QED BY <1>4, <1>10 DEF Makes, j

(* An entry under a condition is there or is not.                          *)
LEMMA LogOfIf ==
  ASSUME NEW c, NEW l, NEW m, NEW n, c => Makes(l, m, n), ~c => n = m
  PROVE  Makes(If(c, l), m, n)
BY LogOfNone DEF If

-----------------------------------------------------------------------------
(***************************************************************************)
(* Doubly linked lists of blocks, and what becomes of them when a block    *)
(* comes to the front, leaves or moves up.                                 *)
(***************************************************************************)

(* What a doubly linked list is, place by place.                           *)
LEMMA Sides ==
  ASSUME NEW s, NEW nx, NEW pv, DList(s, nx, pv)
  PROVE  /\ s \in Seq(Addr) /\ Len(s) \in Nat /\ DOMAIN s = 1 .. Len(s)
         /\ \A i \in 1 .. Len(s) : s[i] \in Addr
         /\ \A i, j \in 1 .. Len(s) : s[i] = s[j] => i = j
         /\ \A i \in 1 .. Len(s) : nx[s[i]] = IF i = Len(s) THEN 0 ELSE s[i + 1]
         /\ \A i \in 1 .. Len(s) : pv[s[i]] = IF i = 1 THEN 0 ELSE s[i - 1]
         /\ \A a : a \in Range(s) <=> \E i \in 1 .. Len(s) : s[i] = a
         /\ Range(s) \subseteq Addr
         /\ First(s) = IF Len(s) = 0 THEN 0 ELSE s[1]
         /\ EndOf(s) = IF Len(s) = 0 THEN 0 ELSE s[Len(s)]
BY DEF DList, Strung, Back, IsInjective, Range, First, EndOf, Last

(* A sequence of blocks whose links are right at every place is a doubly   *)
(* linked list.                                                            *)
LEMMA IsDList ==
  ASSUME NEW s, NEW nx, NEW pv, s \in Seq(Addr),
         \A i, j \in 1 .. Len(s) : s[i] = s[j] => i = j,
         \A i \in 1 .. Len(s) : nx[s[i]] = IF i = Len(s) THEN 0 ELSE s[i + 1],
         \A i \in 1 .. Len(s) : pv[s[i]] = IF i = 1 THEN 0 ELSE s[i - 1]
  PROVE  DList(s, nx, pv)
BY DEF DList, Strung, Back, IsInjective

(* A list of other blocks does not change.                                 *)
LEMMA Untouched ==
  ASSUME NEW s, NEW nx, NEW pv, NEW nx2, NEW pv2, DList(s, nx, pv),
         \A a \in Range(s) : nx2[a] = nx[a] /\ pv2[a] = pv[a]
  PROVE  DList(s, nx2, pv2)
<1>1. \A i \in 1 .. Len(s) : nx2[s[i]] = nx[s[i]] /\ pv2[s[i]] = pv[s[i]]
  BY Sides
<1> QED BY <1>1, Sides, IsDList

Headed(a, s) == <<a>> \o s
Without(s, p) == RemoveAt(s, p)

(* A sequence with one more element in front.                              *)
LEMMA InFront ==
  ASSUME NEW S, NEW s \in Seq(S), NEW a \in S
  PROVE  LET t == <<a>> \o s
         IN  /\ t \in Seq(S) /\ Len(t) = Len(s) + 1 /\ DOMAIN t = 1 .. Len(s) + 1
             /\ t[1] = a /\ \A i \in 1 .. Len(s) : t[i + 1] = s[i]
<1> DEFINE u == <<a>>
           t == u \o s
<1>1. u \in Seq(S) /\ Len(u) = 1 /\ u[1] = a
  OBVIOUS
<1> HIDE DEF u
<1>2. /\ t \in Seq(S) /\ DOMAIN t = 1 .. Len(u) + Len(s)
      /\ \A i \in 1 .. Len(u) : t[i] = u[i]
      /\ \A i \in 1 .. Len(s) : t[Len(u) + i] = s[i]
  BY <1>1, Concatenated
<1>3. DOMAIN t = 1 .. Len(t) /\ Len(t) \in Nat /\ Len(s) \in Nat
  BY <1>2
<1> HIDE DEF t
<1>4. Len(t) = Len(s) + 1
  BY <1>1, <1>2, <1>3
<1>5. t[1] = a
  BY <1>1, <1>2
<1>6. ASSUME NEW i \in 1 .. Len(s) PROVE t[i + 1] = s[i]
  <2>1. 1 + i = i + 1
    BY <1>3
  <2> QED BY <1>1, <1>2, <2>1
<1> QED BY <1>2, <1>3, <1>4, <1>5, <1>6 DEF t, u

Pushing(s, nx, pv, nx2, pv2, a) ==
  /\ DList(s, nx, pv) /\ a \in Addr /\ a \notin Range(s)
  /\ nx2[a] = First(s) /\ pv2[a] = 0 /\ (s # <<>> => pv2[s[1]] = a)
  /\ \A b \in Range(s) : nx2[b] = nx[b]
  /\ \A b \in Range(s) : b # s[1] => pv2[b] = pv[b]

HasFront(t, s, nx2, pv2, a) ==
  /\ DList(t, nx2, pv2) /\ First(t) = a /\ EndOf(t) = IF s = <<>> THEN a ELSE EndOf(s)
  /\ Range(t) = Range(s) \cup {a} /\ Len(t) = Len(s) + 1
  /\ t[1] = a /\ \A i \in 1 .. Len(s) : t[i + 1] = s[i]

(* A block that is linked in front of the first one is the first of the    *)
(* list.                                                                   *)
LEMMA Pushed ==
  ASSUME NEW s, NEW nx, NEW pv, NEW nx2, NEW pv2, NEW a, Pushing(s, nx, pv, nx2, pv2, a)
  PROVE  HasFront(Headed(a, s), s, nx2, pv2, a)
<1>0. /\ DList(s, nx, pv) /\ a \in Addr /\ a \notin Range(s)
      /\ nx2[a] = First(s) /\ pv2[a] = 0 /\ (s # <<>> => pv2[s[1]] = a)
      /\ \A b \in Range(s) : nx2[b] = nx[b]
      /\ \A b \in Range(s) : b # s[1] => pv2[b] = pv[b]
  BY DEF Pushing
<1> USE <1>0
<1> DEFINE t == Headed(a, s)
           n == Len(s)
<1>1. /\ s \in Seq(Addr) /\ n \in Nat /\ DOMAIN s = 1 .. n
      /\ \A i \in 1 .. n : s[i] \in Addr /\ s[i] \in Range(s) /\ s[i] # a
      /\ \A i, j \in 1 .. n : s[i] = s[j] => i = j
      /\ \A i \in 1 .. n : nx[s[i]] = IF i = n THEN 0 ELSE s[i + 1]
      /\ \A i \in 1 .. n : pv[s[i]] = IF i = 1 THEN 0 ELSE s[i - 1]
      /\ \A b : b \in Range(s) <=> \E i \in 1 .. n : s[i] = b
      /\ First(s) = IF n = 0 THEN 0 ELSE s[1]
      /\ EndOf(s) = IF n = 0 THEN 0 ELSE s[n]
      /\ s = <<>> <=> n = 0
  BY Sides
<1>2. /\ t \in Seq(Addr) /\ Len(t) = n + 1 /\ DOMAIN t = 1 .. n + 1 /\ t[1] = a
      /\ \A i \in 1 .. n : t[i + 1] = s[i]
  <2>1. s \in Seq(Addr) /\ a \in Addr
    BY <1>1
  <2> HIDE DEF t, n
  <2>2. /\ <<a>> \o s \in Seq(Addr) /\ Len(<<a>> \o s) = Len(s) + 1
        /\ DOMAIN (<<a>> \o s) = 1 .. Len(s) + 1
        /\ (<<a>> \o s)[1] = a /\ \A i \in 1 .. Len(s) : (<<a>> \o s)[i + 1] = s[i]
    BY <2>1, InFront
  <2> QED BY <2>2 DEF t, n, Headed
<1> HIDE DEF t, n
<1>3. \A i \in 2 .. n + 1 : i - 1 \in 1 .. n /\ t[i] = s[i - 1]
  <2> SUFFICES ASSUME NEW i \in 2 .. n + 1 PROVE i - 1 \in 1 .. n /\ t[i] = s[i - 1]
    OBVIOUS
  <2>1. i - 1 \in 1 .. n /\ (i - 1) + 1 = i
    BY <1>1
  <2> QED BY <1>2, <2>1
<1>4. ASSUME NEW i \in 1 .. n + 1, NEW j \in 1 .. n + 1, t[i] = t[j] PROVE i = j
  BY <1>1, <1>2, <1>3, <1>4
<1>5. ASSUME NEW i \in 1 .. n + 1 PROVE nx2[t[i]] = IF i = n + 1 THEN 0 ELSE t[i + 1]
  <2>1. CASE i = 1
    <3>1. CASE n = 0
      BY <1>1, <1>2, <2>1, <3>1
    <3>2. CASE n # 0
      <4>1. 1 \in 1 .. n
        BY <1>1, <3>2
      <4> QED BY <1>1, <1>2, <2>1, <3>2, <4>1
    <3> QED BY <3>1, <3>2
  <2>2. CASE i # 1
    <3>1. i \in 2 .. n + 1 /\ i - 1 \in 1 .. n /\ t[i] = s[i - 1]
      BY <1>1, <1>3, <2>2
    <3>2. nx2[t[i]] = IF i - 1 = n THEN 0 ELSE s[(i - 1) + 1]
      BY <1>1, <3>1
    <3>3. i # n + 1 => i \in 1 .. n /\ (i - 1) + 1 = i /\ t[i + 1] = s[i]
      BY <1>1, <1>2, <3>1
    <3> QED BY <1>1, <3>1, <3>2, <3>3
  <2> QED BY <2>1, <2>2
<1>6. ASSUME NEW i \in 1 .. n + 1 PROVE pv2[t[i]] = IF i = 1 THEN 0 ELSE t[i - 1]
  <2>1. CASE i = 1
    BY <1>2, <2>1
  <2>2. CASE i = 2
    <3>1. n # 0 /\ t[2] = s[1] /\ i - 1 = 1
      BY <1>1, <1>3, <2>2
    <3> QED BY <1>1, <1>2, <2>2, <3>1
  <2>3. CASE i \in 3 .. n + 1
    <3>1. i - 1 \in 2 .. n + 1 /\ i - 1 \in 1 .. n /\ t[i] = s[i - 1] /\ t[i - 1] = s[(i - 1) - 1]
          /\ i - 1 # 1 /\ i \in 2 .. n + 1 /\ 1 \in 1 .. n
      BY <1>1, <1>3, <2>3
    <3>2. s[i - 1] # s[1] /\ s[i - 1] \in Range(s)
      BY <1>1, <3>1
    <3>3. pv2[s[i - 1]] = pv[s[i - 1]]
      BY <3>2
    <3>4. pv[s[i - 1]] = s[(i - 1) - 1]
      BY <1>1, <3>1
    <3> QED BY <2>3, <3>1, <3>3, <3>4
  <2> QED BY <1>1, <2>1, <2>2, <2>3
<1>7. DList(t, nx2, pv2)
  BY <1>2, <1>4, <1>5, <1>6, IsDList
<1>8. First(t) = a /\ EndOf(t) = IF s = <<>> THEN a ELSE EndOf(s)
  <2>1. First(t) = t[1] /\ EndOf(t) = t[n + 1]
    <3>1. /\ First(t) = IF Len(t) = 0 THEN 0 ELSE t[1]
          /\ EndOf(t) = IF Len(t) = 0 THEN 0 ELSE t[Len(t)]
      BY <1>7, Sides
    <3>2. Len(t) = n + 1 /\ n + 1 # 0
      BY <1>1, <1>2
    <3> QED BY <3>1, <3>2
  <2>2. CASE n = 0
    BY <1>1, <1>2, <2>1, <2>2
  <2>3. CASE n # 0
    <3>1. n + 1 \in 2 .. n + 1 /\ (n + 1) - 1 = n
      BY <1>1, <2>3
    <3> QED BY <1>1, <1>2, <1>3, <2>1, <2>3, <3>1
  <2> QED BY <2>2, <2>3
<1>9. Range(t) = Range(s) \cup {a}
  <2>1. ASSUME NEW b \in Range(t) PROVE b \in Range(s) \cup {a}
    <3>1. PICK i \in 1 .. n + 1 : t[i] = b
      BY <1>2 DEF Range
    <3>2. i = 1 \/ i \in 2 .. n + 1
      BY <1>1
    <3> QED BY <1>1, <1>2, <1>3, <3>1, <3>2
  <2>2. a \in Range(t)
    <3>1. 1 \in 1 .. n + 1
      BY <1>1
    <3> QED BY <1>2, <3>1 DEF Range
  <2>3. ASSUME NEW b \in Range(s) PROVE b \in Range(t)
    <3>1. PICK i \in 1 .. n : s[i] = b
      BY <1>1
    <3>2. i + 1 \in 1 .. n + 1 /\ t[i + 1] = b
      BY <1>1, <1>2, <3>1
    <3> QED BY <1>2, <3>2 DEF Range
  <2> QED BY <2>1, <2>2, <2>3
<1> QED BY <1>2, <1>7, <1>8, <1>9 DEF t, n, HasFront

Removing(s, nx, pv, nx2, pv2, p) ==
  /\ DList(s, nx, pv) /\ p \in 1 .. Len(s)
  /\ \A b \in Range(s) : b # s[p] =>
       nx2[b] = IF p > 1 /\ b = s[p - 1] THEN nx[s[p]] ELSE nx[b]
  /\ \A b \in Range(s) : b # s[p] =>
       pv2[b] = IF p < Len(s) /\ b = s[p + 1] THEN pv[s[p]] ELSE pv[b]

IsWithout(t, s, nx, pv, nx2, pv2, p) ==
  /\ DList(t, nx2, pv2)
  /\ First(t) = IF p = 1 THEN nx[s[p]] ELSE First(s)
  /\ EndOf(t) = IF p = Len(s) THEN pv[s[p]] ELSE EndOf(s)
  /\ Range(t) = Range(s) \ {s[p]} /\ Len(t) = Len(s) - 1
  /\ \A i \in 1 .. Len(s) - 1 : t[i] = IF i < p THEN s[i] ELSE s[i + 1]

(* A list whose links go around the block at p is the list without it.     *)
LEMMA Removed ==
  ASSUME NEW s, NEW nx, NEW pv, NEW nx2, NEW pv2, NEW p, Removing(s, nx, pv, nx2, pv2, p)
  PROVE  IsWithout(Without(s, p), s, nx, pv, nx2, pv2, p)
<1>0. /\ DList(s, nx, pv) /\ p \in 1 .. Len(s)
      /\ \A b \in Range(s) : b # s[p] =>
           nx2[b] = IF p > 1 /\ b = s[p - 1] THEN nx[s[p]] ELSE nx[b]
      /\ \A b \in Range(s) : b # s[p] =>
           pv2[b] = IF p < Len(s) /\ b = s[p + 1] THEN pv[s[p]] ELSE pv[b]
  BY DEF Removing
<1> USE <1>0
<1> DEFINE t == Without(s, p)
           n == Len(s)
<1>r. \A b : b \in Range(s) <=> \E i \in 1 .. n : s[i] = b
  BY Sides
<1>1. /\ s \in Seq(Addr) /\ n \in Nat /\ DOMAIN s = 1 .. n
      /\ \A i \in 1 .. n : s[i] \in Addr /\ s[i] \in Range(s)
  BY <1>r, Sides
<1>i. \A i, j \in 1 .. n : s[i] = s[j] => i = j
  BY Sides
<1>x. \A i \in 1 .. n : nx[s[i]] = IF i = n THEN 0 ELSE s[i + 1]
  BY Sides
<1>y. \A i \in 1 .. n : pv[s[i]] = IF i = 1 THEN 0 ELSE s[i - 1]
  BY Sides
<1>z. /\ First(s) = IF n = 0 THEN 0 ELSE s[1]
      /\ EndOf(s) = IF n = 0 THEN 0 ELSE s[n]
  BY Sides
<1>2. /\ t \in Seq(Addr) /\ Len(t) = n - 1 /\ p \in 1 .. n
      /\ \A i \in 1 .. n - 1 : t[i] = IF i < p THEN s[i] ELSE s[i + 1]
  <2>1. s \in Seq(Addr) /\ p \in 1 .. Len(s)
    BY <1>1
  <2>2. /\ RemoveAt(s, p) \in Seq(Addr) /\ Len(RemoveAt(s, p)) = Len(s) - 1
        /\ \A j \in 1 .. Len(s) - 1 : RemoveAt(s, p)[j] = IF j < p THEN s[j] ELSE s[j + 1]
    BY <2>1, RemovedAt
  <2> QED BY <2>1, <2>2 DEF Without
<1>h. /\ \A b \in Range(s) : b # s[p] =>
           nx2[b] = IF p > 1 /\ b = s[p - 1] THEN nx[s[p]] ELSE nx[b]
      /\ \A b \in Range(s) : b # s[p] =>
           pv2[b] = IF p < n /\ b = s[p + 1] THEN pv[s[p]] ELSE pv[b]
  OBVIOUS
<1> HIDE DEF t, n
<1> DEFINE Old(i) == IF i < p THEN i ELSE i + 1
<1>3. ASSUME NEW i \in 1 .. n - 1
      PROVE  /\ Old(i) \in 1 .. n /\ Old(i) # p /\ t[i] = s[Old(i)]
             /\ i < p => Old(i) = i
             /\ ~(i < p) => Old(i) = i + 1
  <2>1. i \in Int /\ p \in Int /\ n \in Int
    BY <1>1, <1>2
  <2>2. t[i] = IF i < p THEN s[i] ELSE s[i + 1]
    BY <1>2
  <2>3. CASE i < p
    BY <1>2, <2>1, <2>2, <2>3
  <2>4. CASE ~(i < p)
    BY <1>2, <2>1, <2>2, <2>4
  <2> QED BY <2>3, <2>4
<1>o. n \in Int /\ p \in Int /\ p \in 1 .. n
  BY <1>1, <1>2
<1>q. \A i, j \in 1 .. n - 1 : Old(i) = Old(j) => i = j
  BY <1>o
<1> HIDE DEF Old
<1>4. ASSUME NEW i \in 1 .. n - 1, NEW j \in 1 .. n - 1, t[i] = t[j] PROVE i = j
  <2>1. t[i] = s[Old(i)] /\ t[j] = s[Old(j)] /\ Old(i) \in 1 .. n /\ Old(j) \in 1 .. n
    BY <1>3
  <2>2. Old(i) = Old(j)
    BY <1>i, <1>4, <2>1
  <2> QED BY <1>q, <2>2
<1>5. ASSUME NEW i \in 1 .. n - 1 PROVE nx2[t[i]] = IF i = n - 1 THEN 0 ELSE t[i + 1]
  <2>0. /\ Old(i) \in 1 .. n /\ Old(i) # p /\ t[i] = s[Old(i)]
        /\ i < p => Old(i) = i
        /\ ~(i < p) => Old(i) = i + 1
        /\ i \in Int
    BY <1>3
  <2>1. t[i] \in Range(s) /\ t[i] # s[p] /\ t[i] = s[Old(i)]
    BY <1>1, <1>i, <1>o, <2>0
  <2>2. CASE i = p - 1
    <3>1. t[i] = s[p - 1] /\ p > 1
      BY <1>o, <2>0, <2>2
    <3>2. nx2[t[i]] = nx[s[p]]
      BY <1>h, <2>1, <3>1
    <3>3. i # n - 1 => t[i + 1] = s[p + 1] /\ p # n
      <4>1. i # n - 1 => i + 1 \in 1 .. n - 1 /\ ~(i + 1 < p) /\ (i + 1) + 1 = p + 1 /\ p # n
        BY <1>o, <2>2
      <4> QED BY <1>2, <4>1
    <3>4. i = n - 1 => p = n
      BY <1>o, <2>2
    <3>5. nx[s[p]] = IF p = n THEN 0 ELSE s[p + 1]
      BY <1>o, <1>x
    <3> QED BY <3>2, <3>3, <3>4, <3>5
  <2>3. CASE i # p - 1
    <3>1. p > 1 => t[i] # s[p - 1]
      <4>1. p > 1 => Old(i) # p - 1 /\ p - 1 \in 1 .. n
        BY <1>o, <2>0, <2>3
      <4> QED BY <1>i, <2>0, <4>1
    <3>2. nx2[t[i]] = nx[s[Old(i)]]
      BY <1>h, <2>1, <3>1
    <3>3. nx[s[Old(i)]] = IF Old(i) = n THEN 0 ELSE s[Old(i) + 1]
      BY <1>x, <2>0
    <3>4. Old(i) = n <=> i = n - 1
      BY <1>o, <2>0, <2>3
    <3>5. i # n - 1 => t[i + 1] = s[Old(i) + 1]
      <4>1. i # n - 1 => i + 1 \in 1 .. n - 1 /\ Old(i + 1) = Old(i) + 1
        BY <1>o, <2>3 DEF Old
      <4> QED BY <1>3, <4>1
    <3> QED BY <3>2, <3>3, <3>4, <3>5
  <2> QED BY <2>2, <2>3
<1>6. ASSUME NEW i \in 1 .. n - 1 PROVE pv2[t[i]] = IF i = 1 THEN 0 ELSE t[i - 1]
  <2>0. /\ Old(i) \in 1 .. n /\ Old(i) # p /\ t[i] = s[Old(i)]
        /\ i < p => Old(i) = i
        /\ ~(i < p) => Old(i) = i + 1
        /\ i \in Int
    BY <1>3
  <2>1. t[i] \in Range(s) /\ t[i] # s[p] /\ t[i] = s[Old(i)]
    BY <1>1, <1>i, <1>o, <2>0
  <2>2. CASE i = p
    <3>1. t[i] = s[p + 1] /\ p < n
      BY <1>o, <2>0, <2>2
    <3>2. pv2[t[i]] = pv[s[p]]
      BY <1>h, <2>1, <3>1
    <3>3. i # 1 => t[i - 1] = s[p - 1] /\ p # 1
      <4>1. i # 1 => i - 1 \in 1 .. n - 1 /\ i - 1 < p
        BY <1>o, <2>2
      <4> QED BY <1>2, <2>2, <4>1
    <3>5. pv[s[p]] = IF p = 1 THEN 0 ELSE s[p - 1]
      BY <1>o, <1>y
    <3> QED BY <2>2, <3>2, <3>3, <3>5
  <2>3. CASE i # p
    <3>1. p < n => t[i] # s[p + 1]
      <4>1. p < n => Old(i) # p + 1 /\ p + 1 \in 1 .. n
        BY <1>o, <2>0, <2>3
      <4> QED BY <1>i, <2>0, <4>1
    <3>2. pv2[t[i]] = pv[s[Old(i)]]
      BY <1>h, <2>1, <3>1
    <3>3. pv[s[Old(i)]] = IF Old(i) = 1 THEN 0 ELSE s[Old(i) - 1]
      BY <1>y, <2>0
    <3>4. Old(i) = 1 <=> i = 1
      BY <1>o, <2>0, <2>3
    <3>5. i # 1 => t[i - 1] = s[Old(i) - 1]
      <4>1. i # 1 => i - 1 \in 1 .. n - 1 /\ Old(i - 1) = Old(i) - 1
        BY <1>o, <2>3 DEF Old
      <4> QED BY <1>3, <4>1
    <3> QED BY <3>2, <3>3, <3>4, <3>5
  <2> QED BY <2>2, <2>3
<1>7. DList(t, nx2, pv2)
  BY <1>2, <1>4, <1>5, <1>6, IsDList
<1>8. First(t) = IF p = 1 THEN nx[s[p]] ELSE First(s)
  <2>1. First(t) = IF Len(t) = 0 THEN 0 ELSE t[1]
    BY <1>7, Sides
  <2>2. Len(t) = n - 1
    BY <1>2
  <2>3. n - 1 # 0 => t[1] = IF 1 < p THEN s[1] ELSE s[1 + 1]
    <3>1. n - 1 # 0 => 1 \in 1 .. n - 1
      BY <1>o
    <3> QED BY <1>2, <3>1
  <2>4. n # 0 /\ 1 \in 1 .. n
    BY <1>o
  <2> QED BY <1>o, <1>x, <1>z, <2>1, <2>2, <2>3, <2>4
<1>9. EndOf(t) = IF p = n THEN pv[s[p]] ELSE EndOf(s)
  <2>1. EndOf(t) = IF Len(t) = 0 THEN 0 ELSE t[Len(t)]
    BY <1>7, Sides
  <2>2. Len(t) = n - 1
    BY <1>2
  <2>3. n - 1 # 0 => t[n - 1] = IF n - 1 < p THEN s[n - 1] ELSE s[(n - 1) + 1]
    <3>1. n - 1 # 0 => n - 1 \in 1 .. n - 1
      BY <1>o
    <3> QED BY <1>2, <3>1
  <2>4. n # 0 /\ n \in 1 .. n /\ (n - 1) + 1 = n
    BY <1>o
  <2> QED BY <1>o, <1>y, <1>z, <2>1, <2>2, <2>3, <2>4
<1>10. Range(t) = Range(s) \ {s[p]}
  <2>1. \A b : b \in Range(t) <=> \E i \in 1 .. n - 1 : t[i] = b
    <3>1. \A b : b \in Range(t) <=> \E i \in 1 .. Len(t) : t[i] = b
      BY <1>7, Sides
    <3> QED BY <1>2, <3>1
  <2>2. ASSUME NEW b \in Range(s), b # s[p] PROVE b \in Range(t)
    <3>1. PICK j \in 1 .. n : s[j] = b
      BY <1>r
    <3>2. j # p
      BY <2>2, <3>1
    <3>3. CASE j < p
      <4>1. j \in 1 .. n - 1 /\ t[j] = b
        BY <1>o, <1>2, <3>1, <3>3
      <4> QED BY <2>1, <4>1
    <3>4. CASE j > p
      <4>1. j - 1 \in 1 .. n - 1 /\ ~(j - 1 < p) /\ (j - 1) + 1 = j
        BY <1>o, <3>4
      <4>2. t[j - 1] = b
        BY <1>2, <3>1, <4>1
      <4> QED BY <2>1, <4>1, <4>2
    <3> QED BY <1>o, <3>2, <3>3, <3>4
  <2>3. ASSUME NEW b \in Range(t) PROVE b \in Range(s) /\ b # s[p]
    <3>1. PICK i \in 1 .. n - 1 : t[i] = b
      BY <2>1, <2>3
    <3>2. Old(i) \in 1 .. n /\ Old(i) # p /\ b = s[Old(i)]
      BY <1>3, <3>1
    <3> QED BY <1>1, <1>i, <1>o, <3>2
  <2> QED BY <2>2, <2>3
<1> QED BY <1>2, <1>7, <1>8, <1>9, <1>10 DEF t, n, IsWithout

(* A block in the middle of a list or at its end goes to the front.        *)
Moving(s, nx, pv, nx2, pv2, p) ==
  /\ DList(s, nx, pv) /\ p \in 2 .. Len(s)
  /\ \A b \in Range(s) :
       nx2[b] = IF b = s[p] THEN s[1] ELSE IF b = s[p - 1] THEN nx[s[p]] ELSE nx[b]
  /\ \A b \in Range(s) :
       pv2[b] = IF b = s[p] THEN 0 ELSE IF b = s[1] THEN s[p]
                ELSE IF p < Len(s) /\ b = s[p + 1] THEN pv[s[p]] ELSE pv[b]

IsMoved(t, s, pv, nx2, pv2, p) ==
  /\ DList(t, nx2, pv2)
  /\ First(t) = s[p] /\ EndOf(t) = IF p = Len(s) THEN pv[s[p]] ELSE EndOf(s)
  /\ Range(t) = Range(s) /\ Len(t) = Len(s) /\ t[1] = s[p]
  /\ \A i \in 1 .. Len(s) - 1 : t[i + 1] = IF i < p THEN s[i] ELSE s[i + 1]

(* A list whose links go around the block at p and lead from it to the     *)
(* first one has it in front.                                              *)
LEMMA ToFront ==
  ASSUME NEW s, NEW nx, NEW pv, NEW nx2, NEW pv2, NEW p, Moving(s, nx, pv, nx2, pv2, p)
  PROVE  IsMoved(Headed(s[p], Without(s, p)), s, pv, nx2, pv2, p)
<1> DEFINE r == Without(s, p)
           a == s[p]
           nx1 == [b \in Addr |-> IF b = s[p - 1] THEN nx[a] ELSE nx[b]]
           pv1 == [b \in Addr |-> IF p < Len(s) /\ b = s[p + 1] THEN pv[a] ELSE pv[b]]
<1>0. DList(s, nx, pv) /\ p \in 2 .. Len(s)
  BY DEF Moving
<1>a. \A b \in Range(s) :
        nx2[b] = IF b = a THEN s[1] ELSE IF b = s[p - 1] THEN nx[a] ELSE nx[b]
  BY DEF Moving
<1>b. \A b \in Range(s) :
        pv2[b] = IF b = a THEN 0 ELSE IF b = s[1] THEN a
                 ELSE IF p < Len(s) /\ b = s[p + 1] THEN pv[a] ELSE pv[b]
  BY DEF Moving
<1>r. \A b : b \in Range(s) <=> \E i \in 1 .. Len(s) : s[i] = b
  BY <1>0, Sides
<1>1. /\ s \in Seq(Addr) /\ Len(s) \in Nat
      /\ \A i \in 1 .. Len(s) : s[i] \in Addr /\ s[i] \in Range(s)
      /\ First(s) = s[1] /\ Range(s) \subseteq Addr
      /\ p \in Int /\ p \in 1 .. Len(s) /\ p - 1 \in 1 .. Len(s) /\ 1 \in 1 .. Len(s)
  BY <1>0, <1>r, Sides
<1>i. \A i, j \in 1 .. Len(s) : s[i] = s[j] => i = j
  BY <1>0, Sides
<1>2. a \in Addr /\ a # s[1] /\ a # s[p - 1] /\ s[1] \in Addr /\ s[p - 1] \in Addr
      /\ p # 1
  BY <1>0, <1>1, <1>i
<1>3. \A b \in Addr : /\ nx1[b] = IF b = s[p - 1] THEN nx[a] ELSE nx[b]
                      /\ pv1[b] = IF p < Len(s) /\ b = s[p + 1] THEN pv[a] ELSE pv[b]
  OBVIOUS
<1> HIDE DEF nx1, pv1
<1>4. IsWithout(r, s, nx, pv, nx1, pv1, p)
  <2>1. \A b \in Range(s) : b # s[p] =>
           nx1[b] = IF p > 1 /\ b = s[p - 1] THEN nx[s[p]] ELSE nx[b]
    BY <1>0, <1>1, <1>3
  <2>2. \A b \in Range(s) : b # s[p] =>
           pv1[b] = IF p < Len(s) /\ b = s[p + 1] THEN pv[s[p]] ELSE pv[b]
    BY <1>1, <1>3
  <2>3. Removing(s, nx, pv, nx1, pv1, p)
    BY <1>0, <1>1, <2>1, <2>2 DEF Removing
  <2> QED BY <2>3, Removed
<1> HIDE DEF r, a
<1>5. /\ DList(r, nx1, pv1) /\ First(r) = First(s)
      /\ EndOf(r) = IF p = Len(s) THEN pv[a] ELSE EndOf(s)
      /\ Range(r) = Range(s) \ {a} /\ Len(r) = Len(s) - 1
      /\ \A i \in 1 .. Len(s) - 1 : r[i] = IF i < p THEN s[i] ELSE s[i + 1]
  BY <1>2, <1>4 DEF IsWithout, a
<1>6. r # <<>> /\ r[1] = s[1] /\ First(r) = s[1]
  <2>1. Len(r) >= 1 /\ 1 \in 1 .. Len(s) - 1 /\ 1 < p
    BY <1>0, <1>1, <1>5
  <2> QED BY <1>1, <1>5, <2>1
<1>7. Pushing(r, nx1, pv1, nx2, pv2, a)
  <2>1. a \in Range(s) /\ Range(r) \subseteq Range(s) /\ s[1] \in Range(s) /\ a \notin Range(r)
    BY <1>1, <1>5 DEF a
  <2>2. nx2[a] = s[1] /\ pv2[a] = 0 /\ pv2[s[1]] = a
    BY <1>2, <1>a, <1>b, <2>1
  <2>3. \A b \in Range(r) : nx2[b] = nx1[b]
    BY <1>1, <1>3, <1>a, <2>1
  <2>4. \A b \in Range(r) : b # s[1] => pv2[b] = pv1[b]
    BY <1>1, <1>3, <1>b, <2>1
  <2> QED BY <1>2, <1>5, <1>6, <2>1, <2>2, <2>3, <2>4 DEF Pushing
<1> DEFINE t == Headed(a, r)
<1>8. HasFront(t, r, nx2, pv2, a)
  BY <1>7, Pushed
<1> HIDE DEF t
<1>9. /\ DList(t, nx2, pv2) /\ First(t) = a /\ EndOf(t) = EndOf(r)
      /\ Range(t) = Range(r) \cup {a} /\ Len(t) = Len(r) + 1 /\ t[1] = a
      /\ \A i \in 1 .. Len(r) : t[i + 1] = r[i]
  BY <1>6, <1>8 DEF HasFront
<1>10. Range(t) = Range(s) /\ Len(t) = Len(s)
  <2>1. a \in Range(s)
    BY <1>1 DEF a
  <2> QED BY <1>1, <1>5, <1>9, <2>1
<1>11. \A i \in 1 .. Len(s) - 1 : t[i + 1] = IF i < p THEN s[i] ELSE s[i + 1]
  BY <1>5, <1>9
<1>12. IsMoved(t, s, pv, nx2, pv2, p)
  BY <1>5, <1>9, <1>10, <1>11 DEF IsMoved, a
<1> QED BY <1>12 DEF t, a, r

-----------------------------------------------------------------------------
Fields == HeadFields \cup BlockFields \cup {"blockAddr", "listCount"}

(* The fields of the head, the blocks and the buckets are different ones.  *)
LEMMA FieldNames ==
  /\ BlockFields = {"setNext", "setPrev", "getNext", "getPrev", "blockNext", "blockPrev",
                    "nextChunk", "index", "len", "dirty", "onlyKey", "key", "val"}
  /\ HeadFields \cap BlockFields = {}
  /\ \A f \in {"blockAddr", "listCount"} : f \notin HeadFields \cup BlockFields
BY DEF BlockFields, HeadFields, ZeroBlock

Stores(m, n, f, a, v) ==
  /\ Shape(m) /\ f \in Fields /\ a \in DOMAIN m[f] /\ Shape(n)
  /\ n[f] = [m[f] EXCEPT ![a] = v]
  /\ \A g \in Fields \ {f} : n[g] = m[g]

(* Nothing changes but in fields F of blocks R, and in head fields F.      *)
Touches(m, n, F, R) ==
  /\ Shape(n)
  /\ \A g \in Fields \ F : n[g] = m[g]
  /\ \A g \in F \cap BlockFields : \A b \in Addr \ R : n[g][b] = m[g][b]

(* What is as it was has changed in no field and no block.                 *)
LEMMA TouchesNothing ==
  ASSUME NEW m, Shape(m), NEW F, NEW R
  PROVE  Touches(m, m, F, R)
BY DEF Touches

(* A change in some fields and blocks is one in more of them.              *)
LEMMA TouchesMore ==
  ASSUME NEW m, NEW n, NEW F, NEW R, NEW F2, NEW R2, Touches(m, n, F, R),
         F \subseteq F2, R \subseteq R2
  PROVE  Touches(m, n, F2, R2)
<1>1. \A g \in F2 \cap BlockFields : \A b \in Addr \ R2 : n[g][b] = m[g][b]
  <2> SUFFICES ASSUME NEW g \in F2 \cap BlockFields, NEW b \in Addr \ R2
               PROVE  n[g][b] = m[g][b]
    OBVIOUS
  <2>1. CASE g \in F
    BY <2>1 DEF Touches
  <2>2. CASE g \notin F
    BY <2>2 DEF Touches, Fields
  <2> QED BY <2>1, <2>2
<1> QED BY <1>1 DEF Touches

(* Two changes in the same fields and blocks are one.                      *)
LEMMA TouchesBoth ==
  ASSUME NEW m, NEW n, NEW o, NEW F, NEW R, Touches(m, n, F, R), Touches(n, o, F, R)
  PROVE  Touches(m, o, F, R)
BY DEF Touches

(* A store changes one field, and in it one block.                         *)
LEMMA StoreTouches ==
  ASSUME NEW m, NEW n, NEW f, NEW a, NEW v, NEW F, NEW R, Stores(m, n, f, a, v),
         f \in F, f \in BlockFields => a \in R
  PROVE  Touches(m, n, F, R)
<1>1. \A g \in F \cap BlockFields : \A b \in Addr \ R : n[g][b] = m[g][b]
  BY DEF Stores, Shape, Fields
<1> QED BY <1>1 DEF Stores, Touches

(* An entry of the log stores its value at its place.                      *)
LEMMA PutStores ==
  ASSUME NEW m, Shape(m), NEW f \in Fields, NEW a \in DOMAIN m[f], NEW v
  PROVE  \E n : Makes(Put(f, a, v), m, n) /\ Stores(m, n, f, a, v)
<1> DEFINE n == One(m, <<f, a, v>>)
<1>1. Makes(Put(f, a, v), m, n)
  BY LogOfOne DEF Put
<1>2. n = [m EXCEPT ![f] = [m[f] EXCEPT ![a] = v]]
  BY DEF One
<1>3. DOMAIN m = Fields
  BY DEF Shape, Fields
<1> HIDE DEF n
<1>4. /\ DOMAIN n = Fields /\ n[f] = [m[f] EXCEPT ![a] = v]
      /\ \A g \in Fields \ {f} : n[g] = m[g]
  BY <1>2, <1>3
<1>5. \A g \in Fields : DOMAIN n[g] = DOMAIN m[g]
  BY <1>4
<1>6. Shape(n)
  BY <1>4, <1>5 DEF Shape, Fields
<1> QED BY <1>1, <1>4, <1>6 DEF Stores

(* A store, place by place.                                                *)
LEMMA StoredAt ==
  ASSUME NEW m, NEW n, NEW f, NEW a, NEW v, Stores(m, n, f, a, v)
  PROVE  /\ Shape(n)
         /\ \A g \in Fields : DOMAIN n[g] = DOMAIN m[g]
         /\ \A g \in Fields : g # f => n[g] = m[g]
         /\ n[f][a] = v
         /\ \A b \in DOMAIN m[f] : b # a => n[f][b] = m[f][b]
BY DEF Stores

-----------------------------------------------------------------------------
(***************************************************************************)
(* The transactions of Block, each as the change of the lists, the chains  *)
(* of the buckets, the cursors and the counts that it makes.               *)
(***************************************************************************)

(* Where the fields of the memory have their values.                       *)
LEMMA ShapeOf ==
  ASSUME NEW m, Shape(m)
  PROVE  /\ \A f \in HeadFields : f \in Fields /\ DOMAIN m[f] = {0}
         /\ \A f \in BlockFields : f \in Fields /\ DOMAIN m[f] = Addr
         /\ "blockAddr" \in Fields /\ DOMAIN m["blockAddr"] = Index
         /\ "listCount" \in Fields /\ DOMAIN m["listCount"] = Index
BY DEF Shape, Fields

ListFields(h, t, nx, pv) ==
  /\ h \in HeadFields /\ t \in HeadFields /\ h # t
  /\ nx \in BlockFields /\ pv \in BlockFields /\ nx # pv

(* The fields of a list are four.                                          *)
LEMMA FieldsDiffer ==
  ASSUME NEW h, NEW t, NEW nx, NEW pv, ListFields(h, t, nx, pv)
  PROVE  /\ h # nx /\ h # pv /\ t # nx /\ t # pv /\ h # t /\ nx # pv
         /\ h \in HeadFields /\ t \in HeadFields /\ nx \in BlockFields /\ pv \in BlockFields
BY FieldNames DEF ListFields

Agree(m, n, F) == \A f \in F : n[f] = m[f]

(* Two entries store one after the other.                                  *)
LEMMA TwoPuts ==
  ASSUME NEW n, Shape(n),
         NEW f1 \in Fields, NEW a1 \in DOMAIN n[f1], NEW w1,
         NEW f2 \in Fields, NEW a2 \in DOMAIN n[f2], NEW w2
  PROVE  \E x, o : /\ Makes(Put(f1, a1, w1) \o Put(f2, a2, w2), n, o)
                   /\ Stores(n, x, f1, a1, w1) /\ Stores(x, o, f2, a2, w2)
                   /\ Shape(x) /\ Shape(o)
                   /\ a2 \in DOMAIN x[f2]
<1>1. PICK x : Makes(Put(f1, a1, w1), n, x) /\ Stores(n, x, f1, a1, w1)
  BY PutStores
<1>2. Shape(x) /\ a2 \in DOMAIN x[f2]
  BY <1>1, StoredAt
<1>3. PICK o : Makes(Put(f2, a2, w2), x, o) /\ Stores(x, o, f2, a2, w2)
  BY <1>2, PutStores
<1>4. Shape(o)
  BY <1>3 DEF Stores
<1>5. Makes(Put(f1, a1, w1) \o Put(f2, a2, w2), n, o)
  BY <1>1, <1>3, LogOfTwo
<1> QED BY <1>1, <1>2, <1>3, <1>4, <1>5

(* Two stores in the same fields and blocks change no other.               *)
LEMMA TwoTouch ==
  ASSUME NEW n, NEW F, NEW R,
         NEW f1 \in F, NEW a1, NEW w1, f1 \in BlockFields => a1 \in R,
         NEW f2 \in F, NEW a2, NEW w2, f2 \in BlockFields => a2 \in R,
         NEW x, NEW o, Stores(n, x, f1, a1, w1), Stores(x, o, f2, a2, w2)
  PROVE  Touches(n, o, F, R)
<1>2. Touches(n, x, F, R)
  BY StoreTouches
<1>3. Touches(x, o, F, R)
  BY StoreTouches
<1> QED BY <1>2, <1>3, TouchesBoth

(* The same, in one predicate of the log and both entries.                *)
PutTwice(l, n, f1, a1, w1, f2, a2, w2) ==
  \E x, o : /\ Makes(l, n, o)
            /\ Stores(n, x, f1, a1, w1) /\ Stores(x, o, f2, a2, w2)
            /\ Shape(x) /\ Shape(o) /\ a2 \in DOMAIN x[f2]

LEMMA TwoPutsMake ==
  ASSUME NEW n, Shape(n),
         NEW f1 \in Fields, NEW a1 \in DOMAIN n[f1], NEW w1,
         NEW f2 \in Fields, NEW a2 \in DOMAIN n[f2], NEW w2
  PROVE  PutTwice(Put(f1, a1, w1) \o Put(f2, a2, w2), n, f1, a1, w1, f2, a2, w2)
BY TwoPuts DEF PutTwice

(* Unlisted, the part of Block::erase about one of the two lists, leaves   *)
(* the list without the block, whether it was the first, the last, both or *)
(* neither.                                                                *)
LEMMA UnlistedMakes ==
  ASSUME NEW n, Shape(n), NEW h, NEW t, NEW nx, NEW pv, ListFields(h, t, nx, pv),
         NEW s, Shape(mem), Spot(mem, s, h, t, nx, pv), Agree(mem, n, {h, t, nx, pv}),
         NEW p \in 1 .. Len(s)
  PROVE  \E o : /\ Makes(Unlisted(s[p], h, t, nx, pv), n, o)
                /\ Touches(n, o, {h, t, nx, pv}, Range(s))
                /\ Spot(o, Without(s, p), h, t, nx, pv)
<1> DEFINE a == s[p]
           l == Unlisted(a, h, t, nx, pv)
           F == {h, t, nx, pv}
           After(o) == /\ Makes(l, n, o) /\ Touches(n, o, F, Range(s))
                       /\ \A b \in Addr : o[nx][b] = IF p > 1 /\ b = s[p - 1] THEN mem[nx][a]
                                                     ELSE mem[nx][b]
                       /\ \A b \in Addr : o[pv][b] = IF p < Len(s) /\ b = s[p + 1] THEN mem[pv][a]
                                                     ELSE mem[pv][b]
                       /\ o[h][0] = IF p = 1 THEN mem[nx][a] ELSE mem[h][0]
                       /\ o[t][0] = IF p = Len(s) THEN mem[pv][a] ELSE mem[t][0]
<1>1. /\ h # nx /\ h # pv /\ t # nx /\ t # pv /\ h # t /\ nx # pv
      /\ h \in Fields /\ t \in Fields /\ nx \in Fields /\ pv \in Fields
      /\ h \notin BlockFields /\ t \notin BlockFields
      /\ F \subseteq Fields
  BY FieldsDiffer, FieldNames DEF Fields
<1>2. /\ DOMAIN n[h] = {0} /\ DOMAIN n[t] = {0} /\ DOMAIN n[nx] = Addr /\ DOMAIN n[pv] = Addr
  BY FieldsDiffer, ShapeOf
<1>3. n[h] = mem[h] /\ n[t] = mem[t] /\ n[nx] = mem[nx] /\ n[pv] = mem[pv]
  BY DEF Agree
<1>4. DList(s, mem[nx], mem[pv]) /\ mem[h][0] = First(s) /\ mem[t][0] = EndOf(s)
  BY DEF Spot
<1>5. /\ Len(s) \in Nat /\ p \in 1 .. Len(s) /\ p \in Int
      /\ \A i \in 1 .. Len(s) : s[i] \in Addr /\ s[i] \in Range(s)
      /\ \A i, j \in 1 .. Len(s) : s[i] = s[j] => i = j
      /\ mem[nx][a] = IF p = Len(s) THEN 0 ELSE s[p + 1]
      /\ mem[pv][a] = IF p = 1 THEN 0 ELSE s[p - 1]
      /\ mem[h][0] = s[1] /\ mem[t][0] = s[Len(s)]
      /\ 1 \in 1 .. Len(s) /\ Len(s) \in 1 .. Len(s)
  BY <1>4, Sides
<1>6. 0 \notin Addr
  BY HashMapAssumption
<1>7. /\ mem[h][0] # a <=> p # 1
      /\ mem[t][0] = a <=> p = Len(s)
      /\ p # 1 => p - 1 \in 1 .. Len(s)
      /\ p # Len(s) => p + 1 \in 1 .. Len(s)
  BY <1>5
<1> HIDE DEF a, F
<1>a. ASSUME p # 1 /\ p = Len(s) PROVE \E o : After(o)
  <2>1. l = Put(t, 0, mem[pv][a]) \o Put(nx, mem[pv][a], 0)
    BY <1>7, <1>a DEF Unlisted
  <2>2. mem[pv][a] = s[p - 1] /\ s[p - 1] \in Addr /\ s[p - 1] \in Range(s) /\ mem[nx][a] = 0
        /\ p > 1 /\ ~(p < Len(s))
    BY <1>5, <1>7, <1>a
  <2>3. PICK x, o : /\ Makes(l, n, o) /\ Stores(n, x, t, 0, mem[pv][a])
                    /\ Stores(x, o, nx, mem[pv][a], 0)
                    /\ Shape(x) /\ Shape(o) /\ mem[pv][a] \in DOMAIN x[nx]
    <3>1. /\ t \in Fields /\ 0 \in DOMAIN n[t]
          /\ nx \in Fields /\ mem[pv][a] \in DOMAIN n[nx]
      BY <1>1, <1>2, <2>2
    <3>2. PutTwice(Put(t, 0, mem[pv][a]) \o Put(nx, mem[pv][a], 0), n,
                   t, 0, mem[pv][a], nx, mem[pv][a], 0)
      BY ONLY Shape(n), <3>1, TwoPutsMake
    <3> HIDE DEF l
    <3> QED BY ONLY <2>1, <3>2 DEF PutTwice
  <2>4. Touches(n, o, F, Range(s))
    BY <1>1, <2>2, <2>3, TwoTouch DEF F
  <2>5. /\ \A g \in Fields : DOMAIN x[g] = DOMAIN n[g]
        /\ \A g \in Fields : g # t => x[g] = n[g]
        /\ x[t][0] = mem[pv][a]
    BY <1>1, <1>2, <2>3, StoredAt
  <2>6. /\ \A g \in Fields : g # nx => o[g] = x[g]
        /\ o[nx][mem[pv][a]] = 0
        /\ \A b \in DOMAIN x[nx] : b # mem[pv][a] => o[nx][b] = x[nx][b]
    BY <1>1, <2>3, StoredAt
  <2>7. After(o)
    BY <1>1, <1>2, <1>3, <1>a, <2>2, <2>3, <2>4, <2>5, <2>6
  <2> QED BY <2>7
<1>b. ASSUME p # 1 /\ p # Len(s) PROVE \E o : After(o)
  <2>1. l = Put(nx, mem[pv][a], mem[nx][a]) \o Put(pv, mem[nx][a], mem[pv][a])
    BY <1>7, <1>b DEF Unlisted
  <2>2. mem[pv][a] = s[p - 1] /\ s[p - 1] \in Addr /\ s[p - 1] \in Range(s)
        /\ mem[nx][a] = s[p + 1] /\ s[p + 1] \in Addr /\ s[p + 1] \in Range(s)
        /\ p > 1 /\ p < Len(s)
    BY <1>5, <1>7, <1>b
  <2>3. PICK x, o : /\ Makes(l, n, o) /\ Stores(n, x, nx, mem[pv][a], mem[nx][a])
                    /\ Stores(x, o, pv, mem[nx][a], mem[pv][a])
                    /\ Shape(x) /\ Shape(o) /\ mem[nx][a] \in DOMAIN x[pv]
    <3>1. /\ nx \in Fields /\ mem[pv][a] \in DOMAIN n[nx]
          /\ pv \in Fields /\ mem[nx][a] \in DOMAIN n[pv]
      BY <1>1, <1>2, <2>2
    <3>2. PutTwice(Put(nx, mem[pv][a], mem[nx][a]) \o Put(pv, mem[nx][a], mem[pv][a]), n,
                   nx, mem[pv][a], mem[nx][a], pv, mem[nx][a], mem[pv][a])
      BY ONLY Shape(n), <3>1, TwoPutsMake
    <3> HIDE DEF l
    <3> QED BY ONLY <2>1, <3>2 DEF PutTwice
  <2>4. Touches(n, o, F, Range(s))
    BY <1>1, <2>2, <2>3, TwoTouch DEF F
  <2>5. /\ \A g \in Fields : DOMAIN x[g] = DOMAIN n[g]
        /\ \A g \in Fields : g # nx => x[g] = n[g]
        /\ x[nx][mem[pv][a]] = mem[nx][a]
        /\ \A b \in DOMAIN n[nx] : b # mem[pv][a] => x[nx][b] = n[nx][b]
    BY <1>1, <1>2, <2>2, <2>3, StoredAt
  <2>6. /\ \A g \in Fields : g # pv => o[g] = x[g]
        /\ o[pv][mem[nx][a]] = mem[pv][a]
        /\ \A b \in DOMAIN x[pv] : b # mem[nx][a] => o[pv][b] = x[pv][b]
    BY <1>1, <2>3, StoredAt
  <2>7. After(o)
    BY <1>1, <1>2, <1>3, <1>b, <2>2, <2>3, <2>4, <2>5, <2>6
  <2> QED BY <2>7
<1>c. ASSUME p = 1 /\ p = Len(s) PROVE \E o : After(o)
  <2>1. l = Put(h, 0, 0) \o Put(t, 0, 0)
    BY <1>7, <1>c DEF Unlisted
  <2>2. mem[pv][a] = 0 /\ mem[nx][a] = 0 /\ ~(p > 1) /\ ~(p < Len(s))
    BY <1>5, <1>7, <1>c
  <2>3. PICK x, o : /\ Makes(l, n, o) /\ Stores(n, x, h, 0, 0)
                    /\ Stores(x, o, t, 0, 0)
                    /\ Shape(x) /\ Shape(o) /\ 0 \in DOMAIN x[t]
    <3>1. /\ h \in Fields /\ 0 \in DOMAIN n[h]
          /\ t \in Fields /\ 0 \in DOMAIN n[t]
      BY <1>1, <1>2, <2>2
    <3>2. PutTwice(Put(h, 0, 0) \o Put(t, 0, 0), n,
                   h, 0, 0, t, 0, 0)
      BY ONLY Shape(n), <3>1, TwoPutsMake
    <3> HIDE DEF l
    <3> QED BY ONLY <2>1, <3>2 DEF PutTwice
  <2>4. Touches(n, o, F, Range(s))
    BY <1>1, <2>2, <2>3, TwoTouch DEF F
  <2>5. /\ \A g \in Fields : DOMAIN x[g] = DOMAIN n[g]
        /\ \A g \in Fields : g # h => x[g] = n[g]
        /\ x[h][0] = 0
    BY <1>1, <1>2, <2>3, StoredAt
  <2>6. /\ \A g \in Fields : g # t => o[g] = x[g]
        /\ o[t][0] = 0
    BY <1>1, <2>3, StoredAt
  <2>7. After(o)
    BY <1>1, <1>2, <1>3, <1>c, <2>2, <2>3, <2>4, <2>5, <2>6
  <2> QED BY <2>7
<1>d. ASSUME p = 1 /\ p # Len(s) PROVE \E o : After(o)
  <2>1. l = Put(h, 0, mem[nx][a]) \o Put(pv, mem[nx][a], 0)
    BY <1>7, <1>d DEF Unlisted
  <2>2. mem[pv][a] = 0 /\ ~(p > 1) /\ p < Len(s)
        /\ mem[nx][a] = s[p + 1] /\ s[p + 1] \in Addr /\ s[p + 1] \in Range(s)
    BY <1>5, <1>7, <1>d
  <2>3. PICK x, o : /\ Makes(l, n, o) /\ Stores(n, x, h, 0, mem[nx][a])
                    /\ Stores(x, o, pv, mem[nx][a], 0)
                    /\ Shape(x) /\ Shape(o) /\ mem[nx][a] \in DOMAIN x[pv]
    <3> HIDE DEF l
    <3>1. 0 \in DOMAIN n[h] /\ mem[nx][a] \in DOMAIN n[pv] /\ h \in Fields /\ pv \in Fields
      BY <1>1, <1>2, <2>2
    <3> QED BY <2>1, <3>1, TwoPuts
  <2>4. Touches(n, o, F, Range(s))
    BY <1>1, <2>2, <2>3, TwoTouch DEF F
  <2>5. /\ \A g \in Fields : DOMAIN x[g] = DOMAIN n[g]
        /\ \A g \in Fields : g # h => x[g] = n[g]
        /\ x[h][0] = mem[nx][a]
    BY <1>1, <1>2, <2>3, StoredAt
  <2>6. /\ \A g \in Fields : g # pv => o[g] = x[g]
        /\ o[pv][mem[nx][a]] = 0
        /\ \A b \in DOMAIN x[pv] : b # mem[nx][a] => o[pv][b] = x[pv][b]
    BY <1>1, <2>3, StoredAt
  <2>7. After(o)
    BY <1>1, <1>2, <1>3, <1>d, <2>2, <2>3, <2>4, <2>5, <2>6
  <2> QED BY <2>7
<1>8. PICK o : After(o)
  BY <1>a, <1>b, <1>c, <1>d
<1>9. Removing(s, mem[nx], mem[pv], o[nx], o[pv], p)
  <2>1. \A b \in Range(s) : b \in Addr
    BY <1>4, Sides
  <2> QED BY <1>4, <1>5, <1>8, <2>1 DEF Removing, a
<1>10. IsWithout(Without(s, p), s, mem[nx], mem[pv], o[nx], o[pv], p)
  BY <1>9, Removed
<1>11. Spot(o, Without(s, p), h, t, nx, pv)
  BY <1>4, <1>8, <1>10 DEF Spot, IsWithout, a
<1> QED BY <1>8, <1>11 DEF a, F

(* An entry behind a log stores its value in what the log made.            *)
LEMMA PutAfter ==
  ASSUME NEW l, NEW n, NEW x, Makes(l, n, x), Shape(x), NEW f \in Fields, NEW a \in DOMAIN x[f],
         NEW v
  PROVE  \E o : Makes(l \o Put(f, a, v), n, o) /\ Stores(x, o, f, a, v)
<1>1. PICK o : Makes(Put(f, a, v), x, o) /\ Stores(x, o, f, a, v)
  BY PutStores
<1>2. Makes(l \o Put(f, a, v), n, o)
  BY <1>1, LogOfTwo
<1> QED BY <1>1, <1>2

(* The same of a store into a head field and into a block.                 *)
LEMMA HeadPut ==
  ASSUME NEW l, NEW n, NEW x, Makes(l, n, x), Shape(x), NEW f \in HeadFields, NEW v,
         NEW F, NEW R, f \in F, Touches(n, x, F, R)
  PROVE  \E o : /\ Makes(l \o Put(f, 0, v), n, o) /\ Shape(o) /\ Touches(n, o, F, R)
                /\ \A g \in Fields : g # f => o[g] = x[g]
                /\ o[f][0] = v
<1>1. f \in Fields /\ 0 \in DOMAIN x[f] /\ f \notin BlockFields
  BY ShapeOf, FieldNames
<1>2. PICK o : Makes(l \o Put(f, 0, v), n, o) /\ Stores(x, o, f, 0, v)
  BY <1>1, PutAfter
<1>3. Touches(x, o, F, R)
  BY <1>1, <1>2, StoreTouches
<1>4. Touches(n, o, F, R)
  BY <1>3, TouchesBoth
<1> QED BY <1>2, <1>4, StoredAt

(* An entry for a block, behind a log: what it changes and what it leaves. *)
LEMMA BlockPut ==
  ASSUME NEW l, NEW n, NEW x, Makes(l, n, x), Shape(x), NEW f \in BlockFields, NEW a \in Addr,
         NEW v, NEW F, NEW R, f \in F, a \in R, Touches(n, x, F, R)
  PROVE  \E o : /\ Makes(l \o Put(f, a, v), n, o) /\ Shape(o) /\ Touches(n, o, F, R)
                /\ \A g \in Fields : g # f => o[g] = x[g]
                /\ \A b \in Addr : o[f][b] = IF b = a THEN v ELSE x[f][b]
<1>1. f \in Fields /\ DOMAIN x[f] = Addr
  BY ShapeOf
<1>2. PICK o : Makes(l \o Put(f, a, v), n, o) /\ Stores(x, o, f, a, v)
  BY <1>1, PutAfter
<1>3. Touches(x, o, F, R)
  BY <1>2, StoreTouches
<1>4. Touches(n, o, F, R)
  BY <1>3, TouchesBoth
<1>5. /\ Shape(o)
      /\ \A g \in Fields : g # f => o[g] = x[g]
      /\ o[f][a] = v
      /\ \A b \in DOMAIN x[f] : b # a => o[f][b] = x[f][b]
  BY <1>2, StoredAt
<1>6. \A b \in Addr : o[f][b] = IF b = a THEN v ELSE x[f][b]
  BY <1>1, <1>5
<1> QED BY <1>2, <1>4, <1>5, <1>6

(* An entry for a block with no log before it.                             *)
LEMMA FirstBlockPut ==
  ASSUME NEW n, Shape(n), NEW f \in BlockFields, NEW a \in Addr, NEW v, NEW F, NEW R,
         f \in F, a \in R, Touches(n, n, F, R)
  PROVE  \E o : /\ Makes(Put(f, a, v), n, o) /\ Shape(o) /\ Touches(n, o, F, R)
                /\ \A g \in Fields : g # f => o[g] = n[g]
                /\ \A b \in Addr : o[f][b] = IF b = a THEN v ELSE n[f][b]
<1>1. f \in Fields /\ DOMAIN n[f] = Addr
  BY ShapeOf
<1>2. PICK o : Makes(Put(f, a, v), n, o) /\ Stores(n, o, f, a, v)
  BY <1>1, PutStores
<1>3. Touches(n, o, F, R)
  BY <1>2, StoreTouches
<1>5. /\ Shape(o)
      /\ \A g \in Fields : g # f => o[g] = n[g]
      /\ o[f][a] = v
      /\ \A b \in DOMAIN n[f] : b # a => o[f][b] = n[f][b]
  BY <1>2, StoredAt
<1>6. \A b \in Addr : o[f][b] = IF b = a THEN v ELSE n[f][b]
  BY <1>1, <1>5
<1> QED BY <1>2, <1>3, <1>5, <1>6

(* An entry for the head with no log before it.                            *)
LEMMA FirstHeadPut ==
  ASSUME NEW n, Shape(n), NEW f \in HeadFields, NEW v, NEW F, NEW R, f \in F,
         Touches(n, n, F, R)
  PROVE  \E o : /\ Makes(Put(f, 0, v), n, o) /\ Shape(o) /\ Touches(n, o, F, R)
                /\ \A g \in Fields : g # f => o[g] = n[g]
                /\ o[f][0] = v
<1>1. f \in Fields /\ 0 \in DOMAIN n[f] /\ f \notin BlockFields
  BY ShapeOf, FieldNames
<1>2. PICK o : Makes(Put(f, 0, v), n, o) /\ Stores(n, o, f, 0, v)
  BY <1>1, PutStores
<1>3. Touches(n, o, F, R)
  BY <1>1, <1>2, StoreTouches
<1> QED BY <1>2, <1>3, StoredAt

(* Listed, the part of makeNew about one of the two lists, puts the block  *)
(* in front, whether the list was empty or not.                            *)
LEMMA ListedMakes ==
  ASSUME NEW n, Shape(n), NEW h, NEW t, NEW nx, NEW pv, ListFields(h, t, nx, pv),
         NEW s, Spot(mem, s, h, t, nx, pv), Agree(mem, n, {h, t, nx, pv}),
         NEW a \in Addr, a \notin Range(s), mem[nx][a] = 0, mem[pv][a] = 0
  PROVE  \E o : /\ Makes(Listed(a, h, t, nx, pv), n, o)
                /\ Touches(n, o, {h, t, nx, pv}, Range(s) \cup {a})
                /\ Spot(o, Headed(a, s), h, t, nx, pv)
<1> DEFINE F == {h, t, nx, pv}
           l == Listed(a, h, t, nx, pv)
           R == Range(s) \cup {a}
           After(o) == /\ Makes(l, n, o) /\ Touches(n, o, F, R)
                       /\ \A b \in Addr : o[nx][b] = IF b = a THEN First(s) ELSE mem[nx][b]
                       /\ \A b \in Addr : o[pv][b] = IF s # <<>> /\ b = s[1] THEN a ELSE mem[pv][b]
                       /\ o[h][0] = a
                       /\ o[t][0] = IF s = <<>> THEN a ELSE EndOf(s)
<1>1. /\ h # nx /\ h # pv /\ t # nx /\ t # pv /\ h # t /\ nx # pv
      /\ h \in HeadFields /\ t \in HeadFields /\ nx \in BlockFields /\ pv \in BlockFields
  BY FieldsDiffer
<1>2. h \in Fields /\ t \in Fields /\ nx \in Fields /\ pv \in Fields
      /\ h \in F /\ t \in F /\ nx \in F /\ pv \in F
  BY <1>1 DEF Fields
<1>3. n[h] = mem[h] /\ n[t] = mem[t] /\ n[nx] = mem[nx] /\ n[pv] = mem[pv]
  BY DEF Agree
<1>4. DList(s, mem[nx], mem[pv]) /\ mem[h][0] = First(s) /\ mem[t][0] = EndOf(s)
  BY DEF Spot
<1>5. 0 \notin Addr /\ a \in R /\ a \notin Range(s)
  BY HashMapAssumption
<1>6. /\ s # <<>> => s[1] \in Addr /\ s[1] \in R /\ First(s) = s[1] /\ s[1] # a
      /\ s = <<>> => First(s) = 0
      /\ Range(s) \subseteq Addr
  <2>1. /\ Range(s) \subseteq Addr
        /\ \A b : b \in Range(s) <=> \E i \in 1 .. Len(s) : s[i] = b
        /\ First(s) = IF Len(s) = 0 THEN 0 ELSE s[1]
        /\ s \in Seq(Addr) /\ Len(s) \in Nat
    BY <1>4, Sides
  <2>2. s # <<>> => 1 \in 1 .. Len(s)
    BY <2>1
  <2> QED BY <1>5, <2>1, <2>2 DEF First
<1> HIDE DEF F, R, l
<1>t. Touches(n, n, F, R)
  BY TouchesNothing
<1>a. ASSUME s = <<>> PROVE \E o : After(o)
  <2>1. l = Put(h, 0, a) \o Put(t, 0, a)
    BY <1>4, <1>6, <1>a DEF Listed, l
  <2>2. PICK x : /\ Makes(Put(h, 0, a), n, x) /\ Shape(x) /\ Touches(n, x, F, R)
                 /\ \A g \in Fields : g # h => x[g] = n[g]
                 /\ x[h][0] = a
    BY <1>1, <1>2, <1>t, FirstHeadPut
  <2>3. PICK o : /\ Makes(Put(h, 0, a) \o Put(t, 0, a), n, o) /\ Shape(o) /\ Touches(n, o, F, R)
                 /\ \A g \in Fields : g # t => o[g] = x[g]
                 /\ o[t][0] = a
    BY <1>1, <1>2, <2>2, HeadPut
  <2>4. o[nx] = mem[nx] /\ o[pv] = mem[pv] /\ o[h][0] = a
    BY <1>1, <1>2, <1>3, <2>2, <2>3
  <2>5. After(o)
    BY <1>6, <1>a, <2>1, <2>3, <2>4
  <2> QED BY <2>5
<1>b. ASSUME s # <<>> PROVE \E o : After(o)
  <2>0. mem[h][0] = s[1] /\ s[1] \in Addr /\ s[1] \in R /\ s[1] # 0
    BY <1>4, <1>5, <1>6, <1>b
  <2>1. l = Put(nx, a, s[1]) \o Put(pv, s[1], a) \o Put(h, 0, a)
    BY <2>0 DEF Listed, l
  <2>2. PICK x : /\ Makes(Put(nx, a, s[1]), n, x) /\ Shape(x) /\ Touches(n, x, F, R)
                 /\ \A g \in Fields : g # nx => x[g] = n[g]
                 /\ \A b \in Addr : x[nx][b] = IF b = a THEN s[1] ELSE n[nx][b]
    BY <1>1, <1>2, <1>5, <1>t, FirstBlockPut
  <2>3. PICK y : /\ Makes(Put(nx, a, s[1]) \o Put(pv, s[1], a), n, y) /\ Shape(y)
                 /\ Touches(n, y, F, R)
                 /\ \A g \in Fields : g # pv => y[g] = x[g]
                 /\ \A b \in Addr : y[pv][b] = IF b = s[1] THEN a ELSE x[pv][b]
    BY <1>1, <1>2, <2>0, <2>2, BlockPut
  <2>4. PICK o : /\ Makes(Put(nx, a, s[1]) \o Put(pv, s[1], a) \o Put(h, 0, a), n, o)
                 /\ Shape(o) /\ Touches(n, o, F, R)
                 /\ \A g \in Fields : g # h => o[g] = y[g]
                 /\ o[h][0] = a
    BY <1>1, <1>2, <2>3, HeadPut
  <2>5. /\ o[nx] = x[nx] /\ o[pv] = y[pv] /\ o[t] = mem[t] /\ o[h][0] = a /\ x[pv] = mem[pv]
    BY <1>1, <1>2, <1>3, <2>2, <2>3, <2>4
  <2>6. \A b \in Addr : o[nx][b] = IF b = a THEN First(s) ELSE mem[nx][b]
    BY <1>3, <1>6, <1>b, <2>2, <2>5
  <2>7. \A b \in Addr : o[pv][b] = IF s # <<>> /\ b = s[1] THEN a ELSE mem[pv][b]
    BY <1>b, <2>3, <2>5
  <2>8. After(o)
    BY <1>4, <1>b, <2>1, <2>4, <2>5, <2>6, <2>7
  <2> QED BY <2>8
<1>7. PICK o : After(o)
  BY <1>a, <1>b
<1>8. Pushing(s, mem[nx], mem[pv], o[nx], o[pv], a)
  BY <1>4, <1>5, <1>6, <1>7 DEF Pushing
<1>9. HasFront(Headed(a, s), s, o[nx], o[pv], a)
  BY <1>8, Pushed
<1>10. Spot(o, Headed(a, s), h, t, nx, pv)
  BY <1>7, <1>9 DEF Spot, HasFront
<1> QED BY <1>7, <1>10 DEF F, R, l

(* The links are those of the list with the block at p in front.           *)
LinksMoved(o, s, h, t, nx, pv, p) ==
  /\ \A b \in Addr : o[nx][b] = IF b = s[p - 1] THEN mem[nx][s[p]]
                                ELSE IF b = s[p] THEN s[1] ELSE mem[nx][b]
  /\ \A b \in Addr : o[pv][b] = IF p < Len(s) /\ b = s[p + 1] THEN mem[pv][s[p]]
                                ELSE IF b = s[p] THEN 0 ELSE IF b = s[1] THEN s[p]
                                ELSE mem[pv][b]
  /\ o[h][0] = s[p]
  /\ o[t][0] = IF p = Len(s) THEN mem[pv][s[p]] ELSE mem[t][0]

(* The links of a block that moved up are those of the list with the block *)
(* in front.                                                               *)
LEMMA MovedSpot ==
  ASSUME NEW o, NEW h, NEW t, NEW nx, NEW pv, NEW s, Spot(mem, s, h, t, nx, pv),
         NEW p \in 2 .. Len(s), LinksMoved(o, s, h, t, nx, pv, p)
  PROVE  Spot(o, Headed(s[p], Without(s, p)), h, t, nx, pv)
<1>1. DList(s, mem[nx], mem[pv]) /\ mem[h][0] = First(s) /\ mem[t][0] = EndOf(s)
  BY DEF Spot
<1>2. /\ \A i, j \in 1 .. Len(s) : s[i] = s[j] => i = j
      /\ Range(s) \subseteq Addr
      /\ Len(s) \in Nat
  BY <1>1, Sides
<1>3. p - 1 \in 1 .. Len(s) /\ p \in 1 .. Len(s) /\ 1 \in 1 .. Len(s) /\ p # p - 1 /\ p # 1
      /\ (p < Len(s) => p + 1 \in 1 .. Len(s) /\ p + 1 # p /\ p + 1 # 1)
  BY <1>2
<1>4. s[p] # s[p - 1] /\ s[p] # s[1] /\ (p < Len(s) => s[p + 1] # s[p] /\ s[p + 1] # s[1])
  BY <1>2, <1>3
<1>5. \A b \in Range(s) :
        o[nx][b] = IF b = s[p] THEN s[1] ELSE IF b = s[p - 1] THEN mem[nx][s[p]] ELSE mem[nx][b]
  BY <1>2, <1>4 DEF LinksMoved
<1>6. \A b \in Range(s) :
        o[pv][b] = IF b = s[p] THEN 0 ELSE IF b = s[1] THEN s[p]
                   ELSE IF p < Len(s) /\ b = s[p + 1] THEN mem[pv][s[p]] ELSE mem[pv][b]
  BY <1>2, <1>4 DEF LinksMoved
<1>7. Moving(s, mem[nx], mem[pv], o[nx], o[pv], p)
  BY <1>1, <1>5, <1>6 DEF Moving
<1>8. IsMoved(Headed(s[p], Without(s, p)), s, mem[pv], o[nx], o[pv], p)
  BY <1>7, ToFront
<1>9. /\ DList(Headed(s[p], Without(s, p)), o[nx], o[pv])
      /\ First(Headed(s[p], Without(s, p))) = s[p]
      /\ EndOf(Headed(s[p], Without(s, p))) = IF p = Len(s) THEN mem[pv][s[p]] ELSE EndOf(s)
  BY <1>8 DEF IsMoved
<1>10. o[h][0] = s[p] /\ o[t][0] = IF p = Len(s) THEN mem[pv][s[p]] ELSE mem[t][0]
  BY DEF LinksMoved
<1> QED BY <1>1, <1>9, <1>10 DEF Spot

(* MovedUp moves a block that is not the first one to the front of its     *)
(* list, from the middle or the end.                                       *)
LEMMA MovedUpMakes ==
  ASSUME NEW n, Shape(n), NEW h, NEW t, NEW nx, NEW pv, ListFields(h, t, nx, pv),
         NEW s, Spot(mem, s, h, t, nx, pv), Agree(mem, n, {h, t, nx, pv}),
         NEW p \in 2 .. Len(s)
  PROVE  \E o : /\ Makes(MovedUp(s[p], h, t, nx, pv), n, o)
                /\ Touches(n, o, {h, t, nx, pv}, Range(s))
                /\ Spot(o, Headed(s[p], Without(s, p)), h, t, nx, pv)
<1> DEFINE F == {h, t, nx, pv}
           a == s[p]
           l == MovedUp(a, h, t, nx, pv)
           R == Range(s)
           prev == s[p - 1]
           next == mem[nx][a]
           l1 == Put(nx, a, s[1])
           l2 == l1 \o Put(pv, s[1], a)
           l3 == l2 \o Put(h, 0, a)
           l4 == l3 \o Put(pv, a, 0)
           l5 == l4 \o Put(nx, prev, next)
<1>1. /\ h # nx /\ h # pv /\ t # nx /\ t # pv /\ h # t /\ nx # pv
      /\ h \in HeadFields /\ t \in HeadFields /\ nx \in BlockFields /\ pv \in BlockFields
  BY FieldsDiffer
<1>2. h \in Fields /\ t \in Fields /\ nx \in Fields /\ pv \in Fields
      /\ h \in F /\ t \in F /\ nx \in F /\ pv \in F
  BY <1>1 DEF Fields
<1>3. n[h] = mem[h] /\ n[t] = mem[t] /\ n[nx] = mem[nx] /\ n[pv] = mem[pv]
  BY DEF Agree
<1>4. DList(s, mem[nx], mem[pv]) /\ mem[h][0] = First(s) /\ mem[t][0] = EndOf(s)
  BY DEF Spot
<1>5. /\ Len(s) \in Nat /\ p \in 1 .. Len(s) /\ p \in Int /\ p - 1 \in 1 .. Len(s) /\ p # 1
      /\ \A i \in 1 .. Len(s) : s[i] \in Addr /\ s[i] \in R
      /\ mem[nx][a] = IF p = Len(s) THEN 0 ELSE s[p + 1]
      /\ mem[pv][a] = prev /\ mem[h][0] = s[1]
      /\ 1 \in 1 .. Len(s) /\ (p # Len(s) => p + 1 \in 1 .. Len(s))
  BY <1>4, Sides
<1>6. 0 \notin Addr
  BY HashMapAssumption
<1>7. a \in Addr /\ a \in R /\ prev \in Addr /\ prev \in R /\ s[1] \in Addr /\ s[1] \in R
      /\ (p = Len(s) => next = 0)
      /\ (p # Len(s) => next = s[p + 1] /\ next \in Addr /\ next \in R /\ next # 0)
  BY <1>5, <1>6
<1>8. l = l5 \o IF next # 0 THEN Put(pv, next, prev) ELSE Put(t, 0, prev)
  BY <1>5 DEF MovedUp
<1>9. Touches(n, n, F, R)
  BY TouchesNothing
<1> HIDE DEF F, R, l, l1, l2, l3, l4, l5, a, prev, next
<1>11. PICK n1 : /\ Makes(l1, n, n1) /\ Shape(n1) /\ Touches(n, n1, F, R)
                 /\ \A g \in Fields : g # nx => n1[g] = n[g]
                 /\ \A b \in Addr : n1[nx][b] = IF b = a THEN s[1] ELSE n[nx][b]
  <2>1. l1 = Put(nx, a, s[1])
    BY DEF l1
  <2> QED BY ONLY Shape(n), <1>2, <1>1, <1>7, <1>9, <2>1, FirstBlockPut
<1>12. PICK n2 : /\ Makes(l2, n, n2) /\ Shape(n2) /\ Touches(n, n2, F, R)
                 /\ \A g \in Fields : g # pv => n2[g] = n1[g]
                 /\ \A b \in Addr : n2[pv][b] = IF b = s[1] THEN a ELSE n1[pv][b]
  BY <1>1, <1>2, <1>7, <1>11, BlockPut DEF l2
<1>13. PICK n3 : /\ Makes(l3, n, n3) /\ Shape(n3) /\ Touches(n, n3, F, R)
                 /\ \A g \in Fields : g # h => n3[g] = n2[g]
                 /\ n3[h][0] = a
  BY <1>1, <1>2, <1>12, HeadPut DEF l3
<1>14. PICK n4 : /\ Makes(l4, n, n4) /\ Shape(n4) /\ Touches(n, n4, F, R)
                 /\ \A g \in Fields : g # pv => n4[g] = n3[g]
                 /\ \A b \in Addr : n4[pv][b] = IF b = a THEN 0 ELSE n3[pv][b]
  BY <1>1, <1>2, <1>7, <1>13, BlockPut DEF l4
<1>15. PICK n5 : /\ Makes(l5, n, n5) /\ Shape(n5) /\ Touches(n, n5, F, R)
                 /\ \A g \in Fields : g # nx => n5[g] = n4[g]
                 /\ \A b \in Addr : n5[nx][b] = IF b = prev THEN next ELSE n4[nx][b]
  BY <1>1, <1>2, <1>7, <1>14, BlockPut DEF l5
<1>16. n5[nx] = n5[nx] /\ n4[nx] = n1[nx] /\ n5[h][0] = a /\ n5[t] = mem[t]
       /\ n5[pv] = n4[pv] /\ n3[pv] = n2[pv] /\ n1[pv] = mem[pv]
  BY <1>1, <1>2, <1>3, <1>11, <1>12, <1>13, <1>14, <1>15
<1>17. \A b \in Addr : n5[nx][b] = IF b = prev THEN next ELSE IF b = a THEN s[1] ELSE mem[nx][b]
  BY <1>3, <1>11, <1>15, <1>16
<1>18. \A b \in Addr : n5[pv][b] = IF b = a THEN 0 ELSE IF b = s[1] THEN a ELSE mem[pv][b]
  BY <1>12, <1>14, <1>16
<1> DEFINE After(o) == /\ Makes(l, n, o) /\ Touches(n, o, F, R)
                       /\ LinksMoved(o, s, h, t, nx, pv, p)
<1>a. ASSUME p # Len(s) PROVE \E o : After(o)
  <2>1. PICK o : /\ Makes(l5 \o Put(pv, next, prev), n, o) /\ Shape(o) /\ Touches(n, o, F, R)
                 /\ \A g \in Fields : g # pv => o[g] = n5[g]
                 /\ \A b \in Addr : o[pv][b] = IF b = next THEN prev ELSE n5[pv][b]
    BY <1>1, <1>2, <1>7, <1>15, <1>a, BlockPut
  <2>2. l = l5 \o Put(pv, next, prev)
    BY <1>7, <1>8, <1>a
  <2>3. o[nx] = n5[nx] /\ o[h] = n5[h] /\ o[t] = n5[t]
    BY <1>1, <1>2, <2>1
  <2>4. p < Len(s) /\ next = s[p + 1]
    BY <1>5, <1>7, <1>a
  <2>5. \A b \in Addr : o[pv][b] = IF p < Len(s) /\ b = s[p + 1] THEN mem[pv][a]
                                   ELSE IF b = a THEN 0 ELSE IF b = s[1] THEN a ELSE mem[pv][b]
    BY <1>5, <1>18, <2>1, <2>4
  <2>6. LinksMoved(o, s, h, t, nx, pv, p)
    BY <1>16, <1>17, <1>a, <2>3, <2>5 DEF LinksMoved, a, prev, next
  <2> QED BY <2>1, <2>2, <2>6
<1>b. ASSUME p = Len(s) PROVE \E o : After(o)
  <2>1. PICK o : /\ Makes(l5 \o Put(t, 0, prev), n, o) /\ Shape(o) /\ Touches(n, o, F, R)
                 /\ \A g \in Fields : g # t => o[g] = n5[g]
                 /\ o[t][0] = prev
    BY <1>1, <1>2, <1>15, HeadPut
  <2>2. l = l5 \o Put(t, 0, prev)
    BY <1>7, <1>8, <1>b
  <2>3. o[nx] = n5[nx] /\ o[h] = n5[h] /\ o[pv] = n5[pv]
    BY <1>1, <1>2, <2>1
  <2>4. ~(p < Len(s))
    BY <1>5, <1>b
  <2>6. LinksMoved(o, s, h, t, nx, pv, p)
    BY <1>5, <1>16, <1>17, <1>18, <1>b, <2>1, <2>3, <2>4 DEF LinksMoved, a, prev, next
  <2> QED BY <2>1, <2>2, <2>6
<1>19. PICK o : After(o)
  BY <1>a, <1>b
<1>20. Spot(o, Headed(s[p], Without(s, p)), h, t, nx, pv)
  BY <1>19, MovedSpot
<1> QED BY <1>19, <1>20 DEF F, R, l, a

(* A store at the end of a log l, which makes x of m and touches fields F  *)
(* and blocks R since n.                                                   *)
PutReady(l, m, n, x, f, a, v, F, R) ==
  /\ Makes(l, m, x) /\ Touches(n, x, F, R) /\ Shape(x)
  /\ f \in Fields /\ a \in DOMAIN x[f] /\ f \in F /\ (f \in BlockFields => a \in R)

PutMade(o, l, m, n, x, f, a, v, F, R) ==
  /\ Makes(l \o Put(f, a, v), m, o) /\ Shape(o) /\ Touches(n, o, F, R)
  /\ \A g \in Fields : g # f => o[g] = x[g]
  /\ o[f] = [x[f] EXCEPT ![a] = v]

(* An entry behind a log, with the fields and blocks that may have changed *)
(* since.                                                                  *)
LEMMA AnyPut ==
  ASSUME NEW l, NEW m, NEW n, NEW x, NEW f, NEW a, NEW v, NEW F, NEW R,
         PutReady(l, m, n, x, f, a, v, F, R)
  PROVE  \E o : PutMade(o, l, m, n, x, f, a, v, F, R)
<1>1. /\ Makes(l, m, x) /\ Touches(n, x, F, R) /\ Shape(x)
      /\ f \in Fields /\ a \in DOMAIN x[f] /\ f \in F /\ (f \in BlockFields => a \in R)
  BY DEF PutReady
<1>2. PICK o : Makes(l \o Put(f, a, v), m, o) /\ Stores(x, o, f, a, v)
  BY <1>1, PutAfter
<1>3. Touches(x, o, F, R)
  BY <1>1, <1>2, StoreTouches
<1>4. Touches(n, o, F, R)
  BY <1>1, <1>3, TouchesBoth
<1> QED BY <1>2, <1>4 DEF Stores, PutMade

(* A store that is made under a condition.                                 *)
IfReady(l, m, n, x, c, f, a, v, F, R) ==
  /\ Makes(l, m, x) /\ Touches(n, x, F, R) /\ Shape(x) /\ f \in Fields
  /\ (c => a \in DOMAIN x[f]) /\ f \in F /\ (c /\ f \in BlockFields => a \in R)

IfMade(o, l, m, n, x, c, f, a, v, F, R) ==
  /\ Makes(l \o If(c, Put(f, a, v)), m, o) /\ Shape(o) /\ Touches(n, o, F, R)
  /\ \A g \in Fields : g # f => o[g] = x[g]
  /\ o[f] = IF c THEN [x[f] EXCEPT ![a] = v] ELSE x[f]

(* An entry under a condition behind a log.                                *)
LEMMA AnyIf ==
  ASSUME NEW l, NEW m, NEW n, NEW x, NEW c, NEW f, NEW a, NEW v, NEW F, NEW R,
         IfReady(l, m, n, x, c, f, a, v, F, R)
  PROVE  \E o : IfMade(o, l, m, n, x, c, f, a, v, F, R)
<1>0. /\ Makes(l, m, x) /\ Touches(n, x, F, R) /\ Shape(x) /\ f \in Fields
      /\ (c => a \in DOMAIN x[f]) /\ f \in F /\ (c /\ f \in BlockFields => a \in R)
  BY DEF IfReady
<1>1. CASE c
  <2>1. If(c, Put(f, a, v)) = Put(f, a, v)
    BY <1>1 DEF If
  <2>2. PutReady(l, m, n, x, f, a, v, F, R)
    BY <1>0, <1>1 DEF PutReady
  <2>3. PICK o : PutMade(o, l, m, n, x, f, a, v, F, R)
    BY <2>2, AnyPut
  <2> QED BY <1>1, <2>1, <2>3 DEF PutMade, IfMade
<1>2. CASE ~c
  <2>1. If(c, Put(f, a, v)) = <<>>
    BY <1>2 DEF If
  <2>2. Makes(l \o <<>>, m, x)
    BY <1>0, LogOfNone, LogOfTwo
  <2> QED BY <1>0, <1>2, <2>1, <2>2 DEF IfMade
<1> QED BY <1>1, <1>2

(* The first of a log.                                                     *)
FirstReady(n, c, f, a, v, F, R) ==
  /\ Shape(n) /\ f \in Fields
  /\ (c => a \in DOMAIN n[f]) /\ f \in F /\ (c /\ f \in BlockFields => a \in R)

FirstMade(o, n, c, f, a, v, F, R) ==
  /\ Makes(If(c, Put(f, a, v)), n, o) /\ Shape(o) /\ Touches(n, o, F, R)
  /\ \A g \in Fields : g # f => o[g] = n[g]
  /\ o[f] = IF c THEN [n[f] EXCEPT ![a] = v] ELSE n[f]

(* An entry under a condition with no log before it.                       *)
LEMMA FirstIf ==
  ASSUME NEW n, NEW c, NEW f, NEW a, NEW v, NEW F, NEW R, FirstReady(n, c, f, a, v, F, R)
  PROVE  \E o : FirstMade(o, n, c, f, a, v, F, R)
<1>0. /\ Shape(n) /\ f \in Fields
      /\ (c => a \in DOMAIN n[f]) /\ f \in F /\ (c /\ f \in BlockFields => a \in R)
  BY DEF FirstReady
<1>1. CASE c
  <2>1. If(c, Put(f, a, v)) = Put(f, a, v)
    BY <1>1 DEF If
  <2>2. a \in DOMAIN n[f] /\ (f \in BlockFields => a \in R)
    BY <1>0, <1>1
  <2>3. PICK o : Makes(Put(f, a, v), n, o) /\ Stores(n, o, f, a, v)
    BY <1>0, <2>2, PutStores
  <2>4. Touches(n, o, F, R)
    BY <1>0, <2>2, <2>3, StoreTouches
  <2>5. Makes(If(c, Put(f, a, v)), n, o)
    BY <2>1, <2>3
  <2> QED BY <1>1, <2>3, <2>4, <2>5 DEF Stores, FirstMade
<1>2. CASE ~c
  <2>1. If(c, Put(f, a, v)) = <<>>
    BY <1>2 DEF If
  <2>2. Makes(<<>>, n, n)
    BY LogOfNone
  <2>3. Touches(n, n, F, R)
    BY <1>0, TouchesNothing
  <2> QED BY <1>0, <1>2, <2>1, <2>2, <2>3 DEF FirstMade
<1> QED BY <1>1, <1>2

(* What a piece does is done to what was made before.                      *)
LEMMA PieceAfter ==
  ASSUME NEW l, NEW n, NEW x, NEW k, NEW o, NEW F, NEW R, NEW F1, NEW R1,
         Makes(l, n, x), Touches(n, x, F, R), Makes(k, x, o), Touches(x, o, F1, R1),
         F1 \subseteq F, R1 \subseteq R
  PROVE  Makes(l \o k, n, o) /\ Touches(n, o, F, R) /\ Shape(o)
<1>1. Touches(x, o, F, R)
  BY TouchesMore
<1> QED BY <1>1, LogOfTwo, TouchesBoth DEF Touches

(* What a change leaves as it was.                                         *)
LEMMA Unaltered ==
  ASSUME NEW m, NEW n, NEW F, NEW R, Touches(m, n, F, R)
  PROVE  /\ Shape(n)
         /\ \A g \in Fields : g \notin F => n[g] = m[g]
         /\ \A g \in BlockFields : \A b \in Addr : b \notin R => n[g][b] = m[g][b]
BY DEF Touches, Fields

-----------------------------------------------------------------------------
BucketFields == {"blockNext", "blockPrev", "blockAddr"}

(* Block a goes to the head of bucket i, whose blocks are s.               *)
LEMMA BucketLinked ==
  ASSUME NEW l, NEW n, NEW i \in Index, NEW a \in Addr, NEW s,
         Shape(n), Makes(l, mem, n), Shape(mem), Agree(mem, n, BucketFields),
         DList(s, mem["blockNext"], mem["blockPrev"]), mem["blockAddr"][i] = First(s),
         a \notin Range(s), mem["blockNext"][a] = 0, mem["blockPrev"][a] = 0
  PROVE  \E o : /\ Makes(l \o If(mem["blockAddr"][i] # 0,
                                  Put("blockPrev", mem["blockAddr"][i], a)
                                  \o Put("blockNext", a, mem["blockAddr"][i]))
                           \o Put("blockAddr", i, a), mem, o)
                /\ Touches(n, o, BucketFields, Range(s) \cup {a})
                /\ HasFront(Headed(a, s), s, o["blockNext"], o["blockPrev"], a)
                /\ o["blockAddr"] = [mem["blockAddr"] EXCEPT ![i] = a]
<1> DEFINE F == BucketFields
           R == Range(s) \cup {a}
           first == mem["blockAddr"][i]
           k1_ == If(first # 0, Put("blockPrev", first, a) \o Put("blockNext", a, first))
<1>1. /\ "blockNext" \in BlockFields /\ "blockPrev" \in BlockFields
      /\ "blockNext" \in Fields /\ "blockPrev" \in Fields /\ "blockAddr" \in Fields
      /\ "blockNext" \in F /\ "blockPrev" \in F /\ "blockAddr" \in F
      /\ "blockAddr" \notin BlockFields
      /\ "blockNext" # "blockPrev" /\ "blockNext" # "blockAddr" /\ "blockPrev" # "blockAddr"
  BY FieldNames DEF Fields, BucketFields
<1>2. /\ DOMAIN n["blockNext"] = Addr /\ DOMAIN n["blockPrev"] = Addr
      /\ n["blockNext"] = mem["blockNext"] /\ n["blockPrev"] = mem["blockPrev"]
      /\ n["blockAddr"] = mem["blockAddr"]
      /\ \A m : Shape(m) => DOMAIN m["blockAddr"] = Index
  BY <1>1, ShapeOf DEF Agree, BucketFields
<1>3. 0 \notin Addr
  BY HashMapAssumption
<1>4. /\ s # <<>> => s[1] \in Addr /\ s[1] \in R /\ First(s) = s[1] /\ s[1] # a /\ s[1] # 0
      /\ s = <<>> => First(s) = 0
      /\ Range(s) \subseteq Addr
      /\ a \in R
  <2>1. /\ Range(s) \subseteq Addr
        /\ \A b : b \in Range(s) <=> \E j \in 1 .. Len(s) : s[j] = b
        /\ First(s) = IF Len(s) = 0 THEN 0 ELSE s[1]
        /\ s \in Seq(Addr) /\ Len(s) \in Nat
    BY Sides
  <2>2. s # <<>> => 1 \in 1 .. Len(s)
    BY <2>1
  <2> QED BY <1>3, <2>1, <2>2 DEF First
<1>5. Touches(n, n, F, R)
  BY TouchesNothing
<1> HIDE DEF F, R, k1_
<1> DEFINE Q(x) == /\ Makes(k1_, n, x) /\ Shape(x) /\ Touches(n, x, F, R)
                   /\ \A b \in Addr : x["blockNext"][b] =
                         IF b = a THEN first ELSE mem["blockNext"][b]
                   /\ \A b \in Addr : x["blockPrev"][b] =
                         IF s # <<>> /\ b = s[1] THEN a ELSE mem["blockPrev"][b]
                   /\ x["blockAddr"] = mem["blockAddr"]
<1>6. \E x : Q(x)
  <2>1. CASE s = <<>>
    <3>1. k1_ = <<>> /\ first = 0
      BY <1>4, <2>1 DEF k1_, If
    <3>2. Q(n)
      BY <1>2, <1>5, <2>1, <3>1, LogOfNone
    <3> QED BY <3>2
  <2>2. CASE s # <<>>
    <3>1. first = s[1] /\ first \in Addr /\ first \in R /\ first # a
      BY <1>4, <2>2
    <3>2. k1_ = Put("blockPrev", first, a) \o Put("blockNext", a, first)
      BY <1>4, <2>2 DEF k1_, If
    <3> HIDE DEF first
    <3>3. PICK x : /\ Makes(Put("blockPrev", first, a), n, x) /\ Shape(x) /\ Touches(n, x, F, R)
                   /\ \A g \in Fields : g # "blockPrev" => x[g] = n[g]
                   /\ \A b \in Addr : x["blockPrev"][b] =
                        IF b = first THEN a ELSE n["blockPrev"][b]
      BY <1>1, <1>5, <3>1, FirstBlockPut
    <3>4. PICK y : /\ Makes(Put("blockPrev", first, a) \o Put("blockNext", a, first), n, y)
                   /\ Shape(y) /\ Touches(n, y, F, R)
                   /\ \A g \in Fields : g # "blockNext" => y[g] = x[g]
                   /\ \A b \in Addr : y["blockNext"][b] =
                        IF b = a THEN first ELSE x["blockNext"][b]
      BY <1>1, <1>4, <3>3, BlockPut
    <3>5. y["blockPrev"] = x["blockPrev"] /\ x["blockNext"] = n["blockNext"]
          /\ y["blockAddr"] = n["blockAddr"]
      BY <1>1, <3>3, <3>4
    <3>6. Q(y)
      BY <1>2, <2>2, <3>1, <3>2, <3>3, <3>4, <3>5
    <3> QED BY <3>6
  <2> QED BY <2>1, <2>2
<1>7. PICK x : Q(x)
  BY <1>6
<1>8. PICK o : Makes(Put("blockAddr", i, a), x, o) /\ Stores(x, o, "blockAddr", i, a)
  <2>1. i \in DOMAIN x["blockAddr"] /\ Shape(x)
    BY <1>2, <1>7
  <2> QED BY <1>1, <2>1, PutStores
<1>a. /\ Shape(o) /\ Touches(n, o, F, R)
      /\ o["blockNext"] = x["blockNext"] /\ o["blockPrev"] = x["blockPrev"]
      /\ o["blockAddr"] = [x["blockAddr"] EXCEPT ![i] = a]
  <2>1. Touches(x, o, F, R)
    BY <1>1, <1>8, StoreTouches
  <2>2. Touches(n, o, F, R)
    BY <1>7, <2>1, TouchesBoth
  <2> QED BY <1>1, <1>8, <2>2 DEF Stores
<1>9. Makes(l \o k1_ \o Put("blockAddr", i, a), mem, o)
  <2>1. Makes(l \o k1_, mem, x)
    BY <1>7, LogOfTwo
  <2> QED BY <1>8, <2>1, LogOfTwo
<1>10. Pushing(s, mem["blockNext"], mem["blockPrev"], o["blockNext"], o["blockPrev"], a)
  BY <1>1, <1>4, <1>7, <1>a DEF Pushing
<1>11. HasFront(Headed(a, s), s, o["blockNext"], o["blockPrev"], a)
  BY <1>10, Pushed
<1> QED BY <1>7, <1>9, <1>a, <1>11 DEF F, R, k1_

(* A list keeps its place when its head, its tail and its links do.        *)
LEMMA SpotKept ==
  ASSUME NEW m, NEW n, NEW s, NEW h, NEW t, NEW nx, NEW pv, Spot(m, s, h, t, nx, pv),
         n[h][0] = m[h][0], n[t][0] = m[t][0],
         \A b \in Range(s) : n[nx][b] = m[nx][b] /\ n[pv][b] = m[pv][b]
  PROVE  Spot(n, s, h, t, nx, pv)
<1>1. DList(s, m[nx], m[pv])
  BY DEF Spot
<1>2. DList(s, n[nx], n[pv])
  BY <1>1, Untouched
<1> QED BY <1>2 DEF Spot

(* A list with a block in front.                                           *)
LEMMA FrontOf ==
  ASSUME NEW s \in Seq(Addr), NEW a \in Addr
  PROVE  /\ Headed(a, s) \in Seq(Addr) /\ Len(Headed(a, s)) = Len(s) + 1
         /\ Range(Headed(a, s)) = Range(s) \cup {a} /\ First(Headed(a, s)) = a
         /\ Headed(a, s) # <<>>
<1> DEFINE t == Headed(a, s)
<1>1. /\ t \in Seq(Addr) /\ Len(t) = Len(s) + 1 /\ DOMAIN t = 1 .. Len(s) + 1
      /\ t[1] = a /\ \A i \in 1 .. Len(s) : t[i + 1] = s[i]
  <2>1. /\ <<a>> \o s \in Seq(Addr) /\ Len(<<a>> \o s) = Len(s) + 1
        /\ DOMAIN (<<a>> \o s) = 1 .. Len(s) + 1
        /\ (<<a>> \o s)[1] = a /\ \A i \in 1 .. Len(s) : (<<a>> \o s)[i + 1] = s[i]
    BY InFront
  <2> QED BY <2>1 DEF Headed
<1> HIDE DEF t
<1>2. Len(s) \in Nat /\ DOMAIN s = 1 .. Len(s) /\ t # <<>>
  BY <1>1
<1>3. ASSUME NEW b \in Range(t) PROVE b \in Range(s) \cup {a}
  <2>1. PICK i \in 1 .. Len(s) + 1 : t[i] = b
    BY <1>1 DEF Range
  <2>2. CASE i = 1
    BY <1>1, <2>1, <2>2
  <2>3. CASE i # 1
    <3>1. i - 1 \in 1 .. Len(s) /\ (i - 1) + 1 = i
      BY <1>2, <2>3
    <3>2. t[i] = s[i - 1]
      BY <1>1, <3>1
    <3> QED BY <1>2, <2>1, <3>1, <3>2 DEF Range
  <2> QED BY <2>2, <2>3
<1>4. a \in Range(t)
  <2>1. 1 \in 1 .. Len(s) + 1
    BY <1>2
  <2> QED BY <1>1, <2>1 DEF Range
<1>5. ASSUME NEW b \in Range(s) PROVE b \in Range(t)
  <2>1. PICK i \in 1 .. Len(s) : s[i] = b
    BY <1>2 DEF Range
  <2>2. i + 1 \in 1 .. Len(s) + 1 /\ t[i + 1] = b
    BY <1>1, <1>2, <2>1
  <2> QED BY <1>1, <2>2 DEF Range
<1>6. First(t) = a
  BY <1>1, <1>2 DEF First
<1> QED BY <1>1, <1>2, <1>3, <1>4, <1>5, <1>6 DEF t

(* A list without the block at p.                                          *)
LEMMA WithoutOf ==
  ASSUME NEW s, NEW nx, NEW pv, DList(s, nx, pv), NEW p \in 1 .. Len(s)
  PROVE  /\ Without(s, p) \in Seq(Addr) /\ Len(Without(s, p)) = Len(s) - 1
         /\ Range(Without(s, p)) = Range(s) \ {s[p]}
         /\ s[p] \in Range(s) /\ s[p] \in Addr
<1> DEFINE nx2 == [b \in Addr |-> IF p > 1 /\ b = s[p - 1] THEN nx[s[p]] ELSE nx[b]]
           pv2 == [b \in Addr |-> IF p < Len(s) /\ b = s[p + 1] THEN pv[s[p]] ELSE pv[b]]
<1>1. /\ \A b \in Addr : nx2[b] = IF p > 1 /\ b = s[p - 1] THEN nx[s[p]] ELSE nx[b]
      /\ \A b \in Addr : pv2[b] = IF p < Len(s) /\ b = s[p + 1] THEN pv[s[p]] ELSE pv[b]
  OBVIOUS
<1> HIDE DEF nx2, pv2
<1>2. Range(s) \subseteq Addr
  BY Sides
<1>3. Removing(s, nx, pv, nx2, pv2, p)
  BY <1>1, <1>2 DEF Removing
<1>4. IsWithout(Without(s, p), s, nx, pv, nx2, pv2, p)
  BY <1>3, Removed
<1>5. Without(s, p) \in Seq(Addr)
  BY <1>4 DEF IsWithout, DList
<1>6. s[p] \in Range(s) /\ s[p] \in Addr
  BY Sides
<1> QED BY <1>4, <1>5, <1>6 DEF IsWithout

(* A block in front of the chain of its bucket: the buckets hold one       *)
(* record more.                                                            *)
LEMMA BucketsPushed ==
  ASSUME NEW m, NEW n, NEW L \in SUBSET Addr, NEW B, Buckets(m, L, B), NEW i \in Index,
         NEW a \in Addr, a \notin L,
         HasFront(Headed(a, B[i]), B[i], n["blockNext"], n["blockPrev"], a),
         n["blockAddr"] = [m["blockAddr"] EXCEPT ![i] = a],
         n["index"] = [m["index"] EXCEPT ![a] = i],
         n["listCount"] = [m["listCount"] EXCEPT ![i] = m["listCount"][i] + 1],
         \A b \in Addr : b \notin Range(B[i]) \cup {a} =>
           n["blockNext"][b] = m["blockNext"][b] /\ n["blockPrev"][b] = m["blockPrev"][b],
         Shape(m)
  PROVE  Buckets(n, L \cup {a}, [B EXCEPT ![i] = Headed(a, B[i])])
<1> DEFINE C == [B EXCEPT ![i] = Headed(a, B[i])]
<1>1. /\ DOMAIN B = Index
      /\ \A j \in Index : /\ DList(B[j], m["blockNext"], m["blockPrev"])
                          /\ m["blockAddr"][j] = First(B[j])
                          /\ Range(B[j]) = {b \in L : m["index"][b] = j}
                          /\ m["listCount"][j] = Len(B[j])
      /\ \A b \in L : m["index"][b] \in Index
  BY DEF Buckets
<1>2. /\ DOMAIN m["blockAddr"] = Index /\ DOMAIN m["index"] = Addr /\ DOMAIN m["listCount"] = Index
  BY FieldNames, ShapeOf
<1>3. /\ n["index"][a] = i /\ \A b \in L : n["index"][b] = m["index"][b]
  BY <1>2
<1>4. /\ DOMAIN C = Index /\ C[i] = Headed(a, B[i]) /\ \A j \in Index : j # i => C[j] = B[j]
  BY <1>1
<1> HIDE DEF C
<1>5. ASSUME NEW j \in Index
      PROVE  /\ DList(C[j], n["blockNext"], n["blockPrev"])
             /\ n["blockAddr"][j] = First(C[j])
             /\ Range(C[j]) = {b \in L \cup {a} : n["index"][b] = j}
             /\ n["listCount"][j] = Len(C[j])
  <2>1. CASE j = i
    <3>1. /\ DList(C[j], n["blockNext"], n["blockPrev"]) /\ First(C[j]) = a
          /\ Range(C[j]) = Range(B[j]) \cup {a} /\ Len(C[j]) = Len(B[j]) + 1
      BY <1>4, <2>1 DEF HasFront
    <3>2. n["blockAddr"][j] = a /\ n["listCount"][j] = m["listCount"][j] + 1
      BY <1>2, <2>1
    <3>3. Range(C[j]) = {b \in L \cup {a} : n["index"][b] = j}
      BY <1>1, <1>3, <2>1, <3>1
    <3> QED BY <1>1, <3>1, <3>2, <3>3
  <2>2. CASE j # i
    <3>1. C[j] = B[j] /\ n["blockAddr"][j] = m["blockAddr"][j]
          /\ n["listCount"][j] = m["listCount"][j]
      BY <1>2, <1>4, <2>2
    <3>2. Range(B[j]) = {b \in L \cup {a} : n["index"][b] = j}
      BY <1>1, <1>3, <2>2
    <3>3. \A b \in Range(B[j]) : n["blockNext"][b] = m["blockNext"][b]
                                 /\ n["blockPrev"][b] = m["blockPrev"][b]
      <4>1. \A b \in Range(B[j]) : b \in Addr /\ b # a /\ b \notin Range(B[i])
        BY <1>1, <2>2
      <4> QED BY <4>1
    <3>4. DList(B[j], n["blockNext"], n["blockPrev"])
      <4>1. DList(B[j], m["blockNext"], m["blockPrev"])
        BY <1>1
      <4> QED BY <3>3, <4>1, Untouched
    <3> QED BY <1>1, <3>1, <3>2, <3>4
  <2> QED BY <2>1, <2>2
<1>6. \A b \in L \cup {a} : n["index"][b] \in Index
  BY <1>1, <1>3
<1>7. Buckets(n, L \cup {a}, C)
  BY <1>4, <1>5, <1>6 DEF Buckets
<1> QED BY <1>7 DEF C

(* A block gone from the chain of its bucket: the buckets hold one record  *)
(* less.                                                                   *)
LEMMA BucketsRemoved ==
  ASSUME NEW m, NEW n, NEW L \in SUBSET Addr, NEW B, Buckets(m, L, B), NEW i \in Index,
         NEW r \in 1 .. Len(B[i]),
         IsWithout(Without(B[i], r), B[i], m["blockNext"], m["blockPrev"],
                   n["blockNext"], n["blockPrev"], r),
         \A j \in Index : n["blockAddr"][j] = IF j = i THEN First(Without(B[i], r))
                                              ELSE m["blockAddr"][j],
         n["index"] = m["index"],
         n["listCount"] = [m["listCount"] EXCEPT ![i] = m["listCount"][i] - 1],
         \A b \in Addr : b \notin Range(B[i]) =>
           n["blockNext"][b] = m["blockNext"][b] /\ n["blockPrev"][b] = m["blockPrev"][b],
         Shape(m)
  PROVE  Buckets(n, L \ {B[i][r]}, [B EXCEPT ![i] = Without(B[i], r)])
<1> DEFINE C == [B EXCEPT ![i] = Without(B[i], r)]
           a == B[i][r]
<1>1. /\ DOMAIN B = Index
      /\ \A j \in Index : /\ DList(B[j], m["blockNext"], m["blockPrev"])
                          /\ m["blockAddr"][j] = First(B[j])
                          /\ Range(B[j]) = {b \in L : m["index"][b] = j}
                          /\ m["listCount"][j] = Len(B[j])
      /\ \A b \in L : m["index"][b] \in Index
  BY DEF Buckets
<1>2. /\ DOMAIN m["blockAddr"] = Index /\ DOMAIN m["index"] = Addr /\ DOMAIN m["listCount"] = Index
  BY FieldNames, ShapeOf
<1>3. a \in L /\ m["index"][a] = i
  <2>1. DList(B[i], m["blockNext"], m["blockPrev"])
    BY <1>1
  <2>2. a \in Range(B[i])
    BY <2>1, Sides
  <2> QED BY <1>1, <2>2
<1>4. /\ DOMAIN C = Index /\ C[i] = Without(B[i], r) /\ \A j \in Index : j # i => C[j] = B[j]
  BY <1>1
<1> HIDE DEF C
<1>5. ASSUME NEW j \in Index
      PROVE  /\ DList(C[j], n["blockNext"], n["blockPrev"])
             /\ n["blockAddr"][j] = First(C[j])
             /\ Range(C[j]) = {b \in L \ {a} : n["index"][b] = j}
             /\ n["listCount"][j] = Len(C[j])
  <2>1. CASE j = i
    <3>1. /\ DList(C[j], n["blockNext"], n["blockPrev"])
          /\ Range(C[j]) = Range(B[j]) \ {a} /\ Len(C[j]) = Len(B[j]) - 1
      BY <1>4, <2>1 DEF IsWithout
    <3>2. n["blockAddr"][j] = First(C[j]) /\ n["listCount"][j] = m["listCount"][j] - 1
      BY <1>2, <1>4, <2>1
    <3>3. Range(C[j]) = {b \in L \ {a} : n["index"][b] = j}
      BY <1>1, <1>3, <2>1, <3>1
    <3> QED BY <1>1, <3>1, <3>2, <3>3
  <2>2. CASE j # i
    <3>1. C[j] = B[j] /\ n["blockAddr"][j] = m["blockAddr"][j]
          /\ n["listCount"][j] = m["listCount"][j]
      BY <1>2, <1>4, <2>2
    <3>2. Range(B[j]) = {b \in L \ {a} : n["index"][b] = j}
      BY <1>1, <1>3, <2>2
    <3>3. \A b \in Range(B[j]) : n["blockNext"][b] = m["blockNext"][b]
                                 /\ n["blockPrev"][b] = m["blockPrev"][b]
      <4>1. \A b \in Range(B[j]) : b \in Addr /\ b \notin Range(B[i])
        BY <1>1, <2>2
      <4> QED BY <4>1
    <3>4. DList(B[j], n["blockNext"], n["blockPrev"])
      <4>1. DList(B[j], m["blockNext"], m["blockPrev"])
        BY <1>1
      <4> QED BY <3>3, <4>1, Untouched
    <3> QED BY <1>1, <3>1, <3>2, <3>4
  <2> QED BY <2>1, <2>2
<1>6. \A b \in L \ {a} : n["index"][b] \in Index
  BY <1>1
<1>7. Buckets(n, L \ {a}, C)
  BY <1>4, <1>5, <1>6 DEF Buckets
<1> QED BY <1>7 DEF C

SetFields == {"setHead", "setTail", "setNext", "setPrev"}
GetFields == {"getHead", "getTail", "getNext", "getPrev"}
NewFields == {"index", "dirty", "dirtyCount", "elementCount", "listCount"}
MakeFields == SetFields \cup GetFields \cup BucketFields \cup NewFields

(* The two lists and the buckets have fields of their own.                 *)
LEMMA TheLists ==
  /\ ListFields("setHead", "setTail", "setNext", "setPrev")
  /\ ListFields("getHead", "getTail", "getNext", "getPrev")
  /\ SetFields \subseteq Fields /\ GetFields \subseteq Fields /\ BucketFields \subseteq Fields
  /\ NewFields \subseteq Fields
BY FieldNames DEF ListFields, HeadFields, SetFields, GetFields, BucketFields, NewFields, Fields

(* Fields that a change does not touch are as they were.                   *)
LEMMA AgreeAfter ==
  ASSUME NEW m, NEW n, NEW F, NEW R, NEW E, Touches(m, n, F, R), E \subseteq Fields, E \cap F = {}
  PROVE  Agree(m, n, E)
BY DEF Touches, Agree

(* Fields that two changes leave alone are as they were.                   *)
LEMMA AgreeBoth ==
  ASSUME NEW m, NEW n, NEW o, NEW F, Agree(m, n, F), Agree(n, o, F)
  PROVE  Agree(m, o, F)
BY DEF Agree

(* The stores of makeNew before the lists.                                 *)
LEMMA NewFieldsMake ==
  ASSUME Shape(mem), NEW a \in Addr, NEW i \in Index
  PROVE  \E n : /\ Makes(Put("index", a, i) \o Put("dirty", a, TRUE) \o Add("dirtyCount", 0, 1)
                         \o Add("elementCount", 0, 1) \o Add("listCount", i, 1), mem, n)
                /\ Shape(n) /\ Touches(mem, n, NewFields, {a})
                /\ n["index"] = [mem["index"] EXCEPT ![a] = i]
                /\ n["dirty"] = [mem["dirty"] EXCEPT ![a] = TRUE]
                /\ n["dirtyCount"] = [mem["dirtyCount"] EXCEPT ![0] = mem["dirtyCount"][0] + 1]
                /\ n["elementCount"][0] = mem["elementCount"][0] + 1
                /\ n["listCount"] = [mem["listCount"] EXCEPT ![i] = mem["listCount"][i] + 1]
<1> DEFINE F == NewFields
           R == {a}
           l1 == Put("index", a, i)
           l2 == l1 \o Put("dirty", a, TRUE)
           l3 == l2 \o Put("dirtyCount", 0, mem["dirtyCount"][0] + 1)
           l4 == l3 \o Put("elementCount", 0, mem["elementCount"][0] + 1)
           l5 == l4 \o Put("listCount", i, mem["listCount"][i] + 1)
<1>1. /\ "index" \in F /\ "dirty" \in F /\ "dirtyCount" \in F /\ "elementCount" \in F /\ "listCount" \in F
      /\ "index" \in Fields /\ "dirty" \in Fields /\ "dirtyCount" \in Fields
      /\ "elementCount" \in Fields /\ "listCount" \in Fields
      /\ "dirtyCount" \notin BlockFields /\ "elementCount" \notin BlockFields
      /\ "listCount" \notin BlockFields
  BY FieldNames, TheLists DEF NewFields, HeadFields
<1>2. \A m : Shape(m) => /\ DOMAIN m["index"] = Addr /\ DOMAIN m["dirty"] = Addr
                         /\ DOMAIN m["dirtyCount"] = {0} /\ DOMAIN m["elementCount"] = {0}
                         /\ DOMAIN m["listCount"] = Index
  BY FieldNames, ShapeOf DEF HeadFields
<1>3. Touches(mem, mem, F, R) /\ a \in R
  BY TouchesNothing
<1>4. l5 = Put("index", a, i) \o Put("dirty", a, TRUE) \o Add("dirtyCount", 0, 1)
           \o Add("elementCount", 0, 1) \o Add("listCount", i, 1)
  BY DEF Add
<1> HIDE DEF F, R, l1, l2, l3, l4, l5
<1>11. PICK n1 : FirstMade(n1, mem, TRUE, "index", a, i, F, R)
  <2>1. FirstReady(mem, TRUE, "index", a, i, F, R)
    BY <1>1, <1>2, <1>3 DEF FirstReady
  <2> QED BY <2>1, FirstIf
<1>b. Makes(l1, mem, n1) /\ Shape(n1) /\ Touches(mem, n1, F, R)
  BY <1>11 DEF FirstMade, l1, If
<1>w. PICK w : w = TRUE
  OBVIOUS
<1>12. PICK n2 : PutMade(n2, l1, mem, mem, n1, "dirty", a, w, F, R)
  <2>1. PutReady(l1, mem, mem, n1, "dirty", a, w, F, R)
    BY <1>1, <1>2, <1>3, <1>b DEF PutReady
  <2> QED BY <2>1, AnyPut
<1>c. Makes(l2, mem, n2) /\ Shape(n2) /\ Touches(mem, n2, F, R)
  BY <1>12, <1>w DEF PutMade, l2
<1>13. PICK n3 : PutMade(n3, l2, mem, mem, n2, "dirtyCount", 0, mem["dirtyCount"][0] + 1, F, R)
  <2>1. PutReady(l2, mem, mem, n2, "dirtyCount", 0, mem["dirtyCount"][0] + 1, F, R)
    BY <1>1, <1>2, <1>3, <1>c DEF PutReady
  <2> QED BY <2>1, AnyPut
<1>d. Makes(l3, mem, n3) /\ Shape(n3) /\ Touches(mem, n3, F, R)
  BY <1>13 DEF PutMade, l3
<1>14. PICK n4 : PutMade(n4, l3, mem, mem, n3, "elementCount", 0, mem["elementCount"][0] + 1, F, R)
  <2>1. PutReady(l3, mem, mem, n3, "elementCount", 0, mem["elementCount"][0] + 1, F, R)
    BY <1>1, <1>2, <1>3, <1>d DEF PutReady
  <2> QED BY <2>1, AnyPut
<1>e. Makes(l4, mem, n4) /\ Shape(n4) /\ Touches(mem, n4, F, R)
  BY <1>14 DEF PutMade, l4
<1>15. PICK n5 : PutMade(n5, l4, mem, mem, n4, "listCount", i, mem["listCount"][i] + 1, F, R)
  <2>1. PutReady(l4, mem, mem, n4, "listCount", i, mem["listCount"][i] + 1, F, R)
    BY <1>1, <1>2, <1>3, <1>e DEF PutReady
  <2> QED BY <2>1, AnyPut
<1>f. Makes(l5, mem, n5) /\ Shape(n5) /\ Touches(mem, n5, F, R)
  BY <1>15 DEF PutMade, l5
<1>16. /\ n5["index"] = n1["index"]
       /\ n5["dirty"] = n2["dirty"] /\ n1["dirty"] = mem["dirty"]
       /\ n5["dirtyCount"] = n3["dirtyCount"] /\ n2["dirtyCount"] = mem["dirtyCount"]
       /\ n5["elementCount"] = n4["elementCount"]
       /\ n4["listCount"] = mem["listCount"]
  BY <1>1, <1>11, <1>12, <1>13, <1>14, <1>15 DEF PutMade, FirstMade
<1>17. n5["elementCount"][0] = mem["elementCount"][0] + 1
  BY <1>2, <1>c, <1>14, <1>16 DEF PutMade
<1> QED BY <1>4, <1>11, <1>12, <1>13, <1>15, <1>16, <1>17, <1>f, <1>w DEF F, R, PutMade, FirstMade

(* What makeNew's transaction on the lists leaves.                         *)
NewLinked(n, S, G, B, a, i) ==
  /\ Makes(makeNewLog(a, i), mem, n)
  /\ Lists(n, Headed(a, S), Headed(a, G), [B EXCEPT ![i] = Headed(a, B[i])])
  /\ Shape(n) /\ Touches(mem, n, MakeFields, Range(S) \cup {a})
  /\ n["index"] = [mem["index"] EXCEPT ![a] = i]
  /\ n["dirty"] = [mem["dirty"] EXCEPT ![a] = TRUE]
  /\ n["dirtyCount"] = [mem["dirtyCount"] EXCEPT ![0] = mem["dirtyCount"][0] + 1]

(* The transaction of makeNew puts the new record in front of the chain of *)
(* its bucket and of both lists, and counts it.                            *)
LEMMA MakeNewMakes ==
  ASSUME Shape(mem), NEW S, NEW G, NEW B, Lists(mem, S, G, B), NEW a \in Addr, a \notin Range(S),
         Blank(mem, a), NEW i \in Index
  PROVE  \E n : NewLinked(n, S, G, B, a, i)
<1> DEFINE ka == Put("index", a, i) \o Put("dirty", a, TRUE) \o Add("dirtyCount", 0, 1)
                 \o Add("elementCount", 0, 1) \o Add("listCount", i, 1)
           kb == ka \o If(mem["blockAddr"][i] # 0, Put("blockPrev", mem["blockAddr"][i], a)
                                                  \o Put("blockNext", a, mem["blockAddr"][i]))
                 \o Put("blockAddr", i, a)
           kc == Listed(a, "setHead", "setTail", "setNext", "setPrev")
           kd == Listed(a, "getHead", "getTail", "getNext", "getPrev")
           L == Range(S)
           R == Range(S) \cup {a}
<1>1. makeNewLog(a, i) = (kb \o kc) \o kd
  BY DEF makeNewLog
<1>2. /\ Spot(mem, S, "setHead", "setTail", "setNext", "setPrev")
      /\ Spot(mem, G, "getHead", "getTail", "getNext", "getPrev")
      /\ Range(G) = L /\ mem["elementCount"][0] = Len(S)
      /\ Buckets(mem, L, B)
  BY DEF Lists
<1>3. /\ DList(S, mem["setNext"], mem["setPrev"]) /\ DList(G, mem["getNext"], mem["getPrev"])
      /\ DList(B[i], mem["blockNext"], mem["blockPrev"])
      /\ mem["blockAddr"][i] = First(B[i]) /\ Range(B[i]) \subseteq L
      /\ a \notin Range(G) /\ a \notin Range(B[i])
  BY <1>2 DEF Spot, Buckets
<1>4. S \in Seq(Addr) /\ G \in Seq(Addr) /\ L \subseteq Addr
  BY <1>3, Sides
<1>5. /\ mem["setNext"][a] = 0 /\ mem["setPrev"][a] = 0 /\ mem["getNext"][a] = 0
      /\ mem["getPrev"][a] = 0 /\ mem["blockNext"][a] = 0 /\ mem["blockPrev"][a] = 0
  BY FieldNames DEF Blank, ZeroBlock
<1> HIDE DEF ka, kb, kc, kd, R, L
<1>6. PICK n1 : /\ Makes(ka, mem, n1)
                /\ Shape(n1) /\ Touches(mem, n1, NewFields, {a})
                /\ n1["index"] = [mem["index"] EXCEPT ![a] = i]
                /\ n1["dirty"] = [mem["dirty"] EXCEPT ![a] = TRUE]
                /\ n1["dirtyCount"] = [mem["dirtyCount"] EXCEPT ![0] = mem["dirtyCount"][0] + 1]
                /\ n1["elementCount"][0] = mem["elementCount"][0] + 1
                /\ n1["listCount"] = [mem["listCount"] EXCEPT ![i] = mem["listCount"][i] + 1]
  BY NewFieldsMake, ZenonT(30) DEF ka
<1>7. Agree(mem, n1, BucketFields) /\ Agree(mem, n1, SetFields) /\ Agree(mem, n1, GetFields)
  <2>1. BucketFields \cap NewFields = {} /\ SetFields \cap NewFields = {} /\ GetFields \cap NewFields = {}
    BY DEF BucketFields, SetFields, GetFields, NewFields
  <2> QED BY <1>6, <2>1, TheLists, AgreeAfter
<1>8. PICK n2 : /\ Makes(kb, mem, n2)
                /\ Touches(n1, n2, BucketFields, Range(B[i]) \cup {a})
                /\ HasFront(Headed(a, B[i]), B[i], n2["blockNext"], n2["blockPrev"], a)
                /\ n2["blockAddr"] = [mem["blockAddr"] EXCEPT ![i] = a]
  <2>1. Shape(n1) /\ Makes(ka, mem, n1) /\ Shape(mem) /\ Agree(mem, n1, BucketFields)
    BY <1>6, <1>7
  <2>2. DList(B[i], mem["blockNext"], mem["blockPrev"]) /\ mem["blockAddr"][i] = First(B[i])
    BY <1>3
  <2>3. a \notin Range(B[i]) /\ mem["blockNext"][a] = 0 /\ mem["blockPrev"][a] = 0
        /\ a \in Addr /\ i \in Index
    BY <1>3, <1>5
  <2> QED BY ONLY <2>1, <2>2, <2>3, BucketLinked DEF kb
<1>9. Agree(mem, n2, SetFields) /\ Agree(mem, n2, GetFields) /\ Shape(n2)
  <2>1. SetFields \cap BucketFields = {} /\ GetFields \cap BucketFields = {}
    BY DEF BucketFields, SetFields, GetFields
  <2>2. Agree(n1, n2, SetFields) /\ Agree(n1, n2, GetFields)
    BY <1>8, <2>1, TheLists, AgreeAfter
  <2> QED BY <1>7, <1>8, <2>2, AgreeBoth DEF Touches
<1>10. PICK n3 : /\ Makes(kc, n2, n3) /\ Touches(n2, n3, SetFields, R)
                 /\ Spot(n3, Headed(a, S), "setHead", "setTail", "setNext", "setPrev")
  BY <1>2, <1>5, <1>9, TheLists, ListedMakes DEF SetFields, kc, R, L
<1>11. Agree(mem, n3, GetFields) /\ Shape(n3)
  <2>1. SetFields \cap GetFields = {}
    BY DEF GetFields, SetFields
  <2>2. Agree(n2, n3, GetFields)
    BY <1>10, <2>1, TheLists, AgreeAfter
  <2> QED BY <1>9, <1>10, <2>2, AgreeBoth DEF Touches
<1>12. PICK n : /\ Makes(kd, n3, n) /\ Touches(n3, n, GetFields, R)
                /\ Spot(n, Headed(a, G), "getHead", "getTail", "getNext", "getPrev")
  BY <1>2, <1>3, <1>5, <1>11, TheLists, ListedMakes DEF GetFields, kd, R, L
<1>13. Makes(makeNewLog(a, i), mem, n)
  <2>1. Makes(kb \o kc, mem, n3)
    BY <1>8, <1>10, LogOfTwo
  <2> QED BY <1>1, <1>12, <2>1, LogOfTwo
<1>14. Touches(mem, n, MakeFields, R) /\ Shape(n)
  <2>1. /\ NewFields \subseteq MakeFields /\ BucketFields \subseteq MakeFields
        /\ SetFields \subseteq MakeFields /\ GetFields \subseteq MakeFields
        /\ {a} \subseteq R /\ Range(B[i]) \cup {a} \subseteq R
    BY <1>3 DEF MakeFields, R, L
  <2>2. Touches(mem, n1, MakeFields, R)
    BY <1>6, <2>1, TouchesMore
  <2>3. Touches(n1, n2, MakeFields, R)
    BY <1>8, <2>1, TouchesMore
  <2>4. Touches(n2, n3, MakeFields, R)
    BY <1>10, <2>1, TouchesMore
  <2>5. Touches(n3, n, MakeFields, R)
    BY <1>12, <2>1, TouchesMore
  <2>6. Touches(mem, n3, MakeFields, R)
    BY <2>2, <2>3, <2>4, TouchesBoth
  <2> QED BY <2>5, <2>6, TouchesBoth DEF Touches
<1>15. Agree(n1, n, NewFields) /\ Agree(n2, n, BucketFields) /\ Agree(n3, n, SetFields)
  <2>1. /\ NewFields \cap BucketFields = {} /\ NewFields \cap SetFields = {}
        /\ NewFields \cap GetFields = {} /\ BucketFields \cap SetFields = {}
        /\ BucketFields \cap GetFields = {} /\ SetFields \cap GetFields = {}
    BY DEF BucketFields, SetFields, GetFields, NewFields
  <2>2. Agree(n1, n2, NewFields) /\ Agree(n2, n3, NewFields) /\ Agree(n3, n, NewFields)
    BY <1>8, <1>10, <1>12, <2>1, TheLists, AgreeAfter
  <2>3. Agree(n2, n3, BucketFields) /\ Agree(n3, n, BucketFields)
    BY <1>10, <1>12, <2>1, TheLists, AgreeAfter
  <2>4. Agree(n3, n, SetFields)
    BY <1>12, <2>1, TheLists, AgreeAfter
  <2> QED BY <2>2, <2>3, <2>4, AgreeBoth
<1>16. /\ n["index"] = n1["index"] /\ n["dirty"] = n1["dirty"] /\ n["dirtyCount"] = n1["dirtyCount"]
       /\ n["elementCount"] = n1["elementCount"] /\ n["listCount"] = n1["listCount"]
       /\ n["blockNext"] = n2["blockNext"] /\ n["blockPrev"] = n2["blockPrev"]
       /\ n["blockAddr"] = n2["blockAddr"]
       /\ n["setHead"] = n3["setHead"] /\ n["setTail"] = n3["setTail"]
       /\ n["setNext"] = n3["setNext"] /\ n["setPrev"] = n3["setPrev"]
  BY <1>15 DEF Agree, NewFields, BucketFields, SetFields
<1>17. Spot(n, Headed(a, S), "setHead", "setTail", "setNext", "setPrev")
  BY <1>10, <1>16 DEF Spot
<1>18. \A b \in Addr : b \notin Range(B[i]) \cup {a} =>
         n["blockNext"][b] = mem["blockNext"][b] /\ n["blockPrev"][b] = mem["blockPrev"][b]
  <2>1. \A b \in Addr : b \notin Range(B[i]) \cup {a} =>
          n2["blockNext"][b] = n1["blockNext"][b] /\ n2["blockPrev"][b] = n1["blockPrev"][b]
    BY <1>8, FieldNames, Unaltered
  <2>2. n1["blockNext"] = mem["blockNext"] /\ n1["blockPrev"] = mem["blockPrev"]
    BY <1>7 DEF Agree, BucketFields
  <2> QED BY <1>16, <2>1, <2>2
<1>19. Buckets(n, L \cup {a}, [B EXCEPT ![i] = Headed(a, B[i])])
  <2>1. a \notin L
    BY DEF L
  <2>2. Buckets(mem, L, B) /\ L \in SUBSET Addr /\ Shape(mem)
    BY <1>2, <1>4
  <2>3. HasFront(Headed(a, B[i]), B[i], n["blockNext"], n["blockPrev"], a)
    BY <1>8, <1>16
  <2>4. /\ n["blockAddr"] = [mem["blockAddr"] EXCEPT ![i] = a]
        /\ n["index"] = [mem["index"] EXCEPT ![a] = i]
        /\ n["listCount"] = [mem["listCount"] EXCEPT ![i] = mem["listCount"][i] + 1]
    BY <1>6, <1>8, <1>16
  <2>5. a \in Addr /\ i \in Index
    OBVIOUS
  <2> QED BY ONLY <1>18, <2>1, <2>2, <2>3, <2>4, <2>5, BucketsPushed
<1>20. /\ Range(Headed(a, S)) = L \cup {a} /\ Range(Headed(a, G)) = L \cup {a}
       /\ Len(Headed(a, S)) = Len(S) + 1
  BY <1>2, <1>4, FrontOf DEF L
<1>21. n["elementCount"][0] = Len(Headed(a, S))
  BY <1>2, <1>6, <1>16, <1>20
<1>22. Lists(n, Headed(a, S), Headed(a, G), [B EXCEPT ![i] = Headed(a, B[i])])
  BY <1>12, <1>17, <1>19, <1>20, <1>21 DEF Lists
<1> QED BY <1>6, <1>13, <1>14, <1>16, <1>22 DEF NewLinked, R, L

UnlinkFields == BucketFields \cup {"listCount"}

(* Block q of bucket i, whose blocks are s, leaves it.                     *)
Unlinking(l, i, s, q) ==
  LET prev == mem["blockPrev"][s[q]]
      next == mem["blockNext"][s[q]]
  IN  l \o If(prev # 0, Put("blockNext", prev, next))
        \o If(next # 0, Put("blockPrev", next, prev))
        \o Add("listCount", i, -1)
        \o If(prev = 0, Put("blockAddr", i, next))

UnlinkReady(l, n, i, s, q) ==
  /\ i \in Index /\ q \in 1 .. Len(s) /\ Makes(l, mem, n) /\ Shape(n) /\ Shape(mem)
  /\ Agree(mem, n, UnlinkFields)
  /\ DList(s, mem["blockNext"], mem["blockPrev"]) /\ mem["blockAddr"][i] = First(s)

UnlinkMade(o, l, n, i, s, q) ==
  /\ Makes(Unlinking(l, i, s, q), mem, o) /\ Touches(n, o, UnlinkFields, Range(s))
  /\ IsWithout(Without(s, q), s, mem["blockNext"], mem["blockPrev"],
               o["blockNext"], o["blockPrev"], q)
  /\ \A j \in Index : o["blockAddr"][j] =
       IF j = i THEN First(Without(s, q)) ELSE mem["blockAddr"][j]
  /\ o["listCount"] = [mem["listCount"] EXCEPT ![i] = mem["listCount"][i] - 1]

(* The part of Block::erase about the bucket takes the block out of its    *)
(* chain.                                                                  *)
LEMMA BucketUnlinked ==
  ASSUME NEW l, NEW n, NEW i, NEW s, NEW q, UnlinkReady(l, n, i, s, q)
  PROVE  \E o : UnlinkMade(o, l, n, i, s, q)
<1>0. /\ i \in Index /\ q \in 1 .. Len(s) /\ Makes(l, mem, n) /\ Shape(n) /\ Shape(mem)
      /\ Agree(mem, n, UnlinkFields)
      /\ DList(s, mem["blockNext"], mem["blockPrev"]) /\ mem["blockAddr"][i] = First(s)
  BY DEF UnlinkReady
<1> USE <1>0
<1> DEFINE F == UnlinkFields
           R == Range(s)
           a == s[q]
           prev == mem["blockPrev"][s[q]]
           next == mem["blockNext"][s[q]]
<1>1. /\ "blockNext" \in BlockFields /\ "blockPrev" \in BlockFields
      /\ "blockNext" \in Fields /\ "blockPrev" \in Fields /\ "blockAddr" \in Fields
      /\ "listCount" \in Fields
      /\ "blockNext" \in F /\ "blockPrev" \in F /\ "blockAddr" \in F /\ "listCount" \in F
      /\ "blockAddr" \notin BlockFields /\ "listCount" \notin BlockFields
  BY FieldNames DEF Fields, BucketFields, UnlinkFields
<1>2. \A m : Shape(m) => /\ DOMAIN m["blockNext"] = Addr /\ DOMAIN m["blockPrev"] = Addr
                         /\ DOMAIN m["blockAddr"] = Index /\ DOMAIN m["listCount"] = Index
  BY <1>1, ShapeOf
<1>3. /\ n["blockNext"] = mem["blockNext"] /\ n["blockPrev"] = mem["blockPrev"]
      /\ n["blockAddr"] = mem["blockAddr"] /\ n["listCount"] = mem["listCount"]
  BY DEF Agree, BucketFields, UnlinkFields
<1>4. /\ Len(s) \in Nat /\ q \in Int /\ R \subseteq Addr
      /\ \A j \in 1 .. Len(s) : s[j] \in R
      /\ \A j, k \in 1 .. Len(s) : s[j] = s[k] => j = k
      /\ next = IF q = Len(s) THEN 0 ELSE s[q + 1]
      /\ prev = IF q = 1 THEN 0 ELSE s[q - 1]
      /\ First(s) = IF Len(s) = 0 THEN 0 ELSE s[1]
  BY Sides
<1>5. 0 \notin Addr
  BY HashMapAssumption
<1>6. /\ q # 1 => q - 1 \in 1 .. Len(s) /\ prev = s[q - 1] /\ prev \in R /\ prev \in Addr /\ prev # 0
      /\ q # Len(s) => q + 1 \in 1 .. Len(s) /\ next = s[q + 1] /\ next \in R /\ next \in Addr
                       /\ next # 0
      /\ q = 1 => prev = 0
      /\ q = Len(s) => next = 0
  BY <1>4, <1>5
<1> HIDE DEF F, R, a, prev, next
<1>c. PICK c : c \in BOOLEAN /\ (c <=> prev # 0)
  OBVIOUS
<1>d. PICK d : d \in BOOLEAN /\ (d <=> next # 0)
  OBVIOUS
<1>e. PICK e : e \in BOOLEAN /\ (e <=> prev = 0)
  OBVIOUS
<1>t. Touches(n, n, F, R)
  BY TouchesNothing
<1> DEFINE ka == If(c, Put("blockNext", prev, next))
           kb == If(d, Put("blockPrev", next, prev))
           kc == Put("listCount", i, mem["listCount"][i] + (-1))
           kd == If(e, Put("blockAddr", i, next))
<1>7. Unlinking(l, i, s, q) = l \o ka \o kb \o kc \o kd
  BY <1>c, <1>d, <1>e DEF If, Add, Unlinking, prev, next, a
<1>8. PICK n1 : IfMade(n1, l, mem, n, n, c, "blockNext", prev, next, F, R)
  <2>1. c => prev \in DOMAIN n["blockNext"] /\ prev \in R
    BY <1>2, <1>6, <1>c
  <2>2. IfReady(l, mem, n, n, c, "blockNext", prev, next, F, R)
    BY <1>1, <1>t, <2>1 DEF IfReady
  <2> QED BY <2>2, AnyIf
<1> HIDE DEF ka, kb, kc, kd
<1>f. Makes(l \o ka, mem, n1) /\ Shape(n1) /\ Touches(n, n1, F, R)
  BY <1>8 DEF IfMade, ka
<1>9. PICK n2 : IfMade(n2, l \o ka, mem, n, n1, d, "blockPrev", next, prev, F, R)
  <2>1. d => next \in DOMAIN n1["blockPrev"] /\ next \in R
    BY <1>2, <1>6, <1>f, <1>d
  <2>2. IfReady(l \o ka, mem, n, n1, d, "blockPrev", next, prev, F, R)
    BY <1>1, <1>f, <2>1 DEF IfReady
  <2> QED BY <2>2, AnyIf
<1>g. Makes(l \o ka \o kb, mem, n2) /\ Shape(n2) /\ Touches(n, n2, F, R)
  BY <1>9 DEF IfMade, kb
<1>10. PICK n3 : PutMade(n3, l \o ka \o kb, mem, n, n2, "listCount", i, mem["listCount"][i] + (-1), F, R)
  <2>1. i \in DOMAIN n2["listCount"]
    BY <1>2, <1>g
  <2>2. PutReady(l \o ka \o kb, mem, n, n2, "listCount", i, mem["listCount"][i] + (-1), F, R)
    BY <1>1, <1>g, <2>1 DEF PutReady
  <2> QED BY <2>2, AnyPut
<1>h. Makes(l \o ka \o kb \o kc, mem, n3) /\ Shape(n3) /\ Touches(n, n3, F, R)
  BY <1>10 DEF PutMade, kc
<1>11. PICK o : IfMade(o, l \o ka \o kb \o kc, mem, n, n3, e, "blockAddr", i, next, F, R)
  <2>1. e => i \in DOMAIN n3["blockAddr"]
    BY <1>2, <1>h
  <2>2. IfReady(l \o ka \o kb \o kc, mem, n, n3, e, "blockAddr", i, next, F, R)
    BY <1>1, <1>h, <2>1 DEF IfReady
  <2> QED BY <2>2, AnyIf
<1>k. Makes(l \o ka \o kb \o kc \o kd, mem, o) /\ Shape(o) /\ Touches(n, o, F, R)
  BY <1>11 DEF IfMade, kd
<1>13. /\ o["blockNext"] = n1["blockNext"] /\ o["blockPrev"] = n2["blockPrev"]
       /\ n1["blockPrev"] = mem["blockPrev"]
       /\ o["listCount"] = [mem["listCount"] EXCEPT ![i] = mem["listCount"][i] - 1]
       /\ n3["blockAddr"] = mem["blockAddr"]
  BY <1>1, <1>3, <1>8, <1>9, <1>10, <1>11 DEF IfMade, PutMade
<1>14. \A b \in R : o["blockNext"][b] = IF q > 1 /\ b = s[q - 1] THEN next ELSE mem["blockNext"][b]
  <2>1. q # 1 <=> q > 1
    BY <1>4
  <2> QED BY <1>2, <1>3, <1>4, <1>6, <1>8, <1>13, <1>c, <2>1 DEF IfMade
<1>15. \A b \in R : o["blockPrev"][b] =
         IF q < Len(s) /\ b = s[q + 1] THEN prev ELSE mem["blockPrev"][b]
  <2>1. q # Len(s) <=> q < Len(s)
    BY <1>4
  <2> QED BY <1>2, <1>4, <1>6, <1>f, <1>9, <1>13, <1>d, <2>1 DEF IfMade
<1>16. Removing(s, mem["blockNext"], mem["blockPrev"], o["blockNext"], o["blockPrev"], q)
  BY <1>14, <1>15 DEF Removing, R, prev, next
<1>17. IsWithout(Without(s, q), s, mem["blockNext"], mem["blockPrev"],
                 o["blockNext"], o["blockPrev"], q)
  BY <1>16, Removed
<1>18. First(Without(s, q)) = IF q = 1 THEN next ELSE First(s)
  BY <1>17 DEF IsWithout, next
<1>19. \A j \in Index : o["blockAddr"][j] =
         IF j = i THEN First(Without(s, q)) ELSE mem["blockAddr"][j]
  BY <1>2, <1>6, <1>h, <1>11, <1>13, <1>18, <1>e DEF IfMade
<1> QED BY <1>7, <1>13, <1>17, <1>19, <1>k DEF F, R, UnlinkMade

CursorFields == {"dirtyTail", "syncTail", "backupTail"}
CountFields == {"dirtyCount", "onlyKeyCount", "elementCount"}
EraseFields == SetFields \cup GetFields \cup UnlinkFields \cup CursorFields \cup CountFields

(* The cursors and the counts are fields of the head.                      *)
LEMMA MoreFields ==
  /\ UnlinkFields \subseteq Fields /\ CursorFields \subseteq Fields /\ CountFields \subseteq Fields
  /\ \A m : Shape(m) => \A f \in CursorFields \cup CountFields \cup {"usedChunk"} : DOMAIN m[f] = {0}
  /\ \A f \in CursorFields \cup CountFields \cup {"usedChunk"} : f \in Fields /\ f \notin BlockFields
<1>1. CursorFields \cup CountFields \cup {"usedChunk"} \subseteq HeadFields
  BY DEF CursorFields, CountFields, HeadFields
<1>2. \A f \in HeadFields : f \in Fields /\ f \notin BlockFields
  BY FieldNames DEF Fields
<1>3. UnlinkFields \subseteq Fields
  BY TheLists DEF UnlinkFields, Fields
<1> QED BY <1>1, <1>2, <1>3, ShapeOf

(* The cursors leave block a.                                              *)
LEMMA CursorsOffMakes ==
  ASSUME Shape(mem), NEW a
  PROVE  \E o : /\ Makes(CursorsOff(a), mem, o) /\ Touches(mem, o, CursorFields, {})
                /\ o["dirtyTail"][0] = IF DirtyTail = a THEN mem["setPrev"][a] ELSE DirtyTail
                /\ o["syncTail"][0] = IF SyncTail = a THEN mem["setPrev"][a] ELSE SyncTail
                /\ o["backupTail"][0] = IF BackupTail = a THEN mem["getPrev"][a] ELSE BackupTail
<1> DEFINE F == CursorFields
           R == {}
           p == mem["setPrev"][a]
           q == mem["getPrev"][a]
<1>1. /\ "dirtyTail" \in F /\ "syncTail" \in F /\ "backupTail" \in F
      /\ "dirtyTail" \in Fields /\ "syncTail" \in Fields /\ "backupTail" \in Fields
      /\ "dirtyTail" \notin BlockFields /\ "syncTail" \notin BlockFields
      /\ "backupTail" \notin BlockFields
      /\ \A m : Shape(m) => /\ DOMAIN m["dirtyTail"] = {0} /\ DOMAIN m["syncTail"] = {0}
                            /\ DOMAIN m["backupTail"] = {0}
  BY MoreFields DEF CursorFields
<1>c. PICK c : c \in BOOLEAN /\ (c <=> DirtyTail = a)
  OBVIOUS
<1>d. PICK d : d \in BOOLEAN /\ (d <=> SyncTail = a)
  OBVIOUS
<1>e. PICK e : e \in BOOLEAN /\ (e <=> BackupTail = a)
  OBVIOUS
<1> DEFINE ka == If(c, Put("dirtyTail", 0, p))
           kb == If(d, Put("syncTail", 0, p))
           kc == If(e, Put("backupTail", 0, q))
<1>2. CursorsOff(a) = ka \o kb \o kc
  BY <1>c, <1>d, <1>e DEF CursorsOff, If
<1> HIDE DEF F, p, q, ka, kb, kc
<1>3. PICK n1 : FirstMade(n1, mem, c, "dirtyTail", 0, p, F, R)
  <2>1. FirstReady(mem, c, "dirtyTail", 0, p, F, R)
    BY <1>1 DEF FirstReady
  <2> QED BY <2>1, FirstIf
<1>4. Makes(ka, mem, n1) /\ Shape(n1) /\ Touches(mem, n1, F, R)
  BY <1>3 DEF FirstMade, ka
<1>5. PICK n2 : IfMade(n2, ka, mem, mem, n1, d, "syncTail", 0, p, F, R)
  <2>1. IfReady(ka, mem, mem, n1, d, "syncTail", 0, p, F, R)
    BY <1>1, <1>4 DEF IfReady
  <2> QED BY <2>1, AnyIf
<1>6. Makes(ka \o kb, mem, n2) /\ Shape(n2) /\ Touches(mem, n2, F, R)
  BY <1>5 DEF IfMade, kb
<1>7. PICK o : IfMade(o, ka \o kb, mem, mem, n2, e, "backupTail", 0, q, F, R)
  <2>1. IfReady(ka \o kb, mem, mem, n2, e, "backupTail", 0, q, F, R)
    BY <1>1, <1>6 DEF IfReady
  <2> QED BY <2>1, AnyIf
<1>8. Makes(ka \o kb \o kc, mem, o) /\ Touches(mem, o, F, R)
  BY <1>7 DEF IfMade, kc
<1>9. /\ n1["dirtyTail"] = IF c THEN [mem["dirtyTail"] EXCEPT ![0] = p] ELSE mem["dirtyTail"]
      /\ n1["syncTail"] = mem["syncTail"] /\ n1["backupTail"] = mem["backupTail"]
  BY <1>1, <1>3 DEF FirstMade
<1>10. /\ n2["syncTail"] = IF d THEN [n1["syncTail"] EXCEPT ![0] = p] ELSE n1["syncTail"]
       /\ n2["dirtyTail"] = n1["dirtyTail"] /\ n2["backupTail"] = n1["backupTail"]
  BY <1>1, <1>5 DEF IfMade
<1>11. /\ o["backupTail"] = IF e THEN [n2["backupTail"] EXCEPT ![0] = q] ELSE n2["backupTail"]
       /\ o["dirtyTail"] = n2["dirtyTail"] /\ o["syncTail"] = n2["syncTail"]
  BY <1>1, <1>7 DEF IfMade
<1>12. o["dirtyTail"][0] = IF DirtyTail = a THEN p ELSE DirtyTail
  BY <1>1, <1>9, <1>10, <1>11, <1>c DEF DirtyTail
<1>13. o["syncTail"][0] = IF SyncTail = a THEN p ELSE SyncTail
  BY <1>1, <1>9, <1>10, <1>11, <1>d DEF SyncTail
<1>14. o["backupTail"][0] = IF BackupTail = a THEN q ELSE BackupTail
  BY <1>1, <1>9, <1>10, <1>11, <1>e DEF BackupTail
<1> QED BY <1>2, <1>8, <1>12, <1>13, <1>14 DEF F, p, q

(* The counts of the map without block a.                                  *)
LEMMA CountsOffMake ==
  ASSUME NEW l, NEW n, Makes(l, mem, n), Shape(n), Agree(mem, n, CountFields), NEW a
  PROVE  \E o : /\ Makes(l \o If(mem["dirty"][a], Add("dirtyCount", 0, -1))
                           \o If(mem["onlyKey"][a], Add("onlyKeyCount", 0, -1))
                           \o Add("elementCount", 0, -1), mem, o)
                /\ Touches(n, o, CountFields, {})
                /\ o["dirtyCount"][0] = IF mem["dirty"][a] THEN mem["dirtyCount"][0] - 1
                                        ELSE mem["dirtyCount"][0]
                /\ o["onlyKeyCount"][0] = IF mem["onlyKey"][a] THEN mem["onlyKeyCount"][0] - 1
                                          ELSE mem["onlyKeyCount"][0]
                /\ o["elementCount"][0] = mem["elementCount"][0] - 1
<1> DEFINE F == CountFields
           R == {}
           u == mem["dirtyCount"][0] + (-1)
           v == mem["onlyKeyCount"][0] + (-1)
           w == mem["elementCount"][0] + (-1)
           c == mem["dirty"][a]
           d == mem["onlyKey"][a]
           ka == If(c, Put("dirtyCount", 0, u))
           kb == If(d, Put("onlyKeyCount", 0, v))
           kc == Put("elementCount", 0, w)
<1>1. /\ "dirtyCount" \in F /\ "onlyKeyCount" \in F /\ "elementCount" \in F
      /\ "dirtyCount" \in Fields /\ "onlyKeyCount" \in Fields /\ "elementCount" \in Fields
      /\ "dirtyCount" \notin BlockFields /\ "onlyKeyCount" \notin BlockFields
      /\ "elementCount" \notin BlockFields
      /\ \A m : Shape(m) => /\ DOMAIN m["dirtyCount"] = {0} /\ DOMAIN m["onlyKeyCount"] = {0}
                            /\ DOMAIN m["elementCount"] = {0}
  BY MoreFields DEF CountFields
<1>2. l \o If(mem["dirty"][a], Add("dirtyCount", 0, -1))
        \o If(mem["onlyKey"][a], Add("onlyKeyCount", 0, -1)) \o Add("elementCount", 0, -1)
      = l \o ka \o kb \o kc
  BY DEF Add
<1>3. /\ n["dirtyCount"] = mem["dirtyCount"] /\ n["onlyKeyCount"] = mem["onlyKeyCount"]
      /\ n["elementCount"] = mem["elementCount"]
  BY DEF Agree, CountFields
<1>4. Touches(n, n, F, R)
  BY TouchesNothing
<1> HIDE DEF F, u, v, w, c, d, ka, kb, kc
<1>5. PICK n1 : IfMade(n1, l, mem, n, n, c, "dirtyCount", 0, u, F, R)
  <2>1. IfReady(l, mem, n, n, c, "dirtyCount", 0, u, F, R)
    BY <1>1, <1>4 DEF IfReady
  <2> QED BY <2>1, AnyIf
<1>6. Makes(l \o ka, mem, n1) /\ Shape(n1) /\ Touches(n, n1, F, R)
  BY <1>5 DEF IfMade, ka
<1>7. PICK n2 : IfMade(n2, l \o ka, mem, n, n1, d, "onlyKeyCount", 0, v, F, R)
  <2>1. IfReady(l \o ka, mem, n, n1, d, "onlyKeyCount", 0, v, F, R)
    BY <1>1, <1>6 DEF IfReady
  <2> QED BY <2>1, AnyIf
<1>8. Makes(l \o ka \o kb, mem, n2) /\ Shape(n2) /\ Touches(n, n2, F, R)
  BY <1>7 DEF IfMade, kb
<1>9. PICK o : PutMade(o, l \o ka \o kb, mem, n, n2, "elementCount", 0, w, F, R)
  <2>1. PutReady(l \o ka \o kb, mem, n, n2, "elementCount", 0, w, F, R)
    BY <1>1, <1>8 DEF PutReady
  <2> QED BY <2>1, AnyPut
<1>10. Makes(l \o ka \o kb \o kc, mem, o) /\ Touches(n, o, F, R)
  BY <1>9 DEF PutMade, kc
<1>11. /\ n1["dirtyCount"] = IF c THEN [mem["dirtyCount"] EXCEPT ![0] = u] ELSE mem["dirtyCount"]
       /\ n1["onlyKeyCount"] = mem["onlyKeyCount"] /\ n1["elementCount"] = mem["elementCount"]
  BY <1>1, <1>3, <1>5 DEF IfMade
<1>12. /\ n2["onlyKeyCount"] = IF d THEN [n1["onlyKeyCount"] EXCEPT ![0] = v] ELSE n1["onlyKeyCount"]
       /\ n2["dirtyCount"] = n1["dirtyCount"] /\ n2["elementCount"] = n1["elementCount"]
  BY <1>1, <1>7 DEF IfMade
<1>13. /\ o["elementCount"] = [n2["elementCount"] EXCEPT ![0] = w]
       /\ o["dirtyCount"] = n2["dirtyCount"] /\ o["onlyKeyCount"] = n2["onlyKeyCount"]
  BY <1>1, <1>9 DEF PutMade
<1>14. /\ \A m : Shape(m) => 0 \in DOMAIN m["elementCount"]
       /\ DOMAIN mem["dirtyCount"] = {0} /\ DOMAIN mem["onlyKeyCount"] = {0}
  BY <1>1, <1>3
<1>15. o["elementCount"][0] = w
  BY <1>8, <1>13, <1>14
<1>16. o["dirtyCount"][0] = IF c THEN u ELSE mem["dirtyCount"][0]
  BY <1>11, <1>12, <1>13, <1>14
<1>17. o["onlyKeyCount"][0] = IF d THEN v ELSE mem["onlyKeyCount"][0]
  BY <1>11, <1>12, <1>13, <1>14
<1> QED BY <1>2, <1>10, <1>15, <1>16, <1>17 DEF F, u, v, w, c, d

(* What Block::erase changes in its parts are different fields.            *)
LEMMA EraseFieldsApart ==
  /\ CursorFields \cap SetFields = {} /\ CursorFields \cap GetFields = {}
  /\ CursorFields \cap UnlinkFields = {} /\ CursorFields \cap CountFields = {}
  /\ SetFields \cap GetFields = {} /\ SetFields \cap UnlinkFields = {}
  /\ SetFields \cap CountFields = {} /\ GetFields \cap UnlinkFields = {}
  /\ GetFields \cap CountFields = {} /\ UnlinkFields \cap CountFields = {}
  /\ \A f \in {"index", "dirty", "onlyKey", "nextChunk", "len", "key", "val", "usedChunk"} :
       f \in Fields /\ f \notin EraseFields
  /\ CursorFields \subseteq EraseFields /\ SetFields \subseteq EraseFields
  /\ GetFields \subseteq EraseFields /\ UnlinkFields \subseteq EraseFields
  /\ CountFields \subseteq EraseFields
<1>1. \A f \in {"index", "dirty", "onlyKey", "nextChunk", "len", "key", "val", "usedChunk"} : f \in Fields
  BY FieldNames DEF Fields, HeadFields
<1> QED BY <1>1 DEF CursorFields, SetFields, GetFields, UnlinkFields, BucketFields, CountFields, EraseFields

(* What Block::erase of a makes of the lists of a whole map.               *)
Erased(n, S, G, B, p, q, r) ==
  LET a == S[p]
      i == mem["index"][a]
  IN  /\ Makes(eraseLog(a), mem, n)
      /\ Shape(n) /\ Touches(mem, n, EraseFields, Range(S))
      /\ Lists(n, Without(S, p), Without(G, q), [B EXCEPT ![i] = Without(B[i], r)])
      /\ n["dirtyTail"][0] = IF DirtyTail = a THEN mem["setPrev"][a] ELSE DirtyTail
      /\ n["syncTail"][0] = IF SyncTail = a THEN mem["setPrev"][a] ELSE SyncTail
      /\ n["backupTail"][0] = IF BackupTail = a THEN mem["getPrev"][a] ELSE BackupTail
      /\ n["dirtyCount"][0] = IF mem["dirty"][a] THEN mem["dirtyCount"][0] - 1
                              ELSE mem["dirtyCount"][0]
      /\ n["onlyKeyCount"][0] = IF mem["onlyKey"][a] THEN mem["onlyKeyCount"][0] - 1
                                ELSE mem["onlyKeyCount"][0]

(* The transaction of Block::erase takes a record out of its bucket and    *)
(* out of both lists, moves the cursors off it and counts it no longer.    *)
LEMMA EraseMakes ==
  ASSUME Shape(mem), NEW S, NEW G, NEW B, Lists(mem, S, G, B), NEW p \in 1 .. Len(S)
  PROVE  \E n, q, r : q \in 1 .. Len(G) /\ G[q] = S[p] /\ Erased(n, S, G, B, p, q, r)
<1> DEFINE a == S[p]
           i == mem["index"][a]
           L == Range(S)
           prev == mem["blockPrev"][a]
           next == mem["blockNext"][a]
           ka == CursorsOff(a)
           kb == Unlisted(a, "setHead", "setTail", "setNext", "setPrev")
           kc == Unlisted(a, "getHead", "getTail", "getNext", "getPrev")
           l3 == ka \o kb \o kc
           l4 == l3 \o If(prev # 0, Put("blockNext", prev, next))
                    \o If(next # 0, Put("blockPrev", next, prev))
                    \o Add("listCount", i, -1)
                    \o If(prev = 0, Put("blockAddr", i, next))
           l5 == l4 \o If(mem["dirty"][a], Add("dirtyCount", 0, -1))
                    \o If(mem["onlyKey"][a], Add("onlyKeyCount", 0, -1))
                    \o Add("elementCount", 0, -1)
<1>1. eraseLog(a) = l5
  BY Zenon DEF eraseLog
<1>2. /\ Spot(mem, S, "setHead", "setTail", "setNext", "setPrev")
      /\ Spot(mem, G, "getHead", "getTail", "getNext", "getPrev")
      /\ Range(G) = L /\ mem["elementCount"][0] = Len(S)
      /\ Buckets(mem, L, B)
  BY DEF Lists
<1>3. DList(S, mem["setNext"], mem["setPrev"]) /\ DList(G, mem["getNext"], mem["getPrev"])
  BY <1>2 DEF Spot
<1>4. a \in L /\ L \subseteq Addr /\ S[p] = a /\ Len(S) \in Nat
  BY <1>3, Sides
<1>5. i \in Index
  BY <1>2, <1>4 DEF Buckets
<1>6. /\ DList(B[i], mem["blockNext"], mem["blockPrev"]) /\ mem["blockAddr"][i] = First(B[i])
      /\ a \in Range(B[i]) /\ Range(B[i]) \subseteq L
  BY <1>2, <1>4, <1>5 DEF Buckets
<1>7. PICK q \in 1 .. Len(G) : G[q] = a
  BY <1>2, <1>3, <1>4, Sides
<1>8. PICK r \in 1 .. Len(B[i]) : B[i][r] = a
  <2>1. \A b : b \in Range(B[i]) <=> \E j \in 1 .. Len(B[i]) : B[i][j] = b
    BY ONLY <1>6, Sides
  <2> QED BY <1>6, <2>1
<1> HIDE DEF a, i, L, prev, next, ka, kb, kc, l3, l4, l5
<1>11. PICK n1 : /\ Makes(ka, mem, n1) /\ Touches(mem, n1, CursorFields, {})
                 /\ n1["dirtyTail"][0] = IF DirtyTail = a THEN mem["setPrev"][a] ELSE DirtyTail
                 /\ n1["syncTail"][0] = IF SyncTail = a THEN mem["setPrev"][a] ELSE SyncTail
                 /\ n1["backupTail"][0] = IF BackupTail = a THEN mem["getPrev"][a] ELSE BackupTail
  BY CursorsOffMakes DEF ka
<1>12. Agree(mem, n1, SetFields) /\ Agree(mem, n1, GetFields) /\ Agree(mem, n1, UnlinkFields)
       /\ Agree(mem, n1, CountFields) /\ Shape(n1)
  <2>1. Shape(n1)
    BY <1>11 DEF Touches
  <2> QED BY <1>11, <2>1, TheLists, MoreFields, EraseFieldsApart, AgreeAfter
<1>13. PICK n2 : /\ Makes(kb, n1, n2) /\ Touches(n1, n2, SetFields, L)
                 /\ Spot(n2, Without(S, p), "setHead", "setTail", "setNext", "setPrev")
  <2>1. \E o : /\ Makes(Unlisted(S[p], "setHead", "setTail", "setNext", "setPrev"), n1, o)
               /\ Touches(n1, o, {"setHead", "setTail", "setNext", "setPrev"}, Range(S))
               /\ Spot(o, Without(S, p), "setHead", "setTail", "setNext", "setPrev")
    <3>1. Shape(n1) /\ Shape(mem) /\ Agree(mem, n1, {"setHead", "setTail", "setNext", "setPrev"})
      BY <1>12 DEF SetFields
    <3>2. ListFields("setHead", "setTail", "setNext", "setPrev")
          /\ Spot(mem, S, "setHead", "setTail", "setNext", "setPrev")
      BY <1>2, TheLists
    <3>3. p \in 1 .. Len(S)
      OBVIOUS
    <3> QED BY ONLY <3>1, <3>2, <3>3, UnlistedMakes
  <2> QED BY <1>4, <2>1 DEF kb, SetFields, L
<1>14. Agree(mem, n2, GetFields) /\ Agree(mem, n2, UnlinkFields) /\ Agree(mem, n2, CountFields)
       /\ Shape(n2) /\ Agree(n1, n2, CursorFields)
  <2>1. Agree(n1, n2, GetFields) /\ Agree(n1, n2, UnlinkFields) /\ Agree(n1, n2, CountFields)
        /\ Agree(n1, n2, CursorFields)
    BY <1>13, TheLists, MoreFields, EraseFieldsApart, AgreeAfter
  <2> QED BY <1>12, <1>13, <2>1, AgreeBoth DEF Touches
<1>15. PICK n3 : /\ Makes(kc, n2, n3) /\ Touches(n2, n3, GetFields, L)
                 /\ Spot(n3, Without(G, q), "getHead", "getTail", "getNext", "getPrev")
  <2>1. \E o : /\ Makes(Unlisted(G[q], "getHead", "getTail", "getNext", "getPrev"), n2, o)
               /\ Touches(n2, o, {"getHead", "getTail", "getNext", "getPrev"}, Range(G))
               /\ Spot(o, Without(G, q), "getHead", "getTail", "getNext", "getPrev")
    <3>1. Shape(n2) /\ Shape(mem) /\ Agree(mem, n2, {"getHead", "getTail", "getNext", "getPrev"})
      BY <1>14 DEF GetFields
    <3>2. ListFields("getHead", "getTail", "getNext", "getPrev")
          /\ Spot(mem, G, "getHead", "getTail", "getNext", "getPrev")
      BY <1>2, TheLists
    <3>3. q \in 1 .. Len(G)
      OBVIOUS
    <3> QED BY ONLY <3>1, <3>2, <3>3, UnlistedMakes
  <2> QED BY <1>2, <1>7, <2>1 DEF kc, GetFields
<1>16. Agree(mem, n3, UnlinkFields) /\ Agree(mem, n3, CountFields)
       /\ Shape(n3) /\ Agree(n1, n3, CursorFields) /\ Agree(n2, n3, SetFields)
  <2>1. Agree(n2, n3, UnlinkFields) /\ Agree(n2, n3, CountFields)
        /\ Agree(n2, n3, CursorFields) /\ Agree(n2, n3, SetFields)
    BY <1>15, TheLists, MoreFields, EraseFieldsApart, AgreeAfter
  <2> QED BY <1>14, <1>15, <2>1, AgreeBoth DEF Touches
<1>17. Makes(l3, mem, n3)
  <2>1. Makes(ka \o kb, mem, n2)
    BY <1>11, <1>13, LogOfTwo
  <2> QED BY <1>15, <2>1, LogOfTwo DEF l3
<1>18. PICK n4 : /\ Makes(l4, mem, n4) /\ Touches(n3, n4, UnlinkFields, Range(B[i]))
                 /\ IsWithout(Without(B[i], r), B[i], mem["blockNext"], mem["blockPrev"],
                              n4["blockNext"], n4["blockPrev"], r)
                 /\ \A j \in Index : n4["blockAddr"][j] =
                      IF j = i THEN First(Without(B[i], r)) ELSE mem["blockAddr"][j]
                 /\ n4["listCount"] = [mem["listCount"] EXCEPT ![i] = mem["listCount"][i] - 1]
  <2> DEFINE s == B[i]
  <2>1. UnlinkReady(l3, n3, i, s, r)
    BY <1>5, <1>6, <1>16, <1>17 DEF UnlinkReady
  <2>2. l4 = Unlinking(l3, i, s, r)
    BY <1>8 DEF l4, Unlinking, prev, next
  <2> HIDE DEF s
  <2>3. PICK o : UnlinkMade(o, l3, n3, i, s, r)
    BY <2>1, BucketUnlinked
  <2> QED BY <2>2, <2>3 DEF s, UnlinkMade
<1>19. Agree(mem, n4, CountFields) /\ Shape(n4) /\ Agree(n1, n4, CursorFields)
       /\ Agree(n2, n4, SetFields) /\ Agree(n3, n4, GetFields)
  <2>1. Agree(n3, n4, CountFields) /\ Agree(n3, n4, CursorFields) /\ Agree(n3, n4, SetFields)
        /\ Agree(n3, n4, GetFields)
    BY <1>18, TheLists, MoreFields, EraseFieldsApart, AgreeAfter
  <2> QED BY <1>16, <1>18, <2>1, AgreeBoth DEF Touches
<1>20. PICK n : /\ Makes(l5, mem, n) /\ Touches(n4, n, CountFields, {})
                /\ n["dirtyCount"][0] = IF mem["dirty"][a] THEN mem["dirtyCount"][0] - 1
                                        ELSE mem["dirtyCount"][0]
                /\ n["onlyKeyCount"][0] = IF mem["onlyKey"][a] THEN mem["onlyKeyCount"][0] - 1
                                          ELSE mem["onlyKeyCount"][0]
                /\ n["elementCount"][0] = mem["elementCount"][0] - 1
  BY <1>18, <1>19, CountsOffMake DEF l5
<1>21. Agree(n1, n, CursorFields) /\ Agree(n2, n, SetFields) /\ Agree(n3, n, GetFields)
       /\ Agree(n4, n, UnlinkFields) /\ Shape(n)
  <2>1. Agree(n4, n, CursorFields) /\ Agree(n4, n, SetFields) /\ Agree(n4, n, GetFields)
        /\ Agree(n4, n, UnlinkFields)
    BY <1>20, TheLists, MoreFields, EraseFieldsApart, AgreeAfter
  <2> QED BY <1>19, <1>20, <2>1, AgreeBoth DEF Touches
<1>22. Touches(mem, n, EraseFields, L)
  <2>1. {} \subseteq L /\ Range(B[i]) \subseteq L
    BY <1>6
  <2>2. Touches(mem, n1, EraseFields, L)
    BY <1>11, <2>1, EraseFieldsApart, TouchesMore
  <2>3. Touches(n1, n2, EraseFields, L)
    BY <1>13, EraseFieldsApart, TouchesMore
  <2>4. Touches(n2, n3, EraseFields, L)
    BY <1>15, EraseFieldsApart, TouchesMore
  <2>5. Touches(n3, n4, EraseFields, L)
    BY <1>18, <2>1, EraseFieldsApart, TouchesMore
  <2>6. Touches(n4, n, EraseFields, L)
    BY <1>20, <2>1, EraseFieldsApart, TouchesMore
  <2>7. Touches(mem, n3, EraseFields, L)
    BY <2>2, <2>3, <2>4, TouchesBoth
  <2>8. Touches(mem, n4, EraseFields, L)
    BY <2>5, <2>7, TouchesBoth
  <2> QED BY <2>6, <2>8, TouchesBoth
<1>23. /\ n["dirtyTail"] = n1["dirtyTail"] /\ n["syncTail"] = n1["syncTail"]
       /\ n["backupTail"] = n1["backupTail"]
       /\ n["setHead"] = n2["setHead"] /\ n["setTail"] = n2["setTail"]
       /\ n["setNext"] = n2["setNext"] /\ n["setPrev"] = n2["setPrev"]
       /\ n["getHead"] = n3["getHead"] /\ n["getTail"] = n3["getTail"]
       /\ n["getNext"] = n3["getNext"] /\ n["getPrev"] = n3["getPrev"]
       /\ n["blockNext"] = n4["blockNext"] /\ n["blockPrev"] = n4["blockPrev"]
       /\ n["blockAddr"] = n4["blockAddr"] /\ n["listCount"] = n4["listCount"]
  BY <1>21 DEF Agree, CursorFields, SetFields, GetFields, UnlinkFields, BucketFields
<1>24. /\ Spot(n, Without(S, p), "setHead", "setTail", "setNext", "setPrev")
       /\ Spot(n, Without(G, q), "getHead", "getTail", "getNext", "getPrev")
  BY <1>13, <1>15, <1>23 DEF Spot
<1>25. \A b \in Addr : b \notin Range(B[i]) =>
         n["blockNext"][b] = mem["blockNext"][b] /\ n["blockPrev"][b] = mem["blockPrev"][b]
  <2>1. \A b \in Addr : b \notin Range(B[i]) =>
          n4["blockNext"][b] = n3["blockNext"][b] /\ n4["blockPrev"][b] = n3["blockPrev"][b]
    BY <1>18, FieldNames, Unaltered
  <2>2. n3["blockNext"] = mem["blockNext"] /\ n3["blockPrev"] = mem["blockPrev"]
    BY <1>16 DEF Agree, UnlinkFields, BucketFields
  <2> QED BY <1>23, <2>1, <2>2
<1>26. n["index"] = mem["index"]
  BY <1>22, EraseFieldsApart, Unaltered
<1>27. Buckets(n, L \ {a}, [B EXCEPT ![i] = Without(B[i], r)])
  <2>1. Buckets(mem, L, B) /\ L \in SUBSET Addr /\ Shape(mem) /\ i \in Index /\ r \in 1 .. Len(B[i])
    BY <1>2, <1>4, <1>5
  <2>2. IsWithout(Without(B[i], r), B[i], mem["blockNext"], mem["blockPrev"],
                  n["blockNext"], n["blockPrev"], r)
    BY <1>18, <1>23
  <2>3. /\ \A j \in Index : n["blockAddr"][j] = IF j = i THEN First(Without(B[i], r))
                                                ELSE mem["blockAddr"][j]
        /\ n["listCount"] = [mem["listCount"] EXCEPT ![i] = mem["listCount"][i] - 1]
    BY <1>18, <1>23
  <2>4. Buckets(n, L \ {B[i][r]}, [B EXCEPT ![i] = Without(B[i], r)])
    BY ONLY <1>25, <1>26, <2>1, <2>2, <2>3, BucketsRemoved
  <2> QED BY <1>8, <2>4
<1>28. /\ Range(Without(S, p)) = L \ {a} /\ Range(Without(G, q)) = L \ {a}
       /\ Len(Without(S, p)) = Len(S) - 1
  <2>1. Range(Without(S, p)) = Range(S) \ {S[p]} /\ Len(Without(S, p)) = Len(S) - 1
    BY <1>3, WithoutOf
  <2>2. Range(Without(G, q)) = Range(G) \ {G[q]}
    BY <1>3, WithoutOf
  <2> QED BY <1>2, <1>4, <1>7, <2>1, <2>2 DEF L
<1>29. Lists(n, Without(S, p), Without(G, q), [B EXCEPT ![i] = Without(B[i], r)])
  BY <1>2, <1>20, <1>24, <1>27, <1>28 DEF Lists
<1>30. Erased(n, S, G, B, p, q, r)
  BY <1>1, <1>11, <1>20, <1>21, <1>22, <1>23, <1>29 DEF Erased, a, i, L
<1> QED BY <1>7, <1>30 DEF a

OrderFields == SetFields \cup GetFields \cup CursorFields

(* The cursors have fields of their own.                                   *)
LEMMA CursorNames ==
  /\ {"dirtyTail", "syncTail", "backupTail"} = CursorFields
  /\ "dirtyTail" \in CursorFields /\ "syncTail" \in CursorFields /\ "backupTail" \in CursorFields
  /\ "dirtyTail" \in Fields /\ "syncTail" \in Fields /\ "backupTail" \in Fields
  /\ "dirtyTail" \notin BlockFields /\ "syncTail" \notin BlockFields /\ "backupTail" \notin BlockFields
  /\ "dirtyTail" \notin SetFields /\ "syncTail" \notin SetFields /\ "backupTail" \notin SetFields
  /\ "dirtyTail" \notin GetFields /\ "syncTail" \notin GetFields /\ "backupTail" \notin GetFields
  /\ \A m : Shape(m) => /\ DOMAIN m["dirtyTail"] = {0} /\ DOMAIN m["syncTail"] = {0}
                        /\ DOMAIN m["backupTail"] = {0}
BY MoreFields DEF CursorFields, SetFields, GetFields

(* The list once its block at p is in front.                               *)
ToHead(s, p) == IF p = 1 THEN s ELSE Headed(s[p], Without(s, p))

SetRefreshed(n, S, p) ==
  LET a == S[p]
  IN  /\ Makes(refreshSetListLog(a), mem, n) /\ Shape(n)
      /\ Touches(mem, n, SetFields \cup CursorFields, Range(S))
      /\ Spot(n, ToHead(S, p), "setHead", "setTail", "setNext", "setPrev")
      /\ n["syncTail"][0] = IF SyncTail = a /\ p # 1 THEN mem["setPrev"][a] ELSE SyncTail
      /\ n["dirtyTail"][0] = IF DirtyTail = 0 THEN a
                             ELSE IF DirtyTail = a /\ p # 1 THEN mem["setPrev"][a] ELSE DirtyTail
      /\ n["backupTail"][0] = BackupTail

(* refreshSetList moves the record to the front of the set list, the       *)
(* cursors that stood on it to the one before it, and begins the dirty     *)
(* part of the list when there is none.                                    *)
LEMMA RefreshSetMakes ==
  ASSUME Shape(mem), NEW S, Spot(mem, S, "setHead", "setTail", "setNext", "setPrev"),
         NEW p \in 1 .. Len(S)
  PROVE  \E n : SetRefreshed(n, S, p)
<1> DEFINE a == S[p]
           prev == mem["setPrev"][a]
           F == CursorFields
           R == Range(S)
<1>1. /\ DList(S, mem["setNext"], mem["setPrev"]) /\ mem["setHead"][0] = First(S)
  BY DEF Spot
<1>2. /\ a \in Addr /\ Len(S) \in Nat /\ \A i, j \in 1 .. Len(S) : S[i] = S[j] => i = j
      /\ mem["setHead"][0] = S[1] /\ 1 \in 1 .. Len(S)
  <2>1. /\ Len(S) \in Nat /\ \A i \in 1 .. Len(S) : S[i] \in Addr
        /\ \A i, j \in 1 .. Len(S) : S[i] = S[j] => i = j
        /\ First(S) = IF Len(S) = 0 THEN 0 ELSE S[1]
    BY <1>1, Sides
  <2>2. Len(S) # 0 /\ 1 \in 1 .. Len(S)
    BY <2>1
  <2> QED BY <1>1, <2>1, <2>2
<1>3. SetHead # a <=> p # 1
  BY <1>2 DEF SetHead
<1>4. a # 0
  BY <1>2, HashMapAssumption
<1>b. PICK b : b \in BOOLEAN /\ (b <=> SyncTail = a /\ SetHead # a)
  OBVIOUS
<1>c. PICK c : c \in BOOLEAN /\ (c <=> DirtyTail = a /\ SetHead # a)
  OBVIOUS
<1>d. PICK d : d \in BOOLEAN /\ (d <=> DirtyTail = 0)
  OBVIOUS
<1> DEFINE ka == If(b, Put("syncTail", 0, prev))
           kb == If(c, Put("dirtyTail", 0, prev))
           kc == If(d, Put("dirtyTail", 0, a))
           kd == If(p # 1, MovedUp(a, "setHead", "setTail", "setNext", "setPrev"))
<1>5. refreshSetListLog(a) = ka \o kb \o kc \o kd
  BY <1>3, <1>b, <1>c, <1>d DEF refreshSetListLog, If
<1> HIDE DEF F, R, a, prev, ka, kb, kc, kd
<1>6. PICK n1 : FirstMade(n1, mem, b, "syncTail", 0, prev, F, R)
  <2>1. FirstReady(mem, b, "syncTail", 0, prev, F, R)
    BY CursorNames DEF FirstReady, F
  <2> QED BY <2>1, FirstIf
<1>7. Makes(ka, mem, n1) /\ Shape(n1) /\ Touches(mem, n1, F, R)
  BY <1>6 DEF FirstMade, ka
<1>8. PICK n2 : IfMade(n2, ka, mem, mem, n1, c, "dirtyTail", 0, prev, F, R)
  <2>1. IfReady(ka, mem, mem, n1, c, "dirtyTail", 0, prev, F, R)
    BY <1>7, CursorNames DEF IfReady, F
  <2> QED BY <2>1, AnyIf
<1>9. Makes(ka \o kb, mem, n2) /\ Shape(n2) /\ Touches(mem, n2, F, R)
  BY <1>8 DEF IfMade, kb
<1>10. PICK n3 : IfMade(n3, ka \o kb, mem, mem, n2, d, "dirtyTail", 0, a, F, R)
  <2>1. IfReady(ka \o kb, mem, mem, n2, d, "dirtyTail", 0, a, F, R)
    BY <1>9, CursorNames DEF IfReady, F
  <2> QED BY <2>1, AnyIf
<1>11. Makes(ka \o kb \o kc, mem, n3) /\ Shape(n3) /\ Touches(mem, n3, F, R)
  BY <1>10 DEF IfMade, kc
<1>12. Agree(mem, n3, SetFields)
  BY <1>11, TheLists, EraseFieldsApart, AgreeAfter DEF F
<1>13. PICK n : /\ Makes(kd, n3, n) /\ Shape(n) /\ Touches(n3, n, SetFields, R)
                /\ Spot(n, ToHead(S, p), "setHead", "setTail", "setNext", "setPrev")
  <2> DEFINE Q(o) == /\ Makes(kd, n3, o) /\ Shape(o) /\ Touches(n3, o, SetFields, R)
                     /\ Spot(o, ToHead(S, p), "setHead", "setTail", "setNext", "setPrev")
  <2>1. ASSUME p = 1 PROVE \E o : Q(o)
    <3>1. kd = <<>> /\ ToHead(S, p) = S
      BY <2>1 DEF kd, ToHead, If
    <3>2. Makes(<<>>, n3, n3) /\ Touches(n3, n3, SetFields, R)
      BY <1>11, LogOfNone, TouchesNothing
    <3>3. Spot(n3, S, "setHead", "setTail", "setNext", "setPrev")
      BY <1>12 DEF Agree, SetFields, Spot
    <3>4. Q(n3)
      BY <1>11, <3>1, <3>2, <3>3
    <3> HIDE DEF Q
    <3> QED BY <3>4
  <2>2. ASSUME p # 1 PROVE \E o : Q(o)
    <3>1. kd = MovedUp(a, "setHead", "setTail", "setNext", "setPrev")
          /\ ToHead(S, p) = Headed(S[p], Without(S, p))
      BY <2>2 DEF kd, ToHead, If
    <3>2. \E o : /\ Makes(MovedUp(S[p], "setHead", "setTail", "setNext", "setPrev"), n3, o)
                 /\ Touches(n3, o, {"setHead", "setTail", "setNext", "setPrev"}, Range(S))
                 /\ Spot(o, Headed(S[p], Without(S, p)), "setHead", "setTail", "setNext", "setPrev")
      <4>1. Agree(mem, n3, {"setHead", "setTail", "setNext", "setPrev"}) /\ Shape(n3)
            /\ ListFields("setHead", "setTail", "setNext", "setPrev")
        BY <1>11, <1>12, TheLists DEF SetFields
      <4>2. p \in 2 .. Len(S)
        BY <1>2, <2>2
      <4>3. Spot(mem, S, "setHead", "setTail", "setNext", "setPrev")
        OBVIOUS
      <4> QED BY ONLY <4>1, <4>2, <4>3, MovedUpMakes
    <3>3. PICK o : /\ Makes(kd, n3, o) /\ Touches(n3, o, SetFields, R)
                   /\ Spot(o, ToHead(S, p), "setHead", "setTail", "setNext", "setPrev")
      BY <3>1, <3>2 DEF a, R, SetFields
    <3>4. Q(o)
      BY <3>3 DEF Touches
    <3> HIDE DEF Q
    <3> QED BY <3>4
  <2> HIDE DEF Q
  <2>3. \E o : Q(o)
    BY <2>1, <2>2
  <2> QED BY <2>3 DEF Q
<1>14. Makes(refreshSetListLog(a), mem, n)
  BY <1>5, <1>11, <1>13, LogOfTwo
<1>15. Touches(mem, n, SetFields \cup CursorFields, R)
  <2>1. Touches(mem, n3, SetFields \cup CursorFields, R)
    BY <1>11, TouchesMore DEF F
  <2>2. Touches(n3, n, SetFields \cup CursorFields, R)
    BY <1>13, TouchesMore
  <2> QED BY <2>1, <2>2, TouchesBoth
<1>16. n["dirtyTail"] = n3["dirtyTail"] /\ n["syncTail"] = n3["syncTail"]
       /\ n["backupTail"] = n3["backupTail"]
  BY <1>13, CursorNames, Unaltered
<1>17. /\ n3["syncTail"] = n1["syncTail"] /\ n3["backupTail"] = mem["backupTail"]
       /\ n2["dirtyTail"] = IF c THEN [mem["dirtyTail"] EXCEPT ![0] = prev] ELSE mem["dirtyTail"]
       /\ n3["dirtyTail"] = IF d THEN [n2["dirtyTail"] EXCEPT ![0] = a] ELSE n2["dirtyTail"]
       /\ n1["syncTail"] = IF b THEN [mem["syncTail"] EXCEPT ![0] = prev] ELSE mem["syncTail"]
  BY <1>6, <1>8, <1>10, CursorNames DEF IfMade, FirstMade
<1>18. n["syncTail"][0] = IF SyncTail = a /\ p # 1 THEN mem["setPrev"][a] ELSE SyncTail
  BY <1>3, <1>16, <1>17, <1>b, CursorNames DEF SyncTail, prev
<1>19. n["backupTail"][0] = BackupTail
  BY <1>16, <1>17 DEF BackupTail
<1>20. n["dirtyTail"][0] = IF DirtyTail = 0 THEN a
                           ELSE IF DirtyTail = a /\ p # 1 THEN mem["setPrev"][a] ELSE DirtyTail
  <2>1. DOMAIN mem["dirtyTail"] = {0} /\ DOMAIN n2["dirtyTail"] = {0}
    BY <1>9, CursorNames
  <2> QED BY <1>3, <1>4, <1>16, <1>17, <1>c, <1>d, <2>1 DEF DirtyTail, prev
<1> QED BY <1>13, <1>14, <1>15, <1>18, <1>19, <1>20 DEF SetRefreshed, a, R

GetRefreshed(n, G, p) ==
  LET a == G[p]
  IN  /\ Makes(refreshGetListLog(a), mem, n) /\ Shape(n)
      /\ Touches(mem, n, GetFields \cup CursorFields, Range(G))
      /\ Spot(n, ToHead(G, p), "getHead", "getTail", "getNext", "getPrev")
      /\ n["backupTail"][0] = IF BackupTail = a /\ p # 1 THEN mem["getPrev"][a] ELSE BackupTail
      /\ n["dirtyTail"][0] = DirtyTail /\ n["syncTail"][0] = SyncTail

(* refreshGetList moves the record to the front of the get list, and the   *)
(* backup's cursor off it.                                                 *)
LEMMA RefreshGetMakes ==
  ASSUME Shape(mem), NEW G, Spot(mem, G, "getHead", "getTail", "getNext", "getPrev"),
         NEW p \in 1 .. Len(G)
  PROVE  \E n : GetRefreshed(n, G, p)
<1> DEFINE a == G[p]
           prev == mem["getPrev"][a]
           F == CursorFields
           R == Range(G)
<1>1. /\ DList(G, mem["getNext"], mem["getPrev"]) /\ mem["getHead"][0] = First(G)
  BY DEF Spot
<1>2. /\ a \in Addr /\ Len(G) \in Nat /\ \A i, j \in 1 .. Len(G) : G[i] = G[j] => i = j
      /\ mem["getHead"][0] = G[1] /\ 1 \in 1 .. Len(G)
  BY <1>1, Sides
<1>3. GetHead # a <=> p # 1
  BY <1>2 DEF GetHead
<1>b. PICK b : b \in BOOLEAN /\ (b <=> BackupTail = a)
  OBVIOUS
<1> DEFINE ka == If(b, Put("backupTail", 0, prev))
           kb == MovedUp(a, "getHead", "getTail", "getNext", "getPrev")
<1>a. ASSUME p = 1 PROVE \E n : GetRefreshed(n, G, p)
  <2>1. refreshGetListLog(a) = <<>> /\ ToHead(G, p) = G
    BY <1>3, <1>a DEF refreshGetListLog, ToHead, If
  <2>2. Makes(<<>>, mem, mem) /\ Touches(mem, mem, GetFields \cup CursorFields, Range(G))
    BY LogOfNone, TouchesNothing
  <2> HIDE DEF a
  <2>3. GetRefreshed(mem, G, p)
    BY <1>a, <2>1, <2>2 DEF GetRefreshed, BackupTail, DirtyTail, SyncTail, a
  <2> QED BY <2>3
<1>5. ASSUME p # 1 PROVE refreshGetListLog(a) = ka \o kb
  BY <1>3, <1>5, <1>b DEF refreshGetListLog, If
<1> HIDE DEF F, R, a, prev, ka, kb
<1>6. ASSUME p # 1 PROVE \E n : GetRefreshed(n, G, p)
  <2>1. PICK n1 : FirstMade(n1, mem, b, "backupTail", 0, prev, F, R)
    <3>1. FirstReady(mem, b, "backupTail", 0, prev, F, R)
      BY CursorNames DEF FirstReady, F
    <3> QED BY <3>1, FirstIf
  <2>2. Makes(ka, mem, n1) /\ Shape(n1) /\ Touches(mem, n1, F, R)
    BY <2>1 DEF FirstMade, ka
  <2>3. Agree(mem, n1, GetFields)
    BY <2>2, TheLists, EraseFieldsApart, AgreeAfter DEF F
  <2>4. \E o : /\ Makes(MovedUp(G[p], "getHead", "getTail", "getNext", "getPrev"), n1, o)
               /\ Touches(n1, o, {"getHead", "getTail", "getNext", "getPrev"}, Range(G))
               /\ Spot(o, Headed(G[p], Without(G, p)), "getHead", "getTail", "getNext", "getPrev")
    <3>1. Agree(mem, n1, {"getHead", "getTail", "getNext", "getPrev"}) /\ Shape(n1)
          /\ ListFields("getHead", "getTail", "getNext", "getPrev")
      BY <2>2, <2>3, TheLists DEF GetFields
    <3>2. p \in 2 .. Len(G)
      BY <1>2, <1>6
    <3>3. Spot(mem, G, "getHead", "getTail", "getNext", "getPrev")
      OBVIOUS
    <3> QED BY ONLY <3>1, <3>2, <3>3, MovedUpMakes
  <2>5. PICK n : /\ Makes(kb, n1, n) /\ Touches(n1, n, GetFields, R)
                 /\ Spot(n, ToHead(G, p), "getHead", "getTail", "getNext", "getPrev")
    BY <1>6, <2>4 DEF a, R, GetFields, kb, ToHead
  <2>6. Makes(refreshGetListLog(a), mem, n)
    BY <1>5, <1>6, <2>2, <2>5, LogOfTwo
  <2>7. Touches(mem, n, GetFields \cup CursorFields, R)
    <3>1. Touches(mem, n1, GetFields \cup CursorFields, R)
      BY <2>2, TouchesMore DEF F
    <3>2. Touches(n1, n, GetFields \cup CursorFields, R)
      BY <2>5, TouchesMore
    <3> QED BY <3>1, <3>2, TouchesBoth
  <2>8. n["dirtyTail"] = n1["dirtyTail"] /\ n["syncTail"] = n1["syncTail"]
        /\ n["backupTail"] = n1["backupTail"]
    BY <2>5, CursorNames, Unaltered
  <2>9. /\ n1["dirtyTail"] = mem["dirtyTail"] /\ n1["syncTail"] = mem["syncTail"]
        /\ n1["backupTail"] = IF b THEN [mem["backupTail"] EXCEPT ![0] = prev] ELSE mem["backupTail"]
    BY <2>1, CursorNames DEF FirstMade
  <2>10. n["backupTail"][0] = IF BackupTail = a /\ p # 1 THEN mem["getPrev"][a] ELSE BackupTail
    BY <1>6, <1>b, <2>8, <2>9, CursorNames DEF BackupTail, prev
  <2>11. n["dirtyTail"][0] = DirtyTail /\ n["syncTail"][0] = SyncTail /\ Shape(n)
    BY <2>5, <2>8, <2>9 DEF DirtyTail, SyncTail, Touches
  <2>12. GetRefreshed(n, G, p)
    BY <2>5, <2>6, <2>7, <2>10, <2>11 DEF GetRefreshed, a, R
  <2> QED BY <2>12
<1> QED BY <1>a, <1>6

(* The get list has fields of its own.                                     *)
LEMMA GetNames ==
  /\ "getHead" \in GetFields /\ "getTail" \in GetFields
  /\ "getNext" \in GetFields /\ "getPrev" \in GetFields
  /\ "getHead" \in Fields /\ "getTail" \in Fields /\ "getNext" \in Fields /\ "getPrev" \in Fields
  /\ "getHead" \notin BlockFields /\ "getTail" \notin BlockFields
  /\ \A m : Shape(m) => /\ DOMAIN m["getHead"] = {0} /\ DOMAIN m["getTail"] = {0}
                        /\ DOMAIN m["getNext"] = Addr /\ DOMAIN m["getPrev"] = Addr
<1>1. "getHead" \in HeadFields /\ "getTail" \in HeadFields
  BY DEF HeadFields
<1> QED BY <1>1, FieldNames, ShapeOf DEF GetFields, Fields

TailMoved(o, n, G) ==
  /\ Makes(getTailUpLog, n, o) /\ Shape(o) /\ Touches(n, o, GetFields, Range(G))
  /\ Spot(o, Headed(G[Len(G)], Without(G, Len(G))), "getHead", "getTail", "getNext", "getPrev")

(* The last record of the get list comes to its front.                     *)
LEMMA TailUpMakes ==
  ASSUME NEW n, Shape(n), Shape(mem), Agree(mem, n, GetFields),
         NEW G, Spot(mem, G, "getHead", "getTail", "getNext", "getPrev"), Len(G) \in 2 .. Len(G)
  PROVE  \E o : TailMoved(o, n, G)
<1> DEFINE p == Len(G)
           a == G[p]
           prev == G[p - 1]
           head == G[1]
           F == GetFields
           R == Range(G)
           la == Put("getTail", 0, prev)
           lb == la \o Put("getNext", prev, 0)
           lc == lb \o Put("getPrev", a, 0)
           ld == lc \o Put("getNext", a, head)
           le == ld \o Put("getPrev", head, a)
           lf == le \o Put("getHead", 0, a)
<1>1. /\ DList(G, mem["getNext"], mem["getPrev"]) /\ mem["getHead"][0] = First(G)
      /\ mem["getTail"][0] = EndOf(G)
  BY DEF Spot
<1>2. /\ p \in Nat /\ p >= 2 /\ \A i, j \in 1 .. Len(G) : G[i] = G[j] => i = j
      /\ \A i \in 1 .. Len(G) : G[i] \in Addr /\ G[i] \in R
      /\ GetHead = head /\ GetTail = a /\ mem["getPrev"][a] = prev /\ mem["getNext"][a] = 0
  BY <1>1, Sides DEF GetHead, GetTail
<1>3. /\ a \in Addr /\ prev \in Addr /\ head \in Addr /\ a \in R /\ prev \in R /\ head \in R
      /\ a # prev /\ a # head
  BY <1>2
<1>4. getTailUpLog = lf
  BY <1>2 DEF getTailUpLog
<1>5. /\ n["getHead"] = mem["getHead"] /\ n["getTail"] = mem["getTail"]
      /\ n["getNext"] = mem["getNext"] /\ n["getPrev"] = mem["getPrev"]
  BY DEF Agree, GetFields
<1> HIDE DEF a, prev, head, F, R, la, lb, lc, ld, le, lf
<1>w. PICK w : w = TRUE
  OBVIOUS
<1>11. PICK na : FirstMade(na, n, w, "getTail", 0, prev, F, R)
  <2>1. FirstReady(n, w, "getTail", 0, prev, F, R)
    BY GetNames DEF FirstReady, F
  <2> QED BY <2>1, FirstIf
<1>a. Makes(la, n, na) /\ Shape(na) /\ Touches(n, na, F, R)
  BY <1>11, <1>w DEF FirstMade, la, If
<1>12. PICK nb : PutMade(nb, la, n, n, na, "getNext", prev, 0, F, R)
  <2>1. PutReady(la, n, n, na, "getNext", prev, 0, F, R)
    BY <1>3, <1>a, GetNames DEF PutReady, F
  <2> QED BY <2>1, AnyPut
<1>b. Makes(lb, n, nb) /\ Shape(nb) /\ Touches(n, nb, F, R)
  BY <1>12 DEF PutMade, lb
<1>13. PICK nc : PutMade(nc, lb, n, n, nb, "getPrev", a, 0, F, R)
  <2>1. PutReady(lb, n, n, nb, "getPrev", a, 0, F, R)
    BY <1>3, <1>b, GetNames DEF PutReady, F
  <2> QED BY <2>1, AnyPut
<1>c. Makes(lc, n, nc) /\ Shape(nc) /\ Touches(n, nc, F, R)
  BY <1>13 DEF PutMade, lc
<1>14. PICK nd : PutMade(nd, lc, n, n, nc, "getNext", a, head, F, R)
  <2>1. PutReady(lc, n, n, nc, "getNext", a, head, F, R)
    BY <1>3, <1>c, GetNames DEF PutReady, F
  <2> QED BY <2>1, AnyPut
<1>d. Makes(ld, n, nd) /\ Shape(nd) /\ Touches(n, nd, F, R)
  BY <1>14 DEF PutMade, ld
<1>15. PICK ne : PutMade(ne, ld, n, n, nd, "getPrev", head, a, F, R)
  <2>1. PutReady(ld, n, n, nd, "getPrev", head, a, F, R)
    BY <1>3, <1>d, GetNames DEF PutReady, F
  <2> QED BY <2>1, AnyPut
<1>e. Makes(le, n, ne) /\ Shape(ne) /\ Touches(n, ne, F, R)
  BY <1>15 DEF PutMade, le
<1>16. PICK o : PutMade(o, le, n, n, ne, "getHead", 0, a, F, R)
  <2>1. PutReady(le, n, n, ne, "getHead", 0, a, F, R)
    BY <1>e, GetNames DEF PutReady, F
  <2> QED BY <2>1, AnyPut
<1>f. Makes(lf, n, o) /\ Shape(o) /\ Touches(n, o, F, R)
  BY <1>16 DEF PutMade, lf
<1>21. /\ o["getTail"] = [mem["getTail"] EXCEPT ![0] = prev]
       /\ nb["getNext"] = [mem["getNext"] EXCEPT ![prev] = 0]
       /\ nc["getPrev"] = [mem["getPrev"] EXCEPT ![a] = 0]
       /\ o["getNext"] = [nb["getNext"] EXCEPT ![a] = head]
       /\ o["getPrev"] = [nc["getPrev"] EXCEPT ![head] = a]
       /\ o["getHead"] = [mem["getHead"] EXCEPT ![0] = a]
  BY <1>5, <1>w, <1>11, <1>12, <1>13, <1>14, <1>15, <1>16, GetNames DEF FirstMade, PutMade
<1>22. /\ DOMAIN mem["getTail"] = {0} /\ DOMAIN mem["getNext"] = Addr /\ DOMAIN nb["getNext"] = Addr
       /\ DOMAIN mem["getPrev"] = Addr /\ DOMAIN nc["getPrev"] = Addr /\ DOMAIN mem["getHead"] = {0}
  BY <1>b, <1>c, GetNames
<1>23. \A b \in Addr : o["getNext"][b] = IF b = prev THEN mem["getNext"][a]
                                         ELSE IF b = a THEN head ELSE mem["getNext"][b]
  BY <1>2, <1>3, <1>21, <1>22
<1>24. \A b \in Addr : o["getPrev"][b] = IF b = a THEN 0 ELSE IF b = head THEN a ELSE mem["getPrev"][b]
  BY <1>2, <1>3, <1>21, <1>22
<1>25. o["getHead"][0] = a /\ o["getTail"][0] = prev
  BY <1>21, <1>22
<1>26. LinksMoved(o, G, "getHead", "getTail", "getNext", "getPrev", p)
  BY <1>2, <1>23, <1>24, <1>25 DEF LinksMoved, a, prev, head
<1>27. Spot(o, Headed(G[p], Without(G, p)), "getHead", "getTail", "getNext", "getPrev")
  <2>1. p \in 2 .. Len(G)
    OBVIOUS
  <2> QED BY <1>26, <2>1, MovedSpot
<1>28. TailMoved(o, n, G)
  BY <1>4, <1>f, <1>27 DEF TailMoved, F, R
<1> QED BY <1>28

(* erase of the last record of the get list, when that record is dirty.    *)
KeepDirtyLog(a) == If(DirtyTail = 0, Put("dirtyTail", 0, a)) \o If(GetHead # a, getTailUpLog)

DirtyKept(n, G) ==
  LET a == G[Len(G)]
  IN  /\ Makes(KeepDirtyLog(a), mem, n) /\ Shape(n)
      /\ Touches(mem, n, GetFields \cup CursorFields, Range(G))
      /\ Spot(n, ToHead(G, Len(G)), "getHead", "getTail", "getNext", "getPrev")
      /\ n["dirtyTail"][0] = IF DirtyTail = 0 THEN a ELSE DirtyTail
      /\ n["syncTail"][0] = SyncTail /\ n["backupTail"][0] = BackupTail

(* erase(true) of a dirty record keeps it and moves it to the front of the *)
(* get list.                                                               *)
LEMMA KeepDirtyMakes ==
  ASSUME Shape(mem), NEW G, Spot(mem, G, "getHead", "getTail", "getNext", "getPrev"), G # <<>>
  PROVE  \E n : DirtyKept(n, G)
<1> DEFINE p == Len(G)
           a == G[p]
           F == CursorFields
           R == Range(G)
<1>1. /\ DList(G, mem["getNext"], mem["getPrev"]) /\ mem["getHead"][0] = First(G)
  BY DEF Spot
<1>2. /\ p \in Nat /\ p >= 1 /\ \A i, j \in 1 .. Len(G) : G[i] = G[j] => i = j
      /\ GetHead = G[1] /\ p \in 1 .. Len(G) /\ 1 \in 1 .. Len(G)
  BY <1>1, Sides DEF GetHead
<1>3. GetHead # a <=> p # 1
  BY <1>2
<1>b. PICK b : b \in BOOLEAN /\ (b <=> DirtyTail = 0)
  OBVIOUS
<1> DEFINE ka == If(b, Put("dirtyTail", 0, a))
           kb == If(p # 1, getTailUpLog)
<1>4. KeepDirtyLog(a) = ka \o kb
  BY <1>3, <1>b DEF KeepDirtyLog, If
<1> HIDE DEF a, F, R, ka, kb
<1>5. PICK n1 : FirstMade(n1, mem, b, "dirtyTail", 0, a, F, R)
  <2>1. FirstReady(mem, b, "dirtyTail", 0, a, F, R)
    BY CursorNames DEF FirstReady, F
  <2> QED BY <2>1, FirstIf
<1>6. Makes(ka, mem, n1) /\ Shape(n1) /\ Touches(mem, n1, F, R)
  BY <1>5 DEF FirstMade, ka
<1>7. Agree(mem, n1, GetFields)
  BY <1>6, TheLists, EraseFieldsApart, AgreeAfter DEF F
<1>8. PICK n : /\ Makes(kb, n1, n) /\ Shape(n) /\ Touches(n1, n, GetFields, R)
               /\ Spot(n, ToHead(G, p), "getHead", "getTail", "getNext", "getPrev")
  <2> DEFINE Q(o) == /\ Makes(kb, n1, o) /\ Shape(o) /\ Touches(n1, o, GetFields, R)
                     /\ Spot(o, ToHead(G, p), "getHead", "getTail", "getNext", "getPrev")
  <2>1. ASSUME p = 1 PROVE \E o : Q(o)
    <3>1. kb = <<>> /\ ToHead(G, p) = G
      BY <2>1 DEF kb, ToHead, If
    <3>2. Makes(<<>>, n1, n1) /\ Touches(n1, n1, GetFields, R)
      BY <1>6, LogOfNone, TouchesNothing
    <3>3. Spot(n1, G, "getHead", "getTail", "getNext", "getPrev")
      BY <1>7 DEF Agree, GetFields, Spot
    <3>4. Q(n1)
      BY <1>6, <3>1, <3>2, <3>3
    <3> HIDE DEF Q
    <3> QED BY <3>4
  <2>2. ASSUME p # 1 PROVE \E o : Q(o)
    <3>1. kb = getTailUpLog /\ ToHead(G, p) = Headed(G[p], Without(G, p))
      BY <2>2 DEF kb, ToHead, If
    <3>2. Len(G) \in 2 .. Len(G)
      BY ONLY <1>2, <2>2
    <3>3. PICK o : TailMoved(o, n1, G)
      BY <1>6, <1>7, <3>2, TailUpMakes
    <3>4. Q(o)
      BY <3>1, <3>3 DEF TailMoved, R
    <3> HIDE DEF Q
    <3> QED BY <3>4
  <2> HIDE DEF Q
  <2>3. \E o : Q(o)
    BY <2>1, <2>2
  <2> QED BY <2>3 DEF Q
<1>9. Makes(KeepDirtyLog(a), mem, n)
  BY <1>4, <1>6, <1>8, LogOfTwo
<1>10. Touches(mem, n, GetFields \cup CursorFields, R)
  <2>1. Touches(mem, n1, GetFields \cup CursorFields, R)
    BY <1>6, TouchesMore DEF F
  <2>2. Touches(n1, n, GetFields \cup CursorFields, R)
    BY <1>8, TouchesMore
  <2> QED BY <2>1, <2>2, TouchesBoth
<1>11. n["dirtyTail"] = n1["dirtyTail"] /\ n["syncTail"] = n1["syncTail"]
       /\ n["backupTail"] = n1["backupTail"]
  BY <1>8, CursorNames, Unaltered
<1>12. /\ n1["syncTail"] = mem["syncTail"] /\ n1["backupTail"] = mem["backupTail"]
       /\ n1["dirtyTail"] = IF b THEN [mem["dirtyTail"] EXCEPT ![0] = a] ELSE mem["dirtyTail"]
  BY <1>5, CursorNames DEF FirstMade
<1>13. n["dirtyTail"][0] = IF DirtyTail = 0 THEN a ELSE DirtyTail
  BY <1>11, <1>12, <1>b, CursorNames DEF DirtyTail
<1>14. n["syncTail"][0] = SyncTail /\ n["backupTail"][0] = BackupTail
  BY <1>11, <1>12 DEF SyncTail, BackupTail
<1> QED BY <1>8, <1>9, <1>10, <1>13, <1>14 DEF DirtyKept, a, R

-----------------------------------------------------------------------------
(* One field of the head is set, under a condition.                        *)
HeadSet(n, c, f, v) ==
  /\ Makes(If(c, Put(f, 0, v)), mem, n) /\ Shape(n) /\ Touches(mem, n, {f}, {})
  /\ n[f][0] = IF c THEN v ELSE mem[f][0]

(* One field of the head can be set.                                       *)
LEMMA HeadSetMakes ==
  ASSUME Shape(mem), NEW c, NEW f \in HeadFields, NEW v
  PROVE  \E n : HeadSet(n, c, f, v)
<1>1. f \in Fields /\ f \notin BlockFields /\ DOMAIN mem[f] = {0}
  BY FieldNames, ShapeOf
<1>2. PICK n : FirstMade(n, mem, c, f, 0, v, {f}, {})
  <2>1. FirstReady(mem, c, f, 0, v, {f}, {})
    BY <1>1 DEF FirstReady
  <2> QED BY <2>1, FirstIf
<1> QED BY <1>1, <1>2 DEF FirstMade, HeadSet

DirtySet(n, a, b) ==
  /\ Makes(setDirtyLog(a, b), mem, n) /\ Shape(n) /\ Touches(mem, n, {"dirtyCount", "dirty"}, {a})
  /\ n["dirtyCount"][0] = IF mem["dirty"][a] # b THEN mem["dirtyCount"][0] + (IF b THEN 1 ELSE -1)
                          ELSE mem["dirtyCount"][0]
  /\ n["dirty"] = [mem["dirty"] EXCEPT ![a] = b]

(* setDirty turns the flag and counts it.                                  *)
LEMMA SetDirtyMakes ==
  ASSUME Shape(mem), NEW a \in Addr, NEW b, b \in BOOLEAN, mem["dirty"] \in [Addr -> BOOLEAN]
  PROVE  \E n : DirtySet(n, a, b)
<1> DEFINE by == IF b THEN 1 ELSE -1
           v == mem["dirtyCount"][0] + by
           F == {"dirtyCount", "dirty"}
           R == {a}
           ka == Put("dirtyCount", 0, v)
           kb == Put("dirty", a, b)
<1>1. /\ "dirtyCount" \in Fields /\ "dirty" \in Fields /\ "dirtyCount" \notin BlockFields
      /\ "dirty" \in BlockFields
      /\ \A m : Shape(m) => DOMAIN m["dirtyCount"] = {0} /\ DOMAIN m["dirty"] = Addr
  <2>1. "dirtyCount" \in HeadFields
    BY DEF HeadFields
  <2> QED BY <2>1, FieldNames, ShapeOf DEF Fields
<1>2. ASSUME mem["dirty"][a] = b PROVE \E n : DirtySet(n, a, b)
  <2>1. setDirtyLog(a, b) = <<>>
    BY <1>2 DEF setDirtyLog, If
  <2>2. Makes(<<>>, mem, mem) /\ Touches(mem, mem, F, R)
    BY LogOfNone, TouchesNothing
  <2>3. mem["dirty"] = [mem["dirty"] EXCEPT ![a] = b]
    BY <1>2
  <2>4. DirtySet(mem, a, b)
    BY <1>2, <2>1, <2>2, <2>3 DEF DirtySet
  <2> QED BY <2>4
<1>3. ASSUME mem["dirty"][a] # b PROVE \E n : DirtySet(n, a, b)
  <2>1. setDirtyLog(a, b) = ka \o kb
    BY <1>3 DEF setDirtyLog, If, Add
  <2> HIDE DEF v, F, R, ka, kb
  <2>w. PICK w : w = TRUE
    OBVIOUS
  <2>2. PICK n1 : FirstMade(n1, mem, w, "dirtyCount", 0, v, F, R)
    <3>1. FirstReady(mem, w, "dirtyCount", 0, v, F, R)
      BY <1>1 DEF FirstReady, F
    <3> QED BY <3>1, FirstIf
  <2>3. Makes(ka, mem, n1) /\ Shape(n1) /\ Touches(mem, n1, F, R)
    BY <2>2, <2>w DEF FirstMade, ka, If
  <2>4. PICK n : PutMade(n, ka, mem, mem, n1, "dirty", a, b, F, R)
    <3>1. PutReady(ka, mem, mem, n1, "dirty", a, b, F, R)
      BY <1>1, <2>3 DEF PutReady, F, R
    <3> QED BY <3>1, AnyPut
  <2>5. Makes(ka \o kb, mem, n) /\ Shape(n) /\ Touches(mem, n, F, R)
    BY <2>4 DEF PutMade, kb
  <2>6. n["dirty"] = [mem["dirty"] EXCEPT ![a] = b] /\ n["dirtyCount"][0] = v
    BY <1>1, <2>w, <2>2, <2>4 DEF PutMade, FirstMade
  <2>7. DirtySet(n, a, b)
    BY <1>3, <2>1, <2>5, <2>6 DEF DirtySet, v, F, R
  <2> QED BY <2>7
<1> QED BY <1>2, <1>3

-----------------------------------------------------------------------------
(***************************************************************************)
(* What the operations read, and that the invariant implies the            *)
(* properties.                                                             *)
(***************************************************************************)

(* A list that runs once over its blocks is as long as they are many.      *)
LEMMA AsLongAsMany ==
  ASSUME NEW s \in Seq(Addr), IsInjective(s)
  PROVE  /\ IsFiniteSet(Range(s)) /\ Cardinality(Range(s)) = Len(s)
         /\ Len(s) \in 0 .. NBlocks
<1>1. Len(s) \in Nat /\ DOMAIN s = 1 .. Len(s) /\ s \in [1 .. Len(s) -> Range(s)]
      /\ \A b \in Range(s) : \E i \in 1 .. Len(s) : s[i] = b
  BY DEF Range
<1>2. s \in Bijection(1 .. Len(s), Range(s))
  BY <1>1 DEF Bijection, Injection, Surjection
<1>3. Cardinality(Range(s)) = Len(s)
  BY <1>1, <1>2, FS_CountingElements DEF ExistsBijection
<1>4. Range(s) \in SUBSET Addr
  BY QueuedAreOfKind
<1>5. IsFiniteSet(Range(s)) /\ Cardinality(Range(s)) <= Cardinality(Addr)
      /\ Cardinality(Addr) \in Nat
  BY <1>4, HashMapAssumption, FS_Subset, FS_CardinalityType
<1> QED BY <1>1, <1>3, <1>5 DEF NBlocks

(* What is found along a field from the head of a list on is the list.     *)
LEMMA AlongIs ==
  ASSUME NEW f, NEW a, NEW s \in Seq(Addr), IsInjective(s), Strung(s, mem[f]), First(s) = a
  PROVE  Along(f, a) = s
<1> DEFINE n == Len(s)
           Then(t) == IF t = <<>> THEN a ELSE mem[f][Last(t)]
           More(t) == IF Then(t) = 0 THEN t ELSE Append(t, Then(t))
           Pre(k) == [i \in 1 .. IF k < n THEN k ELSE n |-> s[i]]
           longer == [t \in Seq(Addr) |-> More(t)]
           Is2(g) == g = [k \in 0 .. NBlocks |-> IF k = 0 THEN <<>> ELSE longer[g[k - 1]]]
<1>1. /\ n \in Nat /\ NBlocks \in Nat /\ n <= NBlocks /\ DOMAIN s = 1 .. n
      /\ \A i \in 1 .. n : s[i] \in Addr
      /\ 0 \notin Addr
  <2>1. NBlocks \in Nat
    BY HashMapAssumption, FS_CardinalityType DEF NBlocks
  <2> QED BY <2>1, AsLongAsMany, HashMapAssumption
<1>2. Pre(0) = <<>> /\ Pre(NBlocks) = s
  <2>1. s = [i \in 1 .. n |-> s[i]]
    OBVIOUS
  <2> HIDE DEF n
  <2> QED BY <1>1, <2>1
<1>3. ASSUME NEW k \in Nat PROVE More(Pre(k)) = Pre(k + 1)
  <2> DEFINE t == Pre(k)
  <2>1. CASE k = 0 /\ n = 0
    <3>1. t = <<>> /\ Pre(k + 1) = <<>>
      <4> HIDE DEF n
      <4> QED BY <2>1
    <3>2. a = 0
      BY <2>1 DEF First
    <3> HIDE DEF t, Pre
    <3> QED BY <3>1, <3>2 DEF t
  <2>2. CASE k = 0 /\ n > 0
    <3>1. t = <<>>
      <4> HIDE DEF n
      <4> QED BY <2>2
    <3>2. a = s[1] /\ a # 0
      BY <1>1, <2>2 DEF First
    <3>3. Pre(k + 1) = <<s[1]>>
      <4> HIDE DEF n
      <4> QED BY <1>1, <2>2
    <3>4. Append(<<>>, s[1]) = <<s[1]>>
      OBVIOUS
    <3> HIDE DEF t, Pre
    <3> QED BY <3>1, <3>2, <3>3, <3>4 DEF t
  <2>3. CASE k > 0 /\ k < n
    <3>1. t = [i \in 1 .. k |-> s[i]] /\ t \in Seq(Addr) /\ Len(t) = k /\ t # <<>> /\ Last(t) = s[k]
      <4>1. t = [i \in 1 .. k |-> s[i]]
        <5> HIDE DEF n
        <5> QED BY <2>3
      <4>2. \A i \in 1 .. k : s[i] \in Addr
        BY <1>1, <2>3
      <4> HIDE DEF t
      <4>3. t \in Seq(Addr) /\ Len(t) = k /\ t # <<>>
        BY <2>3, <4>1, <4>2
      <4>4. Last(t) = s[k]
        BY <2>3, <4>1, <4>3 DEF Last
      <4> QED BY <4>1, <4>3, <4>4
    <3>2. mem[f][s[k]] = s[k + 1] /\ s[k + 1] # 0 /\ s[k + 1] \in Addr
      BY <1>1, <2>3 DEF Strung
    <3>3. Pre(k + 1) = [i \in 1 .. k + 1 |-> s[i]]
      <4> HIDE DEF n
      <4> QED BY <1>1, <2>3
    <3> HIDE DEF t
    <3>4. Append(t, s[k + 1]) = [i \in 1 .. k + 1 |-> s[i]]
      BY <3>1, <3>2
    <3> HIDE DEF Pre
    <3> QED BY <3>1, <3>2, <3>3, <3>4 DEF t
  <2>4. CASE k > 0 /\ k >= n
    <3>1. t = s /\ Pre(k + 1) = s
      <4>1. s = [i \in 1 .. n |-> s[i]]
        OBVIOUS
      <4> HIDE DEF n
      <4> QED BY <1>1, <2>4, <4>1
    <3>2. Then(s) = 0
      <4>1. CASE s = <<>>
        BY <4>1 DEF First
      <4>2. CASE s # <<>>
        <5>1. Last(s) = s[n] /\ n \in 1 .. n
          BY <1>1, <4>2 DEF Last
        <5> QED BY <4>2, <5>1 DEF Strung
      <4> QED BY <4>1, <4>2
    <3> HIDE DEF t, Pre, Then
    <3> QED BY <3>1, <3>2 DEF t
  <2> HIDE DEF n, Pre, More
  <2> QED BY <1>1, <2>1, <2>2, <2>3, <2>4
<1>z. ASSUME NEW k \in Nat PROVE longer[Pre(k)] = Pre(k + 1)
  <2>1. Pre(k) \in Seq(Addr)
    <3> DEFINE m == IF k < n THEN k ELSE n
    <3>1. m \in Nat /\ \A i \in 1 .. m : s[i] \in Addr
      <4> HIDE DEF n
      <4> QED BY <1>1
    <3> HIDE DEF m
    <3>2. [i \in 1 .. m |-> s[i]] \in Seq(Addr)
      BY <3>1
    <3> QED BY <3>2 DEF m
  <2> HIDE DEF Pre, More
  <2> QED BY <1>3, <2>1
<1> DEFINE h == [k \in 0 .. NBlocks |-> Pre(k)]
<1>4. Is2(h)
  <2>1. ASSUME NEW k \in 0 .. NBlocks PROVE h[k] = IF k = 0 THEN <<>> ELSE longer[h[k - 1]]
    <3>1. CASE k = 0
      BY <1>2, <3>1
    <3>2. CASE k # 0
      <4>1. k - 1 \in Nat /\ k - 1 \in 0 .. NBlocks /\ (k - 1) + 1 = k
        BY <1>1, <3>2
      <4>2. h[k - 1] = Pre(k - 1) /\ h[k] = Pre(k)
        BY <4>1
      <4> HIDE DEF h, Pre, longer
      <4> QED BY <1>z, <3>2, <4>1, <4>2
    <3> QED BY <3>1, <3>2
  <2>2. h = [k \in 0 .. NBlocks |-> h[k]]
    OBVIOUS
  <2> HIDE DEF h, longer
  <2> QED BY <2>1, <2>2
<1> DEFINE r == CHOOSE g : Is2(g)
<1>5. Is2(r)
  <2> HIDE DEF h, Is2
  <2> QED BY <1>4
<1>6. Along(f, a) = r[NBlocks]
  BY DEF Along
<1> HIDE DEF r
<1>7. \A k \in 0 .. NBlocks : r[k] = h[k]
  <2>1. \A k \in 0 .. NBlocks : r[k] = IF k = 0 THEN <<>> ELSE longer[r[k - 1]]
    <3> HIDE DEF longer
    <3> QED BY <1>5
  <2>2. \A k \in 0 .. NBlocks : h[k] = IF k = 0 THEN <<>> ELSE longer[h[k - 1]]
    <3> HIDE DEF longer, h
    <3> QED BY <1>4
  <2> HIDE DEF h, Is2, longer
  <2>3. r[0] = h[0]
    <3>1. 0 \in 0 .. NBlocks
      BY <1>1
    <3> QED BY <2>1, <2>2, <3>1
  <2>4. ASSUME NEW i \in 0 .. NBlocks - 1, r[i] = h[i] PROVE r[i + 1] = h[i + 1]
    <3>1. i + 1 \in 0 .. NBlocks /\ i + 1 # 0 /\ (i + 1) - 1 = i
      BY <1>1
    <3>2. r[i + 1] = longer[r[i]] /\ h[i + 1] = longer[h[i]]
      BY <2>1, <2>2, <3>1
    <3> QED BY <2>4, <3>2
  <2>5. NBlocks \in Nat
    BY <1>1
  <2> QED BY ONLY <2>3, <2>4, <2>5, SameWay
<1>8. r[NBlocks] = Pre(NBlocks)
  <2>1. NBlocks \in 0 .. NBlocks
    BY <1>1
  <2> HIDE DEF Pre
  <2> QED BY <1>7, <2>1
<1> HIDE DEF Pre
<1> QED BY <1>2, <1>6, <1>8

(* What the operators find in a whole map.                                 *)
LEMMA ListsFound ==
  ASSUME NEW S, NEW G, NEW B, Lists(mem, S, G, B)
  PROVE  /\ Along("setNext", SetHead) = S /\ Along("getNext", GetHead) = G
         /\ \A i \in Index : Chained(i) = B[i]
         /\ Linked = Range(S)
<1>1. /\ DList(S, mem["setNext"], mem["setPrev"]) /\ mem["setHead"][0] = First(S)
      /\ DList(G, mem["getNext"], mem["getPrev"]) /\ mem["getHead"][0] = First(G)
      /\ \A i \in Index : /\ DList(B[i], mem["blockNext"], mem["blockPrev"])
                          /\ mem["blockAddr"][i] = First(B[i])
                          /\ Range(B[i]) = {a \in Range(S) : mem["index"][a] = i}
      /\ \A a \in Range(S) : mem["index"][a] \in Index
  BY DEF Lists, Spot, Buckets
<1>2. Along("setNext", SetHead) = S
  BY <1>1, AlongIs DEF DList, SetHead
<1>3. Along("getNext", GetHead) = G
  BY <1>1, AlongIs DEF DList, GetHead
<1>4. ASSUME NEW i \in Index PROVE Chained(i) = B[i]
  <2>1. Along("blockNext", mem["blockAddr"][i]) = B[i]
    BY <1>1, AlongIs DEF DList
  <2> QED BY <2>1 DEF Chained
<1>5. Linked = UNION {Range(B[i]) : i \in Index}
  BY <1>4 DEF Linked
<1>6. Linked = Range(S)
  BY <1>1, <1>5
<1> QED BY <1>2, <1>3, <1>4, <1>6

(* The block a and the chunks behind it are s.                             *)
PartsAre(a, s) ==
  /\ <<a>> \o Chain(a) = s /\ LastPart(a) = s[Len(s)]
  /\ Len(s) \in Nat /\ Len(s) >= 1 /\ s \in Seq(Addr)
  /\ Chain(a) \in Seq(Addr) /\ Len(Chain(a)) = Len(s) - 1
  /\ \A j \in 1 .. Len(s) - 1 : Chain(a)[j] = s[j + 1]
  /\ Range(s) = {a} \cup Range(Chain(a))
  /\ IsInjective(Chain(a)) /\ a \notin Range(Chain(a))

(* What Chain finds behind a record are the parts of the record.           *)
LEMMA ChainFound ==
  ASSUME NEW S, NEW P, Chains(mem, S, P), NEW a, a \in Range(S)
  PROVE  PartsAre(a, P[a])
<1> DEFINE s == P[a]
           n == Len(s)
           t == Tail(s)
<1>1. s \in Seq(Addr) /\ s # <<>> /\ s[1] = a /\ IsInjective(s) /\ Strung(s, mem["nextChunk"])
  BY DEF Chains
<1> HIDE DEF s
<1>2. /\ n \in Nat /\ n >= 1 /\ DOMAIN s = 1 .. n /\ \A i \in 1 .. n : s[i] \in Addr
      /\ t \in Seq(Addr) /\ Len(t) = n - 1 /\ DOMAIN t = 1 .. n - 1
      /\ \A j \in 1 .. n - 1 : t[j] = s[j + 1]
      /\ Head(s) = s[1]
  BY <1>1
<1>3. IsInjective(t)
  BY <1>1, PoppedInFront
<1> HIDE DEF n, t
<1>4. Strung(t, mem["nextChunk"])
  <2> SUFFICES ASSUME NEW j \in 1 .. n - 1
               PROVE mem["nextChunk"][t[j]] = IF j = n - 1 THEN 0 ELSE t[j + 1]
    BY <1>2 DEF Strung
  <2>1. j + 1 \in 1 .. n /\ t[j] = s[j + 1] /\ (j + 1 = n <=> j = n - 1)
        /\ (j # n - 1 => j + 1 \in 1 .. n - 1)
    BY <1>2
  <2>2. mem["nextChunk"][s[j + 1]] = IF j + 1 = n THEN 0 ELSE s[(j + 1) + 1]
    BY <1>1, <2>1 DEF Strung, n
  <2> QED BY <1>2, <2>1, <2>2
<1>5. First(t) = mem["nextChunk"][a]
  <2>1. mem["nextChunk"][s[1]] = IF 1 = n THEN 0 ELSE s[2]
    <3>1. 1 \in 1 .. n /\ n = Len(s)
      BY <1>2 DEF n
    <3>2. mem["nextChunk"][s[1]] = IF 1 = n THEN 0 ELSE s[1 + 1]
      BY <1>1, <3>1 DEF Strung
    <3> QED BY <3>2
  <2>2. CASE n = 1
    <3>1. t = <<>>
      BY <1>2, <2>2
    <3> QED BY <1>1, <2>1, <2>2, <3>1 DEF First
  <2>3. CASE n # 1
    <3>1. 1 \in 1 .. n - 1 /\ 1 + 1 = 2 /\ t # <<>>
      BY <1>2, <2>3
    <3>2. t[1] = s[2]
      BY <1>2, <3>1
    <3> QED BY <1>1, <2>1, <2>3, <3>1, <3>2 DEF First
  <2> QED BY <2>2, <2>3
<1>6. Chain(a) = t
  BY <1>2, <1>3, <1>4, <1>5, AlongIs DEF Chain
<1>7. <<a>> \o t = s
  <2>1. /\ <<a>> \o t \in Seq(Addr) /\ Len(<<a>> \o t) = Len(t) + 1
        /\ DOMAIN (<<a>> \o t) = 1 .. Len(t) + 1
        /\ (<<a>> \o t)[1] = a /\ \A i \in 1 .. Len(t) : (<<a>> \o t)[i + 1] = t[i]
    <3>1. a \in Addr /\ t \in Seq(Addr)
      BY <1>1, <1>2
    <3> QED BY <3>1, InFront
  <2> DEFINE u == <<a>> \o t
  <2> HIDE DEF u
  <2>2. u \in Seq(Addr) /\ Len(u) = n /\ DOMAIN u = 1 .. n /\ u[1] = a
        /\ \A i \in 1 .. n - 1 : u[i + 1] = t[i]
    BY <1>2, <2>1 DEF u
  <2>3. ASSUME NEW i \in 1 .. n PROVE u[i] = s[i]
    <3>1. CASE i = 1
      BY <1>1, <2>2, <3>1
    <3>2. CASE i # 1
      <4>1. i - 1 \in 1 .. n - 1 /\ (i - 1) + 1 = i
        BY <1>2, <3>2
      <4> QED BY ONLY <1>2, <2>2, <4>1, ZenonT(30)
    <3> QED BY <3>1, <3>2
  <2>4. u = s
    BY <1>1, <1>2, <2>2, <2>3 DEF n
  <2> QED BY <2>4 DEF u
<1>8. LastPart(a) = s[n]
  BY <1>6, <1>7 DEF LastPart, Last, n
<1>9. Range(s) = {a} \cup Range(t) /\ a \notin Range(t)
  BY <1>1, <1>2, PoppedInFront DEF t
<1> QED BY <1>1, <1>2, <1>3, <1>6, <1>7, <1>8, <1>9 DEF PartsAre, s, n, t

(* Two sequences without an element in common, one behind the other.       *)
LEMMA SideBySide ==
  ASSUME NEW s \in Seq(Addr), NEW t \in Seq(Addr), IsInjective(s), IsInjective(t),
         Range(s) \cap Range(t) = {}
  PROVE  /\ s \o t \in Seq(Addr) /\ IsInjective(s \o t)
         /\ Range(s \o t) = Range(s) \cup Range(t)
<1> DEFINE u == s \o t
           p == Len(s)
           q == Len(t)
<1>1. /\ u \in Seq(Addr) /\ DOMAIN u = 1 .. p + q
      /\ (\A i \in 1 .. p : u[i] = s[i])
      /\ (\A i \in 1 .. q : u[p + i] = t[i])
  BY Concatenated
<1>2. p \in Nat /\ q \in Nat /\ DOMAIN s = 1 .. p /\ DOMAIN t = 1 .. q
  OBVIOUS
<1> HIDE DEF u, p, q
<1>3. ASSUME NEW i \in 1 .. p + q
      PROVE  \/ i \in 1 .. p /\ u[i] = s[i] /\ u[i] \in Range(s)
             \/ i - p \in 1 .. q /\ u[i] = t[i - p] /\ u[i] \in Range(t)
  <2>1. CASE i <= p
    BY <1>1, <1>2, <2>1 DEF Range
  <2>2. CASE i > p
    <3>1. i - p \in 1 .. q /\ p + (i - p) = i
      BY <1>2, <2>2
    <3> QED BY <1>1, <1>2, <3>1 DEF Range
  <2> QED BY <1>2, <2>1, <2>2
<1>4. Range(u) \subseteq Range(s) \cup Range(t)
  BY <1>1, <1>3 DEF Range
<1>5. Range(s) \subseteq Range(u)
  <2>1. ASSUME NEW i \in 1 .. p PROVE i \in 1 .. p + q /\ u[i] = s[i]
    BY <1>1, <1>2
  <2> QED BY <1>1, <1>2, <2>1 DEF Range
<1>6. Range(t) \subseteq Range(u)
  <2>1. ASSUME NEW i \in 1 .. q PROVE p + i \in 1 .. p + q /\ u[p + i] = t[i]
    BY <1>1, <1>2
  <2> QED BY <1>1, <1>2, <2>1, ZenonT(30) DEF Range
<1>7. IsInjective(u)
  <2>1. \A i, j \in 1 .. p + q : u[i] = u[j] => i = j
    <3> SUFFICES ASSUME NEW i \in 1 .. p + q, NEW j \in 1 .. p + q, u[i] = u[j]
                 PROVE i = j
      OBVIOUS
    <3>1. CASE i \in 1 .. p /\ u[i] = s[i] /\ u[i] \in Range(s)
      <4>1. j \in 1 .. p /\ u[j] = s[j]
        BY <1>3, <3>1
      <4> QED BY <1>2, <3>1, <4>1 DEF IsInjective
    <3>2. CASE i - p \in 1 .. q /\ u[i] = t[i - p] /\ u[i] \in Range(t)
      <4>1. j - p \in 1 .. q /\ u[j] = t[j - p]
        BY <1>3, <3>2
      <4>2. i - p = j - p
        BY <1>2, <3>2, <4>1 DEF IsInjective
      <4> QED BY <1>2, <4>2
    <3> QED BY <1>3, <3>1, <3>2
  <2> QED BY <1>1, <2>1 DEF IsInjective
<1> QED BY <1>1, <1>4, <1>5, <1>6, <1>7 DEF u

(* The counts of dirty records and of records without a value are within   *)
(* their bounds.                                                           *)
LEMMA CountsInRange ==
  ASSUME NEW S, S \in Seq(Addr), IsInjective(S), Counts(mem, S, op, crashed)
  PROVE  /\ mem["dirtyCount"][0] \in -1 .. NBlocks + 1
         /\ mem["onlyKeyCount"][0] \in -1 .. NBlocks + 1
<1>1. IsFiniteSet(Range(S)) /\ Cardinality(Range(S)) = Len(S) /\ Len(S) \in 0 .. NBlocks
  BY AsLongAsMany
<1>2. NBlocks \in Nat
  BY HashMapAssumption, FS_CardinalityType DEF NBlocks
<1>3. /\ Cardinality(DirtyRecords(mem, S)) \in 0 .. NBlocks
      /\ Cardinality(KeyRecords(mem, S)) \in 0 .. NBlocks
  <2>1. DirtyRecords(mem, S) \in SUBSET Range(S) /\ KeyRecords(mem, S) \in SUBSET Range(S)
    BY DEF DirtyRecords, KeyRecords
  <2>2. ASSUME NEW T \in SUBSET Range(S) PROVE Cardinality(T) \in 0 .. NBlocks
    <3>1. IsFiniteSet(T) /\ Cardinality(T) <= Cardinality(Range(S)) /\ Cardinality(T) \in Nat
      BY <1>1, FS_Subset, FS_CardinalityType
    <3> QED BY <1>1, <1>2, <3>1
  <2> QED BY <2>1, <2>2
<1> DEFINE x0 == Cardinality(DirtyRecords(mem, S))
           y0 == Cardinality(KeyRecords(mem, S))
<1> HIDE DEF x0, y0
<1>4. PICK d, e \in {-1, 0, 1} :
        /\ Phase(op) \notin {"copy", "count"} =>
             mem["dirtyCount"][0] = x0 + d /\ mem["onlyKeyCount"][0] = y0 + e
        /\ Phase(op) \in {"copy", "count"} =>
             mem["dirtyCount"][0] \in -1 .. NBlocks + 1 /\ mem["onlyKeyCount"][0] \in -1 .. NBlocks + 1
  BY DEF Counts, ToCount, x0, y0
<1>5. x0 \in 0 .. NBlocks /\ y0 \in 0 .. NBlocks
  BY <1>3 DEF x0, y0
<1>6. x0 + d \in -1 .. NBlocks + 1 /\ y0 + e \in -1 .. NBlocks + 1
  BY <1>2, <1>5
<1> QED BY <1>4, <1>6

(* The invariant implies that the map is whole.                            *)
LEMMA WholeMapIsWhole ==
  ASSUME NEW S, NEW G, NEW B, NEW P, NEW U, WholeMap(S, G, B, P, U)
  PROVE  MapIsWhole
<1>1. /\ Shape(mem) /\ Lists(mem, S, G, B) /\ Cursors(mem, S) /\ Chains(mem, S, P)
      /\ Places(mem, P, U, free, op, crashed) /\ UniqueKeys(mem, S, op) /\ Working(op, S, P, crashed, calls) /\ Counts(mem, S, op, crashed)
  BY DEF WholeMap, Whole
<1>2. /\ Along("setNext", SetHead) = S /\ Along("getNext", GetHead) = G
      /\ \A i \in Index : Chained(i) = B[i]
      /\ Linked = Range(S)
  BY <1>1, ListsFound
<1>3. /\ DList(S, mem["setNext"], mem["setPrev"])
      /\ mem["setHead"][0] = First(S) /\ mem["setTail"][0] = EndOf(S)
      /\ DList(G, mem["getNext"], mem["getPrev"])
      /\ mem["getHead"][0] = First(G) /\ mem["getTail"][0] = EndOf(G)
      /\ Range(G) = Range(S) /\ mem["elementCount"][0] = Len(S)
      /\ \A i \in Index : /\ DList(B[i], mem["blockNext"], mem["blockPrev"])
                          /\ Range(B[i]) = {a \in Range(S) : mem["index"][a] = i}
                          /\ mem["listCount"][i] = Len(B[i])
      /\ \A a \in Range(S) : mem["index"][a] \in Index
  BY <1>1 DEF Lists, Spot, Buckets
<1>4. S \in Seq(Addr) /\ IsInjective(S) /\ Range(S) \subseteq Addr
      /\ Len(S) \in 0 .. NBlocks
  BY <1>3, Sides, AsLongAsMany DEF DList
<1>5. ASSUME NEW s, NEW nx, NEW f, DList(s, nx, mem[f])
      PROVE  IsList(s, f, Range(s)) /\ EndOf(s) \in Addr \cup {0} /\ First(s) \in Addr \cup {0}
             /\ Cardinality(Range(s)) = Len(s)
  <2>1. s \in Seq(Addr) /\ IsInjective(s) /\ Back(s, mem[f])
    BY <1>5 DEF DList
  <2>2. Cardinality(Range(s)) = Len(s)
    BY <2>1, AsLongAsMany
  <2>3. IsList(s, f, Range(s))
    BY <2>1, <2>2 DEF IsList, Back
  <2>4. EndOf(s) \in Addr \cup {0} /\ First(s) \in Addr \cup {0}
    BY <1>5, Sides
  <2> QED BY <2>2, <2>3, <2>4
<1>6. TypeOK
  <2>1. ASSUME NEW f \in HeadFields
        PROVE  mem[f][0] \in IF f \in {"elementCount", "usedChunk"} THEN 0 .. NBlocks
                             ELSE IF f \in {"dirtyCount", "onlyKeyCount"} THEN -1 .. NBlocks + 1
                             ELSE Addr \cup {0}
    <3>1. mem["elementCount"][0] \in 0 .. NBlocks
      BY <1>3, <1>4
    <3>2. mem["usedChunk"][0] \in 0 .. NBlocks
      <4>1. mem["usedChunk"][0] = Cardinality(Addr \ (free \cup U))
        BY <1>1 DEF Places
      <4>2. IsFiniteSet(Addr \ (free \cup U)) /\ Cardinality(Addr \ (free \cup U)) <= NBlocks
            /\ Cardinality(Addr \ (free \cup U)) \in Nat /\ NBlocks \in Nat
        BY HashMapAssumption, FS_Subset, FS_CardinalityType DEF NBlocks
      <4> QED BY <4>1, <4>2
    <3>3. mem["dirtyCount"][0] \in -1 .. NBlocks + 1 /\ mem["onlyKeyCount"][0] \in -1 .. NBlocks + 1
      BY <1>1, <1>4, CountsInRange
    <3>4. /\ mem["setHead"][0] \in Addr \cup {0} /\ mem["setTail"][0] \in Addr \cup {0}
          /\ mem["getHead"][0] \in Addr \cup {0} /\ mem["getTail"][0] \in Addr \cup {0}
      BY <1>3, <1>5
    <3>5. /\ mem["dirtyTail"][0] \in Addr \cup {0} /\ mem["syncTail"][0] \in Addr \cup {0}
          /\ mem["backupTail"][0] \in Addr \cup {0}
      BY <1>1, <1>4 DEF Cursors
    <3> QED BY <3>1, <3>2, <3>3, <3>4, <3>5 DEF HeadFields
  <2>2. free \subseteq Addr
    BY <1>1 DEF Places
  <2>3. /\ op.addr \in Addr \cup {0} /\ op.n \in 0 .. NBlocks + EraseCount
        /\ crashed \in BOOLEAN /\ calls \in 0 .. MaxCalls
    BY <1>1 DEF Working
  <2> QED BY <2>1, <2>2, <2>3 DEF TypeOK
<1>7. ListsAgree
  <2>1. IsList(S, "setPrev", Range(S)) /\ IsList(G, "getPrev", Range(S))
        /\ Cardinality(Range(S)) = Len(S)
    BY <1>3, <1>5
  <2>2. ASSUME NEW i \in Index
        PROVE  IsList(B[i], "blockPrev", {a \in Range(S) : mem.index[a] = i})
               /\ mem.listCount[i] = Len(B[i])
    <3>1. DList(B[i], mem["blockNext"], mem["blockPrev"])
      BY <1>3
    <3>2. IsList(B[i], "blockPrev", Range(B[i]))
      BY ONLY <3>1, <1>5
    <3> QED BY <1>3, <3>2
  <2> QED BY <1>2, <1>3, <2>1, <2>2 DEF ListsAgree, SetTail, GetTail
<1>8. CursorsAreLive
  BY <1>1, <1>2 DEF CursorsAreLive, Cursors, DirtyTail, SyncTail, BackupTail
<1>9. OneRecordPerKey
  <2> SUFFICES ASSUME NEW k \in Keys PROVE Cardinality(Blocks(k)) <= 1
    BY DEF OneRecordPerKey
  <2>0. Bucket[k] \in Index
    BY HashMapAssumption DEF Index
  <2>1. ASSUME NEW a \in Blocks(k) PROVE a \in Range(S) /\ Is(mem, a, k)
    <3>1. a \in Range(B[Bucket[k]]) /\ mem.key[a] = k /\ KeyReadable(a)
      BY <1>2, <2>0 DEF Blocks
    <3>2. a \in Range(S) /\ mem["index"][a] = Bucket[k]
      BY <1>3, <2>0, <3>1
    <3> QED BY <3>1, <3>2 DEF Is, Readable, KeyReadable
  <2>2. \A a, b \in Range(S) : Is(mem, a, k) /\ Is(mem, b, k) => a = b
    BY <1>1 DEF UniqueKeys
  <2>3. CASE Blocks(k) = {}
    BY <2>3, FS_EmptySet
  <2>4. CASE Blocks(k) # {}
    <3>1. PICK a : Blocks(k) = {a}
      BY <2>1, <2>2, <2>4
    <3>2. Cardinality(Blocks(k)) = 1
      BY <3>1, FS_Singleton
    <3> QED BY <3>2
  <2> QED BY <2>3, <2>4
<1> QED BY <1>6, <1>7, <1>8, <1>9 DEF MapIsWhole

(* The invariant implies that no block has two places.                     *)
LEMMA WholeMapHasPlaces ==
  ASSUME NEW S, NEW G, NEW B, NEW P, NEW U, WholeMap(S, G, B, P, U)
  PROVE  BlocksHaveOnePlace
<1> DEFINE todo == IF op.pc = "release" THEN op.todo ELSE <<>>
           link == IF op.pc = "link" THEN <<op.addr>> ELSE <<>>
           held == op.chunks \o todo \o link
           used == [a \in Linked |-> {a} \cup Range(Chain(a))]
           inUse == UNION Range(used)
<1>1. /\ Shape(mem) /\ Lists(mem, S, G, B) /\ Chains(mem, S, P) /\ Places(mem, P, U, free, op, crashed)
  BY DEF WholeMap, Whole
<1>2. Linked = Range(S)
  BY <1>1, ListsFound
<1>3. used = [a \in Range(S) |-> Range(P[a])]
  <2>1. ASSUME NEW a \in Range(S) PROVE Range(P[a]) = {a} \cup Range(Chain(a))
    <3>1. Chains(mem, S, P)
      BY <1>1
    <3>2. a \in Range(S)
      OBVIOUS
    <3>3. PartsAre(a, P[a])
      BY ONLY <3>1, <3>2, ChainFound
    <3> QED BY <3>3 DEF PartsAre
  <2> QED BY <1>2, <2>1
<1>4. DOMAIN P = Range(S) /\ \A a, b \in Range(S) : a # b => Range(P[a]) \cap Range(P[b]) = {}
  BY <1>1 DEF Chains
<1>5. inUse = UsedIn(P)
  BY <1>3, <1>4, SMTT(30) DEF UsedIn, Range
<1>6. /\ todo = ToRelease(op) /\ link \in Seq(Addr) /\ IsInjective(link) /\ Range(link) = Unlinked(op)
  <2>1. op.pc = "link" => op.addr \in Addr
    BY <1>1 DEF Places, Unlinked
  <2>2. CASE op.pc = "link"
    <3>1. link = <<op.addr>> /\ DOMAIN link = {1} /\ link[1] = op.addr
      BY <2>2
    <3>2. link \in Seq(Addr)
      BY <2>1, <2>2
    <3> HIDE DEF link
    <3> QED BY <2>2, <3>1, <3>2 DEF IsInjective, Range, Unlinked, ToRelease
  <2>3. CASE op.pc # "link"
    <3>1. link = <<>>
      BY <2>3
    <3> HIDE DEF link
    <3> QED BY <2>3, <3>1, EmptyQueue DEF Unlinked, ToRelease
  <2> QED BY <2>2, <2>3
<1> HIDE DEF todo, link
<1>7. /\ op.chunks \in Seq(Addr) /\ IsInjective(op.chunks)
      /\ todo \in Seq(Addr) /\ IsInjective(todo)
      /\ Range(op.chunks) \cap (free \cup Unlinked(op) \cup UsedIn(P)) = {}
      /\ Range(todo) \cap (free \cup Unlinked(op) \cup UsedIn(P) \cup Range(op.chunks)) = {}
      /\ Unlinked(op) \cap (free \cup UsedIn(P)) = {} /\ free \cap UsedIn(P) = {}
      /\ free \subseteq Addr
      /\ mem["usedChunk"][0] = Cardinality(Addr \ (free \cup U))
      /\ ~crashed => /\ U = Unlinked(op)
                     /\ Addr = free \cup U \cup Range(op.chunks) \cup Range(todo) \cup UsedIn(P)
  BY <1>1, <1>6 DEF Places
<1>8. /\ op.chunks \o todo \in Seq(Addr) /\ IsInjective(op.chunks \o todo)
      /\ Range(op.chunks \o todo) = Range(op.chunks) \cup Range(todo)
  BY <1>7, SideBySide
<1>9. held \in Seq(Addr) /\ IsInjective(held)
      /\ Range(held) = Range(op.chunks) \cup Range(todo) \cup Unlinked(op)
  <2> DEFINE two == op.chunks \o todo
  <2>1. two \in Seq(Addr) /\ IsInjective(two) /\ Range(two) \cap Range(link) = {}
    BY <1>6, <1>7, <1>8
  <2> HIDE DEF two
  <2>2. two \o link \in Seq(Addr) /\ IsInjective(two \o link)
        /\ Range(two \o link) = Range(two) \cup Range(link)
    BY <1>6, <2>1, SideBySide
  <2> QED BY <1>6, <1>8, <2>2 DEF two
<1> HIDE DEF held, inUse
<1>10. IsInjective(held) /\ Range(held) \cap (free \cup inUse) = {} /\ free \cap inUse = {}
  BY <1>5, <1>7, <1>9
<1>11. \A a, b \in DOMAIN used : a # b => used[a] \cap used[b] = {}
  BY <1>3, <1>4
<1>12. ASSUME ~crashed
       PROVE  /\ Range(held) \cup free \cup inUse = Addr
              /\ mem.usedChunk[0] = NBlocks - Cardinality(free) - IF op.pc = "link" THEN 1 ELSE 0
  <2>1. Range(held) \cup free \cup inUse = Addr
    BY <1>5, <1>7, <1>9, <1>12
  <2>2. IsFiniteSet(free) /\ Cardinality(free) \in Nat /\ NBlocks \in Nat /\ IsFiniteSet(Addr)
    BY <1>7, HashMapAssumption, FS_Subset, FS_CardinalityType DEF NBlocks
  <2>3. Cardinality(Addr \ free) = NBlocks - Cardinality(free) /\ IsFiniteSet(Addr \ free)
    <3>1. Cardinality(Addr \ free) = Cardinality(Addr) - Cardinality(Addr \cap free)
          /\ IsFiniteSet(Addr \ free)
      BY <2>2, FS_Difference
    <3>2. Addr \cap free = free
      BY <1>7
    <3> QED BY <3>1, <3>2 DEF NBlocks
  <2>4. CASE op.pc # "link"
    <3>1. Unlinked(op) = {}
      BY <2>4 DEF Unlinked
    <3>2. Addr \ (free \cup U) = Addr \ free
      BY <1>7, <1>12, <3>1
    <3>3. mem["usedChunk"][0] = NBlocks - Cardinality(free)
      BY <1>7, <2>3, <3>2
    <3>4. (IF op.pc = "link" THEN 1 ELSE 0) = 0
      BY <2>4
    <3> HIDE DEF used
    <3> QED BY <2>1, <2>2, <3>3, <3>4
  <2>5. CASE op.pc = "link"
    <3>1. Unlinked(op) = {op.addr} /\ op.addr \in Addr \ free
      BY <1>1, <1>7, <2>5 DEF Unlinked, Places
    <3>2. Addr \ (free \cup U) = (Addr \ free) \ {op.addr}
      BY <1>7, <1>12, <3>1
    <3>3. Cardinality((Addr \ free) \ {op.addr}) = Cardinality(Addr \ free) - 1
      BY <2>3, <3>1, FS_RemoveElement
    <3> QED BY <1>7, <2>1, <2>2, <2>3, <2>5, <3>2, <3>3
  <2> QED BY <2>4, <2>5
<1>13. \E h : /\ h = op.chunks \o (IF op.pc = "release" THEN op.todo ELSE <<>>)
                         \o (IF op.pc = "link" THEN <<op.addr>> ELSE <<>>)
              /\ h = held
  BY DEF held, todo, link
<1> QED BY <1>10, <1>11, <1>12, <1>13 DEF BlocksHaveOnePlace, inUse

-----------------------------------------------------------------------------
(***************************************************************************)
(* What a step may change and keep the invariant.                          *)
(***************************************************************************)

(* What an operation has in hand.                                          *)
SameHands(o, o2) ==
  o2.chunks = o.chunks /\ ToRelease(o2) = ToRelease(o) /\ Unlinked(o2) = Unlinked(o)

(* The chains stay when their links do, whatever the order of the records. *)
LEMMA ChainsKept ==
  ASSUME NEW m, NEW n, NEW S, NEW S2, NEW P, Chains(m, S, P), Range(S2) = Range(S),
         \A b \in UsedIn(P) : n["nextChunk"][b] = m["nextChunk"][b]
  PROVE  Chains(n, S2, P)
<1>1. /\ DOMAIN P = Range(S)
      /\ \A a \in Range(S) : /\ P[a] \in Seq(Addr) /\ P[a] # <<>> /\ P[a][1] = a
                             /\ IsInjective(P[a]) /\ Strung(P[a], m["nextChunk"])
      /\ \A a, b \in Range(S) : a # b => Range(P[a]) \cap Range(P[b]) = {}
  BY DEF Chains
<1>2. ASSUME NEW a \in Range(S) PROVE Strung(P[a], n["nextChunk"])
  <2>1. P[a] \in Seq(Addr) /\ Strung(P[a], m["nextChunk"])
    BY <1>1
  <2>2. ASSUME NEW i \in 1 .. Len(P[a]) PROVE n["nextChunk"][P[a][i]] = m["nextChunk"][P[a][i]]
    <3>1. P[a][i] \in Range(P[a])
      BY <2>1 DEF Range
    <3>2. P[a][i] \in UsedIn(P)
      BY <1>1, <3>1 DEF UsedIn
    <3> QED BY <3>2
  <2> QED BY <2>1, <2>2 DEF Strung
<1> QED BY <1>1, <1>2 DEF Chains

(* No block changes its place when the blocks that are in no chain keep    *)
(* what they hold.                                                         *)
LEMMA PlacesKept ==
  ASSUME NEW m, NEW n, NEW P, NEW U, NEW fr, NEW o, NEW o2, NEW cr, Places(m, P, U, fr, o, cr),
         SameHands(o, o2), n["usedChunk"][0] = m["usedChunk"][0],
         \A f \in BlockFields : \A b \in Addr \ UsedIn(P) : n[f][b] = m[f][b]
  PROVE  Places(n, P, U, fr, o2, cr)
<1>1. ASSUME NEW a \in fr \cup Unlinked(o) \cup Range(o.chunks) PROVE Blank(n, a)
  <2>1. a \in Addr \ UsedIn(P)
    <3>1. /\ fr \subseteq Addr /\ Unlinked(o) \subseteq Addr /\ o.chunks \in Seq(Addr)
          /\ Range(o.chunks) \cap UsedIn(P) = {} /\ Unlinked(o) \cap UsedIn(P) = {}
          /\ fr \cap UsedIn(P) = {}
      BY DEF Places
    <3>2. Range(o.chunks) \subseteq Addr
      BY <3>1, QueuedAreOfKind
    <3> QED BY <3>1, <3>2
  <2>2. Blank(m, a)
    BY DEF Places
  <2> QED BY <2>1, <2>2 DEF Blank
<1>2. /\ o2.chunks = o.chunks /\ ToRelease(o2) = ToRelease(o) /\ Unlinked(o2) = Unlinked(o)
  BY DEF SameHands
<1> HIDE DEF ToRelease, Unlinked
<1> QED BY <1>1, <1>2 DEF Places

(* Keys stay unique when nothing becomes readable.                         *)
LEMMA UniqueKeysKept ==
  ASSUME NEW m, NEW n, NEW S, NEW S2, NEW o, NEW o2, UniqueKeys(m, S, o),
         \A a \in Range(S2), k \in Keys : a \in Range(S) /\ (Is(n, a, k) => Is(m, a, k)),
         Phase(o2) \in Making =>
           Phase(o) \in Making /\ o.key \in Keys /\ o2.key = o.key /\ o2.addr = o.addr,
         Phase(o2) \in Making \ {"block", "link"} =>
           Phase(o) \notin {"block", "link"} /\ n["key"][o.addr] = m["key"][o.addr]
  PROVE  UniqueKeys(n, S2, o2)
<1>1. \A k \in Keys : \A a, b \in Range(S2) : Is(n, a, k) /\ Is(n, b, k) => a = b
  BY DEF UniqueKeys
<1>2. Phase(o2) \in Making => \A a \in Range(S2) : Is(n, a, o2.key) => a = o2.addr
  BY DEF UniqueKeys
<1>3. Phase(o2) \in Making \ {"block", "link"} => n["key"][o2.addr] \in {None, o2.key}
  BY DEF UniqueKeys
<1> QED BY <1>1, <1>2, <1>3 DEF UniqueKeys

(* The counts, away from the transaction that sets them.                   *)
LEMMA CountsKept ==
  ASSUME NEW m, NEW n, NEW S, NEW S2, NEW o, NEW o2, NEW cr, Counts(m, S, o, cr),
         DirtyRecords(n, S2) = DirtyRecords(m, S), KeyRecords(n, S2) = KeyRecords(m, S),
         n["dirtyCount"][0] = m["dirtyCount"][0], n["onlyKeyCount"][0] = m["onlyKeyCount"][0],
         Phase(o) \notin {"copy", "count"}, Phase(o2) \notin {"copy", "count"}
  PROVE  Counts(n, S2, o2, cr)
<1> HIDE DEF Phase
<1>1. PICK d, e \in {-1, 0, 1} :
        /\ ~cr => d = 0 /\ e = 0
        /\ m["dirtyCount"][0] = Cardinality(DirtyRecords(m, S)) + d
        /\ m["onlyKeyCount"][0] = Cardinality(KeyRecords(m, S)) + e
  BY DEF Counts
<1> QED BY <1>1 DEF Counts

(* The state that a step leads to.                                         *)
WholeMapNow == \E S, G, B, P, U : WholeMap(S, G, B, P, U)

Becomes(n, fr, o, cr, cl) ==
  mem' = n /\ free' = fr /\ op' = o /\ crashed' = cr /\ calls' = cl

(* A step to a whole state keeps the map whole.                            *)
LEMMA NextIsWhole ==
  ASSUME NEW n, NEW fr, NEW o, NEW cr, NEW cl, NEW S, NEW G, NEW B, NEW P, NEW U,
         Whole(n, fr, o, cr, cl, S, G, B, P, U), Becomes(n, fr, o, cr, cl)
  PROVE  WholeMapNow'
<1>1. WholeMap(S, G, B, P, U)'
  BY DEF WholeMap, Becomes
<1> QED BY <1>1 DEF WholeMapNow

(* A step that only changes what the process knows.                        *)
LEMMA OnlyOperation ==
  ASSUME NEW S, NEW G, NEW B, NEW P, NEW U, WholeMap(S, G, B, P, U),
         NEW U2, NEW fr, NEW o, NEW cr, NEW cl, Becomes(mem, fr, o, cr, cl),
         Places(mem, P, U2, fr, o, cr), UniqueKeys(mem, S, o), Working(o, S, P, cr, cl),
         Counts(mem, S, o, cr)
  PROVE  WholeMapNow'
<1>1. Whole(mem, fr, o, cr, cl, S, G, B, P, U2)
  BY DEF WholeMap, Whole
<1> QED BY <1>1, NextIsWhole

(* The fields of an operation.                                             *)
LEMMA OperationFields ==
  DOMAIN Idle = {"pc", "name", "key", "val", "dirty", "addr", "fresh", "chunks", "todo", "log",
                 "n", "back", "ret", "res", "old"}
BY DEF Idle

(* An operation that has no chunks in hand and is not about to get any.    *)
Calm(o, S) ==
  /\ DOMAIN o = DOMAIN Idle
  /\ o.pc \in {"count", "dirty", "setList", "getList", "sync", "synced", "return"}
  /\ o.chunks = <<>> /\ (o.pc # "return" => o.addr \in Range(S))
  /\ o.addr \in Addr \cup {0} /\ o.n \in 0 .. NBlocks + EraseCount /\ o.dirty \in BOOLEAN

(* An operation that is done with the blocks of its record is in order.    *)
LEMMA CalmWorks ==
  ASSUME NEW o, NEW S, NEW P, NEW cr, NEW cl, Calm(o, S), cr \in BOOLEAN, cl \in 0 .. MaxCalls
  PROVE  /\ Working(o, S, P, cr, cl) /\ Phase(o) = o.pc
         /\ o.chunks = <<>> /\ ToRelease(o) = <<>> /\ Unlinked(o) = {}
<1>1. Phase(o) = o.pc /\ ToRelease(o) = <<>> /\ Unlinked(o) = {}
  BY DEF Calm, Phase, ToRelease, Unlinked
<1>2. o.pc \in {"count", "dirty", "setList", "getList", "sync", "synced", "return"}
  BY DEF Calm
<1> HIDE DEF Phase
<1> QED BY <1>1, <1>2 DEF Calm, Working, Making, AtRecord

(* Who has nothing to do has nothing in hand.                              *)
LEMMA IdleHands ==
  Phase(Idle) = "idle" /\ Idle.chunks = <<>> /\ ToRelease(Idle) = <<>> /\ Unlinked(Idle) = {}
<1>1. Idle.pc = "idle" /\ Idle.chunks = <<>>
  BY DEF Idle
<1> HIDE DEF Idle
<1> QED BY <1>1 DEF Phase, ToRelease, Unlinked

(* No operation is at work.                                                *)
LEMMA IdleWorks ==
  ASSUME NEW S, NEW P, NEW cr, NEW cl, cr \in BOOLEAN, cl \in 0 .. MaxCalls
  PROVE  /\ Working(Idle, S, P, cr, cl) /\ Phase(Idle) = "idle"
         /\ Idle.chunks = <<>> /\ ToRelease(Idle) = <<>> /\ Unlinked(Idle) = {}
<1>1. /\ Idle.pc = "idle" /\ Idle.chunks = <<>> /\ Idle.addr = 0 /\ Idle.n = 0
      /\ Idle.dirty \in BOOLEAN
  BY DEF Idle
<1>2. Phase(Idle) = "idle" /\ ToRelease(Idle) = <<>> /\ Unlinked(Idle) = {}
  BY <1>1 DEF Phase, ToRelease, Unlinked
<1>3. NBlocks \in Nat /\ EraseCount \in Nat
  BY HashMapAssumption, FS_CardinalityType DEF NBlocks
<1> HIDE DEF Phase, Idle
<1> QED BY <1>1, <1>2, <1>3 DEF Working, Making, AtRecord

(* What is known of the operation at work.                                 *)
LEMMA AtWork ==
  ASSUME NEW S, NEW P, Working(op, S, P, crashed, calls), op.pc \notin {"release", "evict"}
  PROVE  /\ DOMAIN op = DOMAIN Idle /\ Phase(op) = op.pc /\ ToRelease(op) = <<>>
         /\ op.pc # "link" => Unlinked(op) = {}
         /\ op.pc \notin {"chunk", "join"} => op.chunks = <<>>
         /\ op.pc \in AtRecord => op.addr \in Range(S)
         /\ op.addr \in Addr \cup {0} /\ op.n \in 0 .. NBlocks + EraseCount /\ op.dirty \in BOOLEAN
         /\ crashed \in BOOLEAN /\ calls \in 0 .. MaxCalls
         /\ op.pc = "idle" => op = Idle
<1>1. Phase(op) = op.pc /\ ToRelease(op) = <<>> /\ (op.pc # "link" => Unlinked(op) = {})
  BY DEF Phase, ToRelease, Unlinked
<1> HIDE DEF Phase
<1> QED BY <1>1 DEF Working

(* An operation begins when none is at work.                               *)
LEMMA BeginWorks ==
  ASSUME NEW S, NEW P, Working(op, S, P, crashed, calls), Begin
  PROVE  op = Idle /\ calls' \in 0 .. MaxCalls /\ crashed \in BOOLEAN
<1>1. op.pc = "idle" /\ calls \in 0 .. MaxCalls /\ crashed \in BOOLEAN
  BY DEF Begin, Working
<1>2. op = Idle
  BY <1>1, AtWork
<1>3. MaxCalls \in Nat
  BY HashMapAssumption
<1> QED BY <1>1, <1>2, <1>3 DEF Begin

(* The records may be in another order, and the cursors elsewhere.         *)
Reordering(n, S, S2, G2) ==
  /\ Shape(n) /\ Touches(mem, n, OrderFields, Range(S))
  /\ Spot(n, S2, "setHead", "setTail", "setNext", "setPrev")
  /\ Spot(n, G2, "getHead", "getTail", "getNext", "getPrev")
  /\ Range(S2) = Range(S) /\ Range(G2) = Range(S) /\ Len(S2) = Len(S)
  /\ Cursors(n, S)

(* The fields of the order of the records are not those of the records.    *)
LEMMA OrderFieldsApart ==
  \A f \in {"index", "dirty", "onlyKey", "nextChunk", "len", "key", "val", "usedChunk",
            "blockNext", "blockPrev", "blockAddr", "listCount", "elementCount", "dirtyCount",
            "onlyKeyCount"} : f \in Fields /\ f \notin OrderFields
BY FieldNames, MoreFields DEF OrderFields, SetFields, GetFields, CursorFields, Fields, HeadFields

(* A step that only reorders the two lists or moves a cursor keeps the map *)
(* whole.                                                                  *)
LEMMA OrderKept ==
  ASSUME NEW S, NEW G, NEW B, NEW P, NEW U, WholeMap(S, G, B, P, U),
         NEW n, NEW S2, NEW G2, Reordering(n, S, S2, G2), NEW o, NEW cl,
         Becomes(n, free, o, crashed, cl), SameHands(op, o), Phase(op) \notin {"copy", "count"},
         Phase(o) \notin Making \cup {"copy", "count"}, Working(o, S, P, crashed, cl)
  PROVE  WholeMapNow'
<1>1. /\ Shape(mem) /\ Flags(mem) /\ Lists(mem, S, G, B) /\ Chains(mem, S, P)
      /\ Places(mem, P, U, free, op, crashed) /\ UniqueKeys(mem, S, op)
      /\ Counts(mem, S, op, crashed)
  BY DEF WholeMap, Whole
<1>2. /\ Shape(n) /\ Range(S2) = Range(S) /\ Range(G2) = Range(S) /\ Len(S2) = Len(S)
      /\ Spot(n, S2, "setHead", "setTail", "setNext", "setPrev")
      /\ Spot(n, G2, "getHead", "getTail", "getNext", "getPrev")
      /\ Cursors(n, S) /\ Touches(mem, n, OrderFields, Range(S))
  BY DEF Reordering
<1>3. /\ \A f \in Fields : f \notin OrderFields => n[f] = mem[f]
      /\ \A f \in BlockFields : \A b \in Addr : b \notin Range(S) => n[f][b] = mem[f][b]
  BY <1>2, Unaltered
<1>4. /\ n["index"] = mem["index"] /\ n["dirty"] = mem["dirty"] /\ n["onlyKey"] = mem["onlyKey"]
      /\ n["nextChunk"] = mem["nextChunk"] /\ n["len"] = mem["len"] /\ n["key"] = mem["key"]
      /\ n["usedChunk"] = mem["usedChunk"]
      /\ n["blockNext"] = mem["blockNext"] /\ n["blockPrev"] = mem["blockPrev"]
      /\ n["blockAddr"] = mem["blockAddr"] /\ n["listCount"] = mem["listCount"]
      /\ n["elementCount"] = mem["elementCount"] /\ n["dirtyCount"] = mem["dirtyCount"]
      /\ n["onlyKeyCount"] = mem["onlyKeyCount"]
  BY <1>3, OrderFieldsApart
<1>5. Flags(n)
  BY <1>1, <1>4 DEF Flags
<1>6. Lists(n, S2, G2, B)
  <2>1. Buckets(n, Range(S), B)
    BY <1>1, <1>4 DEF Lists, Buckets
  <2>2. n["elementCount"][0] = Len(S2)
    BY <1>1, <1>2, <1>4 DEF Lists
  <2> QED BY <1>2, <2>1, <2>2 DEF Lists
<1>7. Cursors(n, S2)
  BY <1>2 DEF Cursors
<1>8. Chains(n, S2, P)
  BY <1>1, <1>2, <1>4, ChainsKept
<1>9. Places(n, P, U, free, o, crashed)
  <2>1. Range(S) \subseteq UsedIn(P)
    <3>1. ASSUME NEW a \in Range(S) PROVE a \in UsedIn(P)
      <4>1. P[a] \in Seq(Addr) /\ P[a] # <<>> /\ P[a][1] = a /\ a \in DOMAIN P
        BY <1>1 DEF Chains
      <4>2. a \in Range(P[a])
        BY <4>1 DEF Range
      <4> QED BY <4>1, <4>2 DEF UsedIn
    <3> QED BY <3>1
  <2>2. \A f \in BlockFields : \A b \in Addr \ UsedIn(P) : n[f][b] = mem[f][b]
    BY <1>3, <2>1
  <2>3. n["usedChunk"][0] = mem["usedChunk"][0]
    BY <1>4
  <2> QED BY <1>1, <2>2, <2>3, PlacesKept
<1>10. UniqueKeys(n, S2, o)
  <2>1. \A a \in Range(S2), k \in Keys : a \in Range(S) /\ (Is(n, a, k) => Is(mem, a, k))
    BY <1>2, <1>4 DEF Is, Readable
  <2>2. Phase(o) \notin Making
    OBVIOUS
  <2> HIDE DEF Phase
  <2> QED BY <1>1, <2>1, <2>2, UniqueKeysKept
<1>11. Counts(n, S2, o, crashed)
  <2>1. DirtyRecords(n, S2) = DirtyRecords(mem, S) /\ KeyRecords(n, S2) = KeyRecords(mem, S)
    BY <1>2, <1>4 DEF DirtyRecords, KeyRecords
  <2>2. Phase(o) \notin {"copy", "count"}
    OBVIOUS
  <2>3. n["dirtyCount"][0] = mem["dirtyCount"][0] /\ n["onlyKeyCount"][0] = mem["onlyKeyCount"][0]
    BY <1>4
  <2> HIDE DEF Phase
  <2> QED BY <1>1, <2>1, <2>2, <2>3, CountsKept
<1>12. Working(o, S2, P, crashed, cl)
  BY <1>2 DEF Working
<1>13. Whole(n, free, o, crashed, cl, S2, G2, B, P, U)
  BY <1>2, <1>5, <1>6, <1>7, <1>8, <1>9, <1>10, <1>11, <1>12 DEF Whole
<1> QED BY <1>13, NextIsWhole

-----------------------------------------------------------------------------
(***************************************************************************)
(* The steps that only reorder the lists or move a cursor.                 *)
(***************************************************************************)

(* The neighbours in a list are in the list.                               *)
LEMMA PrevInList ==
  ASSUME NEW s, NEW h, NEW t, NEW nx, NEW pv, Spot(mem, s, h, t, nx, pv)
  PROVE  /\ \A a \in Range(s) : mem[pv][a] \in Range(s) \cup {0}
         /\ mem[t][0] \in Range(s) \cup {0}
         /\ s # <<>> => mem[t][0] = s[Len(s)] /\ Len(s) \in 1 .. Len(s)
         /\ Len(s) \in Nat /\ Range(s) \subseteq Addr
         /\ \A a \in Range(s) : \E p \in 1 .. Len(s) : s[p] = a
         /\ mem[t][0] # 0 => s # <<>>
<1>1. DList(s, mem[nx], mem[pv]) /\ mem[t][0] = EndOf(s)
  BY DEF Spot
<1>2. /\ s \in Seq(Addr) /\ Len(s) \in Nat /\ Range(s) \subseteq Addr
      /\ \A i \in 1 .. Len(s) : mem[pv][s[i]] = IF i = 1 THEN 0 ELSE s[i - 1]
      /\ \A a : a \in Range(s) <=> \E i \in 1 .. Len(s) : s[i] = a
      /\ EndOf(s) = IF Len(s) = 0 THEN 0 ELSE s[Len(s)]
  BY <1>1, Sides
<1>3. ASSUME NEW a \in Range(s) PROVE mem[pv][a] \in Range(s) \cup {0}
  <2>1. PICK i \in 1 .. Len(s) : s[i] = a
    BY <1>2
  <2>2. CASE i = 1
    BY <1>2, <2>1, <2>2
  <2>3. CASE i # 1
    <3>1. i - 1 \in 1 .. Len(s) /\ mem[pv][a] = s[i - 1]
      BY <1>2, <2>1, <2>3
    <3> QED BY <1>2, <3>1
  <2> QED BY <2>2, <2>3
<1>4. s # <<>> => Len(s) \in 1 .. Len(s)
  BY <1>2
<1>5. Len(s) = 0 => s = <<>>
  BY <1>2
<1> QED BY <1>1, <1>2, <1>3, <1>4, <1>5

(* A record that goes to the head stays in the list.                       *)
LEMMA ToHeadKeeps ==
  ASSUME NEW s, NEW nx, NEW pv, DList(s, nx, pv), NEW p \in 1 .. Len(s)
  PROVE  Range(ToHead(s, p)) = Range(s) /\ Len(ToHead(s, p)) = Len(s)
<1>1. CASE p = 1
  BY <1>1 DEF ToHead
<1>2. CASE p # 1
  <2>1. /\ Without(s, p) \in Seq(Addr) /\ Len(Without(s, p)) = Len(s) - 1
        /\ Range(Without(s, p)) = Range(s) \ {s[p]} /\ s[p] \in Range(s) /\ s[p] \in Addr
        /\ Len(s) \in Nat
    BY WithoutOf, Sides
  <2>2. /\ Len(Headed(s[p], Without(s, p))) = Len(Without(s, p)) + 1
        /\ Range(Headed(s[p], Without(s, p))) = Range(Without(s, p)) \cup {s[p]}
    BY <2>1, FrontOf
  <2>3. ToHead(s, p) = Headed(s[p], Without(s, p))
    BY <1>2 DEF ToHead
  <2> HIDE DEF ToHead, Headed, Without
  <2> QED BY <2>1, <2>2, <2>3
<1> QED BY <1>1, <1>2

(* The names of the fields of the order.                                   *)
LEMMA OrderNames ==
  /\ SetFields \cup CursorFields \subseteq OrderFields
  /\ GetFields \cup CursorFields \subseteq OrderFields
  /\ \A f \in CursorFields : {f} \subseteq OrderFields
  /\ \A f \in SetFields : f \notin GetFields \cup CursorFields
  /\ \A f \in GetFields : f \notin SetFields \cup CursorFields
  /\ SetFields \subseteq Fields /\ GetFields \subseteq Fields /\ CursorFields \subseteq Fields
  /\ CursorFields \subseteq HeadFields
  /\ {"setHead", "setTail", "setNext", "setPrev"} = SetFields
  /\ {"getHead", "getTail", "getNext", "getPrev"} = GetFields
  /\ CursorFields = {"dirtyTail", "syncTail", "backupTail"}
BY TheLists, MoreFields, EraseFieldsApart
   DEF OrderFields, SetFields, GetFields, CursorFields, HeadFields

(* A list that no store touches stays.                                     *)
LEMMA OtherSpot ==
  ASSUME NEW m, NEW n, NEW s, NEW h, NEW t, NEW nx, NEW pv, Spot(m, s, h, t, nx, pv),
         n[h] = m[h], n[t] = m[t], n[nx] = m[nx], n[pv] = m[pv]
  PROVE  Spot(n, s, h, t, nx, pv)
BY DEF Spot

(* What is known of the lists and cursors before a step.                   *)
Listing(S, G) ==
  /\ Shape(mem) /\ Cursors(mem, S) /\ Range(G) = Range(S)
  /\ Spot(mem, S, "setHead", "setTail", "setNext", "setPrev")
  /\ Spot(mem, G, "getHead", "getTail", "getNext", "getPrev")

(* What the invariant says about the two lists and the cursors.            *)
LEMMA ListingOf ==
  ASSUME NEW S, NEW G, NEW B, NEW P, NEW U, WholeMap(S, G, B, P, U)
  PROVE  /\ Listing(S, G) /\ Working(op, S, P, crashed, calls)
         /\ Range(S) \subseteq Addr /\ mem["dirty"] \in [Addr -> BOOLEAN]
<1>1. Listing(S, G) /\ Working(op, S, P, crashed, calls) /\ mem["dirty"] \in [Addr -> BOOLEAN]
  BY DEF WholeMap, Whole, Listing, Lists, Flags
<1>2. Range(S) \subseteq Addr
  BY <1>1, PrevInList DEF Listing
<1> QED BY <1>1, <1>2

(* What refreshSetList does is a reordering.                               *)
LEMMA SetRefreshedReorders ==
  ASSUME NEW S, NEW G, Listing(S, G), NEW p \in 1 .. Len(S), NEW n, SetRefreshed(n, S, p)
  PROVE  Reordering(n, S, ToHead(S, p), G)
<1>1. /\ Shape(mem) /\ Cursors(mem, S) /\ Range(G) = Range(S)
      /\ Spot(mem, S, "setHead", "setTail", "setNext", "setPrev")
      /\ Spot(mem, G, "getHead", "getTail", "getNext", "getPrev")
  BY DEF Listing
<1>2. /\ Shape(n) /\ Touches(mem, n, SetFields \cup CursorFields, Range(S))
      /\ Spot(n, ToHead(S, p), "setHead", "setTail", "setNext", "setPrev")
      /\ n["syncTail"][0] \in {mem["setPrev"][S[p]], SyncTail}
      /\ n["dirtyTail"][0] \in {S[p], mem["setPrev"][S[p]], DirtyTail}
      /\ n["backupTail"][0] = BackupTail
  BY DEF SetRefreshed
<1>3. Touches(mem, n, OrderFields, Range(S))
  BY <1>2, OrderNames, TouchesMore
<1>4. \A g \in Fields : g \notin SetFields \cup CursorFields => n[g] = mem[g]
  BY <1>2, Unaltered
<1>5. \A g \in GetFields : n[g] = mem[g]
  BY <1>4, OrderNames
<1>6. Spot(n, G, "getHead", "getTail", "getNext", "getPrev")
  <2>1. /\ n["getHead"] = mem["getHead"] /\ n["getTail"] = mem["getTail"]
        /\ n["getNext"] = mem["getNext"] /\ n["getPrev"] = mem["getPrev"]
    BY <1>5, OrderNames
  <2> QED BY <1>1, <2>1, OtherSpot
<1>7. Range(ToHead(S, p)) = Range(S) /\ Len(ToHead(S, p)) = Len(S)
  BY <1>1, ToHeadKeeps DEF Spot
<1>8. S[p] \in Range(S) /\ \A a \in Range(S) : mem["setPrev"][a] \in Range(S) \cup {0}
  <2>1. S[p] \in Range(S)
    BY <1>1, Sides DEF Spot
  <2> QED BY <1>1, <2>1, PrevInList
<1>9. Cursors(n, S)
  <2>1. {mem["dirtyTail"][0], mem["syncTail"][0], mem["backupTail"][0]} \subseteq Range(S) \cup {0}
    BY <1>1 DEF Cursors
  <2>2. /\ n["syncTail"][0] \in Range(S) \cup {0} /\ n["dirtyTail"][0] \in Range(S) \cup {0}
        /\ n["backupTail"][0] \in Range(S) \cup {0}
    BY <1>2, <1>8, <2>1 DEF SyncTail, DirtyTail, BackupTail
  <2> QED BY <2>2 DEF Cursors
<1> QED BY <1>1, <1>2, <1>3, <1>6, <1>7, <1>9 DEF Reordering

(* What refreshGetList and erase(true) of a dirty record do is a           *)
(* reordering.                                                             *)
LEMMA GetRefreshedReorders ==
  ASSUME NEW S, NEW G, Listing(S, G), NEW q \in 1 .. Len(G), NEW n,
         GetRefreshed(n, G, q) \/ (q = Len(G) /\ DirtyKept(n, G))
  PROVE  Reordering(n, S, S, ToHead(G, q))
<1>1. /\ Shape(mem) /\ Cursors(mem, S) /\ Range(G) = Range(S)
      /\ Spot(mem, S, "setHead", "setTail", "setNext", "setPrev")
      /\ Spot(mem, G, "getHead", "getTail", "getNext", "getPrev")
  BY DEF Listing
<1>2. /\ Shape(n) /\ Touches(mem, n, GetFields \cup CursorFields, Range(S))
      /\ Spot(n, ToHead(G, q), "getHead", "getTail", "getNext", "getPrev")
      /\ n["syncTail"][0] = SyncTail
      /\ n["dirtyTail"][0] \in {G[q], DirtyTail}
      /\ n["backupTail"][0] \in {mem["getPrev"][G[q]], BackupTail}
  <2>1. CASE GetRefreshed(n, G, q)
    BY <1>1, <2>1 DEF GetRefreshed
  <2>2. CASE q = Len(G) /\ DirtyKept(n, G)
    <3>1. DirtyKept(n, G) /\ Len(G) = q
      BY <2>2
    <3> QED BY <1>1, <3>1 DEF DirtyKept
  <2> QED BY <2>1, <2>2
<1>3. Touches(mem, n, OrderFields, Range(S))
  BY <1>2, OrderNames, TouchesMore
<1>4. \A g \in Fields : g \notin GetFields \cup CursorFields => n[g] = mem[g]
  BY <1>2, Unaltered
<1>5. \A g \in SetFields : n[g] = mem[g]
  BY <1>4, OrderNames
<1>6. Spot(n, S, "setHead", "setTail", "setNext", "setPrev")
  <2>1. /\ n["setHead"] = mem["setHead"] /\ n["setTail"] = mem["setTail"]
        /\ n["setNext"] = mem["setNext"] /\ n["setPrev"] = mem["setPrev"]
    BY <1>5, OrderNames
  <2> QED BY <1>1, <2>1, OtherSpot
<1>7. Range(ToHead(G, q)) = Range(G)
  BY <1>1, ToHeadKeeps DEF Spot
<1>8. G[q] \in Range(S) /\ \A a \in Range(S) : mem["getPrev"][a] \in Range(S) \cup {0}
  <2>1. G[q] \in Range(G)
    BY <1>1, Sides DEF Spot
  <2> QED BY <1>1, <2>1, PrevInList
<1>9. Cursors(n, S)
  <2>1. {mem["dirtyTail"][0], mem["syncTail"][0], mem["backupTail"][0]} \subseteq Range(S) \cup {0}
    BY <1>1 DEF Cursors
  <2>2. /\ n["syncTail"][0] \in Range(S) \cup {0} /\ n["dirtyTail"][0] \in Range(S) \cup {0}
        /\ n["backupTail"][0] \in Range(S) \cup {0}
    BY <1>2, <1>8, <2>1 DEF SyncTail, DirtyTail, BackupTail
  <2> QED BY <2>2 DEF Cursors
<1> QED BY <1>1, <1>2, <1>3, <1>6, <1>7, <1>9 DEF Reordering

(* A cursor that goes to a record or nowhere is a reordering.              *)
LEMMA HeadSetReorders ==
  ASSUME NEW S, NEW G, Listing(S, G), NEW n, NEW c, NEW f \in CursorFields,
         NEW v \in Range(S) \cup {0}, HeadSet(n, c, f, v)
  PROVE  Reordering(n, S, S, G)
<1>1. /\ Shape(mem) /\ Cursors(mem, S) /\ Range(G) = Range(S)
      /\ Spot(mem, S, "setHead", "setTail", "setNext", "setPrev")
      /\ Spot(mem, G, "getHead", "getTail", "getNext", "getPrev")
  BY DEF Listing
<1>2. Shape(n) /\ Touches(mem, n, {f}, {}) /\ n[f][0] \in {v, mem[f][0]}
  BY DEF HeadSet
<1>3. Touches(mem, n, OrderFields, Range(S))
  BY <1>2, OrderNames, TouchesMore
<1>4. \A g \in Fields : g # f => n[g] = mem[g]
  BY <1>2, Unaltered
<1>5. \A g \in SetFields \cup GetFields : n[g] = mem[g]
  BY <1>4, OrderNames
<1>6. /\ n["setHead"] = mem["setHead"] /\ n["setTail"] = mem["setTail"]
      /\ n["setNext"] = mem["setNext"] /\ n["setPrev"] = mem["setPrev"]
      /\ n["getHead"] = mem["getHead"] /\ n["getTail"] = mem["getTail"]
      /\ n["getNext"] = mem["getNext"] /\ n["getPrev"] = mem["getPrev"]
  BY <1>5, OrderNames
<1>7. Spot(n, S, "setHead", "setTail", "setNext", "setPrev")
  BY <1>1, <1>6, OtherSpot
<1>8. Spot(n, G, "getHead", "getTail", "getNext", "getPrev")
  BY <1>1, <1>6, OtherSpot
<1>9. Cursors(n, S)
  <2>1. \A g \in CursorFields : mem[g][0] \in Range(S) \cup {0}
    BY <1>1, OrderNames DEF Cursors
  <2>2. \A g \in CursorFields : n[g][0] \in Range(S) \cup {0}
    BY <1>2, <1>4, <2>1, OrderNames
  <2>3. "dirtyTail" \in CursorFields /\ "syncTail" \in CursorFields /\ "backupTail" \in CursorFields
    BY OrderNames
  <2> QED BY <2>2, <2>3 DEF Cursors
<1> QED BY <1>1, <1>2, <1>3, <1>7, <1>8, <1>9 DEF Reordering

(* A step of an operation without chunks that at most changes the order of *)
(* the records.                                                            *)
LEMMA CalmStep ==
  ASSUME NEW S, NEW G, NEW B, NEW P, NEW U, WholeMap(S, G, B, P, U),
         NEW n, NEW S2, NEW G2, Reordering(n, S, S2, G2), NEW o, NEW cl \in 0 .. MaxCalls,
         (Calm(o, S) /\ o.pc # "count") \/ o = Idle,
         op.pc \in {"idle", "return", "setList", "getList", "sync", "synced"},
         Becomes(n, free, o, crashed, cl)
  PROVE  WholeMapNow'
<1>1. Working(op, S, P, crashed, calls)
  BY ListingOf
<1>2. /\ Phase(op) = op.pc /\ ToRelease(op) = <<>> /\ Unlinked(op) = {} /\ op.chunks = <<>>
      /\ crashed \in BOOLEAN
  BY <1>1, AtWork
<1>3. /\ Working(o, S, P, crashed, cl) /\ Phase(o) = o.pc
      /\ o.chunks = <<>> /\ ToRelease(o) = <<>> /\ Unlinked(o) = {}
      /\ o.pc \in {"idle", "dirty", "setList", "getList", "sync", "synced", "return"}
  <2>1. CASE Calm(o, S) /\ o.pc # "count"
    <3>1. /\ Working(o, S, P, crashed, cl) /\ Phase(o) = o.pc
          /\ o.chunks = <<>> /\ ToRelease(o) = <<>> /\ Unlinked(o) = {}
      BY <1>2, <2>1, CalmWorks
    <3>2. o.pc \in {"dirty", "setList", "getList", "sync", "synced", "return"}
      BY <2>1 DEF Calm
    <3> QED BY <3>1, <3>2
  <2>2. CASE o = Idle
    <3>1. Idle.pc = "idle"
      BY DEF Idle
    <3>2. /\ Working(Idle, S, P, crashed, cl) /\ Phase(Idle) = "idle"
          /\ Idle.chunks = <<>> /\ ToRelease(Idle) = <<>> /\ Unlinked(Idle) = {}
      BY ONLY <1>2, cl \in 0 .. MaxCalls, IdleWorks
    <3> QED BY ONLY <2>2, <3>1, <3>2
  <2> QED BY <2>1, <2>2
<1>4. Phase(op) \notin {"copy", "count"}
  BY <1>2
<1>5. Phase(o) \notin Making \cup {"copy", "count"}
  BY <1>3 DEF Making
<1>6. SameHands(op, o)
  BY <1>2, <1>3 DEF SameHands
<1> HIDE DEF Phase, Calm, Idle
<1> QED BY <1>3, <1>4, <1>5, <1>6, OrderKept

(* Where a record is in the two lists.                                     *)
LEMMA Position ==
  ASSUME NEW S, NEW G, Listing(S, G), NEW a \in Range(S)
  PROVE  /\ \E p \in 1 .. Len(S) : S[p] = a
         /\ \E q \in 1 .. Len(G) : G[q] = a
BY PrevInList DEF Listing

(* The order of the records after a store in one cursor.                   *)
LEMMA CursorSet ==
  ASSUME NEW S, NEW G, Listing(S, G), NEW c, NEW f \in CursorFields, NEW v \in Range(S) \cup {0}
  PROVE  \E n : Makes(If(c, Put(f, 0, v)), mem, n) /\ Reordering(n, S, S, G)
<1>1. Shape(mem) /\ f \in HeadFields
  BY OrderNames DEF Listing
<1>2. PICK n : HeadSet(n, c, f, v)
  BY <1>1, HeadSetMakes
<1>3. Reordering(n, S, S, G)
  BY <1>2, HeadSetReorders
<1> QED BY <1>2, <1>3 DEF HeadSet

(* A transaction that sets a cursor is a reordering.                       *)
LEMMA CursorPut ==
  ASSUME NEW S, NEW G, Listing(S, G), NEW f \in CursorFields, NEW v \in Range(S) \cup {0}
  PROVE  \E n : Makes(Put(f, 0, v), mem, n) /\ Reordering(n, S, S, G)
<1>1. PICK c : c = TRUE
  OBVIOUS
<1>2. PICK n : Makes(If(c, Put(f, 0, v)), mem, n) /\ Reordering(n, S, S, G)
  BY CursorSet
<1>3. If(c, Put(f, 0, v)) = Put(f, 0, v)
  BY <1>1 DEF If
<1> QED BY <1>2, <1>3

(* A transaction leaves what its log makes.                                *)
LEMMA CommitMakes ==
  ASSUME NEW l, NEW n, Commit(l), Makes(l, mem, n)
  PROVE  mem' = n
BY DEF Commit, Makes

(* The last but one step of a set keeps the map whole.                     *)
LEMMA RefreshSetKeeps ==
  ASSUME NEW S, NEW G, NEW B, NEW P, NEW U, WholeMap(S, G, B, P, U), refreshSetList
  PROVE  WholeMapNow'
<1>1. /\ Listing(S, G) /\ Working(op, S, P, crashed, calls)
  BY ListingOf
<1>2. /\ op.pc = "setList" /\ Commit(refreshSetListLog(op.addr))
      /\ op' = [op EXCEPT !.pc = "getList"] /\ free' = free /\ crashed' = crashed /\ calls' = calls
  BY DEF refreshSetList, Become
<1>3. /\ DOMAIN op = DOMAIN Idle /\ op.chunks = <<>> /\ op.addr \in Range(S)
      /\ op.addr \in Addr \cup {0} /\ op.n \in 0 .. NBlocks + EraseCount /\ calls \in 0 .. MaxCalls
      /\ op.dirty \in BOOLEAN
  BY <1>1, <1>2, AtWork DEF AtRecord
<1>4. PICK p \in 1 .. Len(S) : S[p] = op.addr
  BY <1>1, <1>3, Position
<1>5. PICK n : SetRefreshed(n, S, p)
  BY <1>1, RefreshSetMakes DEF Listing
<1>6. Reordering(n, S, ToHead(S, p), G)
  BY <1>1, <1>5, SetRefreshedReorders
<1>7. mem' = n
  <2>1. Makes(refreshSetListLog(op.addr), mem, n)
    BY <1>4, <1>5 DEF SetRefreshed
  <2> QED BY <1>2, <2>1, CommitMakes
<1> DEFINE o == [op EXCEPT !.pc = "getList"]
<1>8. Calm(o, S) /\ o.pc # "count"
  BY <1>3, OperationFields DEF Calm
<1>9. Becomes(n, free, o, crashed, calls)
  BY <1>2, <1>7 DEF Becomes
<1>10. op.pc \in {"idle", "return", "setList", "getList", "sync", "synced"}
  BY <1>2
<1> HIDE DEF o
<1> QED BY <1>3, <1>6, <1>8, <1>9, <1>10, CalmStep

(* The last step of a set keeps the map whole.                             *)
LEMMA RefreshGetKeeps ==
  ASSUME NEW S, NEW G, NEW B, NEW P, NEW U, WholeMap(S, G, B, P, U), refreshGetList
  PROVE  WholeMapNow'
<1>1. /\ Listing(S, G) /\ Working(op, S, P, crashed, calls)
  BY ListingOf
<1>2. /\ op.pc = "getList" /\ Commit(refreshGetListLog(op.addr))
      /\ op' = [op EXCEPT !.pc = "return", !.res = "ok"]
      /\ free' = free /\ crashed' = crashed /\ calls' = calls
  BY DEF refreshGetList
<1>3. /\ DOMAIN op = DOMAIN Idle /\ op.chunks = <<>> /\ op.addr \in Range(S)
      /\ op.addr \in Addr \cup {0} /\ op.n \in 0 .. NBlocks + EraseCount /\ calls \in 0 .. MaxCalls
      /\ op.dirty \in BOOLEAN
  BY <1>1, <1>2, AtWork DEF AtRecord
<1>4. PICK q \in 1 .. Len(G) : G[q] = op.addr
  BY <1>1, <1>3, Position
<1>5. PICK n : GetRefreshed(n, G, q)
  BY <1>1, RefreshGetMakes DEF Listing
<1>6. Reordering(n, S, S, ToHead(G, q))
  BY <1>1, <1>5, GetRefreshedReorders
<1>7. mem' = n
  <2>1. Makes(refreshGetListLog(op.addr), mem, n)
    BY <1>4, <1>5 DEF GetRefreshed
  <2> QED BY <1>2, <2>1, CommitMakes
<1> DEFINE o == [op EXCEPT !.pc = "return", !.res = "ok"]
<1>8. Calm(o, S) /\ o.pc # "count"
  BY <1>3, OperationFields DEF Calm
<1>9. Becomes(n, free, o, crashed, calls)
  BY <1>2, <1>7 DEF Becomes
<1>10. op.pc \in {"idle", "return", "setList", "getList", "sync", "synced"}
  BY <1>2
<1> HIDE DEF o
<1> QED BY <1>3, <1>6, <1>8, <1>9, <1>10, CalmStep

(* An operation that is over at once, while none is at work.               *)
LEMMA AtOnce ==
  ASSUME NEW S, NEW G, NEW B, NEW P, NEW U, WholeMap(S, G, B, P, U), Begin,
         NEW n, NEW S2, NEW G2, Reordering(n, S, S2, G2), mem' = n,
         UNCHANGED <<free, op, crashed>>
  PROVE  WholeMapNow'
<1>1. Working(op, S, P, crashed, calls)
  BY ListingOf
<1>2. op = Idle /\ calls' \in 0 .. MaxCalls
  BY <1>1, BeginWorks
<1>3. op.pc \in {"idle", "return", "setList", "getList", "sync", "synced"}
  BY DEF Begin
<1>4. Becomes(n, free, Idle, crashed, calls')
  BY <1>2 DEF Becomes
<1> HIDE DEF Idle
<1> QED BY <1>2, <1>3, <1>4, CalmStep

-----------------------------------------------------------------------------
(***************************************************************************)
(* Finding a record; get, sync, backup and setDirty.                       *)
(***************************************************************************)

(* What find returns is a record of the key that can be read, 0 or -1.     *)
LEMMA FindFinds ==
  ASSUME NEW S, NEW G, NEW B, Lists(mem, S, G, B), NEW k \in Keys
  PROVE  /\ \/ find(k) \in Range(S) /\ Is(mem, find(k), k)
            \/ find(k) \in {0, -1}
         /\ find(k) \in {0, -1} => \A a \in Range(S) : ~Is(mem, a, k)
<1> DEFINE i == Bucket[k]
           chain == Chained(i)
           at == {j \in DOMAIN chain : KeyReadable(chain[j]) /\ mem.key[chain[j]] = k}
<1>1. i \in Index
  BY HashMapAssumption DEF Index
<1>2. chain = B[i]
  BY <1>1, ListsFound
<1>3. /\ DList(B[i], mem["blockNext"], mem["blockPrev"])
      /\ Range(B[i]) = {a \in Range(S) : mem["index"][a] = i}
  BY <1>1 DEF Lists, Buckets
<1>4. /\ chain \in Seq(Addr) /\ DOMAIN chain = 1 .. Len(chain) /\ Len(chain) \in Nat
      /\ \A a : a \in Range(chain) <=> \E j \in 1 .. Len(chain) : chain[j] = a
      /\ Range(chain) = {a \in Range(S) : mem["index"][a] = i}
      /\ Range(chain) \subseteq Addr
  BY <1>2, <1>3, Sides
<1>5. find(k) = IF at # {} THEN chain[Min(at)]
                ELSE IF chain # <<>> /\ ~KeyReadable(Last(chain)) THEN -1 ELSE 0
  BY DEF find, Found
<1> HIDE DEF chain, i
<1>6. at # {} => Min(at) \in at
  <2> SUFFICES ASSUME at # {} PROVE Min(at) \in at
    OBVIOUS
  <2>1. at \in SUBSET Nat /\ at # {}
    BY <1>4
  <2> HIDE DEF at
  <2>2. PICK n \in at : \A m \in at : n <= m
    BY <2>1, LeastOfNaturals
  <2> QED BY <2>2 DEF Min
<1>7. at # {} => find(k) \in Range(S) /\ Is(mem, find(k), k)
  <2> SUFFICES ASSUME at # {} PROVE find(k) \in Range(S) /\ Is(mem, find(k), k)
    OBVIOUS
  <2>1. Min(at) \in at /\ find(k) = chain[Min(at)]
    BY <1>5, <1>6
  <2> DEFINE j == Min(at)
  <2> HIDE DEF j
  <2>2. j \in at /\ find(k) = chain[j]
    BY <2>1 DEF j
  <2>3. j \in 1 .. Len(chain) /\ KeyReadable(chain[j]) /\ mem.key[chain[j]] = k
    BY <1>4, <2>2
  <2>4. chain[j] \in Range(S) /\ mem["index"][chain[j]] = i
    BY <1>4, <2>3
  <2> QED BY <2>2, <2>3, <2>4 DEF Is, Readable, KeyReadable, i
<1>8. at = {} => find(k) \in {0, -1} /\ \A a \in Range(S) : ~Is(mem, a, k)
  <2> SUFFICES ASSUME at = {}
               PROVE find(k) \in {0, -1} /\ \A a \in Range(S) : ~Is(mem, a, k)
    OBVIOUS
  <2>1. ASSUME NEW a \in Range(S), Is(mem, a, k) PROVE FALSE
    <3>1. a \in Range(chain)
      BY <1>4, <2>1 DEF Is, i
    <3>2. PICK j \in 1 .. Len(chain) : chain[j] = a
      BY <1>4, <3>1
    <3>3. j \in at
      BY <1>4, <2>1, <3>2 DEF Is, Readable, KeyReadable
    <3> QED BY <3>3
  <2>2. find(k) \in {0, -1}
    BY <1>5
  <2> QED BY <2>1, <2>2
<1>9. Range(S) \subseteq Addr /\ Addr \cap {0, -1} = {}
  BY HashMapAssumption, Sides DEF Lists, Spot
<1> QED BY <1>7, <1>8, <1>9

(* What findValue returns, if a block, is a record.                        *)
LEMMA FindValueFinds ==
  ASSUME NEW S, NEW G, NEW B, Lists(mem, S, G, B), NEW k \in Keys, findValue(k) \in Addr
  PROVE  findValue(k) \in Range(S)
<1> DEFINE i == Bucket[k]
           chain == Chained(i)
           at == {j \in DOMAIN chain : Data(chain[j]) # "error" /\ mem.key[chain[j]] = k}
<1>1. i \in Index
  BY HashMapAssumption DEF Index
<1>2. chain = B[i]
  BY <1>1, ListsFound
<1>3. /\ DList(B[i], mem["blockNext"], mem["blockPrev"])
      /\ Range(B[i]) = {a \in Range(S) : mem["index"][a] = i}
  BY <1>1 DEF Lists, Buckets
<1>4. /\ chain \in Seq(Addr) /\ DOMAIN chain = 1 .. Len(chain) /\ Len(chain) \in Nat
      /\ \A j \in 1 .. Len(chain) : chain[j] \in Range(S)
  BY <1>2, <1>3, Sides
<1>5. findValue(k) = IF at # {} THEN chain[Min(at)]
                     ELSE IF chain # <<>> /\ ~(Data(Last(chain)) # "error") THEN -1 ELSE 0
  BY DEF findValue, Found
<1> HIDE DEF chain, i
<1>6. at # {}
  BY <1>5, HashMapAssumption
<1>7. Min(at) \in at
  <2>1. at \in SUBSET Nat /\ at # {}
    BY <1>4, <1>6
  <2> HIDE DEF at
  <2>2. PICK n \in at : \A m \in at : n <= m
    BY <2>1, LeastOfNaturals
  <2> QED BY <2>2 DEF Min
<1> QED BY <1>4, <1>5, <1>6, <1>7

(* get keeps the map whole.                                                *)
LEMMA GetKeeps ==
  ASSUME NEW S, NEW G, NEW B, NEW P, NEW U, WholeMap(S, G, B, P, U), NEW k \in Keys, get(k)
  PROVE  WholeMapNow'
<1> DEFINE a == findValue(k)
<1>1. /\ Begin /\ a \in Addr /\ Commit(refreshGetListLog(a)) /\ UNCHANGED <<free, op, crashed>>
  BY DEF get
<1>2. Listing(S, G) /\ Lists(mem, S, G, B)
  BY ListingOf DEF WholeMap, Whole
<1>3. a \in Range(S)
  BY <1>1, <1>2, FindValueFinds
<1> HIDE DEF a
<1>4. PICK q \in 1 .. Len(G) : G[q] = a
  BY <1>2, <1>3, Position
<1>5. PICK n : GetRefreshed(n, G, q)
  BY <1>2, RefreshGetMakes DEF Listing
<1>6. Reordering(n, S, S, ToHead(G, q))
  BY <1>2, <1>5, GetRefreshedReorders
<1>7. mem' = n
  <2>1. Makes(refreshGetListLog(a), mem, n)
    BY <1>4, <1>5 DEF GetRefreshed
  <2> QED BY <1>1, <2>1, CommitMakes
<1> QED BY <1>1, <1>6, <1>7, AtOnce

(* erase keeps a dirty record.                                             *)
LEMMA KeepDirtyKeeps ==
  ASSUME NEW S, NEW G, NEW B, NEW P, NEW U, WholeMap(S, G, B, P, U), Begin, GetTail # 0,
         Commit(KeepDirtyLog(GetTail)), UNCHANGED <<free, op, crashed>>
  PROVE  WholeMapNow'
<1>1. Listing(S, G)
  BY ListingOf
<1>2. G # <<>> /\ GetTail = G[Len(G)] /\ Len(G) \in 1 .. Len(G)
  BY <1>1, PrevInList DEF Listing, GetTail
<1>3. PICK n : DirtyKept(n, G)
  BY <1>1, <1>2, KeepDirtyMakes DEF Listing
<1>4. PICK q \in 1 .. Len(G) : q = Len(G)
  BY <1>2
<1>5. Reordering(n, S, S, ToHead(G, q))
  BY <1>1, <1>3, <1>4, GetRefreshedReorders
<1>6. mem' = n
  <2>1. Makes(KeepDirtyLog(GetTail), mem, n)
    BY <1>2, <1>3 DEF DirtyKept
  <2> QED BY <2>1, CommitMakes
<1> QED BY <1>5, <1>6, AtOnce

(* The cursors and the links of the lists lead to records or nowhere.      *)
LEMMA CursorValues ==
  ASSUME NEW S, NEW G, Listing(S, G)
  PROVE  /\ DirtyTail \in Range(S) \cup {0} /\ GetTail \in Range(S) \cup {0}
         /\ SyncTail \in Range(S) \cup {0} /\ BackupTail \in Range(S) \cup {0}
         /\ \A a \in Range(S) : /\ mem["setPrev"][a] \in Range(S) \cup {0}
                                /\ mem["getPrev"][a] \in Range(S) \cup {0}
         /\ Range(S) \subseteq Addr
         /\ "dirtyTail" \in CursorFields /\ "syncTail" \in CursorFields
         /\ "backupTail" \in CursorFields
<1>1. /\ {mem["dirtyTail"][0], mem["syncTail"][0], mem["backupTail"][0]} \subseteq Range(S) \cup {0}
  BY DEF Listing, Cursors
<1>2. mem["getTail"][0] \in Range(G) \cup {0} /\ Range(G) = Range(S)
  BY PrevInList DEF Listing
<1>3. \A a \in Range(S) : mem["setPrev"][a] \in Range(S) \cup {0}
  BY PrevInList DEF Listing
<1>4. \A a \in Range(G) : mem["getPrev"][a] \in Range(G) \cup {0}
  BY PrevInList DEF Listing
<1>5. Range(S) \subseteq Addr
  BY PrevInList DEF Listing
<1> QED BY <1>1, <1>2, <1>3, <1>4, <1>5, OrderNames DEF DirtyTail, SyncTail, BackupTail, GetTail

(* sync() keeps the map whole.                                             *)
LEMMA SyncBeginKeeps ==
  ASSUME NEW S, NEW G, NEW B, NEW P, NEW U, WholeMap(S, G, B, P, U), syncBegin
  PROVE  WholeMapNow'
<1>1. Listing(S, G)
  BY ListingOf
<1>2. PICK n : Makes(Put("syncTail", 0, DirtyTail), mem, n) /\ Reordering(n, S, S, G)
  BY <1>1, CursorValues, CursorPut
<1>3. mem' = n
  BY <1>2, CommitMakes DEF syncBegin
<1> QED BY <1>2, <1>3, AtOnce DEF syncBegin

(* Every step of a backup keeps the map whole.                             *)
LEMMA BackupKeeps ==
  ASSUME NEW S, NEW G, NEW B, NEW P, NEW U, WholeMap(S, G, B, P, U),
         backup \/ \E force \in BOOLEAN : backupBegin(force)
  PROVE  WholeMapNow'
<1>1. Listing(S, G)
  BY ListingOf
<1>2. PICK v \in Range(S) \cup {0} : Commit(Put("backupTail", 0, v))
  <2>1. CASE backup
    <3>1. BackupTail \in Range(S)
      BY <1>1, <2>1, CursorValues DEF backup
    <3>2. mem.getPrev[BackupTail] \in Range(S) \cup {0}
      BY <1>1, <3>1, CursorValues
    <3> QED BY <2>1, <3>2 DEF backup
  <2>2. CASE \E force \in BOOLEAN : backupBegin(force)
    BY <1>1, <2>2, CursorValues DEF backupBegin
  <2> QED BY <2>1, <2>2
<1>3. PICK n : Makes(Put("backupTail", 0, v), mem, n) /\ Reordering(n, S, S, G)
  BY <1>1, CursorValues, CursorPut
<1>4. mem' = n
  BY <1>2, <1>3, CommitMakes
<1>5. Begin /\ UNCHANGED <<free, op, crashed>>
  BY DEF backup, backupBegin
<1> QED BY <1>3, <1>4, <1>5, AtOnce

(* The cursor of the write-back goes on and keeps the map whole.           *)
LEMMA SyncNextKeeps ==
  ASSUME NEW S, NEW G, NEW B, NEW P, NEW U, WholeMap(S, G, B, P, U), syncNext
  PROVE  WholeMapNow'
<1>1. Listing(S, G) /\ Working(op, S, P, crashed, calls)
  BY ListingOf
<1>2. /\ Begin /\ SyncTail # 0 /\ Commit(Put("syncTail", 0, mem.setPrev[SyncTail]))
      /\ op' = [Start("sync", None) EXCEPT !.pc = "sync", !.addr = SyncTail]
      /\ free' = free /\ crashed' = crashed
  BY DEF syncNext
<1>3. /\ SyncTail \in Range(S) /\ Range(S) \subseteq Addr
      /\ mem.setPrev[SyncTail] \in Range(S) \cup {0}
  BY <1>1, <1>2, CursorValues
<1>4. PICK n : Makes(Put("syncTail", 0, mem.setPrev[SyncTail]), mem, n) /\ Reordering(n, S, S, G)
  BY <1>1, <1>3, CursorValues, CursorPut
<1>5. mem' = n
  BY <1>2, <1>4, CommitMakes
<1> DEFINE o == [Start("sync", None) EXCEPT !.pc = "sync", !.addr = SyncTail]
<1>6. Calm(o, S) /\ o.pc # "count"
  <2>1. /\ DOMAIN o = DOMAIN Idle /\ o.pc = "sync" /\ o.addr = SyncTail /\ o.chunks = <<>> /\ o.n = 0
        /\ o.dirty \in BOOLEAN
    BY DEF Start, Idle
  <2>2. NBlocks \in Nat /\ EraseCount \in Nat
    BY HashMapAssumption, FS_CardinalityType DEF NBlocks
  <2> HIDE DEF o
  <2> QED BY <1>3, <2>1, <2>2 DEF Calm
<1>7. Becomes(n, free, o, crashed, calls')
  BY <1>2, <1>5 DEF Becomes
<1>8. op.pc \in {"idle", "return", "setList", "getList", "sync", "synced"} /\ calls' \in 0 .. MaxCalls
  BY <1>1, <1>2, BeginWorks DEF Begin
<1> HIDE DEF o
<1> QED BY <1>4, <1>6, <1>7, <1>8, CalmStep

(* The fields that the lists, the buckets and the cursors are made of.     *)
ListingFields == SetFields \cup GetFields \cup BucketFields \cup CursorFields
                 \cup {"index", "listCount", "elementCount"}

(* Steps that leave these fields alone leave the lists.                    *)
LEMMA ListingKept ==
  ASSUME NEW m, NEW n, Agree(m, n, ListingFields), NEW S, NEW G, NEW B, Lists(m, S, G, B),
         Cursors(m, S)
  PROVE  Lists(n, S, G, B) /\ Cursors(n, S)
<1>1. \A f \in ListingFields : n[f] = m[f]
  BY DEF Agree
<1>2. /\ n["setHead"] = m["setHead"] /\ n["setTail"] = m["setTail"]
      /\ n["setNext"] = m["setNext"] /\ n["setPrev"] = m["setPrev"]
  BY <1>1 DEF ListingFields, SetFields
<1>3. /\ n["getHead"] = m["getHead"] /\ n["getTail"] = m["getTail"]
      /\ n["getNext"] = m["getNext"] /\ n["getPrev"] = m["getPrev"]
  BY <1>1 DEF ListingFields, GetFields
<1>4. /\ n["blockNext"] = m["blockNext"] /\ n["blockPrev"] = m["blockPrev"]
      /\ n["blockAddr"] = m["blockAddr"]
  BY <1>1 DEF ListingFields, BucketFields
<1>5. /\ n["dirtyTail"] = m["dirtyTail"] /\ n["syncTail"] = m["syncTail"]
      /\ n["backupTail"] = m["backupTail"]
  BY <1>1 DEF ListingFields, CursorFields
<1>6. /\ n["index"] = m["index"] /\ n["listCount"] = m["listCount"]
      /\ n["elementCount"] = m["elementCount"]
  BY <1>1 DEF ListingFields
<1>7. /\ Spot(m, S, "setHead", "setTail", "setNext", "setPrev")
      /\ Spot(m, G, "getHead", "getTail", "getNext", "getPrev")
      /\ Range(G) = Range(S) /\ m["elementCount"][0] = Len(S) /\ Buckets(m, Range(S), B)
  BY DEF Lists
<1>8. Spot(n, S, "setHead", "setTail", "setNext", "setPrev")
  BY <1>2, <1>7, OtherSpot
<1>9. Spot(n, G, "getHead", "getTail", "getNext", "getPrev")
  BY <1>3, <1>7, OtherSpot
<1>10. Buckets(n, Range(S), B)
  BY <1>4, <1>6, <1>7 DEF Buckets
<1>11. n["elementCount"][0] = Len(S)
  BY <1>6, <1>7
<1>12. Cursors(n, S)
  BY <1>5 DEF Cursors
<1> QED BY <1>7, <1>8, <1>9, <1>10, <1>11, <1>12 DEF Lists

(* The fields of the lists, the buckets and the cursors are not those of   *)
(* the data.                                                               *)
LEMMA ListingFieldNames ==
  /\ ListingFields \subseteq Fields
  /\ \A f \in {"dirty", "onlyKey", "nextChunk", "len", "key", "val", "usedChunk", "dirtyCount",
               "onlyKeyCount"} : f \in Fields /\ f \notin ListingFields
  /\ \A f \in {"dirty", "onlyKey", "nextChunk", "len", "key", "val"} : f \in BlockFields
  /\ \A f \in {"usedChunk", "dirtyCount", "onlyKeyCount"} : f \notin BlockFields
BY FieldNames, TheLists, MoreFields
   DEF ListingFields, SetFields, GetFields, BucketFields, CursorFields, Fields, HeadFields

(* What setting one flag does to the number of those that are set.         *)
LEMMA Flagged ==
  ASSUME NEW f \in [Addr -> BOOLEAN], NEW T, IsFiniteSet(T), T \subseteq Addr, NEW a \in T,
         NEW b \in BOOLEAN
  PROVE  LET g == [f EXCEPT ![a] = b]
             F == {x \in T : f[x]}
         IN  /\ Cardinality({x \in T : g[x]}) =
                  Cardinality(F) + (IF f[a] = b THEN 0 ELSE IF b THEN 1 ELSE -1)
             /\ Cardinality(F) \in Nat
<1> DEFINE g == [f EXCEPT ![a] = b]
           F == {x \in T : f[x]}
           E == {x \in T : g[x]}
<1>1. \A x \in T : g[x] = IF x = a THEN b ELSE f[x]
  OBVIOUS
<1> HIDE DEF g
<1>2. IsFiniteSet(F) /\ Cardinality(F) \in Nat
  BY FS_Subset, FS_CardinalityType
<1>3. ASSUME f[a] = b PROVE E = F
  BY <1>1, <1>3
<1>4. ASSUME f[a] # b, b PROVE Cardinality(E) = Cardinality(F) + 1
  <2>1. E = F \cup {a} /\ a \notin F
    BY <1>1, <1>4
  <2> HIDE DEF E, F
  <2>2. Cardinality(F \cup {a}) = Cardinality(F) + 1
    BY <1>2, <2>1, FS_AddElement
  <2> QED BY <2>1, <2>2
<1>5. ASSUME f[a] # b, ~b PROVE Cardinality(E) = Cardinality(F) - 1
  <2>1. E = F \ {a} /\ a \in F
    <3>1. f[a] \in BOOLEAN
      OBVIOUS
    <3> QED BY <1>1, <1>5, <3>1
  <2> HIDE DEF E, F
  <2>2. Cardinality(F \ {a}) = Cardinality(F) - 1
    BY <1>2, <2>1, FS_RemoveElement
  <2> QED BY <2>1, <2>2
<1> HIDE DEF E, F
<1>6. /\ Cardinality(E) = Cardinality(F) + (IF f[a] = b THEN 0 ELSE IF b THEN 1 ELSE -1)
      /\ Cardinality(F) \in Nat
  <2>1. CASE f[a] = b
    BY <1>2, <1>3, <2>1
  <2>2. CASE f[a] # b /\ b
    BY <1>2, <1>4, <2>2
  <2>3. CASE f[a] # b /\ ~b
    BY <1>2, <1>5, <2>3
  <2> QED BY <2>1, <2>2, <2>3
<1> QED BY <1>6 DEF g, E, F

(* The set of a chain's blocks contains the records.                       *)
LEMMA RecordsAreUsed ==
  ASSUME NEW m, NEW S, NEW P, Chains(m, S, P)
  PROVE  /\ Range(S) \subseteq UsedIn(P)
         /\ \A a \in Range(S) : Range(P[a]) \subseteq UsedIn(P)
<1>1. ASSUME NEW a \in Range(S) PROVE a \in UsedIn(P) /\ Range(P[a]) \subseteq UsedIn(P)
  <2>1. P[a] \in Seq(Addr) /\ P[a] # <<>> /\ P[a][1] = a /\ a \in DOMAIN P
    BY DEF Chains
  <2>2. a \in Range(P[a])
    BY <2>1 DEF Range
  <2> QED BY <2>1, <2>2 DEF UsedIn
<1> QED BY <1>1

(* The dirty flag of a record and the count of them.                       *)
LEMMA DirtySetKept ==
  ASSUME NEW S, NEW G, NEW B, NEW P, NEW U, WholeMap(S, G, B, P, U), NEW a \in Range(S),
         NEW b \in BOOLEAN, NEW n, DirtySet(n, a, b), op.pc \in {"dirty", "sync"},
         NEW o, Calm(o, S), o.pc # "count", Becomes(n, free, o, crashed, calls)
  PROVE  WholeMapNow'
<1>1. /\ Shape(mem) /\ Flags(mem) /\ Lists(mem, S, G, B) /\ Cursors(mem, S) /\ Chains(mem, S, P)
      /\ Places(mem, P, U, free, op, crashed) /\ UniqueKeys(mem, S, op)
      /\ Counts(mem, S, op, crashed) /\ Working(op, S, P, crashed, calls)
  BY DEF WholeMap, Whole
<1>2. /\ Shape(n) /\ Touches(mem, n, {"dirtyCount", "dirty"}, {a})
      /\ n["dirtyCount"][0] = IF mem["dirty"][a] # b
                              THEN mem["dirtyCount"][0] + (IF b THEN 1 ELSE -1)
                              ELSE mem["dirtyCount"][0]
      /\ n["dirty"] = [mem["dirty"] EXCEPT ![a] = b]
  BY DEF DirtySet
<1>3. /\ Phase(op) = op.pc /\ ToRelease(op) = <<>> /\ Unlinked(op) = {} /\ op.chunks = <<>>
      /\ crashed \in BOOLEAN /\ calls \in 0 .. MaxCalls
  BY <1>1, AtWork
<1>4. /\ Working(o, S, P, crashed, calls) /\ Phase(o) = o.pc
      /\ o.chunks = <<>> /\ ToRelease(o) = <<>> /\ Unlinked(o) = {}
  BY <1>3, CalmWorks
<1>5. /\ Phase(op) \notin {"copy", "count"} /\ Phase(o) \notin {"copy", "count"} \cup Making
      /\ SameHands(op, o)
  <2>1. o.pc \in {"dirty", "setList", "getList", "sync", "synced", "return"}
    BY DEF Calm
  <2> HIDE DEF Phase
  <2> QED BY <1>3, <1>4, <2>1 DEF SameHands, Making
<1> HIDE DEF Phase
<1>6. /\ \A f \in Fields : f \notin {"dirtyCount", "dirty"} => n[f] = mem[f]
      /\ \A f \in BlockFields : \A c \in Addr : c \notin {a} => n[f][c] = mem[f][c]
  BY <1>2, Unaltered
<1>7. Agree(mem, n, ListingFields)
  BY <1>6, ListingFieldNames DEF Agree
<1>8. Lists(n, S, G, B) /\ Cursors(n, S)
  BY <1>1, <1>7, ListingKept
<1>9. /\ n["onlyKey"] = mem["onlyKey"] /\ n["nextChunk"] = mem["nextChunk"]
      /\ n["len"] = mem["len"] /\ n["key"] = mem["key"] /\ n["usedChunk"] = mem["usedChunk"]
      /\ n["onlyKeyCount"] = mem["onlyKeyCount"] /\ n["index"] = mem["index"]
  <2>1. "index" \in Fields /\ "index" \notin {"dirtyCount", "dirty"}
    BY OrderFieldsApart
  <2> QED BY <1>6, <2>1, ListingFieldNames
<1>10. Range(S) \subseteq Addr /\ S \in Seq(Addr) /\ IsInjective(S)
  BY <1>1, Sides DEF Lists, Spot, DList
<1>11. Flags(n)
  BY <1>1, <1>2, <1>9 DEF Flags
<1>12. Chains(n, S, P)
  BY <1>1, <1>9, ChainsKept
<1>13. Places(n, P, U, free, o, crashed)
  <2>1. a \in UsedIn(P)
    BY <1>1, RecordsAreUsed
  <2>2. \A f \in BlockFields : \A c \in Addr \ UsedIn(P) : n[f][c] = mem[f][c]
    BY <1>6, <2>1
  <2>3. n["usedChunk"][0] = mem["usedChunk"][0]
    BY <1>9
  <2> QED BY <1>1, <1>5, <2>2, <2>3, PlacesKept
<1>14. UniqueKeys(n, S, o)
  <2>1. \A c \in Range(S), k \in Keys : c \in Range(S) /\ (Is(n, c, k) => Is(mem, c, k))
    BY <1>9 DEF Is, Readable
  <2>2. Phase(o) \notin Making
    BY <1>5
  <2> QED BY <1>1, <2>1, <2>2, UniqueKeysKept
<1>15. Counts(n, S, o, crashed)
  <2>1. IsFiniteSet(Range(S))
    BY <1>10, AsLongAsMany
  <2>2. mem["dirty"] \in [Addr -> BOOLEAN]
    BY <1>1 DEF Flags
  <2> DEFINE x == Cardinality(DirtyRecords(mem, S))
             y == Cardinality(KeyRecords(mem, S))
  <2>3. /\ Cardinality(DirtyRecords(n, S)) =
             x + (IF mem["dirty"][a] = b THEN 0 ELSE IF b THEN 1 ELSE -1)
        /\ x \in Nat
    BY <1>2, <1>10, <2>1, <2>2, Flagged DEF DirtyRecords
  <2>4. KeyRecords(n, S) = KeyRecords(mem, S)
    BY <1>9 DEF KeyRecords
  <2> HIDE DEF x, y
  <2>5. PICK d, e \in {-1, 0, 1} :
          /\ ~crashed => d = 0 /\ e = 0
          /\ mem["dirtyCount"][0] = x + d /\ mem["onlyKeyCount"][0] = y + e
    BY <1>1, <1>5 DEF Counts, x, y
  <2>6. n["dirtyCount"][0] = Cardinality(DirtyRecords(n, S)) + d
    <3>1. CASE mem["dirty"][a] = b
      BY <1>2, <2>3, <2>5, <3>1
    <3>2. CASE mem["dirty"][a] # b
      BY <1>2, <2>3, <2>5, <3>2
    <3> QED BY <3>1, <3>2
  <2>7. n["onlyKeyCount"][0] = Cardinality(KeyRecords(n, S)) + e
    BY <1>9, <2>4, <2>5 DEF y
  <2>8. Phase(o) \notin {"copy", "count"}
    BY <1>5
  <2> QED BY <2>5, <2>6, <2>7, <2>8 DEF Counts
<1>16. Whole(n, free, o, crashed, calls, S, G, B, P, U)
  BY <1>2, <1>4, <1>8, <1>11, <1>12, <1>13, <1>14, <1>15 DEF Whole
<1> QED BY <1>16, NextIsWhole

(* setDirty of the record keeps the map whole.                             *)
LEMMA SetDirtyFlagKeeps ==
  ASSUME NEW S, NEW G, NEW B, NEW P, NEW U, WholeMap(S, G, B, P, U), setDirtyFlag
  PROVE  WholeMapNow'
<1>1. /\ Listing(S, G) /\ Working(op, S, P, crashed, calls) /\ Range(S) \subseteq Addr
      /\ mem["dirty"] \in [Addr -> BOOLEAN]
  BY ListingOf
<1>2. /\ op.pc = "dirty" /\ Commit(setDirtyLog(op.addr, op.dirty))
      /\ op' = [op EXCEPT !.pc = "setList"] /\ free' = free /\ crashed' = crashed /\ calls' = calls
  BY DEF setDirtyFlag, Become
<1>3. /\ DOMAIN op = DOMAIN Idle /\ op.chunks = <<>> /\ op.addr \in Range(S)
      /\ op.addr \in Addr \cup {0} /\ op.n \in 0 .. NBlocks + EraseCount /\ calls \in 0 .. MaxCalls
      /\ op.dirty \in BOOLEAN
  BY <1>1, <1>2, AtWork DEF AtRecord
<1>4. PICK n : DirtySet(n, op.addr, op.dirty)
  BY <1>1, <1>3, SetDirtyMakes DEF Listing
<1>5. mem' = n
  BY <1>2, <1>4, CommitMakes DEF DirtySet
<1> DEFINE o == [op EXCEPT !.pc = "setList"]
<1>6. Calm(o, S) /\ o.pc # "count"
  BY <1>3, OperationFields DEF Calm
<1>7. Becomes(n, free, o, crashed, calls)
  BY <1>2, <1>5 DEF Becomes
<1>8. op.pc \in {"dirty", "sync"}
  BY <1>2
<1> HIDE DEF o
<1> QED BY <1>3, <1>4, <1>6, <1>7, <1>8, DirtySetKept

(* Nothing reordered is a reordering.                                      *)
LEMMA Stays ==
  ASSUME NEW S, NEW G, Listing(S, G)
  PROVE  Reordering(mem, S, S, G)
BY TouchesNothing DEF Listing, Reordering

(* The dirty tail leaves a record.                                         *)
LEMMA TailPastMakes ==
  ASSUME NEW S, NEW G, Listing(S, G), NEW a \in Range(S)
  PROVE  \E n : Makes(TailPast(a), mem, n) /\ Reordering(n, S, S, G)
<1> DEFINE v == mem.setPrev[a]
<1>1. PICK c : c \in BOOLEAN /\ (c <=> DirtyTail = a)
  OBVIOUS
<1>2. v \in Range(S) \cup {0} /\ "dirtyTail" \in CursorFields
  BY CursorValues
<1> HIDE DEF v
<1>3. PICK n : Makes(If(c, Put("dirtyTail", 0, v)), mem, n) /\ Reordering(n, S, S, G)
  BY <1>2, CursorSet
<1>4. If(c, Put("dirtyTail", 0, v)) = If(DirtyTail = a, Put("dirtyTail", 0, v))
  BY <1>1 DEF If
<1> QED BY <1>3, <1>4 DEF TailPast, v

(* The write-back of a record keeps the map whole.                         *)
LEMMA SyncKeeps ==
  ASSUME NEW S, NEW G, NEW B, NEW P, NEW U, WholeMap(S, G, B, P, U), sync \/ synced
  PROVE  WholeMapNow'
<1>1. /\ Listing(S, G) /\ Working(op, S, P, crashed, calls) /\ Range(S) \subseteq Addr
      /\ mem["dirty"] \in [Addr -> BOOLEAN]
  BY ListingOf
<1> DEFINE a == op.addr
<1>2. /\ op.pc \in {"sync", "synced"} /\ free' = free /\ crashed' = crashed /\ calls' = calls
      /\ \/ Commit(TailPast(a)) /\ op' = Idle
         \/ op.pc = "sync" /\ Commit(setDirtyLog(a, FALSE)) /\ op' = [op EXCEPT !.pc = "synced"]
         \/ op' = Idle /\ mem' = mem
  BY DEF sync, synced, Become
<1>3. /\ DOMAIN op = DOMAIN Idle /\ op.chunks = <<>> /\ a \in Range(S)
      /\ a \in Addr \cup {0} /\ op.n \in 0 .. NBlocks + EraseCount /\ calls \in 0 .. MaxCalls
      /\ op.dirty \in BOOLEAN
  BY <1>1, <1>2, AtWork DEF AtRecord
<1>4. op.pc \in {"idle", "return", "setList", "getList", "sync", "synced"}
  BY <1>2
<1>5. CASE Commit(TailPast(a)) /\ op' = Idle
  <2>1. PICK n : Makes(TailPast(a), mem, n) /\ Reordering(n, S, S, G)
    BY <1>1, <1>3, TailPastMakes
  <2>2. mem' = n
    BY <1>5, <2>1, CommitMakes
  <2>3. Becomes(n, free, Idle, crashed, calls)
    BY <1>2, <1>5, <2>2 DEF Becomes
  <2> HIDE DEF Idle
  <2> QED BY <1>3, <1>4, <2>1, <2>3, CalmStep
<1>6. CASE op.pc = "sync" /\ Commit(setDirtyLog(a, FALSE)) /\ op' = [op EXCEPT !.pc = "synced"]
  <2>0. PICK b \in BOOLEAN : b = FALSE
    OBVIOUS
  <2>1. PICK n : DirtySet(n, a, b)
    <3> HIDE DEF a
    <3> QED BY <1>1, <1>3, SetDirtyMakes DEF Listing
  <2>2. mem' = n
    <3>1. setDirtyLog(a, FALSE) = setDirtyLog(a, b)
      BY <2>0
    <3> QED BY <1>6, <2>1, <3>1, CommitMakes DEF DirtySet
  <2> DEFINE o == [op EXCEPT !.pc = "synced"]
  <2>3. Calm(o, S) /\ o.pc # "count"
    BY <1>3, OperationFields DEF Calm
  <2>4. Becomes(n, free, o, crashed, calls)
    BY <1>2, <1>6, <2>2 DEF Becomes
  <2>5. op.pc \in {"dirty", "sync"}
    BY <1>6
  <2> HIDE DEF o, a
  <2> QED BY <1>3, <2>1, <2>3, <2>4, <2>5, DirtySetKept
<1>7. CASE op' = Idle /\ mem' = mem
  <2>1. Reordering(mem, S, S, G)
    BY <1>1, Stays
  <2>2. Becomes(mem, free, Idle, crashed, calls)
    BY <1>2, <1>7 DEF Becomes
  <2> HIDE DEF Idle
  <2> QED BY <1>3, <1>4, <2>1, <2>2, CalmStep
<1> QED BY <1>2, <1>5, <1>6, <1>7

(* The return of an operation keeps the map whole.                         *)
LEMMA DoneKeeps ==
  ASSUME NEW S, NEW G, NEW B, NEW P, NEW U, WholeMap(S, G, B, P, U), Done
  PROVE  WholeMapNow'
<1>1. Listing(S, G) /\ Working(op, S, P, crashed, calls)
  BY ListingOf
<1>2. op.pc = "return" /\ Becomes(mem, free, Idle, crashed, calls)
  BY DEF Done, Becomes
<1>3. calls \in 0 .. MaxCalls /\ Reordering(mem, S, S, G)
  BY <1>1, <1>2, AtWork, Stays
<1>4. op.pc \in {"idle", "return", "setList", "getList", "sync", "synced"}
  BY <1>2
<1> HIDE DEF Idle
<1> QED BY <1>2, <1>3, <1>4, CalmStep

(* setDirty and setClean begin and keep the map whole.                     *)
LEMMA MarkDirtyKeeps ==
  ASSUME NEW S, NEW G, NEW B, NEW P, NEW U, WholeMap(S, G, B, P, U), NEW k \in Keys,
         NEW d \in BOOLEAN, markDirty(k, d)
  PROVE  WholeMapNow'
<1>1. Listing(S, G) /\ Working(op, S, P, crashed, calls) /\ Lists(mem, S, G, B)
  BY ListingOf DEF WholeMap, Whole
<1> DEFINE a == find(k)
           o == [Start("mark", k) EXCEPT !.pc = "dirty", !.addr = a, !.dirty = d]
<1>2. Begin /\ a \in Addr /\ op' = o /\ UNCHANGED <<mem, free, crashed>>
  BY DEF markDirty
<1>3. a \in Range(S)
  <2>1. a \in Range(S) \/ a \in {0, -1}
    BY <1>1, FindFinds
  <2> QED BY <1>2, <2>1, HashMapAssumption
<1>4. op.pc \in {"idle", "return", "setList", "getList", "sync", "synced"}
      /\ calls' \in 0 .. MaxCalls
  BY <1>1, <1>2, BeginWorks DEF Begin
<1> HIDE DEF a
<1>5. Calm(o, S) /\ o.pc # "count"
  <2>1. /\ DOMAIN o = DOMAIN Idle /\ o.pc = "dirty" /\ o.addr = a /\ o.chunks = <<>> /\ o.n = 0
        /\ o.dirty = d
    BY DEF Start, Idle
  <2>2. NBlocks \in Nat /\ EraseCount \in Nat
    BY HashMapAssumption, FS_CardinalityType DEF NBlocks
  <2> HIDE DEF o
  <2> QED BY <1>2, <1>3, <2>1, <2>2 DEF Calm
<1> HIDE DEF o
<1>6. Becomes(mem, free, o, crashed, calls') /\ Reordering(mem, S, S, G)
  BY <1>1, <1>2, Stays DEF Becomes
<1> QED BY <1>4, <1>5, <1>6, CalmStep

-----------------------------------------------------------------------------
(***************************************************************************)
(* set: the block of a new record, room for its data, and the data         *)
(* themselves.                                                             *)
(***************************************************************************)

(* An operation that makes a record, before it has any chunk in hand.      *)
Starting(o, S) ==
  /\ DOMAIN o = DOMAIN Idle /\ o.pc \in {"block", "link", "room"}
  /\ o.chunks = <<>> /\ o.name = "set" /\ o.key \in Keys /\ o.val \in Values \cup {None}
  /\ o.pc = "block" => o.addr = 0
  /\ o.pc = "link" => o.addr \in Addr
  /\ o.pc = "room" => o.addr \in Range(S)
  /\ o.addr \in Addr \cup {0} /\ o.n \in 0 .. NBlocks + EraseCount /\ o.dirty \in BOOLEAN

(* An operation that looks for a block for its record is in order.         *)
LEMMA StartingWorks ==
  ASSUME NEW o, NEW S, NEW P, NEW cr, NEW cl, Starting(o, S), cr \in BOOLEAN, cl \in 0 .. MaxCalls
  PROVE  /\ Working(o, S, P, cr, cl) /\ Phase(o) = o.pc
         /\ o.chunks = <<>> /\ ToRelease(o) = <<>>
         /\ Unlinked(o) = IF o.pc = "link" THEN {o.addr} ELSE {}
<1>1. Phase(o) = o.pc /\ ToRelease(o) = <<>> /\ Unlinked(o) = IF o.pc = "link" THEN {o.addr} ELSE {}
  BY DEF Starting, Phase, ToRelease, Unlinked
<1>2. o.pc \in {"block", "link", "room"}
  BY DEF Starting
<1> HIDE DEF Phase
<1> QED BY <1>1, <1>2 DEF Starting, Working, Making, AtRecord

(* What is known of the parts of the map at work.                          *)
LEMMA PartsOf ==
  ASSUME NEW S, NEW G, NEW B, NEW P, NEW U, WholeMap(S, G, B, P, U)
  PROVE  /\ Shape(mem) /\ Flags(mem) /\ Lists(mem, S, G, B) /\ Cursors(mem, S)
         /\ Chains(mem, S, P) /\ Places(mem, P, U, free, op, crashed) /\ UniqueKeys(mem, S, op)
         /\ Counts(mem, S, op, crashed) /\ Working(op, S, P, crashed, calls)
         /\ Listing(S, G) /\ Range(S) \subseteq Addr /\ S \in Seq(Addr) /\ IsInjective(S)
         /\ IsFiniteSet(Range(S))
         /\ crashed \in BOOLEAN /\ calls \in 0 .. MaxCalls
<1>1. /\ Shape(mem) /\ Flags(mem) /\ Lists(mem, S, G, B) /\ Cursors(mem, S)
      /\ Chains(mem, S, P) /\ Places(mem, P, U, free, op, crashed) /\ UniqueKeys(mem, S, op)
      /\ Counts(mem, S, op, crashed) /\ Working(op, S, P, crashed, calls)
  BY DEF WholeMap, Whole
<1>2. S \in Seq(Addr) /\ IsInjective(S) /\ Range(S) \subseteq Addr
  BY <1>1, Sides DEF Lists, Spot, DList
<1>3. IsFiniteSet(Range(S))
  BY <1>2, AsLongAsMany
<1>4. crashed \in BOOLEAN /\ calls \in 0 .. MaxCalls
  BY <1>1 DEF Working
<1> QED BY <1>1, <1>2, <1>3, <1>4, ListingOf

(* A set begins and keeps the map whole; where it finds no record of its   *)
(* key there is none.                                                      *)
LEMMA SetKeeps ==
  ASSUME NEW S, NEW G, NEW B, NEW P, NEW U, WholeMap(S, G, B, P, U), NEW k \in Keys,
         NEW v \in Values \cup {None}, NEW d \in BOOLEAN, set(k, v, d)
  PROVE  WholeMapNow'
<1> DEFINE a == find(k)
           w == View[k]
           s == [Start("set", k) EXCEPT !.val = v, !.dirty = d, !.old = w]
           e == [s EXCEPT !.pc = "return", !.res = "error"]
           o == [s EXCEPT !.addr = a, !.fresh = a = 0, !.pc = IF a = 0 THEN "block" ELSE "room"]
<1>1. /\ Begin /\ op' = (IF a = -1 THEN e ELSE o) /\ mem' = mem /\ free' = free
      /\ crashed' = crashed
  BY DEF set
<1>2. /\ Lists(mem, S, G, B) /\ Chains(mem, S, P) /\ Places(mem, P, U, free, op, crashed)
      /\ UniqueKeys(mem, S, op) /\ Counts(mem, S, op, crashed)
      /\ Working(op, S, P, crashed, calls) /\ Listing(S, G) /\ Range(S) \subseteq Addr
  BY PartsOf
<1>3. op = Idle /\ calls' \in 0 .. MaxCalls /\ crashed \in BOOLEAN
  BY <1>1, <1>2, BeginWorks
<1>4. /\ (a \in Range(S) /\ Is(mem, a, k)) \/ a \in {0, -1}
      /\ a \in {0, -1} => \A c \in Range(S) : ~Is(mem, c, k)
  BY <1>2, FindFinds
<1>5. NBlocks \in Nat /\ EraseCount \in Nat
  BY HashMapAssumption, FS_CardinalityType DEF NBlocks
<1> HIDE DEF a, w
<1>6. CASE a = -1
  <2>1. Calm(e, S) /\ e.pc # "count"
    <3>1. /\ DOMAIN e = DOMAIN Idle /\ e.pc = "return" /\ e.chunks = <<>> /\ e.addr = 0
          /\ e.n = 0 /\ e.dirty = d
      BY DEF Start, Idle
    <3> HIDE DEF e
    <3> QED BY <1>5, <3>1 DEF Calm
  <2>2. op.pc \in {"idle", "return", "setList", "getList", "sync", "synced"}
    BY <1>1 DEF Begin
  <2> HIDE DEF e
  <2>3. Becomes(mem, free, e, crashed, calls') /\ Reordering(mem, S, S, G)
    BY <1>1, <1>2, <1>6, Stays DEF Becomes
  <2> QED BY <1>3, <2>1, <2>2, <2>3, CalmStep
<1>7. CASE a # -1
  <2>1. /\ DOMAIN o = DOMAIN Idle /\ o.pc = (IF a = 0 THEN "block" ELSE "room") /\ o.chunks = <<>>
        /\ o.addr = a /\ o.n = 0 /\ o.dirty = d /\ o.name = "set" /\ o.key = k /\ o.val = v
    BY DEF Start, Idle
  <2> HIDE DEF o
  <2>2. a \in Range(S) \cup {0} /\ a \in Addr \cup {0} /\ 0 \notin Range(S)
    BY <1>2, <1>4, <1>7, HashMapAssumption
  <2>3. Starting(o, S) /\ o.pc # "link"
    BY <1>5, <2>1, <2>2 DEF Starting
  <2>4. /\ Working(o, S, P, crashed, calls') /\ Phase(o) = o.pc
        /\ o.chunks = <<>> /\ ToRelease(o) = <<>> /\ Unlinked(o) = {}
    BY <1>3, <2>3, StartingWorks
  <2>5. SameHands(op, o)
    BY <1>3, <2>4, IdleHands DEF SameHands
  <2>6. Phase(op) \notin {"copy", "count"} /\ Phase(o) \notin {"copy", "count"}
    BY <1>3, <2>1, <2>4, IdleHands
  <2> HIDE DEF Phase
  <2>7. Places(mem, P, U, free, o, crashed)
    BY <1>2, <2>5, PlacesKept
  <2>8. Counts(mem, S, o, crashed)
    BY <1>2, <2>6, CountsKept
  <2>9. UniqueKeys(mem, S, o)
    <3>1. \A j \in Keys : \A c1, c2 \in Range(S) : Is(mem, c1, j) /\ Is(mem, c2, j) => c1 = c2
      BY <1>2 DEF UniqueKeys
    <3>2. \A c \in Range(S) : Is(mem, c, k) => c = a
      BY <1>4, <3>1
    <3>3. a # 0 => mem.key[a] = k
      BY <1>4, <1>7 DEF Is
    <3> QED BY <2>1, <2>4, <3>1, <3>2, <3>3 DEF UniqueKeys
  <2>10. Becomes(mem, free, o, crashed, calls')
    BY <1>1, <1>7 DEF Becomes
  <2> QED BY <2>4, <2>7, <2>8, <2>9, <2>10, OnlyOperation
<1> QED BY <1>6, <1>7

(* The fields of the data in the blocks, and the count of the used blocks. *)
DataFields == {"nextChunk", "len", "key", "val", "usedChunk"}

(* The fields of the data are not those of the lists.                      *)
LEMMA DataFieldNames ==
  /\ DataFields \cap ListingFields = {} /\ ListingFields \subseteq Fields
  /\ \A f \in {"dirty", "onlyKey", "dirtyCount", "onlyKeyCount", "index"} :
       f \in Fields /\ f \notin DataFields
  /\ \A f \in DataFields : f \in Fields
  /\ "usedChunk" \in HeadFields
BY ListingFieldNames, OrderFieldsApart, MoreFields DEF DataFields, HeadFields

(* A step that changes the data of blocks and the chains of the records.   *)
LEMMA DataStep ==
  ASSUME NEW S, NEW G, NEW B, NEW P, NEW U, WholeMap(S, G, B, P, U),
         NEW n, NEW R, Touches(mem, n, DataFields, R),
         NEW P2, NEW U2, NEW fr, NEW o, NEW cr, NEW cl, Becomes(n, fr, o, cr, cl),
         Chains(n, S, P2), Places(n, P2, U2, fr, o, cr), UniqueKeys(n, S, o),
         Working(o, S, P2, cr, cl), Counts(n, S, o, cr)
  PROVE  WholeMapNow'
<1>1. Flags(mem) /\ Lists(mem, S, G, B) /\ Cursors(mem, S)
  BY PartsOf
<1>2. Shape(n) /\ \A f \in Fields : f \notin DataFields => n[f] = mem[f]
  BY Unaltered
<1>3. Agree(mem, n, ListingFields)
  BY <1>2, DataFieldNames DEF Agree
<1>4. Lists(n, S, G, B) /\ Cursors(n, S)
  BY <1>1, <1>3, ListingKept
<1>5. n["dirty"] = mem["dirty"] /\ n["onlyKey"] = mem["onlyKey"]
  BY <1>2, DataFieldNames
<1>6. Flags(n)
  BY <1>1, <1>5 DEF Flags
<1>7. Whole(n, fr, o, cr, cl, S, G, B, P2, U2)
  BY <1>2, <1>4, <1>6 DEF Whole
<1> QED BY <1>7, NextIsWhole

(* The counts in such a step.                                              *)
LEMMA DataCounts ==
  ASSUME NEW n, NEW R, Touches(mem, n, DataFields, R), NEW S, Counts(mem, S, op, crashed),
         NEW o, \/ Phase(op) \notin {"copy", "count"} /\ Phase(o) \notin {"copy", "count"}
                \/ /\ Phase(op) \in {"copy", "count"} /\ Phase(o) \in {"copy", "count"}
                   /\ o.log = op.log
  PROVE  Counts(n, S, o, crashed)
<1>1. /\ n["dirty"] = mem["dirty"] /\ n["onlyKey"] = mem["onlyKey"]
      /\ n["dirtyCount"] = mem["dirtyCount"] /\ n["onlyKeyCount"] = mem["onlyKeyCount"]
  BY DataFieldNames, Unaltered
<1>2. DirtyRecords(n, S) = DirtyRecords(mem, S) /\ KeyRecords(n, S) = KeyRecords(mem, S)
  BY <1>1 DEF DirtyRecords, KeyRecords
<1> HIDE DEF Phase
<1>3. CASE Phase(op) \notin {"copy", "count"} /\ Phase(o) \notin {"copy", "count"}
  BY <1>1, <1>2, <1>3, CountsKept
<1>4. CASE Phase(op) \in {"copy", "count"} /\ Phase(o) \in {"copy", "count"} /\ o.log = op.log
  <2> DEFINE x == Cardinality(DirtyRecords(mem, S))
             y == Cardinality(KeyRecords(mem, S))
             z == Cardinality(DirtyRecords(n, S))
             w == Cardinality(KeyRecords(n, S))
  <2>1. z = x /\ w = y
    BY <1>2
  <2> HIDE DEF x, y, z, w
  <2>2. PICK d, e \in {-1, 0, 1} :
          (~crashed => d = 0 /\ e = 0) /\ ToCount(mem, op.log, x + d, y + e, crashed)
    BY <1>4 DEF Counts, x, y
  <2>3. ToCount(n, o.log, z + d, w + e, crashed)
    BY <1>1, <1>4, <2>1, <2>2 DEF ToCount, Logged
  <2> QED BY <1>4, <2>2, <2>3 DEF Counts, z, w
<1> QED BY <1>3, <1>4

(* Making room, or giving up.                                              *)
LEMMA EvictingKeeps ==
  ASSUME NEW S, NEW G, NEW B, NEW P, NEW U, WholeMap(S, G, B, P, U), op.pc \in {"block", "chunk"},
         op' = Evicting(op.pc), UNCHANGED <<mem, free, crashed, calls>>
  PROVE  WholeMapNow'
<1> DEFINE o == [op EXCEPT !.pc = "evict", !.n = EraseCount, !.back = op.pc]
<1>1. /\ Chains(mem, S, P) /\ Places(mem, P, U, free, op, crashed)
      /\ UniqueKeys(mem, S, op) /\ Counts(mem, S, op, crashed)
      /\ Working(op, S, P, crashed, calls)
  BY PartsOf
<1>2. /\ DOMAIN op = DOMAIN Idle /\ Phase(op) = op.pc /\ ToRelease(op) = <<>> /\ Unlinked(op) = {}
  BY <1>1, AtWork
<1>3. /\ DOMAIN o = DOMAIN Idle /\ o.pc = "evict" /\ o.n = EraseCount /\ o.back = op.pc
      /\ o.name = op.name /\ o.key = op.key /\ o.val = op.val /\ o.addr = op.addr
      /\ o.chunks = op.chunks /\ o.dirty = op.dirty /\ o.log = op.log
  BY <1>2, OperationFields
<1>4. Becomes(mem, free, o, crashed, calls)
  BY DEF Becomes, Evicting
<1> HIDE DEF o
<1>5. Phase(o) = op.pc /\ ToRelease(o) = <<>> /\ Unlinked(o) = {}
  BY <1>3 DEF Phase, ToRelease, Unlinked
<1> HIDE DEF Phase
<1>6. SameHands(op, o)
  BY <1>2, <1>3, <1>5 DEF SameHands
<1>7. Places(mem, P, U, free, o, crashed)
  BY <1>1, <1>6, PlacesKept
<1>8. Counts(mem, S, o, crashed)
  BY <1>1, <1>2, <1>5, CountsKept
<1>9. UniqueKeys(mem, S, o)
  BY <1>1, <1>2, <1>3, <1>5 DEF UniqueKeys
<1>10. Working(o, S, P, crashed, calls)
  <2>1. EraseCount \in Nat /\ NBlocks \in Nat
    BY HashMapAssumption, FS_CardinalityType DEF NBlocks
  <2>2. EraseCount \in 0 .. EraseCount /\ EraseCount \in 0 .. NBlocks + EraseCount
    BY <2>1
  <2>3. Needs(o) = Needs(op)
    BY <1>3 DEF Needs
  <2> QED BY <1>1, <1>2, <1>3, <1>5, <2>2, <2>3 DEF Working
<1> QED BY <1>4, <1>7, <1>8, <1>9, <1>10, OnlyOperation

(* The block for a new record is taken, or eviction begins; the map stays  *)
(* whole.                                                                  *)
LEMMA AllocateMemBlockKeeps ==
  ASSUME NEW S, NEW G, NEW B, NEW P, NEW U, WholeMap(S, G, B, P, U), allocateMemBlock
  PROVE  WholeMapNow'
<1>1. op.pc = "block" /\ UNCHANGED <<mem, crashed, calls>>
  BY DEF allocateMemBlock
<1>2. CASE op' = Evicting("block") /\ UNCHANGED free
  BY <1>1, <1>2, EvictingKeeps
<1>3. ASSUME NEW a \in free, op' = [op EXCEPT !.pc = "link", !.addr = a], free' = free \ {a}
      PROVE  WholeMapNow'
  <2> DEFINE o == [op EXCEPT !.pc = "link", !.addr = a]
             fr == free \ {a}
             U2 == U \cup {a}
  <2>1. /\ Chains(mem, S, P) /\ Places(mem, P, U, free, op, crashed)
        /\ UniqueKeys(mem, S, op) /\ Counts(mem, S, op, crashed)
        /\ Working(op, S, P, crashed, calls) /\ Range(S) \subseteq Addr
        /\ crashed \in BOOLEAN /\ calls \in 0 .. MaxCalls
    BY PartsOf
  <2>2. /\ DOMAIN op = DOMAIN Idle /\ Phase(op) = "block" /\ ToRelease(op) = <<>>
        /\ Unlinked(op) = {} /\ op.chunks = <<>>
    BY <1>1, <2>1, AtWork
  <2>3. /\ op.name = "set" /\ op.key \in Keys /\ op.val \in Values \cup {None} /\ op.addr = 0
        /\ op.n \in 0 .. NBlocks + EraseCount /\ op.dirty \in BOOLEAN
    <3> HIDE DEF Phase
    <3>1. Phase(op) \in Making /\ Phase(op) = "block"
      BY <2>2 DEF Making
    <3> QED BY <2>1, <3>1 DEF Working
  <2>4. /\ DOMAIN o = DOMAIN Idle /\ o.pc = "link" /\ o.addr = a /\ o.chunks = op.chunks
        /\ o.name = "set" /\ o.key = op.key /\ o.val = op.val /\ o.n = op.n /\ o.dirty = op.dirty
    BY <2>2, <2>3, OperationFields
  <2> HIDE DEF o
  <2>5. free \subseteq Addr /\ a \in Addr
    BY <2>1 DEF Places
  <2>6. Starting(o, S)
    BY <2>2, <2>3, <2>4, <2>5 DEF Starting
  <2>7. /\ Working(o, S, P, crashed, calls) /\ Phase(o) = "link"
        /\ o.chunks = <<>> /\ ToRelease(o) = <<>> /\ Unlinked(o) = {a}
    BY <2>1, <2>4, <2>6, StartingWorks
  <2> HIDE DEF Phase
  <2>8. Counts(mem, S, o, crashed)
    BY <2>1, <2>2, <2>7, CountsKept
  <2>9. UniqueKeys(mem, S, o)
    <3>1. \A c \in Range(S) : ~Is(mem, c, op.key)
      <4>1. \A c \in Range(S) : Is(mem, c, op.key) => c = 0
        BY <2>1, <2>2, <2>3 DEF UniqueKeys, Making
      <4> QED BY <2>1, <4>1, HashMapAssumption
    <3> QED BY <2>1, <2>4, <2>7, <3>1 DEF UniqueKeys
  <2>10. Places(mem, P, U2, fr, o, crashed)
    <3>1. /\ U \subseteq Addr /\ U \cap (free \cup UsedIn(P)) = {} /\ free \cap UsedIn(P) = {}
          /\ \A c \in free : Blank(mem, c)
          /\ mem["usedChunk"][0] = Cardinality(Addr \ (free \cup U))
          /\ ~crashed => U = {} /\ Addr = free \cup U \cup UsedIn(P)
      BY <2>1, <2>2, EmptyQueue DEF Places
    <3>2. Range(o.chunks) = {} /\ o.chunks \in Seq(Addr) /\ IsInjective(o.chunks)
          /\ Range(ToRelease(o)) = {} /\ ToRelease(o) \in Seq(Addr) /\ IsInjective(ToRelease(o))
      BY <2>7, EmptyQueue
    <3>3. fr \cup U2 = free \cup U
      OBVIOUS
    <3>4. /\ fr \subseteq Addr /\ U2 \subseteq Addr /\ fr \cap UsedIn(P) = {} /\ {a} \cap UsedIn(P) = {}
          /\ {a} \cap fr = {} /\ U2 \cap (fr \cup UsedIn(P)) = {} /\ {a} \subseteq U2
          /\ \A c \in fr \cup {a} : Blank(mem, c)
      BY <2>5, <3>1
    <3>5. ~crashed => U2 = {a} /\ Addr = fr \cup U2 \cup UsedIn(P)
      BY <3>1
    <3> HIDE DEF fr, U2
    <3> QED BY <2>7, <3>1, <3>2, <3>3, <3>4, <3>5, <2>5 DEF Places
  <2>11. Becomes(mem, fr, o, crashed, calls)
    BY <1>1, <1>3 DEF Becomes, o
  <2> QED BY <2>7, <2>8, <2>9, <2>10, <2>11, OnlyOperation
<1> QED BY <1>2, <1>3 DEF allocateMemBlock

(* The chunks in hand are to be released.                                  *)
HandsDown(o, o2) ==
  o2.chunks = <<>> /\ ToRelease(o2) = o.chunks /\ ToRelease(o) = <<>> /\ Unlinked(o) = {}
  /\ Unlinked(o2) = {}

(* The chunks that an operation gives up are those that it gives back.     *)
LEMMA HandsDownPlaces ==
  ASSUME NEW m, NEW P, NEW U, NEW fr, NEW o, NEW o2, NEW cr, Places(m, P, U, fr, o, cr),
         HandsDown(o, o2)
  PROVE  Places(m, P, U, fr, o2, cr)
<1>1. /\ o2.chunks = <<>> /\ ToRelease(o2) = o.chunks /\ ToRelease(o) = <<>>
      /\ Unlinked(o) = {} /\ Unlinked(o2) = {}
  BY DEF HandsDown
<1> HIDE DEF ToRelease, Unlinked
<1>2. /\ fr \subseteq Addr /\ o.chunks \in Seq(Addr) /\ IsInjective(o.chunks)
      /\ Range(o.chunks) \cap (fr \cup UsedIn(P)) = {} /\ fr \cap UsedIn(P) = {}
      /\ \A a \in fr : Blank(m, a)
      /\ U \subseteq Addr /\ U \cap (fr \cup Range(o.chunks) \cup UsedIn(P)) = {}
      /\ m["usedChunk"][0] = Cardinality(Addr \ (fr \cup U))
      /\ ~cr => U = {} /\ Addr = fr \cup U \cup Range(o.chunks) \cup UsedIn(P)
  BY <1>1, EmptyQueue DEF Places
<1> QED BY <1>1, <1>2, EmptyQueue DEF Places

(* The end of eviction: the operation goes on, or gives up.                *)
LEMMA GoesOnKeeps ==
  ASSUME NEW S, NEW G, NEW B, NEW P, NEW U, WholeMap(S, G, B, P, U), op.pc = "evict",
         op' = [op EXCEPT !.pc = op.back], UNCHANGED <<mem, free, crashed, calls>>
  PROVE  WholeMapNow'
<1> DEFINE o == [op EXCEPT !.pc = op.back]
<1>1. /\ Chains(mem, S, P) /\ Places(mem, P, U, free, op, crashed)
      /\ UniqueKeys(mem, S, op) /\ Counts(mem, S, op, crashed)
      /\ Working(op, S, P, crashed, calls)
  BY PartsOf
<1>2. /\ DOMAIN op = DOMAIN Idle /\ op.back \in {"block", "chunk"}
  BY <1>1 DEF Working
<1>3. /\ DOMAIN o = DOMAIN Idle /\ o.pc = op.back /\ o.n = op.n
      /\ o.name = op.name /\ o.key = op.key /\ o.val = op.val /\ o.addr = op.addr
      /\ o.chunks = op.chunks /\ o.dirty = op.dirty /\ o.log = op.log
  BY <1>2, OperationFields
<1>4. Becomes(mem, free, o, crashed, calls)
  BY DEF Becomes
<1> HIDE DEF o
<1>5. /\ Phase(o) = op.back /\ ToRelease(o) = <<>> /\ Unlinked(o) = {}
      /\ Phase(op) = op.back /\ ToRelease(op) = <<>> /\ Unlinked(op) = {}
  BY <1>2, <1>3 DEF Phase, ToRelease, Unlinked
<1> HIDE DEF Phase
<1>6. SameHands(op, o)
  BY <1>3, <1>5 DEF SameHands
<1>7. Places(mem, P, U, free, o, crashed)
  BY <1>1, <1>6, PlacesKept
<1>8. Counts(mem, S, o, crashed)
  BY <1>1, <1>2, <1>5, CountsKept
<1>9. UniqueKeys(mem, S, o)
  BY <1>1, <1>2, <1>3, <1>5 DEF UniqueKeys
<1>10. Working(o, S, P, crashed, calls)
  <2>1. Needs(o) = Needs(op)
    BY <1>3 DEF Needs
  <2>2. o.pc \in Making /\ o.pc \notin {"release", "evict", "idle"}
    BY <1>2, <1>3 DEF Making
  <2> QED BY <1>1, <1>2, <1>3, <1>5, <2>1, <2>2 DEF Working
<1> QED BY <1>4, <1>7, <1>8, <1>9, <1>10, OnlyOperation

(* An operation that finds no room gives back its chunks and keeps the map *)
(* whole.                                                                  *)
LEMMA GivesUpKeeps ==
  ASSUME NEW S, NEW G, NEW B, NEW P, NEW U, WholeMap(S, G, B, P, U), op.pc = "evict",
         op' = Releasing([op EXCEPT !.chunks = <<>>, !.res = "noMemory"], op.chunks,
                         IF op.fresh /\ op.back = "chunk" THEN "undo" ELSE "return"),
         UNCHANGED <<mem, free, crashed, calls>>
  PROVE  WholeMapNow'
<1> DEFINE ret == IF op.fresh /\ op.back = "chunk" THEN "undo" ELSE "return"
           s == [op EXCEPT !.chunks = <<>>, !.res = "noMemory"]
           o == Releasing(s, op.chunks, ret)
<1>1. /\ Chains(mem, S, P) /\ Places(mem, P, U, free, op, crashed)
      /\ UniqueKeys(mem, S, op) /\ Counts(mem, S, op, crashed)
      /\ Working(op, S, P, crashed, calls)
  BY PartsOf
<1>2. /\ DOMAIN op = DOMAIN Idle /\ op.back \in {"block", "chunk"}
      /\ op.addr \in Addr \cup {0} /\ op.n \in 0 .. NBlocks + EraseCount /\ op.dirty \in BOOLEAN
      /\ crashed \in BOOLEAN /\ calls \in 0 .. MaxCalls
  BY <1>1 DEF Working
<1>3. /\ DOMAIN s = DOMAIN Idle /\ s.n = op.n
      /\ s.name = op.name /\ s.key = op.key /\ s.val = op.val /\ s.addr = op.addr
      /\ s.chunks = <<>> /\ s.dirty = op.dirty
  BY <1>2, OperationFields
<1>4. /\ Phase(op) = op.back /\ ToRelease(op) = <<>> /\ Unlinked(op) = {}
  BY <1>2 DEF Phase, ToRelease, Unlinked
<1>5. ret \in {"undo", "return"} /\ (ret = "undo" => op.back = "chunk")
  OBVIOUS
<1>6. Becomes(mem, free, o, crashed, calls)
  BY DEF Becomes
<1> HIDE DEF s, ret
<1>7. /\ DOMAIN o = DOMAIN Idle /\ o.n = op.n
      /\ o.name = op.name /\ o.key = op.key /\ o.val = op.val /\ o.addr = op.addr
      /\ o.chunks = <<>> /\ o.dirty = op.dirty
      /\ IF op.chunks = <<>> THEN o.pc = ret
         ELSE o.pc = "release" /\ o.todo = op.chunks /\ o.ret = ret
  BY <1>3, OperationFields DEF Releasing
<1> HIDE DEF o
<1>8. Phase(o) = ret /\ ToRelease(o) = op.chunks /\ Unlinked(o) = {}
  BY <1>5, <1>7 DEF Phase, ToRelease, Unlinked
<1> HIDE DEF Phase
<1>9. Places(mem, P, U, free, o, crashed)
  <2>1. HandsDown(op, o)
    BY <1>4, <1>7, <1>8 DEF HandsDown
  <2> QED BY <1>1, <2>1, HandsDownPlaces
<1>10. Counts(mem, S, o, crashed)
  BY <1>1, <1>2, <1>4, <1>5, <1>8, CountsKept
<1>11. ret = "undo" => Phase(op) = "chunk" /\ Phase(op) \in Making /\ Phase(op) \in AtRecord
  BY <1>4, <1>5 DEF Making, AtRecord
<1>12. UniqueKeys(mem, S, o)
  BY <1>1, <1>5, <1>7, <1>8, <1>11 DEF UniqueKeys, Making
<1>13. Working(o, S, P, crashed, calls)
  <2>1. ret = "undo" => /\ op.name = "set" /\ op.key \in Keys /\ op.val \in Values \cup {None}
                        /\ op.addr \in Range(S)
    BY <1>1, <1>11 DEF Working
  <2>2. ret = "undo" => ret \in Making /\ ret \in AtRecord
    BY DEF Making, AtRecord
  <2>3. "return" \notin Making /\ "return" \notin AtRecord /\ "release" \notin Making
    BY DEF Making, AtRecord
  <2>4. o.pc \in {"undo", "return", "release"}
    BY <1>5, <1>7
  <2>5. o.pc = "release" => o.todo # <<>> /\ o.ret \in {"undo", "return"}
    BY <1>5, <1>7
  <2>6. o.pc \in Making \cup AtRecord \cup {"idle", "return", "evict", "release"}
    BY <2>4 DEF Making
  <2> HIDE DEF ToRelease
  <2> QED BY <1>2, <1>5, <1>7, <1>8, <2>1, <2>2, <2>3, <2>4, <2>5, <2>6 DEF Working
<1> QED BY <1>6, <1>9, <1>10, <1>12, <1>13, OnlyOperation

(* The number of chunks that a value needs.                                *)
LEMMA NeedIs ==
  ASSUME NEW o, o.val \in Values \cup {None}
  PROVE  Needs(o) \in Nat
BY HashMapAssumption DEF Needs

(* The record has as many chunks as it needs, or needs more.               *)
LEMMA NoRestKeeps ==
  ASSUME NEW S, NEW G, NEW B, NEW P, NEW U, WholeMap(S, G, B, P, U), op.pc = "room",
         ~(Len(Chain(op.addr)) > Need),
         op' = [op EXCEPT !.pc = IF Len(Chain(op.addr)) = Need THEN "flags" ELSE "chunk"],
         UNCHANGED <<mem, free, crashed, calls>>
  PROVE  WholeMapNow'
<1> DEFINE to == IF Len(Chain(op.addr)) = Need THEN "flags" ELSE "chunk"
           o == [op EXCEPT !.pc = to]
<1>1. /\ Chains(mem, S, P) /\ Places(mem, P, U, free, op, crashed)
      /\ UniqueKeys(mem, S, op) /\ Counts(mem, S, op, crashed)
      /\ Working(op, S, P, crashed, calls)
  BY PartsOf
<1>2. /\ DOMAIN op = DOMAIN Idle /\ Phase(op) = "room" /\ ToRelease(op) = <<>> /\ Unlinked(op) = {}
      /\ op.chunks = <<>> /\ op.addr \in Range(S) /\ op.addr \in Addr \cup {0}
      /\ op.n \in 0 .. NBlocks + EraseCount /\ op.dirty \in BOOLEAN
      /\ crashed \in BOOLEAN /\ calls \in 0 .. MaxCalls
  BY <1>1, AtWork DEF AtRecord
<1> HIDE DEF Phase
<1>3. op.name = "set" /\ op.key \in Keys /\ op.val \in Values \cup {None}
  <2>1. Phase(op) \in Making
    BY <1>2 DEF Making
  <2> QED BY <1>1, <2>1 DEF Working
<1>4. /\ Len(P[op.addr]) - 1 = Len(Chain(op.addr)) /\ Len(P[op.addr]) \in Nat
      /\ Len(P[op.addr]) >= 1
  <2>1. PartsAre(op.addr, P[op.addr])
    BY <1>1, <1>2, ChainFound
  <2> QED BY <2>1 DEF PartsAre
<1>5. Need = Needs(op) /\ Needs(op) \in Nat
  BY <1>3, NeedIs DEF Need, Needs
<1>6. Becomes(mem, free, o, crashed, calls)
  BY DEF Becomes
<1>7. /\ to \in {"flags", "chunk"}
      /\ to = "flags" => Len(P[op.addr]) = Needs(op) + 1
      /\ to = "chunk" => Len(P[op.addr]) < Needs(op) + 1
  BY <1>4, <1>5
<1> HIDE DEF to
<1>8. /\ DOMAIN o = DOMAIN Idle /\ o.pc = to /\ o.n = op.n
      /\ o.name = op.name /\ o.key = op.key /\ o.val = op.val /\ o.addr = op.addr
      /\ o.chunks = <<>> /\ o.dirty = op.dirty
  BY <1>2, OperationFields
<1> HIDE DEF o
<1>9. /\ Phase(o) = to /\ ToRelease(o) = <<>> /\ Unlinked(o) = {}
  BY <1>7, <1>8 DEF Phase, ToRelease, Unlinked
<1>10. SameHands(op, o)
  BY <1>2, <1>8, <1>9 DEF SameHands
<1>11. Places(mem, P, U, free, o, crashed)
  BY <1>1, <1>10, PlacesKept
<1>12. Counts(mem, S, o, crashed)
  BY <1>1, <1>2, <1>7, <1>9, CountsKept
<1>13. UniqueKeys(mem, S, o)
  BY <1>1, <1>2, <1>7, <1>8, <1>9 DEF UniqueKeys, Making
<1>14. Working(o, S, P, crashed, calls)
  <2>1. Needs(o) = Needs(op)
    BY <1>8 DEF Needs
  <2>2. Len(o.chunks) = 0
    BY <1>8
  <2> QED BY <1>2, <1>3, <1>4, <1>5, <1>7, <1>8, <1>9, <2>1, <2>2 DEF Working, Making, AtRecord
<1> QED BY <1>6, <1>11, <1>12, <1>13, <1>14, OnlyOperation

(* The two pieces of a chain.                                              *)
LEMMA CutInTwo ==
  ASSUME NEW s \in Seq(Addr), IsInjective(s), NEW k \in Nat, k <= Len(s),
         NEW t \in Seq(Addr), Len(t) = k, \A i \in 1 .. k : t[i] = s[i],
         NEW r \in Seq(Addr), Len(r) = Len(s) - k, \A i \in 1 .. Len(s) - k : r[i] = s[k + i]
  PROVE  /\ IsInjective(t) /\ IsInjective(r) /\ Range(t) \cap Range(r) = {}
         /\ Range(t) \cup Range(r) = Range(s)
<1>1. /\ Len(s) \in Nat /\ DOMAIN s = 1 .. Len(s) /\ DOMAIN t = 1 .. k
      /\ DOMAIN r = 1 .. Len(s) - k
  OBVIOUS
<1>2. \A i, j \in 1 .. Len(s) : s[i] = s[j] => i = j
  BY <1>1 DEF IsInjective
<1>3. IsInjective(t)
  BY <1>1, <1>2 DEF IsInjective
<1>4. IsInjective(r)
  <2> SUFFICES ASSUME NEW i \in 1 .. Len(s) - k, NEW j \in 1 .. Len(s) - k, r[i] = r[j]
               PROVE  i = j
    BY <1>1 DEF IsInjective
  <2>1. k + i \in 1 .. Len(s) /\ k + j \in 1 .. Len(s) /\ s[k + i] = s[k + j]
    BY <1>1
  <2>2. k + i = k + j
    BY <1>2, <2>1
  <2> QED BY <2>2
<1>5. Range(t) \cap Range(r) = {}
  <2> SUFFICES ASSUME NEW i \in 1 .. k, NEW j \in 1 .. Len(s) - k, t[i] = r[j] PROVE FALSE
    BY <1>1 DEF Range
  <2>1. i \in 1 .. Len(s) /\ k + j \in 1 .. Len(s) /\ s[i] = s[k + j]
    BY <1>1
  <2>2. i = k + j
    BY <1>2, <2>1
  <2> QED BY <2>2
<1>6. Range(t) \cup Range(r) \subseteq Range(s)
  <2>1. ASSUME NEW i \in 1 .. k PROVE t[i] \in Range(s)
    <3>1. i \in 1 .. Len(s) /\ t[i] = s[i]
      BY <1>1
    <3> QED BY ONLY <1>1, <3>1 DEF Range
  <2>2. ASSUME NEW i \in 1 .. Len(s) - k PROVE r[i] \in Range(s)
    <3>1. k + i \in 1 .. Len(s)
      BY <1>1
    <3> QED BY <1>1, <3>1 DEF Range
  <2> QED BY <1>1, <2>1, <2>2, ZenonT(40) DEF Range
<1>7. Range(s) \subseteq Range(t) \cup Range(r)
  <2> SUFFICES ASSUME NEW i \in 1 .. Len(s) PROVE s[i] \in Range(t) \cup Range(r)
    BY <1>1 DEF Range
  <2>1. CASE i <= k
    <3>1. i \in 1 .. k /\ t[i] = s[i]
      BY <2>1
    <3> QED BY <1>1, <3>1 DEF Range
  <2>2. CASE i > k
    <3>1. i - k \in 1 .. Len(s) - k
      BY <1>1, <2>2
    <3>2. r[i - k] = s[k + (i - k)] /\ k + (i - k) = i
      BY <1>1, <3>1
    <3> QED BY <1>1, <3>1, <3>2 DEF Range
  <2> QED BY <2>1, <2>2
<1> QED BY <1>3, <1>4, <1>5, <1>6, <1>7

(* One chain becomes another, of blocks that no other chain has.           *)
ChainChanges(m, n, S, P, a, t) ==
  /\ Chains(m, S, P) /\ a \in Range(S)
  /\ t \in Seq(Addr) /\ t # <<>> /\ t[1] = a /\ IsInjective(t) /\ Strung(t, n["nextChunk"])
  /\ Range(t) \cap (UsedIn(P) \ Range(P[a])) = {}
  /\ \A b \in UsedIn(P) \ Range(P[a]) : n["nextChunk"][b] = m["nextChunk"][b]

ChainChanged(n, S, P, a, t) ==
  /\ Chains(n, S, [P EXCEPT ![a] = t])
  /\ UsedIn([P EXCEPT ![a] = t]) = (UsedIn(P) \ Range(P[a])) \cup Range(t)

(* A record whose parts change, and no other record's, leaves the chains   *)
(* apart.                                                                  *)
LEMMA ChainBecomes ==
  ASSUME NEW m, NEW n, NEW S, NEW P, NEW a, NEW t, ChainChanges(m, n, S, P, a, t)
  PROVE  ChainChanged(n, S, P, a, t)
<1> DEFINE Q == [P EXCEPT ![a] = t]
<1>1. /\ DOMAIN P = Range(S)
      /\ \A b \in Range(S) : /\ P[b] \in Seq(Addr) /\ P[b] # <<>> /\ P[b][1] = b
                             /\ IsInjective(P[b]) /\ Strung(P[b], m["nextChunk"])
      /\ \A b, c \in Range(S) : b # c => Range(P[b]) \cap Range(P[c]) = {}
  BY DEF ChainChanges, Chains
<1>2. /\ a \in Range(S)
      /\ t \in Seq(Addr) /\ t # <<>> /\ t[1] = a /\ IsInjective(t) /\ Strung(t, n["nextChunk"])
      /\ Range(t) \cap (UsedIn(P) \ Range(P[a])) = {}
      /\ \A b \in UsedIn(P) \ Range(P[a]) : n["nextChunk"][b] = m["nextChunk"][b]
  BY DEF ChainChanges
<1>3. DOMAIN Q = Range(S) /\ Q[a] = t /\ \A b \in Range(S) : b # a => Q[b] = P[b]
  BY <1>1, <1>2
<1> HIDE DEF Q
<1>4. ASSUME NEW b \in Range(S), b # a
      PROVE  Range(P[b]) \subseteq UsedIn(P) \ Range(P[a])
  <2>1. Range(P[b]) \subseteq UsedIn(P)
    BY <1>1 DEF UsedIn
  <2>2. Range(P[b]) \cap Range(P[a]) = {}
    BY <1>1, <1>2, <1>4
  <2> QED BY <2>1, <2>2
<1>5. ASSUME NEW b \in Range(S), b # a PROVE Strung(P[b], n["nextChunk"])
  <2>1. ASSUME NEW i \in 1 .. Len(P[b]) PROVE n["nextChunk"][P[b][i]] = m["nextChunk"][P[b][i]]
    <3>1. P[b][i] \in Range(P[b])
      BY <1>1 DEF Range
    <3> QED BY <1>2, <1>4, <1>5, <3>1
  <2> QED BY <1>1, <2>1 DEF Strung
<1>6. UsedIn(Q) = (UsedIn(P) \ Range(P[a])) \cup Range(t)
  <2>1. UsedIn(Q) \subseteq (UsedIn(P) \ Range(P[a])) \cup Range(t)
    <3> SUFFICES ASSUME NEW b \in Range(S)
                 PROVE  Range(Q[b]) \subseteq (UsedIn(P) \ Range(P[a])) \cup Range(t)
      BY <1>3 DEF UsedIn
    <3> QED BY <1>3, <1>4
  <2>2. Range(t) \subseteq UsedIn(Q)
    BY <1>2, <1>3 DEF UsedIn
  <2>3. UsedIn(P) \ Range(P[a]) \subseteq UsedIn(Q)
    <3> SUFFICES ASSUME NEW b \in Range(S), b # a PROVE Range(P[b]) \subseteq UsedIn(Q)
      BY <1>1 DEF UsedIn
    <3> QED BY <1>3 DEF UsedIn
  <2> QED BY <2>1, <2>2, <2>3
<1>7. \A b, c \in Range(S) : b # c => Range(Q[b]) \cap Range(Q[c]) = {}
  <2> SUFFICES ASSUME NEW b \in Range(S), NEW c \in Range(S), b # c
               PROVE  Range(Q[b]) \cap Range(Q[c]) = {}
    OBVIOUS
  <2>1. CASE b # a /\ c # a
    BY <1>1, <1>3, <2>1
  <2>2. CASE b = a
    BY <1>2, <1>3, <1>4, <2>2
  <2>3. CASE c = a
    BY <1>2, <1>3, <1>4, <2>3
  <2> QED BY <2>1, <2>2, <2>3
<1>8. ASSUME NEW b \in Range(S)
      PROVE  /\ Q[b] \in Seq(Addr) /\ Q[b] # <<>> /\ Q[b][1] = b
             /\ IsInjective(Q[b]) /\ Strung(Q[b], n["nextChunk"])
  <2>1. CASE b = a
    BY <1>2, <1>3, <2>1
  <2>2. CASE b # a
    BY <1>1, <1>3, <1>5, <2>2
  <2> QED BY <2>1, <2>2
<1>9. Chains(n, S, Q)
  BY <1>3, <1>7, <1>8 DEF Chains
<1> QED BY <1>6, <1>9 DEF ChainChanged, Q

(* The store that cuts a chain.                                            *)
CutMade(n, a, c) ==
  /\ Makes(Put("nextChunk", a, 0) \o If(c, Put("len", a, "none")), mem, n)
  /\ Shape(n) /\ Touches(mem, n, DataFields, {a})
  /\ n["nextChunk"] = [mem["nextChunk"] EXCEPT ![a] = 0]
  /\ n["len"] = IF c THEN [mem["len"] EXCEPT ![a] = "none"] ELSE mem["len"]
  /\ n["key"] = mem["key"] /\ n["index"] = mem["index"] /\ n["usedChunk"] = mem["usedChunk"]
  /\ n["val"] = mem["val"]

(* A chain is cut behind one of its parts.                                 *)
LEMMA CutMakes ==
  ASSUME Shape(mem), NEW a \in Addr, NEW c
  PROVE  \E n : CutMade(n, a, c)
<1>0. /\ "nextChunk" \in Fields /\ "len" \in Fields /\ "nextChunk" \in DataFields
      /\ "len" \in DataFields /\ "nextChunk" \in BlockFields /\ "len" \in BlockFields
      /\ "key" \in Fields /\ "index" \in Fields /\ "usedChunk" \in Fields /\ "val" \in Fields
  BY DataFieldNames, ListingFieldNames DEF DataFields
<1>1. PICK w : w = TRUE
  OBVIOUS
<1>2. FirstReady(mem, w, "nextChunk", a, 0, DataFields, {a})
  BY <1>0, ShapeOf DEF FirstReady
<1>3. PICK x : FirstMade(x, mem, w, "nextChunk", a, 0, DataFields, {a})
  BY <1>2, FirstIf
<1>4. IfReady(If(w, Put("nextChunk", a, 0)), mem, mem, x, c, "len", a, "none", DataFields, {a})
  BY <1>0, <1>3, ShapeOf DEF IfReady, FirstMade
<1>5. PICK n : IfMade(n, If(w, Put("nextChunk", a, 0)), mem, mem, x, c, "len", a, "none",
                      DataFields, {a})
  BY <1>4, AnyIf
<1>6. If(w, Put("nextChunk", a, 0)) = Put("nextChunk", a, 0)
  BY <1>1 DEF If
<1>7. /\ Makes(Put("nextChunk", a, 0) \o If(c, Put("len", a, "none")), mem, n)
      /\ Shape(n) /\ Touches(mem, n, DataFields, {a})
      /\ \A g \in Fields : g # "len" => n[g] = x[g]
      /\ n["len"] = IF c THEN [x["len"] EXCEPT ![a] = "none"] ELSE x["len"]
  BY <1>5, <1>6 DEF IfMade
<1>8. /\ \A g \in Fields : g # "nextChunk" => x[g] = mem[g]
      /\ x["nextChunk"] = [mem["nextChunk"] EXCEPT ![a] = 0]
  BY <1>1, <1>3 DEF FirstMade
<1> QED BY <1>0, <1>7, <1>8 DEF CutMade

(* Blocks leave a chain for the list of those that are to be released.     *)
LEMMA PlacesCut ==
  ASSUME NEW m, NEW n, NEW P, NEW P2, NEW U, NEW fr, NEW o, NEW o2, NEW cr,
         Places(m, P, U, fr, o, cr), ToRelease(o) = <<>>, Unlinked(o) = {}, Unlinked(o2) = {},
         o2.chunks = o.chunks,
         NEW r, ToRelease(o2) = r, r \in Seq(Addr), IsInjective(r), Range(r) \cap UsedIn(P2) = {},
         Range(r) \cup UsedIn(P2) = UsedIn(P), n["usedChunk"][0] = m["usedChunk"][0],
         \A f \in BlockFields : \A b \in Addr \ UsedIn(P) : n[f][b] = m[f][b]
  PROVE  Places(n, P2, U, fr, o2, cr)
<1> HIDE DEF ToRelease, Unlinked
<1>1. /\ fr \subseteq Addr /\ o.chunks \in Seq(Addr) /\ IsInjective(o.chunks)
      /\ Range(o.chunks) \cap (fr \cup UsedIn(P)) = {} /\ fr \cap UsedIn(P) = {}
      /\ \A a \in fr \cup Range(o.chunks) : Blank(m, a)
      /\ U \subseteq Addr /\ U \cap (fr \cup Range(o.chunks) \cup UsedIn(P)) = {}
      /\ m["usedChunk"][0] = Cardinality(Addr \ (fr \cup U))
      /\ ~cr => U = {} /\ Addr = fr \cup U \cup Range(o.chunks) \cup UsedIn(P)
  BY EmptyQueue DEF Places
<1>2. Range(o.chunks) \subseteq Addr
  BY <1>1, QueuedAreOfKind
<1>3. \A a \in fr \cup Range(o.chunks) : Blank(n, a)
  <2> SUFFICES ASSUME NEW a \in fr \cup Range(o.chunks) PROVE Blank(n, a)
    OBVIOUS
  <2>1. a \in Addr \ UsedIn(P)
    BY <1>1, <1>2
  <2> QED BY <1>1, <2>1 DEF Blank
<1> QED BY <1>1, <1>3 DEF Places

(* The chunks of op.addr beyond those that the value needs.                *)
LEMMA ShrinkKeeps ==
  ASSUME NEW S, NEW G, NEW B, NEW P, NEW U, WholeMap(S, G, B, P, U), op.pc = "room",
         Len(Chain(op.addr)) > Need,
         Commit(Put("nextChunk", (<<op.addr>> \o Chain(op.addr))[Need + 1], 0)
                \o If(Need = 0, Put("len", (<<op.addr>> \o Chain(op.addr))[Need + 1], "none"))),
         op' = Releasing(op, SubSeq(Chain(op.addr), Need + 1, Len(Chain(op.addr))), "flags"),
         UNCHANGED <<free, crashed, calls>>
  PROVE  WholeMapNow'
<1> DEFINE a == op.addr
           s == P[a]
           todo == SubSeq(Chain(a), Need + 1, Len(Chain(a)))
           last == (<<a>> \o Chain(a))[Need + 1]
           o == Releasing(op, todo, "flags")
<1>1. /\ Shape(mem) /\ Chains(mem, S, P) /\ Places(mem, P, U, free, op, crashed)
      /\ UniqueKeys(mem, S, op) /\ Counts(mem, S, op, crashed)
      /\ Working(op, S, P, crashed, calls) /\ Range(S) \subseteq Addr
  BY PartsOf
<1>2. /\ DOMAIN op = DOMAIN Idle /\ Phase(op) = "room" /\ ToRelease(op) = <<>> /\ Unlinked(op) = {}
      /\ op.chunks = <<>> /\ a \in Range(S) /\ a \in Addr \cup {0}
      /\ op.n \in 0 .. NBlocks + EraseCount /\ op.dirty \in BOOLEAN
      /\ crashed \in BOOLEAN /\ calls \in 0 .. MaxCalls
  BY <1>1, AtWork DEF AtRecord
<1> HIDE DEF Phase
<1>3. op.name = "set" /\ op.key \in Keys /\ op.val \in Values \cup {None}
  <2>1. Phase(op) \in Making
    BY <1>2 DEF Making
  <2> QED BY <1>1, <2>1 DEF Working
<1>4. Need = Needs(op) /\ Need \in Nat
  BY <1>3, NeedIs DEF Need, Needs
<1>5. PartsAre(a, s)
  BY <1>1, <1>2, ChainFound
<1> HIDE DEF a, s, todo, last, o
<1>6. /\ <<a>> \o Chain(a) = s /\ Len(s) \in Nat /\ s \in Seq(Addr)
      /\ Chain(a) \in Seq(Addr) /\ Len(Chain(a)) = Len(s) - 1
      /\ \A j \in 1 .. Len(s) - 1 : Chain(a)[j] = s[j + 1]
  BY <1>5 DEF PartsAre
<1>7. s # <<>> /\ s[1] = a /\ IsInjective(s) /\ Strung(s, mem["nextChunk"])
  BY <1>1, <1>2 DEF Chains, s
<1>7a. \A i, j \in 1 .. Len(s) : s[i] = s[j] => i = j
  <2>1. s \in Seq(Addr) /\ IsInjective(s)
    BY <1>6, <1>7
  <2>2. DOMAIN s = 1 .. Len(s)
    BY ONLY <2>1
  <2> QED BY ONLY <2>1, <2>2 DEF IsInjective
<1>8. last = s[Need + 1] /\ Need + 1 \in 1 .. Len(s) - 1
  BY <1>4, <1>6 DEF last, a
<1> DEFINE K == Need + 1
           t == SubSeq(s, 1, K)
<1>9. K \in Nat /\ K \in 1 .. Len(s) - 1
  BY <1>4, <1>8
<1>10. /\ todo \in Seq(Addr) /\ Len(todo) = Len(s) - K
       /\ \A i \in 1 .. Len(s) - K : todo[i] = s[K + i]
  <2> DEFINE ch == Chain(a)
             r == SubSeq(ch, Need + 1, Len(ch))
  <2>1. ch \in Seq(Addr) /\ Need <= Len(ch) /\ Len(ch) = Len(s) - 1
    BY <1>4, <1>6, <1>8
  <2>1a. \A j \in 1 .. Len(s) - 1 : ch[j] = s[j + 1]
    BY <1>6
  <2> HIDE DEF ch
  <2>2. /\ r \in Seq(Addr) /\ DOMAIN r = 1 .. Len(ch) - Need
        /\ \A i \in 1 .. Len(ch) - Need : Need + i \in 1 .. Len(ch) /\ r[i] = ch[Need + i]
    <3>1. ch \in Seq(Addr)
      BY <2>1
    <3>2. Need \in Nat /\ Need <= Len(ch)
      BY <1>4, <2>1
    <3> QED BY ONLY <3>1, <3>2, RestOf
  <2>3. todo = r
    BY DEF todo, ch
  <2> HIDE DEF r
  <2>4. Len(todo) = Len(s) - K
    BY <1>4, <1>6, <2>1, <2>2, <2>3
  <2>5. ASSUME NEW i \in 1 .. Len(s) - K PROVE todo[i] = s[K + i]
    <3>1. i \in 1 .. Len(ch) - Need /\ Need + i \in 1 .. Len(s) - 1
      BY <1>4, <1>6, <2>1, <2>2
    <3>2. todo[i] = ch[Need + i] /\ ch[Need + i] = s[Need + i + 1]
      BY <2>1a, <2>2, <2>3, <3>1
    <3>3. Need + i + 1 = K + i
      BY <1>4
    <3> QED BY <3>2, <3>3
  <2> QED BY <2>2, <2>3, <2>4, <2>5
<1>11. t \in Seq(Addr) /\ Len(t) = K /\ \A i \in 1 .. K : t[i] = s[i]
  BY <1>6, <1>9
<1> HIDE DEF t, K
<1>12. /\ IsInjective(t) /\ IsInjective(todo) /\ Range(t) \cap Range(todo) = {}
       /\ Range(t) \cup Range(todo) = Range(s)
  <2>1. s \in Seq(Addr) /\ IsInjective(s)
    BY <1>6, <1>7
  <2>2. K \in Nat /\ K <= Len(s)
    BY <1>6, <1>9
  <2> QED BY ONLY <1>10, <1>11, <2>1, <2>2, CutInTwo, SMTT(30)
<1>13. last = s[K] /\ last \in Range(s) /\ last \in Addr
  BY <1>6, <1>8, <1>9 DEF Range, K
<1>14. PICK c : c \in BOOLEAN /\ (c <=> Need = 0)
  OBVIOUS
<1>15. PICK n : CutMade(n, last, c)
  BY <1>1, <1>13, CutMakes
<1>16. /\ Makes(Put("nextChunk", last, 0) \o If(c, Put("len", last, "none")), mem, n)
       /\ Shape(n) /\ Touches(mem, n, DataFields, {last})
       /\ n["nextChunk"] = [mem["nextChunk"] EXCEPT ![last] = 0]
       /\ n["len"] = IF c THEN [mem["len"] EXCEPT ![last] = "none"] ELSE mem["len"]
       /\ n["key"] = mem["key"] /\ n["index"] = mem["index"] /\ n["usedChunk"] = mem["usedChunk"]
  BY <1>15 DEF CutMade
<1>17. mem' = n
  <2>1. If(c, Put("len", last, "none")) = If(Need = 0, Put("len", last, "none"))
    BY <1>14 DEF If
  <2>2. Commit(Put("nextChunk", last, 0) \o If(Need = 0, Put("len", last, "none")))
    BY DEF last, a
  <2> QED BY <1>16, <2>1, <2>2, CommitMakes
<1>18. DOMAIN mem["nextChunk"] = Addr /\ DOMAIN mem["len"] = Addr
  BY <1>1, ShapeOf, ListingFieldNames
<1>19. \A b \in Addr : n["nextChunk"][b] = IF b = last THEN 0 ELSE mem["nextChunk"][b]
  BY <1>16, <1>18
<1>20. \A b \in Addr : n["len"][b] = IF c /\ b = last THEN "none" ELSE mem["len"][b]
  BY <1>14, <1>16, <1>18
<1> DEFINE Q == [P EXCEPT ![a] = t]
<1>21. Range(P[a]) = Range(s) /\ Range(s) \subseteq UsedIn(P) /\ UsedIn(P) \subseteq Addr
  <2>1. Range(s) \subseteq UsedIn(P)
    BY <1>1, <1>2, RecordsAreUsed DEF s
  <2>2. UsedIn(P) \subseteq Addr
    BY <1>1, QueuedAreOfKind DEF UsedIn, Chains
  <2> QED BY <2>1, <2>2 DEF s
<1>22. ChainChanges(mem, n, S, P, a, t)
  <2>1. t # <<>> /\ t[1] = a
    BY <1>7, <1>9, <1>11
  <2>2. Strung(t, n["nextChunk"])
    <3> SUFFICES ASSUME NEW i \in 1 .. K
                 PROVE  n["nextChunk"][t[i]] = IF i = K THEN 0 ELSE t[i + 1]
      BY <1>11 DEF Strung
    <3>1. i \in 1 .. Len(s) /\ t[i] = s[i] /\ s[i] \in Addr /\ K \in 1 .. Len(s)
      BY <1>6, <1>9, <1>11
    <3>2. s[i] = s[K] => i = K
      BY <1>7a, <3>1
    <3>3. CASE i = K
      BY <1>13, <1>19, <3>1, <3>3
    <3>4. CASE i # K
      <4>1. i + 1 \in 1 .. K /\ i # Len(s)
        BY <1>9, <3>4
      <4>2. mem["nextChunk"][s[i]] = s[i + 1]
        BY <1>7, <3>1, <4>1 DEF Strung
      <4> QED BY <1>11, <1>13, <1>19, <3>1, <3>2, <3>4, <4>1, <4>2
    <3> QED BY <3>3, <3>4
  <2>3. Range(t) \cap (UsedIn(P) \ Range(P[a])) = {}
    BY <1>12, <1>21
  <2>4. \A b \in UsedIn(P) \ Range(P[a]) : n["nextChunk"][b] = mem["nextChunk"][b]
    BY <1>13, <1>19, <1>21
  <2> QED BY <1>1, <1>2, <1>11, <1>12, <2>1, <2>2, <2>3, <2>4 DEF ChainChanges
<1>23. Chains(n, S, Q) /\ UsedIn(Q) = (UsedIn(P) \ Range(s)) \cup Range(t)
  <2>1. ChainChanged(n, S, P, a, t)
    BY <1>22, ChainBecomes
  <2> QED BY <1>21, <2>1 DEF ChainChanged
<1>24. Q[a] = t
  BY <1>1, <1>2 DEF Chains
<1> HIDE DEF Q
<1>25. todo # <<>>
  BY <1>6, <1>9, <1>10
<1>26. /\ DOMAIN o = DOMAIN Idle /\ o.n = op.n /\ o.pc = "release" /\ o.todo = todo /\ o.ret = "flags"
       /\ o.name = op.name /\ o.key = op.key /\ o.val = op.val /\ o.addr = op.addr
       /\ o.chunks = <<>> /\ o.dirty = op.dirty
  BY <1>2, <1>25, OperationFields DEF Releasing, o
<1>27. Phase(o) = "flags" /\ ToRelease(o) = todo /\ Unlinked(o) = {}
  BY <1>26 DEF Phase, ToRelease, Unlinked
<1>28. Places(n, Q, U, free, o, crashed)
  <2>1. Range(todo) \cap UsedIn(Q) = {} /\ Range(todo) \cup UsedIn(Q) = UsedIn(P)
    BY <1>12, <1>21, <1>23
  <2>2. \A f \in BlockFields : \A b \in Addr \ UsedIn(P) : n[f][b] = mem[f][b]
    BY <1>13, <1>16, <1>21, Unaltered
  <2>3. n["usedChunk"][0] = mem["usedChunk"][0]
    BY <1>16
  <2>4. o.chunks = op.chunks
    BY <1>2, <1>26
  <2> QED BY <1>1, <1>2, <1>10, <1>12, <1>27, <2>1, <2>2, <2>3, <2>4, PlacesCut
<1>29. Counts(n, S, o, crashed)
  BY <1>1, <1>2, <1>16, <1>27, DataCounts
<1>30. UniqueKeys(n, S, o)
  <2>1. ASSUME NEW b \in Range(S), NEW k \in Keys, Is(n, b, k) PROVE Is(mem, b, k)
    <3>0. b \in Addr
      BY <1>1
    <3>1. CASE b # last
      BY <1>16, <1>19, <1>20, <2>1, <3>0, <3>1 DEF Is, Readable
    <3>2. CASE b = last
      <4>1. b = a
        <5>1. b \in Range(P[b])
          BY <1>1 DEF Chains, Range
        <5>2. b \in Range(P[a])
          BY <1>13, <1>21, <3>2
        <5> QED BY <1>1, <1>2, <5>1, <5>2 DEF Chains
      <4>2. K = 1
        <5>1. s[1] = s[K] /\ 1 \in 1 .. Len(s) /\ K \in 1 .. Len(s)
          BY <1>7, <1>9, <1>13, <3>2, <4>1
        <5> QED BY <1>6, <1>7, <5>1 DEF IsInjective
      <4>3. c
        BY <1>4, <1>14, <4>2 DEF K
      <4>4. n["nextChunk"][b] = 0 /\ n["len"][b] = "none"
        BY <1>19, <1>20, <3>0, <3>2, <4>3
      <4> QED BY <2>1, <4>4 DEF Is, Readable
    <3> QED BY <3>1, <3>2
  <2>2. Phase(o) \notin {"block", "link"} /\ Phase(op) \in Making /\ Phase(op) \notin {"block", "link"}
    BY <1>2, <1>27 DEF Making
  <2>3. n["key"][op.addr] = mem["key"][op.addr]
    BY <1>16
  <2> QED BY <1>1, <1>3, <1>26, <2>1, <2>2, <2>3, UniqueKeysKept
<1>31. Working(o, S, Q, crashed, calls)
  <2>1. Needs(o) = Needs(op)
    BY <1>26 DEF Needs
  <2>2. Len(Q[o.addr]) = Needs(o) + 1
    <3>1. K = Needs(op) + 1
      BY <1>4 DEF K
    <3>2. o.addr = a
      BY <1>26 DEF a
    <3> QED BY <1>11, <1>24, <2>1, <3>1, <3>2
  <2>3. o.addr \in Range(S)
    BY <1>2, <1>26 DEF a
  <2>4. o.addr \in Addr \cup {0}
    BY <1>1, <2>3
  <2> QED BY <1>2, <1>3, <1>25, <1>26, <1>27, <2>2, <2>3, <2>4 DEF Working, Making, AtRecord
<1>32. Becomes(n, free, o, crashed, calls)
  BY <1>17 DEF Becomes, o, todo, a
<1> QED BY <1>16, <1>23, <1>28, <1>29, <1>30, <1>31, <1>32, DataStep

(* Block::allocate keeps the map whole, whether the record needs less room *)
(* than it has, as much or more.                                           *)
LEMMA AllocateKeeps ==
  ASSUME NEW S, NEW G, NEW B, NEW P, NEW U, WholeMap(S, G, B, P, U), allocate
  PROVE  WholeMapNow'
<1>1. op.pc = "room" /\ UNCHANGED <<free, crashed, calls>>
  BY DEF allocate
<1>2. CASE Len(Chain(op.addr)) > Need
  BY <1>1, <1>2, ShrinkKeeps DEF allocate
<1>3. CASE ~(Len(Chain(op.addr)) > Need)
  BY <1>1, <1>3, NoRestKeeps DEF allocate, Become
<1> QED BY <1>2, <1>3

(* A free block that is taken is one more that is used.                    *)
LEMMA MoreUsed ==
  ASSUME NEW fr, NEW U, fr \subseteq Addr, U \cap fr = {}, NEW c \in fr
  PROVE  Cardinality(Addr \ ((fr \ {c}) \cup U)) = Cardinality(Addr \ (fr \cup U)) + 1
<1> DEFINE X == Addr \ (fr \cup U)
<1>1. IsFiniteSet(X) /\ c \notin X
  BY HashMapAssumption, FS_Subset
<1>2. Addr \ ((fr \ {c}) \cup U) = X \cup {c}
  OBVIOUS
<1> HIDE DEF X
<1>3. Cardinality(X \cup {c}) = Cardinality(X) + 1
  BY <1>1, FS_AddElement
<1> QED BY <1>2, <1>3 DEF X

(* One more chunk in hand.                                                 *)
LEMMA TakesChunkKeeps ==
  ASSUME NEW S, NEW G, NEW B, NEW P, NEW U, WholeMap(S, G, B, P, U), op.pc = "chunk",
         NEW c \in free,
         op' = [op EXCEPT !.chunks = Append(@, c),
                          !.pc = IF Len(Chain(op.addr)) + Len(op.chunks) + 1 = Need
                                 THEN "join" ELSE "chunk"],
         free' = free \ {c}, Commit(Add("usedChunk", 0, 1)), UNCHANGED <<crashed, calls>>
  PROVE  WholeMapNow'
<1> DEFINE a == op.addr
           to == IF Len(Chain(op.addr)) + Len(op.chunks) + 1 = Need THEN "join" ELSE "chunk"
           q == Append(op.chunks, c)
           o == [op EXCEPT !.chunks = Append(@, c), !.pc = to]
           fr == free \ {c}
<1>1. /\ Shape(mem) /\ Chains(mem, S, P) /\ Places(mem, P, U, free, op, crashed)
      /\ UniqueKeys(mem, S, op) /\ Counts(mem, S, op, crashed)
      /\ Working(op, S, P, crashed, calls) /\ Range(S) \subseteq Addr
  BY PartsOf
<1>2. /\ DOMAIN op = DOMAIN Idle /\ Phase(op) = "chunk" /\ ToRelease(op) = <<>> /\ Unlinked(op) = {}
      /\ a \in Range(S) /\ a \in Addr \cup {0}
      /\ op.n \in 0 .. NBlocks + EraseCount /\ op.dirty \in BOOLEAN
      /\ crashed \in BOOLEAN /\ calls \in 0 .. MaxCalls
  BY <1>1, AtWork DEF AtRecord
<1> HIDE DEF Phase
<1>3. /\ op.name = "set" /\ op.key \in Keys /\ op.val \in Values \cup {None}
      /\ Len(P[a]) + Len(op.chunks) < Needs(op) + 1
  <2>1. Phase(op) \in Making
    BY <1>2 DEF Making
  <2> QED BY <1>1, <1>2, <2>1 DEF Working
<1>4. Need = Needs(op) /\ Need \in Nat
  BY <1>3, NeedIs DEF Need, Needs
<1>5. Len(P[a]) \in Nat /\ Len(Chain(a)) = Len(P[a]) - 1
  <2>1. PartsAre(a, P[a])
    BY <1>1, <1>2, ChainFound
  <2> QED BY <2>1 DEF PartsAre
<1>6. /\ free \subseteq Addr /\ op.chunks \in Seq(Addr) /\ IsInjective(op.chunks)
      /\ Range(op.chunks) \cap (free \cup UsedIn(P)) = {} /\ free \cap UsedIn(P) = {}
      /\ \A b \in free \cup Range(op.chunks) : Blank(mem, b)
      /\ U \subseteq Addr /\ U \cap (free \cup Range(op.chunks) \cup UsedIn(P)) = {}
      /\ mem["usedChunk"][0] = Cardinality(Addr \ (free \cup U))
      /\ ~crashed => U = {} /\ Addr = free \cup U \cup Range(op.chunks) \cup UsedIn(P)
  BY <1>1, <1>2, EmptyQueue DEF Places
<1>7. q \in Seq(Addr) /\ IsInjective(q) /\ Range(q) = Range(op.chunks) \cup {c}
      /\ Len(q) = Len(op.chunks) + 1 /\ Len(op.chunks) \in Nat
  <2>1. c \in Addr /\ c \notin Range(op.chunks) /\ op.chunks \in Seq(Addr) /\ IsInjective(op.chunks)
    BY <1>6
  <2>2. q \in Seq(Addr) /\ IsInjective(q) /\ Range(q) = Range(op.chunks) \cup {c}
    BY ONLY <2>1, PushedBehind
  <2>3. Len(q) = Len(op.chunks) + 1 /\ Len(op.chunks) \in Nat
    BY ONLY <2>1
  <2> QED BY <2>2, <2>3
<1>8. /\ to \in {"join", "chunk"}
      /\ to = "join" => Len(P[a]) + Len(q) = Needs(op) + 1
      /\ to = "chunk" => Len(P[a]) + Len(q) < Needs(op) + 1
  <2> DEFINE x == Len(P[a])
             y == Len(op.chunks)
             z == Len(Chain(a))
  <2>1. x \in Nat /\ y \in Nat /\ z = x - 1 /\ Len(q) = y + 1 /\ x + y < Need + 1
    BY <1>3, <1>4, <1>5, <1>7
  <2>2. to = IF z + y + 1 = Need THEN "join" ELSE "chunk"
    OBVIOUS
  <2> HIDE DEF q, x, y, z, to
  <2>3. /\ to \in {"join", "chunk"}
        /\ to = "join" => x + Len(q) = Need + 1
        /\ to = "chunk" => x + Len(q) < Need + 1
    BY <1>4, <2>1, <2>2
  <2> QED BY <1>4, <2>3 DEF x
<1> HIDE DEF to
<1>9. /\ DOMAIN o = DOMAIN Idle /\ o.pc = to /\ o.n = op.n
      /\ o.name = op.name /\ o.key = op.key /\ o.val = op.val /\ o.addr = op.addr
      /\ o.chunks = q /\ o.dirty = op.dirty
  BY <1>2, OperationFields
<1>10. PICK w : w = TRUE
  OBVIOUS
<1>11. PICK n : HeadSet(n, w, "usedChunk", mem["usedChunk"][0] + 1)
  BY <1>1, HeadSetMakes, DataFieldNames
<1>12. /\ Makes(If(w, Put("usedChunk", 0, mem["usedChunk"][0] + 1)), mem, n)
       /\ Touches(mem, n, {"usedChunk"}, {}) /\ n["usedChunk"][0] = mem["usedChunk"][0] + 1
  BY <1>10, <1>11 DEF HeadSet
<1>13. mem' = n
  <2>1. If(w, Put("usedChunk", 0, mem["usedChunk"][0] + 1)) = Add("usedChunk", 0, 1)
    BY <1>10 DEF If, Add
  <2> QED BY <1>12, <2>1, CommitMakes
<1>14. Touches(mem, n, DataFields, {})
  BY <1>12, TouchesMore DEF DataFields
<1>15. \A f \in Fields : f # "usedChunk" => n[f] = mem[f]
  BY <1>12, Unaltered
<1>16. /\ n["nextChunk"] = mem["nextChunk"] /\ n["len"] = mem["len"] /\ n["key"] = mem["key"]
       /\ n["index"] = mem["index"] /\ \A f \in BlockFields : n[f] = mem[f]
  BY <1>15, DataFieldNames, ListingFieldNames, ShapeOf, <1>1 DEF DataFields
<1> HIDE DEF o, q
<1>17. Phase(o) = to /\ ToRelease(o) = <<>> /\ Unlinked(o) = {}
  BY <1>8, <1>9 DEF Phase, ToRelease, Unlinked
<1>18. Chains(n, S, P)
  BY <1>1, <1>16, ChainsKept
<1>19. Places(n, P, U, fr, o, crashed)
  <2>1. Cardinality(Addr \ (fr \cup U)) = Cardinality(Addr \ (free \cup U)) + 1
    BY <1>6, MoreUsed, ZenonT(30)
  <2>2. n["usedChunk"][0] = Cardinality(Addr \ (fr \cup U))
    BY <1>6, <1>12, <2>1
  <2>3. \A b \in fr \cup Range(q) : Blank(n, b)
    BY <1>6, <1>7, <1>16 DEF Blank
  <2>4. c \in Addr /\ c \notin UsedIn(P)
    BY <1>6
  <2>5. /\ Range(q) \cap (fr \cup UsedIn(P)) = {} /\ U \cap (fr \cup Range(q) \cup UsedIn(P)) = {}
    BY <1>6, <1>7
  <2>6. ~crashed => U = {} /\ Addr = fr \cup U \cup Range(q) \cup UsedIn(P)
    BY <1>6, <1>7
  <2>7. fr \subseteq Addr /\ fr \cap UsedIn(P) = {}
    BY <1>6
  <2> HIDE DEF fr
  <2> QED BY <1>6, <1>7, <1>9, <1>17, <2>2, <2>3, <2>5, <2>6, <2>7, EmptyQueue DEF Places
<1>20. Counts(n, S, o, crashed)
  <2>1. Phase(op) \notin {"copy", "count"} /\ Phase(o) \notin {"copy", "count"}
    BY <1>2, <1>8, <1>17
  <2> QED BY <1>1, <1>14, <2>1, DataCounts
<1>21. UniqueKeys(n, S, o)
  <2>1. \A b \in Range(S), k \in Keys : b \in Range(S) /\ (Is(n, b, k) => Is(mem, b, k))
    BY <1>16 DEF Is, Readable
  <2>2. Phase(op) \in Making /\ Phase(op) \notin {"block", "link"}
    BY <1>2 DEF Making
  <2>3. n["key"][op.addr] = mem["key"][op.addr]
    BY <1>16
  <2> QED BY <1>1, <1>3, <1>9, <2>1, <2>2, <2>3, UniqueKeysKept
<1>22. Working(o, S, P, crashed, calls)
  <2>1. Needs(o) = Needs(op)
    BY <1>9 DEF Needs
  <2>2. q # <<>>
    BY <1>7
  <2> QED BY <1>2, <1>3, <1>8, <1>9, <1>17, <2>1, <2>2 DEF Working, Making, AtRecord
<1>23. Becomes(n, fr, o, crashed, calls)
  BY <1>13 DEF Becomes, o, to
<1> QED BY <1>14, <1>18, <1>19, <1>20, <1>21, <1>22, <1>23, DataStep

(* A chunk is taken, or eviction begins; the map stays whole.              *)
LEMMA AllocateChunkKeeps ==
  ASSUME NEW S, NEW G, NEW B, NEW P, NEW U, WholeMap(S, G, B, P, U), allocateChunk
  PROVE  WholeMapNow'
<1>1. op.pc = "chunk" /\ UNCHANGED <<crashed, calls>>
  BY DEF allocateChunk
<1>2. CASE op' = Evicting("chunk") /\ UNCHANGED <<mem, free>>
  BY <1>1, <1>2, EvictingKeeps
<1>3. ASSUME NEW c \in free,
             op' = [op EXCEPT !.chunks = Append(@, c),
                              !.pc = IF Len(Chain(op.addr)) + Len(op.chunks) + 1 = Need
                                     THEN "join" ELSE "chunk"],
             free' = free \ {c}, Commit(Add("usedChunk", 0, 1))
      PROVE  WholeMapNow'
  BY <1>1, <1>3, TakesChunkKeeps
<1> QED BY <1>2, <1>3 DEF allocateChunk

(* The stores that join a chunk to a chain.                                *)
JoinMade(n, b, c) ==
  /\ Makes(Put("nextChunk", b, c) \o Put("len", b, "addr")
           \o Put("nextChunk", c, 0) \o Put("len", c, "none"), mem, n)
  /\ Touches(mem, n, DataFields, {b, c})
  /\ \A x \in Addr : n["nextChunk"][x] = IF x = c THEN 0 ELSE IF x = b THEN c
                                         ELSE mem["nextChunk"][x]
  /\ \A x \in Addr \ {b, c} : n["len"][x] = mem["len"][x]
  /\ n["key"] = mem["key"] /\ n["index"] = mem["index"] /\ n["usedChunk"] = mem["usedChunk"]
  /\ n["val"] = mem["val"]

(* The transaction of joinChunk ties the chunk to the last part of the     *)
(* record.                                                                 *)
LEMMA JoinMakes ==
  ASSUME Shape(mem), NEW b \in Addr, NEW c \in Addr, b # c
  PROVE  \E n : JoinMade(n, b, c)
<1> DEFINE F == DataFields
           R == {b, c}
           l1 == Put("nextChunk", b, c)
           l2 == l1 \o Put("len", b, "addr")
           l3 == l2 \o Put("nextChunk", c, 0)
           l4 == l3 \o Put("len", c, "none")
<1>0. /\ "nextChunk" \in Fields /\ "len" \in Fields /\ "nextChunk" \in F
      /\ "len" \in F /\ "nextChunk" \in BlockFields /\ "len" \in BlockFields
      /\ "key" \in Fields /\ "index" \in Fields /\ "usedChunk" \in Fields /\ "val" \in Fields
  BY DataFieldNames, ListingFieldNames DEF DataFields
<1>1. b \in R /\ c \in R
  OBVIOUS
<1> HIDE DEF F, R
<1>2. PICK n1 : /\ Makes(l1, mem, n1) /\ Shape(n1) /\ Touches(mem, n1, F, R)
                /\ \A g \in Fields : g # "nextChunk" => n1[g] = mem[g]
                /\ \A x \in Addr : n1["nextChunk"][x] = IF x = b THEN c ELSE mem["nextChunk"][x]
  <2>1. Touches(mem, mem, F, R)
    BY TouchesNothing
  <2> QED BY <1>0, <1>1, <2>1, FirstBlockPut
<1> HIDE DEF l1
<1>3. PICK n2 : /\ Makes(l2, mem, n2) /\ Shape(n2) /\ Touches(mem, n2, F, R)
                /\ \A g \in Fields : g # "len" => n2[g] = n1[g]
                /\ \A x \in Addr : n2["len"][x] = IF x = b THEN "addr" ELSE n1["len"][x]
  BY <1>0, <1>1, <1>2, BlockPut
<1> HIDE DEF l2
<1>4. PICK n3 : /\ Makes(l3, mem, n3) /\ Shape(n3) /\ Touches(mem, n3, F, R)
                /\ \A g \in Fields : g # "nextChunk" => n3[g] = n2[g]
                /\ \A x \in Addr : n3["nextChunk"][x] = IF x = c THEN 0 ELSE n2["nextChunk"][x]
  BY <1>0, <1>1, <1>3, BlockPut
<1> HIDE DEF l3
<1>5. PICK n : /\ Makes(l4, mem, n) /\ Shape(n) /\ Touches(mem, n, F, R)
               /\ \A g \in Fields : g # "len" => n[g] = n3[g]
               /\ \A x \in Addr : n["len"][x] = IF x = c THEN "none" ELSE n3["len"][x]
  BY <1>0, <1>1, <1>4, BlockPut
<1>6. \A x \in Addr : n["nextChunk"][x] = IF x = c THEN 0 ELSE IF x = b THEN c
                                          ELSE mem["nextChunk"][x]
  BY <1>0, <1>2, <1>3, <1>4, <1>5
<1>7. \A x \in Addr \ {b, c} : n["len"][x] = mem["len"][x]
  BY <1>0, <1>2, <1>3, <1>4, <1>5
<1>8. n["key"] = mem["key"] /\ n["index"] = mem["index"] /\ n["usedChunk"] = mem["usedChunk"]
      /\ n["val"] = mem["val"]
  BY <1>0, <1>2, <1>3, <1>4, <1>5
<1> QED BY <1>5, <1>6, <1>7, <1>8 DEF JoinMade, l1, l2, l3, l4, F, R

(* A chain with one part more at its end.                                  *)
LEMMA LongerChain ==
  ASSUME NEW s \in Seq(Addr), s # <<>>, IsInjective(s), NEW c \in Addr, c \notin Range(s),
         NEW nx, NEW nx2, Strung(s, nx),
         \A x \in Addr : nx2[x] = IF x = c THEN 0 ELSE IF x = s[Len(s)] THEN c ELSE nx[x]
  PROVE  /\ Append(s, c) \in Seq(Addr) /\ Append(s, c) # <<>> /\ Append(s, c)[1] = s[1]
         /\ IsInjective(Append(s, c)) /\ Strung(Append(s, c), nx2)
         /\ Range(Append(s, c)) = Range(s) \cup {c} /\ Len(Append(s, c)) = Len(s) + 1
<1> DEFINE t == Append(s, c)
           l == Len(s)
<1>1. /\ t \in Seq(Addr) /\ Len(t) = l + 1 /\ l \in Nat /\ l >= 1
      /\ \A i \in 1 .. l : t[i] = s[i] /\ s[i] \in Addr
      /\ t[l + 1] = c
  OBVIOUS
<1>2. IsInjective(t) /\ Range(t) = Range(s) \cup {c}
  BY PushedBehind
<1>3. \A i \in 1 .. l : s[i] # c
  BY DEF Range
<1>4. \A i \in 1 .. l : s[i] = s[l] => i = l
  <2>1. DOMAIN s = 1 .. l /\ l \in 1 .. l
    BY <1>1
  <2> HIDE DEF t, l
  <2> QED BY <2>1 DEF IsInjective
<1>5. \A i \in 1 .. l : nx[s[i]] = IF i = l THEN 0 ELSE s[i + 1]
  BY DEF Strung
<1> HIDE DEF t, l
<1>6. ASSUME NEW i \in 1 .. l + 1 PROVE nx2[t[i]] = IF i = l + 1 THEN 0 ELSE t[i + 1]
  <2>1. CASE i = l + 1
    BY <1>1, <2>1
  <2>2. CASE i = l
    <3>1. t[i] = s[l] /\ s[l] # c /\ s[l] \in Addr
      BY <1>1, <1>3, <2>2
    <3>2. nx2[s[l]] = c
      BY <3>1 DEF l
    <3> QED BY <1>1, <2>2, <3>1, <3>2
  <2>3. CASE i \in 1 .. l - 1
    <3>1. i \in 1 .. l /\ i + 1 \in 1 .. l /\ i # l
      BY <1>1, <2>3
    <3>2. t[i] = s[i] /\ s[i] # c /\ s[i] \in Addr /\ s[i] # s[l] /\ t[i + 1] = s[i + 1]
      BY <1>1, <1>3, <1>4, <3>1
    <3>3. nx2[s[i]] = nx[s[i]]
      BY <3>2 DEF l
    <3> QED BY <1>1, <1>5, <3>1, <3>2, <3>3
  <2> QED BY <1>1, <2>1, <2>2, <2>3
<1>7. Strung(t, nx2)
  BY <1>1, <1>6 DEF Strung
<1>8. t # <<>> /\ t[1] = s[1]
  BY <1>1
<1> QED BY <1>1, <1>2, <1>7, <1>8 DEF t, l

(* joinChunk keeps the map whole.                                          *)
LEMMA JoinChunkKeeps ==
  ASSUME NEW S, NEW G, NEW B, NEW P, NEW U, WholeMap(S, G, B, P, U), joinChunk
  PROVE  WholeMapNow'
<1> DEFINE a == op.addr
           s == P[a]
           q == op.chunks
           c == Head(q)
           last == LastPart(a)
           to == IF Len(q) = 1 THEN "flags" ELSE "join"
           o == [op EXCEPT !.chunks = Tail(@), !.pc = to]
           t == Append(s, c)
           Q == [P EXCEPT ![a] = t]
<1>0. /\ op.pc = "join" /\ op' = o /\ free' = free /\ crashed' = crashed /\ calls' = calls
      /\ Commit(Put("nextChunk", last, c) \o Put("len", last, "addr")
                \o Put("nextChunk", c, 0) \o Put("len", c, "none"))
  BY DEF joinChunk
<1>1. /\ Shape(mem) /\ Chains(mem, S, P) /\ Places(mem, P, U, free, op, crashed)
      /\ UniqueKeys(mem, S, op) /\ Counts(mem, S, op, crashed)
      /\ Working(op, S, P, crashed, calls) /\ Range(S) \subseteq Addr
  BY PartsOf
<1>2. /\ DOMAIN op = DOMAIN Idle /\ Phase(op) = "join" /\ ToRelease(op) = <<>> /\ Unlinked(op) = {}
      /\ a \in Range(S) /\ a \in Addr \cup {0}
      /\ op.n \in 0 .. NBlocks + EraseCount /\ op.dirty \in BOOLEAN
      /\ crashed \in BOOLEAN /\ calls \in 0 .. MaxCalls
  BY <1>0, <1>1, AtWork DEF AtRecord
<1> HIDE DEF Phase
<1>3. /\ op.name = "set" /\ op.key \in Keys /\ op.val \in Values \cup {None}
      /\ q # <<>> /\ Len(s) + Len(q) = Needs(op) + 1
  <2>1. Phase(op) \in Making
    BY <1>2 DEF Making
  <2> QED BY <1>1, <1>2, <2>1 DEF Working
<1>4. Needs(op) \in Nat
  BY <1>3, NeedIs
<1>5. PartsAre(a, s)
  BY <1>1, <1>2, ChainFound
<1> HIDE DEF s, t
<1>6. last = s[Len(s)] /\ Len(s) \in Nat /\ s \in Seq(Addr)
  BY <1>5 DEF PartsAre
<1>7. s # <<>> /\ s[1] = a /\ IsInjective(s) /\ Strung(s, mem["nextChunk"])
  BY <1>1, <1>2 DEF Chains, s
<1>8. /\ free \subseteq Addr /\ q \in Seq(Addr) /\ IsInjective(q)
      /\ Range(q) \cap (free \cup UsedIn(P)) = {} /\ free \cap UsedIn(P) = {}
      /\ \A b \in free \cup Range(q) : Blank(mem, b)
      /\ U \subseteq Addr /\ U \cap (free \cup Range(q) \cup UsedIn(P)) = {}
      /\ mem["usedChunk"][0] = Cardinality(Addr \ (free \cup U))
      /\ ~crashed => U = {} /\ Addr = free \cup U \cup Range(q) \cup UsedIn(P)
  BY <1>1, <1>2, EmptyQueue DEF Places
<1>9. /\ c \in Addr /\ Tail(q) \in Seq(Addr) /\ IsInjective(Tail(q))
      /\ c \notin Range(Tail(q)) /\ Range(q) = Range(Tail(q)) \cup {c}
  BY <1>3, <1>8, PoppedInFront
<1>10. Len(Tail(q)) = Len(q) - 1 /\ Len(q) \in Nat /\ Len(q) >= 1
  BY <1>3, <1>8
<1> HIDE DEF c, last
<1>11. Range(s) \subseteq UsedIn(P) /\ Range(P[a]) = Range(s) /\ UsedIn(P) \subseteq Addr
  <2>1. Range(s) \subseteq UsedIn(P)
    BY <1>1, <1>2, RecordsAreUsed DEF s
  <2>2. UsedIn(P) \subseteq Addr
    BY <1>1, QueuedAreOfKind DEF UsedIn, Chains
  <2> QED BY <2>1, <2>2 DEF s
<1>12. last \in Range(s) /\ last \in Addr /\ c \notin UsedIn(P) /\ last # c /\ c \notin Range(s)
  <2>1. last \in Range(s)
    <3>1. Len(s) \in DOMAIN s
      BY <1>6, <1>7
    <3> QED BY <1>6, <3>1 DEF Range
  <2>2. c \notin UsedIn(P)
    BY <1>8, <1>9
  <2> QED BY <1>11, <2>1, <2>2
<1>13. PICK n : JoinMade(n, last, c)
  BY <1>1, <1>9, <1>12, JoinMakes
<1>14. /\ Touches(mem, n, DataFields, {last, c})
       /\ \A x \in Addr : n["nextChunk"][x] = IF x = c THEN 0 ELSE IF x = last THEN c
                                              ELSE mem["nextChunk"][x]
       /\ \A x \in Addr \ {last, c} : n["len"][x] = mem["len"][x]
       /\ n["key"] = mem["key"] /\ n["index"] = mem["index"] /\ n["usedChunk"] = mem["usedChunk"]
  BY <1>13 DEF JoinMade
<1>15. mem' = n
  BY <1>0, <1>13, CommitMakes DEF JoinMade
<1>16. /\ t \in Seq(Addr) /\ t # <<>> /\ t[1] = a /\ IsInjective(t) /\ Strung(t, n["nextChunk"])
       /\ Range(t) = Range(s) \cup {c} /\ Len(t) = Len(s) + 1
  <2>1. \A x \in Addr : n["nextChunk"][x] = IF x = c THEN 0 ELSE IF x = s[Len(s)] THEN c
                                            ELSE mem["nextChunk"][x]
    BY <1>6, <1>14
  <2>2. c \in Addr /\ c \notin Range(s) /\ s \in Seq(Addr)
    BY <1>6, <1>9, <1>12
  <2> QED BY ONLY <1>7, <2>1, <2>2, LongerChain DEF t
<1>17. ChainChanges(mem, n, S, P, a, t)
  <2>1. Range(t) \cap (UsedIn(P) \ Range(P[a])) = {}
    BY <1>11, <1>12, <1>16
  <2>2. \A b \in UsedIn(P) \ Range(P[a]) : n["nextChunk"][b] = mem["nextChunk"][b]
    BY <1>11, <1>12, <1>14
  <2> QED BY <1>1, <1>2, <1>16, <2>1, <2>2 DEF ChainChanges
<1>18. Chains(n, S, Q) /\ UsedIn(Q) = UsedIn(P) \cup {c}
  <2>1. ChainChanged(n, S, P, a, t)
    BY <1>17, ChainBecomes
  <2>2. Chains(n, S, Q) /\ UsedIn(Q) = (UsedIn(P) \ Range(P[a])) \cup Range(t)
    BY <2>1 DEF ChainChanged
  <2> HIDE DEF Q
  <2> QED BY <1>11, <1>16, <2>2
<1>19. Q[a] = t
  BY <1>1, <1>2 DEF Chains
<1>20. to \in {"flags", "join"} /\ (to = "flags" => Len(q) = 1) /\ (to = "join" => Len(q) # 1)
  OBVIOUS
<1> HIDE DEF Q, to
<1>21. /\ DOMAIN o = DOMAIN Idle /\ o.pc = to /\ o.n = op.n
       /\ o.name = op.name /\ o.key = op.key /\ o.val = op.val /\ o.addr = op.addr
       /\ o.chunks = Tail(q) /\ o.dirty = op.dirty
  BY <1>2, OperationFields
<1> HIDE DEF o
<1>22. Phase(o) = to /\ ToRelease(o) = <<>> /\ Unlinked(o) = {}
  BY <1>20, <1>21 DEF Phase, ToRelease, Unlinked
<1>23. Places(n, Q, U, free, o, crashed)
  <2> DEFINE r == Tail(q)
  <2>0. /\ r \in Seq(Addr) /\ IsInjective(r) /\ c \notin Range(r) /\ Range(q) = Range(r) \cup {c}
        /\ o.chunks = r
    BY <1>9, <1>21
  <2> HIDE DEF r, q
  <2>1. \A b \in free \cup Range(r) : Blank(n, b)
    <3> SUFFICES ASSUME NEW b \in free \cup Range(r) PROVE Blank(n, b)
      OBVIOUS
    <3>1. b \in Addr /\ b \notin {last, c} /\ Blank(mem, b)
      <4>1. Range(r) \subseteq Addr
        BY <2>0, QueuedAreOfKind
      <4> QED BY <1>8, <1>9, <1>11, <1>12, <2>0, <4>1
    <3> QED BY <1>14, <3>1, Unaltered DEF Blank
  <2>2. n["usedChunk"][0] = Cardinality(Addr \ (free \cup U))
    BY <1>8, <1>14
  <2>3. /\ Range(r) \cap (free \cup UsedIn(Q)) = {} /\ free \cap UsedIn(Q) = {}
        /\ U \cap (free \cup Range(r) \cup UsedIn(Q)) = {}
        /\ ~crashed => U = {} /\ Addr = free \cup U \cup Range(r) \cup UsedIn(Q)
    BY <1>8, <1>18, <2>0
  <2> QED BY <1>8, <1>22, <2>0, <2>1, <2>2, <2>3, EmptyQueue DEF Places
<1>24. Counts(n, S, o, crashed)
  <2>1. Phase(op) \notin {"copy", "count"} /\ Phase(o) \notin {"copy", "count"}
    BY <1>2, <1>20, <1>22
  <2> QED BY <1>1, <1>14, <2>1, DataCounts
<1>25. ASSUME NEW b \in Range(S), b # a, NEW k \in Keys, Is(n, b, k) PROVE Is(mem, b, k)
  <2>1. b \notin {last, c} /\ b \in Addr
    <3>1. b \in Range(P[b])
      BY <1>1 DEF Chains, Range
    <3>2. b \notin Range(P[a])
      BY <1>1, <1>2, <1>25, <3>1 DEF Chains
    <3>3. b \in UsedIn(P)
      BY <1>1, RecordsAreUsed
    <3> QED BY <1>1, <1>11, <1>12, <3>2, <3>3
  <2> QED BY <1>14, <1>25, <2>1 DEF Is, Readable
<1>26. UniqueKeys(n, S, o)
  <2>1. Phase(op) \in Making /\ Phase(op) \notin {"block", "link"}
    BY <1>2 DEF Making
  <2>2. mem["key"][a] \in {None, op.key}
    BY <1>1, <2>1 DEF UniqueKeys
  <2>3. \A k \in Keys : Is(n, a, k) => k = op.key
    BY <1>14, <2>2, HashMapAssumption DEF Is
  <2>4. \A b \in Range(S) : Is(mem, b, op.key) => b = a
    BY <1>1, <2>1 DEF UniqueKeys
  <2>5. \A b \in Range(S) : Is(n, b, op.key) => b = a
    BY <1>3, <1>25, <2>4
  <2>6. ASSUME NEW k \in Keys, NEW b \in Range(S), NEW d \in Range(S), Is(n, b, k), Is(n, d, k)
        PROVE  b = d
    <3>1. CASE k = op.key
      BY <2>5, <2>6, <3>1
    <3>2. CASE k # op.key
      <4>1. b # a /\ d # a
        BY <2>3, <2>6, <3>2
      <4>2. Is(mem, b, k) /\ Is(mem, d, k)
        BY <1>25, <2>6, <4>1
      <4> QED BY <1>1, <4>2 DEF UniqueKeys
    <3> QED BY <3>1, <3>2
  <2>7. n["key"][o.addr] \in {None, o.key}
    BY <1>14, <1>21, <2>2
  <2> QED BY <1>21, <2>5, <2>6, <2>7 DEF UniqueKeys
<1>27. Working(o, S, Q, crashed, calls)
  <2>1. Needs(o) = Needs(op)
    BY <1>21 DEF Needs
  <2> DEFINE x == Len(s)
             y == Len(q)
             z == Needs(op)
             x2 == Len(Q[o.addr])
             y2 == Len(o.chunks)
             z2 == Needs(o)
             r == o.chunks
  <2>2. x2 + y2 = z2 + 1 /\ (to = "flags" => y2 = 0 /\ x2 = z2 + 1) /\ (to = "join" => y2 # 0)
    <3>1. x2 = x + 1 /\ y2 = y - 1 /\ z2 = z
      BY <1>10, <1>16, <1>19, <1>21, <2>1
    <3>2. x \in Nat /\ y \in Nat /\ y >= 1 /\ z \in Nat /\ x + y = z + 1
      BY <1>3, <1>4, <1>6, <1>10
    <3>3. (to = "flags" => y = 1) /\ (to = "join" => y # 1)
      BY <1>20
    <3> HIDE DEF x, y, z, x2, y2, z2
    <3> QED BY <3>1, <3>2, <3>3
  <2>3. r \in Seq(Addr)
    BY <1>9, <1>21
  <2> HIDE DEF r
  <2>4. (y2 = 0 => r = <<>>) /\ (y2 # 0 => r # <<>>)
    BY <2>3 DEF r
  <2>5. o.addr \in Range(S) /\ o.addr \in Addr \cup {0}
    BY <1>2, <1>21
  <2>6. /\ Phase(o) = "join" => o.chunks # <<>> /\ Len(Q[o.addr]) + Len(o.chunks) = Needs(o) + 1
        /\ Phase(o) \in {"flags", "copy"} => Len(Q[o.addr]) = Needs(o) + 1
        /\ Phase(o) \notin {"chunk", "join"} => o.chunks = <<>>
    BY <1>20, <1>22, <2>2, <2>4 DEF r
  <2> QED BY <1>2, <1>3, <1>20, <1>21, <1>22, <2>5, <2>6 DEF Working, Making, AtRecord
<1>28. Becomes(n, free, o, crashed, calls)
  BY <1>0, <1>15 DEF Becomes
<1> QED BY <1>14, <1>18, <1>23, <1>24, <1>26, <1>27, <1>28, DataStep

(* The two flags of block a become c and b.                                *)
FlagsMade(n, a, b, c) ==
  /\ Shape(n) /\ Touches(mem, n, {"dirty", "onlyKey"}, {a})
  /\ n["dirty"] = [mem["dirty"] EXCEPT ![a] = c]
  /\ n["onlyKey"] = [mem["onlyKey"] EXCEPT ![a] = b]

(* The two flags of a record are written in place.                         *)
LEMMA FlagsMake ==
  ASSUME Shape(mem), NEW a \in Addr, NEW b, NEW c
  PROVE  FlagsMade([mem EXCEPT !.dirty[a] = c, !.onlyKey[a] = b], a, b, c)
<1> DEFINE n == [mem EXCEPT !.dirty[a] = c, !.onlyKey[a] = b]
<1>1. /\ "dirty" \in DOMAIN mem /\ "onlyKey" \in DOMAIN mem
      /\ DOMAIN mem["dirty"] = Addr /\ DOMAIN mem["onlyKey"] = Addr
      /\ DOMAIN mem = Fields
  BY FieldNames DEF Shape, Fields
<1>2. /\ DOMAIN n = Fields
      /\ \A f \in Fields \ {"dirty", "onlyKey"} : n[f] = mem[f]
      /\ n["dirty"] = [mem["dirty"] EXCEPT ![a] = c]
      /\ n["onlyKey"] = [mem["onlyKey"] EXCEPT ![a] = b]
  BY <1>1
<1> HIDE DEF n
<1>3. \A f \in Fields : DOMAIN n[f] = DOMAIN mem[f]
  BY <1>1, <1>2
<1>4. Shape(n)
  BY <1>2, <1>3 DEF Shape, Fields
<1>5. Touches(mem, n, {"dirty", "onlyKey"}, {a})
  <2>1. \A f \in {"dirty", "onlyKey"} : \A x \in Addr \ {a} : n[f][x] = mem[f][x]
    BY <1>1, <1>2
  <2> QED BY <1>2, <1>4, <2>1 DEF Touches
<1> QED BY <1>2, <1>4, <1>5 DEF FlagsMade, n

(* What a flag that goes from g to t, so that the flags are w where they   *)
(* were x, owes its count u.                                               *)
FlagTurned(x, w, d, u, g, t) ==
  /\ x \in Int /\ w \in Int /\ d \in Int /\ g \in BOOLEAN /\ t \in BOOLEAN
  /\ u = x + d /\ w = x + (IF g = t THEN 0 ELSE IF t THEN 1 ELSE -1)

Owed(f, w, d, u, g, t) ==
  \E c \in BOOLEAN :
    /\ If(g # t, Put(f, 0, u + (IF t THEN 1 ELSE -1))) = If(c, Put(f, 0, w + d))
    /\ ~c => u = w + d
    /\ u - (w + d) \in {-1, 0, 1}

(* What the log says of a count makes up for the flag that was turned.     *)
LEMMA FlagsOwe ==
  ASSUME NEW f, NEW x, NEW w, NEW d, NEW u, NEW g, NEW t, FlagTurned(x, w, d, u, g, t)
  PROVE  Owed(f, w, d, u, g, t)
<1>0. /\ x \in Int /\ w \in Int /\ d \in Int /\ g \in BOOLEAN /\ t \in BOOLEAN
      /\ u = x + d /\ w = x + (IF g = t THEN 0 ELSE IF t THEN 1 ELSE -1)
  BY DEF FlagTurned
<1>1. CASE g = t
  <2>1. w + d = u /\ u - (w + d) = 0
    BY <1>0, <1>1
  <2>2. If(g # t, Put(f, 0, u + (IF t THEN 1 ELSE -1))) = If(FALSE, Put(f, 0, w + d))
    BY <1>1 DEF If
  <2> QED BY <2>1, <2>2 DEF Owed
<1>2. CASE g # t
  <2>1. w + d = u + (IF t THEN 1 ELSE -1)
    BY <1>0, <1>2
  <2>2. u - (w + d) \in {-1, 0, 1}
    BY <1>0, <1>2
  <2>3. If(g # t, Put(f, 0, u + (IF t THEN 1 ELSE -1))) = If(TRUE, Put(f, 0, w + d))
    BY <1>2, <2>1 DEF If
  <2> QED BY <2>2, <2>3 DEF Owed
<1> QED BY <1>1, <1>2

(* The flags are written and the counts logged: the map stays whole, and   *)
(* the counts are owed.                                                    *)
LEMMA FlagsSetKeep ==
  ASSUME NEW S, NEW G, NEW B, NEW P, NEW U, WholeMap(S, G, B, P, U), op.pc = "flags",
         NEW b \in BOOLEAN, NEW c \in BOOLEAN, b # c,
         mem' = [mem EXCEPT !.dirty[op.addr] = c, !.onlyKey[op.addr] = b],
         NEW l, op' = [op EXCEPT !.pc = "copy", !.n = 0, !.log = l],
         l = If(mem["dirty"][op.addr] # c, Put("dirtyCount", 0, mem["dirtyCount"][0]
                                                 + (IF c THEN 1 ELSE -1)))
             \o If(mem["onlyKey"][op.addr] # b, Put("onlyKeyCount", 0, mem["onlyKeyCount"][0]
                                                      + (IF b THEN 1 ELSE -1))),
         UNCHANGED <<free, crashed, calls>>
  PROVE  WholeMapNow'
<1> DEFINE a == op.addr
           n == [mem EXCEPT !.dirty[a] = c, !.onlyKey[a] = b]
           o == [op EXCEPT !.pc = "copy", !.n = 0, !.log = l]
<1>1. /\ Shape(mem) /\ Flags(mem) /\ Lists(mem, S, G, B) /\ Cursors(mem, S)
      /\ Chains(mem, S, P) /\ Places(mem, P, U, free, op, crashed)
      /\ UniqueKeys(mem, S, op) /\ Counts(mem, S, op, crashed)
      /\ Working(op, S, P, crashed, calls) /\ Range(S) \subseteq Addr
      /\ S \in Seq(Addr) /\ IsInjective(S) /\ IsFiniteSet(Range(S))
  BY PartsOf
<1>2. /\ DOMAIN op = DOMAIN Idle /\ Phase(op) = "flags" /\ ToRelease(op) = <<>> /\ Unlinked(op) = {}
      /\ a \in Range(S) /\ a \in Addr \cup {0} /\ op.chunks = <<>> /\ op.dirty \in BOOLEAN
      /\ op.n \in 0 .. NBlocks + EraseCount /\ crashed \in BOOLEAN /\ calls \in 0 .. MaxCalls
  BY <1>1, AtWork DEF AtRecord
<1> HIDE DEF Phase
<1>3. /\ op.name = "set" /\ op.key \in Keys /\ op.val \in Values \cup {None}
      /\ Len(P[a]) = Needs(op) + 1
  <2>1. Phase(op) \in Making
    BY ONLY <1>2 DEF Making
  <2> QED BY <1>1, <1>2, <2>1 DEF Working
<1>4. FlagsMade(n, a, b, c)
  BY <1>1, <1>2, FlagsMake, ZenonT(30)
<1>5. Becomes(n, free, o, crashed, calls)
  BY DEF Becomes
<1> HIDE DEF n
<1>6. /\ DOMAIN o = DOMAIN Idle /\ o.pc = "copy" /\ o.n = 0 /\ o.log = l
      /\ o.name = op.name /\ o.key = op.key /\ o.val = op.val /\ o.addr = op.addr
      /\ o.chunks = op.chunks /\ o.dirty = op.dirty
  BY <1>2, OperationFields
<1> HIDE DEF o
<1>7. Phase(o) = "copy" /\ ToRelease(o) = <<>> /\ Unlinked(o) = {}
  BY <1>6 DEF Phase, ToRelease, Unlinked
<1>8. SameHands(op, o)
  BY <1>2, <1>6, <1>7 DEF SameHands
<1>9. /\ Shape(n) /\ \A f \in Fields : f \notin {"dirty", "onlyKey"} => n[f] = mem[f]
      /\ \A f \in BlockFields : \A x \in Addr : x \notin {a} => n[f][x] = mem[f][x]
  BY <1>4, Unaltered DEF FlagsMade
<1>10. Lists(n, S, G, B) /\ Cursors(n, S)
  <2>1. Agree(mem, n, ListingFields)
    BY <1>9, ListingFieldNames DEF Agree
  <2> QED BY <1>1, <2>1, ListingKept
<1>11. /\ n["nextChunk"] = mem["nextChunk"] /\ n["len"] = mem["len"] /\ n["key"] = mem["key"]
       /\ n["usedChunk"] = mem["usedChunk"] /\ n["index"] = mem["index"]
       /\ n["dirtyCount"] = mem["dirtyCount"] /\ n["onlyKeyCount"] = mem["onlyKeyCount"]
  <2>1. "index" \in Fields /\ "index" \notin {"dirty", "onlyKey"}
    BY OrderFieldsApart
  <2> QED BY <1>9, <2>1, ListingFieldNames
<1>12. Flags(n)
  BY <1>1, <1>4 DEF Flags, FlagsMade
<1>13. Chains(n, S, P)
  BY <1>1, <1>11, ChainsKept
<1>14. Places(n, P, U, free, o, crashed)
  <2>1. a \in UsedIn(P)
    BY <1>1, <1>2, RecordsAreUsed
  <2>2. \A f \in BlockFields : \A x \in Addr \ UsedIn(P) : n[f][x] = mem[f][x]
    BY <1>9, <2>1
  <2>3. n["usedChunk"][0] = mem["usedChunk"][0]
    BY ONLY <1>11
  <2> QED BY <1>1, <1>8, <2>2, <2>3, PlacesKept
<1>15. UniqueKeys(n, S, o)
  <2>1. \A x \in Range(S), k \in Keys : x \in Range(S) /\ (Is(n, x, k) => Is(mem, x, k))
    BY <1>11 DEF Is, Readable
  <2>2. Phase(op) \in Making /\ Phase(op) \notin {"block", "link"}
    BY <1>2 DEF Making
  <2>3. n["key"][op.addr] = mem["key"][op.addr]
    BY ONLY <1>11
  <2> QED BY <1>1, <1>3, <1>6, <2>1, <2>2, <2>3, UniqueKeysKept
<1>16. Working(o, S, P, crashed, calls)
  <2>1. NBlocks + EraseCount \in Nat
    BY ONLY HashMapAssumption, FS_CardinalityType DEF NBlocks
  <2>2. Needs(o) = Needs(op) /\ Needs(op) \in Nat
    BY ONLY <1>3, <1>6, NeedIs DEF Needs
  <2>3. o.n \in 0 .. Needs(o) /\ o.n \in 0 .. NBlocks + EraseCount
    BY ONLY <1>6, <2>1, <2>2
  <2> QED BY <1>2, <1>3, <1>6, <1>7, <2>2, <2>3 DEF Working, Making, AtRecord
<1>17. Counts(n, S, o, crashed)
  <2> DEFINE x == Cardinality(DirtyRecords(mem, S))
             y == Cardinality(KeyRecords(mem, S))
             z == Cardinality(DirtyRecords(n, S))
             w == Cardinality(KeyRecords(n, S))
             g == mem["dirty"][a]
             h == mem["onlyKey"][a]
             u == mem["dirtyCount"][0]
             v == mem["onlyKeyCount"][0]
  <2>1. mem["dirty"] \in [Addr -> BOOLEAN] /\ mem["onlyKey"] \in [Addr -> BOOLEAN]
    BY <1>1 DEF Flags
  <2>2. z = x + (IF g = c THEN 0 ELSE IF c THEN 1 ELSE -1) /\ x \in Nat
    <3>1. n["dirty"] = [mem["dirty"] EXCEPT ![a] = c]
      BY <1>4 DEF FlagsMade
    <3>2. IsFiniteSet(Range(S)) /\ Range(S) \subseteq Addr /\ a \in Range(S) /\ c \in BOOLEAN
      BY <1>1, <1>2
    <3> HIDE DEF a
    <3> QED BY ONLY <2>1, <3>1, <3>2, Flagged DEF DirtyRecords
  <2>3. w = y + (IF h = b THEN 0 ELSE IF b THEN 1 ELSE -1) /\ y \in Nat
    <3>1. n["onlyKey"] = [mem["onlyKey"] EXCEPT ![a] = b]
      BY <1>4 DEF FlagsMade
    <3>2. IsFiniteSet(Range(S)) /\ Range(S) \subseteq Addr /\ a \in Range(S) /\ b \in BOOLEAN
      BY <1>1, <1>2
    <3> HIDE DEF a
    <3> QED BY ONLY <2>1, <3>1, <3>2, Flagged DEF KeyRecords
  <2>4. g \in BOOLEAN /\ h \in BOOLEAN
    BY <1>1, <1>2, <2>1
  <2>5. u \in -1 .. NBlocks + 1 /\ v \in -1 .. NBlocks + 1
    BY <1>1, CountsInRange
  <2>6. n["dirtyCount"][0] = u /\ n["onlyKeyCount"][0] = v
    BY <1>11
  <2> HIDE DEF x, y
  <2>7. PICK d, e \in {-1, 0, 1} : /\ ~crashed => d = 0 /\ e = 0
                                   /\ u = x + d /\ v = y + e
    BY <1>1, <1>2 DEF Counts, x, y
  <2> HIDE DEF z, w, g, h, u, v
  <2>8. z \in Int /\ w \in Int /\ x \in Int /\ y \in Int /\ d \in Int /\ e \in Int
        /\ b \in BOOLEAN /\ c \in BOOLEAN
    BY <2>2, <2>3
  <2>9. PICK c1 \in BOOLEAN :
          /\ If(g # c, Put("dirtyCount", 0, u + (IF c THEN 1 ELSE -1)))
               = If(c1, Put("dirtyCount", 0, z + d))
          /\ ~c1 => u = z + d
          /\ u - (z + d) \in {-1, 0, 1}
    <3>1. FlagTurned(x, z, d, u, g, c)
      BY <2>2, <2>4, <2>7, <2>8 DEF FlagTurned
    <3>2. Owed("dirtyCount", z, d, u, g, c)
      BY <3>1, FlagsOwe
    <3> QED BY ONLY <3>2 DEF Owed
  <2>10. PICK c2 \in BOOLEAN :
          /\ If(h # b, Put("onlyKeyCount", 0, v + (IF b THEN 1 ELSE -1)))
               = If(c2, Put("onlyKeyCount", 0, w + e))
          /\ ~c2 => v = w + e
          /\ v - (w + e) \in {-1, 0, 1}
    <3>1. FlagTurned(y, w, e, v, h, b)
      BY <2>3, <2>4, <2>7, <2>8 DEF FlagTurned
    <3>2. Owed("onlyKeyCount", w, e, v, h, b)
      BY ONLY <3>1, FlagsOwe
    <3> QED BY ONLY <3>2 DEF Owed
  <2>11. l = If(c1, Put("dirtyCount", 0, z + d)) \o If(c2, Put("onlyKeyCount", 0, w + e))
    <3>1. l = If(g # c, Put("dirtyCount", 0, u + (IF c THEN 1 ELSE -1)))
                \o If(h # b, Put("onlyKeyCount", 0, v + (IF b THEN 1 ELSE -1)))
      BY SMTT(30) DEF g, h, u, v
    <3> QED BY ONLY <2>9, <2>10, <3>1
  <2>12. Logged(n, l, z + d, w + e)
    BY <2>6, <2>9, <2>10, <2>11 DEF Logged
  <2>13. ToCount(n, l, z + d, w + e, crashed)
    BY <2>5, <2>6, <2>9, <2>10, <2>12 DEF ToCount
  <2> QED BY <1>6, <1>7, <2>7, <2>13 DEF Counts, z, w
<1>18. Whole(n, free, o, crashed, calls, S, G, B, P, U)
  BY <1>9, <1>10, <1>12, <1>13, <1>14, <1>15, <1>16, <1>17 DEF Whole
<1> QED BY <1>5, <1>18, NextIsWhole

(* The first step of Block::set keeps the map whole.                       *)
LEMMA FlagsKeep ==
  ASSUME NEW S, NEW G, NEW B, NEW P, NEW U, WholeMap(S, G, B, P, U), flags
  PROVE  WholeMapNow'
<1> DEFINE a == op.addr
           l(c, b) == If(mem["dirty"][a] # c, Put("dirtyCount", 0, mem["dirtyCount"][0]
                                                    + (IF c THEN 1 ELSE -1)))
                      \o If(mem["onlyKey"][a] # b, Put("onlyKeyCount", 0, mem["onlyKeyCount"][0]
                                                         + (IF b THEN 1 ELSE -1)))
<1>1. /\ Flags(mem) /\ a \in Addr
  <2>1. op.pc = "flags"
    BY DEF flags
  <2> QED BY <2>1, PartsOf, AtWork DEF AtRecord
<1>2. mem["dirty"][a] \in BOOLEAN /\ mem["onlyKey"][a] \in BOOLEAN
  BY <1>1 DEF Flags
<1>3. CASE op.val = None
  <2>1. /\ op.pc = "flags" /\ mem' = [mem EXCEPT !.dirty[a] = FALSE, !.onlyKey[a] = TRUE]
        /\ op' = [op EXCEPT !.pc = "copy", !.n = 0, !.log = l(FALSE, TRUE)]
        /\ UNCHANGED <<free, crashed, calls>>
    BY <1>2, <1>3 DEF flags, Add, If
  <2> QED BY <2>1, FlagsSetKeep
<1>4. CASE op.val # None
  <2>1. /\ op.pc = "flags" /\ mem' = [mem EXCEPT !.dirty[a] = TRUE, !.onlyKey[a] = FALSE]
        /\ op' = [op EXCEPT !.pc = "copy", !.n = 0, !.log = l(TRUE, FALSE)]
        /\ UNCHANGED <<free, crashed, calls>>
    BY <1>2, <1>4 DEF flags, Add, If
  <2> QED BY <2>1, FlagsSetKeep
<1> QED BY <1>3, <1>4

(* A step that changes the key of no record but the one of the operation.  *)
LEMMA KeyOfOneRecord ==
  ASSUME NEW m, NEW n, NEW S, NEW o, NEW o2, UniqueKeys(m, S, o),
         Phase(o) \in Making \ {"block", "link"}, o2.key = o.key, o2.addr = o.addr, o.key \in Keys,
         \A b \in Range(S), k \in Keys : b # o.addr /\ Is(n, b, k) => Is(m, b, k),
         n["key"][o.addr] \in {None, o.key}
  PROVE  UniqueKeys(n, S, o2)
<1> HIDE DEF Phase
<1>1. Phase(o) \in Making
  OBVIOUS
<1>2. \A k \in Keys : Is(n, o.addr, k) => k = o.key
  BY HashMapAssumption DEF Is
<1>3. \A b \in Range(S) : Is(m, b, o.key) => b = o.addr
  BY <1>1 DEF UniqueKeys
<1>4. \A b \in Range(S) : Is(n, b, o.key) => b = o.addr
  BY <1>3
<1>5. ASSUME NEW k \in Keys, NEW b \in Range(S), NEW d \in Range(S), Is(n, b, k), Is(n, d, k)
      PROVE  b = d
  <2>1. CASE k = o.key
    BY <1>4, <1>5, <2>1
  <2>2. CASE k # o.key
    <3>1. b # o.addr /\ d # o.addr
      BY <1>2, <1>5, <2>2
    <3>2. Is(m, b, k) /\ Is(m, d, k)
      BY <1>5, <3>1
    <3> QED BY <1>5, <3>2 DEF UniqueKeys
  <2> QED BY <2>1, <2>2
<1> QED BY <1>4, <1>5 DEF UniqueKeys

(* The part of the record that is being written.                           *)
Part == (<<op.addr>> \o Chain(op.addr))[op.n + 1]

(* The part that is copied next is one of the record's.                    *)
LEMMA PartIsUsed ==
  ASSUME NEW S, NEW G, NEW B, NEW P, NEW U, WholeMap(S, G, B, P, U), op.pc = "copy"
  PROVE  /\ op.addr \in Range(S) /\ Part \in Addr /\ Part \in Range(P[op.addr])
         /\ Part \in UsedIn(P) /\ op.n \in 0 .. Needs(op) /\ Needs(op) \in Nat
         /\ Needs(op) + 1 = Len(P[op.addr]) /\ Len(P[op.addr]) <= NBlocks
         /\ op.name = "set" /\ op.key \in Keys /\ op.val \in Values \cup {None}
<1> DEFINE a == op.addr
           s == P[a]
<1>1. /\ Chains(mem, S, P) /\ Working(op, S, P, crashed, calls) /\ Range(S) \subseteq Addr
  BY PartsOf
<1>2. Phase(op) = "copy" /\ a \in Range(S)
  BY <1>1, AtWork DEF AtRecord
<1>3. /\ op.name = "set" /\ op.key \in Keys /\ op.val \in Values \cup {None}
      /\ Len(s) = Needs(op) + 1 /\ op.n \in 0 .. Needs(op)
  <2> HIDE DEF Phase
  <2>1. Phase(op) \in Making
    BY <1>2 DEF Making
  <2> QED BY <1>1, <1>2, <2>1 DEF Working
<1>4. Needs(op) \in Nat
  BY <1>3, NeedIs
<1>5. PartsAre(a, s)
  BY <1>1, <1>2, ChainFound
<1>6. s \in Seq(Addr) /\ IsInjective(s) /\ Range(s) \subseteq UsedIn(P)
  BY <1>1, <1>2, RecordsAreUsed DEF Chains
<1>7. Len(s) \in 0 .. NBlocks /\ NBlocks \in Nat
  <2>1. NBlocks \in Nat
    BY HashMapAssumption, FS_CardinalityType DEF NBlocks
  <2> HIDE DEF s
  <2> QED BY <1>6, <2>1, AsLongAsMany
<1>8. Part = s[op.n + 1]
  BY <1>5 DEF Part, PartsAre
<1>9. op.n + 1 \in 1 .. Len(s)
  <2> DEFINE l == Len(s)
             d == Needs(op)
             i == op.n
  <2>1. l = d + 1 /\ d \in Nat /\ i \in 0 .. d
    BY <1>3, <1>4
  <2> HIDE DEF l, d, i
  <2>2. i + 1 \in 1 .. l
    BY <2>1
  <2> QED BY <2>2 DEF l, i
<1>10. Part \in Range(s) /\ Part \in Addr
  <2> HIDE DEF s
  <2> QED BY <1>6, <1>8, <1>9 DEF Range
<1>11. Len(s) <= NBlocks
  BY <1>7
<1> QED BY <1>1, <1>2, <1>3, <1>4, <1>6, <1>10, <1>11

(* The three stores of a step of the copy.                                 *)
CopyMade(n, b, v, k, l) ==
  /\ Touches(mem, n, DataFields, {b})
  /\ \A x \in Addr : n["key"][x] = IF x = b THEN k ELSE mem["key"][x]
  /\ n["nextChunk"] = mem["nextChunk"] /\ n["usedChunk"] = mem["usedChunk"]
  /\ n["index"] = mem["index"]

(* A part of the data is copied.                                           *)
LEMMA CopyMakes ==
  ASSUME Shape(mem), NEW b \in Addr, NEW v, NEW k, NEW l
  PROVE  CopyMade([mem EXCEPT !.val[b] = v, !.key[b] = k, !.len[b] = l], b, v, k, l)
<1> DEFINE n == [mem EXCEPT !.val[b] = v, !.key[b] = k, !.len[b] = l]
<1>1. /\ \A f \in {"val", "key", "len"} : f \in DOMAIN mem /\ DOMAIN mem[f] = Addr
      /\ DOMAIN mem = Fields
  BY FieldNames DEF Shape, Fields
<1>2. /\ DOMAIN n = Fields
      /\ \A f \in Fields \ {"val", "key", "len"} : n[f] = mem[f]
      /\ n["val"] = [mem["val"] EXCEPT ![b] = v]
      /\ n["key"] = [mem["key"] EXCEPT ![b] = k]
      /\ n["len"] = [mem["len"] EXCEPT ![b] = l]
  BY <1>1
<1> HIDE DEF n
<1>3. \A f \in Fields : DOMAIN n[f] = DOMAIN mem[f]
  BY <1>1, <1>2
<1>4. Shape(n)
  BY <1>2, <1>3 DEF Shape, Fields
<1>5. \A f \in {"val", "key", "len"} : \A x \in Addr \ {b} : n[f][x] = mem[f][x]
  BY <1>1, <1>2
<1>6. Touches(mem, n, DataFields, {b})
  <2>1. \A f \in Fields \ DataFields : n[f] = mem[f]
    BY <1>2 DEF DataFields
  <2>2. \A f \in DataFields \cap BlockFields : \A x \in Addr \ {b} : n[f][x] = mem[f][x]
    <3>1. \A f \in DataFields \cap BlockFields : f \in {"val", "key", "len"} \/
            f \in Fields \ {"val", "key", "len"}
      BY DataFieldNames
    <3> QED BY <1>2, <1>5, <3>1
  <2> QED BY <1>4, <2>1, <2>2 DEF Touches
<1>7. \A x \in Addr : n["key"][x] = IF x = b THEN k ELSE mem["key"][x]
  BY <1>1, <1>2
<1>8. n["nextChunk"] = mem["nextChunk"] /\ n["usedChunk"] = mem["usedChunk"]
      /\ n["index"] = mem["index"]
  BY <1>2, ListingFieldNames, OrderFieldsApart
<1> QED BY <1>6, <1>7, <1>8 DEF CopyMade, n

(* The copying of data keeps the map whole: the key that appears is that   *)
(* of the operation, which no other record has.                            *)
LEMMA CopyKeeps ==
  ASSUME NEW S, NEW G, NEW B, NEW P, NEW U, WholeMap(S, G, B, P, U), copy
  PROVE  WholeMapNow'
<1> DEFINE a == op.addr
           b == Part
           k == IF op.n = 0 THEN op.key ELSE mem["key"][b]
           to == IF op.n = Need THEN "count" ELSE "copy"
           l == IF op.n = Need THEN "set" ELSE mem["len"][b]
           o == [op EXCEPT !.n = @ + 1, !.pc = to]
           n == [mem EXCEPT !.val[b] = op.val, !.key[b] = k, !.len[b] = l]
<1>1. /\ Shape(mem) /\ Chains(mem, S, P) /\ Places(mem, P, U, free, op, crashed)
      /\ UniqueKeys(mem, S, op) /\ Counts(mem, S, op, crashed)
      /\ Working(op, S, P, crashed, calls) /\ Range(S) \subseteq Addr
  BY PartsOf
<1>2. op.pc = "copy" /\ op' = o /\ free' = free /\ crashed' = crashed /\ calls' = calls
  BY DEF copy
<1>3. /\ a \in Range(S) /\ b \in Addr /\ b \in Range(P[a])
      /\ b \in UsedIn(P) /\ op.n \in 0 .. Needs(op) /\ Needs(op) \in Nat
      /\ Needs(op) + 1 = Len(P[a]) /\ Len(P[a]) <= NBlocks
      /\ op.name = "set" /\ op.key \in Keys /\ op.val \in Values \cup {None}
  BY <1>2, PartIsUsed
<1> HIDE DEF Part
<1>4. mem' = n
  <2>1. "val" \in DOMAIN mem /\ "key" \in DOMAIN mem /\ "len" \in DOMAIN mem
    BY <1>1, FieldNames DEF Shape
  <2>2. b \in DOMAIN mem["val"] /\ b \in DOMAIN mem["key"] /\ b \in DOMAIN mem["len"]
    BY <1>1, <1>3, ShapeOf, FieldNames
  <2> QED BY <2>1, <2>2 DEF copy, Part
<1>5. CopyMade(n, b, op.val, k, l)
  <2> HIDE DEF k, l, b, o, to
  <2> QED BY ONLY <1>1, <1>3, CopyMakes DEF n
<1> HIDE DEF n, l
<1>6. /\ DOMAIN op = DOMAIN Idle /\ Phase(op) = "copy" /\ ToRelease(op) = <<>> /\ Unlinked(op) = {}
      /\ a \in Addr \cup {0} /\ op.chunks = <<>> /\ op.dirty \in BOOLEAN
      /\ crashed \in BOOLEAN /\ calls \in 0 .. MaxCalls
  BY <1>1, <1>2, AtWork
<1> HIDE DEF Phase
<1>7. to \in {"count", "copy"} /\ (to = "copy" => op.n # Needs(op))
  BY DEF Need, Needs
<1> HIDE DEF to
<1>8. /\ DOMAIN o = DOMAIN Idle /\ o.pc = to /\ o.n = op.n + 1 /\ o.log = op.log
      /\ o.name = op.name /\ o.key = op.key /\ o.val = op.val /\ o.addr = op.addr
      /\ o.chunks = op.chunks /\ o.dirty = op.dirty
  BY <1>6, OperationFields
<1> HIDE DEF o
<1>9. Phase(o) = to /\ ToRelease(o) = <<>> /\ Unlinked(o) = {}
  BY <1>7, <1>8 DEF Phase, ToRelease, Unlinked
<1>10. /\ Touches(mem, n, DataFields, {b})
       /\ \A x \in Addr : n["key"][x] = IF x = b THEN k ELSE mem["key"][x]
       /\ n["nextChunk"] = mem["nextChunk"] /\ n["usedChunk"] = mem["usedChunk"]
       /\ n["index"] = mem["index"]
  BY <1>5 DEF CopyMade
<1>11. \A f \in BlockFields : \A x \in Addr : x \notin {b} => n[f][x] = mem[f][x]
  BY <1>10, Unaltered
<1>12. Chains(n, S, P)
  BY <1>1, <1>10, ChainsKept
<1>13. Places(n, P, U, free, o, crashed)
  <2>1. SameHands(op, o)
    BY <1>6, <1>8, <1>9 DEF SameHands
  <2>2. \A f \in BlockFields : \A x \in Addr \ UsedIn(P) : n[f][x] = mem[f][x]
    BY <1>3, <1>11
  <2>3. n["usedChunk"][0] = mem["usedChunk"][0]
    BY <1>10
  <2> QED BY <1>1, <2>1, <2>2, <2>3, PlacesKept
<1>14. UniqueKeys(n, S, o)
  <2>1. ASSUME NEW x \in Range(S), NEW c \in Keys, x # a, Is(n, x, c) PROVE Is(mem, x, c)
    <3>1. x \in Addr /\ x # b
      <4>1. x \in Range(P[x])
        BY <1>1 DEF Chains, Range
      <4>2. x \notin Range(P[a])
        BY <1>1, <1>3, <2>1, <4>1 DEF Chains
      <4> QED BY <1>1, <1>3, <4>2
    <3>2. n["len"][x] = mem["len"][x] /\ n["key"][x] = mem["key"][x]
      BY <1>10, <1>11, <3>1, ListingFieldNames
    <3> QED BY <1>10, <2>1, <3>2 DEF Is, Readable
  <2>2. Phase(op) \in Making \ {"block", "link"}
    BY <1>6 DEF Making
  <2>3. n["key"][a] \in {None, op.key}
    <3>1. mem["key"][a] \in {None, op.key}
      BY <1>1, <2>2 DEF UniqueKeys
    <3>2. a \in Addr
      BY <1>1, <1>3
    <3> QED BY <1>10, <3>1, <3>2
  <2> QED BY <1>1, <1>3, <1>8, <2>1, <2>2, <2>3, KeyOfOneRecord
<1>15. Working(o, S, P, crashed, calls)
  <2>1. NBlocks \in Nat /\ EraseCount \in Nat
    BY HashMapAssumption, FS_CardinalityType DEF NBlocks
  <2>2. Needs(o) = Needs(op)
    BY <1>8 DEF Needs
  <2>3. (to = "copy" => o.n \in 0 .. Needs(o)) /\ o.n \in 0 .. NBlocks + EraseCount
    <3> DEFINE d == Needs(op)
               d2 == Needs(o)
               i == op.n
               i2 == o.n
               j == Len(P[a])
               e == EraseCount
               z == NBlocks
    <3>1. /\ i2 = i + 1 /\ d2 = d /\ d \in Nat /\ i \in 0 .. d /\ j = d + 1 /\ j <= z
          /\ z \in Nat /\ e \in Nat /\ (to = "copy" => i # d)
      BY <1>3, <1>7, <1>8, <2>1, <2>2
    <3> HIDE DEF d, d2, i, i2, j, e, z
    <3>2. (to = "copy" => i2 \in 0 .. d2) /\ i2 \in 0 .. z + e
      BY <3>1
    <3> QED BY <3>2 DEF d2, i2, e, z
  <2>4. Len(P[o.addr]) = Needs(o) + 1
    BY <1>3, <1>8, <2>2
  <2> QED BY <1>3, <1>6, <1>7, <1>8, <1>9, <2>3, <2>4 DEF Working, Making, AtRecord
<1>16. Counts(n, S, o, crashed)
  <2>1. Phase(op) \in {"copy", "count"} /\ Phase(o) \in {"copy", "count"} /\ o.log = op.log
    BY <1>6, <1>7, <1>8, <1>9
  <2> QED BY <1>1, <1>10, <2>1, DataCounts
<1>17. Becomes(n, free, o, crashed, calls)
  BY <1>2, <1>4 DEF Becomes
<1> QED BY <1>10, <1>12, <1>13, <1>14, <1>15, <1>16, <1>17, DataStep

-----------------------------------------------------------------------------
(***************************************************************************)
(* The counts, and the death of a process.                                 *)
(***************************************************************************)

(* The counts that are in the log are committed.                           *)
CountsSet(n, l, x, y) ==
  /\ Makes(l, mem, n) /\ Touches(mem, n, {"dirtyCount", "onlyKeyCount"}, {})
  /\ n["dirtyCount"][0] = x /\ n["onlyKeyCount"][0] = y

(* The logged counts are stored.                                           *)
LEMMA LoggedMakes ==
  ASSUME Shape(mem), NEW l, NEW x, NEW y, Logged(mem, l, x, y)
  PROVE  \E n : CountsSet(n, l, x, y)
<1> DEFINE F == {"dirtyCount", "onlyKeyCount"}
<1>1. PICK c1, c2 \in BOOLEAN :
        /\ l = If(c1, Put("dirtyCount", 0, x)) \o If(c2, Put("onlyKeyCount", 0, y))
        /\ ~c1 => mem["dirtyCount"][0] = x
        /\ ~c2 => mem["onlyKeyCount"][0] = y
  BY DEF Logged
<1>2. /\ "dirtyCount" \in Fields /\ "onlyKeyCount" \in Fields
      /\ "dirtyCount" \notin BlockFields /\ "onlyKeyCount" \notin BlockFields
      /\ "dirtyCount" \in F /\ "onlyKeyCount" \in F
      /\ DOMAIN mem["dirtyCount"] = {0} /\ DOMAIN mem["onlyKeyCount"] = {0}
  BY MoreFields DEF CountFields
<1> HIDE DEF F
<1> DEFINE l1 == If(c1, Put("dirtyCount", 0, x))
<1>3. PICK n1 : FirstMade(n1, mem, c1, "dirtyCount", 0, x, F, {})
  <2>1. FirstReady(mem, c1, "dirtyCount", 0, x, F, {})
    BY <1>2 DEF FirstReady
  <2> QED BY <2>1, FirstIf
<1>4. /\ Makes(l1, mem, n1) /\ Shape(n1) /\ Touches(mem, n1, F, {})
      /\ \A g \in Fields : g # "dirtyCount" => n1[g] = mem[g]
      /\ n1["dirtyCount"] = IF c1 THEN [mem["dirtyCount"] EXCEPT ![0] = x] ELSE mem["dirtyCount"]
  BY <1>3 DEF FirstMade
<1>5. n1["onlyKeyCount"] = mem["onlyKeyCount"] /\ n1["dirtyCount"][0] = x
  BY <1>1, <1>2, <1>4
<1> HIDE DEF l1
<1>6. PICK n : IfMade(n, l1, mem, mem, n1, c2, "onlyKeyCount", 0, y, F, {})
  <2>1. IfReady(l1, mem, mem, n1, c2, "onlyKeyCount", 0, y, F, {})
    BY <1>2, <1>4, <1>5 DEF IfReady
  <2> QED BY <2>1, AnyIf
<1>7. /\ Makes(l1 \o If(c2, Put("onlyKeyCount", 0, y)), mem, n) /\ Touches(mem, n, F, {})
      /\ \A g \in Fields : g # "onlyKeyCount" => n[g] = n1[g]
      /\ n["onlyKeyCount"] = IF c2 THEN [n1["onlyKeyCount"] EXCEPT ![0] = y] ELSE n1["onlyKeyCount"]
  BY <1>6 DEF IfMade
<1>8. n["dirtyCount"][0] = x /\ n["onlyKeyCount"][0] = y
  BY <1>1, <1>2, <1>5, <1>7
<1> QED BY <1>1, <1>7, <1>8 DEF CountsSet, l1, F

(* The commit of the counts keeps the map whole.                           *)
LEMMA CountKeeps ==
  ASSUME NEW S, NEW G, NEW B, NEW P, NEW U, WholeMap(S, G, B, P, U), count
  PROVE  WholeMapNow'
<1> DEFINE to == IF op.val = None THEN "setList" ELSE "dirty"
           o == [op EXCEPT !.pc = to]
<1>1. /\ Shape(mem) /\ Flags(mem) /\ Lists(mem, S, G, B) /\ Cursors(mem, S)
      /\ Chains(mem, S, P) /\ Places(mem, P, U, free, op, crashed)
      /\ UniqueKeys(mem, S, op) /\ Counts(mem, S, op, crashed)
      /\ Working(op, S, P, crashed, calls)
  BY PartsOf
<1>2. /\ op.pc = "count" /\ Commit(op.log) /\ op' = o
      /\ free' = free /\ crashed' = crashed /\ calls' = calls
  BY DEF count, Become
<1>3. /\ DOMAIN op = DOMAIN Idle /\ Phase(op) = "count" /\ ToRelease(op) = <<>>
      /\ Unlinked(op) = {} /\ op.chunks = <<>> /\ op.addr \in Range(S)
      /\ op.addr \in Addr \cup {0} /\ op.n \in 0 .. NBlocks + EraseCount /\ op.dirty \in BOOLEAN
      /\ crashed \in BOOLEAN /\ calls \in 0 .. MaxCalls
  BY <1>1, <1>2, AtWork DEF AtRecord
<1>4. to \in {"setList", "dirty"}
  OBVIOUS
<1> HIDE DEF to
<1>5. Calm(o, S) /\ o.pc = to
  BY <1>3, <1>4, OperationFields DEF Calm
<1> HIDE DEF o
<1>6. /\ Working(o, S, P, crashed, calls) /\ Phase(o) = to
      /\ o.chunks = <<>> /\ ToRelease(o) = <<>> /\ Unlinked(o) = {}
  BY <1>3, <1>5, CalmWorks
<1> HIDE DEF Phase
<1>7. SameHands(op, o) /\ Phase(o) \notin Making /\ Phase(o) \notin {"copy", "count"}
  BY <1>3, <1>4, <1>6 DEF SameHands, Making
<1> DEFINE X == Cardinality(DirtyRecords(mem, S))
           Y == Cardinality(KeyRecords(mem, S))
<1>8. PICK d, e \in {-1, 0, 1} :
        (~crashed => d = 0 /\ e = 0) /\ ToCount(mem, op.log, X + d, Y + e, crashed)
  BY <1>1, <1>3 DEF Counts
<1> HIDE DEF X, Y
<1>9. PICK n : CountsSet(n, op.log, X + d, Y + e)
  BY <1>1, <1>8, LoggedMakes DEF ToCount
<1>10. mem' = n
  BY <1>2, <1>9, CommitMakes DEF CountsSet
<1>11. /\ Shape(n) /\ \A f \in Fields : f \notin {"dirtyCount", "onlyKeyCount"} => n[f] = mem[f]
       /\ \A f \in BlockFields : \A c \in Addr : c \notin {} => n[f][c] = mem[f][c]
       /\ n["dirtyCount"][0] = X + d /\ n["onlyKeyCount"][0] = Y + e
  BY <1>9, Unaltered DEF CountsSet
<1>12. Lists(n, S, G, B) /\ Cursors(n, S)
  <2>1. Agree(mem, n, ListingFields)
    BY <1>11, ListingFieldNames DEF Agree
  <2> QED BY <1>1, <2>1, ListingKept
<1>13. /\ n["dirty"] = mem["dirty"] /\ n["onlyKey"] = mem["onlyKey"]
       /\ n["nextChunk"] = mem["nextChunk"] /\ n["len"] = mem["len"] /\ n["key"] = mem["key"]
       /\ n["usedChunk"] = mem["usedChunk"] /\ n["index"] = mem["index"]
  <2>1. "index" \in Fields /\ "index" \notin {"dirtyCount", "onlyKeyCount"}
    BY OrderFieldsApart
  <2> QED BY <1>11, <2>1, ListingFieldNames
<1>14. Flags(n)
  BY <1>1, <1>13 DEF Flags
<1>15. Chains(n, S, P)
  BY <1>1, <1>13, ChainsKept
<1>16. Places(n, P, U, free, o, crashed)
  <2>1. \A f \in BlockFields : \A c \in Addr \ UsedIn(P) : n[f][c] = mem[f][c]
    BY <1>11
  <2>2. n["usedChunk"][0] = mem["usedChunk"][0]
    BY <1>13
  <2> QED BY <1>1, <1>7, <2>1, <2>2, PlacesKept
<1>17. UniqueKeys(n, S, o)
  <2>1. \A c \in Range(S), k \in Keys : c \in Range(S) /\ (Is(n, c, k) => Is(mem, c, k))
    BY <1>13 DEF Is, Readable
  <2> QED BY <1>1, <1>7, <2>1, UniqueKeysKept
<1>18. Counts(n, S, o, crashed)
  <2>1. Cardinality(DirtyRecords(n, S)) = X /\ Cardinality(KeyRecords(n, S)) = Y
    BY <1>13 DEF DirtyRecords, KeyRecords, X, Y
  <2> QED BY <1>7, <1>8, <1>11, <2>1 DEF Counts
<1>19. Whole(n, free, o, crashed, calls, S, G, B, P, U)
  BY <1>6, <1>11, <1>12, <1>14, <1>15, <1>16, <1>17, <1>18 DEF Whole
<1>20. Becomes(n, free, o, crashed, calls)
  BY <1>2, <1>10 DEF Becomes
<1> QED BY <1>19, <1>20, NextIsWhole

-----------------------------------------------------------------------------
(* A process that dies leaves the counts off by at most one.               *)
LEMMA CrashCounts ==
  ASSUME NEW m, NEW n, NEW S, Counts(m, S, op, FALSE),
         n["dirty"] = m["dirty"], n["onlyKey"] = m["onlyKey"],
         n["dirtyCount"] = m["dirtyCount"], n["onlyKeyCount"] = m["onlyKeyCount"],
         IsFiniteSet(Range(S))
  PROVE  Counts(n, S, Idle, TRUE)
<1> DEFINE X == Cardinality(DirtyRecords(m, S))
           Y == Cardinality(KeyRecords(m, S))
           X2 == Cardinality(DirtyRecords(n, S))
           Y2 == Cardinality(KeyRecords(n, S))
           u == m["dirtyCount"][0]
           v == m["onlyKeyCount"][0]
<1>1. X2 = X /\ Y2 = Y
  BY DEF DirtyRecords, KeyRecords
<1>2. X \in Nat /\ Y \in Nat
  BY FS_Subset, FS_CardinalityType DEF DirtyRecords, KeyRecords
<1>3. n["dirtyCount"][0] = u /\ n["onlyKeyCount"][0] = v
  OBVIOUS
<1> HIDE DEF Phase, X2, Y2
<1>4. PICK d, e \in {-1, 0, 1} : u = X + d /\ v = Y + e
  <2>1. CASE Phase(op) \notin {"copy", "count"}
    BY <2>1 DEF Counts
  <2>2. CASE Phase(op) \in {"copy", "count"}
    <3>1. ToCount(m, op.log, X, Y, FALSE)
      <4>1. PICK d, e \in {-1, 0, 1} : d = 0 /\ e = 0 /\ ToCount(m, op.log, X + d, Y + e, FALSE)
        BY <2>2 DEF Counts
      <4>2. X + d = X /\ Y + e = Y
        BY <1>2, <4>1
      <4> QED BY <4>1, <4>2
    <3>2. /\ u \in -1 .. NBlocks + 1 /\ v \in -1 .. NBlocks + 1
          /\ u - X \in {-1, 0, 1} /\ v - Y \in {-1, 0, 1}
      BY <3>1 DEF ToCount
    <3>3. NBlocks \in Nat
      BY HashMapAssumption, FS_CardinalityType DEF NBlocks
    <3> HIDE DEF u, v, X, Y
    <3>4. u = X + (u - X) /\ v = Y + (v - Y)
      BY <1>2, <3>2, <3>3
    <3> QED BY <3>2, <3>4
  <2> QED BY <2>1, <2>2
<1> HIDE DEF X, Y, u, v
<1>5. Phase(Idle) \notin {"copy", "count"}
  BY IdleHands
<1>6. n["dirtyCount"][0] = X2 + d /\ n["onlyKeyCount"][0] = Y2 + e
  BY <1>1, <1>3, <1>4
<1> QED BY <1>4, <1>5, <1>6 DEF Counts, X2, Y2

(* The death of a process keeps the map whole: the blocks it had in hand   *)
(* are lost, and the counts may be off by one.                             *)
LEMMA CrashKeeps ==
  ASSUME NEW S, NEW G, NEW B, NEW P, NEW U, WholeMap(S, G, B, P, U), Crash
  PROVE  WholeMapNow'
<1>1. /\ Shape(mem) /\ Chains(mem, S, P) /\ Places(mem, P, U, free, op, crashed)
      /\ UniqueKeys(mem, S, op) /\ Counts(mem, S, op, crashed)
      /\ calls \in 0 .. MaxCalls /\ IsFiniteSet(Range(S))
  BY PartsOf
<1>2. crashed = FALSE /\ crashed' = TRUE /\ op' = Idle /\ free' = free /\ calls' = calls
  <2>1. crashed \in BOOLEAN
    BY PartsOf
  <2> QED BY <2>1 DEF Crash
<1>3. PICK n : /\ mem' = n /\ Touches(mem, n, DataFields, UsedIn(P))
               /\ \A f \in Fields : f # "val" => n[f] = mem[f]
  <2>1. CASE mem' = mem
    BY <1>1, <2>1, TouchesNothing
  <2>2. ASSUME op.pc = "copy", NEW v, mem' = [mem EXCEPT !.val[Part] = v]
        PROVE  /\ Touches(mem, mem', DataFields, UsedIn(P))
               /\ \A f \in Fields : f # "val" => mem'[f] = mem[f]
    <3> DEFINE n == [mem EXCEPT !.val[Part] = v]
    <3>1. Part \in Addr /\ Part \in UsedIn(P)
      BY <2>2, PartIsUsed
    <3> HIDE DEF Part
    <3>2. "val" \in DOMAIN mem /\ DOMAIN mem["val"] = Addr /\ DOMAIN mem = Fields
      BY <1>1, FieldNames DEF Shape, Fields
    <3>3. /\ DOMAIN n = Fields /\ \A f \in Fields \ {"val"} : n[f] = mem[f]
          /\ n["val"] = [mem["val"] EXCEPT ![Part] = v]
      BY <3>2
    <3> HIDE DEF n
    <3>4. \A f \in Fields : DOMAIN n[f] = DOMAIN mem[f]
      BY <3>2, <3>3
    <3>5. Shape(n)
      BY <1>1, <3>3, <3>4 DEF Shape, Fields
    <3>6. \A x \in Addr \ UsedIn(P) : n["val"][x] = mem["val"][x]
      BY <3>1, <3>2, <3>3
    <3>7. Touches(mem, n, DataFields, UsedIn(P))
      <4>1. \A f \in Fields \ DataFields : n[f] = mem[f]
        BY <3>3 DEF DataFields
      <4>2. \A f \in DataFields \cap BlockFields : \A x \in Addr \ UsedIn(P) : n[f][x] = mem[f][x]
        BY <3>3, <3>6, DataFieldNames
      <4> QED BY <3>5, <4>1, <4>2 DEF Touches
    <3> QED BY <2>2, <3>3, <3>7 DEF n
  <2>3. \/ mem' = mem
        \/ op.pc = "copy" /\ \E v : mem' = [mem EXCEPT !.val[Part] = v]
    BY DEF Crash, Part
  <2> QED BY <2>1, <2>2, <2>3
<1>4. /\ n["nextChunk"] = mem["nextChunk"] /\ n["len"] = mem["len"] /\ n["key"] = mem["key"]
      /\ n["usedChunk"] = mem["usedChunk"] /\ n["index"] = mem["index"]
      /\ n["dirty"] = mem["dirty"] /\ n["onlyKey"] = mem["onlyKey"]
      /\ n["dirtyCount"] = mem["dirtyCount"] /\ n["onlyKeyCount"] = mem["onlyKeyCount"]
  BY <1>3, ListingFieldNames, OrderFieldsApart
<1>5. /\ Working(Idle, S, P, TRUE, calls) /\ Phase(Idle) = "idle"
      /\ Idle.chunks = <<>> /\ ToRelease(Idle) = <<>> /\ Unlinked(Idle) = {}
  <2>1. PICK w : w = TRUE
    OBVIOUS
  <2>2. w \in BOOLEAN /\ calls \in 0 .. MaxCalls
    BY <1>1, <2>1
  <2>3. Working(Idle, S, P, w, calls)
    BY ONLY <2>2, IdleWorks
  <2> QED BY ONLY <2>1, <2>3, IdleHands
<1> HIDE DEF Phase, Idle
<1>6. Chains(n, S, P)
  BY <1>1, <1>4, ChainsKept
<1>7. Places(n, P, U, free, Idle, TRUE)
  <2>1. /\ free \subseteq Addr /\ free \cap UsedIn(P) = {} /\ U \subseteq Addr
        /\ \A b \in free : Blank(mem, b)
        /\ U \cap (free \cup UsedIn(P)) = {}
        /\ mem["usedChunk"][0] = Cardinality(Addr \ (free \cup U))
    BY <1>1 DEF Places
  <2>2. \A f \in BlockFields : \A b \in Addr : b \notin UsedIn(P) => n[f][b] = mem[f][b]
    BY <1>3, Unaltered
  <2>3. \A b \in free : Blank(n, b)
    BY <2>1, <2>2 DEF Blank
  <2>4. n["usedChunk"][0] = Cardinality(Addr \ (free \cup U))
    BY <1>4, <2>1
  <2> QED BY <1>5, <2>1, <2>3, <2>4, EmptyQueue DEF Places
<1>8. UniqueKeys(n, S, Idle)
  <2>1. \A c \in Range(S), k \in Keys : c \in Range(S) /\ (Is(n, c, k) => Is(mem, c, k))
    BY <1>4 DEF Is, Readable
  <2>2. Phase(Idle) \notin Making
    BY <1>5 DEF Making
  <2> QED BY <1>1, <2>1, <2>2, UniqueKeysKept
<1>9. Counts(n, S, Idle, TRUE)
  BY <1>1, <1>2, <1>4, CrashCounts
<1>10. Becomes(n, free, Idle, TRUE, calls)
  BY <1>2, <1>3 DEF Becomes
<1> QED BY <1>3, <1>5, <1>6, <1>7, <1>8, <1>9, <1>10, DataStep

-----------------------------------------------------------------------------
(***************************************************************************)
(* Records that come and go.                                               *)
(***************************************************************************)

(* A block that nobody has used has no key and no chunk.                   *)
LEMMA BlankBlock ==
  ASSUME NEW m, NEW a, Blank(m, a)
  PROVE  /\ m["nextChunk"][a] = 0 /\ m["len"][a] = "none" /\ m["key"][a] = None
         /\ m["onlyKey"][a] = FALSE /\ m["dirty"][a] = FALSE
BY FieldNames DEF Blank, ZeroBlock

(* A new record has one part, its block.                                   *)
WithBlock(P, a) == [b \in DOMAIN P \cup {a} |-> IF b = a THEN <<a>> ELSE P[b]]

(* A new record has one part, its own block.                               *)
LEMMA ChainsWithBlock ==
  ASSUME NEW m, NEW n, NEW S, NEW S2, NEW P, Chains(m, S, P), NEW a \in Addr, a \notin UsedIn(P),
         Range(S2) = Range(S) \cup {a}, n["nextChunk"] = m["nextChunk"], m["nextChunk"][a] = 0
  PROVE  Chains(n, S2, WithBlock(P, a)) /\ UsedIn(WithBlock(P, a)) = UsedIn(P) \cup {a}
<1> DEFINE Q == WithBlock(P, a)
<1>1. a \notin Range(S) /\ DOMAIN P = Range(S)
  BY RecordsAreUsed DEF Chains
<1>2. /\ DOMAIN Q = Range(S) \cup {a} /\ Q[a] = <<a>> /\ \A b \in Range(S) : Q[b] = P[b]
  BY <1>1 DEF WithBlock
<1> HIDE DEF Q
<1>3. \A b \in Range(S) : Range(P[b]) \subseteq UsedIn(P)
  BY RecordsAreUsed
<1> DEFINE t == <<a>>
<1>4. t \in Seq(Addr) /\ t # <<>> /\ t[1] = a /\ Len(t) = 1 /\ DOMAIN t = 1 .. 1
  OBVIOUS
<1> HIDE DEF t
<1>5. IsInjective(t) /\ Range(t) = {a} /\ Strung(t, n["nextChunk"])
  <2>1. \A i \in 1 .. 1 : i = 1
    OBVIOUS
  <2> QED BY <1>4, <2>1 DEF IsInjective, Range, Strung
<1>6. UsedIn(Q) = UsedIn(P) \cup {a}
  <2>1. Q[a] = t
    BY <1>2 DEF t
  <2> QED BY <1>1, <1>2, <1>5, <2>1 DEF UsedIn
<1>7. ASSUME NEW b \in Range(S2)
      PROVE  /\ Q[b] \in Seq(Addr) /\ Q[b] # <<>> /\ Q[b][1] = b
             /\ IsInjective(Q[b]) /\ Strung(Q[b], n["nextChunk"])
  <2>1. CASE b = a
    BY <1>2, <1>4, <1>5, <2>1 DEF t
  <2>2. CASE b \in Range(S)
    BY <1>2, <2>2 DEF Chains
  <2> QED BY <2>1, <2>2
<1>8. ASSUME NEW b \in Range(S2), NEW c \in Range(S2), b # c
      PROVE  Range(Q[b]) \cap Range(Q[c]) = {}
  <2>1. CASE b \in Range(S) /\ c \in Range(S)
    BY <1>2, <1>8, <2>1 DEF Chains
  <2>2. CASE b = a /\ c \in Range(S)
    BY <1>2, <1>3, <1>5, <2>2 DEF t
  <2>3. CASE c = a /\ b \in Range(S)
    BY <1>2, <1>3, <1>5, <2>3 DEF t
  <2> QED BY <1>8, <2>1, <2>2, <2>3
<1>9. Chains(n, S2, Q)
  BY <1>2, <1>7, <1>8 DEF Chains
<1> QED BY <1>6, <1>9 DEF Q

(* makeNew: what the transaction leaves.                                   *)
NewMade(n, S, G, B, a, i) ==
  /\ Makes(makeNewLog(a, i) \o Add("usedChunk", 0, 1), mem, n)
  /\ Lists(n, Headed(a, S), Headed(a, G), [B EXCEPT ![i] = Headed(a, B[i])])
  /\ Cursors(n, Headed(a, S))
  /\ Touches(mem, n, MakeFields \cup {"usedChunk"}, Range(S) \cup {a})
  /\ n["index"] = [mem["index"] EXCEPT ![a] = i]
  /\ n["dirty"] = [mem["dirty"] EXCEPT ![a] = TRUE]
  /\ n["dirtyCount"] = [mem["dirtyCount"] EXCEPT ![0] = mem["dirtyCount"][0] + 1]
  /\ n["usedChunk"][0] = mem["usedChunk"][0] + 1

(* What makeNew makes, with the cursors.                                   *)
LEMMA NewMakes ==
  ASSUME Shape(mem), NEW S, NEW G, NEW B, Lists(mem, S, G, B), Cursors(mem, S),
         NEW a \in Addr, a \notin Range(S), Blank(mem, a), NEW i \in Index
  PROVE  \E n : NewMade(n, S, G, B, a, i)
<1> DEFINE S2 == Headed(a, S)
           G2 == Headed(a, G)
           B2 == [B EXCEPT ![i] = Headed(a, B[i])]
           F == MakeFields \cup {"usedChunk"}
           R == Range(S) \cup {a}
<1>1. PICK n1 : /\ Makes(makeNewLog(a, i), mem, n1)
                /\ Lists(n1, S2, G2, B2)
                /\ Shape(n1) /\ Touches(mem, n1, MakeFields, R)
                /\ n1["index"] = [mem["index"] EXCEPT ![a] = i]
                /\ n1["dirty"] = [mem["dirty"] EXCEPT ![a] = TRUE]
                /\ n1["dirtyCount"] = [mem["dirtyCount"] EXCEPT ![0] = mem["dirtyCount"][0] + 1]
  <2>1. PICK n1 : NewLinked(n1, S, G, B, a, i)
    BY MakeNewMakes
  <2> QED BY <2>1 DEF NewLinked
<1>2. \A f \in CursorFields \cup {"usedChunk"} : f \in Fields /\ f \notin MakeFields
  BY MoreFields, FieldNames
     DEF MakeFields, SetFields, GetFields, BucketFields, NewFields, CursorFields
<1>3. Range(S2) = Range(S) \cup {a}
  <2>1. S \in Seq(Addr)
    BY DEF Lists, Spot, DList
  <2> QED BY <2>1, FrontOf
<1> HIDE DEF S2, G2, B2, R
<1>4. /\ \A f \in CursorFields : n1[f] = mem[f]
      /\ n1["usedChunk"] = mem["usedChunk"]
  BY <1>1, <1>2, Unaltered
<1>5. Cursors(n1, S2)
  BY <1>3, <1>4, CursorNames DEF Cursors
<1>6. Touches(mem, n1, F, R)
  BY <1>1, TouchesMore
<1>7. "usedChunk" \in HeadFields /\ "usedChunk" \in F
  BY DataFieldNames
<1> HIDE DEF F
<1> DEFINE v == mem["usedChunk"][0] + 1
<1>8. PICK n : /\ Makes(makeNewLog(a, i) \o Put("usedChunk", 0, v), mem, n) /\ Shape(n)
               /\ Touches(mem, n, F, R)
               /\ \A g \in Fields : g # "usedChunk" => n[g] = n1[g]
               /\ n["usedChunk"][0] = v
  <2> HIDE DEF v
  <2> QED BY <1>1, <1>6, <1>7, HeadPut
<1>9. Lists(n, S2, G2, B2) /\ Cursors(n, S2)
  <2>1. Agree(n1, n, ListingFields)
    BY <1>8, ListingFieldNames DEF Agree
  <2> QED BY <1>1, <1>5, <2>1, ListingKept
<1>10. n["index"] = n1["index"] /\ n["dirty"] = n1["dirty"] /\ n["dirtyCount"] = n1["dirtyCount"]
  BY <1>8, OrderFieldsApart
<1>11. Makes(makeNewLog(a, i) \o Add("usedChunk", 0, 1), mem, n)
  BY <1>8 DEF Add
<1> QED BY <1>1, <1>8, <1>9, <1>10, <1>11 DEF NewMade, S2, G2, B2, F, R

(* makeNew keeps the map whole; the new record has no key yet.             *)
LEMMA MakeNewKeeps ==
  ASSUME NEW S, NEW G, NEW B, NEW P, NEW U, WholeMap(S, G, B, P, U), makeNew
  PROVE  WholeMapNow'
<1> DEFINE a == op.addr
           i == Bucket[op.key]
           o == [op EXCEPT !.pc = "room"]
           S2 == Headed(a, S)
           G2 == Headed(a, G)
           B2 == [B EXCEPT ![i] = Headed(a, B[i])]
           Q == WithBlock(P, a)
           V == U \ {a}
<1>1. /\ Shape(mem) /\ Flags(mem) /\ Lists(mem, S, G, B) /\ Cursors(mem, S)
      /\ Chains(mem, S, P) /\ Places(mem, P, U, free, op, crashed)
      /\ UniqueKeys(mem, S, op) /\ Counts(mem, S, op, crashed)
      /\ Working(op, S, P, crashed, calls) /\ Range(S) \subseteq Addr /\ S \in Seq(Addr)
      /\ IsFiniteSet(Range(S))
  BY PartsOf
<1>2. /\ op.pc = "link" /\ op' = o /\ free' = free /\ crashed' = crashed /\ calls' = calls
      /\ Commit(makeNewLog(a, i) \o Add("usedChunk", 0, 1))
  BY DEF makeNew, Become
<1>3. /\ DOMAIN op = DOMAIN Idle /\ Phase(op) = "link" /\ ToRelease(op) = <<>>
      /\ op.chunks = <<>> /\ op.dirty \in BOOLEAN
      /\ op.n \in 0 .. NBlocks + EraseCount /\ crashed \in BOOLEAN /\ calls \in 0 .. MaxCalls
  BY <1>1, <1>2, AtWork
<1>4. Unlinked(op) = {a}
  BY <1>2 DEF Unlinked
<1> HIDE DEF Phase, Unlinked
<1>5. /\ op.name = "set" /\ op.key \in Keys /\ op.val \in Values \cup {None} /\ a \in Addr
  <2>1. Phase(op) \in Making
    BY <1>3 DEF Making
  <2> QED BY <1>1, <1>3, <2>1 DEF Working
<1>6. i \in Index
  BY <1>5, HashMapAssumption DEF Index
<1> HIDE DEF i
<1>7. /\ free \subseteq Addr /\ U \subseteq Addr /\ a \in U
      /\ a \notin free /\ a \notin UsedIn(P) /\ free \cap UsedIn(P) = {}
      /\ \A b \in free \cup {a} : Blank(mem, b)
      /\ U \cap (free \cup UsedIn(P)) = {}
      /\ mem["usedChunk"][0] = Cardinality(Addr \ (free \cup U))
      /\ ~crashed => U = {a} /\ Addr = free \cup U \cup UsedIn(P)
  BY <1>1, <1>3, <1>4, EmptyQueue DEF Places
<1>8. a \notin Range(S) /\ Range(S) \subseteq UsedIn(P)
  BY <1>1, <1>7, RecordsAreUsed
<1>9. /\ mem["nextChunk"][a] = 0 /\ mem["len"][a] = "none" /\ mem["key"][a] = None
      /\ mem["onlyKey"][a] = FALSE /\ mem["dirty"][a] = FALSE
  BY <1>7, BlankBlock
<1>10. PICK n : NewMade(n, S, G, B, a, i)
  BY <1>1, <1>5, <1>6, <1>7, <1>8, NewMakes
<1> HIDE DEF a
<1>11. mem' = n
  BY <1>2, <1>10, CommitMakes DEF NewMade
<1>12. /\ Lists(n, S2, G2, B2) /\ Cursors(n, S2)
       /\ Touches(mem, n, MakeFields \cup {"usedChunk"}, Range(S) \cup {a})
       /\ n["index"] = [mem["index"] EXCEPT ![a] = i]
       /\ n["dirty"] = [mem["dirty"] EXCEPT ![a] = TRUE]
       /\ n["dirtyCount"] = [mem["dirtyCount"] EXCEPT ![0] = mem["dirtyCount"][0] + 1]
       /\ n["usedChunk"][0] = mem["usedChunk"][0] + 1
  BY <1>10 DEF NewMade
<1>13. Range(S2) = Range(S) \cup {a} /\ a \in Range(S2)
  BY <1>1, <1>5, FrontOf, ZenonT(30)
<1> HIDE DEF S2, G2, B2, Q
<1>14. /\ Shape(n)
       /\ \A f \in BlockFields : \A x \in Addr : x \notin Range(S) \cup {a} => n[f][x] = mem[f][x]
       /\ \A f \in Fields : f \notin MakeFields \cup {"usedChunk"} => n[f] = mem[f]
  BY <1>12, Unaltered
<1>15. /\ n["nextChunk"] = mem["nextChunk"] /\ n["len"] = mem["len"] /\ n["key"] = mem["key"]
       /\ n["onlyKey"] = mem["onlyKey"] /\ n["onlyKeyCount"] = mem["onlyKeyCount"]
  <2>1. \A f \in {"nextChunk", "len", "key", "onlyKey", "onlyKeyCount"} :
          f \in Fields /\ f \notin MakeFields \cup {"usedChunk"}
    BY ListingFieldNames DEF MakeFields, SetFields, GetFields, BucketFields, NewFields
  <2> QED BY <1>14, <2>1
<1>16. Flags(n)
  BY <1>1, <1>12, <1>15 DEF Flags
<1>17. Chains(n, S2, Q) /\ UsedIn(Q) = UsedIn(P) \cup {a}
  BY <1>1, <1>5, <1>7, <1>9, <1>13, <1>15, ChainsWithBlock DEF Q, a
<1>18. /\ DOMAIN o = DOMAIN Idle /\ o.pc = "room" /\ o.n = op.n
       /\ o.name = op.name /\ o.key = op.key /\ o.val = op.val /\ o.addr = a
       /\ o.chunks = op.chunks /\ o.dirty = op.dirty
  BY <1>3, OperationFields DEF a
<1> HIDE DEF o
<1>19. /\ Working(o, S2, Q, crashed, calls) /\ Phase(o) = "room"
       /\ o.chunks = <<>> /\ ToRelease(o) = <<>> /\ Unlinked(o) = {}
  <2>1. Starting(o, S2)
    BY <1>3, <1>5, <1>13, <1>18 DEF Starting, a
  <2> QED BY <1>3, <1>18, <2>1, StartingWorks
<1>20. Places(n, Q, V, free, o, crashed)
  <2>1. \A b \in free : Blank(n, b)
    <3>1. \A b \in free : b \in Addr /\ b \notin Range(S) \cup {a}
      BY <1>7, <1>8
    <3> QED BY <1>7, <1>14, <3>1 DEF Blank
  <2>2. n["usedChunk"][0] = Cardinality(Addr \ (free \cup V))
    <3>1. U \subseteq Addr /\ free \cap U = {} /\ a \in U
      BY <1>7
    <3>2. Cardinality(Addr \ ((U \ {a}) \cup free)) = Cardinality(Addr \ (U \cup free)) + 1
      BY <3>1, MoreUsed
    <3>3. (U \ {a}) \cup free = free \cup V /\ U \cup free = free \cup U
      OBVIOUS
    <3> QED BY <1>7, <1>12, <3>2, <3>3
  <2>3. /\ free \cap UsedIn(Q) = {} /\ V \subseteq Addr
        /\ V \cap (free \cup UsedIn(Q)) = {}
        /\ ~crashed => V = {} /\ Addr = free \cup V \cup UsedIn(Q)
    BY <1>7, <1>17
  <2> HIDE DEF V
  <2> QED BY <1>7, <1>19, <2>1, <2>2, <2>3, EmptyQueue DEF Places
<1>21. UniqueKeys(n, S2, o)
  <2>1. \A k \in Keys : ~Is(n, a, k)
    BY <1>9, <1>15 DEF Is, Readable
  <2>2. \A x \in Range(S) : n["index"][x] = mem["index"][x]
    BY <1>8, <1>12
  <2>3. \A x \in Range(S), k \in Keys : Is(n, x, k) => Is(mem, x, k)
    BY <1>15, <2>2 DEF Is, Readable
  <2>4. \A x \in Range(S2), k \in Keys : Is(n, x, k) => x \in Range(S) /\ Is(mem, x, k)
    BY <1>13, <2>1, <2>3
  <2>5. \A x \in Range(S) : Is(mem, x, op.key) => x = a
    BY <1>1, <1>3 DEF UniqueKeys, Making, a
  <2>6. n["key"][a] = None
    BY <1>9, <1>15
  <2> QED BY <1>1, <1>5, <1>18, <2>4, <2>5, <2>6 DEF UniqueKeys
<1>22. Counts(n, S2, o, crashed)
  <2> DEFINE x == Cardinality(DirtyRecords(mem, S))
             y == Cardinality(KeyRecords(mem, S))
  <2>1. DirtyRecords(n, S2) = DirtyRecords(mem, S) \cup {a} /\ a \notin DirtyRecords(mem, S)
    <3>1. a \in Addr /\ n["dirty"][a] = TRUE
      BY <1>1, <1>5, <1>12 DEF Flags, a
    <3>2. \A b \in Range(S) : n["dirty"][b] = mem["dirty"][b]
      <4>1. \A b \in Range(S) : b # a /\ b \in DOMAIN mem["dirty"]
        BY <1>1, <1>8 DEF Flags
      <4> QED BY <1>12, <4>1
    <3> QED BY <1>8, <1>13, <3>1, <3>2 DEF DirtyRecords
  <2>2. IsFiniteSet(DirtyRecords(mem, S)) /\ x \in Nat
    BY <1>1, FS_Subset, FS_CardinalityType DEF DirtyRecords
  <2>3. Cardinality(DirtyRecords(n, S2)) = x + 1
    BY <2>1, <2>2, FS_AddElement
  <2>4. KeyRecords(n, S2) = KeyRecords(mem, S)
    <3>1. n["onlyKey"][a] = FALSE
      BY <1>9, <1>15
    <3> QED BY <1>13, <1>15, <3>1 DEF KeyRecords
  <2>5. n["dirtyCount"][0] = mem["dirtyCount"][0] + 1
    <3>1. DOMAIN mem["dirtyCount"] = {0}
      BY <1>1, MoreFields DEF CountFields
    <3> QED BY <1>12, <3>1
  <2> HIDE DEF x, y
  <2>6. PICK d, e \in {-1, 0, 1} : /\ ~crashed => d = 0 /\ e = 0
                                   /\ mem["dirtyCount"][0] = x + d
                                   /\ mem["onlyKeyCount"][0] = y + e
    BY <1>1, <1>3 DEF Counts, x, y
  <2>7. n["dirtyCount"][0] = Cardinality(DirtyRecords(n, S2)) + d
    BY <2>2, <2>3, <2>5, <2>6
  <2>8. n["onlyKeyCount"][0] = Cardinality(KeyRecords(n, S2)) + e
    BY <1>15, <2>4, <2>6 DEF y
  <2>9. Phase(o) \notin {"copy", "count"}
    BY <1>19
  <2> QED BY <2>6, <2>7, <2>8, <2>9 DEF Counts
<1>23. Whole(n, free, o, crashed, calls, S2, G2, B2, Q, V)
  BY <1>12, <1>14, <1>16, <1>17, <1>19, <1>20, <1>21, <1>22 DEF Whole
<1>24. Becomes(n, free, o, crashed, calls)
  BY <1>2, <1>11 DEF Becomes
<1> QED BY <1>23, <1>24, NextIsWhole

(* A step that changes no block of the lists.                              *)
LEMMA ListsUntouched ==
  ASSUME NEW m, NEW n, NEW S, NEW G, NEW B, Lists(m, S, G, B), Cursors(m, S),
         \A f \in {"setHead", "setTail", "getHead", "getTail", "elementCount", "blockAddr",
                   "listCount", "dirtyTail", "syncTail", "backupTail"} : n[f] = m[f],
         \A f \in {"setNext", "setPrev", "getNext", "getPrev", "blockNext", "blockPrev", "index"} :
           \A b \in Range(S) : n[f][b] = m[f][b]
  PROVE  Lists(n, S, G, B) /\ Cursors(n, S)
<1>1. /\ Spot(m, S, "setHead", "setTail", "setNext", "setPrev")
      /\ Spot(m, G, "getHead", "getTail", "getNext", "getPrev")
      /\ Range(G) = Range(S) /\ Buckets(m, Range(S), B)
  BY DEF Lists
<1>2. Spot(n, S, "setHead", "setTail", "setNext", "setPrev")
  BY <1>1, SpotKept
<1>3. Spot(n, G, "getHead", "getTail", "getNext", "getPrev")
  BY <1>1, SpotKept
<1>4. Buckets(n, Range(S), B)
  <2>1. ASSUME NEW i \in Index
        PROVE  /\ DList(B[i], n["blockNext"], n["blockPrev"]) /\ n["blockAddr"][i] = First(B[i])
               /\ Range(B[i]) = {a \in Range(S) : n["index"][a] = i}
               /\ n["listCount"][i] = Len(B[i])
    <3>1. /\ DList(B[i], m["blockNext"], m["blockPrev"]) /\ m["blockAddr"][i] = First(B[i])
          /\ Range(B[i]) = {a \in Range(S) : m["index"][a] = i}
          /\ m["listCount"][i] = Len(B[i])
      BY <1>1 DEF Buckets
    <3>2. \A b \in Range(B[i]) : /\ n["blockNext"][b] = m["blockNext"][b]
                                 /\ n["blockPrev"][b] = m["blockPrev"][b]
      BY <3>1
    <3>3. DList(B[i], n["blockNext"], n["blockPrev"])
      BY <3>1, <3>2, Untouched
    <3> QED BY <3>1, <3>3
  <2>2. DOMAIN B = Index /\ \A a \in Range(S) : n["index"][a] \in Index
    BY <1>1 DEF Buckets
  <2> QED BY <2>1, <2>2 DEF Buckets
<1>5. n["elementCount"][0] = Len(S)
  BY DEF Lists
<1> QED BY <1>1, <1>2, <1>3, <1>4, <1>5 DEF Lists, Cursors

(* What deallocate leaves of block a.                                      *)
Freed(n, a) ==
  /\ Shape(n) /\ Blank(n, a)
  /\ \A f \in BlockFields : \A x \in Addr \ {a} : n[f][x] = mem[f][x]
  /\ \A f \in Fields \ BlockFields : f # "usedChunk" => n[f] = mem[f]
  /\ n["usedChunk"][0] = mem["usedChunk"][0] - 1
  /\ n["dirty"] = [mem["dirty"] EXCEPT ![a] = FALSE]
  /\ n["onlyKey"] = [mem["onlyKey"] EXCEPT ![a] = FALSE]

Freeing(a) ==
  [f \in DOMAIN mem |->
     IF f \in BlockFields THEN [mem[f] EXCEPT ![a] = ZeroBlock[f]]
     ELSE IF f = "usedChunk" THEN [mem[f] EXCEPT ![0] = @ - 1]
     ELSE mem[f]]

(* A block that is given back is blank.                                    *)
LEMMA FreeingFrees ==
  ASSUME Shape(mem), NEW a \in Addr
  PROVE  Freed(Freeing(a), a)
<1> DEFINE n == Freeing(a)
<1>1. /\ DOMAIN mem = Fields /\ DOMAIN n = Fields
      /\ \A f \in BlockFields : f \in Fields /\ DOMAIN mem[f] = Addr
      /\ "usedChunk" \in Fields /\ "usedChunk" \notin BlockFields /\ DOMAIN mem["usedChunk"] = {0}
  <2>1. DOMAIN mem = Fields
    BY DEF Shape, Fields
  <2> QED BY <2>1, ShapeOf, MoreFields DEF Freeing
<1>2. /\ \A f \in BlockFields : n[f] = [mem[f] EXCEPT ![a] = ZeroBlock[f]]
      /\ \A f \in Fields \ BlockFields : f # "usedChunk" => n[f] = mem[f]
      /\ n["usedChunk"] = [mem["usedChunk"] EXCEPT ![0] = mem["usedChunk"][0] - 1]
  BY <1>1 DEF Freeing
<1> HIDE DEF n
<1>3. \A f \in Fields : DOMAIN n[f] = DOMAIN mem[f]
  BY <1>1, <1>2
<1>4. Shape(n)
  BY <1>1, <1>3 DEF Shape, Fields
<1>5. Blank(n, a) /\ \A f \in BlockFields : \A x \in Addr \ {a} : n[f][x] = mem[f][x]
  BY <1>1, <1>2, ZenonT(30) DEF Blank
<1>6. n["usedChunk"][0] = mem["usedChunk"][0] - 1
  BY <1>1, <1>2
<1>7. /\ n["dirty"] = [mem["dirty"] EXCEPT ![a] = FALSE]
      /\ n["onlyKey"] = [mem["onlyKey"] EXCEPT ![a] = FALSE]
  <2>1. ZeroBlock["dirty"] = FALSE /\ ZeroBlock["onlyKey"] = FALSE
    BY DEF ZeroBlock
  <2> QED BY <1>2, <2>1, FieldNames
<1> QED BY <1>2, <1>4, <1>5, <1>6, <1>7 DEF Freed, n

(* The operation that has one block less to give back.                     *)
LEMMA ReleasedWorks ==
  ASSUME NEW S, NEW P, NEW t, Working(op, S, P, crashed, calls), op.pc = "release"
  PROVE  LET o == Releasing(op, t, op.ret)
         IN  /\ Working(o, S, P, crashed, calls) /\ Phase(o) = Phase(op)
             /\ ToRelease(o) = t /\ Unlinked(o) = {} /\ o.chunks = op.chunks
             /\ o.key = op.key /\ o.addr = op.addr
<1> DEFINE o == Releasing(op, t, op.ret)
<1>1. DOMAIN op = DOMAIN Idle /\ op.ret \in {"return", "flags", "undo", "evict"}
  BY DEF Working
<1>2. CASE t = <<>>
  <2>1. /\ DOMAIN o = DOMAIN Idle /\ o.pc = op.ret /\ o.n = op.n /\ o.back = op.back
        /\ o.name = op.name /\ o.key = op.key /\ o.val = op.val /\ o.addr = op.addr
        /\ o.chunks = op.chunks /\ o.dirty = op.dirty
    BY <1>1, <1>2, OperationFields DEF Releasing
  <2> HIDE DEF o
  <2>2. Phase(o) = Phase(op)
    BY <1>1, <2>1 DEF Phase
  <2>3. ToRelease(o) = t /\ Unlinked(o) = {}
    BY <1>1, <1>2, <2>1 DEF ToRelease, Unlinked
  <2>4. Needs(o) = Needs(op)
    BY <2>1 DEF Needs
  <2> HIDE DEF Phase
  <2>5. o.pc \in Making \cup AtRecord \cup {"idle", "return", "evict", "release"}
        /\ o.pc \notin {"release", "idle"}
    BY <1>1, <2>1 DEF Making
  <2>6. Working(o, S, P, crashed, calls)
    BY <1>1, <2>1, <2>2, <2>4, <2>5, ZenonT(40) DEF Working
  <2> QED BY <2>1, <2>2, <2>3, <2>6 DEF o
<1>3. CASE t # <<>>
  <2>1. /\ DOMAIN o = DOMAIN Idle /\ o.pc = "release" /\ o.n = op.n /\ o.back = op.back
        /\ o.name = op.name /\ o.key = op.key /\ o.val = op.val /\ o.addr = op.addr
        /\ o.chunks = op.chunks /\ o.dirty = op.dirty /\ o.todo = t /\ o.ret = op.ret
    BY <1>1, <1>3, OperationFields DEF Releasing
  <2> HIDE DEF o
  <2>2. Phase(o) = Phase(op)
    BY <1>1, <2>1 DEF Phase
  <2>3. ToRelease(o) = t /\ Unlinked(o) = {}
    BY <1>1, <1>3, <2>1 DEF ToRelease, Unlinked
  <2>4. Needs(o) = Needs(op)
    BY <2>1 DEF Needs
  <2> HIDE DEF Phase
  <2>5. Working(o, S, P, crashed, calls)
    BY <1>1, <1>3, <2>1, <2>2, <2>4, ZenonT(40) DEF Working
  <2> QED BY <2>1, <2>2, <2>3, <2>5 DEF o
<1> QED BY <1>2, <1>3

(* The return of a block to the allocator keeps the map whole.             *)
LEMMA DeallocateKeeps ==
  ASSUME NEW S, NEW G, NEW B, NEW P, NEW U, WholeMap(S, G, B, P, U), deallocate
  PROVE  WholeMapNow'
<1> DEFINE a == Head(op.todo)
           r == Tail(op.todo)
           o == Releasing(op, r, op.ret)
           n == Freeing(a)
           fr == free \cup {a}
<1>1. /\ Shape(mem) /\ Flags(mem) /\ Lists(mem, S, G, B) /\ Cursors(mem, S)
      /\ Chains(mem, S, P) /\ Places(mem, P, U, free, op, crashed)
      /\ UniqueKeys(mem, S, op) /\ Counts(mem, S, op, crashed)
      /\ Working(op, S, P, crashed, calls) /\ Range(S) \subseteq Addr
  BY PartsOf
<1>2. /\ op.pc = "release" /\ mem' = n /\ op' = o /\ free' = fr
      /\ crashed' = crashed /\ calls' = calls
  BY DEF deallocate, Freeing
<1>3. /\ Working(o, S, P, crashed, calls) /\ Phase(o) = Phase(op)
      /\ ToRelease(o) = r /\ Unlinked(o) = {} /\ o.chunks = op.chunks
      /\ o.key = op.key /\ o.addr = op.addr
  BY <1>1, <1>2, ReleasedWorks
<1>4. Phase(op) \notin {"copy", "count"}
  BY <1>1, <1>2 DEF Working, Phase
<1>5. ToRelease(op) = op.todo /\ op.todo # <<>> /\ Unlinked(op) = {}
  BY <1>1, <1>2 DEF Working, ToRelease, Unlinked
<1> HIDE DEF o, Phase
<1> DEFINE q == op.todo
<1>6. /\ free \subseteq Addr /\ q \in Seq(Addr) /\ IsInjective(q)
      /\ op.chunks \in Seq(Addr) /\ IsInjective(op.chunks)
      /\ Range(op.chunks) \cap (free \cup UsedIn(P)) = {} /\ free \cap UsedIn(P) = {}
      /\ Range(q) \cap (free \cup UsedIn(P) \cup Range(op.chunks)) = {}
      /\ \A b \in free \cup Range(op.chunks) : Blank(mem, b)
      /\ U \subseteq Addr /\ U \cap (free \cup Range(op.chunks) \cup Range(q) \cup UsedIn(P)) = {}
      /\ mem["usedChunk"][0] = Cardinality(Addr \ (free \cup U))
      /\ ~crashed => U = {} /\ Addr = free \cup U \cup Range(op.chunks) \cup Range(q) \cup UsedIn(P)
  BY <1>1, <1>5 DEF Places
<1>7. /\ a \in Addr /\ r \in Seq(Addr) /\ IsInjective(r) /\ a \notin Range(r)
      /\ Range(q) = Range(r) \cup {a}
  BY <1>5, <1>6, PoppedInFront
<1> HIDE DEF a, r, q
<1>8. /\ a \notin free /\ a \notin UsedIn(P) /\ a \notin Range(op.chunks) /\ a \notin U
      /\ a \notin Range(S) /\ Range(S) \subseteq UsedIn(P)
  BY <1>1, <1>6, <1>7, RecordsAreUsed
<1>9. Freed(n, a)
  BY <1>1, <1>7, FreeingFrees
<1> HIDE DEF n
<1>10. /\ Shape(n) /\ Blank(n, a)
       /\ \A f \in BlockFields : \A x \in Addr \ {a} : n[f][x] = mem[f][x]
       /\ \A f \in Fields \ BlockFields : f # "usedChunk" => n[f] = mem[f]
       /\ n["usedChunk"][0] = mem["usedChunk"][0] - 1
       /\ n["dirty"] = [mem["dirty"] EXCEPT ![a] = FALSE]
       /\ n["onlyKey"] = [mem["onlyKey"] EXCEPT ![a] = FALSE]
  BY <1>9 DEF Freed
<1>11. Lists(n, S, G, B) /\ Cursors(n, S)
  <2>1. \A f \in {"setHead", "setTail", "getHead", "getTail", "elementCount", "blockAddr",
                  "listCount", "dirtyTail", "syncTail", "backupTail"} : n[f] = mem[f]
    BY <1>10, FieldNames DEF Fields, HeadFields
  <2>2. \A f \in {"setNext", "setPrev", "getNext", "getPrev", "blockNext", "blockPrev", "index"} :
          \A b \in Range(S) : n[f][b] = mem[f][b]
    <3>1. \A b \in Range(S) : b \in Addr \ {a}
      BY <1>1, <1>8
    <3> QED BY <1>10, <3>1, FieldNames
  <2> QED BY ONLY <1>1, <2>1, <2>2, ListsUntouched
<1>12. /\ \A f \in {"dirty", "onlyKey", "nextChunk", "len", "key", "index"} :
            \A b \in UsedIn(P) : n[f][b] = mem[f][b]
       /\ n["dirtyCount"] = mem["dirtyCount"] /\ n["onlyKeyCount"] = mem["onlyKeyCount"]
  <2>1. \A b \in UsedIn(P) : b \in Addr \ {a}
    BY <1>1, <1>8, QueuedAreOfKind DEF UsedIn, Chains
  <2>2. n["dirtyCount"] = mem["dirtyCount"] /\ n["onlyKeyCount"] = mem["onlyKeyCount"]
    BY <1>10, FieldNames DEF Fields, HeadFields
  <2> QED BY <1>10, <2>1, <2>2, FieldNames
<1>13. Flags(n)
  BY <1>1, <1>10 DEF Flags
<1>14. Chains(n, S, P)
  BY <1>1, <1>12, ChainsKept
<1>15. Places(n, P, U, fr, o, crashed)
  <2>1. \A b \in fr \cup Range(op.chunks) : Blank(n, b)
    <3>1. ASSUME NEW b \in free \cup Range(op.chunks) PROVE Blank(n, b)
      <4>1. b \in Addr \ {a} /\ Blank(mem, b)
        BY <1>6, <1>8, QueuedAreOfKind
      <4> QED BY <1>10, <4>1 DEF Blank
    <3> QED BY <1>10, <3>1
  <2>2. n["usedChunk"][0] = Cardinality(Addr \ (fr \cup U))
    <3>1. fr \subseteq Addr /\ U \cap fr = {} /\ a \in fr /\ fr \ {a} = free
      BY <1>6, <1>7, <1>8
    <3> DEFINE z == Cardinality(Addr \ (fr \cup U))
               w == Cardinality(Addr \ (free \cup U))
    <3> HIDE DEF fr
    <3>2. w = z + 1
      BY <3>1, MoreUsed
    <3>3. IsFiniteSet(Addr \ (fr \cup U))
      BY HashMapAssumption, FS_Subset
    <3>4. z \in Nat
      BY <3>3, FS_CardinalityType
    <3>5. n["usedChunk"][0] = w - 1
      BY <1>6, <1>10
    <3> HIDE DEF z, w
    <3>6. n["usedChunk"][0] = z
      BY <3>2, <3>4, <3>5
    <3> QED BY <3>6 DEF z
  <2>3. /\ Range(op.chunks) \cap (fr \cup UsedIn(P)) = {} /\ fr \cap UsedIn(P) = {}
        /\ Range(r) \cap (fr \cup UsedIn(P) \cup Range(op.chunks)) = {}
        /\ U \cap (fr \cup Range(op.chunks) \cup Range(r) \cup UsedIn(P)) = {}
        /\ ~crashed => U = {} /\ Addr = fr \cup U \cup Range(op.chunks) \cup Range(r) \cup UsedIn(P)
        /\ fr \subseteq Addr
    BY <1>6, <1>7, <1>8
  <2> HIDE DEF fr
  <2> QED BY <1>3, <1>6, <1>7, <2>1, <2>2, <2>3 DEF Places
<1>16. UniqueKeys(n, S, o)
  <2>1. \A x \in Range(S), k \in Keys : Is(n, x, k) => Is(mem, x, k)
    BY <1>8, <1>12 DEF Is, Readable
  <2>2. Phase(op) \in Making \ {"block", "link"} => n["key"][op.addr] = mem["key"][op.addr]
    <3>1. Phase(op) \in Making \ {"block", "link"} => op.addr \in Range(S)
      BY <1>1 DEF Working, Making, AtRecord
    <3> QED BY <1>8, <1>12, <3>1
  <2>3. Phase(op) \in Making => op.key \in Keys
    BY <1>1 DEF Working
  <2> QED BY <1>1, <1>3, <2>1, <2>2, <2>3, UniqueKeysKept
<1>17. Counts(n, S, o, crashed)
  <2>1. DirtyRecords(n, S) = DirtyRecords(mem, S) /\ KeyRecords(n, S) = KeyRecords(mem, S)
    BY <1>8, <1>12 DEF DirtyRecords, KeyRecords
  <2> QED BY <1>1, <1>3, <1>4, <1>12, <2>1, CountsKept
<1>18. Whole(n, fr, o, crashed, calls, S, G, B, P, U)
  BY <1>3, <1>10, <1>11, <1>13, <1>14, <1>15, <1>16, <1>17 DEF Whole
<1>19. Becomes(n, fr, o, crashed, calls)
  BY <1>2 DEF Becomes
<1> QED BY <1>18, <1>19, NextIsWhole

(* The link of a record leads to another one, or nowhere.                  *)
LEMMA PrevIsOther ==
  ASSUME NEW s, NEW h, NEW t, NEW nx, NEW pv, Spot(mem, s, h, t, nx, pv), NEW a \in Range(s)
  PROVE  mem[pv][a] \in (Range(s) \ {a}) \cup {0}
<1>1. DList(s, mem[nx], mem[pv])
  BY DEF Spot
<1>2. /\ Len(s) \in Nat
      /\ \A i, j \in 1 .. Len(s) : s[i] = s[j] => i = j
      /\ \A i \in 1 .. Len(s) : mem[pv][s[i]] = IF i = 1 THEN 0 ELSE s[i - 1]
      /\ \A b : b \in Range(s) <=> \E i \in 1 .. Len(s) : s[i] = b
  BY ONLY <1>1, Sides
<1>3. PICK p \in 1 .. Len(s) : s[p] = a
  BY <1>2
<1>4. CASE p = 1
  BY <1>2, <1>3, <1>4
<1>5. CASE p # 1
  <2>1. p - 1 \in 1 .. Len(s) /\ p - 1 # p
    BY <1>2, <1>5
  <2>2. s[p - 1] # s[p] /\ s[p - 1] \in Range(s)
    BY <1>2, <2>1
  <2> QED BY <1>2, <1>3, <1>5, <2>2
<1> QED BY <1>4, <1>5

(* The chains of the other records.                                        *)
OtherChains(P, a) == [b \in DOMAIN P \ {a} |-> P[b]]

(* A record less has its parts less.                                       *)
LEMMA ChainsWithout ==
  ASSUME NEW m, NEW n, NEW S, NEW S2, NEW P, Chains(m, S, P), NEW a \in Range(S),
         Range(S2) = Range(S) \ {a}, n["nextChunk"] = m["nextChunk"]
  PROVE  /\ Chains(n, S2, OtherChains(P, a))
         /\ UsedIn(OtherChains(P, a)) = UsedIn(P) \ Range(P[a])
         /\ Range(P[a]) \subseteq UsedIn(P)
         /\ \A b \in Range(S2) : OtherChains(P, a)[b] = P[b]
<1> DEFINE Q == OtherChains(P, a)
<1>1. DOMAIN P = Range(S) /\ DOMAIN Q = Range(S2) /\ \A b \in Range(S2) : Q[b] = P[b]
  BY DEF OtherChains, Chains
<1> HIDE DEF Q
<1>2. Chains(n, S2, Q)
  BY <1>1 DEF Chains
<1>3. \A b \in Range(S2) : Range(P[b]) \cap Range(P[a]) = {}
  BY DEF Chains
<1>4. UsedIn(Q) = UsedIn(P) \ Range(P[a])
  <2>1. ASSUME NEW x \in UsedIn(Q) PROVE x \in UsedIn(P) \ Range(P[a])
    <3>1. PICK b \in Range(S2) : x \in Range(P[b])
      BY <1>1 DEF UsedIn
    <3> QED BY <1>1, <1>3, <3>1 DEF UsedIn
  <2>2. ASSUME NEW x \in UsedIn(P) \ Range(P[a]) PROVE x \in UsedIn(Q)
    <3>1. PICK b \in Range(S) : x \in Range(P[b])
      BY <1>1 DEF UsedIn
    <3>2. b \in Range(S2)
      BY <3>1
    <3> QED BY <1>1, <3>1, <3>2 DEF UsedIn
  <2> QED BY <2>1, <2>2
<1>5. Range(P[a]) \subseteq UsedIn(P)
  BY RecordsAreUsed
<1> QED BY <1>1, <1>2, <1>4, <1>5 DEF Q

(* No cursor stays on a record that is erased.                             *)
LEMMA CursorsWithout ==
  ASSUME NEW S, NEW G, Listing(S, G), NEW a \in Range(S), NEW n, NEW S2,
         Range(S2) = Range(S) \ {a},
         n["dirtyTail"][0] = IF DirtyTail = a THEN mem["setPrev"][a] ELSE DirtyTail,
         n["syncTail"][0] = IF SyncTail = a THEN mem["setPrev"][a] ELSE SyncTail,
         n["backupTail"][0] = IF BackupTail = a THEN mem["getPrev"][a] ELSE BackupTail
  PROVE  Cursors(n, S2)
<1>1. mem["setPrev"][a] \in (Range(S) \ {a}) \cup {0}
  BY PrevIsOther DEF Listing
<1>2. mem["getPrev"][a] \in (Range(S) \ {a}) \cup {0}
  <2>1. /\ Spot(mem, G, "getHead", "getTail", "getNext", "getPrev") /\ a \in Range(G)
        /\ Range(G) = Range(S)
    BY DEF Listing
  <2>2. mem["getPrev"][a] \in (Range(G) \ {a}) \cup {0}
    BY ONLY <2>1, PrevIsOther
  <2> QED BY <2>1, <2>2
<1>3. /\ DirtyTail \in Range(S) \cup {0} /\ SyncTail \in Range(S) \cup {0}
      /\ BackupTail \in Range(S) \cup {0}
  BY CursorValues
<1> QED BY <1>1, <1>2, <1>3 DEF Cursors

(* A record less in a count that may be off by d.                          *)
LEMMA OneLess ==
  ASSUME NEW f \in [Addr -> BOOLEAN], NEW T, IsFiniteSet(T), T \subseteq Addr, NEW a \in T
  PROVE  /\ Cardinality({x \in T \ {a} : f[x]}) =
              Cardinality({x \in T : f[x]}) - (IF f[a] THEN 1 ELSE 0)
         /\ Cardinality({x \in T : f[x]}) \in Nat
<1> DEFINE F == {x \in T : f[x]}
           E == {x \in T \ {a} : f[x]}
<1>1. IsFiniteSet(F) /\ Cardinality(F) \in Nat
  BY FS_Subset, FS_CardinalityType
<1>2. CASE f[a]
  <2>1. E = F \ {a} /\ a \in F
    BY <1>2
  <2> HIDE DEF E, F
  <2>2. Cardinality(F \ {a}) = Cardinality(F) - 1
    BY <1>1, <2>1, FS_RemoveElement
  <2>3. Cardinality(E) = Cardinality(F) - (IF f[a] THEN 1 ELSE 0)
    BY <1>2, <2>1, <2>2
  <2> QED BY <1>1, <2>3 DEF E, F
<1>3. CASE ~f[a]
  <2>1. E = F
    BY <1>3
  <2> HIDE DEF E, F
  <2>2. Cardinality(E) = Cardinality(F) - (IF f[a] THEN 1 ELSE 0)
    BY <1>1, <1>3, <2>1
  <2> QED BY <1>1, <2>2 DEF E, F
<1> QED BY <1>2, <1>3

(* The operation o that erases record a and goes on at ret: it makes room  *)
(* for its own record, which is another, or ends there.                    *)
Erasing(o, a, ret) ==
  /\ Phase(op) \notin {"copy", "count", "link"} /\ op.pc # "release"
  /\ DOMAIN o = DOMAIN Idle /\ o.chunks = op.chunks
  /\ o.addr \in Addr \cup {0} /\ o.n \in 0 .. NBlocks + EraseCount /\ o.dirty \in BOOLEAN
  /\ \/ ret = "return" /\ op.chunks = <<>>
     \/ /\ ret = "evict" /\ op.pc = "evict" /\ o.n \in 0 .. EraseCount
        /\ \A f \in DOMAIN Idle \ {"n"} : o[f] = op[f]
        /\ op.back = "chunk" => a # op.addr

(* An operation that erases a record is in order and has its parts to give *)
(* back.                                                                   *)
LEMMA ErasingWorks ==
  ASSUME NEW S, NEW P, Working(op, S, P, crashed, calls), NEW o, NEW a, NEW ret, Erasing(o, a, ret),
         NEW t, t # <<>>, NEW S2, NEW Q, Range(S2) = Range(S) \ {a},
         \A b \in Range(S2) : Q[b] = P[b], NEW cl \in 0 .. MaxCalls
  PROVE  LET o2 == Releasing(o, t, ret)
         IN  /\ Working(o2, S2, Q, crashed, cl) /\ ToRelease(o2) = t
             /\ Unlinked(o2) = {} /\ o2.chunks = op.chunks
             /\ Phase(o2) \notin {"copy", "count"}
             /\ Phase(o2) \in Making => /\ Phase(op) = Phase(o2) /\ o2.key = op.key
                                        /\ o2.addr = op.addr
<1> DEFINE o2 == Releasing(o, t, ret)
<1>1. /\ Phase(op) \notin {"copy", "count", "link"} /\ op.pc # "release"
      /\ DOMAIN o = DOMAIN Idle /\ o.chunks = op.chunks
      /\ o.addr \in Addr \cup {0} /\ o.n \in 0 .. NBlocks + EraseCount /\ o.dirty \in BOOLEAN
      /\ crashed \in BOOLEAN
  BY DEF Erasing, Working
<1>2. /\ DOMAIN o2 = DOMAIN Idle /\ o2.pc = "release" /\ o2.n = o.n /\ o2.back = o.back
      /\ o2.name = o.name /\ o2.key = o.key /\ o2.val = o.val /\ o2.addr = o.addr
      /\ o2.chunks = o.chunks /\ o2.dirty = o.dirty /\ o2.todo = t /\ o2.ret = ret
  BY <1>1, OperationFields DEF Releasing
<1> HIDE DEF o2
<1>3. ToRelease(o2) = t /\ Unlinked(o2) = {}
  BY <1>2 DEF ToRelease, Unlinked
<1>4. CASE ret = "return" /\ op.chunks = <<>>
  <2>1. Phase(o2) = "return"
    BY <1>2, <1>4 DEF Phase
  <2> HIDE DEF Phase
  <2>2. Working(o2, S2, Q, crashed, cl)
    BY <1>1, <1>2, <1>4, <2>1 DEF Working, Making, AtRecord
  <2>3. Phase(o2) \notin Making /\ Phase(o2) \notin {"copy", "count"}
    BY <2>1 DEF Making
  <2> QED BY <1>1, <1>2, <1>3, <2>2, <2>3 DEF o2
<1>5. CASE /\ ret = "evict" /\ op.pc = "evict" /\ o.n \in 0 .. EraseCount
           /\ \A f \in DOMAIN Idle \ {"n"} : o[f] = op[f]
           /\ op.back = "chunk" => a # op.addr
  <2>1. /\ o.name = op.name /\ o.key = op.key /\ o.val = op.val /\ o.addr = op.addr
        /\ o.back = op.back
    BY <1>5, OperationFields
  <2>2. Phase(o2) = op.back /\ Phase(op) = op.back
    BY <1>2, <1>5, <2>1 DEF Phase
  <2> HIDE DEF Phase
  <2>3. op.back \in {"block", "chunk"}
    BY <1>5 DEF Working
  <2>4. Needs(o2) = Needs(op)
    BY <1>2, <2>1 DEF Needs
  <2>5. Phase(op) \in Making
    BY <2>2, <2>3 DEF Making
  <2>6. op.back = "chunk" => op.addr \in Range(S2) /\ Q[op.addr] = P[op.addr]
    <3>1. op.back = "chunk" => op.addr \in Range(S)
      BY <2>2 DEF Working, AtRecord
    <3> QED BY <1>5, <3>1
  <2>7. /\ op.name = "set" /\ op.key \in Keys /\ op.val \in Values \cup {None}
        /\ op.back = "block" => op.addr = 0 /\ op.chunks = <<>>
        /\ op.back = "chunk" => Len(P[op.addr]) + Len(op.chunks) < Needs(op) + 1
    BY <2>2, <2>5 DEF Working
  <2>8. Working(o2, S2, Q, crashed, cl)
    <3>1. /\ o2.name = "set" /\ o2.key \in Keys /\ o2.val \in Values \cup {None}
          /\ Phase(o2) \in {"block", "chunk"} /\ o2.back \in {"block", "chunk"}
          /\ o2.n \in 0 .. EraseCount /\ o2.todo # <<>> /\ o2.ret = "evict"
      BY <1>2, <1>5, <2>1, <2>2, <2>3, <2>7
    <3>2. /\ Phase(o2) = "block" => o2.addr = 0 /\ o2.chunks = <<>>
          /\ Phase(o2) = "chunk" => /\ o2.addr \in Range(S2)
                                    /\ Len(Q[o2.addr]) + Len(o2.chunks) < Needs(o2) + 1
      BY <1>1, <1>2, <2>1, <2>2, <2>4, <2>6, <2>7
    <3>3. /\ o2.addr \in Addr \cup {0} /\ o2.n \in 0 .. NBlocks + EraseCount
          /\ o2.dirty \in BOOLEAN /\ DOMAIN o2 = DOMAIN Idle /\ o2.pc = "release"
      BY <1>1, <1>2
    <3> QED BY <1>1, <3>1, <3>2, <3>3 DEF Working, Making, AtRecord
  <2> QED BY <1>1, <1>2, <1>3, <2>1, <2>2, <2>8 DEF o2
<1>6. \/ ret = "return" /\ op.chunks = <<>>
      \/ /\ ret = "evict" /\ op.pc = "evict" /\ o.n \in 0 .. EraseCount
         /\ \A f \in DOMAIN Idle \ {"n"} : o[f] = op[f]
         /\ op.back = "chunk" => a # op.addr
  BY DEF Erasing
<1> QED BY <1>4, <1>5, <1>6

(* A count may be off by d.                                                *)
LEMMA CountLess ==
  ASSUME NEW u, NEW x \in Int, NEW d \in Int, u = x + d, NEW c, NEW u2, NEW x2,
         u2 = (IF c THEN u - 1 ELSE u), x2 = x - (IF c THEN 1 ELSE 0)
  PROVE  u2 = x2 + d
<1>1. CASE c
  <2>1. u2 = u - 1 /\ x2 = x - 1
    BY <1>1
  <2> QED BY <2>1
<1>2. CASE ~c
  <2>1. u2 = u /\ x2 = x
    BY <1>2
  <2> QED BY <2>1
<1> QED BY <1>1, <1>2

(* The counts stay exact when a record is erased.                          *)
LEMMA ErasedCounts ==
  ASSUME NEW S, NEW S2, NEW a \in Range(S), Range(S2) = Range(S) \ {a}, IsFiniteSet(Range(S)),
         Range(S) \subseteq Addr, Flags(mem), Counts(mem, S, op, crashed),
         Phase(op) \notin {"copy", "count"}, NEW n, NEW o, Phase(o) \notin {"copy", "count"},
         n["dirty"] = mem["dirty"], n["onlyKey"] = mem["onlyKey"],
         n["dirtyCount"][0] = IF mem["dirty"][a] THEN mem["dirtyCount"][0] - 1
                              ELSE mem["dirtyCount"][0],
         n["onlyKeyCount"][0] = IF mem["onlyKey"][a] THEN mem["onlyKeyCount"][0] - 1
                                ELSE mem["onlyKeyCount"][0]
  PROVE  Counts(n, S2, o, crashed)
<1> DEFINE x == Cardinality(DirtyRecords(mem, S))
           y == Cardinality(KeyRecords(mem, S))
           x2 == Cardinality(DirtyRecords(n, S2))
           y2 == Cardinality(KeyRecords(n, S2))
           g == mem["dirty"][a]
           h == mem["onlyKey"][a]
<1>1. mem["dirty"] \in [Addr -> BOOLEAN] /\ mem["onlyKey"] \in [Addr -> BOOLEAN]
  BY DEF Flags
<1>2. x2 = x - (IF g THEN 1 ELSE 0) /\ x \in Nat
  <2>1. DirtyRecords(n, S2) = {b \in Range(S) \ {a} : mem["dirty"][b]}
    BY DEF DirtyRecords
  <2> QED BY <1>1, <2>1, OneLess DEF DirtyRecords
<1>3. y2 = y - (IF h THEN 1 ELSE 0) /\ y \in Nat
  <2>1. KeyRecords(n, S2) = {b \in Range(S) \ {a} : mem["onlyKey"][b]}
    BY DEF KeyRecords
  <2> QED BY <1>1, <2>1, OneLess DEF KeyRecords
<1> HIDE DEF x, y, x2, y2, g, h, Phase
<1>4. PICK d, e \in {-1, 0, 1} : /\ ~crashed => d = 0 /\ e = 0
                                 /\ mem["dirtyCount"][0] = x + d
                                 /\ mem["onlyKeyCount"][0] = y + e
  BY DEF Counts, x, y
<1>5. n["dirtyCount"][0] = x2 + d
  <2>1. n["dirtyCount"][0] = IF g THEN mem["dirtyCount"][0] - 1 ELSE mem["dirtyCount"][0]
    BY DEF g
  <2>2. x \in Int /\ d \in Int /\ mem["dirtyCount"][0] = x + d
    BY <1>2, <1>4
  <2> QED BY ONLY <1>2, <2>1, <2>2, CountLess
<1>6. n["onlyKeyCount"][0] = y2 + e
  <2>1. n["onlyKeyCount"][0] = IF h THEN mem["onlyKeyCount"][0] - 1 ELSE mem["onlyKeyCount"][0]
    BY DEF h
  <2>2. y \in Int /\ e \in Int /\ mem["onlyKeyCount"][0] = y + e
    BY <1>3, <1>4
  <2> QED BY ONLY <1>3, <2>1, <2>2, CountLess
<1> QED BY <1>4, <1>5, <1>6 DEF Counts, x2, y2

(* The chunks of the record and its block are to be given back.            *)
LEMMA ToGiveBack ==
  ASSUME NEW S, NEW P, Chains(mem, S, P), NEW a \in Range(S), a \in Addr
  PROVE  LET t == Chain(a) \o <<a>>
         IN  t \in Seq(Addr) /\ t # <<>> /\ IsInjective(t) /\ Range(t) = Range(P[a])
<1>1. PartsAre(a, P[a])
  BY ChainFound
<1> DEFINE c == Chain(a)
           l == <<a>>
<1>2. /\ c \in Seq(Addr) /\ IsInjective(c) /\ a \notin Range(c)
      /\ Range(P[a]) = {a} \cup Range(c)
  BY <1>1 DEF PartsAre
<1> HIDE DEF c
<1>3. l \in Seq(Addr) /\ DOMAIN l = 1 .. 1 /\ l[1] = a /\ Len(l) = 1
  OBVIOUS
<1> HIDE DEF l
<1>4. IsInjective(l) /\ Range(l) = {a}
  <2>1. \A i \in 1 .. 1 : i = 1
    OBVIOUS
  <2> QED BY <1>3, <2>1 DEF IsInjective, Range
<1>5. /\ c \o l \in Seq(Addr) /\ IsInjective(c \o l) /\ Range(c \o l) = Range(c) \cup Range(l)
  BY <1>2, <1>3, <1>4, SideBySide
<1>6. c \o l # <<>>
  BY <1>2, <1>3
<1> QED BY <1>2, <1>4, <1>5, <1>6 DEF c, l

(* Block::erase, inside any operation, keeps the map whole.                *)
LEMMA EraseKeeps ==
  ASSUME NEW S, NEW G, NEW B, NEW P, NEW U, WholeMap(S, G, B, P, U), NEW a \in Range(S),
         NEW o, NEW ret, Erasing(o, a, ret), Erase(a, o, ret), calls' \in 0 .. MaxCalls
  PROVE  WholeMapNow'
<1> DEFINE t == Chain(a) \o <<a>>
           o2 == Releasing(o, t, ret)
           Q == OtherChains(P, a)
           cl == calls'
<1>1. /\ Shape(mem) /\ Flags(mem) /\ Lists(mem, S, G, B) /\ Cursors(mem, S)
      /\ Chains(mem, S, P) /\ Places(mem, P, U, free, op, crashed)
      /\ UniqueKeys(mem, S, op) /\ Counts(mem, S, op, crashed)
      /\ Working(op, S, P, crashed, calls) /\ Range(S) \subseteq Addr /\ S \in Seq(Addr)
      /\ IsFiniteSet(Range(S)) /\ Listing(S, G)
  BY PartsOf
<1>2. Commit(eraseLog(a)) /\ op' = o2 /\ free' = free /\ crashed' = crashed
  BY DEF Erase
<1>3. PICK p \in 1 .. Len(S) : S[p] = a
  BY <1>1, Position
<1>4. PICK n, q, r : q \in 1 .. Len(G) /\ G[q] = S[p] /\ Erased(n, S, G, B, p, q, r)
  BY <1>1, EraseMakes
<1> DEFINE S2 == Without(S, p)
           G2 == Without(G, q)
           i == mem["index"][a]
           B2 == [B EXCEPT ![i] = Without(B[i], r)]
<1>5. /\ Makes(eraseLog(a), mem, n)
      /\ Shape(n) /\ Touches(mem, n, EraseFields, Range(S))
      /\ Lists(n, S2, G2, B2)
      /\ n["dirtyTail"][0] = IF DirtyTail = a THEN mem["setPrev"][a] ELSE DirtyTail
      /\ n["syncTail"][0] = IF SyncTail = a THEN mem["setPrev"][a] ELSE SyncTail
      /\ n["backupTail"][0] = IF BackupTail = a THEN mem["getPrev"][a] ELSE BackupTail
      /\ n["dirtyCount"][0] = IF mem["dirty"][a] THEN mem["dirtyCount"][0] - 1
                              ELSE mem["dirtyCount"][0]
      /\ n["onlyKeyCount"][0] = IF mem["onlyKey"][a] THEN mem["onlyKeyCount"][0] - 1
                                ELSE mem["onlyKeyCount"][0]
  BY <1>3, <1>4 DEF Erased
<1>6. mem' = n
  BY <1>2, <1>5, CommitMakes
<1>7. Range(S2) = Range(S) \ {a}
  <2>1. DList(S, mem["setNext"], mem["setPrev"])
    BY <1>1 DEF Lists, Spot
  <2> QED BY <1>3, <2>1, WithoutOf
<1> HIDE DEF S2, G2, B2, Q
<1>8. /\ n["dirty"] = mem["dirty"] /\ n["onlyKey"] = mem["onlyKey"]
      /\ n["nextChunk"] = mem["nextChunk"] /\ n["len"] = mem["len"] /\ n["key"] = mem["key"]
      /\ n["usedChunk"] = mem["usedChunk"] /\ n["index"] = mem["index"]
  BY <1>5, EraseFieldsApart, Unaltered
<1>9. Cursors(n, S2)
  BY <1>1, <1>5, <1>7, CursorsWithout
<1>10. /\ Chains(n, S2, Q) /\ UsedIn(Q) = UsedIn(P) \ Range(P[a])
       /\ Range(P[a]) \subseteq UsedIn(P) /\ \A b \in Range(S2) : Q[b] = P[b]
  BY <1>1, <1>7, <1>8, ChainsWithout DEF Q
<1>11. t \in Seq(Addr) /\ t # <<>> /\ IsInjective(t) /\ Range(t) = Range(P[a])
  BY <1>1, ToGiveBack
<1> HIDE DEF t
<1>12. /\ Working(o2, S2, Q, crashed, cl) /\ ToRelease(o2) = t
       /\ Unlinked(o2) = {} /\ o2.chunks = op.chunks
       /\ Phase(o2) \notin {"copy", "count"}
       /\ Phase(o2) \in Making => /\ Phase(op) = Phase(o2) /\ o2.key = op.key
                                  /\ o2.addr = op.addr
  <2> HIDE DEF cl
  <2>1. cl \in 0 .. MaxCalls
    BY DEF cl
  <2> QED BY <1>1, <1>7, <1>10, <1>11, <2>1, ErasingWorks
<1>13. /\ Phase(op) \notin {"copy", "count"} /\ ToRelease(op) = <<>> /\ Unlinked(op) = {}
  <2>1. Phase(op) \notin {"copy", "count", "link"} /\ op.pc # "release"
    BY DEF Erasing
  <2>2. op.pc # "link"
    BY <2>1 DEF Phase
  <2> QED BY <2>1, <2>2 DEF ToRelease, Unlinked
<1> HIDE DEF o2, Phase
<1>14. Flags(n)
  BY <1>1, <1>8 DEF Flags
<1>15. Places(n, Q, U, free, o2, crashed)
  <2>1. Range(t) \cap UsedIn(Q) = {} /\ Range(t) \cup UsedIn(Q) = UsedIn(P)
    BY <1>10, <1>11
  <2>2. n["usedChunk"][0] = mem["usedChunk"][0]
    BY <1>8
  <2>3. \A f \in BlockFields : \A b \in Addr \ UsedIn(P) : n[f][b] = mem[f][b]
    <3>1. Range(S) \subseteq UsedIn(P)
      BY <1>1, RecordsAreUsed
    <3> QED BY <1>5, <3>1, Unaltered
  <2> QED BY <1>1, <1>11, <1>12, <1>13, <2>1, <2>2, <2>3, PlacesCut
<1>16. UniqueKeys(n, S2, o2)
  <2>1. \A x \in Range(S2), k \in Keys : x \in Range(S) /\ (Is(n, x, k) => Is(mem, x, k))
    BY <1>7, <1>8 DEF Is, Readable
  <2>2. Phase(op) \in Making => op.key \in Keys
    BY <1>1 DEF Working
  <2> QED BY <1>1, <1>8, <1>12, <2>1, <2>2, UniqueKeysKept
<1>17. Counts(n, S2, o2, crashed)
  BY <1>1, <1>5, <1>7, <1>8, <1>12, <1>13, ErasedCounts
<1>18. Whole(n, free, o2, crashed, cl, S2, G2, B2, Q, U)
  BY <1>5, <1>9, <1>10, <1>12, <1>14, <1>15, <1>16, <1>17 DEF Whole
<1>19. Becomes(n, free, o2, crashed, cl)
  BY <1>2, <1>6 DEF Becomes
<1> HIDE DEF cl
<1> QED BY <1>18, <1>19, NextIsWhole

(* A new record for whose data there is no room is erased again; the map   *)
(* stays whole.                                                            *)
LEMMA UndoNewKeeps ==
  ASSUME NEW S, NEW G, NEW B, NEW P, NEW U, WholeMap(S, G, B, P, U), undoNew
  PROVE  WholeMapNow'
<1>1. /\ op.pc = "undo" /\ Erase(op.addr, op, "return") /\ calls' = calls
  BY DEF undoNew
<1>2. Working(op, S, P, crashed, calls) /\ calls \in 0 .. MaxCalls
  BY PartsOf
<1>3. /\ DOMAIN op = DOMAIN Idle /\ Phase(op) = "undo" /\ op.chunks = <<>> /\ op.addr \in Range(S)
      /\ op.addr \in Addr \cup {0} /\ op.n \in 0 .. NBlocks + EraseCount /\ op.dirty \in BOOLEAN
  BY <1>1, <1>2, AtWork DEF AtRecord
<1> HIDE DEF Phase
<1>4. Erasing(op, op.addr, "return")
  BY <1>1, <1>3 DEF Erasing
<1>5. calls' \in 0 .. MaxCalls
  BY <1>1, <1>2
<1> QED BY <1>1, <1>3, <1>4, <1>5, EraseKeeps

(* The victim is a record, and not the one that is being set.              *)
LEMMA VictimIsOther ==
  ASSUME NEW S, NEW G, Listing(S, G), Victim # 0, op.back = "chunk" => op.addr \in Range(S)
  PROVE  Victim \in Range(S) /\ (op.back = "chunk" => Victim # op.addr)
<1>1. /\ GetTail \in Range(S) \cup {0} /\ Range(S) \subseteq Addr
  BY CursorValues
<1>2. 0 \notin Addr
  BY HashMapAssumption
<1>3. \A a \in Range(S) : mem["getPrev"][a] \in (Range(S) \ {a}) \cup {0}
  <2>1. Spot(mem, G, "getHead", "getTail", "getNext", "getPrev") /\ Range(G) = Range(S)
    BY DEF Listing
  <2>2. \A a \in Range(G) : mem["getPrev"][a] \in (Range(G) \ {a}) \cup {0}
    BY ONLY <2>1, PrevIsOther
  <2> QED BY <2>1, <2>2
<1>4. CASE op.back = "chunk" /\ GetTail # 0 /\ GetTail = op.addr
  <2>1. Victim = mem["getPrev"][GetTail] /\ GetTail \in Range(S)
    BY <1>1, <1>4 DEF Victim
  <2>2. Victim \in Range(S) /\ Victim # GetTail
    <3>1. mem["getPrev"][GetTail] \in (Range(S) \ {GetTail}) \cup {0}
      BY <1>3, <2>1
    <3> HIDE DEF Victim
    <3> QED BY <2>1, <3>1
  <2> QED BY <1>4, <2>2
<1>5. CASE ~(op.back = "chunk" /\ GetTail # 0 /\ GetTail = op.addr)
  <2>1. Victim = GetTail
    <3>1. CASE op.back = "chunk"
      BY <1>5, <3>1 DEF Victim
    <3>2. CASE op.back # "chunk"
      <4>1. ~(GetTail # 0 /\ GetTail = 0)
        OBVIOUS
      <4> QED BY <3>2, <4>1 DEF Victim
    <3> QED BY <3>1, <3>2
  <2>2. GetTail # 0
    BY <2>1
  <2> QED BY <1>1, <1>5, <2>1, <2>2
<1> QED BY <1>4, <1>5

(* Eviction keeps the map whole and never takes the record that is being   *)
(* set.                                                                    *)
LEMMA EraseExceptKeeps ==
  ASSUME NEW S, NEW G, NEW B, NEW P, NEW U, WholeMap(S, G, B, P, U), eraseExcept
  PROVE  WholeMapNow'
<1> DEFINE a == Victim
           c == Counted(a)
           o == [op EXCEPT !.n = IF c THEN @ - 1 ELSE @]
<1>1. op.pc = "evict"
  BY DEF eraseExcept
<1>2. Working(op, S, P, crashed, calls) /\ Listing(S, G) /\ calls \in 0 .. MaxCalls
  BY PartsOf
<1>3. CASE AutoErase /\ op.n # 0 /\ a # 0
  <2>1. Erase(a, o, "evict") /\ calls' = calls
    BY <1>3 DEF eraseExcept
  <2>2. /\ DOMAIN op = DOMAIN Idle /\ op.back \in {"block", "chunk"} /\ op.n \in 0 .. EraseCount
        /\ op.addr \in Addr \cup {0} /\ op.dirty \in BOOLEAN
    BY <1>1, <1>2 DEF Working
  <2>3. Phase(op) = op.back
    BY <1>1 DEF Phase
  <2> HIDE DEF Phase
  <2>4. op.back = "chunk" => op.addr \in Range(S)
    BY <1>2, <2>3 DEF Working, AtRecord
  <2>5. a \in Range(S) /\ (op.back = "chunk" => a # op.addr)
    BY <1>2, <1>3, <2>4, VictimIsOther
  <2> HIDE DEF a, c
  <2>6. DOMAIN o = DOMAIN Idle /\ \A f \in DOMAIN Idle \ {"n"} : o[f] = op[f]
    BY <2>2
  <2>7. o.n = (IF c THEN op.n - 1 ELSE op.n)
    BY <2>2, OperationFields
  <2> HIDE DEF o
  <2>8. o.chunks = op.chunks /\ o.addr = op.addr /\ o.dirty = op.dirty
    BY <2>6, OperationFields
  <2>9. o.n \in 0 .. EraseCount /\ o.n \in 0 .. NBlocks + EraseCount
    <3> DEFINE i == op.n
               j == o.n
               z == NBlocks
               e == EraseCount
    <3>1. z \in Nat /\ e \in Nat /\ i \in 0 .. e /\ i # 0 /\ j = (IF c THEN i - 1 ELSE i)
      BY <1>3, <2>2, <2>7, HashMapAssumption, FS_CardinalityType DEF NBlocks
    <3> HIDE DEF i, j, z, e
    <3>2. j \in 0 .. e /\ j \in 0 .. z + e
      BY <3>1
    <3> QED BY <3>2 DEF j, z, e
  <2>10. Erasing(o, a, "evict")
    BY <1>1, <2>2, <2>3, <2>5, <2>6, <2>8, <2>9 DEF Erasing
  <2>11. calls' \in 0 .. MaxCalls
    BY <1>2, <2>1
  <2> QED BY <2>1, <2>5, <2>10, <2>11, EraseKeeps
<1>4. CASE ~(AutoErase /\ op.n # 0 /\ a # 0)
  <2>1. /\ op' = IF AutoErase /\ op.n # EraseCount THEN [op EXCEPT !.pc = op.back]
                 ELSE Releasing([op EXCEPT !.chunks = <<>>, !.res = "noMemory"], op.chunks,
                                IF op.fresh /\ op.back = "chunk" THEN "undo" ELSE "return")
        /\ UNCHANGED <<mem, free, crashed, calls>>
    BY <1>4 DEF eraseExcept
  <2>2. CASE AutoErase /\ op.n # EraseCount
    BY <1>1, <2>1, <2>2, GoesOnKeeps
  <2>3. CASE ~(AutoErase /\ op.n # EraseCount)
    BY <1>1, <2>1, <2>3, GivesUpKeeps
  <2> QED BY <2>2, <2>3
<1> QED BY <1>3, <1>4

(* An operation that begins with the erasure of a record.                  *)
LEMMA StartsErasing ==
  ASSUME NEW S, NEW G, NEW B, NEW P, NEW U, WholeMap(S, G, B, P, U), Begin, NEW a \in Range(S),
         NEW name, NEW k, Erase(a, Start(name, k), "return")
  PROVE  WholeMapNow'
<1> DEFINE o == Start(name, k)
<1>1. Working(op, S, P, crashed, calls)
  BY PartsOf
<1>2. op = Idle /\ calls' \in 0 .. MaxCalls
  BY <1>1, BeginWorks
<1>3. /\ DOMAIN o = DOMAIN Idle /\ o.chunks = <<>> /\ o.addr = 0 /\ o.n = 0 /\ o.dirty = FALSE
  BY DEF Start, Idle
<1> HIDE DEF o
<1>4. o.n \in 0 .. NBlocks + EraseCount /\ o.dirty \in BOOLEAN /\ o.addr \in Addr \cup {0}
  <2> DEFINE z == NBlocks
  <2> DEFINE e == EraseCount
  <2>1. z \in Nat /\ e \in Nat
    BY HashMapAssumption, FS_CardinalityType DEF NBlocks
  <2> HIDE DEF z, e
  <2>2. 0 \in 0 .. z + e
    BY <2>1
  <2>3. o.n \in 0 .. z + e
    BY <2>2, <1>3
  <2>4. o.dirty \in BOOLEAN /\ o.addr \in Addr \cup {0}
    BY <1>3
  <2> QED BY <2>3, <2>4 DEF z, e
<1>5. op.chunks = <<>> /\ op.pc = "idle" /\ Phase(op) = "idle"
  BY <1>2, IdleHands DEF Idle
<1> HIDE DEF Phase
<1>6. Erasing(o, a, "return")
  BY <1>3, <1>4, <1>5 DEF Erasing
<1> QED BY <1>2, <1>6, EraseKeeps DEF o

(* del keeps the map whole.                                                *)
LEMMA DelKeeps ==
  ASSUME NEW S, NEW G, NEW B, NEW P, NEW U, WholeMap(S, G, B, P, U), NEW k \in Keys, del(k)
  PROVE  WholeMapNow'
<1>1. Begin /\ findValue(k) \in Addr /\ Erase(findValue(k), Start("del", k), "return")
  BY DEF del
<1>2. findValue(k) \in Range(S)
  BY <1>1, PartsOf, FindValueFinds
<1> QED BY <1>1, <1>2, StartsErasing

(* erase keeps the map whole, whether it takes the last record or keeps it *)
(* because it is dirty.                                                    *)
LEMMA EraseTailKeeps ==
  ASSUME NEW S, NEW G, NEW B, NEW P, NEW U, WholeMap(S, G, B, P, U), NEW check, erase(check)
  PROVE  WholeMapNow'
<1>1. Begin /\ GetTail # 0
  BY DEF erase
<1>2. GetTail \in Range(S)
  BY <1>1, PartsOf, CursorValues
<1>3. CASE check /\ mem.dirty[GetTail]
  <2>1. Commit(KeepDirtyLog(GetTail)) /\ UNCHANGED <<free, op, crashed>>
    BY <1>3 DEF erase, KeepDirtyLog
  <2> QED BY <1>1, <2>1, KeepDirtyKeeps
<1>4. CASE ~(check /\ mem.dirty[GetTail])
  <2>1. Erase(GetTail, Start("erase", None), "return")
    BY <1>4 DEF erase
  <2> QED BY <1>1, <1>2, <2>1, StartsErasing
<1> QED BY <1>3, <1>4

(* What recover erases is a record.                                        *)
LEMMA RecoveredIsRecord ==
  ASSUME NEW S, NEW G, NEW B, Lists(mem, S, G, B), NEW i \in Index, Unreadable(i) # {}
  PROVE  Chained(i)[Min(Unreadable(i))] \in Range(S)
<1> DEFINE chain == Chained(i)
           at == Unreadable(i)
           j == Min(at)
<1>1. at # {}
  OBVIOUS
<1>3. chain = B[i]
  BY ListsFound
<1>4. /\ DList(B[i], mem["blockNext"], mem["blockPrev"])
      /\ Range(B[i]) = {a \in Range(S) : mem["index"][a] = i}
  BY DEF Lists, Buckets
<1> HIDE DEF chain
<1>5. /\ DOMAIN chain = 1 .. Len(chain) /\ Len(chain) \in Nat
      /\ \A h \in 1 .. Len(chain) : chain[h] \in Range(S)
  BY <1>3, <1>4, Sides
<1>6. at \subseteq DOMAIN chain
  BY DEF Unreadable, chain
<1> HIDE DEF at
<1>7. j \in at
  <2>1. at \in SUBSET Nat /\ at # {}
    BY <1>1, <1>5, <1>6
  <2>2. PICK n \in at : \A m \in at : n <= m
    BY <2>1, LeastOfNaturals
  <2> QED BY <2>2 DEF Min
<1> HIDE DEF j
<1>8. chain[j] \in Range(S)
  BY <1>5, <1>6, <1>7
<1> QED BY <1>8 DEF chain, at, j

(* recover keeps the map whole.                                            *)
LEMMA RecoverKeeps ==
  ASSUME NEW S, NEW G, NEW B, NEW P, NEW U, WholeMap(S, G, B, P, U), NEW i \in Index, recover(i)
  PROVE  WholeMapNow'
<1>1. /\ Begin /\ Unreadable(i) # {}
      /\ Erase(Chained(i)[Min(Unreadable(i))], Start("recover", None), "return")
  BY DEF recover
<1>2. Lists(mem, S, G, B)
  BY PartsOf
<1>3. Chained(i)[Min(Unreadable(i))] \in Range(S)
  BY <1>1, <1>2, RecoveredIsRecord
<1> QED BY <1>1, <1>3, StartsErasing

-----------------------------------------------------------------------------
(***************************************************************************)
(* The theorems.                                                           *)
(***************************************************************************)

(* What the memory holds at first.                                         *)
LEMMA InitialFields ==
  /\ DOMAIN InitMem = HeadFields \cup BlockFields \cup {"blockAddr", "listCount"}
  /\ \A f \in HeadFields : InitMem[f] = [a \in {0} |-> 0]
  /\ \A f \in BlockFields : InitMem[f] = [a \in Addr |-> ZeroBlock[f]]
  /\ \A f \in {"blockAddr", "listCount"} : InitMem[f] = [i \in Index |-> 0]
<1>1. \A f \in BlockFields : f \notin HeadFields
  BY DEF BlockFields, ZeroBlock, HeadFields
<1>2. \A f \in {"blockAddr", "listCount"} : f \notin HeadFields /\ f \notin BlockFields
  BY DEF BlockFields, ZeroBlock, HeadFields
<1> HIDE DEF HeadFields, BlockFields
<1> QED BY <1>1, <1>2 DEF InitMem

(* A map without records is whole.                                         *)
LEMMA InitialMap == Init => WholeMapNow
<1> SUFFICES ASSUME Init PROVE WholeMapNow
  OBVIOUS
<1>1. mem = InitMem /\ free = Addr /\ op = Idle /\ crashed = FALSE /\ calls = 0
  BY DEF Init
<1> DEFINE S == <<>>
<1> DEFINE B == [i \in Index |-> <<>>]
<1> DEFINE P == [a \in {} |-> <<>>]
<1>2. /\ DOMAIN mem = HeadFields \cup BlockFields \cup {"blockAddr", "listCount"}
      /\ \A f \in HeadFields : DOMAIN mem[f] = {0} /\ mem[f][0] = 0
      /\ \A f \in BlockFields : DOMAIN mem[f] = Addr /\ \A a \in Addr : mem[f][a] = ZeroBlock[f]
      /\ \A f \in {"blockAddr", "listCount"} : DOMAIN mem[f] = Index /\ \A i \in Index : mem[f][i] = 0
  BY <1>1, InitialFields
<1>3. Range(S) = {} /\ S \in Seq(Addr) /\ Len(S) = 0 /\ IsInjective(S)
  BY DEF Range, IsInjective
<1>4. ASSUME NEW nx, NEW pv PROVE DList(S, nx, pv)
  BY <1>3 DEF DList, Strung, Back
<1>5. Shape(mem)
  BY <1>2 DEF Shape
<1>6. First(S) = 0 /\ EndOf(S) = 0
  BY DEF First, EndOf
<1>8. Lists(mem, S, S, B)
  <2>1. /\ Spot(mem, S, "setHead", "setTail", "setNext", "setPrev")
        /\ Spot(mem, S, "getHead", "getTail", "getNext", "getPrev")
        /\ mem["elementCount"][0] = Len(S)
    BY <1>2, <1>3, <1>4, <1>6 DEF Spot, HeadFields
  <2>2. Buckets(mem, Range(S), B)
    <3>1. DOMAIN B = Index /\ \A j \in Index : B[j] = S
      OBVIOUS
    <3>2. \A j \in Index : mem["blockAddr"][j] = 0 /\ mem["listCount"][j] = 0
      BY <1>2
    <3> HIDE DEF B, S
    <3> QED BY <3>1, <3>2, <1>3, <1>4, <1>6 DEF Buckets
  <2> QED BY <2>1, <2>2 DEF Lists
<1>9. Cursors(mem, S)
  BY <1>2 DEF Cursors, HeadFields
<1>10. Chains(mem, S, P)
  BY <1>3 DEF Chains
<1>11. UsedIn(P) = {}
  BY DEF UsedIn
<1>12. Phase(op) = "idle" /\ op.chunks = <<>> /\ ToRelease(op) = <<>> /\ Unlinked(op) = {}
  BY <1>1, IdleHands
<1>13. Places(mem, P, {}, free, op, crashed)
  <2>1. \A a \in Addr : Blank(mem, a)
    BY <1>2 DEF Blank
  <2>2. mem["usedChunk"][0] = 0
    BY <1>2 DEF HeadFields
  <2>3. Cardinality(Addr \ (free \cup {})) = 0
    <3>1. Addr \ (free \cup {}) = {}
      BY <1>1
    <3> QED BY <3>1, FS_EmptySet
  <2> HIDE DEF P
  <2> QED BY <1>1, <1>3, <1>11, <1>12, <2>1, <2>2, <2>3 DEF Places
<1>14. UniqueKeys(mem, S, op)
  <2>1. Phase(op) \notin Making
    BY <1>12 DEF Making
  <2> QED BY <1>3, <2>1 DEF UniqueKeys
<1>15. Working(op, S, P, crashed, calls)
  <2>1. MaxCalls \in Nat
    BY HashMapAssumption
  <2>2. \A c : c = 0 => c \in 0 .. MaxCalls
    BY ONLY <2>1
  <2>3. crashed \in BOOLEAN /\ calls \in 0 .. MaxCalls
    BY <1>1, <2>2
  <2> QED BY <1>1, <2>3, IdleWorks
<1>16. Counts(mem, S, op, crashed)
  <2>1. DirtyRecords(mem, S) = {} /\ KeyRecords(mem, S) = {}
    BY <1>3 DEF DirtyRecords, KeyRecords
  <2>2. Cardinality(DirtyRecords(mem, S)) + 0 = 0 /\ Cardinality(KeyRecords(mem, S)) + 0 = 0
    <3>1. \A T : T = {} => Cardinality(T) + 0 = 0
      BY FS_EmptySet
    <3> QED BY ONLY <2>1, <3>1
  <2>3. mem["dirtyCount"][0] = 0 /\ mem["onlyKeyCount"][0] = 0
    BY <1>2 DEF HeadFields
  <2>4. Phase(op) \notin {"copy", "count"}
    BY <1>12
  <2> HIDE DEF S
  <2> QED BY <2>2, <2>3, <2>4 DEF Counts
<1>17. Flags(mem)
  <2>1. mem["dirty"] = [a \in Addr |-> FALSE] /\ mem["onlyKey"] = [a \in Addr |-> FALSE]
    <3>1. {"dirty", "onlyKey"} \subseteq BlockFields
          /\ ZeroBlock["dirty"] = FALSE /\ ZeroBlock["onlyKey"] = FALSE
      BY FieldNames DEF ZeroBlock
    <3> QED BY <1>1, <3>1, InitialFields
  <2> QED BY <2>1 DEF Flags
<1>18. WholeMap(S, S, B, P, {})
  <2> HIDE DEF S, B, P
  <2> QED BY <1>5, <1>8, <1>9, <1>10, <1>13, <1>14, <1>15, <1>16, <1>17 DEF WholeMap, Whole
<1> HIDE DEF S, B, P
<1> QED BY <1>18 DEF WholeMapNow

(* Every step keeps the map whole, also the one in which a process dies.   *)
LEMMA MapStep == WholeMapNow /\ [Next]_vars => WholeMapNow'
<1> SUFFICES ASSUME WholeMapNow, [Next]_vars PROVE WholeMapNow'
  OBVIOUS
<1>1. PICK S, G, B, P, U : WholeMap(S, G, B, P, U)
  BY DEF WholeMapNow
<1>2. CASE UNCHANGED vars
  <2>1. Becomes(mem, free, op, crashed, calls)
    BY <1>2 DEF vars, Becomes
  <2>2. Whole(mem, free, op, crashed, calls, S, G, B, P, U)
    BY <1>1 DEF WholeMap
  <2> QED BY <2>1, <2>2, NextIsWhole
<1>3. ASSUME NEW k \in Keys, NEW v \in Values \cup {None}, NEW d \in BOOLEAN, set(k, v, d)
      PROVE WholeMapNow'
  BY <1>1, <1>3, SetKeeps
<1>4. ASSUME NEW k \in Keys, \/ \E v \in Values, d \in BOOLEAN : set(k, v, d)
                             \/ set(k, None, FALSE)
                             \/ get(k) \/ del(k)
                             \/ \E d \in BOOLEAN : markDirty(k, d)
      PROVE WholeMapNow'
  <2>1. CASE \E v \in Values, d \in BOOLEAN : set(k, v, d)
    <3>1. PICK v \in Values, d \in BOOLEAN : set(k, v, d)
      BY <2>1
    <3>2. v \in Values \cup {None}
      OBVIOUS
    <3> QED BY <3>1, <3>2, <1>3
  <2>2. CASE set(k, None, FALSE)
    <3>1. PICK v : v = None
      OBVIOUS
    <3>2. PICK d : d = FALSE
      OBVIOUS
    <3>3. set(k, v, d) /\ v \in Values \cup {None} /\ d \in BOOLEAN
      BY <2>2, <3>1, <3>2
    <3> QED BY <3>3, <1>3
  <2>3. CASE get(k)
    BY <1>1, <2>3, GetKeeps
  <2>4. CASE del(k)
    BY <1>1, <2>4, DelKeeps
  <2>5. CASE \E d \in BOOLEAN : markDirty(k, d)
    <3>1. PICK d \in BOOLEAN : markDirty(k, d)
      BY <2>5
    <3> QED BY <1>1, <3>1, MarkDirtyKeeps
  <2> QED BY <1>4, <2>1, <2>2, <2>3, <2>4, <2>5
<1>5. ASSUME NEW check \in BOOLEAN, erase(check) PROVE WholeMapNow'
  BY <1>1, <1>5, EraseTailKeeps
<1>6. CASE backup \/ \E force \in BOOLEAN : backupBegin(force)
  BY <1>1, <1>6, BackupKeeps
<1>7. CASE syncBegin
  BY <1>1, <1>7, SyncBeginKeeps
<1>8. CASE syncNext
  BY <1>1, <1>8, SyncNextKeeps
<1>9. ASSUME NEW i \in Index, recover(i) PROVE WholeMapNow'
  BY <1>1, <1>9, RecoverKeeps
<1>10. CASE Crash
  BY <1>1, <1>10, CrashKeeps
<1>11. CASE Steps
  <2>1. CASE allocateMemBlock
    BY <1>1, <2>1, AllocateMemBlockKeeps
  <2>2. CASE makeNew
    BY <1>1, <2>2, MakeNewKeeps
  <2>3. CASE undoNew
    BY <1>1, <2>3, UndoNewKeeps
  <2>4. CASE eraseExcept
    BY <1>1, <2>4, EraseExceptKeeps
  <2>5. CASE allocate
    BY <1>1, <2>5, AllocateKeeps
  <2>6. CASE allocateChunk
    BY <1>1, <2>6, AllocateChunkKeeps
  <2>7. CASE joinChunk
    BY <1>1, <2>7, JoinChunkKeeps
  <2>8. CASE deallocate
    BY <1>1, <2>8, DeallocateKeeps
  <2>9. CASE flags
    BY <1>1, <2>9, FlagsKeep
  <2>10. CASE copy
    BY <1>1, <2>10, CopyKeeps
  <2>11. CASE count
    BY <1>1, <2>11, CountKeeps
  <2>12. CASE setDirtyFlag
    BY <1>1, <2>12, SetDirtyFlagKeeps
  <2>13. CASE refreshSetList
    BY <1>1, <2>13, RefreshSetKeeps
  <2>14. CASE refreshGetList
    BY <1>1, <2>14, RefreshGetKeeps
  <2>15. CASE sync \/ synced
    BY <1>1, <2>15, SyncKeeps
  <2>16. CASE Done
    BY <1>1, <2>16, DoneKeeps
  <2> QED BY ONLY <1>11, <2>1, <2>2, <2>3, <2>4, <2>5, <2>6, <2>7, <2>8, <2>9, <2>10, <2>11, <2>12,
                  <2>13, <2>14, <2>15, <2>16 DEF Steps
<1> QED
  BY ONLY [Next]_vars, <1>2, <1>4, <1>5, <1>6, <1>7, <1>8, <1>9, <1>10, <1>11 DEF Next

(* The map is whole at every point where a process can die, and whatever   *)
(* was done before and after it did: the set list, the get list and the    *)
(* buckets are doubly linked, hold the same records and agree with the     *)
(* counts, the cursors of write-back and backup point to records, and no   *)
(* key has two records.                                                    *)
THEOREM MapStaysWhole == Spec => []MapIsWhole
<1>1. WholeMapNow => MapIsWhole
  BY WholeMapIsWhole DEF WholeMapNow
<1> QED BY <1>1, InitialMap, MapStep, PTL DEF Spec

(* No block is in two of the places free, record, part of a record and in  *)
(* hand, and none is lost unless a process dies.                           *)
THEOREM BlocksKeepOnePlace == Spec => []BlocksHaveOnePlace
<1>1. WholeMapNow => BlocksHaveOnePlace
  BY WholeMapHasPlaces DEF WholeMapNow
<1> QED BY <1>1, InitialMap, MapStep, PTL DEF Spec

================================================================================
