------------------------- MODULE SharedMemory_proofs -------------------------
(***************************************************************************)
(* Proofs about the containers in shared memory, on the invariant of       *)
(* HashMap_proofs and beside it.  HashMap: what is read under the keys     *)
(* changes as CacheMap promises, and write-back reaches every dirty        *)
(* record.  UndoLog, MemJournal and MemQueue, for any places, values,      *)
(* elements, sizes and length of the logs: the undo log of TC_RBTree makes *)
(* the stores of an operation atomic, the redo log of TC_HashMap and       *)
(* TC_MemQueue the writes of a transaction, and the ring that TC_MemQueue  *)
(* keeps with it is a queue, wherever processes die, also while they undo, *)
(* copy or store.                                                          *)
(***************************************************************************)
EXTENDS HashMap_proofs, UndoLog, SharedLog, SharedRing

-----------------------------------------------------------------------------
(***************************************************************************)
(* What is read under the keys.  The map implements CacheMap: the proof    *)
(* adds to Whole what each operation has done of what is read (Served) and *)
(* shows for every action that it is a step of CacheMap or none it sees.   *)
(***************************************************************************)

(* From one block on, links lead along one sequence only.                  *)
LEMMA StrungOnce ==
  ASSUME NEW s \in Seq(Addr), NEW t \in Seq(Addr), s # <<>>, t # <<>>, s[1] = t[1],
         NEW nx, NEW nx2, Strung(s, nx), Strung(t, nx2), \A x \in Range(s) : nx2[x] = nx[x]
  PROVE  t = s
<1>1. Len(s) \in Nat /\ Len(t) \in Nat /\ Len(s) >= 1 /\ Len(t) >= 1
  OBVIOUS
<1>2. \A i \in 1 .. Len(s) : s[i] \in Addr /\ s[i] \in Range(s)
  BY DEF Range
<1>3. \A i \in 1 .. Len(t) : t[i] \in Addr
  OBVIOUS
<1>4. 0 \notin Addr
  BY HashMapAssumption
<1> DEFINE Wrong == {i \in 1 .. Len(s) : ~(i <= Len(t) /\ t[i] = s[i])}
<1>5. Wrong = {}
  <2> SUFFICES ASSUME Wrong # {} PROVE FALSE
    OBVIOUS
  <2>1. Wrong \in SUBSET Nat
    OBVIOUS
  <2>2. PICK i \in Wrong : \A j \in Wrong : i <= j
    <3> HIDE DEF Wrong
    <3> QED
      BY <2>1, LeastOfNaturals
  <2>3. i \in 2 .. Len(s)
    BY <1>1
  <2>4. i - 1 \in 1 .. Len(s) /\ i - 1 \notin Wrong
    <3>1. i - 1 \in 1 .. Len(s) /\ ~(i <= i - 1)
      BY <1>1, <2>3
    <3> HIDE DEF Wrong
    <3> QED
      BY <3>1, <2>2
  <2>5. i - 1 <= Len(t) /\ t[i - 1] = s[i - 1]
    BY <2>4
  <2>6. i - 1 \in 1 .. Len(t) /\ i - 1 # Len(s) /\ (i - 1) + 1 = i /\ i \in 1 .. Len(s)
    BY <1>1, <2>3, <2>5
  <2>7. nx[s[i - 1]] = s[i]
    BY <2>4, <2>6 DEF Strung
  <2>8. nx2[t[i - 1]] = s[i]
    BY <2>7, <2>4, <2>5, <1>2
  <2>9. i - 1 # Len(t)
    BY <2>6, <2>8, <1>2, <1>4 DEF Strung
  <2>10. i \in 1 .. Len(t)
    BY ONLY <1>1, <2>3, <2>6, <2>9
  <2>11. nx2[t[i - 1]] = t[(i - 1) + 1]
    BY <2>6, <2>9 DEF Strung
  <2>12. t[i] = s[i] /\ i <= Len(t)
    BY <2>6, <2>8, <2>10, <2>11
  <2> QED
    BY <2>12, <2>2
<1>8. \A i \in 1 .. Len(s) : i <= Len(t) /\ t[i] = s[i]
  BY <1>5
<1>9. Len(t) = Len(s)
  <2>1. Len(t) >= Len(s)
    BY <1>1, <1>8
  <2>2. ASSUME Len(t) > Len(s)
        PROVE  FALSE
    <3>1. nx[s[Len(s)]] = 0 /\ t[Len(s)] = s[Len(s)]
      BY <1>1, <1>8 DEF Strung
    <3>2. nx2[t[Len(s)]] = t[Len(s) + 1] /\ Len(s) + 1 \in 1 .. Len(t)
      BY <1>1, <2>2 DEF Strung
    <3> QED
      BY <3>1, <3>2, <1>1, <1>2, <1>3, <1>4
  <2> QED
    BY <1>1, <2>1, <2>2
<1> QED
  BY <1>8, <1>9

(* What is read in a record whose parts are s.                             *)
DataIn(m, s) ==
  LET a == s[1]
      last == s[Len(s)]
      v == m.val[a]
  IN  IF ~Readable(m, a) THEN "error"
      ELSE IF m.onlyKey[a] THEN "onlyKey"
      ELSE IF v = Torn \/ m.key[a] = None THEN Torn
      ELSE IF v = None THEN IF Len(s) = 1 THEN "error" ELSE Torn
      ELSE IF Len(s) - 1 + (IF m.len[last] = "none" THEN 0 ELSE 1) < Size[v] + 1
             THEN IF m.len[last] = "addr" THEN Torn ELSE "error"
      ELSE IF \A i \in 1 .. Size[v] : m.val[s[i + 1]] = v THEN v ELSE Torn

TypedValues(m) == \A a \in Addr : m.val[a] \in Values \cup {None, Torn}

(* Data reads what is in the parts of the record.                          *)
LEMMA DataFound ==
  ASSUME NEW S, NEW P, Chains(mem, S, P), TypedValues(mem), NEW a \in Range(S), a \in Addr
  PROVE  Data(a) = DataIn(mem, P[a])
<1>0. PICK s : s = P[a]
  OBVIOUS
<1>00. PICK t : t = Chain(a)
  OBVIOUS
<1>1. PartsAre(a, s) /\ s[1] = a
  BY <1>0, ChainFound DEF Chains
<1>2. /\ LastPart(a) = s[Len(s)] /\ Len(s) \in Nat /\ Len(s) >= 1 /\ s \in Seq(Addr)
      /\ t \in Seq(Addr) /\ Len(t) = Len(s) - 1 /\ \A j \in 1 .. Len(s) - 1 : t[j] = s[j + 1]
  BY <1>1, <1>00 DEF PartsAre
<1>3. t = <<>> <=> Len(s) = 1
  BY <1>2
<1>4. Parts(a) = Len(s) - 1 + (IF mem.len[s[Len(s)]] = "none" THEN 0 ELSE 1)
  BY <1>2, <1>00 DEF Parts
<1>5. KeyReadable(a) = Readable(mem, a)
  BY DEF KeyReadable, Readable
<1>55. PICK v : v = mem.val[a]
  OBVIOUS
<1>6. ASSUME v \in Values, ~(Parts(a) < Size[v] + 1)
      PROVE  (\A i \in 1 .. Size[v] : mem.val[t[i]] = v) <=> (\A i \in 1 .. Size[v] : mem.val[s[i + 1]] = v)
  <2>1. Size[v] \in Nat
    BY <1>6, HashMapAssumption
  <2>2. ~(Len(s) - 1 + 1 < Size[v] + 1) \/ ~(Len(s) - 1 < Size[v] + 1)
    BY <1>2, <1>4, <1>6, <2>1
  <2>3. \A i \in 1 .. Size[v] : i \in 1 .. Len(s) - 1
    BY ONLY <1>2, <2>1, <2>2
  <2> QED
    BY <1>2, <2>3
<1>7. v \in Values \/ v = None \/ v = Torn
  BY <1>55 DEF TypedValues
<1>8. v = mem.val[s[1]]
  BY <1>1, <1>55
<1> DEFINE Q == \A i \in 1 .. Size[v] : mem.val[t[i]] = v
           Q2 == \A i \in 1 .. Size[v] : mem.val[s[i + 1]] = v
<1>9. v \in Values /\ ~(Parts(a) < Size[v] + 1) => Q = Q2
  BY <1>6
<1>10. Data(a) = IF ~KeyReadable(a) THEN "error"
                 ELSE IF mem.onlyKey[a] THEN "onlyKey"
                 ELSE IF v = Torn \/ mem.key[a] = None THEN Torn
                 ELSE IF v = None THEN IF t = <<>> THEN "error" ELSE Torn
                 ELSE IF Parts(a) < Size[v] + 1
                        THEN IF mem.len[LastPart(a)] = "addr" THEN Torn ELSE "error"
                 ELSE IF Q THEN v ELSE Torn
  BY <1>00, <1>55 DEF Data
<1>11. DataIn(mem, s) = IF ~Readable(mem, a) THEN "error"
                 ELSE IF mem.onlyKey[a] THEN "onlyKey"
                 ELSE IF v = Torn \/ mem.key[a] = None THEN Torn
                 ELSE IF v = None THEN IF Len(s) = 1 THEN "error" ELSE Torn
                 ELSE IF Len(s) - 1 + (IF mem.len[s[Len(s)]] = "none" THEN 0 ELSE 1) < Size[v] + 1
                        THEN IF mem.len[s[Len(s)]] = "addr" THEN Torn ELSE "error"
                 ELSE IF Q2 THEN v ELSE Torn
  BY <1>1, <1>55 DEF DataIn
<1> HIDE DEF Q, Q2
<1>12. Data(a) = DataIn(mem, s)
  BY <1>2, <1>3, <1>4, <1>5, <1>7, <1>9, <1>10, <1>11
<1> QED
  BY <1>12, <1>0

(* Two memories hold the same in the parts s.                              *)
Alike(m, n, s) ==
  \A f \in {"nextChunk", "len", "onlyKey", "key", "val"} : \A x \in Range(s) : n[f][x] = m[f][x]

(* What is read in a record is in its parts.                               *)
LEMMA AlikeReads ==
  ASSUME NEW m, NEW n, NEW s \in Seq(Addr), s # <<>>, Alike(m, n, s), TypedValues(m)
  PROVE  /\ DataIn(n, s) = DataIn(m, s)
         /\ \A k : n.index[s[1]] = m.index[s[1]] => Is(n, s[1], k) = Is(m, s[1], k)
<1>1. Len(s) \in Nat /\ Len(s) >= 1 /\ \A i \in 1 .. Len(s) : s[i] \in Addr /\ s[i] \in Range(s)
  BY DEF Range
<1>2. s[1] \in Range(s) /\ s[Len(s)] \in Range(s) /\ s[1] \in Addr
  BY <1>1
<1>3. \A x \in Range(s) : /\ n.nextChunk[x] = m.nextChunk[x] /\ n.len[x] = m.len[x]
                          /\ n.onlyKey[x] = m.onlyKey[x] /\ n.key[x] = m.key[x]
                          /\ n.val[x] = m.val[x]
  BY DEF Alike
<1>4. Readable(n, s[1]) = Readable(m, s[1])
  BY <1>2, <1>3 DEF Readable
<1>5. PICK v : v = m.val[s[1]]
  OBVIOUS
<1>6. v \in Values \/ v = None \/ v = Torn
  BY <1>5, <1>2 DEF TypedValues
<1> DEFINE Q(z) == \A i \in 1 .. Size[v] : z.val[s[i + 1]] = v
           W(z) == Len(s) - 1 + (IF z.len[s[Len(s)]] = "none" THEN 0 ELSE 1) < Size[v] + 1
<1>7. ASSUME v \in Values, ~W(m)
      PROVE  Q(n) = Q(m)
  <2>1. Size[v] \in Nat
    BY <1>7, HashMapAssumption
  <2>2. ~(Len(s) - 1 + 1 < Size[v] + 1) \/ ~(Len(s) - 1 < Size[v] + 1)
    BY <1>7, <1>1, <2>1
  <2>3. \A i \in 1 .. Size[v] : i + 1 \in 1 .. Len(s)
    BY ONLY <1>1, <2>1, <2>2
  <2>4. \A i \in 1 .. Size[v] : n.val[s[i + 1]] = m.val[s[i + 1]]
    BY <1>1, <1>3, <2>3
  <2> QED
    BY <2>4
<1>8. W(n) = W(m)
  BY <1>2, <1>3
<1>9. \A z \in {m, n} : z.val[s[1]] = v =>
        DataIn(z, s) = IF ~Readable(z, s[1]) THEN "error"
                       ELSE IF z.onlyKey[s[1]] THEN "onlyKey"
                       ELSE IF v = Torn \/ z.key[s[1]] = None THEN Torn
                       ELSE IF v = None THEN IF Len(s) = 1 THEN "error" ELSE Torn
                       ELSE IF W(z) THEN IF z.len[s[Len(s)]] = "addr" THEN Torn ELSE "error"
                       ELSE IF Q(z) THEN v ELSE Torn
  BY DEF DataIn
<1> HIDE DEF Q, W
<1>10. DataIn(n, s) = DataIn(m, s)
  <2>1. m.val[s[1]] = v /\ n.val[s[1]] = v /\ n.onlyKey[s[1]] = m.onlyKey[s[1]]
        /\ n.key[s[1]] = m.key[s[1]] /\ n.len[s[Len(s)]] = m.len[s[Len(s)]]
    BY <1>2, <1>3, <1>5
  <2>2. ~W(m) /\ v # Torn /\ v # None => Q(n) = Q(m)
    BY <1>6, <1>7
  <2> QED
    BY <1>4, <1>8, <1>9, <2>1, <2>2
<1>11. \A k : n.index[s[1]] = m.index[s[1]] => Is(n, s[1], k) = Is(m, s[1], k)
  BY <1>4, <1>2, <1>3 DEF Is
<1> QED
  BY <1>10, <1>11

(* A key has one record.                                                   *)
OneEach(m, S) == \A k \in Keys : \A a, b \in Range(S) : Is(m, a, k) /\ Is(m, b, k) => a = b

(* The records of the memory: S, in the order of the set list, with parts P. *)
Records(m, S, G, B, P) ==
  Shape(m) /\ Lists(m, S, G, B) /\ Chains(m, S, P) /\ OneEach(m, S) /\ TypedValues(m)

(* V is what is read under each key in the records of R.                   *)
Reading(m, R, P, V) ==
  /\ V = [k \in Keys |-> V[k]]
  /\ \A k \in Keys : /\ \A a \in R : Is(m, a, k) => V[k] = DataIn(m, P[a])
                     /\ (\A a \in R : ~Is(m, a, k)) => V[k] = Absent

(* What View finds.                                                        *)
LEMMA ViewRead ==
  \A S, G, B, P : Records(mem, S, G, B, P) => Reading(mem, Range(S), P, View)
<1> SUFFICES ASSUME NEW S, NEW G, NEW B, NEW P, Records(mem, S, G, B, P)
             PROVE  Reading(mem, Range(S), P, View)
  OBVIOUS
<1>1. Lists(mem, S, G, B) /\ Chains(mem, S, P) /\ OneEach(mem, S) /\ TypedValues(mem)
  BY DEF Records
<1>2. \A i \in Index : Chained(i) = B[i]
  BY <1>1, ListsFound
<1>3. Range(S) \subseteq Addr
  BY <1>1, Sides DEF Lists, Spot
<1>4. \A k \in Keys : Bucket[k] \in Index
  BY HashMapAssumption DEF Index
<1>5. \A i \in Index : Range(B[i]) = {a \in Range(S) : mem.index[a] = i}
  BY <1>1 DEF Lists, Buckets
<1>6. ASSUME NEW k \in Keys
      PROVE  Blocks(k) = {a \in Range(S) : Is(mem, a, k)}
  <2>1. Range(Chained(Bucket[k])) = {a \in Range(S) : mem.index[a] = Bucket[k]}
    BY <1>2, <1>4, <1>5
  <2> QED
    BY <2>1 DEF Blocks, Is, Readable, KeyReadable
<1>7. ASSUME NEW k \in Keys
      PROVE  View[k] = IF Blocks(k) = {} THEN Absent ELSE Data(CHOOSE a \in Blocks(k) : TRUE)
  BY DEF View
<1>8. View = [k \in Keys |-> View[k]]
  BY DEF View
<1>9. ASSUME NEW k \in Keys, NEW a \in Range(S), Is(mem, a, k)
      PROVE  View[k] = DataIn(mem, P[a])
  <2>1. a \in Blocks(k) /\ \A b \in Blocks(k) : b = a
    BY <1>1, <1>6, <1>9 DEF OneEach
  <2>2. (CHOOSE b \in Blocks(k) : TRUE) = a
    BY <2>1
  <2>3. Data(a) = DataIn(mem, P[a])
    BY <1>1, <1>3, DataFound
  <2> QED
    BY <1>7, <2>1, <2>2, <2>3
<1>10. ASSUME NEW k \in Keys, \A a \in Range(S) : ~Is(mem, a, k)
       PROVE  View[k] = Absent
  <2>1. Blocks(k) = {}
    BY <1>6, <1>10
  <2> QED
    BY <1>7, <2>1
<1> QED
  BY <1>8, <1>9, <1>10 DEF Reading

(* The same after a step.                                                  *)
LEMMA ViewReadNext ==
  \A S, G, B, P : Records(mem', S, G, B, P) => Reading(mem', Range(S), P, View')
<1>1. (\A S, G, B, P : Records(mem, S, G, B, P) => Reading(mem, Range(S), P, View))'
  BY ViewRead, PTL
<1> QED
  BY <1>1

(* A list is what its links make of its head.                              *)
LEMMA OneList ==
  ASSUME NEW s, NEW t, NEW nx, NEW pv, NEW pv2, DList(s, nx, pv), DList(t, nx, pv2),
         First(s) = First(t)
  PROVE  t = s
<1>1. 0 \notin Addr
  BY HashMapAssumption
<1>2. s \in Seq(Addr) /\ t \in Seq(Addr) /\ Strung(s, nx) /\ Strung(t, nx)
  BY DEF DList
<1>3. s # <<>> => s[1] \in Addr
  BY <1>2
<1>4. t # <<>> => t[1] \in Addr
  BY <1>2
<1>5. s = <<>> <=> t = <<>>
  BY <1>1, <1>3, <1>4 DEF First
<1>6. CASE s # <<>>
  <2>1. t # <<>> /\ s[1] = t[1]
    BY <1>5, <1>6 DEF First
  <2> QED
    BY <1>2, <1>6, <2>1, StrungOnce
<1> QED
  BY <1>5, <1>6

(* The set list is one.                                                    *)
LEMMA SameLists ==
  ASSUME NEW m, NEW S, NEW G, NEW B, NEW S2, NEW G2, NEW B2, Lists(m, S, G, B), Lists(m, S2, G2, B2)
  PROVE  S2 = S
<1>1. DList(S, m["setNext"], m["setPrev"]) /\ DList(S2, m["setNext"], m["setPrev"])
  BY DEF Lists, Spot
<1>2. First(S) = First(S2)
  BY DEF Lists, Spot
<1> QED
  BY <1>1, <1>2, OneList

(* The buckets hold what their links lead to.                              *)
LEMMA SameBuckets ==
  ASSUME NEW m, NEW n, NEW S, NEW G, NEW B, NEW S2, NEW G2, NEW B2,
         Lists(m, S, G, B), Lists(n, S2, G2, B2),
         n["blockNext"] = m["blockNext"], n["blockAddr"] = m["blockAddr"]
  PROVE  Range(S2) = Range(S)
<1>1. Buckets(m, Range(S), B) /\ Buckets(n, Range(S2), B2)
  BY DEF Lists
<1>2. ASSUME NEW i \in Index
      PROVE  B2[i] = B[i]
  <2>1. /\ DList(B[i], m["blockNext"], m["blockPrev"]) /\ DList(B2[i], m["blockNext"], n["blockPrev"])
        /\ First(B[i]) = First(B2[i])
    BY <1>1 DEF Buckets
  <2> QED
    BY <2>1, OneList
<1>3. ASSUME NEW a \in Range(S)
      PROVE  a \in Range(S2)
  BY <1>1, <1>2 DEF Buckets
<1>4. ASSUME NEW a \in Range(S2)
      PROVE  a \in Range(S)
  BY <1>1, <1>2 DEF Buckets
<1> QED
  BY <1>3, <1>4

(* The parts of a record are what its links lead to.                       *)
LEMMA SameParts ==
  ASSUME NEW m, NEW n, NEW S, NEW S2, NEW P, NEW P2, Chains(m, S, P), Chains(n, S2, P2),
         NEW b, b \in Range(S), b \in Range(S2),
         \A x \in Range(P[b]) : n["nextChunk"][x] = m["nextChunk"][x]
  PROVE  P2[b] = P[b]
<1>1. /\ P[b] \in Seq(Addr) /\ P[b] # <<>> /\ P[b][1] = b /\ Strung(P[b], m["nextChunk"])
      /\ P2[b] \in Seq(Addr) /\ P2[b] # <<>> /\ P2[b][1] = b /\ Strung(P2[b], n["nextChunk"])
  BY DEF Chains
<1> QED
  BY <1>1, StrungOnce

(* What records read is one of these.                                      *)
Readings == Values \cup {"onlyKey", "error", Torn}

(* Data are one of them.                                                   *)
LEMMA DataIsReading ==
  ASSUME NEW m, NEW s \in Seq(Addr), s # <<>>, TypedValues(m)
  PROVE  DataIn(m, s) \in Readings
<1>1. s[1] \in Addr
  OBVIOUS
<1>2. m.val[s[1]] \in Values \cup {None, Torn}
  BY <1>1 DEF TypedValues
<1> QED
  BY <1>2 DEF DataIn, Readings

(* The records of m are S, and V is what they read.                        *)
Shown(m, S, G, B, P, V) == Records(m, S, G, B, P) /\ Reading(m, Range(S), P, V)

(* Every record but a stays as it is.                                      *)
Beside(m, n, S, S2, P, a) ==
  /\ Range(S) \ {a} = Range(S2) \ {a}
  /\ \A b \in Range(S) \ {a} : Alike(m, n, P[b]) /\ n["index"][b] = m["index"][b]

(* What is read under a key that a has not stays.                          *)
LEMMA ReadElsewhere ==
  ASSUME NEW m, NEW n, NEW S, NEW G, NEW B, NEW P, NEW V, NEW S2, NEW G2, NEW B2, NEW P2, NEW W,
         Shown(m, S, G, B, P, V), Shown(n, S2, G2, B2, P2, W), NEW a, Beside(m, n, S, S2, P, a),
         NEW k \in Keys, a \in Range(S) => ~Is(m, a, k), a \in Range(S2) => ~Is(n, a, k)
  PROVE  W[k] = V[k]
<1>1. Chains(m, S, P) /\ Chains(n, S2, P2) /\ TypedValues(m)
  BY DEF Shown, Records
<1>2. ASSUME NEW b \in Range(S), b # a
      PROVE  /\ b \in Range(S2) /\ P2[b] = P[b] /\ DataIn(n, P[b]) = DataIn(m, P[b])
             /\ Is(n, b, k) = Is(m, b, k)
  <2>1. b \in Range(S2) /\ Alike(m, n, P[b]) /\ n["index"][b] = m["index"][b]
    BY <1>2 DEF Beside
  <2>2. P2[b] = P[b]
    BY <1>1, <2>1, SameParts DEF Alike
  <2>3. P[b] \in Seq(Addr) /\ P[b] # <<>> /\ P[b][1] = b
    BY <1>1 DEF Chains
  <2> QED
    BY <1>1, <2>1, <2>2, <2>3, AlikeReads
<1>3. \A b \in Range(S2) : b # a => b \in Range(S)
  BY DEF Beside
<1>4. CASE \E b \in Range(S) : Is(m, b, k)
  <2>1. PICK b \in Range(S) : Is(m, b, k)
    BY <1>4
  <2>2. b # a
    BY <2>1
  <2>3. b \in Range(S2) /\ Is(n, b, k) /\ P2[b] = P[b] /\ DataIn(n, P[b]) = DataIn(m, P[b])
    BY <1>2, <2>1, <2>2
  <2>4. V[k] = DataIn(m, P[b])
    BY <2>1 DEF Shown, Reading
  <2>5. W[k] = DataIn(n, P2[b])
    BY <2>3 DEF Shown, Reading
  <2> QED
    BY <2>3, <2>4, <2>5
<1>5. CASE \A b \in Range(S) : ~Is(m, b, k)
  <2>1. \A b \in Range(S2) : ~Is(n, b, k)
    BY <1>2, <1>3, <1>5
  <2> QED
    BY <1>5, <2>1 DEF Shown, Reading
<1> QED
  BY <1>4, <1>5

(* What is read under every key stays.                                     *)
LEMMA ReadTheSame ==
  ASSUME NEW m, NEW n, NEW S, NEW G, NEW B, NEW P, NEW V, NEW S2, NEW G2, NEW B2, NEW P2, NEW W,
         Shown(m, S, G, B, P, V), Shown(n, S2, G2, B2, P2, W), NEW a, Beside(m, n, S, S2, P, a),
         \A k \in Keys : a \in Range(S) => ~Is(m, a, k),
         \A k \in Keys : a \in Range(S2) => ~Is(n, a, k)
  PROVE  W = V
<1>1. \A k \in Keys : W[k] = V[k]
  BY ReadElsewhere
<1>2. W = [k \in Keys |-> W[k]] /\ V = [k \in Keys |-> V[k]]
  BY DEF Shown, Reading
<1> QED
  BY <1>1, <1>2

(* A record that goes takes what is read under its key with it.            *)
LEMMA ReadWithout ==
  ASSUME NEW m, NEW n, NEW S, NEW G, NEW B, NEW P, NEW V, NEW S2, NEW G2, NEW B2, NEW P2, NEW W,
         Shown(m, S, G, B, P, V), Shown(n, S2, G2, B2, P2, W), NEW a, Beside(m, n, S, S2, P, a),
         a \in Range(S), a \notin Range(S2)
  PROVE  \/ W = V
         \/ \E k \in Keys : Is(m, a, k) /\ W = [V EXCEPT ![k] = Absent]
<1>2. W = [k \in Keys |-> W[k]] /\ V = [k \in Keys |-> V[k]]
  BY DEF Shown, Reading
<1>3. CASE \A k \in Keys : ~Is(m, a, k)
  BY <1>3, ReadTheSame
<1>4. ASSUME NEW k \in Keys, Is(m, a, k)
      PROVE  W = [V EXCEPT ![k] = Absent]
  <2>1. ASSUME NEW j \in Keys, j # k
        PROVE  W[j] = V[j]
    <3>1. ~Is(m, a, j)
      BY <1>4, <2>1 DEF Is
    <3> QED
      BY <3>1, ReadElsewhere
  <2>2. ASSUME NEW b \in Range(S2)
        PROVE  ~Is(n, b, k)
    <3>1. b \in Range(S) /\ b # a /\ Alike(m, n, P[b]) /\ n["index"][b] = m["index"][b]
      BY DEF Beside
    <3>2. P[b] \in Seq(Addr) /\ P[b] # <<>> /\ P[b][1] = b /\ TypedValues(m)
      BY <3>1 DEF Shown, Records, Chains
    <3>3. Is(n, b, k) = Is(m, b, k)
      BY <3>1, <3>2, AlikeReads
    <3>4. ~Is(m, b, k)
      BY <1>4, <3>1 DEF Shown, Records, OneEach
    <3> QED
      BY <3>3, <3>4
  <2>3. W[k] = Absent
    BY <2>2 DEF Shown, Reading
  <2> QED
    BY <1>2, <2>1, <2>3
<1> QED
  BY <1>3, <1>4

(* A record that changes changes what is read under its key.               *)
LEMMA ReadOfOne ==
  ASSUME NEW m, NEW n, NEW S, NEW G, NEW B, NEW P, NEW V, NEW S2, NEW G2, NEW B2, NEW P2, NEW W,
         Shown(m, S, G, B, P, V), Shown(n, S2, G2, B2, P2, W), NEW a, Beside(m, n, S, S2, P, a),
         NEW k \in Keys, m["key"][a] \in {None, k}, n["key"][a] \in {None, k}
  PROVE  \E c \in Readings \cup {Absent} : W = [V EXCEPT ![k] = c]
<1>1. None \notin Keys
  BY HashMapAssumption
<1>2. W = [j \in Keys |-> W[j]] /\ V = [j \in Keys |-> V[j]]
  BY DEF Shown, Reading
<1>3. ASSUME NEW j \in Keys, j # k
      PROVE  W[j] = V[j]
  <2>1. ~Is(m, a, j) /\ ~Is(n, a, j)
    BY <1>1, <1>3 DEF Is
  <2> QED
    BY <2>1, ReadElsewhere
<1>4. W[k] \in Readings \cup {Absent}
  <2>1. CASE \E b \in Range(S2) : Is(n, b, k)
    <3>1. PICK b \in Range(S2) : Is(n, b, k)
      BY <2>1
    <3>2. W[k] = DataIn(n, P2[b])
      BY <3>1 DEF Shown, Reading
    <3>3. P2[b] \in Seq(Addr) /\ P2[b] # <<>> /\ TypedValues(n)
      BY <3>1 DEF Shown, Records, Chains
    <3> QED
      BY <3>2, <3>3, DataIsReading
  <2>2. CASE \A b \in Range(S2) : ~Is(n, b, k)
    BY <2>2 DEF Shown, Reading
  <2> QED
    BY <2>1, <2>2
<1>5. W = [V EXCEPT ![k] = W[k]]
  BY <1>2, <1>3
<1> QED
  BY <1>4, <1>5

-----------------------------------------------------------------------------
(***************************************************************************)
(* The steps of CacheMap.                                                  *)
(***************************************************************************)

(* A step of CacheMap, or one that it does not see.                        *)
CacheStep == Cache!Next \/ UNCHANGED <<View, HandOf>>

(* The operation has the same arguments.                                   *)
SameTask(o, o2) == o2.name = o.name /\ o2.key = o.key /\ o2.val = o.val /\ o2.old = o.old

(* What the map shows of an operation.                                     *)
LEMMA Hands ==
  /\ op.name = "set" => HandOf = [kind |-> "set", key |-> op.key, new |-> Stored(op.val),
                                  old |-> op.old, res |-> op.res]
  /\ op.name \in {"del", "erase", "recover"} =>
       HandOf = [kind |-> "drop", key |-> None, new |-> None, old |-> None, res |-> None]
  /\ op.name \notin {"set", "del", "erase", "recover"} =>
       HandOf = [kind |-> None, key |-> None, new |-> None, old |-> None, res |-> None]
  BY DEF HandOf, NoHand

(* The same after a step.                                                  *)
LEMMA HandsNext ==
  /\ op'.name = "set" => HandOf' = [kind |-> "set", key |-> op'.key, new |-> Stored(op'.val),
                                    old |-> op'.old, res |-> op'.res]
  /\ op'.name \in {"del", "erase", "recover"} =>
       HandOf' = [kind |-> "drop", key |-> None, new |-> None, old |-> None, res |-> None]
  /\ op'.name \notin {"set", "del", "erase", "recover"} =>
       HandOf' = [kind |-> None, key |-> None, new |-> None, old |-> None, res |-> None]
  BY DEF HandOf, NoHand, Stored

(* A set at work: other records go, or what is read under its key changes. *)
LEMMA SetWorks ==
  ASSUME op.name = "set", SameTask(op, op'),
         \/ View' = View
         \/ \E k \in Keys \ {op.key} : View' = [View EXCEPT ![k] = Absent]
         \/ \E c \in Readings \cup {Absent} : View' = [View EXCEPT ![op.key] = c]
  PROVE  CacheStep
<1>1. op'.name = "set" /\ op'.key = op.key /\ op'.val = op.val /\ op'.old = op.old
  BY DEF SameTask
<1>2. HandOf = [kind |-> "set", key |-> op.key, new |-> Stored(op.val),
                old |-> op.old, res |-> op.res]
  BY Hands
<1>3. HandOf' = [kind |-> "set", key |-> op.key, new |-> Stored(op.val),
                 old |-> op.old, res |-> op'.res]
  BY <1>1, HandsNext
<1>4. HandOf # Cache!Idle
  BY <1>2, NamesDiffer DEF Cache!Idle
<1>5. HandOf' = [HandOf EXCEPT !.res = HandOf'.res]
  BY <1>2, <1>3
<1>6. HandOf.kind = "set" /\ HandOf.key = op.key
  BY <1>2
<1>7. \/ View' = View
      \/ \E k \in Keys \ {HandOf.key} : Cache!Drop(k)
      \/ Cache!Own
  BY <1>6 DEF Cache!Drop, Cache!Own, Readings
<1> QED
  BY <1>4, <1>5, <1>7 DEF CacheStep, Cache!Next, Cache!Work

(* An operation goes on and nothing changes in what is read.               *)
LEMMA QuietWork ==
  ASSUME SameTask(op, op'), View' = View
  PROVE  CacheStep
<1>1. CASE op.name = "set"
  BY <1>1, SetWorks
<1>2. CASE op.name # "set"
  <2>1. HandOf' = HandOf
    BY <1>2, Hands, HandsNext DEF SameTask
  <2> QED
    BY <2>1 DEF CacheStep
<1> QED
  BY <1>1, <1>2

(* Steps of operations that CacheMap does not see.                         *)
LEMMA UnseenWork ==
  ASSUME op.name \in {None, "mark", "sync"}, op'.name \in {None, "mark", "sync"}, View' = View
  PROVE  CacheStep
<1>1. HandOf' = HandOf
  BY Hands, HandsNext, NamesDiffer
<1> QED
  BY <1>1 DEF CacheStep

(* A set begins.                                                           *)
LEMMA SetBegins ==
  ASSUME op = Idle, op'.name = "set", op'.key \in Keys, op'.old = View[op'.key], View' = View
  PROVE  CacheStep
<1>1. HandOf = Cache!Idle
  BY Hands, NamesDiffer DEF Idle, Cache!Idle
<1>2. /\ HandOf'.kind = "set" /\ HandOf'.key = op'.key /\ HandOf'.old = op'.old
  BY HandsNext
<1>3. Cache!BeginSet
  BY <1>1, <1>2 DEF Cache!BeginSet
<1> QED
  BY <1>3 DEF CacheStep, Cache!Next

(* An operation that drops a record begins.                                *)
LEMMA DropBegins ==
  ASSUME op = Idle, op'.name \in {"del", "erase", "recover"},
         View' = View \/ \E k \in Keys : View' = [View EXCEPT ![k] = Absent]
  PROVE  CacheStep
<1>1. HandOf = Cache!Idle
  BY Hands, NamesDiffer DEF Idle, Cache!Idle
<1>2. HandOf' = [Cache!Idle EXCEPT !.kind = "drop"]
  BY HandsNext DEF Cache!Idle
<1>3. Cache!BeginDrop
  BY <1>1, <1>2 DEF Cache!BeginDrop, Cache!Drop
<1> QED
  BY <1>3 DEF CacheStep, Cache!Next

(* What a set that returns has left under its key.                         *)
Kept(o) == IF o.res = "ok" THEN Stored(o.val) ELSE o.old

(* An operation returns, or its process dies.                              *)
LEMMA Ends ==
  ASSUME op.name \in {None, "mark", "sync", "set", "del", "erase", "recover"},
         op.name = "set" => op.res # None /\ View[op.key] = Kept(op), op' = Idle, View' = View
  PROVE  CacheStep
<1>1. HandOf' = Cache!Idle
  BY HandsNext, NamesDiffer DEF Idle, Cache!Idle
<1>2. CASE op.name \in {"del", "erase", "recover"}
  <2>1. HandOf.kind = "drop"
    BY <1>2, Hands
  <2> QED
    BY <1>1, <2>1 DEF CacheStep, Cache!Next, Cache!Return
<1>3. CASE op.name = "set"
  <2>1. HandOf = [kind |-> "set", key |-> op.key, new |-> Stored(op.val),
                  old |-> op.old, res |-> op.res]
    BY <1>3, Hands
  <2>2. HandOf.kind = "set" /\ HandOf.res # None /\ View[HandOf.key] = Cache!Kept
    BY <1>3, <2>1 DEF Kept, Cache!Kept
  <2>3. Cache!Return
    BY <1>1, <2>2 DEF Cache!Return
  <2> QED
    BY <2>3 DEF CacheStep, Cache!Next
<1>4. CASE op.name \in {None, "mark", "sync"}
  <2>1. op'.name \in {None, "mark", "sync"}
    BY DEF Idle
  <2> QED
    BY <1>4, <2>1, UnseenWork
<1> QED
  BY <1>2, <1>3, <1>4

(* A process dies in a set that has no result yet.                         *)
LEMMA DiesInSet ==
  ASSUME op.name = "set", op.res = None, op' = Idle,
         \/ View' = View
         \/ \E c \in Readings \cup {Absent} : View' = [View EXCEPT ![op.key] = c]
  PROVE  CacheStep
<1>1. HandOf' = Cache!Idle
  BY HandsNext, NamesDiffer DEF Idle, Cache!Idle
<1>2. HandOf = [kind |-> "set", key |-> op.key, new |-> Stored(op.val),
                old |-> op.old, res |-> op.res]
  BY Hands
<1>3. HandOf # Cache!Idle
  BY <1>2, NamesDiffer DEF Cache!Idle
<1>4. HandOf.kind = "set" /\ HandOf.key = op.key /\ HandOf.res = None
  BY <1>2
<1>5. View' = View \/ Cache!Own
  BY <1>4 DEF Cache!Own, Readings
<1> QED
  BY <1>1, <1>3, <1>4, <1>5 DEF CacheStep, Cache!Next, Cache!Die

-----------------------------------------------------------------------------
(***************************************************************************)
(* What the steps change of what is read.                                  *)
(***************************************************************************)
(* The fields that tell what is read under a key.                          *)
ReadFields == {"blockAddr", "blockNext", "nextChunk", "len", "key", "val", "onlyKey", "index"}

(* n has the same of them as m.                                            *)
DataKept(m, n) == \A f \in ReadFields : n[f] = m[f]

(* What is known before a step, and of the lists after it.                 *)
Before(S, G, B, P, U) == WholeMap(S, G, B, P, U) /\ TypedValues(mem)
After(S, G, B, P, U) == Whole(mem', free', op', crashed', calls', S, G, B, P, U)

(* What is read before a step.                                             *)
LEMMA BeforeShown ==
  ASSUME NEW S, NEW G, NEW B, NEW P, NEW U, Before(S, G, B, P, U)
  PROVE  Shown(mem, S, G, B, P, View)
<1>1. Records(mem, S, G, B, P)
  BY DEF Before, WholeMap, Whole, Records, UniqueKeys, OneEach
<1> QED
  BY <1>1, ViewRead DEF Shown

(* What is read after it.                                                  *)
LEMMA AfterShown ==
  ASSUME NEW S, NEW G, NEW B, NEW P, NEW U, After(S, G, B, P, U), TypedValues(mem')
  PROVE  Shown(mem', S, G, B, P, View')
<1>1. Records(mem', S, G, B, P)
  BY DEF After, Whole, Records, UniqueKeys, OneEach
<1> QED
  BY <1>1, ViewReadNext DEF Shown

(* A state that is whole after the step.                                   *)
LEMMA AfterIs ==
  ASSUME WholeMapNow'
  PROVE  \E S, G, B, P, U : After(S, G, B, P, U)
  BY DEF WholeMapNow, WholeMap, After

(* The blocks of the records.                                              *)
LEMMA RecordBlocks ==
  ASSUME NEW m, NEW S, NEW G, NEW B, NEW P, NEW V, Shown(m, S, G, B, P, V)
  PROVE  /\ Range(S) \subseteq Addr /\ 0 \notin Range(S)
         /\ \A a \in Range(S) : P[a] \in Seq(Addr) /\ P[a] # <<>> /\ P[a][1] = a /\ a \in Range(P[a])
                                /\ Range(P[a]) \subseteq Addr
<1>1. Range(S) \subseteq Addr
  BY Sides DEF Shown, Records, Lists, Spot
<1>2. ASSUME NEW a \in Range(S)
      PROVE  P[a] \in Seq(Addr) /\ P[a] # <<>> /\ P[a][1] = a
  BY DEF Shown, Records, Chains
<1>3. ASSUME NEW a \in Range(S)
      PROVE  a \in Range(P[a]) /\ Range(P[a]) \subseteq Addr
  <2>1. 1 \in DOMAIN P[a]
    BY <1>2
  <2> QED
    BY <2>1, <1>2 DEF Range
<1> QED
  BY <1>1, <1>2, <1>3, HashMapAssumption

(* Steps that change nothing that is read.                                 *)
LEMMA QuietSees ==
  ASSUME NEW S, NEW G, NEW B, NEW P, NEW U, Before(S, G, B, P, U),
         NEW S2, NEW G2, NEW B2, NEW P2, NEW U2, After(S2, G2, B2, P2, U2), DataKept(mem, mem')
  PROVE  /\ TypedValues(mem') /\ View' = View /\ Range(S2) = Range(S)
         /\ \A a \in Range(S) : P2[a] = P[a]
<1>0. \A f \in ReadFields : mem'[f] = mem[f]
  BY DEF DataKept
<1>1. TypedValues(mem')
  BY <1>0 DEF Before, TypedValues, ReadFields
<1>2. Shown(mem, S, G, B, P, View) /\ Shown(mem', S2, G2, B2, P2, View')
  BY <1>1, BeforeShown, AfterShown
<1>3. Lists(mem, S, G, B) /\ Lists(mem', S2, G2, B2) /\ Chains(mem, S, P) /\ Chains(mem', S2, P2)
  BY <1>2 DEF Shown, Records
<1>4. Range(S2) = Range(S)
  BY <1>0, <1>3, SameBuckets DEF ReadFields
<1>5. \A a \in Range(S) : P2[a] = P[a]
  BY <1>0, <1>3, <1>4, SameParts DEF ReadFields
<1>6. 0 \notin Range(S) /\ 0 \notin Range(S2)
  BY <1>2, <1>4, RecordBlocks
<1>7. \A b \in Range(S) : Alike(mem, mem', P[b]) /\ mem'["index"][b] = mem["index"][b]
  BY <1>0 DEF Alike, ReadFields
<1>8. Beside(mem, mem', S, S2, P, 0)
  BY <1>4, <1>7 DEF Beside
<1>9. View' = View
  BY <1>2, <1>6, <1>8, ReadTheSame
<1> QED
  BY <1>1, <1>4, <1>5, <1>9

(* Fields that are not read.                                               *)
LEMMA ReadFieldNames ==
  /\ ReadFields \subseteq Fields
  /\ ReadFields \cap (OrderFields \cup CountFields \cup {"dirty", "usedChunk"}) = {}
  BY FieldNames DEF ReadFields, OrderFields, CountFields, SetFields, GetFields, CursorFields, Fields,
     HeadFields

(* A change of other fields.                                               *)
LEMMA TouchesQuietly ==
  ASSUME NEW n, NEW F, NEW R, Touches(mem, n, F, R),
         F \subseteq OrderFields \cup CountFields \cup {"dirty", "usedChunk"}
  PROVE  DataKept(mem, n)
  BY ReadFieldNames DEF Touches, DataKept

(* The death of a process, of an operation that changes nothing, and the   *)
(* like.                                                                   *)
LEMMA NothingIsQuiet ==
  ASSUME mem' = mem
  PROVE  DataKept(mem, mem')
  BY DEF DataKept

(* What Block::erase of a leaves of what is read.                          *)
Loses(a, S, P, S2, P2) ==
  /\ TypedValues(mem')
  /\ \/ View' = View
     \/ \E k \in Keys : Is(mem, a, k) /\ View' = [View EXCEPT ![k] = Absent]
  /\ (\A k \in Keys : ~Is(mem, a, k)) => View' = View
  /\ Range(S2) = Range(S) \ {a} /\ \A b \in Range(S2) : P2[b] = P[b]
  /\ \A f \in {"nextChunk", "len", "key", "val", "onlyKey", "index"} : mem'[f] = mem[f]

(* Erasing a record loses it and changes nothing else that is read.        *)
LEMMA EraseSees ==
  ASSUME NEW S, NEW G, NEW B, NEW P, NEW U, Before(S, G, B, P, U),
         NEW S2, NEW G2, NEW B2, NEW P2, NEW U2, After(S2, G2, B2, P2, U2),
         NEW a \in Range(S), Commit(eraseLog(a))
  PROVE  Loses(a, S, P, S2, P2)
<1>1. Shown(mem, S, G, B, P, View)
  BY BeforeShown
<1>2. Shape(mem) /\ Lists(mem, S, G, B) /\ Chains(mem, S, P) /\ Listing(S, G)
  BY PartsOf DEF Before
<1>3. PICK p \in 1 .. Len(S) : S[p] = a
  BY <1>2, Position
<1>4. PICK n, q, r : Erased(n, S, G, B, p, q, r)
  BY <1>2, EraseMakes
<1>5. mem' = n
  BY <1>3, <1>4, CommitMakes DEF Erased
<1>6. \A f \in {"nextChunk", "len", "key", "val", "onlyKey", "index"} : mem'[f] = mem[f]
  <2>1. Touches(mem, n, EraseFields, Range(S))
    BY <1>4 DEF Erased
  <2>2. \A f \in {"index", "onlyKey", "nextChunk", "len", "key", "val"} :
          f \in Fields /\ f \notin EraseFields
    BY EraseFieldsApart
  <2>3. \A g \in Fields : g \notin EraseFields => n[g] = mem[g]
    BY <2>1 DEF Touches
  <2> QED
    BY <1>5, <2>2, <2>3
<1>7. TypedValues(mem')
  BY <1>6 DEF Before, TypedValues
<1>8. Shown(mem', S2, G2, B2, P2, View')
  BY <1>7, AfterShown
<1>9. \E B3 : Lists(mem', Without(S, p), Without(G, q), B3)
  BY <1>4, <1>5 DEF Erased
<1>10. Lists(mem', S2, G2, B2) /\ Chains(mem', S2, P2)
  BY <1>8 DEF Shown, Records
<1>11. S2 = Without(S, p)
  BY <1>9, <1>10, SameLists
<1>12. Range(S2) = Range(S) \ {a}
  <2>1. DList(S, mem["setNext"], mem["setPrev"])
    BY <1>2 DEF Lists, Spot
  <2> QED
    BY <2>1, <1>3, <1>11, WithoutOf
<1>13. \A b \in Range(S2) : P2[b] = P[b]
  BY <1>2, <1>6, <1>10, <1>12, SameParts
<1>14. \A b \in Range(S) : Alike(mem, mem', P[b]) /\ mem'["index"][b] = mem["index"][b]
  BY <1>6 DEF Alike
<1>15. Beside(mem, mem', S, S2, P, a)
  BY <1>12, <1>14 DEF Beside
<1>16. \/ View' = View
       \/ \E k \in Keys : Is(mem, a, k) /\ View' = [View EXCEPT ![k] = Absent]
  BY <1>1, <1>8, <1>12, <1>15, ReadWithout
<1>17. (\A k \in Keys : ~Is(mem, a, k)) => View' = View
  BY <1>16
<1> QED
  BY <1>6, <1>7, <1>12, <1>13, <1>16, <1>17 DEF Loses

(* A new record reads nothing.                                             *)
LEMMA NewSees ==
  ASSUME NEW S, NEW G, NEW B, NEW P, NEW U, Before(S, G, B, P, U),
         NEW S2, NEW G2, NEW B2, NEW P2, NEW U2, After(S2, G2, B2, P2, U2), makeNew
  PROVE  /\ TypedValues(mem') /\ View' = View /\ Range(S2) = Range(S) \cup {op.addr}
         /\ mem'["index"][op.addr] = Bucket[op.key] /\ mem'["key"][op.addr] = None
<1> DEFINE a == op.addr
<1>1. Shown(mem, S, G, B, P, View)
  BY BeforeShown
<1>2. Shape(mem) /\ Lists(mem, S, G, B) /\ Chains(mem, S, P) /\ Cursors(mem, S)
      /\ Places(mem, P, U, free, op, crashed) /\ Working(op, S, P, crashed, calls)
  BY PartsOf DEF Before
<1>3. op.pc = "link" /\ mem' = Written(mem, makeNewLog(op.addr, Bucket[op.key]) \o Add("usedChunk", 0, 1))
  BY DEF makeNew, Commit
<1>4. Phase(op) = "link" /\ op.key \in Keys /\ a \in Addr
  BY <1>2, <1>3 DEF Working, Phase, Making
<1>5. a \in Unlinked(op) /\ Blank(mem, a) /\ a \notin UsedIn(P)
  BY <1>2, <1>3 DEF Unlinked, Places
<1>6. a \notin Range(S)
  BY <1>2, <1>5, RecordsAreUsed
<1>7. Bucket[op.key] \in Index
  BY <1>4, HashMapAssumption DEF Index
<1>8. PICK n : NewMade(n, S, G, B, a, Bucket[op.key])
  BY <1>2, <1>4, <1>5, <1>6, <1>7, NewMakes
<1>9. mem' = n
  BY <1>3, <1>8 DEF NewMade, Makes
<1>10. Touches(mem, n, MakeFields \cup {"usedChunk"}, Range(S) \cup {a})
       /\ n["index"] = [mem["index"] EXCEPT ![a] = Bucket[op.key]]
       /\ Lists(n, Headed(a, S), Headed(a, G), [B EXCEPT ![Bucket[op.key]] = Headed(a, B[Bucket[op.key]])])
  BY <1>8 DEF NewMade
<1>11. \A f \in {"nextChunk", "len", "key", "val", "onlyKey"} : mem'[f] = mem[f]
  <2>1. \A f \in {"nextChunk", "len", "key", "val", "onlyKey"} :
          f \in Fields /\ f \notin MakeFields \cup {"usedChunk"}
    BY FieldNames DEF MakeFields, SetFields, GetFields, BucketFields, NewFields, Fields
  <2> QED
    BY <1>9, <1>10, <2>1 DEF Touches
<1>12. TypedValues(mem')
  BY <1>11 DEF Before, TypedValues
<1>13. Shown(mem', S2, G2, B2, P2, View')
  BY <1>12, AfterShown
<1>14. S2 = Headed(a, S)
  BY <1>9, <1>10, <1>13, SameLists DEF Shown, Records
<1>15. Range(S2) = Range(S) \cup {a}
  BY <1>4, <1>14, <1>2, FrontOf DEF Lists, Spot, DList
<1>16. DOMAIN mem["index"] = Addr
  BY <1>2, FieldNames DEF Shape
<1>17. mem'["index"][a] = Bucket[op.key] /\ \A b \in Range(S) : mem'["index"][b] = mem["index"][b]
  BY <1>1, <1>4, <1>6, <1>9, <1>10, <1>16, RecordBlocks
<1>18. mem["key"][a] = None
  BY <1>5, BlankBlock
<1>19. mem'["key"][a] = None
  BY <1>11, <1>18
<1>20. \A k \in Keys : ~Is(mem', a, k)
  BY <1>19, HashMapAssumption DEF Is
<1>21. Beside(mem, mem', S, S2, P, a)
  BY <1>6, <1>11, <1>15, <1>17 DEF Beside, Alike
<1>22. View' = View
  BY <1>1, <1>6, <1>13, <1>20, <1>21, ReadTheSame
<1> QED
  BY <1>12, <1>15, <1>17, <1>19, <1>22

(* The set list and the dirty tail are as they were, and so is what is in  *)
(* the records but c.                                                      *)
LeftAlone(S, P, P2, c) ==
  /\ mem'["setHead"] = mem["setHead"] /\ mem'["dirtyTail"][0] = mem["dirtyTail"][0]
  /\ \A b \in Range(S) : mem'["setNext"][b] = mem["setNext"][b]
  /\ \A b \in Range(S) : b # c => /\ DataIn(mem', P2[b]) = DataIn(mem, P[b])
                                  /\ mem'["dirty"][b] = mem["dirty"][b]
                                  /\ mem'["onlyKey"][b] = mem["onlyKey"][b]

(* Block a, which is no part of a record, is given back.                   *)
LEMMA FreeSees ==
  ASSUME NEW S, NEW G, NEW B, NEW P, NEW U, Before(S, G, B, P, U),
         NEW S2, NEW G2, NEW B2, NEW P2, NEW U2, After(S2, G2, B2, P2, U2), deallocate
  PROVE  /\ TypedValues(mem') /\ View' = View /\ Range(S2) = Range(S)
         /\ \A a \in Range(S) : P2[a] = P[a]
         /\ \A a \in Range(S) : /\ mem'["index"][a] = mem["index"][a]
                                /\ mem'["key"][a] = mem["key"][a]
         /\ LeftAlone(S, P, P2, 0)
<1> DEFINE a == Head(op.todo)
<1>1. Shown(mem, S, G, B, P, View)
  BY BeforeShown
<1>2. Shape(mem) /\ Lists(mem, S, G, B) /\ Chains(mem, S, P) /\ Cursors(mem, S)
      /\ Places(mem, P, U, free, op, crashed) /\ Working(op, S, P, crashed, calls)
  BY PartsOf DEF Before
<1>3. op.pc = "release" /\ mem' = Freeing(a)
  BY DEF deallocate, Freeing
<1>4. ToRelease(op) = op.todo /\ op.todo # <<>>
  BY <1>2, <1>3 DEF Working, ToRelease
<1>5. op.todo \in Seq(Addr) /\ Range(op.todo) \cap UsedIn(P) = {} /\ IsInjective(op.todo)
  BY <1>2, <1>4 DEF Places
<1>6. a \in Addr /\ a \notin UsedIn(P)
  BY <1>4, <1>5, PoppedInFront
<1>7. Freed(mem', a)
  BY <1>2, <1>3, <1>6, FreeingFrees
<1>8. /\ \A f \in BlockFields : \A x \in Addr \ {a} : mem'[f][x] = mem[f][x]
      /\ \A f \in Fields \ BlockFields : f # "usedChunk" => mem'[f] = mem[f]
      /\ Blank(mem', a)
  BY <1>7 DEF Freed
<1>9. /\ \A f \in {"nextChunk", "len", "onlyKey", "key", "val", "index"} : f \in BlockFields
      /\ ZeroBlock["val"] = None
  BY DEF BlockFields, ZeroBlock
<1>10. TypedValues(mem')
  <2>1. mem'["val"][a] = None
    BY <1>8, <1>9 DEF Blank
  <2>2. \A x \in Addr \ {a} : mem'["val"][x] = mem["val"][x]
    BY <1>8, <1>9
  <2> QED
    BY <2>1, <2>2 DEF Before, TypedValues
<1>11. Range(S) \subseteq UsedIn(P) /\ \A b \in Range(S) : Range(P[b]) \subseteq UsedIn(P)
  BY <1>2, RecordsAreUsed
<1>12. \A b \in Range(S) : b \in Addr \ {a} /\ Range(P[b]) \subseteq Addr \ {a}
  BY <1>1, <1>6, <1>11, RecordBlocks
<1>13. \A b \in Range(S) : /\ Alike(mem, mem', P[b]) /\ mem'["index"][b] = mem["index"][b]
                           /\ mem'["key"][b] = mem["key"][b]
  BY <1>8, <1>9, <1>12 DEF Alike
<1>14. Lists(mem', S, G, B)
  <2>1. \A f \in {"setHead", "setTail", "getHead", "getTail", "elementCount", "blockAddr",
                  "listCount", "dirtyTail", "syncTail", "backupTail"} : mem'[f] = mem[f]
    BY <1>8, FieldNames DEF Fields, HeadFields
  <2>2. \A f \in {"setNext", "setPrev", "getNext", "getPrev", "blockNext", "blockPrev", "index"} :
          \A b \in Range(S) : mem'[f][b] = mem[f][b]
    BY <1>8, <1>12, FieldNames
  <2> QED
    BY <1>2, <2>1, <2>2, ListsUntouched
<1>15. Shown(mem', S2, G2, B2, P2, View')
  BY <1>10, AfterShown
<1>16. Range(S2) = Range(S)
  BY <1>14, <1>15, SameLists DEF Shown, Records
<1>17. 0 \notin Range(S)
  BY <1>1, RecordBlocks
<1>18. Beside(mem, mem', S, S2, P, 0)
  BY <1>13, <1>16 DEF Beside
<1>19. View' = View
  BY <1>1, <1>15, <1>16, <1>17, <1>18, ReadTheSame
<1>20. \A b \in Range(S) : P2[b] = P[b]
  <2>1. Chains(mem', S2, P2)
    BY <1>15 DEF Shown, Records
  <2> QED
    BY <1>2, <1>13, <1>16, <2>1, SameParts DEF Alike
<1>21. LeftAlone(S, P, P2, 0)
  <2>1. mem'["setHead"] = mem["setHead"] /\ mem'["dirtyTail"] = mem["dirtyTail"]
    BY <1>8, FieldNames DEF Fields, HeadFields
  <2>2. \A b \in Range(S) : /\ mem'["setNext"][b] = mem["setNext"][b]
                            /\ mem'["dirty"][b] = mem["dirty"][b]
                            /\ mem'["onlyKey"][b] = mem["onlyKey"][b]
    BY <1>8, <1>12, FieldNames
  <2>3. \A b \in Range(S) : DataIn(mem', P2[b]) = DataIn(mem, P[b])
    BY <1>1, <1>13, <1>20, RecordBlocks, AlikeReads DEF Before
  <2> QED BY <2>1, <2>2, <2>3 DEF LeftAlone
<1> QED
  BY <1>10, <1>13, <1>16, <1>19, <1>20, <1>21

(* The fields of the record that is being set.                             *)
OwnFields == DataFields \cup {"dirty", "onlyKey"}

(* A step of set changes what is read under its key alone.                 *)
Changes(S, P, S2, P2) ==
  /\ \E c \in Readings \cup {Absent} : View' = [View EXCEPT ![op.key] = c]
  /\ Range(S2) = Range(S) /\ \A b \in Range(S) : b # op.addr => P2[b] = P[b]
  /\ mem'["index"] = mem["index"] /\ LeftAlone(S, P, P2, op.addr)

(* Steps that change the parts of this record, or blocks of no record.     *)
LEMMA OwnSees ==
  ASSUME NEW S, NEW G, NEW B, NEW P, NEW U, Before(S, G, B, P, U),
         NEW S2, NEW G2, NEW B2, NEW P2, NEW U2, After(S2, G2, B2, P2, U2),
         op.addr \in Range(S), op.key \in Keys, TypedValues(mem'),
         mem["key"][op.addr] \in {None, op.key}, mem'["key"][op.addr] \in {None, op.key},
         NEW F, NEW R, Touches(mem, mem', F, R), F \subseteq OwnFields,
         \A b \in Range(S) : b # op.addr => R \cap Range(P[b]) = {}
  PROVE  Changes(S, P, S2, P2)
<1> DEFINE a == op.addr
<1>1. Shown(mem, S, G, B, P, View) /\ Shown(mem', S2, G2, B2, P2, View')
  BY BeforeShown, AfterShown
<1>2. /\ \A g \in Fields : g \notin F => mem'[g] = mem[g]
      /\ \A g \in BlockFields : \A b \in Addr : b \notin R => mem'[g][b] = mem[g][b]
  BY Unaltered
<1>3. /\ \A f \in {"blockNext", "blockAddr", "index"} : f \in Fields /\ f \notin OwnFields
      /\ \A f \in {"nextChunk", "len", "onlyKey", "key", "val"} : f \in BlockFields
  BY FieldNames DEF OwnFields, DataFields, Fields
<1>4. \A f \in {"blockNext", "blockAddr", "index"} : mem'[f] = mem[f]
  BY <1>2, <1>3
<1>5. Lists(mem, S, G, B) /\ Lists(mem', S2, G2, B2) /\ Chains(mem, S, P) /\ Chains(mem', S2, P2)
  BY <1>1 DEF Shown, Records
<1>6. Range(S2) = Range(S)
  BY <1>4, <1>5, SameBuckets
<1>7. ASSUME NEW b \in Range(S), b # a
      PROVE  Alike(mem, mem', P[b])
  <2>1. \A x \in Range(P[b]) : x \in Addr /\ x \notin R
    BY <1>1, <1>7, RecordBlocks
  <2> QED
    BY <1>2, <1>3, <2>1 DEF Alike
<1>8. Beside(mem, mem', S, S2, P, a)
  BY <1>4, <1>6, <1>7 DEF Beside
<1>9. \A b \in Range(S) : b # a => P2[b] = P[b]
  BY <1>5, <1>6, <1>7, SameParts DEF Alike
<1>10. \E c \in Readings \cup {Absent} : View' = [View EXCEPT ![op.key] = c]
  BY <1>1, <1>8, ReadOfOne
<1>11. LeftAlone(S, P, P2, a)
  <2>1. \A f \in {"setHead", "dirtyTail", "setNext"} : f \in Fields /\ f \notin OwnFields
    BY FieldNames DEF OwnFields, DataFields, Fields, HeadFields
  <2>2. \A f \in {"setHead", "dirtyTail", "setNext"} : mem'[f] = mem[f]
    BY <1>2, <2>1
  <2>3. ASSUME NEW b \in Range(S), b # a
        PROVE  /\ DataIn(mem', P2[b]) = DataIn(mem, P[b])
               /\ mem'["dirty"][b] = mem["dirty"][b] /\ mem'["onlyKey"][b] = mem["onlyKey"][b]
    <3>1. DataIn(mem', P2[b]) = DataIn(mem, P[b])
      BY <1>1, <1>7, <1>9, <2>3, RecordBlocks, AlikeReads DEF Before
    <3>2. b \in Addr /\ b \notin R
      BY <1>1, <2>3, RecordBlocks
    <3> QED BY <1>2, <3>1, <3>2, FieldNames
  <2> QED BY <2>2, <2>3 DEF LeftAlone
<1> QED
  BY <1>4, <1>6, <1>9, <1>10, <1>11 DEF Changes

(* The parts of two records are apart, and from the blocks in hand.        *)
LEMMA OwnBlocks ==
  ASSUME NEW m, NEW S, NEW P, Chains(m, S, P), NEW a \in Range(S), NEW R,
         R \subseteq Range(P[a]) \cup (Addr \ UsedIn(P))
  PROVE  \A b \in Range(S) : b # a => R \cap Range(P[b]) = {}
<1> SUFFICES ASSUME NEW b \in Range(S), b # a
             PROVE  R \cap Range(P[b]) = {}
  OBVIOUS
<1>1. Range(P[a]) \cap Range(P[b]) = {}
  BY DEF Chains
<1>2. Range(P[b]) \subseteq UsedIn(P)
  BY RecordsAreUsed
<1> QED
  BY <1>1, <1>2

(* What is known of the record that is being set.                          *)
LEMMA OwnRecord ==
  ASSUME NEW S, NEW G, NEW B, NEW P, NEW U, Before(S, G, B, P, U),
         op.pc \in {"room", "chunk", "undo", "join", "flags", "copy"}
  PROVE  /\ op.addr \in Range(S) /\ op.addr \in Addr /\ op.key \in Keys
         /\ op.val \in Values \cup {None} /\ op.name = "set"
         /\ mem["key"][op.addr] \in {None, op.key} /\ Phase(op) = op.pc
         /\ Need = Needs(op) /\ Needs(op) \in Nat
         /\ PartsAre(op.addr, P[op.addr]) /\ P[op.addr] \in Seq(Addr) /\ P[op.addr] # <<>>
         /\ P[op.addr][1] = op.addr
<1>1. Working(op, S, P, crashed, calls) /\ UniqueKeys(mem, S, op) /\ Chains(mem, S, P)
      /\ Range(S) \subseteq Addr
  BY PartsOf DEF Before
<1>2. Phase(op) = op.pc /\ op.addr \in Range(S)
  BY <1>1, AtWork DEF AtRecord
<1> HIDE DEF Phase
<1>3. Phase(op) \in Making /\ Phase(op) \in Making \ {"block", "link"}
  BY <1>2 DEF Making
<1>4. op.key \in Keys /\ op.val \in Values \cup {None} /\ op.name = "set"
  BY <1>1, <1>3 DEF Working
<1>5. mem["key"][op.addr] \in {None, op.key}
  BY <1>1, <1>3 DEF UniqueKeys
<1>6. Need = Needs(op) /\ Needs(op) \in Nat
  BY <1>4, NeedIs DEF Need, Needs
<1>7. PartsAre(op.addr, P[op.addr])
  BY <1>1, <1>2, ChainFound
<1> QED
  BY <1>1, <1>2, <1>4, <1>5, <1>6, <1>7 DEF Chains

(* The flags are no data.                                                  *)
LEMMA FlagsAreNoData ==
  ASSUME NEW n, NEW R, Touches(mem, n, DataFields, R)
  PROVE  n["dirty"] = mem["dirty"] /\ n["onlyKey"] = mem["onlyKey"]
<1>1. \A f \in {"dirty", "onlyKey"} : f \in Fields /\ f \notin DataFields
  BY FieldNames DEF DataFields, Fields
<1> QED BY <1>1, Unaltered

(* The chain of the record is cut.                                         *)
LEMMA CutSees ==
  ASSUME NEW S, NEW G, NEW B, NEW P, NEW U, Before(S, G, B, P, U),
         NEW S2, NEW G2, NEW B2, NEW P2, NEW U2, After(S2, G2, B2, P2, U2),
         op.pc = "room", Len(Chain(op.addr)) > Need, allocate
  PROVE  /\ TypedValues(mem') /\ Changes(S, P, S2, P2)
         /\ mem'["dirty"] = mem["dirty"] /\ mem'["onlyKey"] = mem["onlyKey"]
<1> DEFINE a == op.addr
           s == P[a]
           last == (<<a>> \o Chain(a))[Need + 1]
<1>1. /\ a \in Range(S) /\ op.key \in Keys /\ mem["key"][a] \in {None, op.key}
      /\ Need \in Nat /\ PartsAre(a, s) /\ s \in Seq(Addr)
  BY OwnRecord
<1>2. last = s[Need + 1] /\ Len(Chain(a)) = Len(s) - 1 /\ Len(s) \in Nat
  BY <1>1 DEF PartsAre
<1>3. last \in Range(s) /\ last \in Addr
  <2>1. Need + 1 \in 1 .. Len(s)
    BY <1>1, <1>2
  <2> QED
    BY <1>1, <1>2, <2>1 DEF Range
<1> HIDE DEF last
<1>4. Shape(mem) /\ Chains(mem, S, P)
  BY PartsOf DEF Before
<1>5. Commit(Put("nextChunk", last, 0) \o If(Need = 0, Put("len", last, "none")))
  BY DEF allocate, last
<1>6. PICK n : CutMade(n, last, Need = 0)
  <2> DEFINE c == Need = 0
  <2> HIDE DEF c
  <2>1. \E n : CutMade(n, last, c)
    BY <1>3, <1>4, CutMakes
  <2> QED
    BY <2>1 DEF c
<1>7. mem' = n /\ Touches(mem, n, DataFields, {last}) /\ n["key"] = mem["key"] /\ n["val"] = mem["val"]
  BY <1>5, <1>6, CommitMakes DEF CutMade
<1>8. TypedValues(mem')
  BY <1>7 DEF Before, TypedValues
<1>9. \A b \in Range(S) : b # a => {last} \cap Range(P[b]) = {}
  BY <1>1, <1>3, <1>4, OwnBlocks
<1>10. Changes(S, P, S2, P2)
  <2>1. Touches(mem, mem', DataFields, {last}) /\ mem'["key"][a] \in {None, op.key}
    BY <1>1, <1>7
  <2>2. DataFields \subseteq OwnFields
    BY DEF OwnFields
  <2> QED
    BY <1>1, <1>8, <1>9, <2>1, <2>2, OwnSees
<1> QED
  BY <1>7, <1>8, <1>10, FlagsAreNoData

(* A chunk is joined to it.                                                *)
LEMMA JoinSees ==
  ASSUME NEW S, NEW G, NEW B, NEW P, NEW U, Before(S, G, B, P, U),
         NEW S2, NEW G2, NEW B2, NEW P2, NEW U2, After(S2, G2, B2, P2, U2), joinChunk
  PROVE  /\ TypedValues(mem') /\ Changes(S, P, S2, P2)
         /\ mem'["dirty"] = mem["dirty"] /\ mem'["onlyKey"] = mem["onlyKey"]
<1> DEFINE a == op.addr
           s == P[a]
           last == LastPart(a)
           c == Head(op.chunks)
<1>0. op.pc = "join" /\ Commit(Put("nextChunk", last, c) \o Put("len", last, "addr")
                               \o Put("nextChunk", c, 0) \o Put("len", c, "none"))
  BY DEF joinChunk
<1>1. /\ a \in Range(S) /\ op.key \in Keys /\ mem["key"][a] \in {None, op.key}
      /\ PartsAre(a, s) /\ s \in Seq(Addr) /\ s # <<>> /\ Phase(op) = "join"
  BY <1>0, OwnRecord
<1>2. Shape(mem) /\ Chains(mem, S, P) /\ Places(mem, P, U, free, op, crashed)
      /\ Working(op, S, P, crashed, calls)
  BY PartsOf DEF Before
<1>3. last \in Range(s) /\ last \in Addr
  <2>1. last = s[Len(s)]
    BY <1>1 DEF PartsAre
  <2>2. Len(s) \in 1 .. Len(s)
    BY <1>1
  <2> QED
    BY <1>1, <2>1, <2>2 DEF Range
<1>4. c \in Addr /\ c \notin UsedIn(P)
  <2>1. op.chunks # <<>>
    BY <1>1, <1>2 DEF Working
  <2>2. op.chunks \in Seq(Addr) /\ IsInjective(op.chunks) /\ Range(op.chunks) \cap UsedIn(P) = {}
    BY <1>2 DEF Places
  <2> QED
    BY <2>1, <2>2, PoppedInFront
<1> HIDE DEF last, c
<1>5. last # c
  <2>1. Range(s) \subseteq UsedIn(P)
    BY <1>1, <1>2, RecordsAreUsed
  <2> QED
    BY <1>3, <1>4, <2>1
<1>6. PICK n : JoinMade(n, last, c)
  BY <1>2, <1>3, <1>4, <1>5, JoinMakes
<1>7. mem' = n /\ Touches(mem, n, DataFields, {last, c}) /\ n["key"] = mem["key"] /\ n["val"] = mem["val"]
  BY <1>0, <1>6, CommitMakes DEF JoinMade
<1>8. TypedValues(mem')
  BY <1>7 DEF Before, TypedValues
<1>9. \A b \in Range(S) : b # a => {last, c} \cap Range(P[b]) = {}
  <2>1. {last, c} \subseteq Range(s) \cup (Addr \ UsedIn(P))
    BY <1>3, <1>4
  <2> QED
    BY <1>1, <1>2, <2>1, OwnBlocks
<1>10. Changes(S, P, S2, P2)
  <2>1. Touches(mem, mem', DataFields, {last, c}) /\ mem'["key"][a] \in {None, op.key}
    BY <1>1, <1>7
  <2>2. DataFields \subseteq OwnFields
    BY DEF OwnFields
  <2> QED
    BY <1>1, <1>8, <1>9, <2>1, <2>2, OwnSees
<1> QED
  BY <1>7, <1>8, <1>10, FlagsAreNoData

(* The flags are written.                                                  *)
LEMMA FlagsSee ==
  ASSUME NEW S, NEW G, NEW B, NEW P, NEW U, Before(S, G, B, P, U),
         NEW S2, NEW G2, NEW B2, NEW P2, NEW U2, After(S2, G2, B2, P2, U2), flags
  PROVE  /\ TypedValues(mem') /\ Changes(S, P, S2, P2) /\ mem'["onlyKey"][op.addr] = (op.val = None)
<1> DEFINE a == op.addr
<1>0. op.pc = "flags"
  BY DEF flags
<1>1. a \in Range(S) /\ a \in Addr /\ op.key \in Keys /\ mem["key"][a] \in {None, op.key}
  BY <1>0, OwnRecord
<1>2. Shape(mem) /\ Chains(mem, S, P)
  BY PartsOf DEF Before
<1>3. PICK b, c : b = (op.val = None) /\ c = ~(op.val = None)
  OBVIOUS
<1>4. mem' = [mem EXCEPT !.dirty[a] = c, !.onlyKey[a] = b]
  BY <1>3 DEF flags
<1>5. FlagsMade(mem', a, b, c)
  BY <1>1, <1>2, <1>4, FlagsMake
<1>6. /\ Touches(mem, mem', {"dirty", "onlyKey"}, {a})
      /\ mem'["onlyKey"] = [mem["onlyKey"] EXCEPT ![a] = b]
  BY <1>5 DEF FlagsMade
<1>7. mem'["val"] = mem["val"] /\ mem'["key"] = mem["key"]
  <2>1. \A f \in {"val", "key"} : f \in Fields /\ f \notin {"dirty", "onlyKey"}
    BY FieldNames DEF Fields
  <2> QED
    BY <1>6, <2>1, Unaltered
<1>8. TypedValues(mem')
  BY <1>7 DEF Before, TypedValues
<1>9. \A x \in Range(S) : x # a => {a} \cap Range(P[x]) = {}
  <2>1. a \in Range(P[a])
    BY <1>1, BeforeShown, RecordBlocks
  <2> QED
    BY <1>1, <1>2, <2>1, OwnBlocks
<1>10. Changes(S, P, S2, P2)
  <2>1. mem'["key"][a] \in {None, op.key} /\ {"dirty", "onlyKey"} \subseteq OwnFields
    BY <1>1, <1>7 DEF OwnFields
  <2> QED
    BY <1>1, <1>6, <1>8, <1>9, <2>1, OwnSees
<1>11. mem'["onlyKey"][a] = b
  <2>1. DOMAIN mem["onlyKey"] = Addr
    BY <1>2, ShapeOf, FieldNames
  <2> QED
    BY <1>1, <1>6, <2>1
<1> QED
  BY <1>3, <1>8, <1>10, <1>11

-----------------------------------------------------------------------------
(***************************************************************************)
(* The steps that change nothing that is read.                             *)
(***************************************************************************)

(* The order of the records is not read.                                   *)
LEMMA OrderIsQuiet ==
  ASSUME NEW n, NEW S, NEW S2, NEW G2, Reordering(n, S, S2, G2), mem' = n
  PROVE  DataKept(mem, mem')
<1>1. Touches(mem, n, OrderFields, Range(S))
  BY DEF Reordering
<1> QED BY <1>1, TouchesQuietly

(* Nor are the cursors, where find and View look.                          *)
LEMMA CursorsAreQuiet ==
  ASSUME NEW S, NEW G, NEW B, NEW P, NEW U, WholeMap(S, G, B, P, U),
         syncBegin \/ syncNext \/ backup \/ \E force \in BOOLEAN : backupBegin(force)
  PROVE  DataKept(mem, mem')
<1>1. Listing(S, G)
  BY ListingOf
<1>2. PICK f \in CursorFields, v \in Range(S) \cup {0} : Commit(Put(f, 0, v))
  <2>1. CASE backup \/ syncNext
    <3>1. backup => BackupTail \in Range(S)
      BY <1>1, CursorValues DEF backup
    <3>2. syncNext => SyncTail \in Range(S)
      BY <1>1, CursorValues DEF syncNext
    <3>3. backup => mem.getPrev[BackupTail] \in Range(S) \cup {0}
      BY <1>1, <3>1, CursorValues
    <3>4. syncNext => mem.setPrev[SyncTail] \in Range(S) \cup {0}
      BY <1>1, <3>2, CursorValues
    <3>5. backup => Commit(Put("backupTail", 0, mem.getPrev[BackupTail]))
      BY DEF backup
    <3>6. syncNext => Commit(Put("syncTail", 0, mem.setPrev[SyncTail]))
      BY DEF syncNext
    <3> QED BY <1>1, <2>1, <3>3, <3>4, <3>5, <3>6, CursorValues
  <2>2. CASE syncBegin \/ \E force \in BOOLEAN : backupBegin(force)
    BY <1>1, <2>2, CursorValues DEF backupBegin, syncBegin
  <2> QED BY <2>1, <2>2
<1>3. PICK n : Makes(Put(f, 0, v), mem, n) /\ Reordering(n, S, S, G)
  BY <1>1, CursorPut
<1>4. mem' = n
  BY <1>2, <1>3, CommitMakes
<1> QED BY <1>3, <1>4, OrderIsQuiet

(* refreshGetList of a record.                                             *)
LEMMA GetListIsQuiet ==
  ASSUME NEW S, NEW G, NEW B, NEW P, NEW U, WholeMap(S, G, B, P, U), NEW a \in Range(S),
         Commit(refreshGetListLog(a))
  PROVE  DataKept(mem, mem')
<1>1. Listing(S, G)
  BY ListingOf
<1>2. PICK q \in 1 .. Len(G) : G[q] = a
  BY <1>1, Position
<1>3. PICK n : GetRefreshed(n, G, q)
  BY <1>1, RefreshGetMakes DEF Listing
<1>4. Reordering(n, S, S, ToHead(G, q))
  BY <1>1, <1>3, GetRefreshedReorders
<1>5. mem' = n
  <2>1. Makes(refreshGetListLog(a), mem, n)
    BY <1>2, <1>3 DEF GetRefreshed
  <2> QED BY <2>1, CommitMakes
<1> QED BY <1>4, <1>5, OrderIsQuiet

(* refreshSetList of a record.                                             *)
LEMMA SetListIsQuiet ==
  ASSUME NEW S, NEW G, NEW B, NEW P, NEW U, WholeMap(S, G, B, P, U), NEW a \in Range(S),
         Commit(refreshSetListLog(a))
  PROVE  DataKept(mem, mem')
<1>1. Listing(S, G)
  BY ListingOf
<1>2. PICK p \in 1 .. Len(S) : S[p] = a
  BY <1>1, Position
<1>3. PICK n : SetRefreshed(n, S, p)
  BY <1>1, RefreshSetMakes DEF Listing
<1>4. Reordering(n, S, ToHead(S, p), G)
  BY <1>1, <1>3, SetRefreshedReorders
<1>5. mem' = n
  <2>1. Makes(refreshSetListLog(a), mem, n)
    BY <1>2, <1>3 DEF SetRefreshed
  <2> QED BY <2>1, CommitMakes
<1> QED BY <1>4, <1>5, OrderIsQuiet

(* erase(true) of a record that is dirty.                                  *)
LEMMA KeepDirtyIsQuiet ==
  ASSUME NEW S, NEW G, NEW B, NEW P, NEW U, WholeMap(S, G, B, P, U), GetTail # 0,
         Commit(KeepDirtyLog(GetTail))
  PROVE  DataKept(mem, mem')
<1>1. Listing(S, G)
  BY ListingOf
<1>2. G # <<>> /\ GetTail = G[Len(G)] /\ Len(G) \in 1 .. Len(G)
  BY <1>1, PrevInList DEF Listing, GetTail
<1>3. PICK n : DirtyKept(n, G)
  BY <1>1, <1>2, KeepDirtyMakes DEF Listing
<1>4. PICK q \in 1 .. Len(G) : q = Len(G)
  BY <1>2
<1>5. Reordering(n, S, S, ToHead(G, q))
  BY <1>1, <1>3, <1>4, GetRefreshedReorders
<1>6. mem' = n
  <2>1. Makes(KeepDirtyLog(GetTail), mem, n)
    BY <1>2, <1>3 DEF DirtyKept
  <2> QED BY <2>1, CommitMakes
<1> QED BY <1>5, <1>6, OrderIsQuiet

(* The dirty flag and its count.                                           *)
LEMMA DirtyIsQuiet ==
  ASSUME NEW S, NEW G, NEW B, NEW P, NEW U, WholeMap(S, G, B, P, U), NEW a \in Addr,
         NEW b \in BOOLEAN, Commit(setDirtyLog(a, b))
  PROVE  DataKept(mem, mem')
<1>1. Shape(mem) /\ mem["dirty"] \in [Addr -> BOOLEAN]
  BY PartsOf DEF Flags
<1>2. PICK n : DirtySet(n, a, b)
  BY <1>1, SetDirtyMakes
<1>3. mem' = n /\ Touches(mem, n, {"dirtyCount", "dirty"}, {a})
  BY <1>2, CommitMakes DEF DirtySet
<1>4. {"dirtyCount", "dirty"} \subseteq OrderFields \cup CountFields \cup {"dirty", "usedChunk"}
  BY DEF CountFields
<1> QED BY <1>3, <1>4, TouchesQuietly

(* The write-back of a record.                                             *)
LEMMA SyncIsQuiet ==
  ASSUME NEW S, NEW G, NEW B, NEW P, NEW U, WholeMap(S, G, B, P, U), sync \/ synced
  PROVE  DataKept(mem, mem')
<1> DEFINE a == op.addr
<1>1. Listing(S, G) /\ Working(op, S, P, crashed, calls) /\ Range(S) \subseteq Addr
  BY ListingOf
<1>2. /\ op.pc \in {"sync", "synced"}
      /\ Commit(TailPast(a)) \/ Commit(setDirtyLog(a, FALSE)) \/ mem' = mem
  BY DEF sync, synced
<1>3. a \in Range(S) /\ a \in Addr
  BY <1>1, <1>2, AtWork DEF AtRecord
<1> HIDE DEF a
<1>4. CASE Commit(TailPast(a))
  <2>1. PICK n : Makes(TailPast(a), mem, n) /\ Reordering(n, S, S, G)
    BY <1>1, <1>3, TailPastMakes
  <2>2. mem' = n
    BY <1>4, <2>1, CommitMakes
  <2> QED BY <2>1, <2>2, OrderIsQuiet
<1>5. CASE Commit(setDirtyLog(a, FALSE))
  <2>1. PICK b \in BOOLEAN : b = FALSE
    OBVIOUS
  <2>2. Commit(setDirtyLog(a, b))
    BY <1>5, <2>1
  <2> QED BY <1>3, <2>2, DirtyIsQuiet
<1>6. CASE mem' = mem
  BY <1>6, NothingIsQuiet
<1> QED BY <1>2, <1>4, <1>5, <1>6

(* Steps that count a block.                                               *)
LEMMA UsedTouches ==
  ASSUME Shape(mem), Commit(Add("usedChunk", 0, 1))
  PROVE  Touches(mem, mem', {"usedChunk"}, {})
<1>1. PICK w : w = TRUE
  OBVIOUS
<1>2. PICK n : HeadSet(n, w, "usedChunk", mem["usedChunk"][0] + 1)
  BY HeadSetMakes, DataFieldNames
<1>3. /\ Makes(If(w, Put("usedChunk", 0, mem["usedChunk"][0] + 1)), mem, n)
      /\ Touches(mem, n, {"usedChunk"}, {})
  BY <1>2 DEF HeadSet
<1>4. mem' = n
  <2>1. If(w, Put("usedChunk", 0, mem["usedChunk"][0] + 1)) = Add("usedChunk", 0, 1)
    BY <1>1 DEF If, Add
  <2> QED BY <1>3, <2>1, CommitMakes
<1> QED BY <1>3, <1>4

(* The count of the blocks that are used.                                  *)
LEMMA UsedIsQuiet ==
  ASSUME Shape(mem), Commit(Add("usedChunk", 0, 1))
  PROVE  DataKept(mem, mem')
<1>1. {"usedChunk"} \subseteq OrderFields \cup CountFields \cup {"dirty", "usedChunk"}
  OBVIOUS
<1> QED BY <1>1, UsedTouches, TouchesQuietly

(* The counts of records.                                                  *)
LEMMA CountIsQuiet ==
  ASSUME NEW S, NEW G, NEW B, NEW P, NEW U, WholeMap(S, G, B, P, U), count
  PROVE  DataKept(mem, mem')
<1>1. Shape(mem) /\ Counts(mem, S, op, crashed) /\ Working(op, S, P, crashed, calls)
  BY PartsOf
<1>2. op.pc = "count" /\ Commit(op.log)
  BY DEF count
<1>3. Phase(op) = "count"
  BY <1>1, <1>2, AtWork
<1>4. PICK x, y : Logged(mem, op.log, x, y)
  BY <1>1, <1>3 DEF Counts, ToCount
<1>5. PICK n : CountsSet(n, op.log, x, y)
  BY <1>1, <1>4, LoggedMakes
<1>6. mem' = n /\ Touches(mem, n, {"dirtyCount", "onlyKeyCount"}, {})
  BY <1>2, <1>5, CommitMakes DEF CountsSet
<1>7. {"dirtyCount", "onlyKeyCount"} \subseteq OrderFields \cup CountFields \cup {"dirty", "usedChunk"}
  BY DEF CountFields
<1> QED BY <1>6, <1>7, TouchesQuietly

(* A part of the data is copied.                                           *)
LEMMA CopySees ==
  ASSUME NEW S, NEW G, NEW B, NEW P, NEW U, Before(S, G, B, P, U),
         NEW S2, NEW G2, NEW B2, NEW P2, NEW U2, After(S2, G2, B2, P2, U2), copy
  PROVE  /\ TypedValues(mem') /\ Changes(S, P, S2, P2) /\ P2[op.addr] = P[op.addr]
         /\ Part = P[op.addr][op.n + 1] /\ op.n + 1 \in 1 .. Len(P[op.addr])
         /\ mem'["onlyKey"] = mem["onlyKey"] /\ mem'["dirty"] = mem["dirty"]
         /\ mem'["val"] = [mem["val"] EXCEPT ![Part] = op.val]
         /\ mem'["key"] = [mem["key"] EXCEPT ![Part] = IF op.n = 0 THEN op.key ELSE mem["key"][Part]]
         /\ op.n = Need => mem'["len"][Part] = "set"
<1> DEFINE a == op.addr
           b == Part
           s == P[a]
           k == IF op.n = 0 THEN op.key ELSE mem["key"][b]
           l == IF op.n = Need THEN "set" ELSE mem["len"][b]
           n == [mem EXCEPT !.val[b] = op.val, !.key[b] = k, !.len[b] = l]
<1>0. op.pc = "copy"
  BY DEF copy
<1>1. /\ a \in Range(S) /\ op.key \in Keys /\ mem["key"][a] \in {None, op.key}
      /\ op.val \in Values \cup {None} /\ PartsAre(a, s) /\ s \in Seq(Addr)
  BY <1>0, OwnRecord
<1>2. Shape(mem) /\ Chains(mem, S, P)
  BY PartsOf DEF Before
<1>3. /\ b \in Addr /\ b \in Range(s) /\ op.n \in 0 .. Needs(op) /\ Needs(op) \in Nat
      /\ Needs(op) + 1 = Len(s)
  BY <1>0, PartIsUsed DEF Before
<1>4. b = s[op.n + 1]
  BY <1>1 DEF PartsAre, Part
<1>5. op.n + 1 \in 1 .. Len(s)
  BY <1>3
<1> HIDE DEF Part
<1>6. DOMAIN mem["val"] = Addr /\ DOMAIN mem["key"] = Addr /\ DOMAIN mem["len"] = Addr
  BY <1>2, ShapeOf, FieldNames
<1>7. mem' = n
  <2>1. "val" \in DOMAIN mem /\ "key" \in DOMAIN mem /\ "len" \in DOMAIN mem
    BY <1>2, FieldNames DEF Shape
  <2>2. b \in DOMAIN mem["val"] /\ b \in DOMAIN mem["key"] /\ b \in DOMAIN mem["len"]
    BY <1>3, <1>6
  <2> QED BY <2>1, <2>2 DEF copy, Part
<1>8. CopyMade(n, b, op.val, k, l)
  <2> HIDE DEF k, l, b
  <2> QED BY ONLY <1>2, <1>3, CopyMakes DEF n
<1>9. /\ n["val"] = [mem["val"] EXCEPT ![b] = op.val] /\ n["key"] = [mem["key"] EXCEPT ![b] = k]
      /\ n["len"] = [mem["len"] EXCEPT ![b] = l] /\ n["onlyKey"] = mem["onlyKey"]
  <2>1. "val" \in DOMAIN mem /\ "key" \in DOMAIN mem /\ "len" \in DOMAIN mem
    BY <1>2, FieldNames DEF Shape
  <2> HIDE DEF k, l, b
  <2> QED BY <2>1
<1>10. Touches(mem, mem', DataFields, {b}) /\ mem'["nextChunk"] = mem["nextChunk"]
  BY <1>7, <1>8 DEF CopyMade
<1> HIDE DEF n
<1>11. TypedValues(mem')
  BY <1>1, <1>3, <1>6, <1>7, <1>9 DEF Before, TypedValues
<1>12. mem'["key"][a] \in {None, op.key}
  <2>1. op.n # 0 \/ b = a
    BY <1>1, <1>4 DEF PartsAre
  <2>2. a \in Addr
    BY <1>0, OwnRecord
  <2>3. mem'["key"][a] = IF a = b THEN k ELSE mem["key"][a]
    BY <1>6, <1>7, <1>9, <2>2
  <2> QED BY <1>1, <2>1, <2>3
<1>13. Changes(S, P, S2, P2)
  <2>0. {b} \subseteq Range(P[a]) \cup (Addr \ UsedIn(P))
    BY <1>3
  <2> HIDE DEF b, s
  <2>1. \A x \in Range(S) : x # a => {b} \cap Range(P[x]) = {}
    BY <1>1, <1>2, <2>0, OwnBlocks
  <2>2. DataFields \subseteq OwnFields
    BY DEF OwnFields
  <2> QED BY <1>1, <1>10, <1>11, <1>12, <2>1, <2>2, OwnSees
<1>14. P2[a] = s
  <2>1. Chains(mem', S2, P2) /\ a \in Range(S2)
    BY <1>1, <1>13 DEF After, Whole, Changes
  <2> QED BY <1>1, <1>2, <1>10, <2>1, SameParts
<1>15. op.n = Need => mem'["len"][b] = "set"
  BY <1>3, <1>6, <1>7, <1>9
<1>16. mem'["dirty"] = mem["dirty"]
  BY <1>10, FlagsAreNoData
<1> QED BY <1>4, <1>5, <1>7, <1>9, <1>11, <1>13, <1>14, <1>15, <1>16

(* A process dies in the middle of the copy.                               *)
LEMMA TornSees ==
  ASSUME NEW S, NEW G, NEW B, NEW P, NEW U, Before(S, G, B, P, U),
         NEW S2, NEW G2, NEW B2, NEW P2, NEW U2, After(S2, G2, B2, P2, U2), op.pc = "copy",
         NEW v \in {Torn, None}, mem' = [mem EXCEPT !.val[Part] = v]
  PROVE  TypedValues(mem') /\ Changes(S, P, S2, P2)
<1> DEFINE a == op.addr
           b == Part
           n == [mem EXCEPT !.val[Part] = v]
<1>1. a \in Range(S) /\ op.key \in Keys /\ mem["key"][a] \in {None, op.key}
  BY OwnRecord
<1>2. Shape(mem) /\ Chains(mem, S, P)
  BY PartsOf DEF Before
<1>3. b \in Addr /\ b \in Range(P[a])
  BY PartIsUsed DEF Before
<1> HIDE DEF Part
<1>4. "val" \in DOMAIN mem /\ DOMAIN mem["val"] = Addr /\ DOMAIN mem = Fields
  BY <1>2, ShapeOf, FieldNames DEF Shape, Fields
<1>5. /\ DOMAIN n = Fields /\ \A f \in Fields \ {"val"} : n[f] = mem[f]
      /\ n["val"] = [mem["val"] EXCEPT ![b] = v]
  BY <1>4
<1>6. mem' = n
  OBVIOUS
<1> HIDE DEF n, b
<1>7. Touches(mem, n, DataFields, {b})
  <2>1. \A f \in Fields : DOMAIN n[f] = DOMAIN mem[f]
    BY <1>4, <1>5
  <2>2. Shape(n)
    BY <1>2, <1>5, <2>1 DEF Shape, Fields
  <2>3. \A f \in Fields \ DataFields : n[f] = mem[f]
    BY <1>5 DEF DataFields
  <2>4. \A f \in DataFields \cap BlockFields : \A x \in Addr \ {b} : n[f][x] = mem[f][x]
    BY <1>4, <1>5, DataFieldNames
  <2> QED BY <2>2, <2>3, <2>4 DEF Touches
<1>8. TypedValues(mem')
  BY <1>3, <1>4, <1>5, <1>6 DEF Before, TypedValues
<1>9. mem'["key"] = mem["key"]
  BY <1>5, <1>6, FieldNames, ListingFieldNames
<1>10. Changes(S, P, S2, P2)
  <2>1. \A x \in Range(S) : x # a => {b} \cap Range(P[x]) = {}
    BY <1>1, <1>2, <1>3, OwnBlocks
  <2>2. DataFields \subseteq OwnFields
    BY DEF OwnFields
  <2> QED BY <1>1, <1>6, <1>7, <1>8, <1>9, <2>1, <2>2, OwnSees
<1> QED BY <1>8, <1>10

-----------------------------------------------------------------------------
(***************************************************************************)
(* What operations have done of what CacheMap sees.                        *)
(***************************************************************************)

(* The parts of s that have been copied hold what they shall.              *)
Copied(m, s, o) ==
  /\ m.onlyKey[o.addr] = (o.val = None)
  /\ \A i \in 1 .. o.n : m.val[s[i]] = o.val
  /\ o.n >= 1 => m.key[o.addr] = o.key

(* Until the chunks are joined a set has left what was there before it;    *)
(* from the copy on what it stores is there.  In between its record has no *)
(* other key than its own.  V is what is read, s the parts of the record,  *)
(* p the phase.                                                            *)
Setting(m, s, o, V, p) ==
  /\ o.key \in Keys /\ o.val \in Values \cup {None} /\ p # "idle"
  /\ p \in {"block", "link", "room", "chunk", "undo"} => V[o.key] = o.old
  /\ p \notin {"undo", "return"} => o.res = None
  /\ p \in {"count", "dirty", "setList", "getList"} => V[o.key] = Stored(o.val)
  /\ p = "undo" => o.res = "noMemory" /\ o.fresh
  /\ p = "return" => o.res \in {"ok", "error", "noMemory"} /\ V[o.key] = Kept(o)
  /\ p \in Making \ {"block", "link"} => m.index[o.addr] = Bucket[o.key]
  /\ p \in {"room", "chunk", "undo"} /\ o.fresh => m.key[o.addr] = None
  /\ p = "copy" => Copied(m, s, o)

(* The operations.                                                         *)
Names == {None, "mark", "sync", "set", "del", "erase", "recover"}

(* The operations that go through a phase.                                 *)
Named(o, p) ==
  /\ o.name \in Names
  /\ p \in {"sync", "synced"} => o.name = "sync"
  /\ p \in {"dirty", "setList", "getList"} => o.name \in {"set", "mark"}
  /\ p \in Making \cup {"count"} => o.name = "set"

(* What the operation at work has done.                                    *)
Served(o, m, P, V) ==
  Named(o, Phase(o)) /\ (o.name = "set" => Setting(m, P[o.addr], o, V, Phase(o)))

(* The state before a step: whole, and the operation served.               *)
Serving(S, G, B, P, U) == Before(S, G, B, P, U) /\ Served(op, mem, P, View)

(* What a step does that CacheMap sees, or does not see.                   *)
Follows(P) == CacheStep /\ TypedValues(mem') /\ Served(op', mem', P, View')

-----------------------------------------------------------------------------
(* A set goes from phase p to q and nothing changes in what is read.       *)
Passing(o, o2, p, q) ==
  /\ SameTask(o, o2) /\ o2.fresh = o.fresh
  /\ \/ q = p /\ p # "copy" /\ o2.res = o.res /\ (p \notin {"block", "link"} => o2.addr = o.addr)
     \/ p = "block" /\ q = "link" /\ o2.res = o.res
     \/ p = "room" /\ q \in {"flags", "chunk"} /\ o2.res = o.res /\ o2.addr = o.addr
     \/ p = "chunk" /\ q = "join" /\ o2.res = o.res /\ o2.addr = o.addr
     \/ p \in {"block", "chunk"} /\ q = "return" /\ o2.res = "noMemory"
     \/ p = "chunk" /\ q = "undo" /\ o2.res = "noMemory" /\ o2.addr = o.addr /\ o.fresh
     \/ p = "count" /\ q \in {"dirty", "setList"} /\ o2.res = o.res
     \/ p = "dirty" /\ q = "setList" /\ o2.res = o.res
     \/ p = "setList" /\ q = "getList" /\ o2.res = o.res
     \/ p = "getList" /\ q = "return" /\ o2.res = "ok"

(* A step of a set that changes nothing that is read.                      *)
LEMMA SetPasses ==
  ASSUME NEW m, NEW s, NEW o, NEW V, NEW p, Setting(m, s, o, V, p),
         NEW n, NEW s2, NEW o2, NEW q, Passing(o, o2, p, q),
         n.key = m.key, n.index = m.index
  PROVE  Setting(n, s2, o2, V, q)
<1>1. /\ o2.key = o.key /\ o2.val = o.val /\ o2.old = o.old /\ o2.fresh = o.fresh
  BY DEF Passing, SameTask
<1>2. o2.res = "noMemory" => Kept(o2) = o.old
  BY <1>1 DEF Kept
<1>3. o2.res = "ok" => Kept(o2) = Stored(o.val)
  BY <1>1 DEF Kept, Stored
<1>4. o2.res = o.res => Kept(o2) = Kept(o)
  BY <1>1 DEF Kept, Stored
<1> QED BY <1>1, <1>2, <1>3, <1>4 DEF Passing, Setting, Making

(* What is read by every operation.                                        *)
LEMMA ServingOf ==
  ASSUME NEW S, NEW G, NEW B, NEW P, NEW U, Serving(S, G, B, P, U)
  PROVE  /\ Before(S, G, B, P, U) /\ WholeMap(S, G, B, P, U)
         /\ op.name \in Names /\ Named(op, Phase(op))
         /\ op.name = "set" => Setting(mem, P[op.addr], op, View, Phase(op))
         /\ DOMAIN op = DOMAIN Idle /\ Working(op, S, P, crashed, calls)
BY PartsOf DEF Serving, Served, Before, Named, Working

(* A step of a set that changes nothing that is read follows CacheMap.     *)
LEMMA PassFollows ==
  ASSUME NEW S, NEW G, NEW B, NEW P, NEW U, Serving(S, G, B, P, U),
         NEW S2, NEW G2, NEW B2, NEW P2, NEW U2, After(S2, G2, B2, P2, U2),
         DataKept(mem, mem'), op.name = "set", Passing(op, op', Phase(op), Phase(op'))
  PROVE  Follows(P2)
<1>1. Before(S, G, B, P, U) /\ Setting(mem, P[op.addr], op, View, Phase(op))
  BY ServingOf
<1>2. TypedValues(mem') /\ View' = View
  BY <1>1, QuietSees
<1>3. mem'["key"] = mem["key"] /\ mem'["index"] = mem["index"]
  BY DEF DataKept, ReadFields
<1> DEFINE p == Phase(op)
           q == Phase(op')
           m == mem
           n == mem'
           o == op
           o2 == op'
           V == View
           s == P[op.addr]
           s2 == P2[op'.addr]
<1>4. Setting(n, s2, o2, V, q)
  <2>1. Setting(m, s, o, V, p) /\ Passing(o, o2, p, q) /\ n.key = m.key /\ n.index = m.index
    BY <1>1, <1>3
  <2> HIDE DEF p, q, m, n, o, o2, V, s, s2
  <2> QED BY ONLY <2>1, SetPasses
<1>5. Setting(mem', P2[op'.addr], op', View', Phase(op'))
  BY <1>2, <1>4
<1>6. SameTask(op, op') /\ op'.name = "set"
  BY DEF Passing, SameTask
<1>7. CacheStep
  BY <1>2, <1>6, QuietWork
<1>8. Named(op', Phase(op'))
  <2>1. Named(op, Phase(op))
    BY ServingOf
  <2>2. Phase(op') \in {"sync", "synced"} => Phase(op) \in {"sync", "synced"}
    BY DEF Passing
  <2> HIDE DEF Phase
  <2> QED BY <1>6, <2>1, <2>2 DEF Named, Names
<1> QED BY <1>2, <1>5, <1>7, <1>8 DEF Follows, Served

(* Steps of operations that are no sets.                                   *)
LEMMA OtherFollows ==
  ASSUME NEW S, NEW G, NEW B, NEW P, NEW U, Serving(S, G, B, P, U),
         NEW S2, NEW G2, NEW B2, NEW P2, NEW U2, After(S2, G2, B2, P2, U2),
         DataKept(mem, mem'), Named(op', Phase(op')), op'.name # "set",
         \/ SameTask(op, op')
         \/ op.name \in {None, "mark", "sync"} /\ op'.name \in {None, "mark", "sync"}
  PROVE  Follows(P2)
<1>1. TypedValues(mem') /\ View' = View
  BY ServingOf, QuietSees
<1>2. CacheStep
  BY <1>1, QuietWork, UnseenWork
<1> QED BY <1>1, <1>2 DEF Follows, Served

(* What holds around a step.                                               *)
Stepping(S, G, B, P, U, S2, G2, B2, P2, U2) ==
  Serving(S, G, B, P, U) /\ After(S2, G2, B2, P2, U2)

(* Where an operation is.                                                  *)
LEMMA PhaseIs ==
  ASSUME NEW o
  PROVE  /\ o.pc \notin {"release", "evict"} => Phase(o) = o.pc
         /\ o.pc = "evict" => Phase(o) = o.back
         /\ o.pc = "release" => Phase(o) = IF o.ret = "evict" THEN o.back ELSE o.ret
BY DEF Phase

-----------------------------------------------------------------------------
(***************************************************************************)
(* The operations follow CacheMap.                                         *)
(***************************************************************************)

(* What is known of the operation at work.                                 *)
LEMMA SteppingOf ==
  ASSUME NEW S, NEW G, NEW B, NEW P, NEW U, NEW S2, NEW G2, NEW B2, NEW P2, NEW U2,
         Stepping(S, G, B, P, U, S2, G2, B2, P2, U2)
  PROVE  /\ Serving(S, G, B, P, U) /\ After(S2, G2, B2, P2, U2) /\ Before(S, G, B, P, U)
         /\ WholeMap(S, G, B, P, U) /\ DOMAIN op = DOMAIN Idle
         /\ Working(op, S, P, crashed, calls)
         /\ op.pc \notin {"release", "evict"} => Phase(op) = op.pc
         /\ op.name \in Names /\ Named(op, Phase(op))
         /\ op.name = "set" => Setting(mem, P[op.addr], op, View, Phase(op))
         /\ op.pc = "idle" => op = Idle
         /\ Range(S) \subseteq Addr /\ 0 \notin Range(S)
<1>1. Range(S) \subseteq Addr /\ 0 \notin Range(S)
  <2>1. Range(S) \subseteq Addr
    BY ServingOf, PartsOf DEF Stepping
  <2> QED BY <2>1, HashMapAssumption
<1>2. Serving(S, G, B, P, U) /\ After(S2, G2, B2, P2, U2)
  BY DEF Stepping
<1>3. op.pc = "idle" => op = Idle
  BY <1>2, ServingOf DEF Working
<1> QED BY <1>1, <1>2, <1>3, ServingOf, PhaseIs

(* Who has nothing to do.                                                  *)
LEMMA IdleIs ==
  /\ Idle.pc = "idle" /\ Idle.name = None /\ Idle.res = None /\ Idle.addr = 0 /\ Phase(Idle) = "idle"
  /\ None \notin {"set", "del", "erase", "recover", "drop", "ok", "error", "noMemory"}
  /\ Named(Idle, "idle")
<1>1. /\ Idle.pc = "idle" /\ Idle.name = None /\ Idle.res = None /\ Idle.addr = 0
      /\ Phase(Idle) = "idle"
  BY IdleHands DEF Idle
<1> QED BY <1>1, NamesDiffer DEF Named, Names, Making

(* setDirty of the record, as a part of set and as an operation.           *)
LEMMA SetDirtyFlagFollows ==
  ASSUME NEW S, NEW G, NEW B, NEW P, NEW U, NEW S2, NEW G2, NEW B2, NEW P2, NEW U2,
         Stepping(S, G, B, P, U, S2, G2, B2, P2, U2),
         setDirtyFlag \/ refreshSetList \/ refreshGetList \/ count
  PROVE  Follows(P2)
<1>1. /\ op.pc \in {"count", "dirty", "setList", "getList"}
      /\ op.pc = "count" => count /\ op' \in {[op EXCEPT !.pc = "setList"], [op EXCEPT !.pc = "dirty"]}
      /\ op.pc = "dirty" => Commit(setDirtyLog(op.addr, op.dirty)) /\ op' = [op EXCEPT !.pc = "setList"]
      /\ op.pc = "setList" => Commit(refreshSetListLog(op.addr)) /\ op' = [op EXCEPT !.pc = "getList"]
      /\ op.pc = "getList" => /\ Commit(refreshGetListLog(op.addr))
                              /\ op' = [op EXCEPT !.pc = "return", !.res = "ok"]
  BY DEF setDirtyFlag, refreshSetList, refreshGetList, count, Become
<1>2. /\ Serving(S, G, B, P, U) /\ After(S2, G2, B2, P2, U2) /\ WholeMap(S, G, B, P, U)
      /\ DOMAIN op = DOMAIN Idle /\ Phase(op) = op.pc /\ op.name \in {"set", "mark"}
      /\ op.pc = "count" => op.name = "set"
  BY <1>1, SteppingOf DEF Named
<1>3. op.addr \in Range(S) /\ op.addr \in Addr /\ op.dirty \in BOOLEAN
  BY <1>1, <1>2, SteppingOf, AtWork DEF AtRecord
<1>4. DataKept(mem, mem')
  <2>1. CASE op.pc = "count"
    BY <1>1, <1>2, <2>1, CountIsQuiet
  <2>2. CASE op.pc = "dirty"
    BY <1>1, <1>2, <1>3, <2>2, DirtyIsQuiet
  <2>3. CASE op.pc = "setList"
    BY <1>1, <1>2, <1>3, <2>3, SetListIsQuiet
  <2>4. CASE op.pc = "getList"
    BY <1>1, <1>2, <1>3, <2>4, GetListIsQuiet
  <2> QED BY <1>1, <2>1, <2>2, <2>3, <2>4
<1>5. /\ SameTask(op, op') /\ op'.fresh = op.fresh /\ op'.addr = op.addr
      /\ op.pc = "count" => op'.pc \in {"setList", "dirty"} /\ op'.res = op.res
      /\ op.pc = "dirty" => op'.pc = "setList" /\ op'.res = op.res
      /\ op.pc = "setList" => op'.pc = "getList" /\ op'.res = op.res
      /\ op.pc = "getList" => op'.pc = "return" /\ op'.res = "ok"
  <2>1. CASE op.pc # "getList"
    <3>1. PICK p \in {"setList", "dirty", "getList"} :
            /\ op' = [op EXCEPT !.pc = p]
            /\ op.pc = "count" => p # "getList"
            /\ op.pc = "dirty" => p = "setList"
            /\ op.pc = "setList" => p = "getList"
      BY <1>1, <2>1
    <3>2. SameTask(op, op') /\ op'.fresh = op.fresh /\ op'.addr = op.addr /\ op'.res = op.res
          /\ op'.pc = p
      BY <1>2, <3>1, OperationFields DEF SameTask
    <3> QED BY <1>1, <2>1, <3>1, <3>2
  <2>2. CASE op.pc = "getList"
    <3>1. SameTask(op, op') /\ op'.fresh = op.fresh /\ op'.addr = op.addr /\ op'.res = "ok"
          /\ op'.pc = "return"
      BY <1>1, <1>2, <2>2, OperationFields DEF SameTask
    <3> QED BY <2>2, <3>1
  <2> QED BY <2>1, <2>2
<1>6. Phase(op') = op'.pc
  BY <1>1, <1>5, PhaseIs
<1>7. CASE op.name = "set"
  <2>1. Passing(op, op', Phase(op), Phase(op'))
    <3> HIDE DEF Phase
    <3> QED BY <1>1, <1>2, <1>5, <1>6 DEF Passing
  <2> QED BY <1>2, <1>4, <1>7, <2>1, PassFollows
<1>8. CASE op.name = "mark"
  <2>1. Named(op', Phase(op')) /\ op'.name # "set"
    BY <1>1, <1>2, <1>5, <1>6, <1>8 DEF Named, Names, Making, SameTask
  <2> QED BY <1>2, <1>4, <1>5, <2>1, OtherFollows
<1> QED BY <1>2, <1>7, <1>8

(* Steps of operations that read or move a cursor, and setDirty's first.   *)
LEMMA ReadersFollow ==
  ASSUME NEW S, NEW G, NEW B, NEW P, NEW U, NEW S2, NEW G2, NEW B2, NEW P2, NEW U2,
         Stepping(S, G, B, P, U, S2, G2, B2, P2, U2), Begin, DataKept(mem, mem'),
         \/ op' = op
         \/ op' = [Start("sync", None) EXCEPT !.pc = "sync", !.addr = SyncTail]
         \/ \E k, a, d : op' = [Start("mark", k) EXCEPT !.pc = "dirty", !.addr = a, !.dirty = d]
  PROVE  Follows(P2)
<1>1. Serving(S, G, B, P, U) /\ After(S2, G2, B2, P2, U2) /\ op = Idle
  BY SteppingOf DEF Begin
<1>2. op.name = None
  BY <1>1, IdleIs
<1>3. \/ op' = Idle
      \/ op'.name = "sync" /\ op'.pc = "sync"
      \/ op'.name = "mark" /\ op'.pc = "dirty"
  BY <1>1, OperationFields DEF Start, Idle
<1>4. Named(op', Phase(op')) /\ op'.name \in {None, "mark", "sync"} /\ op'.name # "set"
  <2>1. CASE op' = Idle
    BY <2>1, IdleIs
  <2>2. CASE \/ op'.name = "sync" /\ op'.pc = "sync"
             \/ op'.name = "mark" /\ op'.pc = "dirty"
    <3>1. Phase(op') = op'.pc
      BY <2>2, PhaseIs
    <3> QED BY <2>2, <3>1 DEF Named, Names, Making
  <2> QED BY <1>3, <2>1, <2>2
<1> QED BY <1>1, <1>2, <1>4, OtherFollows

(* get, backup, sync(), the first step of a write-back and that of         *)
(* setDirty, and erase of a record that is dirty.                          *)
LEMMA BeginnersFollow ==
  ASSUME NEW S, NEW G, NEW B, NEW P, NEW U, NEW S2, NEW G2, NEW B2, NEW P2, NEW U2,
         Stepping(S, G, B, P, U, S2, G2, B2, P2, U2),
         \/ syncBegin \/ syncNext \/ backup \/ \E force \in BOOLEAN : backupBegin(force)
         \/ \E k \in Keys : get(k) \/ \E d \in BOOLEAN : markDirty(k, d)
  PROVE  Follows(P2)
<1>1. WholeMap(S, G, B, P, U)
  BY SteppingOf
<1>2. CASE syncBegin \/ syncNext \/ backup \/ \E force \in BOOLEAN : backupBegin(force)
  <2>1. DataKept(mem, mem')
    BY <1>1, <1>2, CursorsAreQuiet
  <2>2. Begin /\ (op' = op \/ op' = [Start("sync", None) EXCEPT !.pc = "sync", !.addr = SyncTail])
    BY <1>2 DEF syncBegin, syncNext, backup, backupBegin
  <2> QED BY <2>1, <2>2, ReadersFollow
<1>3. ASSUME NEW k \in Keys, get(k) PROVE Follows(P2)
  <2>1. findValue(k) \in Range(S)
    BY <1>1, <1>3, FindValueFinds, PartsOf DEF get
  <2>2. DataKept(mem, mem')
    BY <1>1, <1>3, <2>1, GetListIsQuiet DEF get
  <2>3. Begin /\ op' = op
    BY <1>3 DEF get
  <2> QED BY <2>2, <2>3, ReadersFollow
<1>4. ASSUME NEW k \in Keys, NEW d \in BOOLEAN, markDirty(k, d) PROVE Follows(P2)
  <2>1. Begin /\ mem' = mem /\ op' = [Start("mark", k) EXCEPT !.pc = "dirty", !.addr = find(k), !.dirty = d]
    BY <1>4 DEF markDirty
  <2>2. DataKept(mem, mem')
    BY <2>1, NothingIsQuiet
  <2> QED BY <2>1, <2>2, ReadersFollow
<1> QED BY <1>2, <1>3, <1>4

(* sync and the callback's return follow CacheMap.                         *)
LEMMA SyncFollows ==
  ASSUME NEW S, NEW G, NEW B, NEW P, NEW U, NEW S2, NEW G2, NEW B2, NEW P2, NEW U2,
         Stepping(S, G, B, P, U, S2, G2, B2, P2, U2), sync \/ synced
  PROVE  Follows(P2)
<1>1. /\ Serving(S, G, B, P, U) /\ After(S2, G2, B2, P2, U2) /\ WholeMap(S, G, B, P, U)
      /\ DOMAIN op = DOMAIN Idle
  BY SteppingOf
<1>2. op.pc \in {"sync", "synced"} /\ (op' = Idle \/ op' = [op EXCEPT !.pc = "synced"])
  BY DEF sync, synced, Become
<1>3. op.name = "sync"
  BY <1>2, SteppingOf DEF Named
<1>4. DataKept(mem, mem')
  BY <1>1, SyncIsQuiet
<1>5. Named(op', Phase(op')) /\ op'.name \in {None, "sync"} /\ op'.name # "set"
  <2>1. CASE op' = Idle
    BY <2>1, IdleIs
  <2>2. CASE op' = [op EXCEPT !.pc = "synced"]
    <3>1. op'.pc = "synced" /\ op'.name = "sync"
      BY <1>1, <1>3, <2>2, OperationFields
    <3>2. Phase(op') = "synced"
      BY <3>1, PhaseIs
    <3> QED BY <3>1, <3>2 DEF Named, Names, Making
  <2> QED BY <1>2, <2>1, <2>2
<1> QED BY <1>1, <1>3, <1>4, <1>5, OtherFollows

(* set(k, v, d) is called.                                                 *)
LEMMA SetFollows ==
  ASSUME NEW S, NEW G, NEW B, NEW P, NEW U, NEW S2, NEW G2, NEW B2, NEW P2, NEW U2,
         Stepping(S, G, B, P, U, S2, G2, B2, P2, U2),
         NEW k \in Keys, NEW v \in Values \cup {None}, NEW d \in BOOLEAN, set(k, v, d)
  PROVE  Follows(P2)
<1> DEFINE a == find(k)
<1>1. /\ Serving(S, G, B, P, U) /\ After(S2, G2, B2, P2, U2) /\ op = Idle
      /\ Before(S, G, B, P, U) /\ WholeMap(S, G, B, P, U) /\ 0 \notin Range(S)
  BY SteppingOf DEF set, Begin
<1>2. DataKept(mem, mem')
  BY NothingIsQuiet DEF set
<1>3. TypedValues(mem') /\ View' = View
  BY <1>1, <1>2, QuietSees
<1>4. /\ op'.name = "set" /\ op'.key = k /\ op'.val = v /\ op'.old = View[k]
      /\ \/ a = -1 /\ op'.pc = "return" /\ op'.res = "error"
         \/ a = 0 /\ op'.pc = "block" /\ op'.res = None
         \/ a \notin {0, -1} /\ op'.pc = "room" /\ op'.addr = a /\ op'.fresh = FALSE /\ op'.res = None
  <2> HIDE DEF a
  <2> QED BY DEF set, Start, Idle, a
<1>5. a \in {0, -1} \/ (a \in Range(S) /\ Is(mem, a, k))
  BY <1>1, FindFinds, PartsOf
<1> HIDE DEF a
<1>6. Phase(op') = op'.pc /\ op'.pc \in {"return", "block", "room"}
  BY <1>4, PhaseIs
<1>7. CacheStep
  BY <1>1, <1>3, <1>4, SetBegins
<1>8. Named(op', Phase(op'))
  BY <1>4, <1>6 DEF Named, Names
<1>9. mem' = mem
  BY DEF set
<1>10. op'.pc = "room" => mem'.index[op'.addr] = Bucket[k]
  BY <1>4, <1>5, <1>9 DEF Is
<1>11. op'.res = "error" => Kept(op') = View[k]
  BY <1>4 DEF Kept
<1>12. Setting(mem', P2[op'.addr], op', View', Phase(op'))
  <2> HIDE DEF Phase
  <2> QED BY <1>3, <1>4, <1>6, <1>10, <1>11 DEF Setting, Making
<1> QED BY <1>3, <1>7, <1>8, <1>12 DEF Follows, Served

(* The search for blocks, until they are there or there is no room.        *)
LEMMA SearchFollows ==
  ASSUME NEW S, NEW G, NEW B, NEW P, NEW U, NEW S2, NEW G2, NEW B2, NEW P2, NEW U2,
         Stepping(S, G, B, P, U, S2, G2, B2, P2, U2),
         allocateMemBlock \/ allocateChunk
  PROVE  Follows(P2)
<1>1. /\ Serving(S, G, B, P, U) /\ After(S2, G2, B2, P2, U2) /\ WholeMap(S, G, B, P, U)
      /\ DOMAIN op = DOMAIN Idle /\ op.pc \in {"block", "chunk"} /\ Phase(op) = op.pc
  BY SteppingOf DEF allocateMemBlock, allocateChunk
<1>2. op.name = "set"
  BY <1>1, SteppingOf DEF Named, Making
<1>3. Shape(mem)
  BY <1>1, PartsOf
<1>4. DataKept(mem, mem')
  <2>1. mem' = mem \/ Commit(Add("usedChunk", 0, 1))
    BY DEF allocateMemBlock, allocateChunk
  <2> QED BY <1>3, <2>1, NothingIsQuiet, UsedIsQuiet
<1>5. \/ op' = Evicting(op.pc)
      \/ op.pc = "block" /\ \E a : op' = [op EXCEPT !.pc = "link", !.addr = a]
      \/ op.pc = "chunk" /\ \E c, t : t \in {"join", "chunk"} /\ op' = [op EXCEPT !.chunks = c, !.pc = t]
  BY DEF allocateMemBlock, allocateChunk
<1>6. Passing(op, op', Phase(op), Phase(op'))
  <2>1. CASE op' = Evicting(op.pc)
    <3>1. /\ SameTask(op, op') /\ op'.fresh = op.fresh /\ op'.addr = op.addr /\ op'.res = op.res
          /\ op'.pc = "evict" /\ op'.back = op.pc
      BY <1>1, <2>1, OperationFields DEF Evicting, SameTask
    <3>2. Phase(op') = op.pc
      BY <3>1, PhaseIs
    <3> HIDE DEF Phase
    <3> QED BY <1>1, <3>1, <3>2 DEF Passing
  <2>2. CASE op.pc = "block" /\ \E a : op' = [op EXCEPT !.pc = "link", !.addr = a]
    <3>1. SameTask(op, op') /\ op'.fresh = op.fresh /\ op'.res = op.res /\ op'.pc = "link"
      BY <1>1, <2>2, OperationFields DEF SameTask
    <3>2. Phase(op') = "link"
      BY <3>1, PhaseIs
    <3> HIDE DEF Phase
    <3> QED BY <1>1, <2>2, <3>1, <3>2 DEF Passing
  <2>3. CASE op.pc = "chunk" /\ \E c, t : /\ t \in {"join", "chunk"}
                                         /\ op' = [op EXCEPT !.chunks = c, !.pc = t]
    <3>1. /\ SameTask(op, op') /\ op'.fresh = op.fresh /\ op'.addr = op.addr /\ op'.res = op.res
          /\ op'.pc \in {"join", "chunk"}
      BY <1>1, <2>3, OperationFields DEF SameTask
    <3>2. Phase(op') = op'.pc
      BY <3>1, PhaseIs
    <3> HIDE DEF Phase
    <3> QED BY <1>1, <2>3, <3>1, <3>2 DEF Passing
  <2> QED BY <1>5, <2>1, <2>2, <2>3
<1> QED BY <1>1, <1>2, <1>4, <1>6, PassFollows

(* The end of eviction.                                                    *)
LEMMA EvictedFollows ==
  ASSUME NEW S, NEW G, NEW B, NEW P, NEW U, NEW S2, NEW G2, NEW B2, NEW P2, NEW U2,
         Stepping(S, G, B, P, U, S2, G2, B2, P2, U2), op.pc = "evict", mem' = mem,
         \/ op' = [op EXCEPT !.pc = op.back]
         \/ op' = Releasing([op EXCEPT !.chunks = <<>>, !.res = "noMemory"], op.chunks,
                            IF op.fresh /\ op.back = "chunk" THEN "undo" ELSE "return")
  PROVE  Follows(P2)
<1>1. /\ Serving(S, G, B, P, U) /\ After(S2, G2, B2, P2, U2) /\ WholeMap(S, G, B, P, U)
      /\ DOMAIN op = DOMAIN Idle /\ Working(op, S, P, crashed, calls)
  BY SteppingOf
<1>2. Phase(op) = op.back /\ op.back \in {"block", "chunk"}
  BY <1>1, PhaseIs DEF Working
<1>3. op.name = "set"
  BY <1>2, SteppingOf DEF Named, Making
<1>4. DataKept(mem, mem')
  BY NothingIsQuiet
<1> HIDE DEF Phase
<1>5. Passing(op, op', Phase(op), Phase(op'))
  <2>1. CASE op' = [op EXCEPT !.pc = op.back]
    <3>1. /\ SameTask(op, op') /\ op'.fresh = op.fresh /\ op'.addr = op.addr /\ op'.res = op.res
          /\ op'.pc = op.back
      BY <1>1, <2>1, OperationFields DEF SameTask
    <3>2. Phase(op') = op.back
      BY <1>2, <3>1, PhaseIs
    <3> QED BY <1>2, <3>1, <3>2 DEF Passing
  <2>2. ASSUME NEW r, r = (IF op.fresh /\ op.back = "chunk" THEN "undo" ELSE "return"),
               op' = Releasing([op EXCEPT !.chunks = <<>>, !.res = "noMemory"], op.chunks, r)
        PROVE  Passing(op, op', Phase(op), Phase(op'))
    <3>1. /\ SameTask(op, op') /\ op'.fresh = op.fresh /\ op'.addr = op.addr /\ op'.res = "noMemory"
          /\ op'.pc = r \/ (op'.pc = "release" /\ op'.ret = r)
      BY <1>1, <2>2, OperationFields DEF SameTask, Releasing
    <3>2. Phase(op') = r
      BY <2>2, <3>1, PhaseIs
    <3> QED BY <1>2, <2>2, <3>1, <3>2 DEF Passing
  <2> QED BY <2>1, <2>2
<1> QED BY <1>1, <1>3, <1>4, <1>5, PassFollows

(* The record has as many chunks as it needs, or too few.                  *)
LEMMA NoRestFollows ==
  ASSUME NEW S, NEW G, NEW B, NEW P, NEW U, NEW S2, NEW G2, NEW B2, NEW P2, NEW U2,
         Stepping(S, G, B, P, U, S2, G2, B2, P2, U2), op.pc = "room", mem' = mem,
         NEW t \in {"flags", "chunk"}, op' = [op EXCEPT !.pc = t]
  PROVE  Follows(P2)
<1>1. /\ Serving(S, G, B, P, U) /\ After(S2, G2, B2, P2, U2) /\ Phase(op) = "room"
      /\ DOMAIN op = DOMAIN Idle
  BY SteppingOf
<1>2. op.name = "set"
  BY <1>1, SteppingOf DEF Named, Making
<1>3. DataKept(mem, mem')
  BY NothingIsQuiet
<1>4. SameTask(op, op') /\ op'.fresh = op.fresh /\ op'.addr = op.addr /\ op'.res = op.res /\ op'.pc = t
  BY <1>1, OperationFields DEF SameTask
<1>5. Phase(op') = t
  BY <1>4, PhaseIs
<1>6. Passing(op, op', Phase(op), Phase(op'))
  <2> HIDE DEF Phase
  <2> QED BY <1>1, <1>4, <1>5 DEF Passing
<1> QED BY <1>1, <1>2, <1>3, <1>6, PassFollows

(* A set that has changed its record: View is what CacheMap allows, and    *)
(* the operation goes on.                                                  *)
LEMMA ChangeFollows ==
  ASSUME NEW S, NEW G, NEW B, NEW P, NEW U, NEW S2, NEW G2, NEW B2, NEW P2, NEW U2,
         Stepping(S, G, B, P, U, S2, G2, B2, P2, U2),
         op.pc \in {"room", "join", "flags", "copy"},
         TypedValues(mem'), Changes(S, P, S2, P2), SameTask(op, op'), op'.addr = op.addr,
         op'.res = op.res, Phase(op') \in {"join", "flags", "copy", "count"},
         Phase(op') = "copy" => Copied(mem', P2[op.addr], op'),
         Phase(op') = "count" => View'[op.key] = Stored(op.val)
  PROVE  Follows(P2)
<1>1. Phase(op) = op.pc
  BY SteppingOf
<1>2. op.name = "set" /\ op.name \in Names
  BY <1>1, SteppingOf DEF Named, Making
<1>3. Setting(mem, P[op.addr], op, View, op.pc)
  BY <1>1, <1>2, SteppingOf
<1>4. mem'.index[op'.addr] = Bucket[op.key] /\ op.res = None
  BY <1>3 DEF Setting, Making, Changes
<1>5. op'.name = "set" /\ op'.key = op.key /\ op'.val = op.val /\ op'.old = op.old
  BY <1>2 DEF SameTask
<1>6. CacheStep
  BY <1>2, SetWorks DEF Changes
<1> HIDE DEF Phase
<1>7. Named(op', Phase(op'))
  BY <1>5 DEF Named, Names
<1>8. Setting(mem', P2[op'.addr], op', View', Phase(op'))
  BY <1>3, <1>4, <1>5 DEF Setting
<1> QED BY <1>6, <1>7, <1>8 DEF Follows, Served

(* makeNew: the new record reads nothing.                                  *)
LEMMA MakeNewFollows ==
  ASSUME NEW S, NEW G, NEW B, NEW P, NEW U, NEW S2, NEW G2, NEW B2, NEW P2, NEW U2,
         Stepping(S, G, B, P, U, S2, G2, B2, P2, U2), makeNew
  PROVE  Follows(P2)
<1>1. /\ Before(S, G, B, P, U) /\ After(S2, G2, B2, P2, U2)
      /\ DOMAIN op = DOMAIN Idle /\ op.pc = "link" /\ Phase(op) = "link"
  BY SteppingOf DEF makeNew
<1>2. op.name = "set" /\ op.name \in Names
  BY <1>1, SteppingOf DEF Named, Making
<1>3. Setting(mem, P[op.addr], op, View, "link")
  BY <1>1, <1>2, SteppingOf
<1>4. /\ TypedValues(mem') /\ View' = View
      /\ mem'["index"][op.addr] = Bucket[op.key] /\ mem'["key"][op.addr] = None
  BY <1>1, NewSees
<1>5. op' = [op EXCEPT !.pc = "room"]
  BY DEF makeNew, Become
<1>6. SameTask(op, op') /\ op'.addr = op.addr /\ op'.res = op.res /\ op'.pc = "room"
  BY <1>1, <1>5, OperationFields DEF SameTask
<1>7. Phase(op') = "room"
  BY <1>6, PhaseIs
<1>8. CacheStep
  BY <1>4, <1>6, QuietWork
<1> HIDE DEF Phase
<1>9. Named(op', "room")
  BY <1>2, <1>6 DEF Named, SameTask
<1>10. Setting(mem', P2[op'.addr], op', View', "room")
  BY <1>3, <1>4, <1>6 DEF Setting, SameTask, Making
<1> QED BY <1>4, <1>7, <1>8, <1>9, <1>10 DEF Follows, Served

(* Block::allocate of a record.                                            *)
LEMMA AllocateFollows ==
  ASSUME NEW S, NEW G, NEW B, NEW P, NEW U, NEW S2, NEW G2, NEW B2, NEW P2, NEW U2,
         Stepping(S, G, B, P, U, S2, G2, B2, P2, U2), allocate
  PROVE  Follows(P2)
<1>1. /\ Before(S, G, B, P, U) /\ After(S2, G2, B2, P2, U2)
      /\ DOMAIN op = DOMAIN Idle /\ op.pc = "room"
  BY SteppingOf DEF allocate
<1>2. CASE Len(Chain(op.addr)) > Need
  <2>1. TypedValues(mem') /\ Changes(S, P, S2, P2)
    BY <1>1, <1>2, CutSees
  <2>2. \E t : op' = Releasing(op, t, "flags")
    BY <1>2 DEF allocate
  <2>3. /\ SameTask(op, op') /\ op'.addr = op.addr /\ op'.res = op.res
        /\ op'.pc = "flags" \/ (op'.pc = "release" /\ op'.ret = "flags")
    BY <1>1, <2>2, OperationFields DEF SameTask, Releasing
  <2>4. Phase(op') = "flags"
    BY <2>3, PhaseIs
  <2> QED BY <1>1, <2>1, <2>3, <2>4, ChangeFollows
<1>3. CASE ~(Len(Chain(op.addr)) > Need)
  <2>1. mem' = mem
    BY <1>3 DEF allocate
  <2>2. \E t \in {"flags", "chunk"} : op' = [op EXCEPT !.pc = t]
    BY <1>3 DEF allocate, Become
  <2> QED BY <1>1, <2>1, <2>2, NoRestFollows
<1> QED BY <1>2, <1>3

(* The chunks are joined to the record.                                    *)
LEMMA JoinFollows ==
  ASSUME NEW S, NEW G, NEW B, NEW P, NEW U, NEW S2, NEW G2, NEW B2, NEW P2, NEW U2,
         Stepping(S, G, B, P, U, S2, G2, B2, P2, U2), joinChunk
  PROVE  Follows(P2)
<1>1. /\ Before(S, G, B, P, U) /\ After(S2, G2, B2, P2, U2)
      /\ DOMAIN op = DOMAIN Idle /\ op.pc = "join"
  BY SteppingOf DEF joinChunk
<1>2. TypedValues(mem') /\ Changes(S, P, S2, P2)
  BY <1>1, JoinSees
<1>3. \E c, t : t \in {"flags", "join"} /\ op' = [op EXCEPT !.chunks = c, !.pc = t]
  BY DEF joinChunk
<1>4. SameTask(op, op') /\ op'.addr = op.addr /\ op'.res = op.res /\ op'.pc \in {"flags", "join"}
  BY <1>1, <1>3, OperationFields DEF SameTask
<1>5. Phase(op') = op'.pc
  BY <1>4, PhaseIs
<1> QED BY <1>1, <1>2, <1>4, <1>5, ChangeFollows

(* The flags of the record.                                                *)
LEMMA FlagsFollow ==
  ASSUME NEW S, NEW G, NEW B, NEW P, NEW U, NEW S2, NEW G2, NEW B2, NEW P2, NEW U2,
         Stepping(S, G, B, P, U, S2, G2, B2, P2, U2), flags
  PROVE  Follows(P2)
<1>1. /\ Before(S, G, B, P, U) /\ After(S2, G2, B2, P2, U2)
      /\ DOMAIN op = DOMAIN Idle /\ op.pc = "flags"
  BY SteppingOf DEF flags
<1>2. TypedValues(mem') /\ Changes(S, P, S2, P2) /\ mem'["onlyKey"][op.addr] = (op.val = None)
  BY <1>1, FlagsSee
<1>3. \E l : op' = [op EXCEPT !.pc = "copy", !.n = 0, !.log = l]
  BY DEF flags
<1>4. /\ SameTask(op, op') /\ op'.addr = op.addr /\ op'.res = op.res /\ op'.pc = "copy"
      /\ op'.n = 0
  BY <1>1, <1>3, OperationFields DEF SameTask
<1>5. Phase(op') = "copy"
  BY <1>4, PhaseIs
<1>6. Copied(mem', P2[op.addr], op')
  BY <1>2, <1>4 DEF Copied, SameTask
<1> QED BY <1>1, <1>2, <1>4, <1>5, <1>6, ChangeFollows

(* A record whose parts have all been copied reads what was stored.        *)
LEMMA CopiedReads ==
  ASSUME NEW m, NEW s \in Seq(Addr), s # <<>>, Strung(s, m.nextChunk), NEW o, s[1] = o.addr,
         Copied(m, s, o), o.n = Len(s), Len(s) = Needs(o) + 1, o.key \in Keys,
         o.val \in Values \cup {None}, m.len[s[Len(s)]] = "set"
  PROVE  DataIn(m, s) = Stored(o.val) /\ Readable(m, s[1]) /\ m.key[s[1]] = o.key
<1>1. Len(s) \in Nat /\ Len(s) >= 1
  OBVIOUS
<1>2. Readable(m, s[1])
  <2>1. CASE Len(s) = 1
    BY <2>1 DEF Readable
  <2>2. CASE Len(s) # 1
    <3>1. m.nextChunk[s[1]] = s[2] /\ s[2] \in Addr
      BY <1>1, <2>2 DEF Strung
    <3> QED BY <3>1, HashMapAssumption DEF Readable
  <2> QED BY <2>1, <2>2
<1>3. m.key[s[1]] = o.key /\ o.key # None /\ m.onlyKey[s[1]] = (o.val = None)
  BY <1>1, HashMapAssumption DEF Copied
<1>4. DataIn(m, s) = Stored(o.val)
  <2>1. CASE o.val = None
    BY <1>2, <1>3, <2>1 DEF DataIn, Stored
  <2>2. CASE o.val # None
    <3>1. o.val \in Values /\ o.val # Torn /\ Needs(o) = Size[o.val] /\ Size[o.val] \in Nat
      BY <2>2, HashMapAssumption, NamesDiffer DEF Needs, Torn
    <3>2. \A i \in 1 .. Len(s) : m.val[s[i]] = o.val
      BY DEF Copied
    <3>3. m.val[s[1]] = o.val /\ \A i \in 1 .. Size[o.val] : m.val[s[i + 1]] = o.val
      BY <1>1, <3>1, <3>2
    <3>4. ~(Len(s) - 1 + 1 < Size[o.val] + 1)
      BY <1>1, <3>1
    <3>5. m.onlyKey[s[1]] = FALSE
      BY <1>3, <2>2
    <3>6. m.len[s[Len(s)]] # "none"
      OBVIOUS
    <3> HIDE DEF Needs, Copied
    <3> QED BY <1>2, <1>3, <2>2, <3>1, <3>3, <3>4, <3>5, <3>6 DEF DataIn, Stored
  <2> QED BY <2>1, <2>2
<1> QED BY <1>2, <1>3, <1>4

(* What copy has stored, and what is read once all has been stored.        *)
LEMMA CopyStores ==
  ASSUME NEW S, NEW G, NEW B, NEW P, NEW U, NEW S2, NEW G2, NEW B2, NEW P2, NEW U2,
         Stepping(S, G, B, P, U, S2, G2, B2, P2, U2), copy
  PROVE  /\ Copied(mem', P[op.addr], op')
         /\ op.n = Need => DataIn(mem', P[op.addr]) = Stored(op.val) /\ Is(mem', op.addr, op.key)
<1> DEFINE a == op.addr
           s == P[op.addr]
<1>1. /\ Before(S, G, B, P, U) /\ After(S2, G2, B2, P2, U2)
      /\ DOMAIN op = DOMAIN Idle /\ op.pc = "copy" /\ Phase(op) = "copy"
      /\ Working(op, S, P, crashed, calls)
  BY SteppingOf DEF copy
<1>2. /\ a \in Range(S) /\ a \in Addr /\ op.key \in Keys /\ op.val \in Values \cup {None}
      /\ op.name = "set" /\ Need = Needs(op) /\ Needs(op) \in Nat /\ s \in Seq(Addr) /\ s # <<>>
      /\ s[1] = a
  BY <1>1, OwnRecord
<1>3. /\ TypedValues(mem') /\ Changes(S, P, S2, P2) /\ P2[a] = s
      /\ Part = s[op.n + 1] /\ op.n + 1 \in 1 .. Len(s)
      /\ mem'["onlyKey"] = mem["onlyKey"]
      /\ mem'["val"] = [mem["val"] EXCEPT ![Part] = op.val]
      /\ mem'["key"] = [mem["key"] EXCEPT ![Part] = IF op.n = 0 THEN op.key ELSE mem["key"][Part]]
      /\ op.n = Need => mem'["len"][Part] = "set"
  BY <1>1, CopySees
<1> HIDE DEF Part, Phase
<1>4. op' = [op EXCEPT !.n = @ + 1, !.pc = IF op.n = Need THEN "count" ELSE "copy"]
  BY DEF copy
<1>5. /\ SameTask(op, op') /\ op'.addr = a /\ op'.res = op.res /\ op'.n = op.n + 1
      /\ op'.pc = IF op.n = Need THEN "count" ELSE "copy"
  BY <1>1, <1>4, OperationFields DEF SameTask
<1>7. Setting(mem, s, op, View, "copy")
  BY <1>1, <1>2, SteppingOf
<1>8. op.n \in 0 .. Needs(op) /\ Len(s) = Needs(op) + 1
  BY <1>1 DEF Working
<1>9. Shape(mem) /\ DOMAIN mem["val"] = Addr /\ DOMAIN mem["key"] = Addr
  <2>1. Shape(mem)
    BY <1>1, PartsOf DEF Before
  <2> QED BY <2>1, ShapeOf, FieldNames
<1>10. Part \in Addr /\ \A i \in 1 .. Len(s) : s[i] \in Addr
  BY <1>2, <1>3
<1>11. Copied(mem', s, op')
  <2>0. /\ op.n \in Nat /\ op'.n = op.n + 1 /\ op'.val = op.val /\ op'.key = op.key /\ op'.addr = a
        /\ mem.onlyKey[a] = (op.val = None) /\ (op.n >= 1 => mem.key[a] = op.key)
        /\ \A i \in 1 .. op.n : mem.val[s[i]] = op.val
    BY <1>2, <1>5, <1>7, <1>8 DEF Setting, Copied, SameTask
  <2>1. mem'.onlyKey[a] = (op.val = None)
    BY <1>3, <2>0
  <2>2. ASSUME NEW i \in 1 .. op'.n PROVE mem'.val[s[i]] = op.val
    <3>1. i \in 1 .. op.n \/ i = op.n + 1
      BY <2>0
    <3>2. s[i] \in Addr
      BY <1>3, <1>10, <2>0, <3>1
    <3>3. s[i] # Part => mem.val[s[i]] = op.val
      BY <1>3, <2>0, <3>1
    <3> QED BY <1>3, <1>9, <1>10, <3>2, <3>3
  <2>3. mem'.key[a] = op.key
    <3>1. op.n = 0 => Part = a
      BY <1>2, <1>3
    <3>2. op.n # 0 => mem.key[a] = op.key
      BY <2>0
    <3> QED BY <1>2, <1>3, <1>9, <1>10, <3>1, <3>2
  <2> QED BY <2>0, <2>1, <2>2, <2>3 DEF Copied
<1>12. ASSUME op.n = Need PROVE DataIn(mem', s) = Stored(op.val) /\ Is(mem', a, op.key)
  <2>2. Chains(mem', S2, P2) /\ a \in Range(S2)
    BY <1>1, <1>2, <1>3 DEF After, Whole, Changes
  <2>3. Strung(s, mem'.nextChunk)
    BY <1>3, <2>2 DEF Chains
  <2>4. op'.n = Len(s) /\ Needs(op') = Needs(op) /\ op'.val = op.val /\ op'.key = op.key
    <3>1. op'.val = op.val /\ op'.key = op.key
      BY <1>5 DEF SameTask
    <3>2. Needs(op') = Needs(op)
      BY <3>1 DEF Needs
    <3> QED BY <1>2, <1>5, <1>8, <1>12, <3>1, <3>2
  <2>5. mem'.len[s[Len(s)]] = "set"
    <3>1. Part = s[Len(s)]
      BY <1>2, <1>3, <1>8, <1>12
    <3> QED BY <1>3, <1>12, <3>1
  <2>6. DataIn(mem', s) = Stored(op.val) /\ Readable(mem', a) /\ mem'.key[a] = op.key
    <3> DEFINE m == mem'
               o == op'
    <3>1. /\ Strung(s, m.nextChunk) /\ s[1] = o.addr /\ Copied(m, s, o) /\ o.n = Len(s)
          /\ Len(s) = Needs(o) + 1 /\ o.key \in Keys /\ o.val \in Values \cup {None}
          /\ m.len[s[Len(s)]] = "set" /\ s \in Seq(Addr) /\ s # <<>>
      BY <1>2, <1>5, <1>8, <1>11, <2>3, <2>4, <2>5
    <3> HIDE DEF m, o, s
    <3>2. DataIn(m, s) = Stored(o.val) /\ Readable(m, s[1]) /\ m.key[s[1]] = o.key
      BY ONLY <3>1, CopiedReads
    <3> QED BY <1>2, <2>4, <3>2 DEF m, o
  <2>7. mem'.index[a] = Bucket[op.key]
    BY <1>3, <1>7 DEF Setting, Making, Changes
  <2> QED BY <2>6, <2>7 DEF Is
<1> QED BY <1>11, <1>12

(* The copy of the data: when it is complete, what is read is what was     *)
(* stored.                                                                 *)
LEMMA CopyFollows ==
  ASSUME NEW S, NEW G, NEW B, NEW P, NEW U, NEW S2, NEW G2, NEW B2, NEW P2, NEW U2,
         Stepping(S, G, B, P, U, S2, G2, B2, P2, U2), copy
  PROVE  Follows(P2)
<1> DEFINE a == op.addr
           s == P[op.addr]
<1>1. /\ Before(S, G, B, P, U) /\ After(S2, G2, B2, P2, U2)
      /\ DOMAIN op = DOMAIN Idle /\ op.pc = "copy"
  BY SteppingOf DEF copy
<1>2. a \in Range(S) /\ op.key \in Keys /\ op.name = "set"
  BY <1>1, OwnRecord
<1>3. TypedValues(mem') /\ Changes(S, P, S2, P2) /\ P2[a] = s
  BY <1>1, CopySees
<1> HIDE DEF Phase
<1>4. op' = [op EXCEPT !.n = @ + 1, !.pc = IF op.n = Need THEN "count" ELSE "copy"]
  BY DEF copy
<1>5. /\ SameTask(op, op') /\ op'.addr = a /\ op'.res = op.res
      /\ op'.pc = IF op.n = Need THEN "count" ELSE "copy"
  BY <1>1, <1>4, OperationFields DEF SameTask
<1>6. Phase(op') = op'.pc
  BY <1>5, PhaseIs
<1>7. Copied(mem', s, op')
  BY CopyStores
<1>8. ASSUME op.n = Need PROVE View'[op.key] = Stored(op.val)
  <2>1. Shown(mem', S2, G2, B2, P2, View') /\ a \in Range(S2)
    BY <1>1, <1>2, <1>3, AfterShown DEF Changes
  <2>2. DataIn(mem', s) = Stored(op.val) /\ Is(mem', a, op.key)
    BY <1>8, CopyStores
  <2>3. View'[op.key] = DataIn(mem', P2[a])
    BY <1>2, <2>1, <2>2 DEF Shown, Reading
  <2> QED BY <1>3, <2>2, <2>3
<1> QED BY <1>1, <1>3, <1>5, <1>6, <1>7, <1>8, ChangeFollows

(* What is given back changes nothing in the operation but that.           *)
LEMMA DeallocateKeepsPhase ==
  ASSUME DOMAIN op = DOMAIN Idle, NEW S, NEW P, Working(op, S, P, crashed, calls), deallocate
  PROVE  /\ SameTask(op, op') /\ op'.addr = op.addr /\ op'.res = op.res /\ op'.fresh = op.fresh
         /\ Phase(op') = Phase(op) /\ Phase(op) # "copy"
<1>1. op.pc = "release" /\ op' = Releasing(op, Tail(op.todo), op.ret)
  BY DEF deallocate
<1>2. \A f \in DOMAIN Idle : f \notin {"pc", "todo", "ret"} => op'[f] = op[f]
  BY <1>1, OperationFields DEF Releasing
<1>3. Phase(op') = Phase(op)
  <2>1. op' = [op EXCEPT !.pc = op.ret] \/ (op'.pc = "release" /\ op'.ret = op.ret /\ op'.back = op.back)
    BY <1>1, OperationFields DEF Releasing
  <2>2. op.ret # "release"
    BY <1>1 DEF Working
  <2>3. op' = [op EXCEPT !.pc = op.ret] => op'.pc = op.ret /\ op'.back = op.back
    BY OperationFields
  <2>4. CASE op'.pc = op.ret /\ op'.back = op.back
    <3>1. Phase(op') = IF op.ret = "evict" THEN op.back ELSE op.ret
      BY <2>2, <2>4, PhaseIs
    <3> QED BY <1>1, <3>1, PhaseIs
  <2>5. CASE op'.pc = "release" /\ op'.ret = op.ret /\ op'.back = op.back
    BY <1>1, <2>5, PhaseIs
  <2> QED BY <2>1, <2>3, <2>4, <2>5
<1>4. Phase(op) # "copy"
  <2>1. Phase(op) = IF op.ret = "evict" THEN op.back ELSE op.ret
    BY <1>1, PhaseIs
  <2> QED BY <1>1, <2>1 DEF Working
<1>5. /\ SameTask(op, op') /\ op'.addr = op.addr /\ op'.res = op.res /\ op'.fresh = op.fresh
  BY <1>2, OperationFields DEF SameTask
<1> QED BY <1>3, <1>4, <1>5

(* The blocks that are given back are no longer part of a record.          *)
LEMMA DeallocateFollows ==
  ASSUME NEW S, NEW G, NEW B, NEW P, NEW U, NEW S2, NEW G2, NEW B2, NEW P2, NEW U2,
         Stepping(S, G, B, P, U, S2, G2, B2, P2, U2), deallocate
  PROVE  Follows(P2)
<1>1. /\ Before(S, G, B, P, U) /\ After(S2, G2, B2, P2, U2) /\ DOMAIN op = DOMAIN Idle
      /\ Working(op, S, P, crashed, calls) /\ op.name \in Names /\ Named(op, Phase(op))
      /\ op.pc = "release"
  BY SteppingOf DEF deallocate
<1>2. /\ TypedValues(mem') /\ View' = View
      /\ \A a \in Range(S) : mem'["index"][a] = mem["index"][a] /\ mem'["key"][a] = mem["key"][a]
  BY <1>1, FreeSees
<1>3. /\ SameTask(op, op') /\ op'.addr = op.addr /\ op'.res = op.res /\ op'.fresh = op.fresh
      /\ Phase(op') = Phase(op) /\ Phase(op) # "copy"
  BY <1>1, DeallocateKeepsPhase
<1>4. CacheStep
  BY <1>2, <1>3, QuietWork
<1> HIDE DEF Phase
<1>5. Named(op', Phase(op'))
  BY <1>1, <1>3 DEF Named, SameTask
<1>6. ASSUME op'.name = "set" PROVE Setting(mem', P2[op'.addr], op', View', Phase(op'))
  <2>1. Setting(mem, P[op.addr], op, View, Phase(op))
    BY <1>3, <1>6, SteppingOf DEF SameTask
  <2>2. Phase(op) \in Making \ {"block", "link"} => op.addr \in Range(S)
    BY <1>1 DEF Working, Making, AtRecord
  <2>3. Kept(op') = Kept(op)
    BY <1>3 DEF Kept, Stored, SameTask
  <2> QED BY <1>2, <1>3, <2>1, <2>2, <2>3 DEF Setting, SameTask, Making
<1> QED BY <1>2, <1>4, <1>5, <1>6 DEF Follows, Served

(* Eviction takes another record, with all that is read in it.             *)
LEMMA EvictionFollows ==
  ASSUME NEW S, NEW G, NEW B, NEW P, NEW U, NEW S2, NEW G2, NEW B2, NEW P2, NEW U2,
         Stepping(S, G, B, P, U, S2, G2, B2, P2, U2), eraseExcept
  PROVE  Follows(P2)
<1> DEFINE a == Victim
           c == Counted(a)
           r == IF op.fresh /\ op.back = "chunk" THEN "undo" ELSE "return"
<1>1. /\ Before(S, G, B, P, U) /\ After(S2, G2, B2, P2, U2) /\ DOMAIN op = DOMAIN Idle
      /\ WholeMap(S, G, B, P, U) /\ 0 \notin Range(S)
      /\ Working(op, S, P, crashed, calls) /\ op.name \in Names /\ op.pc = "evict"
  BY SteppingOf DEF eraseExcept
<1>2. CASE ~(AutoErase /\ op.n # 0 /\ a # 0)
  <2>1. /\ mem' = mem
        /\ op' = IF AutoErase /\ op.n # EraseCount THEN [op EXCEPT !.pc = op.back]
                 ELSE Releasing([op EXCEPT !.chunks = <<>>, !.res = "noMemory"], op.chunks, r)
    BY <1>2 DEF eraseExcept
  <2> HIDE DEF a
  <2>2. \/ op' = [op EXCEPT !.pc = op.back]
        \/ op' = Releasing([op EXCEPT !.chunks = <<>>, !.res = "noMemory"], op.chunks, r)
    BY <2>1
  <2> QED BY <1>1, <2>1, <2>2, EvictedFollows
<1>3. CASE AutoErase /\ op.n # 0 /\ a # 0
  <2>1. Phase(op) = op.back /\ op.back \in {"block", "chunk"}
    BY <1>1, PhaseIs DEF Working
  <2>2. op.name = "set" /\ Listing(S, G) /\ UniqueKeys(mem, S, op)
    BY <1>1, <2>1, PartsOf, SteppingOf DEF Named, Making
  <2> HIDE DEF Phase
  <2>3. (op.back = "chunk" => op.addr \in Range(S)) /\ (op.back = "block" => op.addr = 0)
    BY <1>1, <2>1 DEF Working, AtRecord
  <2>4. a \in Range(S) /\ a # op.addr
    <3>1. a \in Range(S) /\ (op.back = "chunk" => a # op.addr)
      BY <1>3, <2>2, <2>3, VictimIsOther
    <3> QED BY <1>1, <2>1, <2>3, <3>1
  <2>5. Commit(eraseLog(a)) /\ \E i, t : op' = Releasing([op EXCEPT !.n = i], t, "evict")
    <3>1. Erase(a, [op EXCEPT !.n = IF c THEN @ - 1 ELSE @], "evict")
      BY <1>3 DEF eraseExcept
    <3> HIDE DEF a, c
    <3> QED BY <3>1 DEF Erase
  <2> HIDE DEF a
  <2>6. Loses(a, S, P, S2, P2)
    BY <1>1, <2>4, <2>5, EraseSees
  <2>7. /\ SameTask(op, op') /\ op'.addr = op.addr /\ op'.res = op.res /\ op'.fresh = op.fresh
        /\ op'.back = op.back /\ (op'.pc = "evict" \/ (op'.pc = "release" /\ op'.ret = "evict"))
    BY <1>1, <2>5, OperationFields DEF SameTask, Releasing
  <2>8. Phase(op') = op.back
    BY <2>7, PhaseIs
  <2>9. op.key \in Keys /\ ~Is(mem, a, op.key)
    <3>1. Phase(op) \in Making
      BY <2>1 DEF Making
    <3>2. op.key \in Keys
      BY <1>1, <3>1 DEF Working
    <3> QED BY <2>2, <2>4, <3>1, <3>2 DEF UniqueKeys
  <2>10. View' = View \/ \E k \in Keys \ {op.key} : View' = [View EXCEPT ![k] = Absent]
    BY <2>6, <2>9 DEF Loses
  <2>11. CacheStep
    BY <2>2, <2>7, <2>10, SetWorks
  <2>12. View'[op.key] = View[op.key]
    BY <2>9, <2>10 DEF View
  <2>13. Setting(mem, P[op.addr], op, View, op.back)
    BY <2>1, <2>2, SteppingOf
  <2>14. Setting(mem', P2[op'.addr], op', View', op.back)
    <3>1. mem'["index"] = mem["index"] /\ mem'["key"] = mem["key"]
      BY <2>6 DEF Loses
    <3> HIDE DEF View
    <3> QED BY <2>1, <2>7, <2>12, <2>13, <3>1 DEF Setting, SameTask, Making
  <2>15. Named(op', op.back)
    BY <2>1, <2>2, <2>7 DEF Named, Names, SameTask
  <2> QED BY <2>6, <2>8, <2>11, <2>14, <2>15 DEF Follows, Served, Loses
<1> QED BY <1>2, <1>3

(* A new record that has no data goes, and nothing else is read.           *)
LEMMA UndoFollows ==
  ASSUME NEW S, NEW G, NEW B, NEW P, NEW U, NEW S2, NEW G2, NEW B2, NEW P2, NEW U2,
         Stepping(S, G, B, P, U, S2, G2, B2, P2, U2), undoNew
  PROVE  Follows(P2)
<1>1. /\ Before(S, G, B, P, U) /\ After(S2, G2, B2, P2, U2) /\ DOMAIN op = DOMAIN Idle
      /\ op.pc = "undo" /\ Phase(op) = "undo"
  BY SteppingOf DEF undoNew
<1>2. op.name = "set" /\ op.addr \in Range(S)
  BY <1>1, OwnRecord
<1>3. Setting(mem, P[op.addr], op, View, "undo")
  BY <1>1, <1>2, SteppingOf
<1>4. Commit(eraseLog(op.addr)) /\ \E t : op' = Releasing(op, t, "return")
  BY DEF undoNew, Erase
<1>5. Loses(op.addr, S, P, S2, P2)
  BY <1>1, <1>2, <1>4, EraseSees
<1>6. \A k \in Keys : ~Is(mem, op.addr, k)
  <2>1. mem.key[op.addr] = None
    BY <1>3 DEF Setting
  <2> QED BY <2>1, HashMapAssumption DEF Is
<1>7. TypedValues(mem') /\ View' = View
  BY <1>5, <1>6 DEF Loses
<1>8. /\ SameTask(op, op') /\ op'.addr = op.addr /\ op'.res = op.res
      /\ op'.pc = "return" \/ (op'.pc = "release" /\ op'.ret = "return")
  BY <1>1, <1>4, OperationFields DEF SameTask, Releasing
<1>9. Phase(op') = "return"
  BY <1>8, PhaseIs
<1>10. CacheStep
  BY <1>7, <1>8, QuietWork
<1> HIDE DEF Phase
<1>11. Named(op', "return")
  BY <1>2, <1>8 DEF Named, Names, SameTask, Making
<1>12. Setting(mem', P2[op'.addr], op', View', "return")
  <2>1. Kept(op') = op.old
    BY <1>3, <1>8 DEF Setting, Kept, SameTask
  <2> QED BY <1>3, <1>7, <1>8, <2>1 DEF Setting, SameTask, Making
<1> QED BY <1>7, <1>9, <1>10, <1>11, <1>12 DEF Follows, Served

(* del, erase and recover drop a record.                                   *)
LEMMA DropFollows ==
  ASSUME NEW S, NEW G, NEW B, NEW P, NEW U, NEW S2, NEW G2, NEW B2, NEW P2, NEW U2,
         Stepping(S, G, B, P, U, S2, G2, B2, P2, U2), Begin, NEW a \in Range(S),
         NEW name \in {"del", "erase", "recover"}, NEW k, Erase(a, Start(name, k), "return")
  PROVE  Follows(P2)
<1>1. Before(S, G, B, P, U) /\ After(S2, G2, B2, P2, U2) /\ op = Idle
  BY SteppingOf DEF Begin
<1>2. Commit(eraseLog(a)) /\ \E t : op' = Releasing(Start(name, k), t, "return")
  BY DEF Erase
<1>3. Loses(a, S, P, S2, P2)
  BY <1>1, <1>2, EraseSees
<1>4. op'.name = name /\ (op'.pc = "return" \/ (op'.pc = "release" /\ op'.ret = "return"))
  BY <1>2 DEF Start, Releasing, Idle
<1>5. Phase(op') = "return"
  BY <1>4, PhaseIs
<1>6. CacheStep
  BY <1>1, <1>3, <1>4, DropBegins DEF Loses
<1> HIDE DEF Phase
<1>7. Named(op', "return") /\ op'.name # "set"
  BY <1>4 DEF Named, Names, Making
<1> QED BY <1>3, <1>5, <1>6, <1>7 DEF Follows, Served, Loses

(* The operations that drop a record, and erase of a dirty one, which does *)
(* not.                                                                    *)
LEMMA DroppersFollow ==
  ASSUME NEW S, NEW G, NEW B, NEW P, NEW U, NEW S2, NEW G2, NEW B2, NEW P2, NEW U2,
         Stepping(S, G, B, P, U, S2, G2, B2, P2, U2),
         \/ \E k \in Keys : del(k)
         \/ \E check \in BOOLEAN : erase(check)
         \/ \E i \in Index : recover(i)
  PROVE  Follows(P2)
<1>1. WholeMap(S, G, B, P, U) /\ Listing(S, G) /\ Lists(mem, S, G, B)
  BY SteppingOf, PartsOf
<1>2. ASSUME NEW k \in Keys, del(k) PROVE Follows(P2)
  <2>1. Begin /\ findValue(k) \in Addr /\ Erase(findValue(k), Start("del", k), "return")
    BY <1>2 DEF del
  <2>2. findValue(k) \in Range(S)
    BY <1>1, <2>1, FindValueFinds
  <2> QED BY <2>1, <2>2, DropFollows
<1>3. ASSUME NEW check \in BOOLEAN, erase(check) PROVE Follows(P2)
  <2>1. Begin /\ GetTail # 0
    BY <1>3 DEF erase
  <2>2. GetTail \in Range(S)
    BY <1>1, <2>1, CursorValues
  <2>3. CASE check /\ mem.dirty[GetTail]
    <3>1. Commit(KeepDirtyLog(GetTail)) /\ op' = op
      BY <1>3, <2>3 DEF erase, KeepDirtyLog
    <3>2. DataKept(mem, mem')
      BY <1>1, <2>1, <3>1, KeepDirtyIsQuiet
    <3> QED BY <2>1, <3>1, <3>2, ReadersFollow
  <2>4. CASE ~(check /\ mem.dirty[GetTail])
    <3>1. Erase(GetTail, Start("erase", None), "return")
      BY <1>3, <2>4 DEF erase
    <3> QED BY <2>1, <2>2, <3>1, DropFollows
  <2> QED BY <2>3, <2>4
<1>4. ASSUME NEW i \in Index, recover(i) PROVE Follows(P2)
  <2>1. /\ Begin
        /\ Erase(Chained(i)[Min(Unreadable(i))], Start("recover", None), "return")
    BY <1>4 DEF recover
  <2>2. Chained(i)[Min(Unreadable(i))] \in Range(S)
    BY <1>1, <1>4, RecoveredIsRecord DEF recover
  <2> QED BY <2>1, <2>2, DropFollows
<1> QED BY <1>2, <1>3, <1>4

(* The end of an operation is that of the hand.                            *)
LEMMA EndFollows ==
  ASSUME NEW S, NEW G, NEW B, NEW P, NEW U, NEW S2, NEW G2, NEW B2, NEW P2, NEW U2,
         Stepping(S, G, B, P, U, S2, G2, B2, P2, U2), Done \/ Crash
  PROVE  Follows(P2)
<1>1. /\ Before(S, G, B, P, U) /\ After(S2, G2, B2, P2, U2)
      /\ op.name \in Names
      /\ op.name = "set" => Setting(mem, P[op.addr], op, View, Phase(op))
  BY SteppingOf
<1>2. op' = Idle /\ (Done => op.pc = "return")
  BY DEF Done, Crash
<1>3. op'.name # "set" /\ Named(op', Phase(op'))
  BY <1>2, IdleIs
<1>4. CASE mem' = mem
  <2>1. DataKept(mem, mem')
    BY <1>4, NothingIsQuiet
  <2>2. TypedValues(mem') /\ View' = View
    BY <1>1, <2>1, QuietSees
  <2>3. CASE op.name = "set" /\ op.res = None
    <3>1. CacheStep
      BY <1>2, <2>2, <2>3, DiesInSet
    <3> QED BY <1>3, <2>2, <3>1 DEF Follows, Served
  <2>4. CASE ~(op.name = "set" /\ op.res = None)
    <3>1. op.name = "set" => op.res # None /\ View[op.key] = Kept(op)
      BY <1>1, <2>4 DEF Setting, Kept
    <3>2. CacheStep
      BY <1>1, <1>2, <2>2, <3>1, Ends DEF Names
    <3> QED BY <1>3, <2>2, <3>2 DEF Follows, Served
  <2> QED BY <2>3, <2>4
<1>5. ASSUME op.pc = "copy", NEW v \in {Torn, None}, mem' = [mem EXCEPT !.val[Part] = v]
      PROVE  Follows(P2)
  <2>1. TypedValues(mem') /\ Changes(S, P, S2, P2)
    BY <1>1, <1>5, TornSees
  <2>2. op.name = "set" /\ Phase(op) = "copy"
    BY <1>1, <1>5, OwnRecord
  <2>3. op.res = None
    BY <1>1, <2>2 DEF Setting
  <2>4. CacheStep
    BY <1>2, <2>1, <2>2, <2>3, DiesInSet DEF Changes
  <2> QED BY <1>3, <2>1, <2>4 DEF Follows, Served
<1>6. mem' = mem \/ (op.pc = "copy" /\ \E v \in {Torn, None} : mem' = [mem EXCEPT !.val[Part] = v])
  BY DEF Done, Crash, Part
<1> QED BY <1>4, <1>5, <1>6

-----------------------------------------------------------------------------
(***************************************************************************)
(* The map implements CacheMap.                                            *)
(***************************************************************************)

(* The inductive invariant: the map is whole, the values are values, and   *)
(* the operation at work has done what its phase says.                     *)
ServingNow == \E S, G, B, P, U : Serving(S, G, B, P, U)

(* A map without records serves nobody.                                    *)
LEMMA InitialServing == Init => ServingNow /\ Cache!Init
<1> SUFFICES ASSUME Init PROVE ServingNow /\ Cache!Init
  OBVIOUS
<1>1. mem = InitMem /\ op = Idle
  BY DEF Init
<1>2. PICK S, G, B, P, U : WholeMap(S, G, B, P, U)
  BY InitialMap DEF WholeMapNow
<1>3. TypedValues(mem)
  <2>1. \A a \in Addr : mem["val"][a] = None
    <3>1. mem["val"] = [a \in Addr |-> ZeroBlock["val"]]
      BY <1>1, InitialFields DEF BlockFields, ZeroBlock
    <3> QED BY <3>1 DEF ZeroBlock
  <2> QED BY <2>1 DEF TypedValues
<1>4. Before(S, G, B, P, U)
  BY <1>2, <1>3 DEF Before
<1>5. Range(S) = {}
  <2>1. mem["elementCount"][0] = 0
    <3>1. mem["elementCount"] = [a \in {0} |-> 0]
      BY <1>1, InitialFields DEF HeadFields
    <3> QED BY <3>1
  <2>2. Lists(mem, S, G, B)
    BY <1>2, PartsOf
  <2>3. S \in Seq(Addr) /\ Len(S) = 0
    BY <2>1, <2>2, Sides DEF Lists, Spot
  <2> QED BY <2>3 DEF Range
<1>6. View = [k \in Keys |-> Absent]
  <2>1. Reading(mem, Range(S), P, View)
    BY <1>4, BeforeShown DEF Shown
  <2> QED BY <1>5, <2>1 DEF Reading
<1>7. HandOf = Cache!Idle
  BY <1>1, IdleIs, Hands DEF Cache!Idle
<1>8. Served(op, mem, P, View)
  BY <1>1, IdleIs DEF Served
<1> QED
  BY <1>4, <1>6, <1>7, <1>8 DEF ServingNow, Serving, Cache!Init

(* Every step of the map is one of CacheMap, or nothing that it sees.      *)
LEMMA StepFollows ==
  ASSUME NEW S, NEW G, NEW B, NEW P, NEW U, NEW S2, NEW G2, NEW B2, NEW P2, NEW U2,
         Stepping(S, G, B, P, U, S2, G2, B2, P2, U2), Next
  PROVE  Follows(P2)
<1>1. ASSUME NEW k \in Keys, \/ \E v \in Values, d \in BOOLEAN : set(k, v, d)
                             \/ set(k, None, FALSE)
                             \/ get(k) \/ del(k)
                             \/ \E d \in BOOLEAN : markDirty(k, d)
      PROVE  Follows(P2)
  <2>1. CASE \E v \in Values, d \in BOOLEAN : set(k, v, d)
    <3>1. PICK v \in Values, d \in BOOLEAN : set(k, v, d)
      BY <2>1
    <3>2. v \in Values \cup {None}
      OBVIOUS
    <3> QED BY <3>1, <3>2, SetFollows
  <2>2. CASE set(k, None, FALSE)
    <3>1. PICK v : v = None
      OBVIOUS
    <3>2. PICK d : d = FALSE
      OBVIOUS
    <3>3. set(k, v, d) /\ v \in Values \cup {None} /\ d \in BOOLEAN
      BY <2>2, <3>1, <3>2
    <3> QED BY <3>3, SetFollows
  <2>3. CASE get(k) \/ \E d \in BOOLEAN : markDirty(k, d)
    BY <2>3, BeginnersFollow
  <2>4. CASE del(k)
    BY <2>4, DroppersFollow
  <2> QED BY <1>1, <2>1, <2>2, <2>3, <2>4
<1>2. CASE (\E check \in BOOLEAN : erase(check)) \/ (\E i \in Index : recover(i))
  BY <1>2, DroppersFollow
<1>3. CASE syncBegin \/ syncNext \/ backup \/ (\E force \in BOOLEAN : backupBegin(force))
  BY <1>3, BeginnersFollow
<1>4. CASE Crash
  BY <1>4, EndFollows
<1>5. CASE Steps
  <2>1. CASE allocateMemBlock \/ allocateChunk
    BY <2>1, SearchFollows
  <2>2. CASE makeNew
    BY <2>2, MakeNewFollows
  <2>3. CASE undoNew
    BY <2>3, UndoFollows
  <2>4. CASE eraseExcept
    BY <2>4, EvictionFollows
  <2>5. CASE allocate
    BY <2>5, AllocateFollows
  <2>6. CASE joinChunk
    BY <2>6, JoinFollows
  <2>7. CASE deallocate
    BY <2>7, DeallocateFollows
  <2>8. CASE flags
    BY <2>8, FlagsFollow
  <2>9. CASE copy
    BY <2>9, CopyFollows
  <2>10. CASE count \/ setDirtyFlag \/ refreshSetList \/ refreshGetList
    BY <2>10, SetDirtyFlagFollows
  <2>11. CASE sync \/ synced
    BY <2>11, SyncFollows
  <2>12. CASE Done
    BY <2>12, EndFollows
  <2> QED BY ONLY <1>5, <2>1, <2>2, <2>3, <2>4, <2>5, <2>6, <2>7, <2>8, <2>9, <2>10, <2>11,
                  <2>12 DEF Steps
<1> QED
  BY ONLY Next, <1>1, <1>2, <1>3, <1>4, <1>5 DEF Next

(* The same, with the invariant kept.                                      *)
LEMMA ServingStep == ServingNow /\ [Next]_vars => ServingNow' /\ CacheStep
<1> SUFFICES ASSUME ServingNow, [Next]_vars PROVE ServingNow' /\ CacheStep
  OBVIOUS
<1>1. PICK S, G, B, P, U : Serving(S, G, B, P, U)
  BY DEF ServingNow
<1>2. CASE Next
  <2>1. WholeMapNow
    BY <1>1, ServingOf DEF WholeMapNow
  <2>2. WholeMapNow'
    BY <2>1, <1>2, MapStep
  <2>3. PICK S2, G2, B2, P2, U2 : After(S2, G2, B2, P2, U2)
    BY <2>2, AfterIs
  <2>4. Follows(P2)
    <3>1. Stepping(S, G, B, P, U, S2, G2, B2, P2, U2)
      BY <1>1, <2>3 DEF Stepping
    <3> QED BY <1>2, <3>1, StepFollows
  <2>5. Serving(S2, G2, B2, P2, U2)'
    BY <2>3, <2>4 DEF Serving, Before, WholeMap, After, Follows, Served
  <2> QED BY <2>4, <2>5 DEF ServingNow, Follows
<1>3. CASE UNCHANGED vars
  <2>1. mem' = mem /\ free' = free /\ op' = op /\ crashed' = crashed /\ calls' = calls
    BY <1>3 DEF vars
  <2>2. DataKept(mem, mem')
    BY <2>1, NothingIsQuiet
  <2>3. After(S, G, B, P, U)
    BY <1>1, <2>1, ServingOf DEF WholeMap, After
  <2>4. TypedValues(mem') /\ View' = View
    BY <1>1, <2>2, <2>3, ServingOf, QuietSees
  <2>5. HandOf' = HandOf
    BY <2>1 DEF HandOf, NoHand, Stored
  <2>6. Serving(S, G, B, P, U)'
    BY <1>1, <2>1, <2>3, <2>4 DEF Serving, Before, WholeMap, After, Served
  <2> QED BY <2>4, <2>5, <2>6 DEF ServingNow, CacheStep
<1> QED BY <1>2, <1>3

(* What a cache promises is kept by the map, for any keys, values, buckets *)
(* and number of blocks, wherever a process dies: a set changes what is     *)
(* read under its own key and else drops whole records, one that reports   *)
(* success has stored what it was given and one that reports a failure has *)
(* left its record as it was, and del, erase and recover drop records.     *)
THEOREM MapImplementsCache == Spec => ImplementsCache
<1>1. Init => ServingNow /\ Cache!Init
  BY InitialServing
<1>2. ServingNow /\ [Next]_vars => ServingNow' /\ [Cache!Next]_(Cache!cvars)
  BY ServingStep DEF CacheStep, Cache!cvars
<1> QED BY <1>1, <1>2, PTL DEF Spec, ImplementsCache, Cache!Spec

-----------------------------------------------------------------------------
(***************************************************************************)
(* The dirty records lie where write-back finds them.                      *)
(***************************************************************************)

(* x is y or comes before it in s.                                         *)
Ahead(s, x, y) == \E i, j \in 1 .. Len(s) : i <= j /\ s[i] = x /\ s[j] = y

(* What is in the places of a list without the block at p.                 *)
LEMMA WithoutAt ==
  ASSUME NEW s, NEW nx, NEW pv, DList(s, nx, pv), NEW p \in 1 .. Len(s)
  PROVE  /\ Len(Without(s, p)) = Len(s) - 1
         /\ \A i \in 1 .. Len(s) - 1 : Without(s, p)[i] = IF i < p THEN s[i] ELSE s[i + 1]
<1> DEFINE nx2 == [b \in Addr |-> IF p > 1 /\ b = s[p - 1] THEN nx[s[p]] ELSE nx[b]]
           pv2 == [b \in Addr |-> IF p < Len(s) /\ b = s[p + 1] THEN pv[s[p]] ELSE pv[b]]
<1>1. /\ \A b \in Addr : nx2[b] = IF p > 1 /\ b = s[p - 1] THEN nx[s[p]] ELSE nx[b]
      /\ \A b \in Addr : pv2[b] = IF p < Len(s) /\ b = s[p + 1] THEN pv[s[p]] ELSE pv[b]
  OBVIOUS
<1> HIDE DEF nx2, pv2
<1>2. Range(s) \subseteq Addr
  BY Sides
<1>3. Removing(s, nx, pv, nx2, pv2, p)
  BY <1>1, <1>2 DEF Removing
<1>4. IsWithout(Without(s, p), s, nx, pv, nx2, pv2, p)
  BY <1>3, Removed
<1> QED BY <1>4 DEF IsWithout

(* The order of other blocks stays when one is taken out of a list.        *)
LEMMA AheadWithout ==
  ASSUME NEW s, NEW nx, NEW pv, DList(s, nx, pv), NEW p \in 1 .. Len(s), NEW x, NEW y,
         Ahead(s, x, y), x # s[p], y # s[p]
  PROVE  Ahead(Without(s, p), x, y)
<1>1. PICK t : t = Without(s, p)
  OBVIOUS
<1>2. Len(s) \in Nat
  BY Sides
<1>3. Len(t) = Len(s) - 1 /\ \A i \in 1 .. Len(s) - 1 : t[i] = IF i < p THEN s[i] ELSE s[i + 1]
  BY <1>1, WithoutAt
<1>4. PICK i, j \in 1 .. Len(s) : i <= j /\ s[i] = x /\ s[j] = y
  BY DEF Ahead
<1>5. ASSUME NEW h \in 1 .. Len(s), h # p
      PROVE  LET g == IF h < p THEN h ELSE h - 1 IN g \in 1 .. Len(t) /\ t[g] = s[h]
  <2>1. CASE h < p
    BY <1>2, <1>3, <2>1
  <2>2. CASE h > p
    <3>1. h - 1 \in 1 .. Len(s) - 1 /\ ~(h - 1 < p) /\ (h - 1) + 1 = h /\ ~(h < p)
      BY <1>2, <2>2
    <3> QED BY <1>3, <3>1
  <2> QED BY <1>2, <1>5, <2>1, <2>2
<1>6. i # p /\ j # p
  BY <1>4
<1>7. PICK g, h \in 1 .. Len(t) : t[g] = x /\ t[h] = y /\ g = (IF i < p THEN i ELSE i - 1)
                                  /\ h = (IF j < p THEN j ELSE j - 1)
  BY <1>4, <1>5, <1>6
<1>8. g <= h
  BY <1>2, <1>4, <1>6, <1>7
<1>9. Ahead(t, x, y)
  BY <1>7, <1>8 DEF Ahead
<1> QED BY <1>1, <1>9

(* A block that is put in front comes before all.                          *)
LEMMA AheadHeaded ==
  ASSUME NEW s \in Seq(Addr), NEW a \in Addr
  PROVE  /\ \A x, y : Ahead(s, x, y) => Ahead(Headed(a, s), x, y)
         /\ \A y \in Range(s) \cup {a} : Ahead(Headed(a, s), a, y)
<1>1. PICK t : t = Headed(a, s)
  OBVIOUS
<1>2. /\ t \in Seq(Addr) /\ Len(t) = Len(s) + 1 /\ t[1] = a /\ \A i \in 1 .. Len(s) : t[i + 1] = s[i]
  <2>1. LET u == <<a>> \o s
        IN  /\ u \in Seq(Addr) /\ Len(u) = Len(s) + 1 /\ u[1] = a
            /\ \A i \in 1 .. Len(s) : u[i + 1] = s[i]
    BY InFront
  <2> QED BY <1>1, <2>1 DEF Headed
<1>3. Len(s) \in Nat
  OBVIOUS
<1>4. ASSUME NEW x, NEW y, Ahead(s, x, y) PROVE Ahead(t, x, y)
  <2>1. PICK i, j \in 1 .. Len(s) : i <= j /\ s[i] = x /\ s[j] = y
    BY <1>4 DEF Ahead
  <2>2. i + 1 \in 1 .. Len(t) /\ j + 1 \in 1 .. Len(t) /\ i + 1 <= j + 1
    BY <1>2, <1>3, <2>1
  <2>3. t[i + 1] = x /\ t[j + 1] = y
    BY <1>2, <2>1
  <2> QED BY <2>2, <2>3 DEF Ahead
<1>5. ASSUME NEW y \in Range(s) \cup {a} PROVE Ahead(t, a, y)
  <2>1. y \in Range(t)
    BY <1>1, FrontOf
  <2>2. PICK j \in 1 .. Len(t) : t[j] = y
    BY <1>2, <2>1 DEF Range
  <2>3. 1 \in 1 .. Len(t) /\ 1 <= j
    BY <1>2, <1>3, <2>2
  <2> QED BY <1>2, <2>2, <2>3 DEF Ahead
<1> QED BY <1>1, <1>4, <1>5

(* What comes before a block and is another one comes before the block     *)
(* before it.                                                              *)
LEMMA AheadPrev ==
  ASSUME NEW s, NEW nx, NEW pv, DList(s, nx, pv), NEW x, NEW a, Ahead(s, x, a), x # a
  PROVE  pv[a] # 0 /\ Ahead(s, x, pv[a]) /\ pv[a] # a
<1>1. PICK i, j \in 1 .. Len(s) : i <= j /\ s[i] = x /\ s[j] = a
  BY DEF Ahead
<1>2. /\ Len(s) \in Nat /\ \A h \in 1 .. Len(s) : s[h] \in Addr
      /\ \A h, g \in 1 .. Len(s) : s[h] = s[g] => h = g
      /\ \A h \in 1 .. Len(s) : pv[s[h]] = IF h = 1 THEN 0 ELSE s[h - 1]
  BY Sides
<1>3. j # 1 /\ i <= j - 1 /\ j - 1 \in 1 .. Len(s) /\ j - 1 # j
  BY <1>1, <1>2
<1>4. pv[a] = s[j - 1]
  BY <1>1, <1>2, <1>3
<1>5. Ahead(s, x, pv[a])
  BY <1>1, <1>3, <1>4 DEF Ahead
<1>6. pv[a] # 0 /\ pv[a] # a
  BY <1>1, <1>2, <1>3, <1>4, HashMapAssumption
<1> QED BY <1>5, <1>6

(* Ahead is about the blocks of the list.                                  *)
LEMMA AheadOf ==
  ASSUME NEW s, NEW nx, NEW pv, DList(s, nx, pv)
  PROVE  /\ \A x, y : Ahead(s, x, y) => x \in Range(s) /\ y \in Range(s)
         /\ \A x \in Range(s) : Ahead(s, x, x)
<1>1. Len(s) \in Nat /\ \A a : a \in Range(s) <=> \E i \in 1 .. Len(s) : s[i] = a
  BY Sides
<1>2. ASSUME NEW x \in Range(s) PROVE Ahead(s, x, x)
  <2>1. PICK i \in 1 .. Len(s) : s[i] = x
    BY <1>1
  <2> QED BY <1>1, <2>1 DEF Ahead
<1> QED BY <1>1, <1>2 DEF Ahead

-----------------------------------------------------------------------------
(* The record that is being set may be dirty beyond the dirty tail, and    *)
(* may not be readable, until the set has come to it.                      *)
Fresh(o) == o.fresh /\ Phase(o) \in {"room", "chunk", "undo"}

Loose(o) ==
  IF Fresh(o) \/ Phase(o) \in {"join", "flags", "copy", "count", "dirty", "setList"}
    THEN {o.addr} ELSE {}
Empty(o) == IF Fresh(o) \/ Phase(o) \in {"join", "flags", "copy"} THEN {o.addr} ELSE {}

(* x lies between the dirty tail and the head of the set list.             *)
Seen(m, S, x) == m.dirtyTail[0] # 0 /\ Ahead(S, x, m.dirtyTail[0])

(* What is known of each record, and of the one at work.                   *)
Fit(m, S, P, o, x) ==
  /\ x \notin Loose(o) /\ m.dirty[x] => Seen(m, S, x)
  /\ x \notin Empty(o) => DataIn(m, P[x]) \in Values \cup {"onlyKey"}
  /\ ~(m.onlyKey[x] /\ m.dirty[x])

Knows(m, o) ==
  /\ Phase(o) \in {"block", "link"} => o.fresh
  /\ Phase(o) \in {"copy", "count"} /\ o.val # None => ~m.onlyKey[o.addr]
  /\ Phase(o) = "dirty" => ~m.onlyKey[o.addr]
  /\ Phase(o) = "synced" => ~m.dirty[o.addr]

Reaching(m, S, P, o) == (\A x \in Range(S) : Fit(m, S, P, o, x)) /\ Knows(m, o)

(* From m to n nothing gets worse but for record c.                        *)
Steady(m, n, S, S2, P, P2, c) ==
  \A x \in Range(S2) : x # c =>
    /\ x \in Range(S) /\ DataIn(n, P2[x]) = DataIn(m, P[x])
    /\ n.dirty[x] => m.dirty[x]
    /\ n.onlyKey[x] => m.onlyKey[x]
    /\ Seen(m, S, x) => Seen(n, S2, x)

(* The record at work is the same, or c.                                   *)
Holds(o, o2, c) == Loose(o) \subseteq Loose(o2) \cup {c} /\ Empty(o) \subseteq Empty(o2) \cup {c}

(* What a step must do.                                                    *)
LEMMA SteadyReaches ==
  ASSUME NEW m, NEW n, NEW S, NEW S2, NEW P, NEW P2, NEW o, NEW o2, NEW c,
         Reaching(m, S, P, o), Steady(m, n, S, S2, P, P2, c), Holds(o, o2, c),
         c \in Range(S2) => Fit(n, S2, P2, o2, c), Knows(n, o2)
  PROVE  Reaching(n, S2, P2, o2)
<1>1. ASSUME NEW x \in Range(S2), x # c PROVE Fit(n, S2, P2, o2, x)
  <2>1. Fit(m, S, P, o, x)
    BY <1>1 DEF Reaching, Steady
  <2>2. /\ DataIn(n, P2[x]) = DataIn(m, P[x]) /\ (n.dirty[x] => m.dirty[x])
        /\ (n.onlyKey[x] => m.onlyKey[x]) /\ (Seen(m, S, x) => Seen(n, S2, x))
    BY <1>1 DEF Steady
  <2>3. (x \notin Loose(o2) => x \notin Loose(o)) /\ (x \notin Empty(o2) => x \notin Empty(o))
    BY <1>1 DEF Holds
  <2>4. x \notin Loose(o2) /\ n.dirty[x] => Seen(n, S2, x)
    BY <2>1, <2>2, <2>3 DEF Fit
  <2>5. x \notin Empty(o2) => DataIn(n, P2[x]) \in Values \cup {"onlyKey"}
    BY <2>1, <2>2, <2>3 DEF Fit
  <2>6. ~(n.onlyKey[x] /\ n.dirty[x])
    BY <2>1, <2>2 DEF Fit
  <2> QED BY <2>4, <2>5, <2>6 DEF Fit
<1> QED BY <1>1 DEF Reaching

(* The set list of a memory is one.                                        *)
LEMMA OneSetList ==
  ASSUME NEW m, NEW S, NEW S2, Spot(m, S, "setHead", "setTail", "setNext", "setPrev"),
         Spot(m, S2, "setHead", "setTail", "setNext", "setPrev")
  PROVE  S2 = S
<1>1. /\ DList(S, m["setNext"], m["setPrev"]) /\ DList(S2, m["setNext"], m["setPrev"])
      /\ First(S) = First(S2)
  BY DEF Spot
<1> QED BY ONLY <1>1, OneList

(* Nor is there another one after a step that does not touch it.           *)
LEMMA SameSetList ==
  ASSUME NEW m, NEW n, NEW S, NEW S2, Spot(m, S, "setHead", "setTail", "setNext", "setPrev"),
         Spot(n, S2, "setHead", "setTail", "setNext", "setPrev"),
         n["setHead"] = m["setHead"], \A b \in Range(S) : n["setNext"][b] = m["setNext"][b]
  PROVE  S2 = S
<1>1. DList(S, m["setNext"], m["setPrev"]) /\ m["setHead"][0] = First(S)
  BY DEF Spot
<1>2. DList(S2, n["setNext"], n["setPrev"]) /\ n["setHead"][0] = First(S2)
  BY DEF Spot
<1>3. Strung(S, n["setNext"])
  <2>1. \A i \in 1 .. Len(S) : S[i] \in Range(S)
    BY <1>1 DEF DList, Range
  <2> QED BY <1>1, <2>1 DEF DList, Strung
<1>4. DList(S, n["setNext"], m["setPrev"]) /\ First(S) = First(S2)
  BY <1>1, <1>2, <1>3 DEF DList
<1> QED BY ONLY <1>2, <1>4, OneList

-----------------------------------------------------------------------------
(* What is known around a step that no process dies in.                    *)
Arriving(S, G, B, P, U, S2, G2, B2, P2, U2) ==
  Stepping(S, G, B, P, U, S2, G2, B2, P2, U2) /\ Reaching(mem, S, P, op)

(* What is to be shown of it.                                              *)
Arrives(S2, P2) == Reaching(mem', S2, P2, op')

(* The set list before and after the step.                                 *)
LEMMA ArrivingOf ==
  ASSUME NEW S, NEW G, NEW B, NEW P, NEW U, NEW S2, NEW G2, NEW B2, NEW P2, NEW U2,
         Arriving(S, G, B, P, U, S2, G2, B2, P2, U2)
  PROVE  /\ Stepping(S, G, B, P, U, S2, G2, B2, P2, U2) /\ Before(S, G, B, P, U)
         /\ After(S2, G2, B2, P2, U2) /\ WholeMap(S, G, B, P, U)
         /\ Spot(mem, S, "setHead", "setTail", "setNext", "setPrev")
         /\ Spot(mem', S2, "setHead", "setTail", "setNext", "setPrev")
         /\ Listing(S, G) /\ Shape(mem)
         /\ mem["dirty"] \in [Addr -> BOOLEAN] /\ mem["onlyKey"] \in [Addr -> BOOLEAN]
         /\ Range(S) \subseteq Addr /\ 0 \notin Range(S) /\ S \in Seq(Addr)
         /\ Reaching(mem, S, P, op) /\ Knows(mem, op)
         /\ \A x \in Range(S) : Fit(mem, S, P, op, x)
         /\ DOMAIN op = DOMAIN Idle /\ Working(op, S, P, crashed, calls)
         /\ op.pc \notin {"release", "evict"} => Phase(op) = op.pc
         /\ op.pc = "idle" => op = Idle
<1>1. Stepping(S, G, B, P, U, S2, G2, B2, P2, U2)
  BY DEF Arriving
<1>2. /\ Before(S, G, B, P, U) /\ After(S2, G2, B2, P2, U2) /\ WholeMap(S, G, B, P, U)
      /\ Range(S) \subseteq Addr /\ 0 \notin Range(S)
  BY <1>1, SteppingOf
<1>3. /\ Shape(mem) /\ Flags(mem) /\ Lists(mem, S, G, B) /\ Listing(S, G) /\ S \in Seq(Addr)
  BY <1>2, PartsOf
<1>4. Lists(mem', S2, G2, B2)
  BY <1>2 DEF After, Whole
<1>5. Spot(mem, S, "setHead", "setTail", "setNext", "setPrev")
  BY <1>3 DEF Lists
<1>6. Spot(mem', S2, "setHead", "setTail", "setNext", "setPrev")
  BY <1>4 DEF Lists
<1>7. mem["dirty"] \in [Addr -> BOOLEAN] /\ mem["onlyKey"] \in [Addr -> BOOLEAN]
  BY <1>3 DEF Flags
<1>8. Reaching(mem, S, P, op) /\ Knows(mem, op)
  BY DEF Arriving, Reaching
<1>9. \A x \in Range(S) : Fit(mem, S, P, op, x)
  BY <1>8 DEF Reaching
<1>10. /\ DOMAIN op = DOMAIN Idle /\ Working(op, S, P, crashed, calls)
       /\ op.pc \notin {"release", "evict"} => Phase(op) = op.pc
       /\ op.pc = "idle" => op = Idle
  BY <1>1, SteppingOf
<1> HIDE DEF Phase
<1> QED BY <1>1, <1>2, <1>3, <1>5, <1>6, <1>7, <1>8, <1>9, <1>10

(* Steps that touch no record but c.                                       *)
LEMMA UntouchedArrives ==
  ASSUME NEW S, NEW G, NEW B, NEW P, NEW U, NEW S2, NEW G2, NEW B2, NEW P2, NEW U2,
         Arriving(S, G, B, P, U, S2, G2, B2, P2, U2), NEW c, LeftAlone(S, P, P2, c),
         Holds(op, op', c), c \in Range(S) => Fit(mem', S, P2, op', c), Knows(mem', op')
  PROVE  S2 = S /\ Arrives(S2, P2)
<1>1. S2 = S
  <2>1. mem'["setHead"] = mem["setHead"] /\ \A b \in Range(S) : mem'["setNext"][b] = mem["setNext"][b]
    BY DEF LeftAlone
  <2> QED BY <2>1, ArrivingOf, SameSetList
<1>2. Steady(mem, mem', S, S, P, P2, c)
  <2> SUFFICES ASSUME NEW x \in Range(S), x # c
               PROVE  /\ DataIn(mem', P2[x]) = DataIn(mem, P[x])
                      /\ mem'.dirty[x] => mem.dirty[x]
                      /\ mem'.onlyKey[x] => mem.onlyKey[x]
                      /\ Seen(mem, S, x) => Seen(mem', S, x)
    BY DEF Steady
  <2>1. mem'.dirtyTail[0] = mem.dirtyTail[0]
    BY DEF LeftAlone
  <2>2. Seen(mem, S, x) => Seen(mem', S, x)
    BY <2>1 DEF Seen
  <2> QED BY <2>2 DEF LeftAlone
<1>3. Reaching(mem, S, P, op)
  BY ArrivingOf
<1> DEFINE m == mem
           n == mem'
           o == op
           o2 == op'
<1>4. /\ Reaching(m, S, P, o) /\ Steady(m, n, S, S, P, P2, c) /\ Holds(o, o2, c)
      /\ (c \in Range(S) => Fit(n, S, P2, o2, c)) /\ Knows(n, o2)
  BY <1>2, <1>3
<1> HIDE DEF m, n, o, o2
<1>5. Reaching(n, S, P2, o2)
  BY <1>4, SteadyReaches
<1> QED BY <1>1, <1>5 DEF n, o2, Arrives

(* What is in the records is the same when no field that is read changes.  *)
LEMMA QuietData ==
  ASSUME NEW S, NEW G, NEW B, NEW P, NEW U, Before(S, G, B, P, U),
         NEW S2, NEW G2, NEW B2, NEW P2, NEW U2, After(S2, G2, B2, P2, U2), DataKept(mem, mem')
  PROVE  Range(S2) = Range(S) /\ \A b \in Range(S) : DataIn(mem', P2[b]) = DataIn(mem, P[b])
<1>1. Range(S2) = Range(S) /\ \A b \in Range(S) : P2[b] = P[b]
  BY QuietSees
<1>2. Shown(mem, S, G, B, P, View) /\ TypedValues(mem)
  BY BeforeShown DEF Before
<1>3. ASSUME NEW b \in Range(S) PROVE DataIn(mem', P[b]) = DataIn(mem, P[b])
  <2>1. Alike(mem, mem', P[b])
    BY DEF DataKept, ReadFields, Alike
  <2>2. P[b] \in Seq(Addr) /\ P[b] # <<>>
    BY <1>2, RecordBlocks
  <2> QED BY <1>2, <2>1, <2>2, AlikeReads
<1> QED BY <1>1, <1>3

(* Steps that touch no record at all.                                      *)
LEMMA QuietArrives ==
  ASSUME NEW S, NEW G, NEW B, NEW P, NEW U, NEW S2, NEW G2, NEW B2, NEW P2, NEW U2,
         Arriving(S, G, B, P, U, S2, G2, B2, P2, U2), DataKept(mem, mem'),
         mem'["dirty"] = mem["dirty"], mem'["dirtyTail"][0] = mem["dirtyTail"][0],
         mem'["setHead"] = mem["setHead"], mem'["setNext"] = mem["setNext"],
         Holds(op, op', 0), Knows(mem', op')
  PROVE  Arrives(S2, P2)
<1>1. \A b \in Range(S) : DataIn(mem', P2[b]) = DataIn(mem, P[b])
  BY ArrivingOf, QuietData
<1>2. mem'["onlyKey"] = mem["onlyKey"]
  BY DEF DataKept, ReadFields
<1>3. LeftAlone(S, P, P2, 0)
  BY <1>1, <1>2 DEF LeftAlone
<1> QED BY <1>3, ArrivingOf, UntouchedArrives

-----------------------------------------------------------------------------
(* When the record at work is no other than before.                        *)
LEMMA HoldsWhen ==
  ASSUME NEW o, NEW o2, NEW c
  PROVE  /\ Phase(o) \in {"idle", "return", "block", "link", "getList", "sync", "synced"} => Holds(o, o2, c)
         /\ Phase(o) \in {"room", "chunk", "undo"} /\ ~o.fresh => Holds(o, o2, c)
         /\ o.addr = c => Holds(o, o2, c)
         /\ o2.addr = o.addr /\ o2.fresh = o.fresh /\ Phase(o2) = Phase(o) => Holds(o, o2, c)
         /\ (o2.addr = o.addr /\ o2.fresh = o.fresh
             /\ Phase(o) \in {"room", "chunk", "undo"} /\ Phase(o2) \in {"room", "chunk", "undo"})
            => Holds(o, o2, c)
         /\ (o2.addr = o.addr /\ Phase(o) \in {"room", "chunk", "undo", "join", "flags", "copy"}
             /\ Phase(o2) \in {"join", "flags", "copy"}) => Holds(o, o2, c)
         /\ (o2.addr = o.addr /\ Phase(o) \in {"count", "dirty"}
             /\ Phase(o2) \in {"dirty", "setList"}) => Holds(o, o2, c)
<1> HIDE DEF Phase
<1> QED BY DEF Holds, Loose, Empty, Fresh

(* When there is nothing to know.                                          *)
LEMMA KnowsWhen ==
  ASSUME NEW m, NEW o
  PROVE  /\ Phase(o) \in {"idle", "return", "room", "chunk", "undo", "join", "flags", "setList",
                          "getList", "sync"} => Knows(m, o)
         /\ Phase(o) \in {"block", "link"} /\ o.fresh => Knows(m, o)
         /\ Phase(o) = "dirty" /\ ~m.onlyKey[o.addr] => Knows(m, o)
<1> HIDE DEF Phase
<1> QED BY DEF Knows

(* Steps that change nothing in the memory.                                *)
LEMMA NothingArrives ==
  ASSUME NEW S, NEW G, NEW B, NEW P, NEW U, NEW S2, NEW G2, NEW B2, NEW P2, NEW U2,
         Arriving(S, G, B, P, U, S2, G2, B2, P2, U2), mem' = mem,
         Holds(op, op', 0), Knows(mem, op')
  PROVE  Arrives(S2, P2)
<1>1. DataKept(mem, mem') /\ mem'["dirty"] = mem["dirty"] /\ mem'["dirtyTail"] = mem["dirtyTail"]
      /\ mem'["setHead"] = mem["setHead"] /\ mem'["setNext"] = mem["setNext"]
  BY NothingIsQuiet
<1>2. Knows(mem', op')
  BY DEF Knows
<1> QED BY <1>1, <1>2, QuietArrives

(* The fields of the set list and of the dirty records.                    *)
ReachFields == {"dirty", "dirtyTail", "setHead", "setNext"}

(* They are what a step leaves alone that touches other fields.            *)
LEMMA ReachFieldsKept ==
  ASSUME NEW n, NEW F, NEW R, Touches(mem, n, F, R), F \cap ReachFields = {}
  PROVE  /\ n["dirty"] = mem["dirty"] /\ n["dirtyTail"] = mem["dirtyTail"]
         /\ n["setHead"] = mem["setHead"] /\ n["setNext"] = mem["setNext"]
<1>1. \A f \in ReachFields : f \in Fields /\ f \notin F
  BY FieldNames DEF ReachFields, Fields, HeadFields
<1>2. \A f \in ReachFields : n[f] = mem[f]
  BY <1>1, Unaltered
<1> QED BY <1>2 DEF ReachFields

(* Steps that change other fields, none of them read.                      *)
LEMMA ElsewhereArrives ==
  ASSUME NEW S, NEW G, NEW B, NEW P, NEW U, NEW S2, NEW G2, NEW B2, NEW P2, NEW U2,
         Arriving(S, G, B, P, U, S2, G2, B2, P2, U2), NEW F, NEW R, Touches(mem, mem', F, R),
         F \subseteq OrderFields \cup CountFields \cup {"usedChunk"}, F \cap ReachFields = {},
         Holds(op, op', 0), Knows(mem', op')
  PROVE  Arrives(S2, P2)
<1>1. DataKept(mem, mem')
  BY TouchesQuietly
<1>2. /\ mem'["dirty"] = mem["dirty"] /\ mem'["dirtyTail"] = mem["dirtyTail"]
      /\ mem'["setHead"] = mem["setHead"] /\ mem'["setNext"] = mem["setNext"]
  BY ReachFieldsKept
<1> QED BY <1>1, <1>2, QuietArrives

-----------------------------------------------------------------------------
(* set(k, v, d) is called.                                                 *)
LEMMA SetArrives ==
  ASSUME NEW S, NEW G, NEW B, NEW P, NEW U, NEW S2, NEW G2, NEW B2, NEW P2, NEW U2,
         Arriving(S, G, B, P, U, S2, G2, B2, P2, U2), NEW k, NEW v, NEW d, set(k, v, d)
  PROVE  Arrives(S2, P2)
<1> DEFINE a == find(k)
<1>1. op = Idle /\ mem' = mem
  BY ArrivingOf DEF set, Begin
<1>2. \/ op'.pc = "return"
      \/ op'.pc = "block" /\ op'.fresh
      \/ op'.pc = "room"
  <2> HIDE DEF a
  <2> QED BY DEF set, Start, Idle, a
<1>3. Phase(op') = op'.pc /\ Phase(op) = "idle"
  BY <1>1, <1>2, IdleIs, PhaseIs
<1>4. Holds(op, op', 0)
  BY <1>3, HoldsWhen
<1> HIDE DEF Phase
<1>5. Knows(mem, op')
  BY <1>2, <1>3 DEF Knows
<1> QED BY <1>1, <1>4, <1>5, NothingArrives

(* The search for blocks.                                                  *)
LEMMA SearchArrives ==
  ASSUME NEW S, NEW G, NEW B, NEW P, NEW U, NEW S2, NEW G2, NEW B2, NEW P2, NEW U2,
         Arriving(S, G, B, P, U, S2, G2, B2, P2, U2), allocateMemBlock \/ allocateChunk
  PROVE  Arrives(S2, P2)
<1>1. /\ DOMAIN op = DOMAIN Idle /\ op.pc \in {"block", "chunk"} /\ Phase(op) = op.pc
      /\ Knows(mem, op) /\ Shape(mem)
  BY ArrivingOf DEF allocateMemBlock, allocateChunk
<1>2. \/ op' = Evicting(op.pc)
      \/ op.pc = "block" /\ \E a : op' = [op EXCEPT !.pc = "link", !.addr = a]
      \/ op.pc = "chunk" /\ \E c, t : t \in {"join", "chunk"} /\ op' = [op EXCEPT !.chunks = c, !.pc = t]
  BY DEF allocateMemBlock, allocateChunk
<1>3. /\ op'.fresh = op.fresh
      /\ \/ op'.pc = "evict" /\ op'.back = op.pc /\ op'.addr = op.addr
         \/ op.pc = "block" /\ op'.pc = "link"
         \/ op.pc = "chunk" /\ op'.pc \in {"join", "chunk"} /\ op'.addr = op.addr
  <2>1. CASE op' = Evicting(op.pc)
    BY <1>1, <2>1, OperationFields DEF Evicting
  <2>2. CASE op.pc = "block" /\ \E a : op' = [op EXCEPT !.pc = "link", !.addr = a]
    BY <1>1, <2>2, OperationFields
  <2>3. CASE op.pc = "chunk" /\ \E c, t : /\ t \in {"join", "chunk"}
                                         /\ op' = [op EXCEPT !.chunks = c, !.pc = t]
    BY <1>1, <2>3, OperationFields
  <2> QED BY <1>2, <2>1, <2>2, <2>3
<1>4. \/ op.pc = "block" /\ Phase(op') \in {"block", "link"}
      \/ op.pc = "chunk" /\ Phase(op') \in {"chunk", "join"} /\ op'.addr = op.addr
  BY <1>1, <1>3, PhaseIs
<1> HIDE DEF Phase
<1>5. Holds(op, op', 0)
  BY <1>1, <1>3, <1>4, HoldsWhen
<1>6. op.pc = "block" => op.fresh
  BY <1>1 DEF Knows
<1>7. \A m : Knows(m, op')
  BY <1>3, <1>4, <1>6, KnowsWhen
<1>8. mem' = mem \/ Commit(Add("usedChunk", 0, 1))
  BY DEF allocateMemBlock, allocateChunk
<1>9. CASE Commit(Add("usedChunk", 0, 1))
  <2>1. Touches(mem, mem', {"usedChunk"}, {})
    BY <1>1, <1>9, UsedTouches
  <2>2. {"usedChunk"} \cap ReachFields = {}
    BY DEF ReachFields
  <2> QED BY <1>5, <1>7, <2>1, <2>2, ElsewhereArrives
<1> QED BY <1>5, <1>7, <1>8, <1>9, NothingArrives

(* The end of eviction.                                                    *)
LEMMA EvictedArrives ==
  ASSUME NEW S, NEW G, NEW B, NEW P, NEW U, NEW S2, NEW G2, NEW B2, NEW P2, NEW U2,
         Arriving(S, G, B, P, U, S2, G2, B2, P2, U2), op.pc = "evict", mem' = mem,
         \/ op' = [op EXCEPT !.pc = op.back]
         \/ op' = Releasing([op EXCEPT !.chunks = <<>>, !.res = "noMemory"], op.chunks,
                            IF op.fresh /\ op.back = "chunk" THEN "undo" ELSE "return")
  PROVE  Arrives(S2, P2)
<1>1. DOMAIN op = DOMAIN Idle /\ Working(op, S, P, crashed, calls) /\ Knows(mem, op)
  BY ArrivingOf
<1>2. Phase(op) = op.back /\ op.back \in {"block", "chunk"}
  BY <1>1, PhaseIs DEF Working
<1> HIDE DEF Phase
<1>3. op.back = "block" => op.fresh
  BY <1>1, <1>2 DEF Knows
<1>4. CASE op' = [op EXCEPT !.pc = op.back]
  <2>1. op'.fresh = op.fresh /\ op'.addr = op.addr /\ op'.pc = op.back
    BY <1>1, <1>4, OperationFields
  <2>2. Phase(op') = op.back
    BY <1>2, <2>1, PhaseIs
  <2>3. Holds(op, op', 0) /\ Knows(mem, op')
    BY <1>2, <1>3, <2>1, <2>2, HoldsWhen, KnowsWhen
  <2> QED BY <2>3, NothingArrives
<1>5. ASSUME NEW r, r = (IF op.fresh /\ op.back = "chunk" THEN "undo" ELSE "return"),
             op' = Releasing([op EXCEPT !.chunks = <<>>, !.res = "noMemory"], op.chunks, r)
      PROVE  Arrives(S2, P2)
  <2>1. /\ op'.fresh = op.fresh /\ op'.addr = op.addr
        /\ op'.pc = r \/ (op'.pc = "release" /\ op'.ret = r)
    BY <1>1, <1>5, OperationFields DEF Releasing
  <2>2. Phase(op') = r
    BY <1>5, <2>1, PhaseIs
  <2>3. \/ op.back = "chunk" /\ op.fresh /\ r = "undo"
        \/ op.back = "chunk" /\ ~op.fresh /\ r = "return"
        \/ op.back = "block" /\ r = "return"
    BY <1>2, <1>5
  <2>4. Holds(op, op', 0) /\ Knows(mem, op')
    BY <1>2, <2>1, <2>2, <2>3, HoldsWhen, KnowsWhen
  <2> QED BY <2>4, NothingArrives
<1> QED BY <1>4, <1>5

(* Blocks that are given back.                                             *)
LEMMA DeallocateArrives ==
  ASSUME NEW S, NEW G, NEW B, NEW P, NEW U, NEW S2, NEW G2, NEW B2, NEW P2, NEW U2,
         Arriving(S, G, B, P, U, S2, G2, B2, P2, U2), deallocate
  PROVE  Arrives(S2, P2)
<1>1. /\ Before(S, G, B, P, U) /\ After(S2, G2, B2, P2, U2) /\ DOMAIN op = DOMAIN Idle
      /\ Working(op, S, P, crashed, calls) /\ op.pc = "release" /\ Knows(mem, op) /\ 0 \notin Range(S)
  BY ArrivingOf DEF deallocate
<1>2. LeftAlone(S, P, P2, 0)
  BY <1>1, FreeSees
<1>3. op'.addr = op.addr /\ op'.fresh = op.fresh /\ Phase(op') = Phase(op)
  BY <1>1, DeallocateKeepsPhase
<1>4. Phase(op) \in {"return", "flags", "undo", "block", "chunk"}
  BY <1>1, PhaseIs DEF Working
<1> HIDE DEF Phase
<1>5. Holds(op, op', 0)
  BY <1>3, HoldsWhen
<1>6. Phase(op') = "block" => op'.fresh
  BY <1>1, <1>3 DEF Knows
<1>7. Phase(op') \in {"return", "flags", "undo", "block", "chunk"}
  BY <1>3, <1>4
<1>8. Knows(mem', op')
  BY <1>6, <1>7 DEF Knows
<1> QED BY <1>1, <1>2, <1>5, <1>8, UntouchedArrives

(* The counts of records.                                                  *)
LEMMA CountArrives ==
  ASSUME NEW S, NEW G, NEW B, NEW P, NEW U, NEW S2, NEW G2, NEW B2, NEW P2, NEW U2,
         Arriving(S, G, B, P, U, S2, G2, B2, P2, U2), count
  PROVE  Arrives(S2, P2)
<1>1. /\ WholeMap(S, G, B, P, U) /\ DOMAIN op = DOMAIN Idle /\ op.pc = "count"
      /\ Phase(op) = "count" /\ Knows(mem, op)
  BY ArrivingOf DEF count
<1>2. Shape(mem) /\ Counts(mem, S, op, crashed)
  BY <1>1, PartsOf
<1>3. PICK x, y : Logged(mem, op.log, x, y)
  BY <1>1, <1>2 DEF Counts, ToCount
<1>4. PICK n : CountsSet(n, op.log, x, y)
  BY <1>2, <1>3, LoggedMakes
<1>5. mem' = n /\ Touches(mem, n, {"dirtyCount", "onlyKeyCount"}, {})
  BY <1>4, CommitMakes DEF CountsSet, count
<1>6. op' = [op EXCEPT !.pc = IF op.val = None THEN "setList" ELSE "dirty"]
  BY DEF count, Become
<1>7. op'.addr = op.addr /\ op'.pc = IF op.val = None THEN "setList" ELSE "dirty"
  BY <1>1, <1>6, OperationFields
<1>8. Phase(op') = op'.pc
  BY <1>7, PhaseIs
<1> HIDE DEF Phase
<1>9. Holds(op, op', 0)
  BY <1>1, <1>7, <1>8, HoldsWhen
<1>10. mem'["onlyKey"] = mem["onlyKey"]
  <2>1. "onlyKey" \in Fields /\ "onlyKey" \notin {"dirtyCount", "onlyKeyCount"}
    BY FieldNames DEF Fields
  <2> QED BY <1>5, <2>1, Unaltered
<1>11. Knows(mem', op')
  <2>1. op.val # None => ~mem'.onlyKey[op'.addr]
    BY <1>1, <1>7, <1>10 DEF Knows
  <2> QED BY <1>7, <1>8, <2>1 DEF Knows
<1>12. /\ {"dirtyCount", "onlyKeyCount"} \subseteq OrderFields \cup CountFields \cup {"usedChunk"}
       /\ {"dirtyCount", "onlyKeyCount"} \cap ReachFields = {}
  BY DEF CountFields, ReachFields
<1> QED BY <1>5, <1>9, <1>11, <1>12, ElsewhereArrives

(* Steps that move records of the get list, and the dirty tail stays.      *)
LEMMA GetFieldsArrive ==
  ASSUME NEW S, NEW G, NEW B, NEW P, NEW U, NEW S2, NEW G2, NEW B2, NEW P2, NEW U2,
         Arriving(S, G, B, P, U, S2, G2, B2, P2, U2),
         Touches(mem, mem', GetFields \cup CursorFields, Range(G)), mem'["dirtyTail"][0] = DirtyTail,
         Holds(op, op', 0), Knows(mem', op')
  PROVE  Arrives(S2, P2)
<1>1. DataKept(mem, mem')
  BY TouchesQuietly DEF OrderFields
<1>2. mem'["dirty"] = mem["dirty"] /\ mem'["setHead"] = mem["setHead"] /\ mem'["setNext"] = mem["setNext"]
  <2>1. \A f \in {"dirty", "setHead", "setNext"} : f \in Fields /\ f \notin GetFields \cup CursorFields
    BY FieldNames DEF Fields, HeadFields, GetFields, CursorFields
  <2> QED BY <2>1, Unaltered
<1> QED BY <1>1, <1>2, QuietArrives DEF DirtyTail

(* The get list and the other cursors are not those of the dirty records.  *)
LEMMA GetListArrives ==
  ASSUME NEW S, NEW G, NEW B, NEW P, NEW U, NEW S2, NEW G2, NEW B2, NEW P2, NEW U2,
         Arriving(S, G, B, P, U, S2, G2, B2, P2, U2), NEW a \in Range(S),
         Commit(refreshGetListLog(a)), Holds(op, op', 0), \A m : Knows(m, op')
  PROVE  Arrives(S2, P2)
<1>1. Listing(S, G) /\ WholeMap(S, G, B, P, U)
  BY ArrivingOf
<1>2. PICK q \in 1 .. Len(G) : G[q] = a
  BY <1>1, Position
<1>3. PICK n : GetRefreshed(n, G, q)
  BY <1>1, RefreshGetMakes DEF Listing
<1>4. mem' = n
  <2>1. Makes(refreshGetListLog(a), mem, n)
    BY <1>2, <1>3 DEF GetRefreshed
  <2> QED BY <2>1, CommitMakes
<1>5. Touches(mem, n, GetFields \cup CursorFields, Range(G)) /\ n["dirtyTail"][0] = DirtyTail
  BY <1>3 DEF GetRefreshed
<1> QED BY <1>1, <1>4, <1>5, GetFieldsArrive

(* Steps that set another cursor.                                          *)
LEMMA CursorArrives ==
  ASSUME NEW S, NEW G, NEW B, NEW P, NEW U, NEW S2, NEW G2, NEW B2, NEW P2, NEW U2,
         Arriving(S, G, B, P, U, S2, G2, B2, P2, U2), NEW f \in {"syncTail", "backupTail"}, NEW v,
         Commit(Put(f, 0, v)), Holds(op, op', 0), \A m : Knows(m, op')
  PROVE  Arrives(S2, P2)
<1>1. Shape(mem)
  BY ArrivingOf
<1>2. PICK w : w = TRUE
  OBVIOUS
<1>3. f \in HeadFields /\ f \in OrderFields /\ f \notin ReachFields
  BY DEF HeadFields, OrderFields, CursorFields, ReachFields
<1>4. PICK n : HeadSet(n, w, f, v)
  BY <1>1, <1>3, HeadSetMakes
<1>5. Makes(Put(f, 0, v), mem, n) /\ Touches(mem, n, {f}, {})
  BY <1>2, <1>4 DEF HeadSet, If
<1>6. mem' = n
  BY <1>5, CommitMakes
<1> QED BY <1>3, <1>5, <1>6, ElsewhereArrives

(* The end of an operation.                                                *)
LEMMA DoneArrives ==
  ASSUME NEW S, NEW G, NEW B, NEW P, NEW U, NEW S2, NEW G2, NEW B2, NEW P2, NEW U2,
         Arriving(S, G, B, P, U, S2, G2, B2, P2, U2), Done
  PROVE  Arrives(S2, P2)
<1>1. op.pc = "return" /\ op' = Idle /\ mem' = mem /\ Phase(op) = "return"
  BY ArrivingOf DEF Done
<1>2. Phase(op') = "idle"
  BY <1>1, IdleIs
<1> HIDE DEF Phase
<1>3. Holds(op, op', 0) /\ Knows(mem, op')
  BY <1>1, <1>2, HoldsWhen, KnowsWhen
<1> QED BY <1>1, <1>3, NothingArrives

(* get, backup, sync() and the first steps of a write-back and of          *)
(* setDirty.                                                               *)
LEMMA BeginnersArrive ==
  ASSUME NEW S, NEW G, NEW B, NEW P, NEW U, NEW S2, NEW G2, NEW B2, NEW P2, NEW U2,
         Arriving(S, G, B, P, U, S2, G2, B2, P2, U2),
         \/ syncBegin \/ syncNext \/ backup \/ \E force \in BOOLEAN : backupBegin(force)
         \/ \E k \in Keys : get(k) \/ \E d \in BOOLEAN : markDirty(k, d)
  PROVE  Arrives(S2, P2)
<1>1. op = Idle /\ WholeMap(S, G, B, P, U)
  BY ArrivingOf DEF Begin, syncBegin, syncNext, backup, backupBegin, get, markDirty
<1>2. Phase(op) = "idle"
  BY <1>1, IdleIs
<1>3. Holds(op, op', 0)
  BY <1>2, HoldsWhen
<1>4. op' = op => \A m : Knows(m, op')
  BY <1>2, KnowsWhen
<1>5. CASE syncBegin \/ backup \/ \E force \in BOOLEAN : backupBegin(force)
  <2>1. \E f \in {"syncTail", "backupTail"} : \E v : Commit(Put(f, 0, v))
    BY <1>5 DEF syncBegin, backup, backupBegin
  <2>2. op' = op
    BY <1>5 DEF syncBegin, backup, backupBegin
  <2> QED BY <1>3, <1>4, <2>1, <2>2, CursorArrives
<1>6. CASE syncNext
  <2>1. \E f \in {"syncTail", "backupTail"} : \E v : Commit(Put(f, 0, v))
    BY <1>6 DEF syncNext
  <2>2. op'.pc = "sync"
    BY <1>6 DEF syncNext, Start, Idle
  <2>3. Phase(op') = "sync"
    BY <2>2, PhaseIs
  <2>4. \A m : Knows(m, op')
    BY <2>3, KnowsWhen
  <2> QED BY <1>3, <2>1, <2>4, CursorArrives
<1>7. ASSUME NEW k \in Keys, get(k) PROVE Arrives(S2, P2)
  <2>1. findValue(k) \in Range(S)
    BY <1>1, <1>7, FindValueFinds, PartsOf DEF get
  <2>2. Commit(refreshGetListLog(findValue(k))) /\ op' = op
    BY <1>7 DEF get
  <2> QED BY <1>3, <1>4, <2>1, <2>2, GetListArrives
<1>8. ASSUME NEW k \in Keys, NEW d \in BOOLEAN, markDirty(k, d) PROVE Arrives(S2, P2)
  <2> DEFINE a == find(k)
  <2>1. mem' = mem /\ ~mem.onlyKey[a]
        /\ op' = [Start("mark", k) EXCEPT !.pc = "dirty", !.addr = a, !.dirty = d]
    BY <1>8 DEF markDirty
  <2> HIDE DEF a
  <2>2. op'.pc = "dirty" /\ op'.addr = a
    BY <2>1 DEF Start, Idle
  <2>3. Phase(op') = "dirty"
    BY <2>2, PhaseIs
  <2>4. Knows(mem, op')
    BY <2>1, <2>2, <2>3, KnowsWhen
  <2> QED BY <1>3, <2>1, <2>4, NothingArrives
<1> QED BY <1>5, <1>6, <1>7, <1>8

-----------------------------------------------------------------------------
(* Steps after which no record is worse off but c.                         *)
LEMMA SteadyArrives ==
  ASSUME NEW S, NEW G, NEW B, NEW P, NEW U, NEW S2, NEW G2, NEW B2, NEW P2, NEW U2,
         Arriving(S, G, B, P, U, S2, G2, B2, P2, U2), NEW c, Steady(mem, mem', S, S2, P, P2, c),
         Holds(op, op', c), c \in Range(S2) => Fit(mem', S2, P2, op', c), Knows(mem', op')
  PROVE  Arrives(S2, P2)
<1>1. Reaching(mem, S, P, op)
  BY ArrivingOf
<1> DEFINE m == mem
           n == mem'
           o == op
           o2 == op'
<1>2. /\ Reaching(m, S, P, o) /\ Steady(m, n, S, S2, P, P2, c) /\ Holds(o, o2, c)
      /\ (c \in Range(S2) => Fit(n, S2, P2, o2, c)) /\ Knows(n, o2)
  BY <1>1
<1> HIDE DEF m, n, o, o2
<1>3. Reaching(n, S2, P2, o2)
  BY <1>2, SteadyReaches
<1> QED BY <1>3 DEF n, o2, Arrives

(* What a record that can be read holds, when it is its key alone.         *)
LEMMA OnlyKeyRead ==
  ASSUME NEW m, NEW s, DataIn(m, s) \in {"error", "onlyKey"}, DataIn(m, s) \in Values \cup {"onlyKey"},
         m.val[s[1]] \in Values \cup {None, Torn}
  PROVE  m.onlyKey[s[1]]
<1>1. "error" \notin Values /\ "onlyKey" \notin Values /\ Torn # "onlyKey" /\ "error" # "onlyKey"
  BY NamesDiffer DEF Torn
<1>2. DataIn(m, s) = "onlyKey"
  BY <1>1
<1>3. PICK v : v = m.val[s[1]]
  OBVIOUS
<1>4. m.onlyKey[s[1]] \/ DataIn(m, s) \in {"error", Torn} \/ (v \in Values /\ DataIn(m, s) = v)
  <2> DEFINE Q == \A i \in 1 .. Size[v] : m.val[s[i + 1]] = v
             W == Len(s) - 1 + (IF m.len[s[Len(s)]] = "none" THEN 0 ELSE 1) < Size[v] + 1
             N == Len(s) = 1
             L == m.len[s[Len(s)]] = "addr"
  <2>1. DataIn(m, s) = IF ~Readable(m, s[1]) THEN "error"
                       ELSE IF m.onlyKey[s[1]] THEN "onlyKey"
                       ELSE IF v = Torn \/ m.key[s[1]] = None THEN Torn
                       ELSE IF v = None THEN IF N THEN "error" ELSE Torn
                       ELSE IF W THEN IF L THEN Torn ELSE "error"
                       ELSE IF Q THEN v ELSE Torn
    BY <1>3 DEF DataIn
  <2> HIDE DEF Q, W, N, L
  <2> QED BY <1>3, <2>1
<1> QED BY <1>1, <1>2, <1>4

(* The dirty tail goes past a, which is no longer dirty.                   *)
LEMMA TailPastArrives ==
  ASSUME NEW S, NEW G, NEW B, NEW P, NEW U, NEW S2, NEW G2, NEW B2, NEW P2, NEW U2,
         Arriving(S, G, B, P, U, S2, G2, B2, P2, U2), NEW a \in Range(S), Commit(TailPast(a)),
         ~mem["dirty"][a], op' = Idle, Phase(op) \in {"sync", "synced"}
  PROVE  Arrives(S2, P2)
<1>1. /\ Shape(mem) /\ Spot(mem, S, "setHead", "setTail", "setNext", "setPrev")
      /\ Spot(mem', S2, "setHead", "setTail", "setNext", "setPrev")
      /\ \A x \in Range(S) : Fit(mem, S, P, op, x)
  BY ArrivingOf
<1>2. PICK n : HeadSet(n, DirtyTail = a, "dirtyTail", mem["setPrev"][a])
  BY <1>1, HeadSetMakes DEF HeadFields
<1>3. mem' = n
  BY <1>2, CommitMakes DEF HeadSet, TailPast
<1>4. /\ Touches(mem, mem', {"dirtyTail"}, {})
      /\ mem'["dirtyTail"][0] = IF DirtyTail = a THEN mem["setPrev"][a] ELSE DirtyTail
  BY <1>2, <1>3 DEF HeadSet, DirtyTail
<1>5. /\ mem'["dirty"] = mem["dirty"] /\ mem'["setHead"] = mem["setHead"]
      /\ mem'["setNext"] = mem["setNext"] /\ mem'["onlyKey"] = mem["onlyKey"]
  <2>1. \A f \in {"dirty", "setHead", "setNext", "onlyKey"} : f \in Fields /\ f \notin {"dirtyTail"}
    BY FieldNames DEF Fields, HeadFields
  <2> QED BY <1>4, <2>1, Unaltered
<1>6. S2 = S
  BY <1>1, <1>5, SameSetList
<1>7. \A b \in Range(S) : DataIn(mem', P2[b]) = DataIn(mem, P[b])
  <2>1. {"dirtyTail"} \subseteq OrderFields \cup CountFields \cup {"dirty", "usedChunk"}
    BY DEF OrderFields, CursorFields
  <2>2. DataKept(mem, mem')
    BY <1>4, <2>1, TouchesQuietly
  <2> QED BY <2>2, ArrivingOf, QuietData
<1>8. ASSUME NEW x \in Range(S), x # a, Seen(mem, S, x) PROVE Seen(mem', S, x)
  <2>1. DirtyTail # 0 /\ Ahead(S, x, DirtyTail)
    BY <1>8 DEF Seen, DirtyTail
  <2>2. DList(S, mem["setNext"], mem["setPrev"])
    BY <1>1 DEF Spot
  <2>3. DirtyTail = a => mem["setPrev"][a] # 0 /\ Ahead(S, x, mem["setPrev"][a])
    BY <1>8, <2>1, <2>2, AheadPrev
  <2> QED BY <1>4, <2>1, <2>3 DEF Seen
<1>9. Steady(mem, mem', S, S, P, P2, a)
  BY <1>5, <1>7, <1>8 DEF Steady
<1>10. Phase(op') = "idle"
  BY IdleIs
<1> HIDE DEF Phase
<1>11. Holds(op, op', a) /\ Knows(mem', op')
  BY <1>10, HoldsWhen, KnowsWhen
<1>12. Fit(mem', S, P2, op', a)
  <2>1. a \notin Empty(op)
    BY DEF Empty, Fresh
  <2>2. DataIn(mem', P2[a]) \in Values \cup {"onlyKey"}
    BY <1>1, <1>7, <2>1 DEF Fit
  <2>3. ~mem'.dirty[a]
    BY <1>5
  <2> QED BY <2>2, <2>3 DEF Fit
<1> QED BY <1>6, <1>9, <1>11, <1>12, SteadyArrives

(* The dirty flag of the record at work.                                   *)
LEMMA SetDirtyArrives ==
  ASSUME NEW S, NEW G, NEW B, NEW P, NEW U, NEW S2, NEW G2, NEW B2, NEW P2, NEW U2,
         Arriving(S, G, B, P, U, S2, G2, B2, P2, U2), NEW a \in Range(S), a = op.addr,
         NEW b \in BOOLEAN, Commit(setDirtyLog(a, b)),
         \/ Phase(op) = "dirty" /\ Phase(op') = "setList" /\ op'.addr = a
         \/ Phase(op) = "sync" /\ Phase(op') = "synced" /\ op'.addr = a /\ b = FALSE
  PROVE  Arrives(S2, P2)
<1>1. /\ Shape(mem) /\ Spot(mem, S, "setHead", "setTail", "setNext", "setPrev")
      /\ mem["dirty"] \in [Addr -> BOOLEAN] /\ a \in Addr /\ Knows(mem, op)
      /\ \A x \in Range(S) : Fit(mem, S, P, op, x)
  BY ArrivingOf
<1>2. PICK n : DirtySet(n, a, b)
  BY <1>1, SetDirtyMakes
<1>3. mem' = n
  BY <1>2, CommitMakes DEF DirtySet
<1>4. Touches(mem, mem', {"dirtyCount", "dirty"}, {a}) /\ mem'["dirty"] = [mem["dirty"] EXCEPT ![a] = b]
  BY <1>2, <1>3 DEF DirtySet
<1>5. /\ mem'["dirtyTail"] = mem["dirtyTail"] /\ mem'["setHead"] = mem["setHead"]
      /\ mem'["setNext"] = mem["setNext"] /\ mem'["onlyKey"] = mem["onlyKey"]
  <2>1. \A f \in {"dirtyTail", "setHead", "setNext", "onlyKey"} : f \in Fields /\ f \notin {"dirtyCount", "dirty"}
    BY FieldNames DEF Fields, HeadFields
  <2> QED BY <1>4, <2>1, Unaltered
<1>6. \A x \in Range(S) : DataIn(mem', P2[x]) = DataIn(mem, P[x])
  <2>1. {"dirtyCount", "dirty"} \subseteq OrderFields \cup CountFields \cup {"dirty", "usedChunk"}
    BY DEF CountFields
  <2>2. DataKept(mem, mem')
    BY <1>4, <2>1, TouchesQuietly
  <2> QED BY <2>2, ArrivingOf, QuietData
<1>7. LeftAlone(S, P, P2, a)
  <2>1. \A x \in Range(S) : x # a => mem'["dirty"][x] = mem["dirty"][x]
    BY <1>4
  <2> QED BY <1>5, <1>6, <2>1 DEF LeftAlone
<1>8. mem'["dirty"][a] = b
  BY <1>1, <1>4
<1> HIDE DEF Phase
<1>9. Holds(op, op', a)
  BY HoldsWhen
<1>10. Knows(mem', op')
  BY <1>8 DEF Knows
<1>11. Fit(mem', S, P2, op', a)
  <2>1. a \notin Empty(op)
    BY DEF Empty, Fresh
  <2>2. DataIn(mem', P2[a]) \in Values \cup {"onlyKey"}
    BY <1>1, <1>6, <2>1 DEF Fit
  <2>3. CASE Phase(op) = "dirty" /\ Phase(op') = "setList" /\ op'.addr = a
    <3>1. ~mem'.onlyKey[a]
      BY <1>1, <1>5, <2>3 DEF Knows
    <3>2. a \in Loose(op')
      BY <2>3 DEF Loose
    <3> QED BY <2>2, <3>1, <3>2 DEF Fit
  <2>4. CASE Phase(op) = "sync" /\ Phase(op') = "synced" /\ op'.addr = a /\ b = FALSE
    <3>1. ~mem'.dirty[a]
      BY <1>8, <2>4
    <3> QED BY <2>2, <3>1 DEF Fit
  <2> QED BY <2>3, <2>4
<1> QED BY <1>7, <1>9, <1>10, <1>11, UntouchedArrives

(* setDirty, as a part of set and as an operation.                         *)
LEMMA SetDirtyFlagArrives ==
  ASSUME NEW S, NEW G, NEW B, NEW P, NEW U, NEW S2, NEW G2, NEW B2, NEW P2, NEW U2,
         Arriving(S, G, B, P, U, S2, G2, B2, P2, U2), setDirtyFlag
  PROVE  Arrives(S2, P2)
<1>1. /\ DOMAIN op = DOMAIN Idle /\ op.pc = "dirty" /\ Phase(op) = "dirty"
      /\ Working(op, S, P, crashed, calls)
  BY ArrivingOf DEF setDirtyFlag
<1>2. op.addr \in Range(S) /\ op.dirty \in BOOLEAN
  BY <1>1, AtWork DEF AtRecord
<1>3. Commit(setDirtyLog(op.addr, op.dirty)) /\ op' = [op EXCEPT !.pc = "setList"]
  BY DEF setDirtyFlag, Become
<1>4. op'.pc = "setList" /\ op'.addr = op.addr
  BY <1>1, <1>3, OperationFields
<1>5. Phase(op') = "setList"
  BY <1>4, PhaseIs
<1>6. PICK a \in Range(S), b \in BOOLEAN : a = op.addr /\ b = op.dirty
  BY <1>2
<1> HIDE DEF Phase
<1> QED BY <1>1, <1>3, <1>4, <1>5, <1>6, SetDirtyArrives

(* sync and the return of its callback.                                    *)
LEMMA SyncArrives ==
  ASSUME NEW S, NEW G, NEW B, NEW P, NEW U, NEW S2, NEW G2, NEW B2, NEW P2, NEW U2,
         Arriving(S, G, B, P, U, S2, G2, B2, P2, U2), sync \/ synced
  PROVE  Arrives(S2, P2)
<1>1. /\ DOMAIN op = DOMAIN Idle /\ op.pc \in {"sync", "synced"} /\ Phase(op) = op.pc
      /\ Working(op, S, P, crashed, calls) /\ Knows(mem, op) /\ Before(S, G, B, P, U)
      /\ \A x \in Range(S) : Fit(mem, S, P, op, x)
  BY ArrivingOf DEF sync, synced
<1>2. op.addr \in Range(S)
  BY <1>1, AtWork DEF AtRecord
<1>3. PICK a \in Range(S) : a = op.addr
  BY <1>2
<1>4. CASE Commit(TailPast(a)) /\ op' = Idle /\ ~mem.dirty[a]
  BY <1>1, <1>4, TailPastArrives
<1>5. CASE synced
  <2>1. op.pc = "synced" /\ Commit(TailPast(a)) /\ op' = Idle
    BY <1>3, <1>5 DEF synced
  <2>2. ~mem.dirty[a]
    BY <1>1, <1>3, <2>1 DEF Knows
  <2> QED BY <1>4, <2>1, <2>2
<1>6. CASE sync
  <2>0. op.pc = "sync" /\ Phase(op) = "sync"
    BY <1>1, <1>6 DEF sync
  <2>1. CASE ~mem.dirty[a] \/ Data(a) \in {"error", "onlyKey"}
    <3>1. Commit(TailPast(a)) /\ op' = Idle
      BY <1>3, <1>6, <2>1 DEF sync
    <3>2. ASSUME Data(a) \in {"error", "onlyKey"} PROVE ~mem.dirty[a]
      <4>0. Chains(mem, S, P) /\ TypedValues(mem) /\ a \in Addr
        BY <1>1, PartsOf DEF Before
      <4>1. /\ Chains(mem, S, P) /\ TypedValues(mem) /\ a \in Addr /\ P[a][1] = a
        BY <4>0 DEF Chains
      <4>2. Data(a) = DataIn(mem, P[a])
        BY <4>1, DataFound
      <4>3. a \notin Empty(op)
        BY <2>0 DEF Empty, Fresh
      <4>4. DataIn(mem, P[a]) \in Values \cup {"onlyKey"}
        BY <1>1, <4>3 DEF Fit
      <4>5. mem.val[P[a][1]] \in Values \cup {None, Torn}
        BY <4>1 DEF TypedValues
      <4>6. mem.onlyKey[P[a][1]]
        BY <3>2, <4>2, <4>4, <4>5, OnlyKeyRead
      <4> QED BY <1>1, <4>1, <4>6 DEF Fit
    <3> QED BY <1>4, <2>1, <3>1, <3>2
  <2>2. CASE ~(~mem.dirty[a] \/ Data(a) \in {"error", "onlyKey"})
    <3>1. \/ Commit(setDirtyLog(a, FALSE)) /\ op' = [op EXCEPT !.pc = "synced"]
          \/ op' = Idle /\ mem' = mem
      BY <1>3, <1>6, <2>2 DEF sync, Become
    <3>2. CASE Commit(setDirtyLog(a, FALSE)) /\ op' = [op EXCEPT !.pc = "synced"]
      <4>1. op'.pc = "synced" /\ op'.addr = a
        BY <1>1, <1>3, <3>2, OperationFields
      <4>2. Phase(op') = "synced"
        BY <4>1, PhaseIs
      <4>3. PICK b \in BOOLEAN : b = FALSE
        OBVIOUS
      <4> HIDE DEF Phase
      <4>4. Commit(setDirtyLog(a, b))
        BY <3>2, <4>3
      <4> QED BY <1>3, <2>0, <4>1, <4>2, <4>3, <4>4, SetDirtyArrives
    <3>3. CASE op' = Idle /\ mem' = mem
      <4>1. Phase(op') = "idle"
        BY <3>3, IdleIs
      <4> HIDE DEF Phase
      <4>2. Holds(op, op', 0) /\ Knows(mem, op')
        BY <2>0, <4>1, HoldsWhen, KnowsWhen
      <4> QED BY <3>3, <4>2, NothingArrives
    <3> QED BY <3>1, <3>2, <3>3
  <2> QED BY <2>1, <2>2
<1> QED BY <1>5, <1>6

(* What comes before another block, once the one at p is in front.         *)
LEMMA AheadToHead ==
  ASSUME NEW s, NEW nx, NEW pv, DList(s, nx, pv), NEW p \in 1 .. Len(s)
  PROVE  /\ \A x, y : Ahead(s, x, y) /\ x # s[p] /\ y # s[p] => Ahead(ToHead(s, p), x, y)
         /\ \A y \in Range(s) : Ahead(ToHead(s, p), s[p], y)
         /\ p = 1 => ToHead(s, p) = s
<1> DEFINE t == Without(s, p)
           a == s[p]
<1>1. t \in Seq(Addr) /\ Range(t) = Range(s) \ {a} /\ a \in Addr /\ a \in Range(s)
  BY WithoutOf
<1>2. CASE p = 1
  <2>1. ToHead(s, p) = s
    BY <1>2 DEF ToHead
  <2>2. ASSUME NEW y \in Range(s) PROVE Ahead(s, a, y)
    <3>1. PICK j \in 1 .. Len(s) : s[j] = y
      BY Sides
    <3>2. 1 \in 1 .. Len(s) /\ 1 <= j
      BY <1>2
    <3> QED BY <1>2, <3>1, <3>2 DEF Ahead
  <2> QED BY <2>1, <2>2
<1>3. CASE p # 1
  <2>1. ToHead(s, p) = Headed(a, t)
    BY <1>3 DEF ToHead
  <2>2. \A x, y : Ahead(s, x, y) /\ x # a /\ y # a => Ahead(t, x, y)
    BY AheadWithout
  <2> HIDE DEF t, a
  <2>3. /\ \A x, y : Ahead(t, x, y) => Ahead(Headed(a, t), x, y)
        /\ \A y \in Range(t) \cup {a} : Ahead(Headed(a, t), a, y)
    BY <1>1, AheadHeaded
  <2>4. Range(s) = Range(t) \cup {a}
    BY <1>1
  <2> QED BY <1>3, <2>1, <2>2, <2>3, <2>4 DEF a
<1> QED BY <1>2, <1>3

(* What refreshSetList makes of the order.                                 *)
LEMMA SetRefreshedSteady ==
  ASSUME NEW S, Spot(mem, S, "setHead", "setTail", "setNext", "setPrev"), NEW p \in 1 .. Len(S),
         NEW n, SetRefreshed(n, S, p), DirtyTail \in Range(S) \cup {0}, 0 \notin Range(S)
  PROVE  /\ Seen(n, ToHead(S, p), S[p])
         /\ \A x : Seen(mem, S, x) /\ x # S[p] => Seen(n, ToHead(S, p), x)
<1> DEFINE a == S[p]
           pv == mem["setPrev"]
<1>1. DList(S, mem["setNext"], pv)
  BY DEF Spot
<1>2. a \in Range(S) /\ (p # 1 => pv[a] \in Range(S))
  BY <1>1, Sides
<1>3. n["dirtyTail"][0] = IF DirtyTail = 0 THEN a
                          ELSE IF DirtyTail = a /\ p # 1 THEN pv[a] ELSE DirtyTail
  BY DEF SetRefreshed
<1>4. /\ \A x, y : Ahead(S, x, y) /\ x # a /\ y # a => Ahead(ToHead(S, p), x, y)
      /\ \A y \in Range(S) : Ahead(ToHead(S, p), a, y)
      /\ p = 1 => ToHead(S, p) = S
  BY <1>1, AheadToHead
<1> HIDE DEF a, pv
<1>5. Seen(n, ToHead(S, p), a)
  BY <1>2, <1>3, <1>4 DEF Seen
<1>6. ASSUME NEW x, Seen(mem, S, x), x # a PROVE Seen(n, ToHead(S, p), x)
  <2>1. DirtyTail # 0 /\ Ahead(S, x, DirtyTail)
    BY <1>6 DEF Seen, DirtyTail
  <2>2. DirtyTail = a => pv[a] # 0 /\ Ahead(S, x, pv[a]) /\ pv[a] # a
    BY <1>1, <1>6, <2>1, AheadPrev
  <2>3. CASE DirtyTail = a /\ p # 1
    BY <1>3, <1>4, <1>6, <2>1, <2>2, <2>3 DEF Seen
  <2>4. CASE DirtyTail = a /\ p = 1
    BY <1>3, <1>4, <1>6, <2>1, <2>4 DEF Seen
  <2>5. CASE DirtyTail # a
    BY <1>3, <1>4, <1>6, <2>1, <2>5 DEF Seen
  <2> QED BY <2>3, <2>4, <2>5
<1> QED BY <1>5, <1>6 DEF a

(* refreshSetList.                                                         *)
LEMMA RefreshSetArrives ==
  ASSUME NEW S, NEW G, NEW B, NEW P, NEW U, NEW S2, NEW G2, NEW B2, NEW P2, NEW U2,
         Arriving(S, G, B, P, U, S2, G2, B2, P2, U2), refreshSetList
  PROVE  Arrives(S2, P2)
<1>1. /\ DOMAIN op = DOMAIN Idle /\ op.pc = "setList" /\ Phase(op) = "setList"
      /\ Working(op, S, P, crashed, calls) /\ Shape(mem)
      /\ Spot(mem, S, "setHead", "setTail", "setNext", "setPrev")
      /\ Spot(mem', S2, "setHead", "setTail", "setNext", "setPrev")
      /\ WholeMap(S, G, B, P, U) /\ 0 \notin Range(S) /\ Listing(S, G)
      /\ \A x \in Range(S) : Fit(mem, S, P, op, x)
  BY ArrivingOf DEF refreshSetList
<1>2. op.addr \in Range(S)
  BY <1>1, AtWork DEF AtRecord
<1>3. PICK p \in 1 .. Len(S) : S[p] = op.addr
  BY <1>1, <1>2, PrevInList
<1>4. PICK a \in Range(S) : a = op.addr
  BY <1>2
<1>5. PICK n : SetRefreshed(n, S, p)
  BY <1>1, RefreshSetMakes
<1>6. Commit(refreshSetListLog(a)) /\ op' = [op EXCEPT !.pc = "getList"]
  BY <1>4 DEF refreshSetList, Become
<1>7. mem' = n
  <2>1. Makes(refreshSetListLog(a), mem, n)
    BY <1>3, <1>4, <1>5 DEF SetRefreshed
  <2> QED BY <1>6, <2>1, CommitMakes
<1>8. S2 = ToHead(S, p)
  <2>1. Spot(n, ToHead(S, p), "setHead", "setTail", "setNext", "setPrev")
    BY <1>5 DEF SetRefreshed
  <2> QED BY <1>1, <1>7, <2>1, OneSetList
<1>9. DirtyTail \in Range(S) \cup {0}
  BY <1>1, PartsOf DEF Cursors, DirtyTail
<1>10. Seen(mem', S2, a) /\ \A x : Seen(mem, S, x) /\ x # a => Seen(mem', S2, x)
  BY <1>1, <1>3, <1>4, <1>5, <1>7, <1>8, <1>9, SetRefreshedSteady
<1>11. DataKept(mem, mem')
  BY <1>1, <1>6, SetListIsQuiet
<1>12. Range(S2) = Range(S) /\ \A b \in Range(S) : DataIn(mem', P2[b]) = DataIn(mem, P[b])
  BY <1>11, ArrivingOf, QuietData
<1>13. mem'["dirty"] = mem["dirty"] /\ mem'["onlyKey"] = mem["onlyKey"]
  <2>1. Touches(mem, mem', SetFields \cup CursorFields, Range(S))
    BY <1>5, <1>7 DEF SetRefreshed
  <2>2. \A f \in {"dirty", "onlyKey"} : f \in Fields /\ f \notin SetFields \cup CursorFields
    BY FieldNames DEF Fields, BlockFields, SetFields, CursorFields
  <2> QED BY <2>1, <2>2, Unaltered
<1>14. op'.pc = "getList"
  BY <1>1, <1>6, OperationFields
<1>15. Phase(op') = "getList"
  BY <1>14, PhaseIs
<1> HIDE DEF Phase
<1>16. Holds(op, op', a) /\ Knows(mem', op')
  BY <1>4, <1>15, HoldsWhen, KnowsWhen
<1>17. Steady(mem, mem', S, S2, P, P2, a)
  BY <1>10, <1>12, <1>13 DEF Steady
<1>18. Fit(mem', S2, P2, op', a)
  <2>1. a \notin Empty(op)
    BY <1>1 DEF Empty, Fresh
  <2>2. DataIn(mem', P2[a]) \in Values \cup {"onlyKey"}
    BY <1>1, <1>12, <2>1 DEF Fit
  <2>3. ~(mem'.onlyKey[a] /\ mem'.dirty[a])
    BY <1>1, <1>13 DEF Fit
  <2> QED BY <1>10, <2>2, <2>3 DEF Fit
<1> QED BY <1>16, <1>17, <1>18, SteadyArrives

(* refreshGetList.                                                         *)
LEMMA RefreshGetArrives ==
  ASSUME NEW S, NEW G, NEW B, NEW P, NEW U, NEW S2, NEW G2, NEW B2, NEW P2, NEW U2,
         Arriving(S, G, B, P, U, S2, G2, B2, P2, U2), refreshGetList
  PROVE  Arrives(S2, P2)
<1>1. /\ DOMAIN op = DOMAIN Idle /\ op.pc = "getList" /\ Phase(op) = "getList"
      /\ Working(op, S, P, crashed, calls)
  BY ArrivingOf DEF refreshGetList
<1>2. op.addr \in Range(S)
  BY <1>1, AtWork DEF AtRecord
<1>3. PICK a \in Range(S) : a = op.addr
  BY <1>2
<1>4. Commit(refreshGetListLog(a)) /\ op' = [op EXCEPT !.pc = "return", !.res = "ok"]
  BY <1>3 DEF refreshGetList
<1>5. op'.pc = "return"
  BY <1>1, <1>4, OperationFields
<1>6. Phase(op') = "return"
  BY <1>5, PhaseIs
<1> HIDE DEF Phase
<1>7. Holds(op, op', 0) /\ \A m : Knows(m, op')
  BY <1>1, <1>6, HoldsWhen, KnowsWhen
<1> QED BY <1>4, <1>7, GetListArrives

-----------------------------------------------------------------------------
(* Nothing is read but these fields.                                       *)
LEMMA SameReads ==
  ASSUME NEW m, NEW n, \A f \in {"nextChunk", "len", "key", "val", "onlyKey"} : n[f] = m[f]
  PROVE  \A s : DataIn(n, s) = DataIn(m, s)
<1>1. /\ n["nextChunk"] = m["nextChunk"] /\ n["len"] = m["len"] /\ n["key"] = m["key"]
      /\ n["val"] = m["val"] /\ n["onlyKey"] = m["onlyKey"]
  OBVIOUS
<1> QED BY ONLY <1>1 DEF DataIn, Readable

(* A record is erased.                                                     *)
LEMMA EraseArrives ==
  ASSUME NEW S, NEW G, NEW B, NEW P, NEW U, NEW S2, NEW G2, NEW B2, NEW P2, NEW U2,
         Arriving(S, G, B, P, U, S2, G2, B2, P2, U2), NEW a \in Range(S), Commit(eraseLog(a)),
         Holds(op, op', a), \A m : Knows(m, op')
  PROVE  Arrives(S2, P2)
<1>1. /\ WholeMap(S, G, B, P, U) /\ Shape(mem) /\ Before(S, G, B, P, U)
      /\ After(S2, G2, B2, P2, U2)
      /\ Spot(mem, S, "setHead", "setTail", "setNext", "setPrev")
      /\ Spot(mem', S2, "setHead", "setTail", "setNext", "setPrev")
  BY ArrivingOf
<1>2. DList(S, mem["setNext"], mem["setPrev"])
  BY <1>1 DEF Spot
<1>3. PICK p \in 1 .. Len(S) : S[p] = a
  BY <1>1, PrevInList
<1>4. Lists(mem, S, G, B)
  BY <1>1, PartsOf
<1>5. PICK n, q, r : Erased(n, S, G, B, p, q, r)
  BY <1>1, <1>4, EraseMakes
<1>6. mem' = n
  <2>1. Makes(eraseLog(a), mem, n)
    BY <1>3, <1>5 DEF Erased
  <2> QED BY <2>1, CommitMakes
<1>7. /\ Spot(mem', Without(S, p), "setHead", "setTail", "setNext", "setPrev")
      /\ Touches(mem, mem', EraseFields, Range(S))
      /\ mem'["dirtyTail"][0] = IF DirtyTail = a THEN mem["setPrev"][a] ELSE DirtyTail
  BY <1>3, <1>5, <1>6 DEF Erased, Lists
<1>8. S2 = Without(S, p)
  BY <1>1, <1>7, OneSetList
<1>9. Loses(a, S, P, S2, P2)
  BY <1>1, EraseSees
<1>10. /\ Range(S2) = Range(S) \ {a} /\ \A b \in Range(S2) : P2[b] = P[b]
       /\ \A f \in {"nextChunk", "len", "key", "val", "onlyKey", "index"} : mem'[f] = mem[f]
  BY <1>9 DEF Loses
<1>11. \A b \in Range(S2) : DataIn(mem', P2[b]) = DataIn(mem, P[b])
  BY <1>10, SameReads
<1>12. mem'["dirty"] = mem["dirty"] /\ mem'["onlyKey"] = mem["onlyKey"]
  <2>1. "dirty" \in Fields /\ "dirty" \notin EraseFields
    BY FieldNames DEF Fields, BlockFields, EraseFields, SetFields, GetFields, UnlinkFields,
       BucketFields, CursorFields, CountFields
  <2>2. mem'["dirty"] = mem["dirty"]
    BY <1>7, <2>1, Unaltered
  <2> QED BY <1>10, <2>2
<1>13. ASSUME NEW x \in Range(S2), Seen(mem, S, x) PROVE Seen(mem', S2, x)
  <2>1. DirtyTail # 0 /\ Ahead(S, x, DirtyTail) /\ x # a
    BY <1>10, <1>13 DEF Seen, DirtyTail
  <2>2. DirtyTail = a =>
          mem["setPrev"][a] # 0 /\ Ahead(S, x, mem["setPrev"][a]) /\ mem["setPrev"][a] # a
    BY <1>2, <2>1, AheadPrev
  <2>3. PICK y : y # 0 /\ y # a /\ Ahead(S, x, y) /\ mem'["dirtyTail"][0] = y
    BY <1>7, <2>1, <2>2
  <2>4. Ahead(S2, x, y)
    BY <1>2, <1>3, <1>8, <2>1, <2>3, AheadWithout
  <2> QED BY <2>3, <2>4 DEF Seen
<1>14. Steady(mem, mem', S, S2, P, P2, a)
  BY <1>10, <1>11, <1>12, <1>13 DEF Steady
<1>15. a \notin Range(S2)
  BY <1>10
<1> QED BY <1>14, <1>15, SteadyArrives

(* Another record is evicted, or none.                                     *)
LEMMA EvictionArrives ==
  ASSUME NEW S, NEW G, NEW B, NEW P, NEW U, NEW S2, NEW G2, NEW B2, NEW P2, NEW U2,
         Arriving(S, G, B, P, U, S2, G2, B2, P2, U2), eraseExcept
  PROVE  Arrives(S2, P2)
<1> DEFINE a == Victim
           c == Counted(a)
           r == IF op.fresh /\ op.back = "chunk" THEN "undo" ELSE "return"
<1>1. /\ DOMAIN op = DOMAIN Idle /\ WholeMap(S, G, B, P, U) /\ Knows(mem, op)
      /\ Working(op, S, P, crashed, calls) /\ op.pc = "evict" /\ Listing(S, G)
  BY ArrivingOf DEF eraseExcept
<1>2. CASE ~(AutoErase /\ op.n # 0 /\ a # 0)
  <2>1. /\ mem' = mem
        /\ op' = IF AutoErase /\ op.n # EraseCount THEN [op EXCEPT !.pc = op.back]
                 ELSE Releasing([op EXCEPT !.chunks = <<>>, !.res = "noMemory"], op.chunks, r)
    BY <1>2 DEF eraseExcept
  <2> HIDE DEF a
  <2>2. \/ op' = [op EXCEPT !.pc = op.back]
        \/ op' = Releasing([op EXCEPT !.chunks = <<>>, !.res = "noMemory"], op.chunks, r)
    BY <2>1
  <2> QED BY <1>1, <2>1, <2>2, EvictedArrives
<1>3. CASE AutoErase /\ op.n # 0 /\ a # 0
  <2>1. Phase(op) = op.back /\ op.back \in {"block", "chunk"}
    BY <1>1, PhaseIs DEF Working
  <2> HIDE DEF Phase
  <2>2. op.back = "chunk" => op.addr \in Range(S)
    BY <1>1, <2>1 DEF Working, AtRecord
  <2>3. a \in Range(S)
    BY <1>1, <1>3, <2>2, VictimIsOther
  <2>4. Commit(eraseLog(a)) /\ \E i, t : op' = Releasing([op EXCEPT !.n = i], t, "evict")
    <3>1. Erase(a, [op EXCEPT !.n = IF c THEN @ - 1 ELSE @], "evict")
      BY <1>3 DEF eraseExcept
    <3> HIDE DEF a, c
    <3> QED BY <3>1 DEF Erase
  <2> HIDE DEF a
  <2>5. /\ op'.addr = op.addr /\ op'.fresh = op.fresh
        /\ op'.back = op.back /\ (op'.pc = "evict" \/ (op'.pc = "release" /\ op'.ret = "evict"))
    BY <1>1, <2>4, OperationFields DEF SameTask, Releasing
  <2>6. Phase(op') = Phase(op)
    BY <2>1, <2>5, PhaseIs
  <2>7. Holds(op, op', a)
    BY <2>5, <2>6, HoldsWhen
  <2>8. \A m : Knows(m, op')
    BY <1>1, <2>1, <2>5, <2>6 DEF Knows
  <2> QED BY <2>3, <2>4, <2>7, <2>8, EraseArrives
<1> QED BY <1>2, <1>3

(* The new record is undone.                                               *)
LEMMA UndoArrives ==
  ASSUME NEW S, NEW G, NEW B, NEW P, NEW U, NEW S2, NEW G2, NEW B2, NEW P2, NEW U2,
         Arriving(S, G, B, P, U, S2, G2, B2, P2, U2), undoNew
  PROVE  Arrives(S2, P2)
<1>1. /\ DOMAIN op = DOMAIN Idle /\ op.pc = "undo" /\ Phase(op) = "undo"
      /\ Working(op, S, P, crashed, calls)
  BY ArrivingOf DEF undoNew
<1>2. op.addr \in Range(S)
  BY <1>1, AtWork DEF AtRecord
<1>3. PICK a \in Range(S) : a = op.addr
  BY <1>2
<1>4. Commit(eraseLog(a)) /\ \E t : op' = Releasing(op, t, "return")
  BY <1>3 DEF undoNew, Erase
<1>5. op'.pc = "return" \/ (op'.pc = "release" /\ op'.ret = "return")
  BY <1>1, <1>4, OperationFields DEF Releasing
<1>6. Phase(op') = "return"
  BY <1>5, PhaseIs
<1> HIDE DEF Phase
<1>7. Holds(op, op', a) /\ \A m : Knows(m, op')
  BY <1>3, <1>6, HoldsWhen, KnowsWhen
<1> QED BY <1>4, <1>7, EraseArrives

(* An operation that begins with dropping a record.                        *)
LEMMA DropArrives ==
  ASSUME NEW S, NEW G, NEW B, NEW P, NEW U, NEW S2, NEW G2, NEW B2, NEW P2, NEW U2,
         Arriving(S, G, B, P, U, S2, G2, B2, P2, U2), Begin, NEW a \in Range(S),
         NEW name, NEW k, Erase(a, Start(name, k), "return")
  PROVE  Arrives(S2, P2)
<1>1. op = Idle
  BY ArrivingOf DEF Begin
<1>2. Commit(eraseLog(a)) /\ \E t : op' = Releasing(Start(name, k), t, "return")
  BY DEF Erase
<1>3. op'.pc = "return" \/ (op'.pc = "release" /\ op'.ret = "return")
  BY <1>2 DEF Start, Releasing, Idle
<1>4. Phase(op') = "return" /\ Phase(op) = "idle"
  BY <1>1, <1>3, PhaseIs, IdleIs
<1> HIDE DEF Phase
<1>5. Holds(op, op', a) /\ \A m : Knows(m, op')
  BY <1>4, HoldsWhen, KnowsWhen
<1> QED BY <1>2, <1>5, EraseArrives

(* erase(true) of a record that is dirty.                                  *)
LEMMA KeepDirtyArrives ==
  ASSUME NEW S, NEW G, NEW B, NEW P, NEW U, NEW S2, NEW G2, NEW B2, NEW P2, NEW U2,
         Arriving(S, G, B, P, U, S2, G2, B2, P2, U2), op = Idle, op' = op,
         NEW a \in Range(S), a = GetTail, mem["dirty"][a], Commit(KeepDirtyLog(a))
  PROVE  Arrives(S2, P2)
<1>1. /\ Listing(S, G) /\ Shape(mem) /\ WholeMap(S, G, B, P, U)
      /\ \A x \in Range(S) : Fit(mem, S, P, op, x)
  BY ArrivingOf
<1>2. Phase(op) = "idle"
  BY IdleIs
<1> HIDE DEF Phase
<1>3. DirtyTail # 0
  <2>1. a \notin Loose(op)
    BY <1>2 DEF Loose, Fresh
  <2>2. Seen(mem, S, a)
    BY <1>1, <2>1 DEF Fit
  <2> QED BY <2>2 DEF Seen, DirtyTail
<1>4. Holds(op, op', 0) /\ Knows(mem', op')
  BY <1>2, HoldsWhen, KnowsWhen
<1>5. GetTail # 0
  BY ArrivingOf
<1>6. G # <<>> /\ GetTail = G[Len(G)]
  BY <1>1, <1>5, PrevInList DEF Listing, GetTail
<1>7. PICK n : DirtyKept(n, G)
  BY <1>1, <1>6, KeepDirtyMakes DEF Listing
<1>8. mem' = n
  <2>1. Makes(KeepDirtyLog(a), mem, n)
    BY <1>6, <1>7 DEF DirtyKept
  <2> QED BY <2>1, CommitMakes
<1>9. Touches(mem, mem', GetFields \cup CursorFields, Range(G)) /\ mem'["dirtyTail"][0] = DirtyTail
  BY <1>3, <1>7, <1>8 DEF DirtyKept
<1> QED BY <1>4, <1>9, GetFieldsArrive

(* The operations that drop a record, and erase of a dirty one.            *)
LEMMA DroppersArrive ==
  ASSUME NEW S, NEW G, NEW B, NEW P, NEW U, NEW S2, NEW G2, NEW B2, NEW P2, NEW U2,
         Arriving(S, G, B, P, U, S2, G2, B2, P2, U2),
         \/ \E k \in Keys : del(k)
         \/ \E check \in BOOLEAN : erase(check)
         \/ \E i \in Index : recover(i)
  PROVE  Arrives(S2, P2)
<1>1. WholeMap(S, G, B, P, U) /\ Listing(S, G) /\ Lists(mem, S, G, B)
  BY ArrivingOf, PartsOf
<1>2. ASSUME NEW k \in Keys, del(k) PROVE Arrives(S2, P2)
  <2>1. Begin /\ findValue(k) \in Addr /\ Erase(findValue(k), Start("del", k), "return")
    BY <1>2 DEF del
  <2>2. findValue(k) \in Range(S)
    BY <1>1, <2>1, FindValueFinds
  <2> QED BY <2>1, <2>2, DropArrives
<1>3. ASSUME NEW check \in BOOLEAN, erase(check) PROVE Arrives(S2, P2)
  <2>1. Begin /\ GetTail # 0
    BY <1>3 DEF erase
  <2>2. GetTail \in Range(S)
    BY <1>1, <2>1, CursorValues
  <2>3. CASE check /\ mem.dirty[GetTail]
    <3>1. Commit(KeepDirtyLog(GetTail)) /\ op' = op
      BY <1>3, <2>3 DEF erase, KeepDirtyLog
    <3>2. op = Idle
      BY <2>1, ArrivingOf DEF Begin
    <3> QED BY <2>2, <2>3, <3>1, <3>2, KeepDirtyArrives
  <2>4. CASE ~(check /\ mem.dirty[GetTail])
    <3>1. Erase(GetTail, Start("erase", None), "return")
      BY <1>3, <2>4 DEF erase
    <3> QED BY <2>1, <2>2, <3>1, DropArrives
  <2> QED BY <2>3, <2>4
<1>4. ASSUME NEW i \in Index, recover(i) PROVE Arrives(S2, P2)
  <2>1. /\ Begin
        /\ Erase(Chained(i)[Min(Unreadable(i))], Start("recover", None), "return")
    BY <1>4 DEF recover
  <2>2. Chained(i)[Min(Unreadable(i))] \in Range(S)
    BY <1>1, <1>4, RecoveredIsRecord DEF recover
  <2> QED BY <2>1, <2>2, DropArrives
<1> QED BY <1>2, <1>3, <1>4

(* A record is made.                                                       *)
LEMMA MakeNewArrives ==
  ASSUME NEW S, NEW G, NEW B, NEW P, NEW U, NEW S2, NEW G2, NEW B2, NEW P2, NEW U2,
         Arriving(S, G, B, P, U, S2, G2, B2, P2, U2), makeNew
  PROVE  Arrives(S2, P2)
<1> DEFINE a == op.addr
<1>1. /\ WholeMap(S, G, B, P, U) /\ Shape(mem) /\ Before(S, G, B, P, U)
      /\ After(S2, G2, B2, P2, U2) /\ DOMAIN op = DOMAIN Idle
      /\ op.pc = "link" /\ Phase(op) = "link" /\ Working(op, S, P, crashed, calls)
      /\ Spot(mem', S2, "setHead", "setTail", "setNext", "setPrev")
      /\ Knows(mem, op) /\ S \in Seq(Addr) /\ mem["dirty"] \in [Addr -> BOOLEAN]
      /\ Range(S) \subseteq Addr
  BY ArrivingOf DEF makeNew
<1>2. Lists(mem, S, G, B) /\ Chains(mem, S, P) /\ Cursors(mem, S)
      /\ Places(mem, P, U, free, op, crashed)
  BY <1>1, PartsOf
<1>3. op.key \in Keys /\ a \in Addr /\ op.fresh
  BY <1>1 DEF Working, Phase, Making, Knows
<1>4. a \in Unlinked(op) /\ Blank(mem, a) /\ a \notin UsedIn(P)
  BY <1>1, <1>2 DEF Unlinked, Places
<1>5. a \notin Range(S)
  BY <1>2, <1>4, RecordsAreUsed
<1>6. Bucket[op.key] \in Index
  BY <1>3, HashMapAssumption DEF Index
<1>7. PICK n : NewMade(n, S, G, B, a, Bucket[op.key])
  BY <1>1, <1>2, <1>3, <1>4, <1>5, <1>6, NewMakes
<1>8. mem' = n
  <2>1. Makes(makeNewLog(a, Bucket[op.key]) \o Add("usedChunk", 0, 1), mem, n)
    BY <1>7 DEF NewMade
  <2>2. Commit(makeNewLog(a, Bucket[op.key]) \o Add("usedChunk", 0, 1))
    BY DEF makeNew
  <2> QED BY <2>1, <2>2, CommitMakes
<1>9. /\ Touches(mem, mem', MakeFields \cup {"usedChunk"}, Range(S) \cup {a})
      /\ mem'["dirty"] = [mem["dirty"] EXCEPT ![a] = TRUE]
      /\ Spot(mem', Headed(a, S), "setHead", "setTail", "setNext", "setPrev")
  BY <1>7, <1>8 DEF NewMade, Lists
<1>10. S2 = Headed(a, S)
  BY <1>1, <1>9, OneSetList
<1>11. Range(S2) = Range(S) \cup {a}
  BY <1>1, NewSees
<1>12. /\ \A f \in {"nextChunk", "len", "key", "val", "onlyKey"} : mem'[f] = mem[f]
       /\ mem'["dirtyTail"] = mem["dirtyTail"]
  <2>1. \A f \in {"nextChunk", "len", "key", "val", "onlyKey", "dirtyTail"} :
          f \in Fields /\ f \notin MakeFields \cup {"usedChunk"}
    BY FieldNames DEF MakeFields, SetFields, GetFields, BucketFields, NewFields, Fields, HeadFields
  <2> QED
    BY <1>9, <2>1, Unaltered
<1>13. \A b \in Range(S) : P2[b] = P[b]
  <2>1. Chains(mem', S2, P2)
    BY <1>1 DEF After, Whole
  <2> QED BY <1>2, <1>11, <1>12, <2>1, SameParts
<1>14. \A b \in Range(S) : DataIn(mem', P2[b]) = DataIn(mem, P[b])
  BY <1>12, <1>13, SameReads
<1>15. \A x : Seen(mem, S, x) => Seen(mem', S2, x)
  <2>1. \A x, y : Ahead(S, x, y) => Ahead(S2, x, y)
    BY <1>1, <1>3, <1>10, AheadHeaded
  <2> QED BY <1>12, <2>1 DEF Seen
<1>16. ASSUME NEW x \in Range(S) PROVE mem'["dirty"][x] = mem["dirty"][x]
  <2>1. x \in Addr /\ x # a
    BY <1>1, <1>5
  <2> HIDE DEF a
  <2> QED BY <1>1, <1>9, <2>1
<1>17. Steady(mem, mem', S, S2, P, P2, a)
  <2>1. ASSUME NEW x \in Range(S2), x # a
        PROVE  /\ x \in Range(S) /\ DataIn(mem', P2[x]) = DataIn(mem, P[x])
               /\ mem'.dirty[x] => mem.dirty[x]
               /\ mem'.onlyKey[x] => mem.onlyKey[x]
               /\ Seen(mem, S, x) => Seen(mem', S2, x)
    BY <1>11, <1>12, <1>14, <1>15, <1>16, <2>1
  <2> QED BY <2>1 DEF Steady
<1>18. op'.pc = "room" /\ op'.addr = a /\ op'.fresh
  <2>1. op' = [op EXCEPT !.pc = "room"]
    BY DEF makeNew, Become
  <2> QED BY <1>1, <1>3, <2>1, OperationFields
<1>19. Phase(op') = "room"
  BY <1>18, PhaseIs
<1> HIDE DEF Phase
<1>20. Holds(op, op', a) /\ Knows(mem', op')
  BY <1>1, <1>19, HoldsWhen, KnowsWhen
<1>21. Fit(mem', S2, P2, op', a)
  <2>1. a \in Loose(op') /\ a \in Empty(op')
    BY <1>18, <1>19 DEF Loose, Empty, Fresh
  <2>2. ~mem'.onlyKey[a]
    BY <1>4, <1>12, BlankBlock
  <2> QED BY <2>1, <2>2 DEF Fit
<1> HIDE DEF a
<1> QED BY <1>17, <1>20, <1>21, SteadyArrives

(* What allocate and join change is in the record at work.                 *)
LEMMA PartsArrive ==
  ASSUME NEW S, NEW G, NEW B, NEW P, NEW U, NEW S2, NEW G2, NEW B2, NEW P2, NEW U2,
         Arriving(S, G, B, P, U, S2, G2, B2, P2, U2), op.addr \in Range(S),
         Changes(S, P, S2, P2), mem'["dirty"] = mem["dirty"], mem'["onlyKey"] = mem["onlyKey"],
         op'.addr = op.addr, Phase(op') \in {"flags", "join"}
  PROVE  Arrives(S2, P2)
<1> HIDE DEF Phase
<1>1. PICK a \in Range(S) : a = op.addr
  OBVIOUS
<1>2. LeftAlone(S, P, P2, a)
  BY <1>1 DEF Changes
<1>3. Holds(op, op', a) /\ Knows(mem', op')
  BY <1>1, HoldsWhen, KnowsWhen
<1>4. Fit(mem', S, P2, op', a)
  <2>1. a \in Loose(op') /\ a \in Empty(op')
    BY <1>1 DEF Loose, Empty
  <2>2. Fit(mem, S, P, op, a)
    BY ArrivingOf
  <2>3. ~(mem'.onlyKey[a] /\ mem'.dirty[a])
    BY <2>2 DEF Fit
  <2> QED BY <2>1, <2>3 DEF Fit
<1> QED BY <1>2, <1>3, <1>4, UntouchedArrives

(* Block::allocate of a record.                                            *)
LEMMA AllocateArrives ==
  ASSUME NEW S, NEW G, NEW B, NEW P, NEW U, NEW S2, NEW G2, NEW B2, NEW P2, NEW U2,
         Arriving(S, G, B, P, U, S2, G2, B2, P2, U2), allocate
  PROVE  Arrives(S2, P2)
<1>1. /\ Before(S, G, B, P, U) /\ After(S2, G2, B2, P2, U2)
      /\ DOMAIN op = DOMAIN Idle /\ op.pc = "room" /\ Phase(op) = "room"
  BY ArrivingOf DEF allocate
<1>2. CASE Len(Chain(op.addr)) > Need
  <2>1. Changes(S, P, S2, P2) /\ mem'["dirty"] = mem["dirty"] /\ mem'["onlyKey"] = mem["onlyKey"]
    BY <1>1, <1>2, CutSees
  <2>2. \E t : op' = Releasing(op, t, "flags")
    BY <1>2 DEF allocate
  <2>3. /\ op'.addr = op.addr
        /\ op'.pc = "flags" \/ (op'.pc = "release" /\ op'.ret = "flags")
    BY <1>1, <2>2, OperationFields DEF Releasing
  <2>4. Phase(op') = "flags"
    BY <2>3, PhaseIs
  <2>5. op.addr \in Range(S)
    BY <1>1, OwnRecord
  <2> QED BY <2>1, <2>3, <2>4, <2>5, PartsArrive
<1>3. CASE ~(Len(Chain(op.addr)) > Need)
  <2>1. mem' = mem
    BY <1>3 DEF allocate
  <2>2. \E t \in {"flags", "chunk"} : op' = [op EXCEPT !.pc = t]
    BY <1>3 DEF allocate, Become
  <2>3. op'.addr = op.addr /\ op'.fresh = op.fresh /\ op'.pc \in {"flags", "chunk"}
    BY <1>1, <2>2, OperationFields
  <2>4. Phase(op') \in {"flags", "chunk"}
    BY <2>3, PhaseIs
  <2> HIDE DEF Phase
  <2>5. Knows(mem, op')
    BY <2>4, KnowsWhen
  <2>6. Holds(op, op', 0)
    BY <1>1, <2>3, <2>4, HoldsWhen
  <2> QED BY <2>1, <2>5, <2>6, NothingArrives
<1> QED BY <1>2, <1>3

(* The chunks are joined to the record.                                    *)
LEMMA JoinArrives ==
  ASSUME NEW S, NEW G, NEW B, NEW P, NEW U, NEW S2, NEW G2, NEW B2, NEW P2, NEW U2,
         Arriving(S, G, B, P, U, S2, G2, B2, P2, U2), joinChunk
  PROVE  Arrives(S2, P2)
<1>1. /\ Before(S, G, B, P, U) /\ After(S2, G2, B2, P2, U2)
      /\ DOMAIN op = DOMAIN Idle /\ op.pc = "join"
  BY ArrivingOf DEF joinChunk
<1>2. Changes(S, P, S2, P2) /\ mem'["dirty"] = mem["dirty"] /\ mem'["onlyKey"] = mem["onlyKey"]
  BY <1>1, JoinSees
<1>3. \E c, t : t \in {"flags", "join"} /\ op' = [op EXCEPT !.chunks = c, !.pc = t]
  BY DEF joinChunk
<1>4. op'.addr = op.addr /\ op'.pc \in {"flags", "join"}
  BY <1>1, <1>3, OperationFields
<1>5. Phase(op') \in {"flags", "join"}
  BY <1>4, PhaseIs
<1>6. op.addr \in Range(S)
  BY <1>1, OwnRecord
<1> QED BY <1>2, <1>4, <1>5, <1>6, PartsArrive

(* The flags of the record: it is no key alone that is dirty.              *)
LEMMA FlagsArrive ==
  ASSUME NEW S, NEW G, NEW B, NEW P, NEW U, NEW S2, NEW G2, NEW B2, NEW P2, NEW U2,
         Arriving(S, G, B, P, U, S2, G2, B2, P2, U2), flags
  PROVE  Arrives(S2, P2)
<1>1. /\ Before(S, G, B, P, U) /\ After(S2, G2, B2, P2, U2) /\ Shape(mem)
      /\ DOMAIN op = DOMAIN Idle /\ op.pc = "flags"
      /\ mem["dirty"] \in [Addr -> BOOLEAN] /\ Range(S) \subseteq Addr
  BY ArrivingOf DEF flags
<1>2. Changes(S, P, S2, P2) /\ mem'["onlyKey"][op.addr] = (op.val = None) /\ op.addr \in Range(S)
  BY <1>1, FlagsSee, OwnRecord
<1>3. PICK a \in Range(S) : a = op.addr
  BY <1>2
<1>4. ~(mem'.onlyKey[a] /\ mem'.dirty[a]) /\ (op.val # None => ~mem'.onlyKey[a])
  <2>1. mem' = [mem EXCEPT !.dirty[a] = ~(op.val = None), !.onlyKey[a] = (op.val = None)]
    BY <1>3 DEF flags
  <2>2. mem'["dirty"] = [mem["dirty"] EXCEPT ![a] = ~(op.val = None)]
    BY <1>1, <2>1, FieldNames DEF Shape
  <2>3. mem'["dirty"][a] <=> ~(op.val = None)
    BY <1>1, <2>2
  <2> QED BY <1>2, <1>3, <2>3
<1>5. \E l : op' = [op EXCEPT !.pc = "copy", !.n = 0, !.log = l]
  BY DEF flags
<1>6. op'.addr = op.addr /\ op'.pc = "copy" /\ op'.val = op.val
  BY <1>1, <1>5, OperationFields
<1>7. Phase(op') = "copy"
  BY <1>6, PhaseIs
<1> HIDE DEF Phase
<1>8. LeftAlone(S, P, P2, a)
  BY <1>2, <1>3 DEF Changes
<1>9. Holds(op, op', a)
  BY <1>3, HoldsWhen
<1>10. Knows(mem', op')
  BY <1>3, <1>4, <1>6, <1>7 DEF Knows
<1>11. Fit(mem', S, P2, op', a)
  <2>1. a \in Loose(op') /\ a \in Empty(op')
    BY <1>3, <1>6, <1>7 DEF Loose, Empty
  <2> QED BY <1>4, <2>1 DEF Fit
<1> QED BY <1>8, <1>9, <1>10, <1>11, UntouchedArrives

(* The copy of the data: when it is complete the record can be read.       *)
LEMMA CopyArrives ==
  ASSUME NEW S, NEW G, NEW B, NEW P, NEW U, NEW S2, NEW G2, NEW B2, NEW P2, NEW U2,
         Arriving(S, G, B, P, U, S2, G2, B2, P2, U2), copy
  PROVE  Arrives(S2, P2)
<1>1. /\ Before(S, G, B, P, U) /\ After(S2, G2, B2, P2, U2)
      /\ Stepping(S, G, B, P, U, S2, G2, B2, P2, U2)
      /\ DOMAIN op = DOMAIN Idle /\ op.pc = "copy" /\ Phase(op) = "copy" /\ Knows(mem, op)
      /\ \A x \in Range(S) : Fit(mem, S, P, op, x)
  BY ArrivingOf DEF copy
<1>2. op.addr \in Range(S) /\ op.val \in Values \cup {None}
  BY <1>1, OwnRecord
<1>3. PICK a \in Range(S) : a = op.addr
  BY <1>2
<1>4. /\ Changes(S, P, S2, P2) /\ P2[a] = P[a]
      /\ mem'["onlyKey"] = mem["onlyKey"] /\ mem'["dirty"] = mem["dirty"]
  BY <1>1, <1>3, CopySees
<1>5. op' = [op EXCEPT !.n = @ + 1, !.pc = IF op.n = Need THEN "count" ELSE "copy"]
  BY DEF copy
<1>6. op'.addr = a /\ op'.val = op.val /\ op'.pc = IF op.n = Need THEN "count" ELSE "copy"
  <2> HIDE DEF Need
  <2> QED BY <1>1, <1>3, <1>5, OperationFields
<1>7. Phase(op') = op'.pc
  BY <1>6, PhaseIs
<1> HIDE DEF Phase
<1>8. LeftAlone(S, P, P2, a)
  BY <1>3, <1>4 DEF Changes
<1>9. Holds(op, op', a)
  BY <1>3, HoldsWhen
<1>10. Knows(mem', op')
  BY <1>1, <1>3, <1>4, <1>6, <1>7 DEF Knows
<1>11. Fit(mem', S, P2, op', a)
  <2>1. a \in Loose(op') /\ (op.n # Need => a \in Empty(op'))
    BY <1>6, <1>7 DEF Loose, Empty
  <2>2. ~(mem'.onlyKey[a] /\ mem'.dirty[a])
    BY <1>1, <1>4 DEF Fit
  <2>3. ASSUME op.n = Need PROVE DataIn(mem', P2[a]) \in Values \cup {"onlyKey"}
    <3>1. DataIn(mem', P2[a]) = Stored(op.val)
      BY <1>1, <1>3, <1>4, <2>3, CopyStores
    <3> QED BY <1>2, <3>1 DEF Stored
  <2> HIDE DEF Need
  <2> QED BY <2>1, <2>2, <2>3 DEF Fit
<1> QED BY <1>8, <1>9, <1>10, <1>11, UntouchedArrives

(* Every step keeps the dirty records where they are found.                *)
LEMMA StepArrives ==
  ASSUME NEW S, NEW G, NEW B, NEW P, NEW U, NEW S2, NEW G2, NEW B2, NEW P2, NEW U2,
         Arriving(S, G, B, P, U, S2, G2, B2, P2, U2), Next, ~Crash
  PROVE  Arrives(S2, P2)
<1>1. ASSUME NEW k \in Keys, \/ \E v \in Values, d \in BOOLEAN : set(k, v, d)
                             \/ set(k, None, FALSE)
                             \/ get(k) \/ del(k)
                             \/ \E d \in BOOLEAN : markDirty(k, d)
      PROVE  Arrives(S2, P2)
  <2>1. CASE \E v \in Values, d \in BOOLEAN : set(k, v, d)
    BY <2>1, SetArrives
  <2>2. CASE set(k, None, FALSE)
    <3>1. PICK v : v = None
      OBVIOUS
    <3>2. PICK d : d = FALSE
      OBVIOUS
    <3>3. set(k, v, d)
      BY <2>2, <3>1, <3>2
    <3> QED BY <3>3, SetArrives
  <2>3. CASE get(k) \/ \E d \in BOOLEAN : markDirty(k, d)
    BY <2>3, BeginnersArrive
  <2>4. CASE del(k)
    BY <2>4, DroppersArrive
  <2> QED BY <1>1, <2>1, <2>2, <2>3, <2>4
<1>2. CASE (\E check \in BOOLEAN : erase(check)) \/ (\E i \in Index : recover(i))
  BY <1>2, DroppersArrive
<1>3. CASE syncBegin \/ syncNext \/ backup \/ (\E force \in BOOLEAN : backupBegin(force))
  BY <1>3, BeginnersArrive
<1>4. CASE Steps
  <2>1. CASE allocateMemBlock \/ allocateChunk
    BY <2>1, SearchArrives
  <2>2. CASE makeNew
    BY <2>2, MakeNewArrives
  <2>3. CASE undoNew
    BY <2>3, UndoArrives
  <2>4. CASE eraseExcept
    BY <2>4, EvictionArrives
  <2>5. CASE allocate
    BY <2>5, AllocateArrives
  <2>6. CASE joinChunk
    BY <2>6, JoinArrives
  <2>7. CASE deallocate
    BY <2>7, DeallocateArrives
  <2>8. CASE flags
    BY <2>8, FlagsArrive
  <2>9. CASE copy
    BY <2>9, CopyArrives
  <2>10. CASE count
    BY <2>10, CountArrives
  <2>11. CASE setDirtyFlag
    BY <2>11, SetDirtyFlagArrives
  <2>12. CASE refreshSetList
    BY <2>12, RefreshSetArrives
  <2>13. CASE refreshGetList
    BY <2>13, RefreshGetArrives
  <2>14. CASE sync \/ synced
    BY <2>14, SyncArrives
  <2>15. CASE Done
    BY <2>15, DoneArrives
  <2> QED BY ONLY <1>4, <2>1, <2>2, <2>3, <2>4, <2>5, <2>6, <2>7, <2>8, <2>9, <2>10, <2>11,
                  <2>12, <2>13, <2>14, <2>15 DEF Steps
<1> QED
  BY ONLY Next, ~Crash, <1>1, <1>2, <1>3, <1>4 DEF Next

(* No step but a death changes whether one has been.                       *)
LEMMA CrashedStays == Next => crashed' = crashed \/ crashed'
<1> SUFFICES ASSUME Next PROVE crashed' = crashed \/ crashed'
  OBVIOUS
<1>1. CASE Crash
  BY <1>1 DEF Crash
<1>2. CASE Steps
  BY <1>2 DEF Steps, allocateMemBlock, allocateChunk, makeNew, undoNew, eraseExcept, allocate,
     joinChunk, deallocate, flags, copy, count, setDirtyFlag, refreshSetList, refreshGetList,
     sync, synced, Done, Erase
<1>3. CASE syncBegin \/ syncNext \/ backup \/ \E force \in BOOLEAN : backupBegin(force)
  BY <1>3 DEF syncBegin, syncNext, backup, backupBegin
<1>4. CASE (\E check \in BOOLEAN : erase(check)) \/ (\E i \in Index : recover(i))
  BY <1>4 DEF erase, recover, Erase
<1>5. ASSUME NEW k \in Keys, \/ \E v \in Values, d \in BOOLEAN : set(k, v, d)
                             \/ set(k, None, FALSE)
                             \/ get(k) \/ del(k)
                             \/ \E d \in BOOLEAN : markDirty(k, d)
      PROVE  crashed' = crashed
  BY <1>5 DEF set, get, del, markDirty, Erase
<1> QED BY ONLY Next, <1>1, <1>2, <1>3, <1>4, <1>5 DEF Next

-----------------------------------------------------------------------------
(* The invariant: while no process has died, the dirty records are where   *)
(* they are found.                                                         *)
ReachingAll(S, G, B, P, U) == Serving(S, G, B, P, U) /\ (~crashed => Reaching(mem, S, P, op))
ReachingNow == \E S, G, B, P, U : ReachingAll(S, G, B, P, U)

(* It holds at first, when there are no records.                           *)
LEMMA InitialReaching == Init => ReachingNow
<1> SUFFICES ASSUME Init PROVE ReachingNow
  OBVIOUS
<1>1. PICK S, G, B, P, U : Serving(S, G, B, P, U)
  BY InitialServing DEF ServingNow
<1>2. Lists(mem, S, G, B) /\ Shape(mem)
  BY <1>1, ServingOf, PartsOf DEF Before
<1>3. mem["setHead"][0] = 0
  BY DEF Init, InitMem, HeadFields
<1>4. Range(S) = {}
  <2>1. Spot(mem, S, "setHead", "setTail", "setNext", "setPrev")
    BY <1>2 DEF Lists
  <2>2. S \in Seq(Addr) /\ First(S) = 0
    BY <1>3, <2>1 DEF Spot, DList
  <2>3. S = <<>>
    BY <2>2, HashMapAssumption DEF First
  <2> QED BY <2>3 DEF Range
<1>5. Phase(op) = "idle"
  BY IdleIs DEF Init
<1> HIDE DEF Phase
<1>6. Knows(mem, op)
  BY <1>5, KnowsWhen
<1> QED BY <1>1, <1>4, <1>6 DEF ReachingNow, ReachingAll, Reaching

(* Every step keeps it.                                                    *)
LEMMA ReachingStep == ReachingNow /\ [Next]_vars => ReachingNow'
<1> SUFFICES ASSUME ReachingNow, [Next]_vars PROVE ReachingNow'
  OBVIOUS
<1>1. PICK S, G, B, P, U : ReachingAll(S, G, B, P, U)
  BY DEF ReachingNow
<1>2. CASE Next
  <2>1. ServingNow'
    BY <1>1, <1>2, ServingStep DEF ReachingAll, ServingNow
  <2>2. PICK S2, G2, B2, P2, U2 : Serving(S2, G2, B2, P2, U2)'
    BY <2>1 DEF ServingNow
  <2>3. After(S2, G2, B2, P2, U2)
    BY <2>2 DEF Serving, Before, WholeMap, After
  <2>4. ASSUME ~crashed' PROVE Arrives(S2, P2)
    <3>1. ~Crash /\ ~crashed
      BY <1>2, <2>4, CrashedStays DEF Crash
    <3>2. Arriving(S, G, B, P, U, S2, G2, B2, P2, U2)
      BY <1>1, <2>3, <3>1 DEF Arriving, Stepping, ReachingAll
    <3> QED BY <1>2, <3>1, <3>2, StepArrives
  <2>5. ReachingAll(S2, G2, B2, P2, U2)'
    BY <2>2, <2>4 DEF ReachingAll, Arrives
  <2> QED BY <2>5 DEF ReachingNow
<1>3. CASE UNCHANGED vars
  <2>1. mem' = mem /\ free' = free /\ op' = op /\ crashed' = crashed /\ calls' = calls
    BY <1>3 DEF vars
  <2>2. DataKept(mem, mem')
    BY <2>1, NothingIsQuiet
  <2>3. Before(S, G, B, P, U) /\ Served(op, mem, P, View)
    BY <1>1 DEF ReachingAll, Serving
  <2>4. After(S, G, B, P, U)
    BY <2>1, <2>3 DEF Before, WholeMap, After
  <2>5. TypedValues(mem') /\ View' = View
    BY <2>2, <2>3, <2>4, QuietSees
  <2>6. Serving(S, G, B, P, U)'
    BY <2>1, <2>3, <2>4, <2>5 DEF Serving, Before, WholeMap, After
  <2>7. ReachingAll(S, G, B, P, U)'
    BY <1>1, <2>1, <2>6 DEF ReachingAll
  <2> QED BY <2>7 DEF ReachingNow
<1> QED BY <1>2, <1>3

(* The way from a block to the head of a list passes all before it.        *)
LEMMA BackwardIs ==
  ASSUME NEW s, NEW nx, NEW f, DList(s, nx, mem[f]), NEW x, NEW y, Ahead(s, x, y)
  PROVE  x \in Range(Along(f, y))
<1>1. PICK i, j \in 1 .. Len(s) : i <= j /\ s[i] = x /\ s[j] = y
  BY DEF Ahead
<1>2. /\ Len(s) \in Nat /\ \A k \in 1 .. Len(s) : s[k] \in Addr
      /\ \A k, l \in 1 .. Len(s) : s[k] = s[l] => k = l
      /\ \A k \in 1 .. Len(s) : mem[f][s[k]] = IF k = 1 THEN 0 ELSE s[k - 1]
  BY Sides
<1>3. PICK t : t = [k \in 1 .. j |-> s[j + 1 - k]]
  OBVIOUS
<1>4. /\ t \in Seq(Addr) /\ Len(t) = j /\ j \in Nat /\ i \in 1 .. j /\ DOMAIN t = 1 .. j
      /\ \A k \in 1 .. j : t[k] = s[j + 1 - k] /\ j + 1 - k \in 1 .. Len(s)
  BY <1>1, <1>2, <1>3
<1>5. IsInjective(t)
  <2>1. ASSUME NEW k \in 1 .. j, NEW l \in 1 .. j, t[k] = t[l] PROVE k = l
    <3>1. s[j + 1 - k] = s[j + 1 - l] /\ j + 1 - k \in 1 .. Len(s) /\ j + 1 - l \in 1 .. Len(s)
      BY <1>4, <2>1
    <3>2. j + 1 - k = j + 1 - l
      BY <1>2, <3>1
    <3> QED BY <1>4, <3>2
  <2> QED BY <1>4, <2>1 DEF IsInjective
<1>6. Strung(t, mem[f])
  <2>1. ASSUME NEW k \in 1 .. j PROVE mem[f][t[k]] = IF k = j THEN 0 ELSE t[k + 1]
    <3>1. mem[f][t[k]] = IF j + 1 - k = 1 THEN 0 ELSE s[j + 1 - k - 1]
      <4>1. PICK l \in 1 .. Len(s) : l = j + 1 - k
        BY <1>4
      <4>2. t[k] = s[l]
        BY <1>4, <4>1
      <4> QED BY <1>2, <4>1, <4>2
    <3>2. k # j => k + 1 \in 1 .. j /\ t[k + 1] = s[j + 1 - (k + 1)]
      BY <1>4
    <3> QED BY <1>4, <3>1, <3>2
  <2> QED BY <1>4, <2>1 DEF Strung
<1>7. First(t) = y
  <2>1. t # <<>> /\ 1 \in 1 .. j /\ t[1] = s[j + 1 - 1]
    BY <1>4
  <2> QED BY <1>1, <1>4, <2>1 DEF First
<1>8. Along(f, y) = t
  BY <1>4, <1>5, <1>6, <1>7, AlongIs
<1>9. j + 1 - i \in DOMAIN t /\ t[j + 1 - i] = x
  BY <1>1, <1>4
<1> QED BY <1>8, <1>9 DEF Range

(* What the invariant gives.                                               *)
LEMMA ReachingShows == ReachingNow => DirtyIsReached
<1> SUFFICES ASSUME ReachingNow, ~crashed, op.pc \in {"idle", "return"}
             PROVE  /\ {a \in Linked : mem.dirty[a]} \subseteq Range(Along("setPrev", DirtyTail))
                    /\ \A a \in Linked : Data(a) \in Values \cup {"onlyKey"}
                    /\ mem.dirtyCount[0] = Cardinality({a \in Linked : mem.dirty[a]})
                    /\ mem.onlyKeyCount[0] = Cardinality({a \in Linked : mem.onlyKey[a]})
  BY DEF DirtyIsReached
<1>1. PICK S, G, B, P, U : Before(S, G, B, P, U) /\ Reaching(mem, S, P, op)
  BY DEF ReachingNow, ReachingAll, Serving
<1>2. /\ Lists(mem, S, G, B) /\ Chains(mem, S, P) /\ TypedValues(mem) /\ Range(S) \subseteq Addr
      /\ Counts(mem, S, op, crashed)
  BY <1>1, PartsOf DEF Before
<1>3. Linked = Range(S) /\ DList(S, mem["setNext"], mem["setPrev"])
  BY <1>2, ListsFound DEF Lists, Spot
<1>4. Phase(op) \in {"idle", "return"}
  BY PhaseIs
<1>5. mem.dirtyCount[0] = Cardinality(DirtyRecords(mem, S))
      /\ mem.onlyKeyCount[0] = Cardinality(KeyRecords(mem, S))
  <2>1. \E d, e \in {-1, 0, 1} :
          /\ d = 0 /\ e = 0
          /\ mem.dirtyCount[0] = Cardinality(DirtyRecords(mem, S)) + d
          /\ mem.onlyKeyCount[0] = Cardinality(KeyRecords(mem, S)) + e
    BY <1>2, <1>4 DEF Counts
  <2>2. IsFiniteSet(Range(S))
    BY <1>1, PartsOf DEF Before
  <2>3. DirtyRecords(mem, S) \subseteq Range(S) /\ KeyRecords(mem, S) \subseteq Range(S)
    BY DEF DirtyRecords, KeyRecords
  <2>4. Cardinality(DirtyRecords(mem, S)) \in Nat /\ Cardinality(KeyRecords(mem, S)) \in Nat
    BY <2>2, <2>3, FS_Subset, FS_CardinalityType
  <2> QED BY <2>1, <2>4
<1> HIDE DEF Phase
<1>6. \A x \in Range(S) : /\ mem.dirty[x] => Seen(mem, S, x)
                          /\ DataIn(mem, P[x]) \in Values \cup {"onlyKey"}
  <2>1. Loose(op) = {} /\ Empty(op) = {}
    BY <1>4 DEF Loose, Empty, Fresh
  <2> QED BY <1>1, <2>1 DEF Reaching, Fit
<1>7. ASSUME NEW x \in Range(S) PROVE Data(x) \in Values \cup {"onlyKey"}
  BY <1>2, <1>6, DataFound
<1>8. ASSUME NEW x \in Range(S), mem.dirty[x] PROVE x \in Range(Along("setPrev", DirtyTail))
  <2>1. Ahead(S, x, DirtyTail)
    BY <1>6, <1>8 DEF Seen, DirtyTail
  <2> QED BY <1>3, <2>1, BackwardIs
<1> QED BY <1>3, <1>5, <1>7, <1>8 DEF DirtyRecords, KeyRecords

(* As long as no process has died, write-back finds every dirty record on  *)
(* its way from the dirty tail to the head of the set list, every record   *)
(* can be read between two operations, and the counts of dirty and         *)
(* only-key records are exact: for any keys, values, buckets and blocks.   *)
THEOREM DirtyRecordsAreReached == Spec => []DirtyIsReached
<1>1. Init => ReachingNow
  BY InitialReaching
<1>2. ReachingNow /\ [Next]_vars => ReachingNow'
  BY ReachingStep
<1>3. ReachingNow => DirtyIsReached
  BY ReachingShows
<1> QED BY <1>1, <1>2, <1>3, PTL DEF Spec

-----------------------------------------------------------------------------
(* The log with an entry more, entry by entry.                             *)
LEMMA Appended ==
  ASSUME NEW S, NEW s \in Seq(S), NEW e \in S
  PROVE  /\ Append(s, e) \in Seq(S)
         /\ Len(Append(s, e)) = Len(s) + 1
         /\ DOMAIN Append(s, e) = 1 .. Len(s) + 1
         /\ Append(s, e)[Len(s) + 1] = e
         /\ \A i \in 1 .. Len(s) : Append(s, e)[i] = s[i]
OBVIOUS

(* The types that the steps below use.                                     *)
LEMMA LogFacts ==
  ASSUME UndoInv
  PROVE  /\ undoMem \in [Place -> Value] /\ before \in [Place -> Value]
         /\ log \in Seq(Entry) /\ DOMAIN log = 1 .. Len(log) /\ Len(log) \in Nat
         /\ \A i \in 1 .. Len(log) : log[i] \in Entry
BY DEF UndoInv, UndoTypeOK

LEMMA EntryFacts ==
  ASSUME NEW e \in Entry
  PROVE  e.place \in Place /\ e.val \in Value
BY DEF Entry

LEMMA UndoInitial == UndoInit => UndoInv
BY DEF UndoInit, UndoInv, UndoTypeOK, UnloggedIsUntouched, FirstEntryIsOld

-----------------------------------------------------------------------------
(* A place that is entered for the first time still has its old value.     *)
LEMMA EnterStep ==
  ASSUME UndoInv, NEW a \in Place, Enter(a)
  PROVE  UndoInv'
<1> DEFINE e == [place |-> a, val |-> undoMem[a]]
           n == Len(log)
<1>1. /\ e \in Entry /\ n \in Nat /\ pc = "run" /\ pc' = "entered"
      /\ UNCHANGED <<undoMem, status, next, before>> /\ log' = Append(log, e)
  BY LogFacts DEF Enter, Entry
<1>2. /\ log' \in Seq(Entry) /\ DOMAIN log' = 1 .. n + 1 /\ Len(log') = n + 1
      /\ log'[n + 1] = e /\ \A i \in 1 .. n : log'[i] = log[i]
  <2> HIDE DEF e
  <2> QED BY <1>1, LogFacts, Appended
<1>3. DOMAIN log = 1 .. n
  BY LogFacts
<1>e. e.place = a /\ e.val = undoMem[a]
  OBVIOUS
<1> HIDE DEF n, e
<1>4. UnloggedIsUntouched'
  <2> SUFFICES ASSUME NEW b \in Place, \A i \in DOMAIN log' : log'[i].place # b
               PROVE  undoMem[b] = before[b]
    BY <1>1 DEF UnloggedIsUntouched
  <2>1. \A i \in DOMAIN log : log[i].place # b
    BY <1>1, <1>2, <1>3
  <2> QED BY <2>1 DEF UndoInv, UnloggedIsUntouched
<1>5. FirstEntryIsOld'
  <2> SUFFICES ASSUME NEW i \in DOMAIN log',
                      \A j \in DOMAIN log' : j < i => log'[j].place # log'[i].place
               PROVE  log'[i].val = before[log'[i].place]
    BY <1>1 DEF FirstEntryIsOld
  <2>1. CASE i = n + 1
    <3>1. \A j \in DOMAIN log : log[j].place # a
      BY <1>1, <1>2, <1>3, <1>e, <2>1
    <3>2. undoMem[a] = before[a]
      BY <3>1 DEF UndoInv, UnloggedIsUntouched
    <3> QED BY <1>2, <1>e, <2>1, <3>2
  <2>2. CASE i # n + 1
    <3>1. i \in 1 .. n /\ log'[i] = log[i]
      BY <1>1, <1>2, <2>2
    <3>2. \A j \in DOMAIN log : j < i => log[j].place # log[i].place
      BY <1>1, <1>2, <1>3, <3>1
    <3> QED BY <1>3, <3>1, <3>2 DEF UndoInv, FirstEntryIsOld
  <2> QED BY <2>1, <2>2
<1>6. UndoTypeOK' /\ log' # <<>>
  BY <1>1, <1>2 DEF UndoInv, UndoTypeOK
<1> QED BY <1>1, <1>4, <1>5, <1>6 DEF UndoInv

(* What is written has an entry.                                           *)
LEMMA StoreStep ==
  ASSUME UndoInv, NEW v \in Value, Store(v)
  PROVE  UndoInv'
<1> DEFINE n == Len(log)
<1>1. /\ pc = "armed" /\ pc' = "run" /\ status = 1 /\ n \in DOMAIN log
      /\ UNCHANGED <<log, status, next, before>>
      /\ undoMem' = [undoMem EXCEPT ![log[n].place] = v]
  <2>1. log # <<>> /\ status = 1
    BY DEF UndoInv, Store
  <2> QED BY <2>1, LogFacts DEF Store
<1>2. UndoTypeOK'
  BY <1>1, LogFacts DEF UndoInv, UndoTypeOK
<1>3. UnloggedIsUntouched'
  <2> SUFFICES ASSUME NEW b \in Place, \A i \in DOMAIN log : log[i].place # b
               PROVE  undoMem'[b] = before[b]
    BY <1>1 DEF UnloggedIsUntouched
  <2>1. undoMem[b] = before[b]
    BY DEF UndoInv, UnloggedIsUntouched
  <2> QED BY <1>1, <2>1, LogFacts
<1>4. FirstEntryIsOld'
  BY <1>1 DEF UndoInv, FirstEntryIsOld
<1> QED BY <1>1, <1>2, <1>3, <1>4 DEF UndoInv

(* Of a place with several entries the first one is undone last.           *)
LEMMA UndoStep ==
  ASSUME UndoInv, Undo
  PROVE  UndoInv'
<1>1. /\ pc = "undo" /\ next \in DOMAIN log /\ next \in Nat /\ status = 1
      /\ next' = next - 1 /\ next - 1 \in Nat /\ next - 1 <= Len(log)
      /\ UNCHANGED <<log, status, pc, before>>
      /\ undoMem' = [undoMem EXCEPT ![log[next].place] = log[next].val]
  BY LogFacts DEF UndoInv, UndoTypeOK, Undo
<1>2. log[next].place \in Place /\ log[next].val \in Value
  BY <1>1, LogFacts, EntryFacts
<1>3. UndoTypeOK'
  BY <1>1, <1>2, LogFacts DEF UndoInv, UndoTypeOK
<1>4. UnloggedIsUntouched'
  <2> SUFFICES ASSUME NEW b \in Place,
                      \A i \in DOMAIN log : i <= next - 1 => log[i].place # b
               PROVE  undoMem'[b] = before[b]
    BY <1>1 DEF UnloggedIsUntouched
  <2>1. CASE log[next].place = b
    <3>1. \A j \in DOMAIN log : j < next => log[j].place # log[next].place
      BY <1>1, <2>1, LogFacts
    <3>2. log[next].val = before[b]
      BY <1>1, <2>1, <3>1 DEF UndoInv, FirstEntryIsOld
    <3> QED BY <1>1, <2>1, <3>2, LogFacts
  <2>2. CASE log[next].place # b
    <3>1. \A i \in DOMAIN log : i <= next => log[i].place # b
      BY <1>1, <2>2, LogFacts
    <3>2. undoMem[b] = before[b]
      BY <1>1, <3>1 DEF UndoInv, UnloggedIsUntouched
    <3> QED BY <1>1, <2>2, <3>2, LogFacts
  <2> QED BY <2>1, <2>2
<1>5. FirstEntryIsOld'
  BY <1>1 DEF UndoInv, FirstEntryIsOld
<1> QED BY <1>1, <1>3, <1>4, <1>5 DEF UndoInv

(* When all entries are undone every place is as before.                   *)
LEMMA UndoneStep ==
  ASSUME UndoInv, Undone
  PROVE  UndoInv'
<1>1. /\ pc = "undo" /\ next = 0 /\ status = 1 /\ log' = <<>> /\ pc' = "dropped"
      /\ UNCHANGED <<undoMem, status, next, before>>
  BY DEF UndoInv, Undone
<1>2. \A a \in Place : undoMem[a] = before[a]
  BY <1>1, LogFacts DEF UndoInv, UnloggedIsUntouched
<1>3. undoMem = before
  BY <1>2, LogFacts
<1>4. UndoTypeOK' /\ DOMAIN log' = {}
  BY <1>1 DEF UndoInv, UndoTypeOK
<1> QED BY <1>1, <1>2, <1>3, <1>4 DEF UndoInv, UnloggedIsUntouched, FirstEntryIsOld

(* The other stores of the log's own head.                                 *)
LEMMA DoUpdateStep ==
  ASSUME UndoInv, doUpdate
  PROVE  UndoInv'
<1>1. log' = <<>> /\ before' = undoMem /\ pc' = "dropped" /\ UNCHANGED <<undoMem, status, next>>
      /\ status = 1
  BY DEF doUpdate
<1>2. UndoTypeOK' /\ DOMAIN log' = {}
  BY <1>1 DEF UndoInv, UndoTypeOK
<1> QED BY <1>1, <1>2 DEF UndoInv, UnloggedIsUntouched, FirstEntryIsOld

LEMMA DoRecoverStep ==
  ASSUME UndoInv, doRecover
  PROVE  UndoInv'
<1>1. /\ pc = "out" /\ next' = Len(log) /\ UNCHANGED <<undoMem, log, status, before>>
      /\ status \in {0, 1} /\ pc' = IF status = 1 THEN "undo" ELSE "run"
  BY DEF UndoInv, UndoTypeOK, doRecover
<1>2. UndoTypeOK' /\ Len(log) \in Nat
  BY <1>1, LogFacts DEF UndoInv, UndoTypeOK
<1>3. UnloggedIsUntouched'
  <2>1. \A i \in DOMAIN log : i <= Len(log)
    BY LogFacts
  <2> QED BY <1>1, <2>1 DEF UndoInv, UnloggedIsUntouched
<1> QED BY <1>1, <1>2, <1>3 DEF UndoInv, FirstEntryIsOld

(* The invariant of the log is kept by every step.                         *)
LEMMA UndoStepKeeps ==
  UndoInv /\ [UndoNext]_logVars => UndoInv'
<1> SUFFICES ASSUME UndoInv, [UndoNext]_logVars PROVE UndoInv'
  OBVIOUS
<1> USE DEF UnloggedIsUntouched, FirstEntryIsOld
<1>1. CASE UNCHANGED logVars
  BY <1>1 DEF logVars, UndoInv, UndoTypeOK
<1>2. ASSUME NEW a \in Place, Enter(a) PROVE UndoInv'
  BY <1>2, EnterStep
<1>3. ASSUME NEW v \in Value, Store(v) PROVE UndoInv'
  BY <1>3, StoreStep
<1>4. CASE Arm
  BY <1>4 DEF Arm, UndoInv, UndoTypeOK
<1>5. CASE ClearStatus
  BY <1>5 DEF ClearStatus, UndoInv, UndoTypeOK
<1>6. CASE Undo
  BY <1>6, UndoStep
<1>7. CASE Undone
  BY <1>7, UndoneStep
<1>8. CASE doUpdate
  BY <1>8, DoUpdateStep
<1>9. CASE doRecover
  BY <1>9, DoRecoverStep
<1>10. CASE UndoReturn
  BY <1>10 DEF UndoReturn, UndoInv, UndoTypeOK
<1>11. CASE UndoCrash
  BY <1>11 DEF UndoCrash, UndoInv, UndoTypeOK
<1> QED BY <1>1, <1>2, <1>3, <1>4, <1>5, <1>6, <1>7, <1>8, <1>9, <1>10, <1>11
        DEF UndoNext, LogStep

-----------------------------------------------------------------------------
(* The log always determines what there was before the operation.          *)
THEOREM UndoInvIsInvariant == UndoSpec => []UndoInv
BY UndoInitial, UndoStepKeeps, PTL DEF UndoSpec

(* Whenever the log is not in use the memory is what the last operation to *)
(* finish has left.                                                        *)
THEOREM ClosedLogIsDone == UndoSpec => []ClosedMeansDone
<1>1. UndoInv => ClosedMeansDone
  BY DEF UndoInv, ClosedMeansDone
<1> QED BY <1>1, UndoInvIsInvariant, PTL

(* The stores of an operation take effect when its log is dropped, or not  *)
(* at all.                                                                 *)
THEOREM UndoIsAtomic == UndoSpec => ImplementsAtomic
<1> DEFINE open == IF pc \in {"run", "entered", "armed"} THEN undoMem ELSE before
<1>1. UndoInit => Atomic!Init
  BY DEF UndoInit, Atomic!Init
<1>2. UndoInv /\ [UndoNext]_logVars => [Atomic!Next]_Atomic!avars
  <2> SUFFICES ASSUME UndoInv, [UndoNext]_logVars
               PROVE  Atomic!Next \/ UNCHANGED <<before, open>>
    BY DEF Atomic!avars
  <2>1. CASE UNCHANGED logVars
    BY <2>1 DEF logVars
  <2>2. ASSUME NEW a \in Place, Enter(a) PROVE UNCHANGED <<before, open>>
    BY <2>2 DEF Enter
  <2>3. ASSUME NEW v \in Value, Store(v) PROVE Atomic!Write
    <3>1. log[Len(log)].place \in Place
      <4>1. Len(log) \in 1 .. Len(log)
        <5>1. log # <<>>
          BY <2>3 DEF UndoInv, Store
        <5> QED BY <5>1, LogFacts
      <4> QED BY <4>1, LogFacts, EntryFacts
    <3> QED BY <2>3, <3>1 DEF Store, Atomic!Write
  <2>4. CASE Arm
    BY <2>4 DEF Arm
  <2>5. CASE ClearStatus
    BY <2>5 DEF ClearStatus, UndoInv
  <2>6. CASE Undo
    BY <2>6 DEF Undo
  <2>7. CASE Undone
    BY <2>7 DEF Undone
  <2>8. CASE doUpdate
    BY <2>8 DEF doUpdate, Atomic!Commit, Atomic!Next
  <2>9. CASE doRecover
    BY <2>9 DEF doRecover, UndoInv, UndoTypeOK
  <2>10. CASE UndoReturn
    BY <2>10 DEF UndoReturn, UndoInv
  <2>11. CASE UndoCrash
    BY <2>11 DEF UndoCrash, Atomic!Lose, Atomic!Next
  <2> QED BY <2>1, <2>2, <2>3, <2>4, <2>5, <2>6, <2>7, <2>8, <2>9, <2>10, <2>11
          DEF UndoNext, LogStep, Atomic!Next
<1> QED BY <1>1, <1>2, UndoInvIsInvariant, PTL DEF UndoSpec, ImplementsAtomic, Atomic!Spec

-----------------------------------------------------------------------------
(***************************************************************************)
(* The redo log.                                                           *)
(***************************************************************************)

(* A log without entries has nothing left to copy.                         *)
LEMMA EmptyIsDone ==
  Redo!IndInv /\ redoLog = <<>> => redoMem = redoGoal
<1> SUFFICES ASSUME Redo!IndInv, redoLog = <<>> PROVE redoMem = redoGoal
  OBVIOUS
<1>1. DOMAIN redoLog = {}
  OBVIOUS
<1>2. \A a \in RedoAddr : redoMem[a] = redoGoal[a]
  BY <1>1 DEF Redo!IndInv, Redo!CopiedIsFinal
<1> QED BY <1>2 DEF Redo!IndInv, Redo!TypeOK

LEMMA RedoInitial == Redo!Init => Redo!IndInv
BY DEF Redo!Init, Redo!IndInv, Redo!TypeOK, Redo!CopiedIsFinal, Redo!LastEntryWins

-----------------------------------------------------------------------------
(* A new entry is the last one of its place.                               *)
LEMMA UpdateStep ==
  ASSUME Redo!IndInv, NEW a \in RedoAddr, NEW v \in RedoValue, Redo!update(a, v)
  PROVE  Redo!IndInv'
<1> DEFINE e == [addr |-> a, val |-> v]
           n == Len(redoLog)
<1>1. /\ redoMem \in [RedoAddr -> RedoValue] /\ redoGoal \in [RedoAddr -> RedoValue]
      /\ redoLog \in Seq(Redo!Entry) /\ DOMAIN redoLog = 1 .. n /\ n \in Nat
      /\ \A i \in 1 .. n : redoLog[i] \in Redo!Entry
      /\ redoPc = "run" /\ e \in Redo!Entry
  <2>1. e \in Redo!Entry
    BY DEF Redo!Entry
  <2> HIDE DEF e
  <2> QED BY <2>1 DEF Redo!IndInv, Redo!TypeOK, Redo!update
<1>2. /\ redoLog' \in Seq(Redo!Entry) /\ DOMAIN redoLog' = 1 .. n + 1 /\ Len(redoLog') = n + 1
      /\ redoLog'[n + 1] = e /\ \A i \in 1 .. n : redoLog'[i] = redoLog[i]
  BY <1>1, Appended DEF Redo!update
<1> HIDE DEF n
<1>3. Redo!TypeOK'
  BY <1>1, <1>2 DEF Redo!TypeOK, Redo!IndInv, Redo!update
<1>4. Redo!CopiedIsFinal'
  <2> SUFFICES ASSUME NEW b \in RedoAddr, \A i \in DOMAIN redoLog' : redoLog'[i].addr # b
               PROVE  redoMem'[b] = redoGoal'[b]
    BY DEF Redo!CopiedIsFinal, Redo!update
  <2>1. b # a
    BY <1>1, <1>2
  <2>2. \A i \in DOMAIN redoLog : redoLog[i].addr # b
    BY <1>1, <1>2
  <2>3. redoMem[b] = redoGoal[b]
    BY <1>1, <2>2 DEF Redo!IndInv, Redo!CopiedIsFinal
  <2> QED BY <1>1, <2>1, <2>3 DEF Redo!update
<1>5. Redo!LastEntryWins'
  <2> SUFFICES ASSUME NEW i \in DOMAIN redoLog',
                      \A j \in DOMAIN redoLog' : i < j => redoLog'[j].addr # redoLog'[i].addr
               PROVE  redoGoal'[redoLog'[i].addr] = redoLog'[i].val
    BY DEF Redo!LastEntryWins
  <2>1. CASE i = n + 1
    BY <1>1, <1>2, <2>1 DEF Redo!update
  <2>2. CASE i # n + 1
    <3>1. i \in 1 .. n /\ redoLog'[i] = redoLog[i] /\ redoLog[i].addr \in RedoAddr
      BY <1>1, <1>2, <2>2 DEF Redo!Entry
    <3>2. redoLog[i].addr # a
      BY <1>1, <1>2, <3>1
    <3>3. redoGoal[redoLog[i].addr] = redoLog[i].val
      BY <1>1, <1>2, <3>1 DEF Redo!IndInv, Redo!LastEntryWins
    <3> QED BY <1>1, <3>1, <3>2, <3>3 DEF Redo!update
  <2> QED BY <2>1, <2>2
<1> QED BY <1>1, <1>2, <1>3, <1>4, <1>5 DEF Redo!IndInv, Redo!update

(* The entry that is copied is the last of its place, or a later one of    *)
(* that place is still to be copied.                                       *)
LEMMA CopyStep ==
  ASSUME Redo!IndInv, Redo!Copy
  PROVE  Redo!IndInv'
<1>1. /\ redoMem \in [RedoAddr -> RedoValue] /\ redoGoal \in [RedoAddr -> RedoValue]
      /\ redoLog \in Seq(Redo!Entry) /\ DOMAIN redoLog = 1 .. Len(redoLog) /\ Len(redoLog) \in Nat
      /\ redoLog[redoNext] \in Redo!Entry /\ redoNext \in Nat /\ redoNext \in DOMAIN redoLog
      /\ redoPc = "copy" /\ UNCHANGED <<redoLog, redoPc, redoStatus, redoGoal>>
      /\ redoMem' = [redoMem EXCEPT ![redoLog[redoNext].addr] = redoLog[redoNext].val]
      /\ redoNext' = redoNext + 1
  BY DEF Redo!IndInv, Redo!TypeOK, Redo!Copy
<1>2. redoLog[redoNext].addr \in RedoAddr /\ redoLog[redoNext].val \in RedoValue
  BY <1>1 DEF Redo!Entry
<1>3. Redo!TypeOK'
  BY <1>1, <1>2 DEF Redo!TypeOK, Redo!IndInv
<1>4. Redo!CopiedIsFinal'
  <2> SUFFICES ASSUME NEW a \in RedoAddr,
                      \A i \in DOMAIN redoLog : redoNext + 1 <= i => redoLog[i].addr # a
               PROVE  redoMem'[a] = redoGoal[a]
    BY <1>1 DEF Redo!CopiedIsFinal
  <2>1. CASE redoLog[redoNext].addr = a
    <3>1. \A j \in DOMAIN redoLog : redoNext < j => redoLog[j].addr # redoLog[redoNext].addr
      BY <1>1, <2>1
    <3>2. redoGoal[a] = redoLog[redoNext].val
      BY <1>1, <2>1, <3>1 DEF Redo!IndInv, Redo!LastEntryWins
    <3> QED BY <1>1, <2>1, <3>2
  <2>2. CASE redoLog[redoNext].addr # a
    <3>1. \A i \in DOMAIN redoLog : redoNext <= i => redoLog[i].addr # a
      BY <1>1, <2>2
    <3>2. redoMem[a] = redoGoal[a]
      BY <1>1, <3>1 DEF Redo!IndInv, Redo!CopiedIsFinal
    <3> QED BY <1>1, <2>2, <3>2
  <2> QED BY <2>1, <2>2
<1>5. Redo!LastEntryWins'
  BY <1>1 DEF Redo!IndInv, Redo!LastEntryWins
<1> QED BY <1>1, <1>3, <1>4, <1>5 DEF Redo!IndInv

(* When everything has been copied the log can go.                         *)
LEMMA ClearIndexStep ==
  ASSUME Redo!IndInv, Redo!ClearIndex
  PROVE  Redo!IndInv' /\ redoMem = redoGoal
<1>1. /\ redoMem \in [RedoAddr -> RedoValue] /\ redoGoal \in [RedoAddr -> RedoValue]
      /\ DOMAIN redoLog = 1 .. Len(redoLog) /\ Len(redoLog) \in Nat
      /\ redoNext \in Nat \ {0} /\ redoNext \notin DOMAIN redoLog
      /\ redoPc = "copy" /\ redoLog' = <<>>
  BY DEF Redo!IndInv, Redo!TypeOK, Redo!ClearIndex
<1>2. \A a \in RedoAddr : redoMem[a] = redoGoal[a]
  BY <1>1 DEF Redo!IndInv, Redo!CopiedIsFinal
<1>3. redoMem = redoGoal
  BY <1>1, <1>2
<1>4. Redo!TypeOK' /\ DOMAIN redoLog' = {} /\ Len(redoLog') = 0
  BY <1>1 DEF Redo!TypeOK, Redo!IndInv, Redo!ClearIndex
<1> QED BY <1>3, <1>4 DEF Redo!IndInv, Redo!CopiedIsFinal, Redo!LastEntryWins, Redo!ClearIndex

(* The process that comes next, or that has returned without a commit.     *)
LEMMA RedoDoUpdateStep ==
  ASSUME Redo!IndInv, Redo!doUpdate
  PROVE  Redo!IndInv'
<1>1. Redo!TypeOK /\ redoStatus \in 0 .. 2 /\ redoLog \in Seq(Redo!Entry)
  BY DEF Redo!IndInv, Redo!TypeOK
<1>2. CASE redoStatus = 0
  BY <1>1, <1>2 DEF Redo!doUpdate, Redo!IndInv, Redo!TypeOK, Redo!CopiedIsFinal, Redo!LastEntryWins
<1>3. CASE redoStatus = 1
  <2>1. /\ redoLog' = <<>> /\ redoPc' = "cleared" /\ redoGoal' = redoMem
        /\ UNCHANGED <<redoMem, redoStatus, redoNext>>
    BY <1>3 DEF Redo!doUpdate
  <2>2. Redo!TypeOK' /\ DOMAIN redoLog' = {}
    BY <1>1, <2>1 DEF Redo!TypeOK
  <2> QED BY <1>3, <2>1, <2>2 DEF Redo!IndInv, Redo!CopiedIsFinal, Redo!LastEntryWins
<1>4. CASE redoStatus = 2
  <2>1. /\ redoPc' = "copy" /\ redoNext' = 1 /\ redoPc # "copy"
        /\ UNCHANGED <<redoLog, redoGoal, redoMem, redoStatus>>
    BY <1>4 DEF Redo!doUpdate
  <2>2. Redo!TypeOK' /\ Len(redoLog) \in Nat
    BY <1>1, <2>1 DEF Redo!TypeOK
  <2>3. Redo!CopiedIsFinal'
    <3>1. \A i \in DOMAIN redoLog : 1 <= i
      BY <1>1
    <3> QED BY <2>1, <3>1 DEF Redo!IndInv, Redo!CopiedIsFinal
  <2> QED BY <1>4, <2>1, <2>2, <2>3 DEF Redo!IndInv, Redo!LastEntryWins
<1> QED BY <1>1, <1>2, <1>3, <1>4

(* The invariant of the log is kept by every step.                         *)
LEMMA RedoStep ==
  Redo!IndInv /\ [Redo!Next]_(Redo!vars) => Redo!IndInv'
<1> SUFFICES ASSUME Redo!IndInv, [Redo!Next]_(Redo!vars) PROVE Redo!IndInv'
  OBVIOUS
<1>1. CASE UNCHANGED Redo!vars
  BY <1>1 DEF Redo!vars, Redo!IndInv, Redo!TypeOK, Redo!CopiedIsFinal, Redo!LastEntryWins
<1>2. ASSUME NEW a \in RedoAddr, NEW v \in RedoValue, Redo!update(a, v)
      PROVE  Redo!IndInv'
  BY <1>2, UpdateStep
<1>3. CASE Redo!Commit
  <2>1. \A i \in DOMAIN redoLog : 1 <= i
    BY DEF Redo!IndInv, Redo!TypeOK
  <2> QED BY <1>3, <2>1 DEF Redo!Commit, Redo!IndInv, Redo!TypeOK, Redo!CopiedIsFinal, Redo!LastEntryWins
<1>4. CASE Redo!Copy
  BY <1>4, CopyStep
<1>5. CASE Redo!ClearIndex
  BY <1>5, ClearIndexStep
<1>6. CASE Redo!ClearStatus
  BY <1>6 DEF Redo!ClearStatus, Redo!IndInv, Redo!TypeOK, Redo!CopiedIsFinal, Redo!LastEntryWins
<1>7. CASE Redo!doUpdate
  BY <1>7, RedoDoUpdateStep
<1>8. CASE Redo!Crash
  BY <1>8 DEF Redo!Crash, Redo!IndInv, Redo!TypeOK, Redo!CopiedIsFinal, Redo!LastEntryWins
<1> QED BY <1>1, <1>2, <1>3, <1>4, <1>5, <1>6, <1>7, <1>8 DEF Redo!Next

-----------------------------------------------------------------------------
(* The log always determines what its places will hold.                    *)
THEOREM RedoInvIsInvariant == Redo!Spec => []Redo!IndInv
BY RedoInitial, RedoStep, PTL DEF Redo!Spec

(* Whenever no log is open the memory is what the committed transactions   *)
(* made it, and nothing is left to copy.                                   *)
THEOREM ClosedRedoIsDone == Redo!Spec => []Redo!ClosedMeansDone
<1>1. Redo!IndInv => Redo!ClosedMeansDone
  BY EmptyIsDone DEF Redo!IndInv, Redo!ClosedMeansDone
<1> QED BY <1>1, RedoInvIsInvariant, PTL

(* A transaction happens at its commit or not at all, although the copying *)
(* may be cut short at any store, any number of times.                     *)
THEOREM JournalIsAtomic == Redo!Spec => RedoIsAtomic
<1>1. Redo!Init => Redo!Atomic!Init
  BY DEF Redo!Init, Redo!Atomic!Init, Redo!content
<1>2. Redo!IndInv /\ [Redo!Next]_(Redo!vars) => [Redo!Atomic!Next]_(Redo!Atomic!avars)
  <2> SUFFICES ASSUME Redo!IndInv, [Redo!Next]_(Redo!vars)
               PROVE  Redo!Atomic!Next \/ UNCHANGED <<Redo!content, redoGoal>>
    BY DEF Redo!Atomic!avars
  <2>1. CASE UNCHANGED Redo!vars
    BY <2>1 DEF Redo!vars, Redo!content
  <2>2. ASSUME NEW a \in RedoAddr, NEW v \in RedoValue, Redo!update(a, v)
        PROVE  Redo!Atomic!Write
    <3>1. redoStatus # 2 /\ redoStatus' # 2
      BY <2>2 DEF Redo!IndInv, Redo!update
    <3> QED BY <2>2, <3>1 DEF Redo!Atomic!Write, Redo!update, Redo!content
  <2>3. CASE Redo!Commit
    BY <2>3 DEF Redo!Commit, Redo!Atomic!Commit, Redo!Atomic!Next, Redo!content
  <2>4. CASE Redo!Copy
    BY <2>4 DEF Redo!Copy, Redo!IndInv, Redo!content
  <2>5. CASE Redo!ClearIndex
    BY <2>5 DEF Redo!ClearIndex, Redo!IndInv, Redo!content
  <2>6. CASE Redo!ClearStatus
    <3>1. redoMem = redoGoal
      BY <2>6, EmptyIsDone DEF Redo!ClearStatus, Redo!IndInv
    <3> QED BY <2>6, <3>1 DEF Redo!ClearStatus, Redo!content
  <2>7. CASE Redo!doUpdate
    <3>1. redoStatus \in {0, 1, 2}
      BY DEF Redo!IndInv, Redo!TypeOK
    <3>2. CASE redoStatus = 1
      BY <2>7, <3>2 DEF Redo!doUpdate, Redo!content, Redo!Atomic!Lose, Redo!Atomic!Next
    <3>3. CASE redoStatus # 1
      BY <2>7, <3>1, <3>3 DEF Redo!doUpdate, Redo!content
    <3> QED BY <3>2, <3>3
  <2>8. CASE Redo!Crash
    BY <2>8 DEF Redo!Crash, Redo!content
  <2> QED BY <2>1, <2>2, <2>3, <2>4, <2>5, <2>6, <2>7, <2>8 DEF Redo!Next, Redo!Atomic!Next
<1> QED BY <1>1, <1>2, RedoInvIsInvariant, PTL
        DEF Redo!Spec, RedoIsAtomic, Redo!ImplementsAtomic, Redo!Atomic!Spec

-----------------------------------------------------------------------------
(***************************************************************************)
(* The ring of MemQueue.  Its bytes are counted from the bottom: o[i] is   *)
(* where the i-th element of the queue ends.                               *)
(***************************************************************************)
(* The bytes of e lie m bytes from the bottom.                             *)
LiesAt(e, m) ==
  \A k \in 0 .. Ring!Length(e) - 1 : bytes[Ring!At(bot, m + k)] = Ring!Byte(e, k)

(* o tells where each element of q ends.                                   *)
EndsAt(q, o) ==
  /\ DOMAIN o = 0 .. Len(q) /\ o[0] = 0
  /\ \A i \in 1 .. Len(q) : o[i] = o[i - 1] + Ring!Length(q[i])
  /\ \A i \in 0 .. Len(q) : o[i] \in Nat
  /\ \A i, j \in 0 .. Len(q) : i <= j => o[i] <= o[j]

(* The elements of q are what lies in the ring, one behind the other.      *)
Laid(q, o) ==
  /\ q \in Seq(RingElements) /\ EndsAt(q, o) /\ o[Len(q)] = Ring!Used
  /\ \A i \in 1 .. Len(q) : LiesAt(q[i], o[i - 1])

(* top stands at 0 only in the ring as it was created, and the ring is never *)
(* full: top never comes back to bot from below.                           *)
InPlace ==
  /\ Ring!TypeOK
  /\ top = 0 => bot = 0
  /\ Ring!Used = 0 \/ Ring!Used < RingCells

(* What a push has stored so far lies behind the elements, where there is  *)
(* room for all of it and one byte more.                                   *)
RingInv ==
  /\ InPlace
  /\ storing # "done" =>
       /\ storing \in Ring!Fitting /\ stored <= Ring!Length(storing)
       /\ Ring!Used + Ring!Length(storing) < RingCells
       /\ \A k \in 0 .. stored - 1 : bytes[Ring!At(top, k)] = Ring!Byte(storing, k)
  /\ \E q, o : Laid(q, o)

(* What the assumption on the constants says of each element.              *)
LEMMA RingConstants ==
  /\ RingWord \in Nat \ {0} /\ RingCells \in Nat
  /\ \A e \in RingElements : /\ Ring!Length(e) \in Nat \ {0} /\ RingSize[e] \in Nat
                             /\ Ring!Length(e) = RingWord + RingSize[e]
  /\ \A d, e \in RingElements : RingSize[d] = 0 /\ RingSize[e] = 0 => d = e
  /\ \A s \in {"full", "empty", "done", "garbage"} : s \notin RingElements
BY RingAssumption DEF Ring!RingAssumption, Ring!Length

(* An offset from a place of the ring that is itself reached by an offset. *)
LEMMA Wrapping ==
  ASSUME NEW b \in 0 .. RingCells, NEW m \in Nat, NEW k \in Nat, m + k < RingCells
  PROVE  /\ Ring!At(Ring!After(b, m), k) = Ring!At(b, m + k)
         /\ Ring!At(b, m + k) \in 0 .. RingCells - 1
         /\ Ring!After(b, m) \in 0 .. RingCells
BY RingConstants DEF Ring!At, Ring!After

(* Offsets below the size of the ring do not meet.                         *)
LEMMA NoOverlap ==
  ASSUME NEW b \in 0 .. RingCells, NEW m \in 0 .. RingCells - 1, NEW n \in 0 .. RingCells - 1,
         Ring!At(b, m) = Ring!At(b, n)
  PROVE  m = n
BY RingConstants DEF Ring!At

(* Bytes that are those of two elements tell that they are one: their      *)
(* lengths agree, and only one element is empty.                           *)
LEMMA BytesTell ==
  ASSUME NEW d \in RingElements, NEW e \in RingElements, NEW f,
         \A k \in 0 .. Ring!Length(d) - 1 : f[k] = Ring!Byte(d, k),
         \A k \in 0 .. Ring!Length(e) - 1 : f[k] = Ring!Byte(e, k)
  PROVE  d = e
<1>1. 0 \in 0 .. Ring!Length(d) - 1 /\ 0 \in 0 .. Ring!Length(e) - 1
  BY RingConstants
<1>2. Ring!Byte(d, 0) = [length |-> RingSize[d], part |-> 0]
      /\ Ring!Byte(e, 0) = [length |-> RingSize[e], part |-> 0]
  BY RingConstants DEF Ring!Byte
<1>3. RingSize[d] = RingSize[e]
  <2>1. [length |-> RingSize[d], part |-> 0].length = [length |-> RingSize[e], part |-> 0].length
    BY <1>1, <1>2
  <2> QED BY <2>1
<1>4. CASE RingSize[d] = 0
  BY <1>3, <1>4, RingConstants
<1>5. CASE RingSize[d] # 0
  <2>1. RingWord \in 0 .. Ring!Length(d) - 1 /\ RingWord \in 0 .. Ring!Length(e) - 1
    BY <1>3, <1>5, RingConstants
  <2>2. Ring!Byte(d, RingWord) = [element |-> d, part |-> RingWord - RingWord]
        /\ Ring!Byte(e, RingWord) = [element |-> e, part |-> RingWord - RingWord]
    BY RingConstants DEF Ring!Byte
  <2>3. [element |-> d, part |-> RingWord - RingWord].element
          = [element |-> e, part |-> RingWord - RingWord].element
    BY <2>1, <2>2
  <2> QED BY <2>3
<1> QED BY <1>4, <1>5

(* The element that pop_front finds is the one whose bytes lie there.      *)
LEMMA StandsThere ==
  ASSUME bot \in 0 .. RingCells, NEW e \in RingElements, NEW m \in Nat,
         m + Ring!Length(e) <= RingCells, LiesAt(e, m)
  PROVE  Ring!ElementAt(Ring!After(bot, m)) = e
<1> DEFINE i == Ring!After(bot, m)
           here == {d \in RingElements : \A k \in 0 .. Ring!Length(d) - 1 :
                                           bytes[Ring!At(i, k)] = Ring!Byte(d, k)}
<1>1. \A k \in 0 .. Ring!Length(e) - 1 : Ring!At(i, k) = Ring!At(bot, m + k)
  <2> SUFFICES ASSUME NEW k \in 0 .. Ring!Length(e) - 1
               PROVE  Ring!At(i, k) = Ring!At(bot, m + k)
    OBVIOUS
  <2>1. k \in Nat /\ m + k < RingCells
    BY RingConstants
  <2> QED BY <2>1, Wrapping
<1>2. e \in here
  BY <1>1 DEF LiesAt
<1>3. ASSUME NEW d \in here PROVE d = e
  <2> DEFINE f == [k \in Nat |-> bytes[Ring!At(i, k)]]
  <2>1. \A k \in 0 .. Ring!Length(d) - 1 : f[k] = Ring!Byte(d, k)
    OBVIOUS
  <2>2. \A k \in 0 .. Ring!Length(e) - 1 : f[k] = Ring!Byte(e, k)
    BY <1>2
  <2> HIDE DEF f
  <2> QED BY <2>1, <2>2, BytesTell
<1>4. Ring!ElementAt(i) = IF here = {} THEN "garbage" ELSE CHOOSE d \in here : TRUE
  BY DEF Ring!ElementAt
<1> HIDE DEF here, i
<1>5. (CHOOSE d \in here : TRUE) = e
  BY <1>2, <1>3
<1> QED BY <1>2, <1>4, <1>5 DEF i

(* What pop_front finds is an element, or no element of the queue at all.  *)
LEMMA SomeElement ==
  ASSUME NEW i
  PROVE  Ring!ElementAt(i) \in RingElements \cup {"garbage"}
BY DEF Ring!ElementAt

(* Reading the ring from bot on gives back the elements that were laid     *)
(* down: the recursive function reads one element for each end in o.       *)
LEMMA ContentsAreLaid ==
  ASSUME InPlace, NEW q, NEW o, Laid(q, o)
  PROVE  Ring!Contents = q
<1> DEFINE u == Ring!Used
           n == Len(q)
           el(k) == Ring!ElementAt(Ring!After(bot, u - k))
           Body(f, k) == IF k = 0 THEN <<>>
                         ELSE IF el(k) = "garbage" \/ Ring!Length(el(k)) > k THEN <<"garbage">>
                         ELSE <<el(k)>> \o f[k - Ring!Length(el(k))]
           Solves(f, k) == f = [j \in 0 .. k |-> Body(f, j)]
<1>1. /\ top \in 0 .. RingCells /\ bot \in 0 .. RingCells /\ RingCells \in Nat
      /\ u \in 0 .. RingCells /\ (u = 0 \/ u < RingCells)
  BY RingConstants DEF InPlace, Ring!TypeOK, Ring!Used
<1>2. /\ n \in Nat /\ \A i \in 1 .. n : q[i] \in RingElements
      /\ q \in Seq(RingElements) /\ DOMAIN q = 1 .. n
      /\ o[0] = 0 /\ o[n] = u
      /\ \A i \in 1 .. n : o[i] = o[i - 1] + Ring!Length(q[i])
      /\ \A i \in 0 .. n : o[i] \in Nat /\ o[i] <= u
      /\ \A i \in 1 .. n : LiesAt(q[i], o[i - 1])
  BY DEF Laid, EndsAt
<1> DEFINE r == CHOOSE f : Solves(f, RingCells)
<1>3. Ring!Contents = r[u]
  BY DEF Ring!Contents
<1>4. \A k : el(k) \in RingElements \cup {"garbage"}
  BY SomeElement
<1> HIDE DEF u, n, el
<1>5. ASSUME NEW f, NEW g, NEW k \in Nat, \A i \in 0 .. k - 1 : f[i] = g[i]
      PROVE  Body(f, k) = Body(g, k)
  <2>1. CASE k # 0 /\ el(k) # "garbage" /\ ~(Ring!Length(el(k)) > k)
    <3>1. k - Ring!Length(el(k)) \in 0 .. k - 1
      <4>1. el(k) \in RingElements
        BY <1>4, <2>1
      <4>2. Ring!Length(el(k)) \in Nat \ {0}
        BY <4>1, RingConstants
      <4> QED BY <2>1, <4>2
    <3>2. f[k - Ring!Length(el(k))] = g[k - Ring!Length(el(k))]
      BY <1>5, <3>1
    <3> QED BY <3>2
  <2> QED BY <2>1
<1> HIDE DEF Body
<1> DEFINE S == {k \in Nat : \E f : Solves(f, k)}
<1>6. 0 \in S
  <2> DEFINE g == [j \in 0 .. 0 |-> Body(<<>>, 0)]
  <2>1. \A j \in 0 .. 0 : g[j] = Body(g, j)
    <3>1. Body(<<>>, 0) = Body(g, 0)
      BY <1>5
    <3> QED BY <3>1
  <2>2. g = [j \in 0 .. 0 |-> g[j]]
    OBVIOUS
  <2>3. Solves(g, 0)
    BY <2>1, <2>2
  <2> HIDE DEF Solves, g
  <2> QED BY <2>3
<1>7. ASSUME NEW k \in Nat, k \in S PROVE k + 1 \in S
  <2>1. PICK g : Solves(g, k)
    BY <1>7
  <2>2. \A j \in 0 .. k : g[j] = Body(g, j)
    BY <2>1
  <2> DEFINE h == [j \in 0 .. k + 1 |-> IF j = k + 1 THEN Body(g, k + 1) ELSE g[j]]
  <2>3. \A j \in 0 .. k : h[j] = g[j]
    OBVIOUS
  <2>4. h[k + 1] = Body(g, k + 1)
    OBVIOUS
  <2>5. h = [j \in 0 .. k + 1 |-> h[j]]
    OBVIOUS
  <2> HIDE DEF h, Solves
  <2>6. \A j \in 0 .. k + 1 : h[j] = Body(h, j)
    <3> SUFFICES ASSUME NEW j \in 0 .. k + 1 PROVE h[j] = Body(h, j)
      OBVIOUS
    <3>1. \A i \in 0 .. j - 1 : h[i] = g[i]
      BY <2>3
    <3>2. Body(h, j) = Body(g, j)
      BY <1>5, <3>1
    <3>3. h[j] = Body(g, j)
      BY <2>2, <2>3, <2>4
    <3> QED BY <3>2, <3>3
  <2>7. Solves(h, k + 1)
    BY <2>5, <2>6 DEF Solves
  <2> QED BY <2>7
<1>8. RingCells \in S
  <2> HIDE DEF S
  <2> QED BY <1>1, <1>6, <1>7, InductionOverSet
<1>9. Solves(r, RingCells)
  BY <1>8
<1> HIDE DEF r
<1>10. \A k \in 0 .. RingCells : r[k] = Body(r, k)
  BY <1>9
<1> DEFINE Rest(j) == LET s == r[u - o[n - j]]
                      IN  /\ s \in Seq(RingElements) /\ Len(s) = j
                          /\ \A m \in 1 .. j : s[m] = q[(n - j) + m]
           T == {j \in Nat : j <= n => Rest(j)}
<1>11. 0 \in T
  <2>1. r[0] = <<>>
    <3>1. r[0] = Body(r, 0)
      BY <1>1, <1>10
    <3> QED BY <3>1 DEF Body
  <2>2. u - o[n - 0] = 0
    BY <1>1, <1>2
  <2>3. Rest(0)
    <3>1. r[u - o[n - 0]] = <<>>
      BY <2>1, <2>2
    <3> QED BY <3>1
  <2> QED BY <2>3
<1>12. ASSUME NEW j \in Nat, j \in T PROVE j + 1 \in T
  <2> SUFFICES ASSUME j + 1 <= n PROVE Rest(j + 1)
    OBVIOUS
  <2> DEFINE i == n - j
             k == u - o[n - (j + 1)]
             s == r[u - o[n - j]]
  <2>1. i \in 1 .. n /\ i - 1 \in 0 .. n /\ n - (j + 1) = i - 1
    BY <1>2
  <2>2. /\ q[i] \in RingElements /\ o[i] = o[i - 1] + Ring!Length(q[i]) /\ LiesAt(q[i], o[i - 1])
        /\ o[i] \in Nat /\ o[i - 1] \in Nat /\ o[i] <= u /\ Ring!Length(q[i]) \in Nat \ {0}
    BY <1>2, <2>1, RingConstants
  <2>3. k = u - o[i - 1] /\ k \in 1 .. RingCells /\ u - k = o[i - 1] /\ Ring!Length(q[i]) <= k
        /\ k - Ring!Length(q[i]) = u - o[i]
    BY <1>1, <2>1, <2>2
  <2>4. el(k) = q[i]
    <3>1. o[i - 1] + Ring!Length(q[i]) <= RingCells
      BY <1>1, <2>2
    <3>2. Ring!ElementAt(Ring!After(bot, o[i - 1])) = q[i]
      BY <1>1, <2>2, <3>1, StandsThere
    <3> QED BY <2>3, <3>2 DEF el
  <2>5. r[k] = <<q[i]>> \o s
    <3>1. r[k] = Body(r, k)
      BY <1>10, <2>3
    <3>2. q[i] # "garbage"
      BY <2>2, RingConstants
    <3>3. ~(Ring!Length(q[i]) > k) /\ k # 0
      BY <1>1, <2>2, <2>3
    <3> HIDE DEF k
    <3> QED BY <2>3, <2>4, <3>1, <3>2, <3>3 DEF Body
  <2>6. s \in Seq(RingElements) /\ Len(s) = j /\ \A m \in 1 .. j : s[m] = q[(n - j) + m]
    <3>1. Rest(j)
      BY <1>2, <1>12
    <3> QED BY <3>1
  <2> HIDE DEF s
  <2>7. /\ <<q[i]>> \o s \in Seq(RingElements) /\ Len(<<q[i]>> \o s) = j + 1
        /\ (<<q[i]>> \o s)[1] = q[i]
        /\ \A m \in 1 .. j : (<<q[i]>> \o s)[m + 1] = s[m]
    BY <2>2, <2>6
  <2> DEFINE t == <<q[i]>> \o s
  <2> HIDE DEF t
  <2>8. \A m \in 1 .. j + 1 : t[m] = q[(n - (j + 1)) + m]
    <3> SUFFICES ASSUME NEW m \in 1 .. j + 1 PROVE t[m] = q[(n - (j + 1)) + m]
      OBVIOUS
    <3>1. CASE m = 1
      BY <1>2, <2>7, <3>1 DEF t
    <3>2. CASE m # 1
      <4>1. m - 1 \in 1 .. j /\ (m - 1) + 1 = m /\ (n - (j + 1)) + m = (n - j) + (m - 1)
        BY <1>2, <3>2
      <4> QED BY <2>6, <2>7, <4>1 DEF t
    <3> QED BY <3>1, <3>2
  <2> QED BY <2>5, <2>7, <2>8 DEF t
<1>13. Rest(n)
  <2> HIDE DEF Rest
  <2>1. n \in T
    <3> HIDE DEF T
    <3> QED BY <1>2, <1>11, <1>12, InductionOverSet
  <2> QED BY <1>2, <2>1
<1>14. r[u] \in Seq(RingElements) /\ Len(r[u]) = n /\ \A m \in 1 .. n : r[u][m] = q[m]
  <2>1. u - o[n - n] = u /\ \A m \in 1 .. n : (n - n) + m = m
    BY <1>1, <1>2
  <2> QED BY <1>13, <2>1
<1> HIDE DEF Rest
<1>15. r[u] = q
  BY <1>2, <1>14 DEF n
<1> QED BY <1>3, <1>15

(* The bytes of a queue that is laid are the bytes of its elements.        *)
LEMMA UsedIsEnd ==
  ASSUME NEW q, NEW o, Laid(q, o), Ring!Contents = q
  PROVE  Ring!Fifo!Used = Ring!Used
<1> DEFINE n == Len(q)
           Solves(f) == f = [i \in 0 .. n |-> IF i = 0 THEN 0 ELSE f[i - 1] + RingWord + RingSize[q[i]]]
           r == CHOOSE f : Solves(f)
<1>1. /\ n \in Nat /\ q \in Seq(RingElements) /\ \A i \in 1 .. n : q[i] \in RingElements
      /\ DOMAIN o = 0 .. n /\ o[0] = 0 /\ o[n] = Ring!Used
      /\ \A i \in 1 .. n : o[i] = o[i - 1] + Ring!Length(q[i])
      /\ \A i \in 0 .. n : o[i] \in Nat
  BY DEF Laid, EndsAt
<1>2. Ring!Fifo!Used = r[n]
  BY DEF Ring!Fifo!Used
<1> HIDE DEF n
<1> DEFINE g == [i \in 0 .. n |-> o[i]]
<1>3. Solves(g)
  <2>1. ASSUME NEW i \in 0 .. n
        PROVE  g[i] = IF i = 0 THEN 0 ELSE g[i - 1] + RingWord + RingSize[q[i]]
    <3>1. CASE i = 0
      BY <1>1, <3>1
    <3>2. CASE i # 0
      <4>1. i \in 1 .. n /\ i - 1 \in 0 .. n /\ q[i] \in RingElements
        BY <1>1, <3>2
      <4>2. o[i] = o[i - 1] + Ring!Length(q[i]) /\ o[i - 1] \in Nat
            /\ Ring!Length(q[i]) = RingWord + RingSize[q[i]]
            /\ RingWord \in Nat /\ RingSize[q[i]] \in Nat
        BY <1>1, <4>1, RingConstants
      <4> QED BY <3>2, <4>1, <4>2
    <3> QED BY <3>1, <3>2
  <2> QED BY <2>1
<1>4. Solves(r)
  <2> HIDE DEF g, Solves
  <2> QED BY <1>3
<1> HIDE DEF r, g
<1>5. \A i \in 0 .. n : r[i] = IF i = 0 THEN 0 ELSE r[i - 1] + RingWord + RingSize[q[i]]
  BY <1>4
<1> DEFINE S == {i \in Nat : i <= n => r[i] = o[i]}
<1>6. 0 \in S
  BY <1>1, <1>5
<1>7. ASSUME NEW i \in Nat, i \in S PROVE i + 1 \in S
  <2> SUFFICES ASSUME i + 1 <= n PROVE r[i + 1] = o[i + 1]
    OBVIOUS
  <2>1. i + 1 \in 1 .. n /\ i + 1 \in 0 .. n /\ (i + 1) - 1 = i /\ i \in 0 .. n /\ r[i] = o[i]
    BY <1>1, <1>7
  <2>2. q[i + 1] \in RingElements /\ o[i + 1] = o[i] + Ring!Length(q[i + 1]) /\ o[i] \in Nat
    BY <1>1, <2>1
  <2>3. r[i + 1] = o[i] + RingWord + RingSize[q[i + 1]]
    BY <1>5, <2>1
  <2>4. /\ Ring!Length(q[i + 1]) = RingWord + RingSize[q[i + 1]]
        /\ RingWord \in Nat /\ RingSize[q[i + 1]] \in Nat
    BY <2>2, RingConstants
  <2> QED BY <2>2, <2>3, <2>4
<1>8. n \in S
  <2> HIDE DEF S
  <2> QED BY <1>1, <1>6, <1>7, InductionOverSet
<1> QED BY <1>1, <1>2, <1>8

(* The refinement mapping, in a state and in the next one.                 *)
Mapped(q, o) == InPlace /\ Laid(q, o) => Ring!Contents = q /\ Ring!Fifo!Used = Ring!Used

LEMMA MappedHere == \A q, o : Mapped(q, o)
BY ContentsAreLaid, UsedIsEnd DEF Mapped

LEMMA MappedNext == \A q, o : Mapped(q, o)'
<1>1. \A q, o : Mapped(q, o)
  BY MappedHere
<1>2. (\A q, o : Mapped(q, o))'
  BY <1>1, PTL
<1> QED BY <1>2

-----------------------------------------------------------------------------
(***************************************************************************)
(* The steps.                                                              *)
(***************************************************************************)
(* The places of the ring, and top in terms of what is used.               *)
LEMMA RingFacts ==
  ASSUME InPlace
  PROVE  /\ RingCells \in Nat /\ top \in 0 .. RingCells /\ bot \in 0 .. RingCells
         /\ stored \in 0 .. RingCells /\ storing \in RingElements \cup {"done"}
         /\ DOMAIN bytes = 0 .. RingCells - 1
         /\ Ring!Used \in 0 .. RingCells /\ top = Ring!After(bot, Ring!Used)
         /\ top = bot <=> Ring!Used = 0
BY RingConstants DEF InPlace, Ring!TypeOK, Ring!Used, Ring!After

(* A ring that was just created has no elements.                           *)
LEMMA RingInitial ==
  ASSUME Ring!Init
  PROVE  RingInv /\ \E o : Laid(<<>>, o)
<1> DEFINE o == [i \in 0 .. 0 |-> 0]
<1>1. /\ DOMAIN bytes = 0 .. RingCells - 1 /\ top = 0 /\ bot = 0 /\ stored = 0
      /\ storing = "done" /\ result = "done"
  BY DEF Ring!Init
<1>2. InPlace /\ Ring!Used = 0
  BY <1>1, RingConstants DEF InPlace, Ring!TypeOK, Ring!Used
<1>3. Laid(<<>>, o)
  BY <1>2 DEF Laid, EndsAt
<1> HIDE DEF o
<1> QED BY <1>1, <1>2, <1>3 DEF RingInv

(* An element is refused when it would fill the ring.                      *)
LEMMA PushStep ==
  ASSUME RingInv, NEW q, NEW o, Laid(q, o), NEW e \in Ring!Fitting, Ring!push_back(e)
  PROVE  /\ RingInv' /\ Laid(q, o)'
         /\ \/ result' = "full" /\ ~(Ring!Used + Ring!Length(e) < RingCells)
            \/ result' = result
<1>1. /\ UNCHANGED <<bytes, top, bot>> /\ storing = "done"
      /\ IF Ring!isFull(RingSize[e]) THEN result' = "full" /\ UNCHANGED <<storing, stored>>
         ELSE storing' = e /\ stored' = 0 /\ UNCHANGED result
  BY DEF Ring!push_back, Ring!Quiet
<1>2. /\ e \in RingElements /\ Ring!Length(e) < RingCells /\ Ring!Length(e) \in Nat
      /\ Ring!Length(e) = RingWord + RingSize[e] /\ RingWord \in Nat /\ RingSize[e] \in Nat
  BY RingConstants DEF Ring!Fitting
<1>3. Ring!isFull(RingSize[e]) <=> ~(Ring!Used + Ring!Length(e) < RingCells)
  <2>1. /\ RingCells \in Nat /\ top \in 0 .. RingCells /\ bot \in 0 .. RingCells
    BY RingFacts DEF RingInv
  <2> QED BY <1>2, <2>1 DEF Ring!isFull, Ring!Used
<1>4. Laid(q, o)' /\ Ring!Used' = Ring!Used
  BY <1>1 DEF Laid, LiesAt, Ring!Used
<1>5. InPlace'
  <2>1. storing' \in RingElements \cup {"done"} /\ stored' \in 0 .. RingCells
    BY <1>1, <1>2, RingFacts DEF RingInv
  <2>2. result' \in RingElements \cup {"full", "empty", "done", "garbage"}
    BY <1>1 DEF RingInv, InPlace, Ring!TypeOK
  <2> QED BY <1>1, <1>4, <2>1, <2>2 DEF RingInv, InPlace, Ring!TypeOK
<1>6. CASE Ring!isFull(RingSize[e])
  BY <1>1, <1>3, <1>4, <1>5, <1>6 DEF RingInv
<1>7. CASE ~Ring!isFull(RingSize[e])
  <2>1. storing' = e /\ stored' = 0 /\ result' = result
    BY <1>1, <1>7
  <2>2. Ring!Used' + Ring!Length(e) < RingCells
    BY <1>3, <1>4, <1>7
  <2>3. RingInv'
    BY <1>2, <1>4, <1>5, <2>1, <2>2 DEF RingInv
  <2> QED BY <1>4, <2>1, <2>3
<1> QED BY <1>6, <1>7

(* What is stored lies behind the elements of the queue.                   *)
LEMMA RingStoreStep ==
  ASSUME RingInv, NEW q, NEW o, Laid(q, o), Ring!Store
  PROVE  RingInv' /\ Laid(q, o)' /\ result' = result
<1> DEFINE u == Ring!Used
           v == Ring!Byte(storing, stored)
<1>1. /\ storing # "done" /\ stored < Ring!Length(storing)
      /\ bytes' = [bytes EXCEPT ![Ring!At(top, stored)] = v]
      /\ stored' = stored + 1
      /\ UNCHANGED <<top, bot, storing, result>>
  BY DEF Ring!Store, Ring!Quiet
<1>2. /\ storing \in Ring!Fitting /\ storing \in RingElements
      /\ u + Ring!Length(storing) < RingCells /\ Ring!Length(storing) \in Nat
      /\ \A k \in 0 .. stored - 1 : bytes[Ring!At(top, k)] = Ring!Byte(storing, k)
      /\ InPlace /\ u \in Nat /\ stored \in Nat /\ u + stored < RingCells
      /\ bot \in 0 .. RingCells /\ RingCells \in Nat /\ top = Ring!After(bot, u)
      /\ DOMAIN bytes = 0 .. RingCells - 1
  BY <1>1, RingFacts, RingConstants DEF RingInv, Ring!Fitting
<1>3. \A k \in 0 .. stored : Ring!At(top, k) = Ring!At(bot, u + k)
                             /\ Ring!At(bot, u + k) \in 0 .. RingCells - 1
  <2> SUFFICES ASSUME NEW k \in 0 .. stored
               PROVE  Ring!At(top, k) = Ring!At(bot, u + k)
                      /\ Ring!At(bot, u + k) \in 0 .. RingCells - 1
    OBVIOUS
  <2>1. k \in Nat /\ u + k < RingCells
    BY <1>2
  <2> QED BY <1>2, <2>1, Wrapping
<1> HIDE DEF v
<1>4. bytes'[Ring!At(bot, u + stored)] = v
  BY <1>1, <1>2, <1>3
<1>5. \A m \in 0 .. RingCells - 1 : m # u + stored => bytes'[Ring!At(bot, m)] = bytes[Ring!At(bot, m)]
  <2> SUFFICES ASSUME NEW m \in 0 .. RingCells - 1, m # u + stored
               PROVE  bytes'[Ring!At(bot, m)] = bytes[Ring!At(bot, m)]
    OBVIOUS
  <2>1. Ring!At(bot, m) # Ring!At(bot, u + stored)
    BY <1>2, NoOverlap
  <2>2. Ring!At(bot, m) \in 0 .. RingCells - 1
    BY <1>2 DEF Ring!At
  <2>3. Ring!At(top, stored) = Ring!At(bot, u + stored)
    BY <1>2, <1>3
  <2> QED BY <1>1, <1>2, <2>1, <2>2, <2>3
<1>6. Ring!Used' = u
  BY <1>1 DEF Ring!Used
<1> HIDE DEF u
<1>7. Laid(q, o)'
  <2>1. /\ q \in Seq(RingElements) /\ EndsAt(q, o) /\ o[Len(q)] = u /\ Len(q) \in Nat
        /\ \A i \in 1 .. Len(q) : q[i] \in RingElements /\ LiesAt(q[i], o[i - 1])
    BY DEF Laid, u
  <2>2. ASSUME NEW i \in 1 .. Len(q), NEW k \in 0 .. Ring!Length(q[i]) - 1
        PROVE  bytes'[Ring!At(bot, o[i - 1] + k)] = Ring!Byte(q[i], k)
    <3>1. /\ o[i] = o[i - 1] + Ring!Length(q[i]) /\ o[i - 1] \in Nat /\ o[i] \in Nat
          /\ o[i] <= u
      BY <2>1 DEF EndsAt
    <3>2. Ring!Length(q[i]) \in Nat
      BY <2>1, RingConstants
    <3>3. o[i - 1] + k \in 0 .. RingCells - 1 /\ o[i - 1] + k < u
      BY <1>2, <3>1, <3>2
    <3>4. bytes[Ring!At(bot, o[i - 1] + k)] = Ring!Byte(q[i], k)
      BY <2>1 DEF LiesAt
    <3> QED BY <1>2, <1>5, <3>3, <3>4
  <2>3. \A i \in 1 .. Len(q) : LiesAt(q[i], o[i - 1])'
    BY <1>1, <2>2 DEF LiesAt
  <2> QED BY <1>6, <2>1, <2>3 DEF Laid
<1>8. \A k \in 0 .. stored' - 1 : bytes'[Ring!At(top', k)] = Ring!Byte(storing', k)
  <2> SUFFICES ASSUME NEW k \in 0 .. stored
               PROVE  bytes'[Ring!At(bot, u + k)] = Ring!Byte(storing, k)
    BY <1>1, <1>2, <1>3
  <2>1. CASE k = stored
    BY <1>4, <2>1 DEF v
  <2>2. CASE k # stored
    <3>1. k \in 0 .. stored - 1 /\ u + k \in 0 .. RingCells - 1 /\ u + k # u + stored
      BY <1>2, <2>2
    <3> QED BY <1>2, <1>3, <1>5, <3>1
  <2> QED BY <2>1, <2>2
<1>9. InPlace'
  <2>1. stored' \in 0 .. RingCells /\ DOMAIN bytes' = 0 .. RingCells - 1
    BY <1>1, <1>2
  <2> QED BY <1>1, <1>2, <1>6, <2>1 DEF InPlace, Ring!TypeOK, u
<1>10. RingInv'
  <2>1. storing' \in Ring!Fitting /\ stored' <= Ring!Length(storing')
        /\ Ring!Used' + Ring!Length(storing') < RingCells
    BY <1>1, <1>2, <1>6
  <2> QED BY <1>7, <1>8, <1>9, <2>1 DEF RingInv
<1> QED BY <1>1, <1>7, <1>10

(* The element that is complete is the last one of the queue.              *)
LEMMA CommitStep ==
  ASSUME RingInv, NEW q, NEW o, Laid(q, o), Ring!Commit, NEW e, e = storing
  PROVE  /\ RingInv' /\ \E p : Laid(Append(q, e), p)'
         /\ e \in RingElements /\ Ring!Used + Ring!Length(e) < RingCells
         /\ result' = "done"
<1> DEFINE u == Ring!Used
           l == Ring!Length(e)
           n == Len(q)
           t == Append(q, e)
           p == [i \in 0 .. n + 1 |-> IF i = n + 1 THEN o[n] + l ELSE o[i]]
<1>1. /\ storing # "done" /\ stored = l /\ top' = Ring!After(top, l)
      /\ storing' = "done" /\ stored' = 0 /\ result' = "done" /\ UNCHANGED <<bytes, bot>>
  BY DEF Ring!Commit, Ring!Quiet
<1>2. /\ e \in RingElements /\ u + l < RingCells /\ l \in Nat \ {0}
      /\ \A k \in 0 .. l - 1 : bytes[Ring!At(top, k)] = Ring!Byte(e, k)
      /\ InPlace /\ u \in Nat /\ bot \in 0 .. RingCells /\ RingCells \in Nat
      /\ top = Ring!After(bot, u) /\ top \in 0 .. RingCells
  BY <1>1, RingFacts, RingConstants DEF RingInv
<1>3. Ring!Used' = u + l /\ top' \in 0 .. RingCells /\ top' # 0
  BY <1>1, <1>2 DEF Ring!Used, Ring!After
<1>4. InPlace'
  BY <1>1, <1>2, <1>3 DEF InPlace, Ring!TypeOK
<1>5. /\ q \in Seq(RingElements) /\ EndsAt(q, o) /\ o[n] = u /\ n \in Nat
      /\ \A i \in 1 .. n : q[i] \in RingElements /\ LiesAt(q[i], o[i - 1])
  BY DEF Laid
<1>6. /\ t \in Seq(RingElements) /\ Len(t) = n + 1 /\ t[n + 1] = e
      /\ \A i \in 1 .. n : t[i] = q[i]
  BY <1>2, <1>5
<1>7. \A k \in 0 .. l - 1 : bytes[Ring!At(bot, u + k)] = Ring!Byte(e, k)
  <2> SUFFICES ASSUME NEW k \in 0 .. l - 1
               PROVE  bytes[Ring!At(bot, u + k)] = Ring!Byte(e, k)
    OBVIOUS
  <2>1. k \in Nat /\ u + k < RingCells
    BY <1>2
  <2>2. Ring!At(top, k) = Ring!At(bot, u + k)
    BY <1>2, <2>1, Wrapping
  <2> QED BY <1>2, <2>2
<1> HIDE DEF u, l, n, t
<1>8. /\ DOMAIN p = 0 .. n + 1 /\ p[n + 1] = u + l /\ \A i \in 0 .. n : p[i] = o[i]
  BY <1>5
<1> HIDE DEF p
<1>o. /\ o[0] = 0 /\ \A i \in 1 .. n : o[i] = o[i - 1] + Ring!Length(q[i])
      /\ \A i \in 0 .. n : o[i] \in Nat /\ o[i] <= u
      /\ \A i, j \in 0 .. n : i <= j => o[i] <= o[j]
  BY <1>5 DEF EndsAt, n
<1>9. EndsAt(t, p)
  <2>1. p[0] = 0
    BY <1>5, <1>8, <1>o
  <2>2. ASSUME NEW i \in 1 .. n + 1 PROVE p[i] = p[i - 1] + Ring!Length(t[i])
    <3>1. CASE i = n + 1
      <4>1. n \in 0 .. n /\ i - 1 = n
        BY <1>5, <3>1
      <4>2. p[i - 1] = o[n]
        BY ONLY <1>8, <4>1
      <4>3. t[i] = e
        BY ONLY <1>6, <3>1
      <4> QED BY <1>2, <1>5, <1>8, <3>1, <4>2, <4>3 DEF l
    <3>2. CASE i # n + 1
      <4>1. i \in 1 .. n /\ i - 1 \in 0 .. n /\ i \in 0 .. n
        BY <1>5, <3>2
      <4> QED BY <1>6, <1>8, <1>o, <4>1
    <3> QED BY <3>1, <3>2
  <2>3. \A i \in 0 .. n + 1 : p[i] \in Nat
    <3> SUFFICES ASSUME NEW i \in 0 .. n + 1 PROVE p[i] \in Nat
      OBVIOUS
    <3>1. CASE i = n + 1
      BY <1>2, <1>8, <3>1
    <3>2. CASE i # n + 1
      <4>1. i \in 0 .. n
        BY <1>5, <3>2
      <4> QED BY <1>8, <1>o, <4>1
    <3> QED BY <3>1, <3>2
  <2>4. \A i, j \in 0 .. n + 1 : i <= j => p[i] <= p[j]
    <3> SUFFICES ASSUME NEW i \in 0 .. n + 1, NEW j \in 0 .. n + 1, i <= j
                 PROVE  p[i] <= p[j]
      OBVIOUS
    <3>1. CASE j = n + 1
      <4>1. i = n + 1 \/ i \in 0 .. n
        BY <1>5
      <4>2. p[j] = u + l /\ (i \in 0 .. n => p[i] \in Nat /\ p[i] <= u)
        BY <1>5, <1>8, <1>o, <3>1
      <4>3. i = n + 1 => p[i] = p[j]
        BY <3>1
      <4> QED BY <1>2, <4>1, <4>2, <4>3
    <3>2. CASE j # n + 1
      BY <1>5, <1>8, <1>o, <3>2
    <3> QED BY <3>1, <3>2
  <2> QED BY <1>6, <1>8, <2>1, <2>2, <2>3, <2>4 DEF EndsAt
<1>10. ASSUME NEW i \in 1 .. n + 1 PROVE LiesAt(t[i], p[i - 1])'
  <2>1. CASE i = n + 1
    <3>1. t[i] = e /\ p[i - 1] = u
      BY <1>5, <1>6, <1>8, <2>1
    <3> QED BY <1>1, <1>7, <3>1 DEF LiesAt, l
  <2>2. CASE i # n + 1
    <3>1. t[i] = q[i] /\ p[i - 1] = o[i - 1] /\ LiesAt(q[i], o[i - 1])
      BY <1>5, <1>6, <1>8, <2>2
    <3> QED BY <1>1, <3>1 DEF LiesAt
  <2> QED BY <2>1, <2>2
<1>11. Laid(t, p)'
  BY <1>3, <1>6, <1>8, <1>9, <1>10 DEF Laid, u
<1>12. RingInv'
  BY <1>1, <1>4, <1>11 DEF RingInv
<1> QED BY <1>1, <1>2, <1>11, <1>12 DEF t, u, l

(* The first element of the queue comes out, all of it.                    *)
LEMMA PopStep ==
  ASSUME RingInv, NEW q, NEW o, Laid(q, o), Ring!pop_front
  PROVE  /\ RingInv'
         /\ \/ q = <<>> /\ result' = "empty" /\ Laid(q, o)'
            \/ q # <<>> /\ result' = Head(q) /\ \E p : Laid(Tail(q), p)'
<1> DEFINE u == Ring!Used
           n == Len(q)
<1>1. /\ storing = "done" /\ UNCHANGED <<bytes, top, storing, stored>>
      /\ IF top = bot THEN result' = "empty" /\ UNCHANGED bot
         ELSE /\ result' = Ring!ElementAt(bot)
              /\ bot' = IF result' = "garbage" THEN bot ELSE Ring!After(bot, Ring!Length(result'))
  BY DEF Ring!pop_front, Ring!Quiet
<1>2. /\ InPlace /\ u \in Nat /\ u <= RingCells /\ RingCells \in Nat
      /\ bot \in 0 .. RingCells /\ top \in 0 .. RingCells
      /\ top = bot <=> u = 0
      /\ top = 0 => bot = 0
      /\ u = 0 \/ u < RingCells
  BY RingFacts DEF RingInv, InPlace
<1>3. /\ q \in Seq(RingElements) /\ EndsAt(q, o) /\ o[n] = u /\ n \in Nat
      /\ \A i \in 1 .. n : q[i] \in RingElements /\ LiesAt(q[i], o[i - 1])
  BY DEF Laid
<1>4. /\ o[0] = 0 /\ \A i \in 1 .. n : o[i] = o[i - 1] + Ring!Length(q[i])
      /\ \A i \in 0 .. n : o[i] \in Nat /\ o[i] <= u
      /\ \A i, j \in 0 .. n : i <= j => o[i] <= o[j]
  BY <1>3 DEF EndsAt
<1>5. CASE q = <<>>
  <2>1. u = 0
    BY <1>3, <1>4, <1>5
  <2>2. result' = "empty" /\ UNCHANGED <<bytes, top, bot, storing, stored>>
    BY <1>1, <1>2, <2>1
  <2>3. Laid(q, o)' /\ Ring!Used' = Ring!Used
    BY <2>2 DEF Laid, LiesAt, Ring!Used
  <2>4. InPlace'
    BY <1>2, <2>2, <2>3 DEF InPlace, Ring!TypeOK
  <2>5. RingInv'
    BY <1>1, <2>2, <2>3, <2>4 DEF RingInv
  <2> QED BY <1>5, <2>2, <2>3, <2>5
<1>6. CASE q # <<>>
  <2> DEFINE e == q[1]
             l == Ring!Length(e)
             t == Tail(q)
             p == [i \in 0 .. n - 1 |-> o[i + 1] - l]
  <2>1. /\ n >= 1 /\ e \in RingElements /\ l \in Nat \ {0} /\ LiesAt(e, 0) /\ l = o[1] /\ l <= u
        /\ Head(q) = e /\ 1 \in 1 .. n /\ 1 - 1 = 0
    <3>1. n >= 1 /\ 1 \in 1 .. n /\ 1 - 1 = 0 /\ Head(q) = e
      BY <1>3, <1>6
    <3>2. e \in RingElements /\ LiesAt(e, 0) /\ o[1] = o[0] + l /\ o[1] \in Nat /\ o[1] <= u
      BY <1>3, <1>4, <3>1
    <3>3. l \in Nat \ {0}
      BY <3>2, RingConstants
    <3> QED BY <1>4, <3>1, <3>2, <3>3
  <2>2. result' = e
    <3>1. top # bot /\ result' = Ring!ElementAt(bot)
      BY <1>1, <1>2, <2>1
    <3>2. Ring!ElementAt(Ring!After(bot, 0)) = e
      BY <1>2, <2>1, StandsThere
    <3>3. Ring!After(bot, 0) = bot
      BY <1>2 DEF Ring!After
    <3> QED BY <3>1, <3>2, <3>3
  <2>3. bot' = Ring!After(bot, l)
    <3>1. e # "garbage" /\ top # bot
      BY <1>2, <2>1, RingConstants
    <3> QED BY <1>1, <2>2, <3>1
  <2> HIDE DEF l, e
  <2>4. Ring!Used' = u - l /\ bot' \in 0 .. RingCells /\ top' = top
    <3>1. u = IF top >= bot THEN top - bot ELSE top - bot + RingCells
      BY DEF Ring!Used
    <3>2. bot' = IF bot + l <= RingCells THEN bot + l ELSE bot + l - RingCells
      BY <2>3 DEF Ring!After
    <3> HIDE DEF u
    <3>3. CASE top >= bot
      BY <1>1, <1>2, <2>1, <3>1, <3>2, <3>3 DEF Ring!Used
    <3>4. CASE top < bot
      <4>1. Ring!Used' = IF top >= bot' THEN top - bot' ELSE top - bot' + RingCells
        BY <1>1 DEF Ring!Used
      <4>2. u = top - bot + RingCells /\ l \in Nat /\ l <= u
        BY <1>2, <2>1, <3>1, <3>4
      <4>3. CASE bot + l <= RingCells
        <5>1. bot' = bot + l /\ bot' > top
          BY <1>2, <3>2, <3>4, <4>2, <4>3
        <5> QED BY <1>1, <1>2, <4>1, <4>2, <4>3, <5>1
      <4>4. CASE bot + l > RingCells
        <5>1. bot' = bot + l - RingCells /\ bot' <= top
          BY <1>2, <3>2, <4>2, <4>4
        <5> QED BY <1>1, <1>2, <4>1, <4>2, <4>4, <5>1
      <4> QED BY <1>2, <4>2, <4>3, <4>4
    <3> QED BY <1>2, <3>3, <3>4
  <2> HIDE DEF u
  <2>5. InPlace'
    <3>1. top' # 0
      BY <1>1, <1>2, <2>1
    <3>2. result' \in RingElements
      BY <2>1, <2>2
    <3> QED BY <1>1, <1>2, <2>1, <2>4, <3>1, <3>2 DEF InPlace, Ring!TypeOK
  <2>6. /\ t \in Seq(RingElements) /\ Len(t) = n - 1 /\ n - 1 \in Nat /\ n \in Nat
        /\ \A i \in 1 .. n - 1 : t[i] = q[i + 1]
    BY <1>3, <1>6, <2>1
  <2> HIDE DEF t, n
  <2>7. DOMAIN p = 0 .. n - 1 /\ \A i \in 0 .. n - 1 : p[i] = o[i + 1] - l
    OBVIOUS
  <2> HIDE DEF p
  <2>8. EndsAt(t, p)
    <3>1. p[0] = 0
      BY <1>4, <2>1, <2>6, <2>7
    <3>2. ASSUME NEW i \in 1 .. n - 1 PROVE p[i] = p[i - 1] + Ring!Length(t[i])
      <4>1. i + 1 \in 1 .. n /\ i \in 0 .. n - 1 /\ i - 1 \in 0 .. n - 1 /\ (i - 1) + 1 = i
            /\ (i + 1) - 1 = i /\ i \in 0 .. n
        BY <2>6
      <4>2. o[i + 1] = o[i] + Ring!Length(q[i + 1]) /\ o[i] \in Nat /\ q[i + 1] \in RingElements
        BY <1>3, <1>4, <4>1
      <4>3. Ring!Length(q[i + 1]) \in Nat /\ t[i] = q[i + 1]
        BY <2>6, <4>2, RingConstants
      <4> QED BY <2>1, <2>7, <4>1, <4>2, <4>3
    <3>3. ASSUME NEW i \in 0 .. n - 1 PROVE p[i] \in Nat
      <4>1. i + 1 \in 0 .. n /\ 1 \in 0 .. n /\ 1 <= i + 1
        BY <2>6
      <4>2. o[1] <= o[i + 1] /\ o[i + 1] \in Nat /\ o[1] \in Nat
        BY <1>4, <4>1
      <4> QED BY <2>1, <2>7, <4>2
    <3>4. ASSUME NEW i \in 0 .. n - 1, NEW j \in 0 .. n - 1, i <= j PROVE p[i] <= p[j]
      <4>1. i + 1 \in 0 .. n /\ j + 1 \in 0 .. n /\ i + 1 <= j + 1
        BY <2>6, <3>4
      <4>2. o[i + 1] <= o[j + 1] /\ o[i + 1] \in Nat /\ o[j + 1] \in Nat
        BY <1>4, <4>1
      <4> QED BY <2>1, <2>7, <4>2
    <3> QED BY <2>6, <2>7, <3>1, <3>2, <3>3, <3>4 DEF EndsAt
  <2>9. ASSUME NEW i \in 1 .. n - 1, NEW k \in 0 .. Ring!Length(t[i]) - 1
        PROVE  bytes'[Ring!At(bot', p[i - 1] + k)] = Ring!Byte(t[i], k)
    <3>1. i + 1 \in 1 .. n /\ i - 1 \in 0 .. n - 1 /\ (i - 1) + 1 = i /\ (i + 1) - 1 = i
          /\ i \in 0 .. n /\ i \in 1 .. n /\ i + 1 \in 0 .. n /\ 1 \in 0 .. n
      BY <2>6
    <3>2. /\ q[i + 1] \in RingElements /\ LiesAt(q[i + 1], o[i]) /\ t[i] = q[i + 1]
          /\ o[i + 1] = o[i] + Ring!Length(q[i + 1]) /\ o[i + 1] <= u
          /\ o[i] \in Nat /\ o[i + 1] \in Nat /\ o[1] <= o[i]
      BY <1>3, <1>4, <2>6, <3>1
    <3>3. Ring!Length(q[i + 1]) \in Nat
      BY <3>2, RingConstants
    <3>4. p[i - 1] = o[i] - l /\ p[i - 1] + k \in Nat /\ l \in Nat /\ u < RingCells
          /\ l + (p[i - 1] + k) = o[i] + k /\ o[i] + k < RingCells
      <4>1. p[i - 1] = o[i] - l
        BY <2>7, <3>1
      <4>2. l \in Nat /\ l <= o[i] /\ u < RingCells
        BY <1>2, <2>1, <3>2
      <4> QED BY <1>2, <3>2, <3>3, <4>1, <4>2
    <3>5. Ring!At(Ring!After(bot, l), p[i - 1] + k) = Ring!At(bot, o[i] + k)
      BY <1>2, <3>4, Wrapping
    <3>6. bytes[Ring!At(bot, o[i] + k)] = Ring!Byte(q[i + 1], k)
      BY <3>2 DEF LiesAt
    <3> QED BY <1>1, <2>3, <3>2, <3>5, <3>6
  <2>10. \A i \in 1 .. n - 1 : LiesAt(t[i], p[i - 1])'
    BY <2>9 DEF LiesAt
  <2>11. p[n - 1] = u - l
    BY <1>3, <2>6, <2>7
  <2>12. Laid(t, p)'
    BY <2>4, <2>6, <2>8, <2>10, <2>11 DEF Laid
  <2>13. RingInv'
    BY <1>1, <2>5, <2>12 DEF RingInv
  <2> QED BY <1>6, <2>1, <2>2, <2>12, <2>13 DEF t
<1> QED BY <1>5, <1>6

(* A process that dies leaves the queue as it is.                          *)
LEMMA SameStep ==
  ASSUME RingInv, NEW q, NEW o, Laid(q, o), Ring!Die \/ UNCHANGED Ring!vars
  PROVE  RingInv' /\ Laid(q, o)' /\ result' = result
<1>1. /\ UNCHANGED <<bytes, top, bot, result>>
      /\ \/ storing' = "done" /\ stored' = 0
         \/ UNCHANGED <<storing, stored>>
  BY DEF Ring!Die, Ring!vars
<1>2. Laid(q, o)' /\ Ring!Used' = Ring!Used
  BY <1>1 DEF Laid, LiesAt, Ring!Used
<1>3. 0 \in 0 .. RingCells
  BY RingConstants
<1>4. InPlace'
  BY <1>1, <1>2, <1>3 DEF RingInv, InPlace, Ring!TypeOK
<1>5. RingInv'
  BY <1>1, <1>2, <1>4 DEF RingInv
<1> QED BY <1>1, <1>2, <1>5

(* Every step is one of the queue of elements, or none.                    *)
LEMMA RingStep ==
  ASSUME RingInv, [Ring!Next]_(Ring!vars)
  PROVE  RingInv' /\ [Ring!Fifo!Next]_(Ring!Fifo!fvars)
<1>1. PICK q, o : Laid(q, o)
  BY DEF RingInv
<1>2. Ring!Contents = q /\ Ring!Fifo!Used = Ring!Used /\ q \in Seq(RingElements)
  BY <1>1, MappedHere DEF Mapped, RingInv, Laid
<1>3. \A p, w : RingInv' /\ Laid(p, w)' => Ring!Contents' = p
  BY MappedNext DEF Mapped, RingInv
<1>4. \A e \in RingElements : Ring!Fifo!Fits(e) <=> Ring!Used + Ring!Length(e) < RingCells
  <2> SUFFICES ASSUME NEW e \in RingElements
               PROVE  Ring!Fifo!Fits(e) <=> Ring!Used + Ring!Length(e) < RingCells
    OBVIOUS
  <2>1. /\ Ring!Used \in Nat /\ Ring!Length(e) = RingWord + RingSize[e]
        /\ RingWord \in Nat /\ RingSize[e] \in Nat
    BY RingConstants, RingFacts DEF RingInv
  <2>2. Ring!Fifo!Fits(e) <=> Ring!Used + RingWord + RingSize[e] < RingCells
    BY <1>2 DEF Ring!Fifo!Fits
  <2> QED BY <2>1, <2>2
<1>5. ASSUME RingInv', Laid(q, o)', result' = result
      PROVE  RingInv' /\ [Ring!Fifo!Next]_(Ring!Fifo!fvars)
  <2>1. Ring!Contents' = Ring!Contents
    BY <1>2, <1>3, <1>5
  <2> QED BY <1>5, <2>1 DEF Ring!Fifo!fvars
<1>6. ASSUME NEW e \in Ring!Fitting, Ring!push_back(e)
      PROVE  RingInv' /\ [Ring!Fifo!Next]_(Ring!Fifo!fvars)
  <2>1. /\ RingInv' /\ Laid(q, o)'
        /\ \/ result' = "full" /\ ~(Ring!Used + Ring!Length(e) < RingCells)
           \/ result' = result
    BY <1>1, <1>6, PushStep
  <2>2. CASE result' = "full" /\ ~(Ring!Used + Ring!Length(e) < RingCells)
    <3>1. e \in RingElements
      BY DEF Ring!Fitting
    <3>2. ~Ring!Fifo!Fits(e) /\ Ring!Contents' = Ring!Contents
      BY <1>2, <1>3, <1>4, <2>1, <2>2, <3>1
    <3>3. Ring!Fifo!Refuse(e)
      BY <2>2, <3>2 DEF Ring!Fifo!Refuse
    <3> QED BY <2>1, <3>1, <3>3 DEF Ring!Fifo!Next
  <2>3. CASE result' = result
    BY <1>5, <2>1, <2>3
  <2> QED BY <2>1, <2>2, <2>3
<1>7. CASE Ring!Store
  BY <1>1, <1>5, <1>7, RingStoreStep
<1>8. CASE Ring!Commit
  <2>1. PICK e : e = storing
    OBVIOUS
  <2>2. PICK p : /\ RingInv' /\ Laid(Append(q, e), p)' /\ result' = "done"
                 /\ e \in RingElements /\ Ring!Used + Ring!Length(e) < RingCells
    BY <1>1, <1>8, <2>1, CommitStep
  <2>3. Ring!Contents' = Append(q, e)
    BY <1>3, <2>2
  <2>4. Ring!Fifo!Push(e)
    BY <1>2, <1>4, <2>2, <2>3 DEF Ring!Fifo!Push
  <2> QED BY <2>2, <2>4 DEF Ring!Fifo!Next
<1>9. CASE Ring!Die \/ UNCHANGED Ring!vars
  BY <1>1, <1>5, <1>9, SameStep
<1>10. CASE Ring!pop_front
  <2>1. /\ RingInv'
        /\ \/ q = <<>> /\ result' = "empty" /\ Laid(q, o)'
           \/ q # <<>> /\ result' = Head(q) /\ \E p : Laid(Tail(q), p)'
    BY <1>1, <1>10, PopStep
  <2>2. CASE q = <<>> /\ result' = "empty" /\ Laid(q, o)'
    <3>1. Ring!Contents' = Ring!Contents
      BY <1>2, <1>3, <2>1, <2>2
    <3>2. Ring!Fifo!PopNothing
      BY <1>2, <2>2, <3>1 DEF Ring!Fifo!PopNothing
    <3> QED BY <2>1, <3>2 DEF Ring!Fifo!Next
  <2>3. CASE q # <<>> /\ result' = Head(q) /\ \E p : Laid(Tail(q), p)'
    <3>1. Ring!Contents' = Tail(q)
      BY <1>3, <2>1, <2>3
    <3>2. Ring!Fifo!Pop
      BY <1>2, <2>3, <3>1 DEF Ring!Fifo!Pop
    <3> QED BY <2>1, <3>2 DEF Ring!Fifo!Next
  <2> QED BY <2>1, <2>2, <2>3
<1> QED BY <1>6, <1>7, <1>8, <1>9, <1>10 DEF Ring!Next

(* Elements come out whole and in order, and are refused only when they    *)
(* would fill the memory, wherever the ring wraps and whenever processes   *)
(* are killed in a push, for any elements and any size of the memory.      *)
THEOREM RingImplementsFifo == Ring!Spec => RingIsFifo
<1>1. Ring!Init => RingInv
  BY RingInitial
<1>2. Ring!Init => Ring!Fifo!Init
  <2> SUFFICES ASSUME Ring!Init PROVE Ring!Fifo!Init
    OBVIOUS
  <2>1. PICK o : Laid(<<>>, o)
    BY RingInitial
  <2>2. Ring!Contents = <<>>
    BY <2>1, RingInitial, MappedHere DEF Mapped, RingInv
  <2> QED BY <2>2 DEF Ring!Fifo!Init, Ring!Init
<1>3. RingInv /\ [Ring!Next]_(Ring!vars) => RingInv' /\ [Ring!Fifo!Next]_(Ring!Fifo!fvars)
  BY RingStep
<1>4. RingInv => Ring!TypeOK
  BY DEF RingInv, InPlace
<1> QED BY <1>1, <1>2, <1>3, <1>4, PTL
        DEF Ring!Spec, RingIsFifo, Ring!ImplementsFifo, Ring!Fifo!Spec
================================================================================
