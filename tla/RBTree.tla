-------------------------------- MODULE RBTree --------------------------------
(***************************************************************************)
(* The balanced tree of TC_RBTree in shared memory, on its undo log: set   *)
(* of a new record and del, store by store, by processes that may die at   *)
(* any of them.  Left out of the operations are what a record holds beside *)
(* its key, the set and get lists and the chunks; a block is named by the  *)
(* key of its record, and only-key records are not told apart.             *)
(***************************************************************************)
EXTENDS UndoLog, SequencesExt

CONSTANTS
  Keys,
  MaxStale   \* entries that dead processes leave without the status (bound)

VARIABLE
  op         \* the operation in progress: [name, key, todo], todo its stores

vars == <<logVars, op>>

(* The colours, and the fields: the address 0 is NULL and the head's.      *)
RED == 0
BLACK == 1

NodeFields == {"color", "parent", "left", "right"}
HeadFields == {"root", "elementCount"}

Places == (NodeFields \X Keys) \cup (HeadFields \X {0})

NoOp == [name |-> "none", key |-> 0, todo |-> <<>>]

TreeInit ==
  /\ undoMem = [p \in Places |-> 0] /\ before = undoMem
  /\ log = <<>> /\ status = 0
  /\ pc = "out" /\ next = 0
  /\ op = NoOp

-----------------------------------------------------------------------------
(***************************************************************************)
(* The algorithms read what they have just written.  A run of one is the   *)
(* memory it has got to and the stores it has made, [m, w].                *)
(***************************************************************************)
Root(m) == m[<<"root", 0>>]

Child(m, side, a) == m[<<side, a>>]

Parent(m, a) == m[<<"parent", a>>]

IsRed(m, a) == a # 0 /\ m[<<"color", a>>] = RED

Other(side) == IF side = "left" THEN "right" ELSE "left"

Save(r, f, a, v) == [m |-> [r.m EXCEPT ![<<f, a>>] = v], w |-> Append(r.w, <<<<f, a>>, v>>)]

SaveAll(r, list) == FoldLeft(LAMBDA x, s : Save(x, s[1], s[2], s[3]), r, list)

If(c, list) == IF c THEN list ELSE <<>>

(* The link to block a in its parent, or in the head, leads to b.          *)
Relinked(m, a, b) ==
  LET p == Parent(m, a)
  IN  IF p = 0 THEN <<<<"root", 0, b>>>>
      ELSE IF Child(m, "left", p) = a THEN <<<<"left", p, b>>>> ELSE <<<<"right", p, b>>>>

(* rotateLeft and rotateRight, one the mirror image of the other.          *)
rotate(r, i, side) ==
  LET m == r.m
      up == Child(m, Other(side), i)
      mid == Child(m, side, up)
  IN  SaveAll(r, <<<<Other(side), i, mid>>>>
                 \o If(mid # 0, <<<<"parent", mid, i>>>>)
                 \o <<<<side, up, i>>, <<"parent", up, Parent(m, i)>>>>
                 \o Relinked(m, i, up)
                 \o <<<<"parent", i, up>>>>)

RECURSIVE insertFixUp(_, _)
insertFixUp(r, i) ==
  LET m == r.m
      p == Parent(m, i)
  IN  IF ~IsRed(m, p) THEN Save(r, "color", Root(m), BLACK)
      ELSE LET g == Parent(m, p)
               side == IF p = Child(m, "left", g) THEN "left" ELSE "right"
               u == Child(m, Other(side), g)
               inner == Child(m, Other(side), p) = i
               turned == IF inner THEN rotate(r, p, side) ELSE r
               top == IF inner THEN i ELSE p
           IN  IF IsRed(m, u)
                 THEN insertFixUp(SaveAll(r, <<<<"color", u, BLACK>>, <<"color", p, BLACK>>,
                                               <<"color", g, RED>>>>), g)
                 ELSE insertFixUp(
                        rotate(SaveAll(turned, <<<<"color", top, BLACK>>, <<"color", g, RED>>>>),
                               g, Other(side)),
                        IF inner THEN p ELSE i)

(* getLastBlock: where the search for k ends.                              *)
RECURSIVE getLastBlock(_, _, _)
getLastBlock(m, a, k) ==
  LET down == IF k < a THEN Child(m, "left", a) ELSE Child(m, "right", a)
  IN  IF k = a \/ down = 0 THEN a ELSE getLastBlock(m, down, k)

find(m, k) ==
  IF Root(m) # 0 /\ getLastBlock(m, Root(m), k) = k THEN k ELSE 0

insertRBTree(r, k) ==
  LET last == getLastBlock(r.m, Root(r.m), k)
  IN  insertFixUp(IF Root(r.m) = 0 THEN Save(r, "root", 0, k)
                  ELSE SaveAll(r, <<<<"parent", k, last>>,
                                    <<IF k < last THEN "left" ELSE "right", last, k>>>>),
                  k)

(***************************************************************************)
(* eraseFixUp: i is the block, or 0, whose paths lack a black one, p is    *)
(* its parent, o the other child of p.                                     *)
(***************************************************************************)
RECURSIVE eraseFixUp(_, _, _)
eraseFixUp(r, i, p) ==
  IF IsRed(r.m, i) \/ i = Root(r.m)
    THEN IF i = 0 THEN r ELSE Save(r, "color", i, BLACK)
  ELSE
  LET side == IF Child(r.m, "left", p) = i THEN "left" ELSE "right"
      far == Other(side)
      o1 == Child(r.m, far, p)
      r1 == IF IsRed(r.m, o1)
              THEN rotate(SaveAll(r, <<<<"color", o1, BLACK>>, <<"color", p, RED>>>>), p, side)
              ELSE r
      o == Child(r1.m, far, p)
      bent == ~IsRed(r1.m, Child(r1.m, far, o))
      r2 == IF bent
              THEN rotate(SaveAll(r1, <<<<"color", Child(r1.m, side, o), BLACK>>,
                                        <<"color", o, RED>>>>), o, far)
              ELSE r1
      o2 == Child(r2.m, far, p)
      r3 == rotate(SaveAll(r2, <<<<"color", o2, r2.m[<<"color", p>>]>>, <<"color", p, BLACK>>,
                                 <<"color", Child(r2.m, far, o2), BLACK>>>>), p, side)
  IN  IF bent /\ ~IsRed(r1.m, Child(r1.m, side, o))
        THEN eraseFixUp(Save(r1, "color", o, RED), p, Parent(r1.m, p))
        ELSE Save(r3, "color", Root(r3.m), BLACK)

(* Mutant: the first block on the right is taken, leftmost or not. *)
LeftmostAtOnce(m, a) == a

RECURSIVE Leftmost(_, _)
Leftmost(m, a) == IF Child(m, "left", a) = 0 THEN a ELSE Leftmost(m, Child(m, "left", a))

(* The parent, in the end, of what was below i: i itself, when i moves from*)
(* below k to the place of k.                                              *)
Above(p, i, k) == IF p = k THEN i ELSE p

(* Mutant: block i keeps the colour it had. *)
PlacedUncoloured(m, i, k) ==
  <<<<"parent", i, Parent(m, k)>>,
    <<"right", i, Child(m, "right", k)>>, <<"left", i, Child(m, "left", k)>>>>
  \o Relinked(m, k, i)
  \o <<<<"parent", Child(m, "left", k), i>>>>
  \o If(Child(m, "right", k) # 0, <<<<"parent", Child(m, "right", k), i>>>>)

(* Block i takes the place of k.                                           *)
Placed(m, i, k) ==
  <<<<"parent", i, Parent(m, k)>>, <<"color", i, m[<<"color", k>>]>>,
    <<"right", i, Child(m, "right", k)>>, <<"left", i, Child(m, "left", k)>>>>
  \o Relinked(m, k, i)
  \o <<<<"parent", Child(m, "left", k), i>>>>
  \o If(Child(m, "right", k) # 0, <<<<"parent", Child(m, "right", k), i>>>>)

(* erase of block k from the tree; with two children the leftmost block on *)
(* its right takes its place.                                              *)
erase(r, k) ==
  LET m == r.m
      left == Child(m, "left", k)
      right == Child(m, "right", k)
      two == left # 0 /\ right # 0
      i == IF two THEN Leftmost(m, right) ELSE k
      c == IF two \/ left = 0 THEN Child(m, "right", i) ELSE left
      p == Parent(m, i)
      out == SaveAll(r, If(c # 0, <<<<"parent", c, p>>>>) \o Relinked(m, i, c))
      linked == IF two THEN SaveAll(out, Placed(out.m, i, k)) ELSE out
  IN  IF m[<<"color", i>>] = RED THEN linked ELSE eraseFixUp(linked, c, Above(p, i, k))

-----------------------------------------------------------------------------
(***************************************************************************)
(* Operations.                                                             *)
(***************************************************************************)
(* The process is between two stores of its operation.                     *)
At(name) == pc = "run" /\ op.todo = <<>> /\ op.name = name

Count(r, by) == Save(r, "elementCount", 0, r.m[<<"elementCount", 0>>] + by)

Stores(m) == [m |-> m, w |-> <<>>]

Begin(name, k, todo) ==
  /\ op' = [name |-> name, key |-> k, todo |-> todo]
  /\ UNCHANGED logVars

(* set of a key that is not there: a new block, free blocks read as        *)
(* makeNew will leave them, is put into the tree.                          *)
set(k) ==
  /\ At("none") /\ find(undoMem, k) = 0
  /\ Begin("set", k, Count(insertRBTree(Stores(undoMem), k), 1).w)

(* del of a key that is there.  Block::erase drops the log itself.         *)
del(k) ==
  /\ At("none") /\ find(undoMem, k) # 0
  /\ Begin("del", k, Count(erase(Stores(undoMem), k), -1).w)

saveValue ==
  /\ op.todo # <<>>
  /\ \/ Enter(Head(op.todo)[1]) /\ UNCHANGED op
     \/ Store(Head(op.todo)[2]) /\ op' = [op EXCEPT !.todo = Tail(@)]

finish ==
  /\ \E name \in {"set", "del"} : At(name)
  /\ doUpdate
  /\ op' = [op EXCEPT !.name = IF @ = "set" THEN "none" ELSE "erased"]

Cleared(m, k) == [p \in Places |-> IF p[1] \in NodeFields /\ p[2] = k THEN 0 ELSE m[p]]

(* The block that was erased goes to the allocator, beside the log; when   *)
(* the process dies first it is lost, and k will name another one.         *)
Clear(k) == undoMem' = Cleared(undoMem, k) /\ before' = Cleared(before, k)

deallocate ==
  /\ At("erased") /\ status = 0
  /\ Clear(op.key)
  /\ op' = NoOp
  /\ UNCHANGED <<log, status, pc, next>>

Die ==
  /\ status = 0 => Len(log) <= MaxStale
  /\ pc # "out" /\ pc' = "out"
  /\ IF op.name = "erased" THEN Clear(op.key) ELSE UNCHANGED <<undoMem, before>>
  /\ op' = NoOp
  /\ UNCHANGED <<log, status, next>>

TreeNext ==
  \/ \E k \in Keys : set(k) \/ del(k)
  \/ saveValue \/ finish \/ deallocate
  \/ (doRecover \/ LogStep \/ (At("none") /\ UndoReturn)) /\ UNCHANGED op
  \/ Die

TreeSpec == TreeInit /\ [][TreeNext]_vars

-----------------------------------------------------------------------------
(***************************************************************************)
(* Properties.                                                             *)
(***************************************************************************)

(* The blocks in the tree below a, in order, whatever pointers say.        *)
RECURSIVE InOrder(_, _, _)
InOrder(m, a, n) ==
  IF a = 0 \/ n = 0 THEN <<>>
  ELSE InOrder(m, Child(m, "left", a), n - 1) \o <<a>> \o InOrder(m, Child(m, "right", a), n - 1)

Nodes(m) == Range(InOrder(m, Root(m), Cardinality(Keys)))

(* The black blocks on the paths down from a.                              *)
RECURSIVE BlackHeights(_, _)
BlackHeights(m, a) ==
  IF a = 0 THEN {0}
  ELSE {h + m[<<"color", a>>] : h \in BlackHeights(m, Child(m, "left", a))
                                       \cup BlackHeights(m, Child(m, "right", a))}

(* At every store and after every death, what the log leads back to is a   *)
(* red-black tree: in order, linked both ways, black at the root, no red   *)
(* child of a red block, the same number of black ones on every path, with *)
(* the element count that belongs to it.                                   *)
TreeIsWhole ==
  LET m == before
      list == InOrder(m, Root(m), Cardinality(Keys))
  IN  /\ \A i, j \in DOMAIN list : i < j => list[i] < list[j]
      /\ Root(m) # 0 => ~IsRed(m, Root(m)) /\ Parent(m, Root(m)) = 0
      /\ \A a \in Range(list), side \in {"left", "right"} :
           Child(m, side, a) # 0 => /\ Parent(m, Child(m, side, a)) = a
                                    /\ ~(IsRed(m, a) /\ IsRed(m, Child(m, side, a)))
      /\ Cardinality(BlackHeights(m, Root(m))) = 1
      /\ m[<<"elementCount", 0>>] = Len(list)

(* What the map holds changes by the one key of the operation, at the      *)
(* moment the log is dropped, and not otherwise.                           *)
OneKeyAtATime ==
  [][LET old == Nodes(before)
         new == Nodes(before')
     IN  IF log # <<>> /\ log' = <<>> /\ pc = "run"
           THEN new = IF op.name = "set" THEN old \cup {op.key} ELSE old \ {op.key}
           ELSE new = old]_vars
==============================================================================
