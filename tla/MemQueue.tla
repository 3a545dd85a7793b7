------------------------------- MODULE MemQueue -------------------------------
(***************************************************************************)
(* TC_MemQueue: a queue of byte strings in a ring of shared memory, each   *)
(* behind its length.  Its users hold a lock during an operation and may   *)
(* die in it.  An operation's changes of the indices go through the redo   *)
(* log of MemJournal, where JournalIsAtomic is proved: they happen at once *)
(* when doUpdate(true) has set the status.  The bytes are stored in place. *)
(*                                                                         *)
(* iPushCount and iPopCount only serve elementCount and are left out.      *)
(***************************************************************************)
EXTENDS Integers, Sequences

CONSTANTS
  Elements,
  Size,      \* the length of an element
  Word,      \* sizeof(size_t)
  Cells,     \* queueSize()
  Full, Empty, Done, Garbage

(* A length is stored before every element; there is one empty string.     *)
RingAssumption ==
  /\ Word \in Nat \ {0} /\ Cells \in Nat /\ Size \in [Elements -> Nat]
  /\ \A d, e \in Elements : Size[d] = 0 /\ Size[e] = 0 => d = e
  /\ {Full, Empty, Done, Garbage} \cap Elements = {}

VARIABLES
  bytes,     \* the memory behind the control block
  top,       \* iTopIndex, up to Cells included
  bot,       \* iBotIndex
  storing,   \* the element that a push is storing
  stored,    \* bytes of it that are in place
  result     \* what the last operation returned

vars == <<bytes, top, bot, storing, stored, result>>

Length(e) == Word + Size[e]

(* isFull lets anything into an empty queue: an element that fills the     *)
(* ring would leave it empty, a longer one would leave the ring.  Users    *)
(* are taken to push shorter ones only.                                    *)
Fitting == {e \in Elements : Length(e) < Cells}

(* The k-th byte of an element in the ring: of its length, or of itself.   *)
Byte(e, k) == IF k < Word THEN [length |-> Size[e], part |-> k]
              ELSE [element |-> e, part |-> k - Word]

Unused == [length |-> 0, part |-> -1]

TypeOK ==
  /\ DOMAIN bytes = 0 .. Cells - 1
  /\ top \in 0 .. Cells /\ bot \in 0 .. Cells
  /\ storing \in Elements \cup {Done} /\ stored \in 0 .. Cells
  /\ result \in Elements \cup {Full, Empty, Done, Garbage}

(* create.                                                                 *)
Init ==
  /\ bytes = [i \in 0 .. Cells - 1 |-> Unused]
  /\ top = 0 /\ bot = 0
  /\ storing = Done /\ stored = 0
  /\ result = Done

(* The k-th byte from an index, and the index behind n bytes: the end of   *)
(* the memory is left for its start only when there is more to come.       *)
At(i, k) == IF i + k < Cells THEN i + k ELSE i + k - Cells

After(i, n) == IF i + n <= Cells THEN i + n ELSE i + n - Cells

(* Mutant: full only when there is no room at all. *)
isFullExactly(n) ==
  \/ top < bot /\ top + Word + n > bot
  \/ top > bot /\ top + Word + n > bot + Cells

isFull(n) ==
  \/ top < bot /\ top + Word + n >= bot
  \/ top > bot /\ top + Word + n >= bot + Cells

Quiet == storing = Done

push_back(e) ==
  /\ Quiet
  /\ IF isFull(Size[e]) THEN result' = Full /\ UNCHANGED <<storing, stored>>
     ELSE storing' = e /\ stored' = 0 /\ UNCHANGED result
  /\ UNCHANGED <<bytes, top, bot>>

(* memcpy, byte by byte, and then doUpdate(true).                          *)
Store ==
  /\ ~Quiet /\ stored < Length(storing)
  /\ bytes' = [bytes EXCEPT ![At(top, stored)] = Byte(storing, stored)]
  /\ stored' = stored + 1
  /\ UNCHANGED <<top, bot, storing, result>>

Commit ==
  /\ ~Quiet /\ stored = Length(storing)
  /\ top' = After(top, Length(storing))
  /\ storing' = Done /\ stored' = 0 /\ result' = Done
  /\ UNCHANGED <<bytes, bot>>

(* The process dies: what it has stored stays behind the top.              *)
Die ==
  /\ ~Quiet
  /\ storing' = Done /\ stored' = 0
  /\ UNCHANGED <<bytes, top, bot, result>>

(* The element whose length and bytes are at an index.                     *)
ElementAt(i) ==
  LET here == {e \in Elements : \A k \in 0 .. Length(e) - 1 : bytes[At(i, k)] = Byte(e, k)}
  IN  IF here = {} THEN Garbage ELSE CHOOSE e \in here : TRUE

pop_front ==
  /\ Quiet
  /\ IF top = bot THEN result' = Empty /\ UNCHANGED bot
     ELSE /\ result' = ElementAt(bot)
          /\ bot' = IF result' = Garbage THEN bot ELSE After(bot, Length(result'))
  /\ UNCHANGED <<bytes, top, storing, stored>>

Next == (\E e \in Fitting : push_back(e)) \/ Store \/ Commit \/ Die \/ pop_front

Spec == Init /\ [][Next]_vars

-----------------------------------------------------------------------------
(***************************************************************************)
(* What is between the indices, as a queue of elements.                    *)
(***************************************************************************)
Used == IF top >= bot THEN top - bot ELSE top - bot + Cells

Contents ==
  LET last[n \in 0 .. Cells] ==      \* the last n bytes
        LET e == ElementAt(After(bot, Used - n))
        IN  IF n = 0 THEN <<>>
            ELSE IF e = Garbage \/ Length(e) > n THEN <<Garbage>>
            ELSE <<e>> \o last[n - Length(e)]
  IN  last[Used]

(* Elements come out whole and in order, and are refused only when they    *)
(* would fill the memory, wherever the ring wraps and though a process is  *)
(* killed in a push: stronger than the header's comment, which says that   *)
(* the queue does not break then but one datum may be wrong.               *)
Fifo == INSTANCE BoundedFifo WITH queue <- Contents

ImplementsFifo == []TypeOK /\ Fifo!Spec
==============================================================================
