------------------------------ MODULE BoundedFifo ------------------------------
(***************************************************************************)
(* What a queue in a piece of memory promises: elements come out whole and *)
(* in the order they went in, none is lost or made up although processes   *)
(* die, and an element is refused only if it would fill the memory.        *)
(***************************************************************************)
EXTENDS Integers, Sequences

CONSTANTS
  Elements,
  Size,      \* bytes of an element
  Word,      \* bytes of a length
  Cells,     \* bytes of memory
  Full, Empty, Done

VARIABLES
  queue,
  result     \* of the last operation

fvars == <<queue, result>>

Used ==
  LET first[n \in 0 .. Len(queue)] ==
        IF n = 0 THEN 0 ELSE first[n - 1] + Word + Size[queue[n]]
  IN  first[Len(queue)]

Fits(e) == Used + Word + Size[e] < Cells

Init == queue = <<>> /\ result = Done

Push(e) == Fits(e) /\ queue' = Append(queue, e) /\ result' = Done

Refuse(e) == ~Fits(e) /\ result' = Full /\ UNCHANGED queue

Pop == /\ queue # <<>>
       /\ queue' = Tail(queue) /\ result' = Head(queue)

PopNothing == queue = <<>> /\ result' = Empty /\ UNCHANGED queue

Next == (\E e \in Elements : Push(e) \/ Refuse(e)) \/ Pop \/ PopNothing

Spec == Init /\ [][Next]_fvars
==============================================================================
