-------------------------------- MODULE CacheMap --------------------------------
(***************************************************************************)
(* What a cache in shared memory promises, processes that die included: a  *)
(* set changes the record of its own key and, when it needs room, drops    *)
(* whole records; one that reports success has stored what it was given,   *)
(* one that reports a failure has left its record alone.  del, erase and   *)
(* recover drop records; the other operations change none.                 *)
(***************************************************************************)
CONSTANTS Keys, Content, Absent, None

VARIABLES
  store,     \* what is read under each key
  hand       \* the operation in progress; old is what was stored before it

cvars == <<store, hand>>

Idle == [kind |-> None, key |-> None, new |-> None, old |-> None, res |-> None]

Init == store = [k \in Keys |-> Absent] /\ hand = Idle

Drop(k) == store' = [store EXCEPT ![k] = Absent]

BeginSet ==
  /\ hand = Idle
  /\ hand'.kind = "set" /\ hand'.key \in Keys /\ hand'.old = store[hand'.key]
  /\ UNCHANGED store

BeginDrop ==
  /\ hand = Idle /\ hand' = [Idle EXCEPT !.kind = "drop"]
  /\ UNCHANGED store \/ \E k \in Keys : Drop(k)

(* Until set returns anything may be read under its key.                   *)
Own == /\ hand.kind = "set"
       /\ \E c \in Content \cup {Absent} : store' = [store EXCEPT ![hand.key] = c]

Work ==
  /\ hand # Idle /\ hand' = [hand EXCEPT !.res = hand'.res]
  /\ \/ UNCHANGED store
     \/ \E k \in Keys \ {hand.key} : Drop(k)
     \/ Own

Kept == IF hand.res = "ok" THEN hand.new ELSE hand.old

Return ==
  /\ hand.kind = "drop" \/ (hand.kind = "set" /\ hand.res # None /\ store[hand.key] = Kept)
  /\ hand' = Idle /\ UNCHANGED store

(* The process dies.                                                       *)
Die == hand # Idle /\ hand.res = None /\ hand' = Idle /\ (UNCHANGED store \/ Own)

Next == BeginSet \/ BeginDrop \/ Work \/ Return \/ Die

Spec == Init /\ [][Next]_cvars
==============================================================================
