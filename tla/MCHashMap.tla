------------------------------- MODULE MCHashMap -------------------------------
(***************************************************************************)
(* Instances for TLC of two containers in shared memory whose changes go   *)
(* through the redo log: HashMap with two keys in one bucket and values    *)
(* that need a chunk behind their block, in three blocks, so that a second *)
(* record must evict the first one, and an update can need room as well;   *)
(* and MemQueue with strings of which some take a lap.  A behaviour is     *)
(* about one of the two.                                                   *)
(***************************************************************************)
EXTENDS HashMap, SharedRing, TLC

CONSTANTS k1, k2, v1, b1, b2, b3, e0, e1, e2

OneChunk == [v \in Values |-> 1]
OneBucket == [k \in Keys |-> 0]

ElementSize == [e \in RingElements |-> IF e = e0 THEN 0 ELSE IF e = e1 THEN 1 ELSE 3]

KeyAndBlockSymmetry == Permutations(Keys) \cup Permutations(Addr)

VARIABLE subject

ContainersInit ==
  /\ subject \in {"map", "ring"}
  /\ Init /\ Ring!Init

ContainersNext ==
  /\ \/ subject = "map" /\ Next /\ UNCHANGED ringVars
     \/ subject = "ring" /\ Ring!Next /\ UNCHANGED vars
  /\ UNCHANGED subject

ContainersSpec == ContainersInit /\ [][ContainersNext]_<<vars, ringVars, subject>>
==============================================================================
