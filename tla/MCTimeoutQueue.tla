---------------------------- MODULE MCTimeoutQueue ----------------------------
(***************************************************************************)
(* Instances of TimeoutQueue for TLC.  The requests of FromRpc bring their *)
(* own ids, as a gateway that forwards its clients' sequence numbers makes *)
(* them do (test/HelloServer/src/HelloImp.cpp:39).                         *)
(***************************************************************************)
EXTENDS TimeoutQueue, TLC

CONSTANTS r1, r2, r3, r4

ReqSymmetry == Permutations(Reqs)
==============================================================================
