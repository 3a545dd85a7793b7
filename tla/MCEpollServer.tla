----------------------------- MODULE MCEpollServer -----------------------------
(***************************************************************************)
(* Instances of EpollServer for TLC.                                       *)
(***************************************************************************)
EXTENDS EpollServer, TLC

CONSTANTS k1, k2

SockSymmetry == Permutations(Socks)
==============================================================================
