------------------------------ MODULE MCThreadPool ------------------------------
(***************************************************************************)
(* An instance of ThreadPool for TLC.                                      *)
(***************************************************************************)
EXTENDS ThreadPool

CONSTANTS j1
==============================================================================
