------------------------------ MODULE MCRpcClient ------------------------------
(***************************************************************************)
(* Instances of RpcClient for TLC: the mixes of calls the runs use.        *)
(***************************************************************************)
EXTENDS RpcClient

CONSTANTS r1, r2, p1, c1, c2

Mix(first, second, hashed, conns) ==
  [kind |-> [r \in Calls |-> IF r = r1 THEN first ELSE second],
   hashed |-> hashed, conns |-> conns]

(* A synchronous and an asynchronous call in one queue, with a connection  *)
(* to spare; in the two queues, on one connection; and a call that has no  *)
(* answer.                                                                 *)
TwoCalls ==
  {Mix("sync", "async", {}, {c1, c2}),
   Mix("sync", "async", {r1}, {c1}),
   Mix("sync", "oneway", {}, {c1})}

OneCall == {Mix("sync", "none", {}, {c1})}
==============================================================================
