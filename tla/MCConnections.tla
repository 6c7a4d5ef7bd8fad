---------------------------- MODULE MCConnections ----------------------------
(* Instances of Connections for TLC: a and b live in the main thread and d *)
(* in the worker; a and d share a mutex of the pool.                       *)
EXTENDS Connections

CONSTANTS a, b, d, main, worker, c1, c2, destroyed

MCHome == a :> main @@ b :> main @@ d :> worker
MCMutexOf == a :> 2 @@ b :> 1 @@ d :> 2

Made1(c, sender, receiver) ==
  [conn |-> c, sender |-> sender, receiver |-> receiver, sig |-> destroyed]
MCConnected == {<<Made1(c1, a, b)>>, <<Made1(c1, d, b), Made1(c2, a, b)>>}
=============================================================================
