------------------------------- MODULE MCTcp -------------------------------
(* Instances of Tcp for TLC: a client, whose open is one call, and a       *)
(* server, which needs one more to accept.                                 *)
EXTENDS Tcp, TLC

TcpCallBound == [r \in TcpRoles |-> IF r = "passive" THEN 4 ELSE 3]
TcpSymmetry == Permutations(TcpProcs)
=============================================================================
