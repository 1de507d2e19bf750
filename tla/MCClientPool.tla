---------------------------- MODULE MCClientPool ----------------------------
(* Instances of ClientPool for TLC: two or three nodes, one client each.   *)
EXTENDS ClientPool, TLC

CONSTANTS n1, n2, n3

TwoNodes == 1 :> n1 @@ 2 :> n2
ThreeNodes == 1 :> n1 @@ 2 :> n2 @@ 3 :> n3
=============================================================================
