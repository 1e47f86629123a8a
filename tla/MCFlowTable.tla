---------------------------- MODULE MCFlowTable ----------------------------
(***************************************************************************)
(* FlowTable for TLC: three keys share a bucket, the fourth has its own.   *)
(***************************************************************************)
EXTENDS FlowTable, TLC

CONSTANTS k1, k2, k3, k4, b1, b2, n1, n2, n3, n4

MCKey == {k1, k2, k3, k4}
MCTcp == {k2, k4}
MCHash == k1 :> b1 @@ k2 :> b1 @@ k3 :> b1 @@ k4 :> b2
Symmetric == Permutations({n1, n2, n3, n4})
=============================================================================
