--------------------------- MODULE MCNdpiObserve ---------------------------
(***************************************************************************)
(* NdpiObserve for TLC: keys are interchangeable in every invariant.       *)
(***************************************************************************)
EXTENDS NdpiObserve, TLC

Symmetric == Permutations(Key)
=============================================================================
