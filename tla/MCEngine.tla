------------------------------ MODULE MCEngine ------------------------------
(***************************************************************************)
(* Engine for TLC: keys are interchangeable in every invariant.            *)
(***************************************************************************)
EXTENDS Engine, TLC

Symmetric == Permutations(Key)
=============================================================================
