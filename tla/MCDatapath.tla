----------------------------- MODULE MCDatapath -----------------------------
(***************************************************************************)
(* Datapath for TLC: keys and CPUs are interchangeable in every invariant. *)
(***************************************************************************)
EXTENDS Datapath, TLC

Symmetric == Permutations(Key) \cup Permutations(CPU)
=============================================================================
