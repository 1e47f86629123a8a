---------------------------- MODULE MCLifecycle ----------------------------
(* Two daemons, started again and again, on two interfaces. *)
EXTENDS Lifecycle, TLC

Symmetric == Permutations(Proc) \cup Permutations(Iface)
=============================================================================
