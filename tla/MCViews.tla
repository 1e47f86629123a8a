------------------------------- MODULE MCViews -------------------------------
(* Three applications and two CPUs that count while an answer is under way. *)
EXTENDS Views
=============================================================================
