--------------------------- MODULE FlowLifecycle ---------------------------
(***************************************************************************)
(* What the datapath promises of a flow, without CPUs, counts or maps: a   *)
(* flow becomes tracked once and ends once, by a verdict or by giving up.  *)
(* Its state, its application and the flow credit of that application      *)
(* change together, and nothing about an ended flow changes again.         *)
(***************************************************************************)
EXTENDS ObsTypes

CONSTANT VerdictApp

VARIABLES state, app, flows
vars == <<state, app, flows>>

Init ==
  /\ state = [k \in Key |-> "NEW"]
  /\ app = [k \in Key |-> Unknown]
  /\ flows = [a \in Countable |-> 0]

Track(k) ==
  /\ state[k] = "NEW"
  /\ state' = [state EXCEPT ![k] = "CLASSIFYING"]
  /\ UNCHANGED <<app, flows>>

End(k, s, a) ==
  /\ state[k] = "CLASSIFYING"
  /\ state' = [state EXCEPT ![k] = s]
  /\ app' = [app EXCEPT ![k] = a]
  /\ flows' = [b \in Countable |-> flows[b] + IF a = b THEN 1 ELSE 0]

Next == \E k \in Key :
  \/ Track(k)
  \/ \E a \in VerdictApp : End(k, "CLASSIFIED", a)
  \/ End(k, "GAVE_UP", Unknown)

Spec == Init /\ [][Next]_vars
=============================================================================
