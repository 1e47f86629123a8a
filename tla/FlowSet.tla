------------------------------- MODULE FlowSet -------------------------------
(***************************************************************************)
(* What the engine expects of its flow table, without buckets or pointers: *)
(* a set of flows, each with the time it was last seen.  A sweep drops     *)
(* exactly the flows idle for longer than their timeout and reports each   *)
(* once.                                                                   *)
(***************************************************************************)
EXTENDS Integers

CONSTANTS Key, Tcp, FLOW_TCP_IDLE_SEC, FLOW_UDP_IDLE_SEC, Absent

VARIABLES
  last_seen,  \* Key -> time, or Absent
  now,
  created,    \* flows created so far
  reported    \* Key -> times a sweep has reported it
vars == <<last_seen, now, created, reported>>

Timeout(k) == IF k \in Tcp THEN FLOW_TCP_IDLE_SEC ELSE FLOW_UDP_IDLE_SEC

Idle(k) == last_seen[k] # Absent /\ now - last_seen[k] > Timeout(k)

Init ==
  /\ last_seen = [k \in Key |-> Absent]
  /\ now = 0 /\ created = 0
  /\ reported = [k \in Key |-> 0]

Tick == now' = now + 1 /\ UNCHANGED <<last_seen, created, reported>>

See(k) ==
  /\ last_seen' = [last_seen EXCEPT ![k] = now]
  /\ created' = created + IF last_seen[k] = Absent THEN 1 ELSE 0
  /\ UNCHANGED <<now, reported>>

Sweep ==
  /\ last_seen' = [k \in Key |-> IF Idle(k) THEN Absent ELSE last_seen[k]]
  /\ reported' = [k \in Key |-> reported[k] + IF Idle(k) THEN 1 ELSE 0]
  /\ UNCHANGED <<now, created>>

Remove(k) ==
  /\ last_seen' = [last_seen EXCEPT ![k] = Absent]
  /\ UNCHANGED <<now, created, reported>>

Clear ==
  /\ last_seen' = [k \in Key |-> Absent]
  /\ UNCHANGED <<now, created, reported>>

Next == Tick \/ Sweep \/ Clear \/ \E k \in Key : See(k) \/ Remove(k)

Spec == Init /\ [][Next]_vars
=============================================================================
