------------------------------ MODULE ObsTypes ------------------------------
(***************************************************************************)
(* bpf/ndpi_obs_types.h: what the TC program and the daemon share.         *)
(*                                                                         *)
(* A flow key (the IPv4 5-tuple) and an nDPI application id are opaque     *)
(* values.  Of the ids the code tells apart NDPI_PROTOCOL_UNKNOWN (0) and  *)
(* the ids below 512, the only ones that have a slot in a counter array.   *)
(***************************************************************************)
EXTENDS Integers, FiniteSets

CONSTANTS
  Key,                     \* struct ndpi_obs_flow_key
  AppId,                   \* the __u16 application ids
  Countable,               \* the ids below 512
  Unknown,                 \* id 0, NDPI_PROTOCOL_UNKNOWN
  Capture,                 \* what events may carry of a packet
  FLOW_MAX_CLASSIFY_PKTS,  \* 8 in the code
  VerdictMapSize,          \* max_entries of verdict_map
  NoVerdict                \* verdict_map has no element for the key

ASSUME KeyAssumption  == IsFiniteSet(Key)
ASSUME AppAssumption  == /\ IsFiniteSet(AppId)
                         /\ Countable \subseteq AppId
                         /\ Unknown \in Countable
                         /\ NoVerdict \notin AppId
ASSUME CaptureAssumption == Capture \subseteq {"bytes", "none"}
ASSUME ThresholdAssumption == FLOW_MAX_CLASSIFY_PKTS \in 2..255
ASSUME VerdictMapAssumption == VerdictMapSize \in Nat

\* FLOW_STATE_*.  In flow_map "NEW" stands for a key the map does not hold:
\* the program never stores the value 0.
FlowState == {"NEW", "CLASSIFYING", "CLASSIFIED", "GAVE_UP"}

Terminal(s) == s \in {"CLASSIFIED", "GAVE_UP"}

\* struct ndpi_obs_flow_event, reduced to what ndpi_engine_process branches
\* on: data is "none" when data_len carries the 0xDEAD marker.
FlowEvent == [key : Key, data : {"bytes", "none"}]

VerdictMap == [Key -> AppId \cup {NoVerdict}]

\* A __u8 counter holds 0 .. U8-1.
U8 == 256

\* bpf_map_update_elem(verdict_map, &key, &app, BPF_ANY): an element that is
\* there is replaced, a new one needs room, and no caller looks at -E2BIG.
VerdictUpdate(vm, k, a) ==
  IF \/ vm[k] # NoVerdict
     \/ Cardinality({j \in Key : vm[j] # NoVerdict}) < VerdictMapSize
  THEN [vm EXCEPT ![k] = a]
  ELSE vm
=============================================================================
