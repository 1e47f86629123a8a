------------------------------ MODULE Datapath ------------------------------
(***************************************************************************)
(* bpf/ndpi_observe.bpf.c: process_pkt, the TC classifier that runs on     *)
(* every CPU for every packet of the interface, ingress and egress.        *)
(*                                                                         *)
(* The CPUs share flow_map and verdict_map without a lock: a value pointer *)
(* from bpf_map_lookup_elem is read and written in place.  Each access to  *)
(* a shared field is therefore a step of its own, and the two stores that  *)
(* end a flow's classification (state and app_id are adjacent plain        *)
(* fields) take effect in either order.  Softirqs are off while a TC       *)
(* program runs, so one CPU runs one packet at a time.                     *)
(*                                                                         *)
(* fs->bytes, fs->packets and fs->last_seen_ns are written here and read   *)
(* nowhere; the bytes of an app counter move with its packets.  Both are   *)
(* left out.  The daemon appears as the environment that consumes events   *)
(* and writes verdicts; NdpiObserve replaces it by the engine.             *)
(***************************************************************************)
EXTENDS ObsTypes, Sequences, FiniteSetsExt

CONSTANTS
  CPU,
  NoKey,         \* a CPU that runs no packet
  FlowMapSize,   \* max_entries of flow_map, 65536 in the code
  RingSize,      \* flow_events, in events: 16 MB in the code
  VerdictApp,    \* the ids the daemon writes into verdict_map
  MaxPackets     \* bound on the packets of a behaviour

ASSUME CpuAssumption == IsFiniteSet(CPU) /\ NoKey \notin Key
ASSUME SizeAssumption ==
  FlowMapSize \in Nat /\ RingSize \in Nat /\ MaxPackets \in Nat
ASSUME VerdictAppAssumption == VerdictApp \subseteq AppId

VARIABLES
  flow_map,      \* Key -> [state, pkt_count, app_id]
  verdict_map,   \* Key -> the verdict, or NoVerdict
  app_counters,  \* CPU -> countable id -> [packets, flows]
  flow_events,   \* the ring buffer
  cpu,           \* what each CPU holds in registers
  arrived,       \* history: packets that reached process_pkt's map lookup
  sent,          \* history: Key -> events submitted for it
  lost           \* history: packets in no counter and in no event

kernel == <<flow_map, app_counters, cpu, arrived, sent, lost>>
vars == <<kernel, verdict_map, flow_events>>

\* pc names the next access; "set" and "pend" are the state being stored and
\* the stores that have not taken effect yet.
PC == {"idle", "insert", "count_fast", "lookup", "read", "write", "store",
       "count_new", "send"}

Registers == [pc : PC, key : Key \cup {NoKey}, data : {"bytes", "none"}, cnt : 0..(U8-1),
              app : AppId, set : FlowState, pend : SUBSET {"state", "app_id"}]

Idle == [pc |-> "idle", key |-> NoKey, data |-> "none", cnt |-> 0,
         app |-> Unknown, set |-> "NEW", pend |-> {}]

NotTracked == [state |-> "NEW", pkt_count |-> 0, app_id |-> Unknown]

Init ==
  /\ flow_map = [k \in Key |-> NotTracked]
  /\ verdict_map = [k \in Key |-> NoVerdict]
  /\ app_counters = [c \in CPU |-> [a \in Countable |-> [packets |-> 0, flows |-> 0]]]
  /\ flow_events = <<>>
  /\ cpu = [c \in CPU |-> Idle]
  /\ arrived = 0
  /\ sent = [k \in Key |-> 0]
  /\ lost = 0
-----------------------------------------------------------------------------
(* The definitions named <definition>_<fault> are seeded faults, used only to
   show that a property notices them. *)

Counted_always_new(cnt, new_flow) == [packets |-> cnt.packets + 1, flows |-> cnt.flows + 1]
Counted(cnt, new_flow) == [packets |-> cnt.packets + 1, flows |-> cnt.flows + new_flow]

\* update_app_counter on CPU c: an id without a slot is not counted at all.
UpdateAppCounter(c, a, new_flow) ==
  IF a \in Countable
  THEN /\ app_counters' = [app_counters EXCEPT
            ![c][a] = Counted(@, new_flow)]
       /\ UNCHANGED lost
  ELSE /\ lost' = lost + 1
       /\ UNCHANGED app_counters

\* The registers of CPU c.
Becomes(c, r) == cpu' = [cpu EXCEPT ![c] = r]

\* Where a packet goes, by the state its flow is found in.
Dispatch_revives_given_up(s) ==
  IF s = "NEW" THEN "insert" ELSE IF s = "CLASSIFIED" THEN "count_fast" ELSE "lookup"
Dispatch(s) ==
  IF s = "NEW" THEN "insert" ELSE IF Terminal(s) THEN "count_fast" ELSE "lookup"

\* A packet gets past the header checks; its flow is looked up in flow_map and,
\* when it is there, the state is tested.
Arrive(c, k, d) ==
  /\ cpu[c].pc = "idle"
  /\ arrived < MaxPackets
  /\ arrived' = arrived + 1
  /\ Becomes(c, [Idle EXCEPT !.key = k, !.data = d, !.pc = Dispatch(flow_map[k].state)])
  /\ UNCHANGED <<flow_map, verdict_map, app_counters, flow_events, sent, lost>>

HasRoom == Cardinality({k \in Key : flow_map[k].state # "NEW"}) < FlowMapSize

\* Whether bpf_map_update_elem(flow_map, k, .., BPF_NOEXIST) stores; with BPF_ANY
\* it would replace an entry that is there.
Inserts_any(k) == flow_map[k].state # "NEW" \/ HasRoom
Inserts(k) == flow_map[k].state = "NEW" /\ HasRoom

\* The flow was not there.  BPF_NOEXIST leaves an entry another CPU has put in
\* meanwhile, a full map refuses the insert, and neither result is looked at.
InsertNew(c) ==
  LET k == cpu[c].key IN
  /\ cpu[c].pc = "insert"
  /\ flow_map' = IF Inserts(k)
                 THEN [flow_map EXCEPT ![k] = [state |-> "CLASSIFYING",
                                               pkt_count |-> 1, app_id |-> Unknown]]
                 ELSE flow_map
  /\ Becomes(c, [cpu[c] EXCEPT !.pc = "send"])
  /\ UNCHANGED <<verdict_map, app_counters, flow_events, arrived, sent, lost>>

CountFast_falls_through(c) ==
  /\ cpu[c].pc = "count_fast"
  /\ UpdateAppCounter(c, flow_map[cpu[c].key].app_id, 0)
  /\ Becomes(c, [cpu[c] EXCEPT !.pc = "send"])
  /\ UNCHANGED <<flow_map, verdict_map, flow_events, arrived, sent>>

\* The flow was CLASSIFIED or GAVE_UP: app_id is read and the packet counted.
CountFast(c) ==
  /\ cpu[c].pc = "count_fast"
  /\ UpdateAppCounter(c, flow_map[cpu[c].key].app_id, 0)
  /\ Becomes(c, Idle)
  /\ UNCHANGED <<flow_map, verdict_map, flow_events, arrived, sent>>

Found_unchecked(v) == TRUE
Found(v) == v # NoVerdict

\* The stores that end a classification.
Stores_state_only == {"state"}
Stores == {"state", "app_id"}

\* The flow was CLASSIFYING: is there a verdict?
LookupVerdict(c) ==
  LET v == verdict_map[cpu[c].key] IN
  /\ cpu[c].pc = "lookup"
  /\ Becomes(c, IF Found(v)
                THEN [cpu[c] EXCEPT !.pc = "store", !.app = v,
                                    !.set = "CLASSIFIED", !.pend = Stores]
                ELSE [cpu[c] EXCEPT !.pc = "read"])
  /\ UNCHANGED <<flow_map, verdict_map, app_counters, flow_events, arrived, sent, lost>>

\* fs->pkt_count++ is a load ...
ReadCount(c) ==
  /\ cpu[c].pc = "read"
  /\ Becomes(c, [cpu[c] EXCEPT !.pc = "write", !.cnt = flow_map[cpu[c].key].pkt_count])
  /\ UNCHANGED <<flow_map, verdict_map, app_counters, flow_events, arrived, sent, lost>>

ReachesThreshold_exclusive(n) == n > FLOW_MAX_CLASSIFY_PKTS
ReachesThreshold(n) == n >= FLOW_MAX_CLASSIFY_PKTS

\* ... and a store of a __u8; the value stored decides whether to give up.
WriteCount(c) ==
  LET n == (cpu[c].cnt + 1) % U8 IN
  /\ cpu[c].pc = "write"
  /\ flow_map' = [flow_map EXCEPT ![cpu[c].key].pkt_count = n]
  /\ Becomes(c, IF ReachesThreshold(n)
                THEN [cpu[c] EXCEPT !.pc = "store", !.app = Unknown, !.cnt = 0,
                                    !.set = "GAVE_UP", !.pend = Stores]
                ELSE [cpu[c] EXCEPT !.pc = "send", !.cnt = 0])
  /\ UNCHANGED <<verdict_map, app_counters, flow_events, arrived, sent, lost>>

\* One of the two stores that end the classification takes effect.
Store(c, f) ==
  LET k == cpu[c].key
      rest == cpu[c].pend \ {f} IN
  /\ cpu[c].pc = "store"
  /\ f \in cpu[c].pend
  /\ flow_map' = IF f = "state" THEN [flow_map EXCEPT ![k].state = cpu[c].set]
                                ELSE [flow_map EXCEPT ![k].app_id = cpu[c].app]
  /\ Becomes(c, [cpu[c] EXCEPT !.pend = rest,
                               !.pc = IF rest = {} THEN "count_new" ELSE "store"])
  /\ UNCHANGED <<verdict_map, app_counters, flow_events, arrived, sent, lost>>

\* The packet that ended the classification is counted, and so is its flow.
CountNew(c) ==
  /\ cpu[c].pc = "count_new"
  /\ UpdateAppCounter(c, cpu[c].app, 1)
  /\ Becomes(c, Idle)
  /\ UNCHANGED <<flow_map, verdict_map, flow_events, arrived, sent>>

\* send_to_ringbuf: a failed reserve drops the packet in silence.
Send(c) ==
  LET k == cpu[c].key IN
  /\ cpu[c].pc = "send"
  /\ IF Len(flow_events) < RingSize
     THEN /\ flow_events' = Append(flow_events, [key |-> k, data |-> cpu[c].data])
          /\ sent' = [sent EXCEPT ![k] = @ + 1]
          /\ UNCHANGED lost
     ELSE /\ lost' = lost + 1
          /\ UNCHANGED <<flow_events, sent>>
  /\ Becomes(c, Idle)
  /\ UNCHANGED <<flow_map, verdict_map, app_counters, arrived>>

Step(c) ==
  \/ InsertNew(c) \/ CountFast(c) \/ LookupVerdict(c) \/ ReadCount(c)
  \/ WriteCount(c) \/ CountNew(c) \/ Send(c)
  \/ \E f \in {"state", "app_id"} : Store(c, f)

Kernel == \E c \in CPU : Step(c) \/ \E k \in Key, d \in Capture : Arrive(c, k, d)

\* The daemon as the datapath sees it.
Consume ==
  /\ flow_events # <<>>
  /\ flow_events' = Tail(flow_events)
  /\ UNCHANGED <<kernel, verdict_map>>

WriteVerdict(k, a) ==
  /\ sent[k] > 0
  /\ verdict_map' = VerdictUpdate(verdict_map, k, a)
  /\ UNCHANGED <<kernel, flow_events>>

\* The whole callback: the oldest event is taken, and its flow has a verdict.
Answer(a) ==
  /\ flow_events # <<>>
  /\ flow_events' = Tail(flow_events)
  /\ verdict_map' = VerdictUpdate(verdict_map, Head(flow_events).key, a)
  /\ UNCHANGED kernel

Next ==
  \/ Kernel \/ Consume
  \/ \E a \in VerdictApp : Answer(a) \/ \E k \in Key : WriteVerdict(k, a)

Spec == Init /\ [][Next]_vars
-----------------------------------------------------------------------------
FlowEntry == [state : FlowState, pkt_count : 0..(U8-1), app_id : AppId]

\* Types of the state; a CPU that is not idle has a packet's key.
TypeOK ==
  /\ flow_map \in [Key -> FlowEntry]
  /\ verdict_map \in VerdictMap
  /\ app_counters \in [CPU -> [Countable -> [packets : Nat, flows : Nat]]]
  /\ flow_events \in Seq(FlowEvent)
  /\ cpu \in [CPU -> Registers]
  /\ \A c \in CPU : cpu[c].pc # "idle" => cpu[c].key \in Key
  /\ arrived \in Nat /\ lost \in Nat
  /\ sent \in [Key -> Nat]

\* However the CPUs interleave, no step takes a flow that has been classified
\* or given up back to classification, or out of the map: process_pkt inserts
\* with BPF_NOEXIST, so a CPU that looked the flow up before it existed cannot
\* reset what other CPUs have since made of it.
NeverReopened ==
  [][\A k \in Key : Terminal(flow_map[k].state) => Terminal(flow_map'[k].state)]_vars

\* Unlocked increments lose updates but never overshoot far: pkt_count passes
\* the threshold by at most one packet per further CPU, so with fewer than 249
\* CPUs the __u8 cannot wrap to 0 and restart the count of a flow.
PktCountBounded ==
  \A k \in Key : flow_map[k].pkt_count =< FLOW_MAX_CLASSIFY_PKTS - 1 + Cardinality(CPU)

FlowsOn(c) == SumFunction([a \in Countable |-> app_counters[c][a].flows])
PacketsOn(c) == SumFunction([a \in Countable |-> app_counters[c][a].packets])
Finished == {k \in Key : Terminal(flow_map[k].state)}

\* Two CPUs may both count a flow as new, one CPU never does so twice: the flow
\* total of a CPU is at most the number of flows whose classification ended.
CountedOncePerCpu == \A c \in CPU : FlowsOn(c) =< Cardinality(Finished)

\* Every packet is still on its CPU, or in one app counter, or in one event, or
\* lost (ring full, id without a slot); none is accounted for twice.
PacketLedger ==
  arrived = Cardinality({c \in CPU : cpu[c].pc # "idle"})
            + SumFunction([c \in CPU |-> PacketsOn(c)]) + SumFunction(sent) + lost

Storing(k) == \E c \in CPU : cpu[c].pc = "store" /\ cpu[c].key = k

\* ndpi_obs_types.h:43, "nDPI app id (valid when CLASSIFIED)": once no CPU is
\* storing into it, a CLASSIFIED entry holds an id the daemon wrote.
ValidWhenClassified ==
  \A k \in Key : flow_map[k].state = "CLASSIFIED" /\ ~Storing(k)
                   => flow_map[k].app_id \in VerdictApp

\* The datapath seen as FlowLifecycle: a flow has ended when the packet that
\* ended it has been counted.
Ending(k) == \E c \in CPU : cpu[c].pc \in {"store", "count_new"} /\ cpu[c].key = k
EndedState(k) == IF Ending(k) THEN "CLASSIFYING" ELSE flow_map[k].state
EndedApp(k) == IF Terminal(EndedState(k)) THEN flow_map[k].app_id ELSE Unknown

Lifecycle == INSTANCE FlowLifecycle WITH
  state <- [k \in Key |-> EndedState(k)],
  app   <- [k \in Key |-> EndedApp(k)],
  flows <- [a \in Countable |-> SumFunction([c \in CPU |-> app_counters[c][a].flows])]

\* On one CPU process_pkt implements FlowLifecycle: a flow is tracked once, ends
\* once, is credited to one application, and its verdict never changes after.
FlowEndsOnce == Lifecycle!Spec
=============================================================================
