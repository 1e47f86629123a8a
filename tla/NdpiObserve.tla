---------------------------- MODULE NdpiObserve ----------------------------
(***************************************************************************)
(* ndpid: the TC program and the daemon together (daemon/main.c).  They    *)
(* share the ring buffer, which the CPUs fill and the daemon's poll loop   *)
(* empties in order, and verdict_map, which the daemon writes and the CPUs *)
(* read.  Nothing orders a verdict with the packets already on a CPU or in *)
(* the ring, and neither side ever deletes from flow_map or verdict_map.   *)
(***************************************************************************)
EXTENDS ObsTypes, Sequences, FiniteSetsExt

CONSTANTS CPU, NoKey, FlowMapSize, RingSize, MaxPackets, MlEnabled, VerdictFd

ASSUME SystemAssumption ==
  /\ IsFiniteSet(CPU) /\ NoKey \notin Key
  /\ FlowMapSize \in Nat /\ RingSize \in Nat /\ MaxPackets \in Nat
  /\ MlEnabled \in BOOLEAN /\ VerdictFd \in BOOLEAN

VARIABLES
  flow_map, verdict_map, app_counters, flow_events, cpu, arrived, sent, lost,
  flows, stats, app_packets, app_flows, app_classified, events, failed, nflows,
  expired_new, expired_credit

\* The two sides, each with what is proved of it.  Any id may be a verdict, and what
\* bounds the events is MaxPackets.
K == INSTANCE DatapathProofs WITH VerdictApp <- AppId
E == INSTANCE EngineProofs WITH MaxEvents <- MaxPackets

kernel == <<flow_map, app_counters, cpu, arrived, sent, lost>>
daemon == <<flows, stats, app_packets, app_flows, app_classified, events, failed,
            nflows, expired_new, expired_credit>>
vars == <<kernel, flow_events, verdict_map, daemon>>

Init == K!Init /\ E!Init

\* process_pkt on some CPU.
Packet == K!Kernel /\ UNCHANGED daemon

\* ring_buffer__poll hands the oldest event to the callback; the slot is free
\* when the callback returns.
ring_buf_cb ==
  /\ flow_events # <<>>
  /\ E!ndpi_engine_process(Head(flow_events))
  /\ flow_events' = Tail(flow_events)
  /\ UNCHANGED kernel

\* The sweep at the end of a round of the poll loop.  Events that came in since
\* the ring was drained are still there.
Age ==
  /\ \E S \in SUBSET Key : E!ndpi_engine_age(S)
  /\ UNCHANGED <<kernel, flow_events>>

Next == Packet \/ ring_buf_cb \/ Age

Spec == Init /\ [][Next]_vars
-----------------------------------------------------------------------------
\* The packet that takes a flow to FLOW_MAX_CLASSIFY_PKTS is counted in the kernel
\* and not sent, and the daemon waits for as many events: on one CPU, with room
\* in flow_map, a flow never reaches the daemon's threshold, so its guess and its
\* ML model are never asked and no give-up is reported.
DaemonBelowThreshold == \A k \in Key : flows[k].pkt_count < FLOW_MAX_CLASSIFY_PKTS

\* End to end no packet vanishes: each is on a CPU, in a kernel counter, in the
\* ring, added to an application, waiting in a live flow, or in one of the known
\* losses (ring full, event cached or without an entry).  What an application is
\* given twice, at the verdict and at the expiry, is slack.  (All ids countable.)
PacketsAccountedFor ==
  arrived =< Cardinality({c \in CPU : cpu[c].pc # "idle"})
             + SumFunction([c \in CPU |-> K!PacketsOn(c)])
             + Len(flow_events) + E!AppPackets + E!LivePackets
             + lost + stats.pkts_cached + failed

\* Each packet the daemon adds to a flow reaches an application counter once or,
\* through the verdict and the expiry, twice.  (All ids countable.)
PacketsCredited == E!PacketsCredited

\* With the engine as the daemon the TC program still implements FlowLifecycle on
\* one CPU: a verdict that comes late, comes again or is for an expired flow never
\* ends a flow a second time or moves it to another application.
FlowEndsOnce == K!FlowEndsOnce

\* On one CPU a flow the kernel shows as CLASSIFIED has a verdict, and as long as
\* the daemon still holds every flow it created, the kernel counts the flow under
\* the id the daemon has for it.
KernelFollowsDaemon ==
  \A k \in Key : flow_map[k].state = "CLASSIFIED" /\ ~K!Storing(k) =>
    /\ verdict_map[k] # NoVerdict
    /\ stats.total_created = Cardinality(E!Live) => flow_map[k].app_id = flows[k].app_id

Quiet == flow_events = <<>> /\ \A c \in CPU : cpu[c].pc = "idle"

\* prometheus.c:74, flows_gave_up_total is "Flows that hit the give-up threshold":
\* with nothing in flight, it covers the flows the kernel gave up.
GaveUpReported ==
  Quiet => Cardinality({k \in Key : flow_map[k].state = "GAVE_UP"}) =< stats.flows_gave_up
=============================================================================
