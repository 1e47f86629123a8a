------------------------- MODULE NdpiObserveProofs -------------------------
(***************************************************************************)
(* Theorems about NdpiObserve, for any number of CPUs, flows, applications *)
(* and packets and any sizes of the maps and of the ring.  Each side obeys *)
(* the specification it was proved about alone: the engine is the          *)
(* environment of Datapath, and the ring is where Engine's events come     *)
(* from.                                                                   *)
(***************************************************************************)
EXTENDS NdpiObserve, RecursionTheorems

\* What the two sides take for granted of the constants.
LEMMA Library ==
  /\ \A S : K!IsFiniteSet(S) <=> IsFiniteSet(S)
  /\ \A S : E!IsFiniteSet(S) <=> IsFiniteSet(S)
  /\ \A S : K!Cardinality(S) = Cardinality(S)
  /\ \A S : E!Cardinality(S) = Cardinality(S)
BY DEF IsFiniteSet, K!IsFiniteSet, E!IsFiniteSet, Cardinality, K!Cardinality, E!Cardinality

LEMMA KernelAssumptions ==
  /\ K!KeyAssumption /\ K!AppAssumption /\ K!CaptureAssumption /\ K!ThresholdAssumption
  /\ K!VerdictMapAssumption /\ K!CpuAssumption /\ K!SizeAssumption /\ K!VerdictAppAssumption
BY Library, KeyAssumption, AppAssumption, CaptureAssumption, ThresholdAssumption,
   VerdictMapAssumption, SystemAssumption
   DEF K!KeyAssumption, K!AppAssumption, K!CaptureAssumption, K!ThresholdAssumption,
       K!VerdictMapAssumption, K!CpuAssumption, K!SizeAssumption, K!VerdictAppAssumption

LEMMA EngineAssumptions ==
  /\ E!KeyAssumption /\ E!AppAssumption /\ E!CaptureAssumption /\ E!ThresholdAssumption
  /\ E!VerdictMapAssumption /\ E!EngineAssumption
BY Library, KeyAssumption, AppAssumption, CaptureAssumption, ThresholdAssumption,
   VerdictMapAssumption, SystemAssumption
   DEF E!KeyAssumption, E!AppAssumption, E!CaptureAssumption, E!ThresholdAssumption,
       E!VerdictMapAssumption, E!EngineAssumption

\* The two sides mean the same by an update of verdict_map.
LEMMA SameUpdate ==
  \A k, a : E!VerdictUpdate(verdict_map, k, a) = K!VerdictUpdate(verdict_map, k, a)
BY Library DEF E!VerdictUpdate, K!VerdictUpdate

(* What is known of the two sides from the start: the ring holds events of flows,
   and the entries have the engine's shape.  Each side needs it of the other to
   be the environment the other was proved with. *)
Sound == K!TypeOK /\ E!IInv /\ E!Counts /\ E!Verdicts
-----------------------------------------------------------------------------
\* No step of a CPU writes a verdict.
LEMMA KernelFrame == K!Kernel => UNCHANGED verdict_map
BY DEF K!Kernel, K!Step, K!Arrive, K!InsertNew, K!CountFast, K!LookupVerdict, K!ReadCount,
       K!WriteCount, K!Store, K!CountNew, K!Send

\* What the callback takes off the ring is an event of a flow.
LEMMA OldestEvent ==
  ASSUME Sound, flow_events # <<>>
  PROVE  /\ Head(flow_events).key \in Key /\ Head(flow_events).data \in {"bytes", "none"}
         /\ Head(flow_events) = [key |-> Head(flow_events).key, data |-> Head(flow_events).data]
         /\ Tail(flow_events) \in Seq(K!FlowEvent)
         /\ Len(Tail(flow_events)) = Len(flow_events) - 1
<1>1. flow_events \in Seq(K!FlowEvent) BY DEF Sound, K!TypeOK
<1>2. Head(flow_events) \in K!FlowEvent BY <1>1
<1>3. Tail(flow_events) \in Seq(K!FlowEvent) /\ Len(Tail(flow_events)) = Len(flow_events) - 1
  BY <1>1
<1> QED BY <1>2, <1>3 DEF K!FlowEvent

\* To the engine every step of the system is a call or none.
LEMMA StepIsCall == Sound /\ [Next]_vars => [E!Call]_(E!vars)
<1> SUFFICES ASSUME Sound, [Next]_vars PROVE [E!Call]_(E!vars)
  OBVIOUS
<1>1. CASE Packet
  BY <1>1, KernelFrame DEF Packet, daemon, E!vars, E!counters, E!expiry
<1>2. CASE ring_buf_cb
  BY <1>2, OldestEvent DEF ring_buf_cb, E!Call
<1>3. CASE Age
  BY <1>3 DEF Age, E!Call
<1>4. CASE UNCHANGED vars
  BY <1>4 DEF vars, daemon, E!vars, E!counters, E!expiry
<1> QED BY <1>1, <1>2, <1>3, <1>4 DEF Next

\* To the TC program every step of the system is one of its own, one of its
\* environment, or none: a call that publishes answers the oldest event.
LEMMA StepIsKernel == Sound /\ [Next]_vars => [K!Next]_(K!vars)
<1> SUFFICES ASSUME Sound, [Next]_vars PROVE [K!Next]_(K!vars)
  OBVIOUS
<1>1. CASE Packet
  BY <1>1 DEF Packet, K!Next
<1>2. CASE ring_buf_cb
  <2> DEFINE k == Head(flow_events).key
             d == Head(flow_events).data
  <2>1. /\ k \in Key /\ E!ndpi_engine_process([key |-> k, data |-> d])
        /\ flow_events # <<>> /\ flow_events' = Tail(flow_events) /\ UNCHANGED K!kernel
    BY <1>2, OldestEvent DEF ring_buf_cb, kernel, K!kernel
  <2> HIDE DEF d
  <2>2. \/ verdict_map' = verdict_map
        \/ \E f \in E!Entry : E!PublishVerdict(k, f.app_id)
    <3> HIDE DEF k
    <3>1. E!Typed /\ E!Shape BY DEF Sound, E!IInv
    <3> QED BY <2>1, <3>1, EngineAssumptions, E!Publishes
  <2>3. CASE verdict_map' = verdict_map
    BY <2>1, <2>3 DEF K!Next, K!Consume
  <2>4. ASSUME NEW f \in E!Entry, E!PublishVerdict(k, f.app_id) PROVE [K!Next]_(K!vars)
    <3>1. f.app_id \in AppId BY DEF E!Entry
    <3>2. CASE VerdictFd
      <4>1. verdict_map' = K!VerdictUpdate(verdict_map, k, f.app_id)
        BY <2>4, <3>2, SameUpdate DEF E!PublishVerdict
      <4> QED BY <2>1, <3>1, <4>1 DEF K!Next, K!Answer
    <3>3. CASE ~VerdictFd
      BY <2>1, <2>3, <2>4, <3>3 DEF E!PublishVerdict
    <3> QED BY <3>2, <3>3
  <2> QED BY <2>2, <2>3, <2>4
<1>3. CASE Age
  BY <1>3 DEF Age, E!ndpi_engine_age, kernel, K!vars, K!kernel
<1>4. CASE UNCHANGED vars
  BY <1>4 DEF vars, kernel, K!vars, K!kernel
<1> QED BY <1>1, <1>2, <1>3, <1>4 DEF Next

LEMMA NextSound == Sound /\ [Next]_vars => Sound'
<1> SUFFICES ASSUME Sound, [Next]_vars PROVE Sound'
  OBVIOUS
<1>1. K!TypeOK'
  BY StepIsKernel, KernelAssumptions, K!NextType DEF Sound
<1>2. E!IInv'
  BY StepIsCall, EngineAssumptions, E!NextInv DEF Sound
<1>3. E!Counts'
  BY StepIsCall, EngineAssumptions, E!NextCounts DEF Sound, E!IInv
<1>4. E!Verdicts'
  BY StepIsCall, EngineAssumptions, E!VerdictStep DEF Sound, E!IInv
<1> QED BY <1>1, <1>2, <1>3, <1>4 DEF Sound

LEMMA InitSound == Init => Sound
<1>1. K!Init => K!TypeOK BY KernelAssumptions, K!InitType
<1>2. E!Init => E!IInv /\ E!Verdicts BY EngineAssumptions, E!InitInv, E!InitVerdicts
<1>3. E!Init => E!Counts BY DEF E!Init, E!Counts, E!Zero
<1> QED BY <1>1, <1>2, <1>3 DEF Init, Sound

LEMMA SystemSound == Spec => []Sound
BY InitSound, NextSound, PTL DEF Spec

\* The TC program, run with the engine, behaves as Datapath says.
THEOREM KernelRefinesDatapath == Spec => K!Spec
BY SystemSound, StepIsKernel, PTL DEF Spec, Init, K!Spec

\* The engine, fed from the ring, behaves as a sequence of calls.
THEOREM DaemonMakesCalls == Spec => E!Calls
BY SystemSound, StepIsCall, PTL DEF Spec, Init, E!Calls

\* If every application has a counter, each packet the daemon adds to a flow reaches
\* an application's counter by the expiry of the flow, and at most twice, whatever
\* the TC program sends and drops.
THEOREM SystemPacketsCredited ==
  ASSUME Countable = AppId
  PROVE  Spec => []PacketsCredited
<1>1. E!Calls => []E!Bounds BY EngineAssumptions, E!BoundsInvariant
<1>2. Sound /\ E!Bounds => PacketsCredited
  BY EngineAssumptions, E!BoundsSuffice DEF Sound, E!IInv, PacketsCredited
<1> QED BY <1>1, <1>2, SystemSound, DaemonMakesCalls, PTL
-----------------------------------------------------------------------------
(* What is sent, in the ring, and received. *)

\* The sides add up the same way.
LEMMA SameSum ==
  \A F : K!SumFunction(F) = SumFunction(F) /\ E!SumFunction(F) = SumFunction(F)
BY DEF SumFunction, SumFunctionOnSet, FoldFunctionOnSet, MapThenFoldSet,
       K!SumFunction, K!SumFunctionOnSet, K!FoldFunctionOnSet, K!MapThenFoldSet,
       E!SumFunction, E!SumFunctionOnSet, E!FoldFunctionOnSet, E!MapThenFoldSet

Sent == SumFunction(sent)

\* An event submitted is in the ring until the engine has been called with it.
InRing == Sent = events + Len(flow_events)

\* A step of a CPU submits one event of one flow, or none.
LEMMA Submits ==
  ASSUME Sound, K!Kernel
  PROVE  \/ UNCHANGED <<sent, flow_events>>
         \/ \E k \in Key, d \in {"bytes", "none"} :
              /\ sent' = [sent EXCEPT ![k] = @ + 1]
              /\ flow_events' = Append(flow_events, [key |-> k, data |-> d])
              /\ UNCHANGED flow_map
<1>1. ASSUME NEW c \in CPU, K!Send(c)
      PROVE  \/ UNCHANGED <<sent, flow_events>>
             \/ \E k \in Key, d \in {"bytes", "none"} :
                  /\ sent' = [sent EXCEPT ![k] = @ + 1]
                  /\ flow_events' = Append(flow_events, [key |-> k, data |-> d])
                  /\ UNCHANGED flow_map
  <2>1. cpu[c].key \in Key /\ cpu[c].data \in {"bytes", "none"}
    BY <1>1 DEF K!Send, Sound, K!TypeOK, K!Registers
  <2> QED BY <1>1, <2>1 DEF K!Send
<1>2. ASSUME NEW c \in CPU,
             K!InsertNew(c) \/ K!CountFast(c) \/ K!LookupVerdict(c) \/ K!ReadCount(c)
               \/ K!WriteCount(c) \/ K!CountNew(c) \/ (\E f \in {"state", "app_id"} : K!Store(c, f))
               \/ \E k \in Key, d \in Capture : K!Arrive(c, k, d)
      PROVE  UNCHANGED <<sent, flow_events>>
  BY <1>2 DEF K!InsertNew, K!CountFast, K!LookupVerdict, K!ReadCount, K!WriteCount, K!CountNew,
              K!Store, K!Arrive
<1> QED BY <1>1, <1>2 DEF K!Kernel, K!Step

LEMMA NextInRing == Sound /\ Sound' /\ InRing /\ [Next]_vars => InRing'
<1> SUFFICES ASSUME Sound, Sound', InRing, [Next]_vars PROVE InRing'
  OBVIOUS
<1>1. /\ events \in Nat /\ sent \in [Key -> Nat] /\ sent' \in [Key -> Nat]
      /\ flow_events \in Seq(K!FlowEvent) /\ Len(flow_events) \in Nat
  BY DEF Sound, E!Counts, K!TypeOK
<1>2. CASE Packet
  <2>1. events' = events BY <1>2 DEF Packet, daemon
  <2>2. CASE UNCHANGED <<sent, flow_events>>
    BY <2>1, <2>2 DEF InRing, Sent
  <2>3. ASSUME NEW k \in Key, NEW d \in {"bytes", "none"},
               sent' = [sent EXCEPT ![k] = @ + 1],
               flow_events' = Append(flow_events, [key |-> k, data |-> d])
        PROVE  InRing'
    <3>1. [key |-> k, data |-> d] \in K!FlowEvent BY DEF K!FlowEvent
    <3>2. Len(flow_events') = Len(flow_events) + 1 BY <1>1, <2>3, <3>1
    <3>3. sent'[k] = sent[k] + 1 /\ sent[k] \in Nat /\ \A j \in Key \ {k} : sent'[j] = sent[j]
      BY <1>1, <2>3
    <3>4. /\ SumFunction(sent) \in Nat /\ SumFunction(sent') \in Nat
          /\ SumFunction(sent') = SumFunction(sent) - sent[k] + sent'[k]
      BY <1>1, <3>3, KeyAssumption, SumUpdate
    <3> QED BY <1>1, <2>1, <3>2, <3>3, <3>4 DEF InRing, Sent
  <2> QED BY <1>2, <2>2, <2>3, Submits DEF Packet
<1>3. CASE ring_buf_cb
  <2>1. events' = events + 1 /\ sent' = sent /\ Len(flow_events') = Len(flow_events) - 1
    BY <1>3, OldestEvent DEF ring_buf_cb, E!ndpi_engine_process, kernel
  <2> QED BY <1>1, <2>1 DEF InRing, Sent
<1>4. CASE Age
  BY <1>4 DEF Age, E!ndpi_engine_age, kernel, InRing, Sent
<1>5. CASE UNCHANGED vars
  BY <1>5 DEF vars, kernel, daemon, InRing, Sent
<1> QED BY <1>2, <1>3, <1>4, <1>5 DEF Next

LEMMA RingInvariant == Spec => []InRing
<1>1. Init => InRing
  <2> SUFFICES ASSUME Init PROVE InRing
    OBVIOUS
  <2>1. Sent = 0 BY KeyAssumption, SumOfZeros DEF Init, K!Init, Sent
  <2>2. events = 0 /\ Len(flow_events) = 0 BY DEF Init, K!Init, E!Init
  <2> QED BY <2>1, <2>2 DEF InRing
<1> QED BY <1>1, NextInRing, SystemSound, PTL DEF Spec

\* If every application has a counter, no packet vanishes end to end, for any number
\* of CPUs in any interleaving, whatever the ring drops, the daemon fails to
\* allocate and the sweep expires.
THEOREM SystemAccountsForPackets ==
  ASSUME Countable = AppId
  PROVE  Spec => []PacketsAccountedFor
<1>1. E!Calls => []E!Bounds BY EngineAssumptions, E!BoundsInvariant
<1>2. K!Spec => []K!PacketLedger BY KernelAssumptions, K!PacketsAreAccountedFor
<1>3. Sound /\ E!Bounds /\ K!PacketLedger /\ InRing => PacketsAccountedFor
  <2> SUFFICES ASSUME Sound, E!Bounds, K!PacketLedger, InRing PROVE PacketsAccountedFor
    OBVIOUS
  <2> DEFINE busy == Cardinality({c \in CPU : cpu[c].pc # "idle"})
             counted == SumFunction([c \in CPU |-> K!PacketsOn(c)])
  <2>1. E!SumsTyped BY EngineAssumptions, E!SumTypes DEF Sound, E!IInv
  <2>2. /\ E!AppPackets \in Nat /\ E!LivePackets \in Nat
        /\ events - failed - stats.pkts_cached =< E!AppPackets + E!LivePackets
    BY <2>1 DEF E!SumsTyped, E!Bounds, E!CreditBound, E!Accounted
  <2>3. events \in Nat /\ failed \in Nat /\ stats.pkts_cached \in Nat
    BY DEF Sound, E!IInv, E!Typed, E!Counts, E!Stats
  <2>4. arrived = busy + counted + Sent + lost
    BY Library, SameSum DEF K!PacketLedger, Sent
  <2>5. K!GoneTyped BY KernelAssumptions, K!GoneTypes DEF Sound
  <2>6. counted \in Nat /\ lost \in Nat
    BY <2>5, SameSum DEF K!GoneTyped, K!InCounters, Sound, K!TypeOK
  <2>7. busy \in Nat BY SystemAssumption, FS_Subset, FS_CardinalityType
  <2>8. Len(flow_events) \in Nat BY DEF Sound, K!TypeOK
  <2> HIDE DEF busy, counted
  <2>9. arrived =< busy + counted + Len(flow_events) + E!AppPackets + E!LivePackets
                    + lost + stats.pkts_cached + failed
    BY <2>2, <2>3, <2>4, <2>6, <2>7, <2>8 DEF InRing
  <2> QED BY <2>9 DEF PacketsAccountedFor, busy, counted
<1> QED
  BY <1>1, <1>2, <1>3, SystemSound, RingInvariant, DaemonMakesCalls, KernelRefinesDatapath, PTL
-----------------------------------------------------------------------------
\* With the engine as the daemon and one CPU a flow is tracked once, ends once and is
\* credited to one application, whatever the engine publishes, and however late.
THEOREM FlowsEndOnce ==
  ASSUME NEW c, CPU = {c}
  PROVE  Spec => FlowEndsOnce
<1>1. K!Spec => K!FlowEndsOnce
  BY KernelAssumptions, K!OneCpuImplementsLifecycle
<1> QED BY <1>1, KernelRefinesDatapath DEF FlowEndsOnce
-----------------------------------------------------------------------------
(* The events of one flow. *)

Count(q, k) == Cardinality({i \in 1..Len(q) : q[i].key = k})
One(e, k) == IF e.key = k THEN 1 ELSE 0

LEMMA CountType ==
  ASSUME NEW S, NEW q \in Seq(S), NEW k
  PROVE  IsFiniteSet({i \in 1..Len(q) : q[i].key = k}) /\ Count(q, k) \in Nat
<1>1. IsFiniteSet(1..Len(q)) BY FS_Interval
<1> QED BY <1>1, FS_Subset, FS_CardinalityType DEF Count

LEMMA CountAppended ==
  ASSUME NEW S, NEW q \in Seq(S), NEW e \in S, NEW k
  PROVE  Count(Append(q, e), k) = Count(q, k) + One(e, k)
<1> DEFINE At == {i \in 1..Len(q) : q[i].key = k}
           Then == {i \in 1..Len(Append(q, e)) : Append(q, e)[i].key = k}
<1>1. IsFiniteSet(At) /\ Len(q) + 1 \notin At
  <2>1. IsFiniteSet(At) BY CountType
  <2>2. Len(q) + 1 \notin 1..Len(q) OBVIOUS
  <2> QED BY <2>1, <2>2
<1>2. /\ Len(Append(q, e)) = Len(q) + 1 /\ Append(q, e)[Len(q) + 1] = e /\ Len(q) \in Nat
      /\ \A i \in 1..Len(q) : Append(q, e)[i] = q[i]
  OBVIOUS
<1>3. Then = IF e.key = k THEN At \cup {Len(q) + 1} ELSE At
  BY <1>2
<1>4. Cardinality(Then) = Cardinality(At) + One(e, k)
  <2>1. Cardinality(At \cup {Len(q) + 1}) = Cardinality(At) + 1 BY <1>1, FS_AddElement
  <2>2. Cardinality(At) \in Nat BY <1>1, FS_CardinalityType
  <2> HIDE DEF At, Then
  <2> QED BY <1>3, <2>1, <2>2 DEF One
<1> QED BY <1>4 DEF Count

LEMMA CountTaken ==
  ASSUME NEW S, NEW q \in Seq(S), q # <<>>, NEW k
  PROVE  Count(Tail(q), k) + One(Head(q), k) =< Count(q, k)
<1> DEFINE At == {i \in 1..Len(q) : q[i].key = k}
           Left == {i \in 1..Len(Tail(q)) : Tail(q)[i].key = k}
           shift == [i \in Left |-> i + 1]
<1>1. /\ Len(q) \in Nat \ {0} /\ Len(Tail(q)) = Len(q) - 1 /\ Head(q) = q[1]
      /\ \A i \in 1..(Len(q) - 1) : Tail(q)[i] = q[i + 1]
  OBVIOUS
<1>2. IsFiniteSet(At) /\ IsFiniteSet(At \ {1}) /\ Cardinality(At) \in Nat
      /\ Cardinality(At \ {1}) = Cardinality(At) - One(Head(q), k)
  <2>1. IsFiniteSet(At) BY CountType
  <2>2. 1 \in At <=> Head(q).key = k BY <1>1
  <2>3. /\ IsFiniteSet(At \ {1}) /\ Cardinality(At) \in Nat
        /\ Cardinality(At \ {1}) = IF 1 \in At THEN Cardinality(At) - 1 ELSE Cardinality(At)
    BY <2>1, FS_RemoveElement, FS_CardinalityType
  <2> HIDE DEF At
  <2> QED BY <2>1, <2>2, <2>3 DEF One
<1>3. shift \in Injection(Left, At \ {1})
  <2>1. \A i \in Left : i \in Nat /\ i + 1 \in At \ {1} BY <1>1
  <2>2. shift \in [Left -> At \ {1}] BY <2>1
  <2>3. \A i, j \in Left : shift[i] = shift[j] => i = j BY <2>1
  <2> HIDE DEF shift, Left, At
  <2> QED BY <2>2, <2>3 DEF Injection, IsInjective
<1>4. Cardinality(Left) =< Cardinality(At \ {1}) /\ Cardinality(Left) \in Nat
  <2> HIDE DEF shift, Left, At
  <2> QED BY <1>2, <1>3, FS_Injection, FS_CardinalityType
<1>5. Count(q, k) = Cardinality(At) /\ Count(Tail(q), k) = Cardinality(Left) BY DEF Count
<1> HIDE DEF At, Left, shift
<1> QED BY <1>2, <1>4, <1>5 DEF One

\* The counts of one flow, on its way from the TC program to the engine.
Counted == /\ sent \in [Key -> Nat] /\ flow_events \in Seq(K!FlowEvent)
           /\ \A k \in Key : flows[k].pkt_count \in Nat

LEMMA CountedTypes == Sound => Counted
<1> SUFFICES ASSUME Sound PROVE Counted
  OBVIOUS
<1>1. sent \in [Key -> Nat] /\ flow_events \in Seq(K!FlowEvent) BY DEF Sound, K!TypeOK
<1>2. flows \in [Key -> E!Entry] BY DEF Sound, E!IInv, E!Typed
<1>3. \A f \in E!Entry : f.pkt_count \in Nat BY DEF E!Entry, E!U8
<1> QED BY <1>1, <1>2, <1>3 DEF Counted

LEMMA CountedTypesNext == Sound' => Counted'
BY CountedTypes, PTL

\* The engine counts a packet of k in the entry of k, if it counts it at all.
LEMMA OneMore ==
  ASSUME Sound, NEW k \in Key, NEW d, E!ndpi_engine_process([key |-> k, data |-> d])
  PROVE  /\ \A j \in Key \ {k} : flows'[j] = flows[j]
         /\ flows'[k].pkt_count =< flows[k].pkt_count + 1
<1>1. E!Typed /\ E!Shape BY DEF Sound, E!IInv
<1>2. E!PassedOver \/ \E f \in E!Entry : E!Added(k, f)
  BY <1>1, EngineAssumptions, E!PacketAdds
<1>3. flows \in [Key -> E!Entry] /\ \A j \in Key : flows[j].pkt_count \in 0..(U8 - 1)
  BY <1>1 DEF E!Typed, E!Entry, E!U8, U8
<1>4. CASE E!PassedOver
  BY <1>3, <1>4 DEF E!PassedOver, U8
<1>5. ASSUME NEW f \in E!Entry, E!Added(k, f)
      PROVE  /\ \A j \in Key \ {k} : flows'[j] = flows[j]
             /\ flows'[k].pkt_count =< flows[k].pkt_count + 1
  <2>1. flows' = [flows EXCEPT ![k] = f] /\ f.pkt_count = E!Touched(k).pkt_count
    BY <1>5 DEF E!Added
  <2>2. E!Touched(k).pkt_count = (flows[k].pkt_count + 1) % U8
    BY <1>3 DEF E!Touched, E!Entry, E!U8, U8
  <2>3. (flows[k].pkt_count + 1) % U8 =< flows[k].pkt_count + 1
    BY <1>3 DEF U8
  <2> QED BY <1>3, <2>1, <2>2, <2>3
<1> QED BY <1>2, <1>4, <1>5

\* The daemon has counted no more packets of a flow than it has been sent.
Received == \A k \in Key : flows[k].pkt_count + Count(flow_events, k) =< sent[k]

LEMMA NextReceived == Sound /\ Sound' /\ Received /\ [Next]_vars => Received'
<1> SUFFICES ASSUME Sound, Sound', Received, [Next]_vars, NEW j \in Key
             PROVE  flows'[j].pkt_count + Count(flow_events', j) =< sent'[j]
  BY DEF Received
<1>1. /\ sent \in [Key -> Nat] /\ flow_events \in Seq(K!FlowEvent)
      /\ flow_events' \in Seq(K!FlowEvent)
      /\ flows[j].pkt_count \in Nat /\ flows'[j].pkt_count \in Nat
  BY CountedTypes, CountedTypesNext DEF Counted
<1>2. Count(flow_events, j) \in Nat /\ Count(flow_events', j) \in Nat /\ sent[j] \in Nat
      /\ flows[j].pkt_count + Count(flow_events, j) =< sent[j]
  BY <1>1, CountType DEF Received
<1>3. ASSUME UNCHANGED <<sent, flow_events>>, flows'[j].pkt_count =< flows[j].pkt_count
      PROVE  flows'[j].pkt_count + Count(flow_events', j) =< sent'[j]
  BY <1>1, <1>2, <1>3
<1>4. CASE Packet
  <2>1. flows' = flows BY <1>4 DEF Packet, daemon
  <2>2. ASSUME NEW k \in Key, NEW d \in {"bytes", "none"},
               sent' = [sent EXCEPT ![k] = @ + 1],
               flow_events' = Append(flow_events, [key |-> k, data |-> d])
        PROVE  flows'[j].pkt_count + Count(flow_events', j) =< sent'[j]
    <3> DEFINE e == [key |-> k, data |-> d]
    <3>1. e \in K!FlowEvent /\ e.key = k BY DEF K!FlowEvent
    <3> HIDE DEF e
    <3>2. Count(flow_events', j) = Count(flow_events, j) + One(e, j)
      BY <1>1, <2>2, <3>1, CountAppended DEF e
    <3>3. sent'[j] = sent[j] + One(e, j) BY <1>1, <2>2, <3>1 DEF One
    <3>4. One(e, j) \in Nat BY DEF One
    <3> QED BY <1>1, <1>2, <2>1, <3>2, <3>3, <3>4
  <2>3. CASE UNCHANGED <<sent, flow_events>>
    BY <1>1, <1>3, <2>1, <2>3
  <2> QED BY <1>4, <2>2, <2>3, Submits DEF Packet
<1>5. CASE ring_buf_cb
  <2> DEFINE k == Head(flow_events).key
             d == Head(flow_events).data
  <2>1. /\ k \in Key /\ E!ndpi_engine_process([key |-> k, data |-> d])
        /\ flow_events # <<>> /\ flow_events' = Tail(flow_events) /\ sent' = sent
    BY <1>5, OldestEvent DEF ring_buf_cb, kernel
  <2>2. Count(flow_events', j) + One(Head(flow_events), j) =< Count(flow_events, j)
    BY <1>1, <2>1, CountTaken
  <2> HIDE DEF d
  <2>3. /\ \A i \in Key \ {k} : flows'[i] = flows[i]
        /\ flows'[k].pkt_count =< flows[k].pkt_count + 1
    <3> HIDE DEF k
    <3> QED BY <2>1, OneMore
  <2>4. flows'[j].pkt_count =< flows[j].pkt_count + One(Head(flow_events), j)
    BY <1>1, <2>3 DEF One
  <2>5. One(Head(flow_events), j) \in Nat BY DEF One
  <2> DEFINE o == One(Head(flow_events), j)
             n == Count(flow_events, j)
             m == Count(flow_events', j)
  <2>6. /\ o \in Nat /\ n \in Nat /\ m \in Nat /\ sent'[j] = sent[j]
        /\ m + o =< n /\ flows'[j].pkt_count =< flows[j].pkt_count + o
        /\ flows[j].pkt_count + n =< sent[j]
        /\ flows[j].pkt_count \in Nat /\ flows'[j].pkt_count \in Nat /\ sent[j] \in Nat
    BY <1>1, <1>2, <2>1, <2>2, <2>4, <2>5
  <2> HIDE DEF o, n, m, k
  <2>7. flows'[j].pkt_count + m =< sent'[j] BY <2>6
  <2> QED BY <2>7 DEF m
<1>6. CASE Age
  <2>1. flows'[j] \in {flows[j], E!Absent}
    BY <1>6 DEF Age, E!ndpi_engine_age
  <2> QED BY <1>1, <1>3, <1>6, <2>1 DEF Age, kernel, E!Absent
<1>7. CASE UNCHANGED vars
  BY <1>1, <1>3, <1>7 DEF vars, kernel, daemon
<1> QED BY <1>4, <1>5, <1>6, <1>7 DEF Next

LEMMA InitReceived == Init => Received
<1> SUFFICES ASSUME Init, NEW k \in Key PROVE flows[k].pkt_count + Count(flow_events, k) =< sent[k]
  BY DEF Received
<1>1. flow_events = <<>> /\ sent[k] = 0 BY DEF Init, K!Init
<1>2. flows[k].pkt_count = 0 BY DEF Init, E!Init, E!Absent
<1>3. {i \in 1..Len(<<>>) : <<>>[i].key = k} = {} OBVIOUS
<1>4. Count(<<>>, k) = 0 BY <1>3, FS_EmptySet DEF Count
<1> QED BY <1>1, <1>2, <1>4

\* On one CPU, with room in flow_map, no flow ever reaches the daemon's threshold: the
\* kernel counts the packet that gets there first and does not send it.
THEOREM DaemonStaysBelow ==
  ASSUME NEW c, CPU = {c}, Cardinality(Key) =< FlowMapSize
  PROVE  Spec => []DaemonBelowThreshold
<1>1. K!Cardinality(Key) =< FlowMapSize BY Library
<1>2. K!Spec => [](K!OwnIds /\ K!Alone /\ K!SentBelow)
  BY <1>1, KernelAssumptions, K!OneCpuInvariant
<1>3. Sound /\ Received /\ K!SentBelow => DaemonBelowThreshold
  <2> SUFFICES ASSUME Sound, Received, K!SentBelow, NEW k \in Key
               PROVE  flows[k].pkt_count < FLOW_MAX_CLASSIFY_PKTS
    BY DEF DaemonBelowThreshold
  <2>1. /\ sent[k] \in Nat /\ flow_events \in Seq(K!FlowEvent)
        /\ flows[k].pkt_count \in Nat
    BY CountedTypes DEF Counted
  <2>2. Count(flow_events, k) \in Nat BY <2>1, CountType
  <2>3. flows[k].pkt_count + Count(flow_events, k) =< sent[k] BY DEF Received
  <2>4. sent[k] + K!Sending(k) < FLOW_MAX_CLASSIFY_PKTS /\ K!Sending(k) \in {0, 1}
    BY DEF K!SentBelow, K!Sending
  <2> QED BY <2>1, <2>2, <2>3, <2>4, ThresholdAssumption
<1> QED
  BY <1>2, <1>3, InitReceived, NextReceived, SystemSound, KernelRefinesDatapath, PTL DEF Spec
-----------------------------------------------------------------------------
(* The verdict of a flow, as the daemon has it and as the kernel has it. *)

\* A flow the kernel has classified has a verdict; while the daemon holds every flow
\* it created, the verdict is the daemon's, and the kernel has the same.
Follows == K!HasVerdict /\ E!Faithful /\ (E!Whole => K!SameId)

LEMMA NextFollows ==
  ASSUME NEW c, CPU = {c}, Sound, K!OwnIds, K!OwnIds', K!Alone, K!Alone', Follows, [Next]_vars
  PROVE  Follows'
<1>1. /\ E!Faithful' /\ (E!Whole' => E!Whole)
      /\ E!Whole' => \A k \in Key : verdict_map[k] # NoVerdict => verdict_map'[k] = verdict_map[k]
  BY StepIsCall, EngineAssumptions, E!NextFaithful DEF Sound, E!IInv, Follows
<1>2. K!HasVerdict' /\ (K!SameId /\ K!VerdictsStay => K!SameId')
  BY StepIsKernel, KernelAssumptions, K!NextFollows DEF Sound, Follows
<1>3. E!Whole' => K!VerdictsStay BY <1>1 DEF K!VerdictsStay
<1> QED BY <1>1, <1>2, <1>3 DEF Follows

\* On one CPU a flow the kernel shows as CLASSIFIED has a verdict, and until the first
\* expiry it is counted under the id the daemon has for it: no verdict goes to
\* another flow, and none is replaced behind the kernel's back.
THEOREM KernelFollows ==
  ASSUME NEW c, CPU = {c}
  PROVE  Spec => []KernelFollowsDaemon
<1>1. Init => K!OwnIds /\ K!Alone /\ Follows
  <2>1. K!Init => K!OwnIds /\ K!Alone /\ K!HasVerdict /\ K!SameId
    BY KernelAssumptions, K!InitOneCpu, K!InitFollows
  <2>2. E!Init => E!Faithful BY EngineAssumptions, E!InitFaithful
  <2> QED BY <2>1, <2>2 DEF Init, Follows
<1>2. Sound /\ K!OwnIds /\ K!Alone /\ Follows /\ [Next]_vars => K!OwnIds' /\ K!Alone' /\ Follows'
  <2>1. Sound /\ K!OwnIds /\ K!Alone /\ [Next]_vars => K!OwnIds' /\ K!Alone'
    BY StepIsKernel, KernelAssumptions, K!NextOwnIds, K!NextAlone DEF Sound
  <2> QED BY <2>1, NextFollows
<1>3. Follows => KernelFollowsDaemon
  <2> SUFFICES ASSUME Follows, NEW k \in Key, flow_map[k].state = "CLASSIFIED", ~K!Storing(k)
               PROVE  /\ verdict_map[k] # NoVerdict
                      /\ stats.total_created = Cardinality(E!Live)
                           => flow_map[k].app_id = flows[k].app_id
    BY DEF KernelFollowsDaemon
  <2>1. verdict_map[k] # NoVerdict BY DEF Follows, K!HasVerdict
  <2>2. ASSUME stats.total_created = Cardinality(E!Live)
        PROVE  flow_map[k].app_id = flows[k].app_id
    <3>1. E!Whole BY <2>2, Library DEF E!Whole
    <3>2. flow_map[k].app_id = verdict_map[k] BY <3>1 DEF Follows, K!SameId
    <3>3. verdict_map[k] = flows[k].app_id
      BY <2>1, <3>1 DEF Follows, E!Faithful, E!VerdictHolds
    <3> QED BY <3>2, <3>3
  <2> QED BY <2>1, <2>2
<1> QED BY <1>1, <1>2, <1>3, SystemSound, PTL DEF Spec
=============================================================================
