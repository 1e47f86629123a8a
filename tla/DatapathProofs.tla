--------------------------- MODULE DatapathProofs ---------------------------
(***************************************************************************)
(* Theorems about Datapath, for any number of CPUs, flows and packets and  *)
(* any map and ring sizes.                                                 *)
(***************************************************************************)
EXTENDS Datapath, RecursionTheorems

(* The inductive invariant.  TypeOK and Ends suffice for NeverReopened; the
   bound on pkt_count also needs Overshoot. *)

\* A CPU that ends a classification stores a terminal state.
Ends == \A c \in CPU : cpu[c].pc = "store" => Terminal(cpu[c].set)

\* The CPUs that found k's flow in classification and have not yet counted ...
Active(k) == {c \in CPU : cpu[c].key = k /\ cpu[c].pc \in {"lookup", "read", "write"}}

\* ... and those that have reached the threshold and not yet said so.
GivingUp(k) == {c \in CPU : /\ cpu[c].key = k /\ cpu[c].pc = "store"
                            /\ cpu[c].set = "GAVE_UP" /\ "state" \in cpu[c].pend}

\* How far pkt_count can be: while k is in classification, each CPU that pushed it
\* past the threshold is still about to end the flow; afterwards only the CPUs
\* that had already found it open can push further, each once.
Limit(k) ==
  IF Terminal(flow_map[k].state)
  THEN FLOW_MAX_CLASSIFY_PKTS - 1 + Cardinality(CPU) - Cardinality(Active(k))
  ELSE FLOW_MAX_CLASSIFY_PKTS - 1 + Cardinality(GivingUp(k))

\* The count in the map and the counts in registers are within it.
Overshoot == \A k \in Key :
  /\ flow_map[k].pkt_count =< Limit(k)
  /\ \A c \in CPU : cpu[c].pc = "write" /\ cpu[c].key = k => cpu[c].cnt =< Limit(k)

IInv == TypeOK /\ Ends /\ Overshoot
-----------------------------------------------------------------------------
\* update_app_counter keeps the counters' type.
LEMMA UpdateAppCounterType ==
  ASSUME TypeOK, NEW c \in CPU, NEW a \in AppId, NEW n \in 0..1, UpdateAppCounter(c, a, n)
  PROVE  /\ app_counters' \in [CPU -> [Countable -> [packets : Nat, flows : Nat]]]
         /\ lost' \in Nat
<1>1. CASE a \in Countable
  <2>1. Counted(app_counters[c][a], n) \in [packets : Nat, flows : Nat]
    BY <1>1 DEF TypeOK, Counted
  <2>2. app_counters' = [app_counters EXCEPT ![c][a] = Counted(@, n)] /\ lost' = lost
    BY <1>1 DEF UpdateAppCounter
  <2> QED BY <1>1, <2>1, <2>2 DEF TypeOK
<1>2. CASE a \notin Countable
  BY <1>2 DEF UpdateAppCounter, TypeOK
<1> QED BY <1>1, <1>2

\* The initial state has the types.
LEMMA InitType == Init => TypeOK
BY AppAssumption, ThresholdAssumption
   DEF Init, TypeOK, FlowEntry, NotTracked, FlowState, VerdictMap, FlowEvent, Registers,
       PC, Idle, U8

\* Every step keeps the types.
LEMMA NextType == TypeOK /\ [Next]_vars => TypeOK'
<1> SUFFICES ASSUME TypeOK, [Next]_vars PROVE TypeOK'
  OBVIOUS
<1> USE AppAssumption, CpuAssumption
<1>1. ASSUME NEW c \in CPU, NEW r \in Registers, Becomes(c, r), r.pc # "idle" => r.key \in Key
      PROVE  /\ cpu' \in [CPU -> Registers]
             /\ \A x \in CPU : cpu'[x].pc # "idle" => cpu'[x].key \in Key
  BY <1>1 DEF Becomes, TypeOK
<1>2. Idle \in Registers /\ Idle.pc = "idle"
  BY DEF Idle, Registers, PC, FlowState, U8
<1>3. ASSUME NEW c \in CPU, NEW k \in Key, NEW d \in Capture, Arrive(c, k, d) PROVE TypeOK'
  <2> DEFINE r == [Idle EXCEPT !.key = k, !.data = d, !.pc = Dispatch(flow_map[k].state)]
  <2>1. Dispatch(flow_map[k].state) \in PC BY DEF Dispatch, PC
  <2>2. r \in Registers /\ r.key \in Key
    BY <1>2, <2>1, CaptureAssumption DEF Registers
  <2>3. Becomes(c, r) BY <1>3 DEF Arrive
  <2> HIDE DEF r
  <2> QED BY <1>1, <1>3, <2>2, <2>3 DEF Arrive, TypeOK
<1>4. ASSUME NEW c \in CPU, InsertNew(c) PROVE TypeOK'
  <2> DEFINE r == [cpu[c] EXCEPT !.pc = "send"]
  <2>1. r \in Registers /\ r.key \in Key BY <1>4 DEF InsertNew, TypeOK, Registers, PC
  <2>2. Becomes(c, r) BY <1>4 DEF InsertNew
  <2>3. flow_map' \in [Key -> FlowEntry]
    BY <1>4 DEF InsertNew, TypeOK, FlowEntry, FlowState, U8
  <2> HIDE DEF r
  <2> QED BY <1>1, <1>4, <2>1, <2>2, <2>3 DEF InsertNew, TypeOK
<1>5. ASSUME NEW c \in CPU, CountFast(c) PROVE TypeOK'
  <2>1. flow_map[cpu[c].key].app_id \in AppId BY <1>5 DEF CountFast, TypeOK, FlowEntry
  <2>2. /\ app_counters' \in [CPU -> [Countable -> [packets : Nat, flows : Nat]]]
        /\ lost' \in Nat
    BY <1>5, <2>1, UpdateAppCounterType DEF CountFast
  <2> QED BY <1>1, <1>2, <1>5, <2>2 DEF CountFast, TypeOK
<1>6. ASSUME NEW c \in CPU, LookupVerdict(c) PROVE TypeOK'
  <2> DEFINE v == verdict_map[cpu[c].key]
             r == IF Found(v)
                  THEN [cpu[c] EXCEPT !.pc = "store", !.app = v,
                                      !.set = "CLASSIFIED", !.pend = Stores]
                  ELSE [cpu[c] EXCEPT !.pc = "read"]
  <2>1. cpu[c] \in Registers /\ cpu[c].key \in Key BY <1>6 DEF LookupVerdict, TypeOK
  <2>2. Found(v) => v \in AppId BY <2>1 DEF TypeOK, VerdictMap, Found
  <2>3. r \in Registers /\ r.key \in Key
    BY <2>1, <2>2 DEF Registers, PC, FlowState, Stores
  <2>4. Becomes(c, r) BY <1>6 DEF LookupVerdict
  <2> HIDE DEF r
  <2> QED BY <1>1, <1>6, <2>3, <2>4 DEF LookupVerdict, TypeOK
<1>7. ASSUME NEW c \in CPU, ReadCount(c) PROVE TypeOK'
  <2> DEFINE r == [cpu[c] EXCEPT !.pc = "write", !.cnt = flow_map[cpu[c].key].pkt_count]
  <2>1. r \in Registers /\ r.key \in Key
    BY <1>7 DEF ReadCount, TypeOK, Registers, PC, FlowEntry
  <2>2. Becomes(c, r) BY <1>7 DEF ReadCount
  <2> HIDE DEF r
  <2> QED BY <1>1, <1>7, <2>1, <2>2 DEF ReadCount, TypeOK
<1>8. ASSUME NEW c \in CPU, WriteCount(c) PROVE TypeOK'
  <2> DEFINE n == (cpu[c].cnt + 1) % U8
             r == IF ReachesThreshold(n)
                  THEN [cpu[c] EXCEPT !.pc = "store", !.app = Unknown, !.cnt = 0,
                                      !.set = "GAVE_UP", !.pend = Stores]
                  ELSE [cpu[c] EXCEPT !.pc = "send", !.cnt = 0]
  <2>1. cpu[c] \in Registers /\ cpu[c].key \in Key BY <1>8 DEF WriteCount, TypeOK
  <2>2. n \in 0..(U8-1) BY <2>1 DEF Registers, U8
  <2>3. r \in Registers /\ r.key \in Key
    <3>1. CASE ReachesThreshold(n)
      <4>1. r = [cpu[c] EXCEPT !.pc = "store", !.app = Unknown, !.cnt = 0,
                               !.set = "GAVE_UP", !.pend = Stores]
        BY <3>1
      <4>2. 0 \in 0..(U8-1) /\ Unknown \in AppId BY DEF U8
      <4> HIDE DEF r, n
      <4> QED BY <2>1, <4>1, <4>2 DEF Registers, PC, FlowState, Stores
    <3>2. CASE ~ReachesThreshold(n)
      <4>1. r = [cpu[c] EXCEPT !.pc = "send", !.cnt = 0]
        BY <3>2
      <4>2. 0 \in 0..(U8-1) BY DEF U8
      <4> HIDE DEF r, n
      <4> QED BY <2>1, <4>1, <4>2 DEF Registers, PC
    <3> QED BY <3>1, <3>2
  <2>4. Becomes(c, r) BY <1>8 DEF WriteCount
  <2>5. flow_map' \in [Key -> FlowEntry]
    BY <1>8, <2>1, <2>2 DEF WriteCount, TypeOK, FlowEntry
  <2> HIDE DEF n, r
  <2> QED BY <1>1, <1>8, <2>3, <2>4, <2>5 DEF WriteCount, TypeOK
<1>9. ASSUME NEW c \in CPU, NEW f \in {"state", "app_id"}, Store(c, f) PROVE TypeOK'
  <2> DEFINE rest == cpu[c].pend \ {f}
             r == [cpu[c] EXCEPT !.pend = rest,
                                 !.pc = IF rest = {} THEN "count_new" ELSE "store"]
  <2>1. cpu[c] \in Registers /\ cpu[c].key \in Key BY <1>9 DEF Store, TypeOK
  <2>2. r \in Registers /\ r.key \in Key BY <2>1 DEF Registers, PC
  <2>3. Becomes(c, r) BY <1>9 DEF Store
  <2>4. flow_map' \in [Key -> FlowEntry]
    <3>1. CASE f = "state"
      BY <1>9, <2>1, <3>1 DEF Store, TypeOK, FlowEntry, Registers
    <3>2. CASE f = "app_id"
      BY <1>9, <2>1, <3>2 DEF Store, TypeOK, FlowEntry, Registers
    <3> QED BY <3>1, <3>2
  <2> HIDE DEF r
  <2> QED BY <1>1, <1>9, <2>2, <2>3, <2>4 DEF Store, TypeOK
<1>10. ASSUME NEW c \in CPU, CountNew(c) PROVE TypeOK'
  <2>1. cpu[c].app \in AppId BY DEF TypeOK, Registers
  <2>2. /\ app_counters' \in [CPU -> [Countable -> [packets : Nat, flows : Nat]]]
        /\ lost' \in Nat
    BY <1>10, <2>1, UpdateAppCounterType DEF CountNew
  <2> QED BY <1>1, <1>2, <1>10, <2>2 DEF CountNew, TypeOK
<1>11. ASSUME NEW c \in CPU, Send(c) PROVE TypeOK'
  <2>1. [key |-> cpu[c].key, data |-> cpu[c].data] \in FlowEvent
    BY <1>11 DEF Send, TypeOK, Registers, FlowEvent
  <2>2. flow_events' \in Seq(FlowEvent)
    <3>1. CASE Len(flow_events) < RingSize
      <4>1. flow_events' = Append(flow_events, [key |-> cpu[c].key, data |-> cpu[c].data])
        BY <1>11, <3>1 DEF Send
      <4> QED BY <2>1, <4>1 DEF TypeOK
    <3>2. CASE ~(Len(flow_events) < RingSize)
      BY <1>11, <3>2 DEF Send, TypeOK
    <3> QED BY <3>1, <3>2
  <2>3. sent' \in [Key -> Nat] /\ lost' \in Nat BY <1>11 DEF Send, TypeOK
  <2> QED BY <1>1, <1>2, <1>11, <2>2, <2>3 DEF Send, TypeOK
<1>12. ASSUME Consume PROVE TypeOK'
  BY <1>12 DEF Consume, TypeOK, kernel
<1>13. ASSUME NEW k \in Key, NEW a \in VerdictApp, WriteVerdict(k, a) PROVE TypeOK'
  BY <1>13, VerdictAppAssumption DEF WriteVerdict, TypeOK, kernel, VerdictUpdate, VerdictMap
<1>14. ASSUME NEW a \in VerdictApp, Answer(a) PROVE TypeOK'
  <2>1. flow_events' \in Seq(FlowEvent) /\ Head(flow_events).key \in Key
    <3>1. flow_events \in Seq(FlowEvent) /\ flow_events # <<>> BY <1>14 DEF Answer, TypeOK
    <3>2. Head(flow_events) \in FlowEvent /\ Tail(flow_events) \in Seq(FlowEvent) BY <3>1
    <3> QED BY <1>14, <3>2 DEF Answer, FlowEvent
  <2> QED
    BY <1>14, <2>1, VerdictAppAssumption
       DEF Answer, TypeOK, kernel, VerdictUpdate, VerdictMap
<1>15. CASE UNCHANGED vars
  BY <1>15 DEF vars, kernel, TypeOK
<1> QED BY <1>3, <1>4, <1>5, <1>6, <1>7, <1>8, <1>9, <1>10, <1>11, <1>12, <1>13, <1>14, <1>15
        DEF Next, Kernel, Step

\* Datapath's states have their types: in particular a CPU at work holds the key
\* of a flow, the counters are naturals and every id stored anywhere is an id.
THEOREM TypeCorrect == Spec => []TypeOK
BY InitType, NextType, PTL DEF Spec
-----------------------------------------------------------------------------
\* Counts are natural numbers.
LEMMA CountTypes ==
  ASSUME TypeOK
  PROVE  /\ \A k \in Key : flow_map[k].pkt_count \in Nat
         /\ \A c \in CPU : cpu[c].cnt \in Nat
<1>1. ASSUME NEW k \in Key PROVE flow_map[k].pkt_count \in Nat
  <2>1. flow_map[k] \in FlowEntry BY DEF TypeOK
  <2> QED BY <2>1 DEF FlowEntry, U8
<1>2. ASSUME NEW c \in CPU PROVE cpu[c].cnt \in Nat
  <2>1. cpu[c] \in Registers BY DEF TypeOK
  <2> QED BY <2>1 DEF Registers, U8
<1> QED BY <1>1, <1>2

\* A step of CPU c leaves the other CPUs alone.
LEMMA BecomesFacts ==
  ASSUME TypeOK, NEW c \in CPU, NEW r, Becomes(c, r)
  PROVE  cpu'[c] = r /\ \A x \in CPU \ {c} : cpu'[x] = cpu[x]
BY DEF TypeOK, Becomes

\* What one step does to the state of a flow and to the CPUs that work on it: an
\* ended flow stays ended and gets no new CPU in classification; a CPU about to
\* give an open flow up remains so.
FrameOf(k) ==
  /\ Terminal(flow_map[k].state) => Terminal(flow_map'[k].state)
  /\ Terminal(flow_map'[k].state) => Active(k)' \subseteq Active(k)
  /\ ~Terminal(flow_map'[k].state) => GivingUp(k) \subseteq GivingUp(k)'

\* Every step has that frame and keeps Ends.
LEMMA StepFrame ==
  ASSUME TypeOK, Ends, [Next]_vars
  PROVE  Ends' /\ \A k \in Key : FrameOf(k)
<1> USE DEF FrameOf, Active, GivingUp, Ends
<1>1. ASSUME NEW c \in CPU, NEW k \in Key, NEW d \in Capture, Arrive(c, k, d)
      PROVE  Ends' /\ \A j \in Key : FrameOf(j)
  <2> DEFINE r == [Idle EXCEPT !.key = k, !.data = d, !.pc = Dispatch(flow_map[k].state)]
  <2>1. cpu'[c] = r /\ \A x \in CPU \ {c} : cpu'[x] = cpu[x]
    BY <1>1, BecomesFacts DEF Arrive
  <2>2. /\ r.key = k
        /\ r.pc \notin {"store", "read", "write"}
        /\ r.pc = "lookup" => ~Terminal(flow_map[k].state)
    BY DEF Idle, Dispatch
  <2>3. flow_map' = flow_map /\ cpu[c].pc = "idle" BY <1>1 DEF Arrive
  <2> HIDE DEF r
  <2> QED BY <2>1, <2>2, <2>3
<1>2. ASSUME NEW c \in CPU, InsertNew(c) PROVE Ends' /\ \A j \in Key : FrameOf(j)
  <2>1. cpu'[c] = [cpu[c] EXCEPT !.pc = "send"] /\ \A x \in CPU \ {c} : cpu'[x] = cpu[x]
    BY <1>2, BecomesFacts DEF InsertNew
  <2>2. cpu[c].pc = "insert" /\ cpu'[c].pc = "send"
    BY <1>2, <2>1 DEF InsertNew, TypeOK, Registers
  <2>3. \A j \in Key : flow_map'[j] = flow_map[j] \/ flow_map[j].state = "NEW"
    BY <1>2 DEF InsertNew, Inserts, TypeOK
  <2>4. \A j \in Key : flow_map'[j] = flow_map[j] \/ ~Terminal(flow_map'[j].state)
    BY <1>2 DEF InsertNew, Inserts, TypeOK, Terminal
  <2> QED BY <2>1, <2>2, <2>3, <2>4 DEF Terminal
<1>3. ASSUME NEW c \in CPU, CountFast(c) \/ CountNew(c) \/ Send(c)
      PROVE  Ends' /\ \A j \in Key : FrameOf(j)
  <2>1. Becomes(c, Idle) /\ flow_map' = flow_map /\ cpu[c].pc \in {"count_fast", "count_new", "send"}
    BY <1>3 DEF CountFast, CountNew, Send
  <2>2. cpu'[c] = Idle /\ \A x \in CPU \ {c} : cpu'[x] = cpu[x]
    BY <2>1, BecomesFacts
  <2> QED BY <2>1, <2>2 DEF Idle
<1>4. ASSUME NEW c \in CPU, LookupVerdict(c) PROVE Ends' /\ \A j \in Key : FrameOf(j)
  <2> DEFINE v == verdict_map[cpu[c].key]
             r == IF Found(v)
                  THEN [cpu[c] EXCEPT !.pc = "store", !.app = v,
                                      !.set = "CLASSIFIED", !.pend = Stores]
                  ELSE [cpu[c] EXCEPT !.pc = "read"]
  <2>1. cpu'[c] = r /\ \A x \in CPU \ {c} : cpu'[x] = cpu[x]
    BY <1>4, BecomesFacts DEF LookupVerdict
  <2>2. flow_map' = flow_map /\ cpu[c].pc = "lookup" BY <1>4 DEF LookupVerdict
  <2>3. /\ r.key = cpu[c].key
        /\ r.pc \in {"store", "read"}
        /\ r.pc = "store" => r.set = "CLASSIFIED"
    BY DEF TypeOK, Registers
  <2> HIDE DEF r
  <2> QED BY <2>1, <2>2, <2>3 DEF Terminal
<1>5. ASSUME NEW c \in CPU, ReadCount(c) PROVE Ends' /\ \A j \in Key : FrameOf(j)
  <2> DEFINE r == [cpu[c] EXCEPT !.pc = "write", !.cnt = flow_map[cpu[c].key].pkt_count]
  <2>1. cpu'[c] = r /\ \A x \in CPU \ {c} : cpu'[x] = cpu[x]
    BY <1>5, BecomesFacts DEF ReadCount
  <2>2. flow_map' = flow_map /\ cpu[c].pc = "read" BY <1>5 DEF ReadCount
  <2>3. r.key = cpu[c].key /\ r.pc = "write" BY DEF TypeOK, Registers
  <2> HIDE DEF r
  <2> QED BY <2>1, <2>2, <2>3
<1>6. ASSUME NEW c \in CPU, WriteCount(c) PROVE Ends' /\ \A j \in Key : FrameOf(j)
  <2> DEFINE n == (cpu[c].cnt + 1) % U8
             r == IF ReachesThreshold(n)
                  THEN [cpu[c] EXCEPT !.pc = "store", !.app = Unknown, !.cnt = 0,
                                      !.set = "GAVE_UP", !.pend = Stores]
                  ELSE [cpu[c] EXCEPT !.pc = "send", !.cnt = 0]
  <2>1. cpu'[c] = r /\ \A x \in CPU \ {c} : cpu'[x] = cpu[x]
    BY <1>6, BecomesFacts DEF WriteCount
  <2>2. /\ \A j \in Key : flow_map'[j].state = flow_map[j].state
        /\ cpu[c].pc = "write"
    BY <1>6 DEF WriteCount, TypeOK, FlowEntry
  <2>3. /\ r.pc \in {"store", "send"}
        /\ r.pc = "store" => r.set = "GAVE_UP"
    BY DEF TypeOK, Registers
  <2> HIDE DEF r, n
  <2> QED BY <2>1, <2>2, <2>3 DEF Terminal
<1>7. ASSUME NEW c \in CPU, NEW f \in {"state", "app_id"}, Store(c, f)
      PROVE  Ends' /\ \A j \in Key : FrameOf(j)
  <2> DEFINE rest == cpu[c].pend \ {f}
             r == [cpu[c] EXCEPT !.pend = rest,
                                 !.pc = IF rest = {} THEN "count_new" ELSE "store"]
  <2>1. cpu'[c] = r /\ \A x \in CPU \ {c} : cpu'[x] = cpu[x]
    BY <1>7, BecomesFacts DEF Store
  <2>2. /\ cpu[c].pc = "store" /\ cpu[c].key \in Key
        /\ cpu[c] \in Registers
    BY <1>7 DEF Store, TypeOK
  <2>3. /\ r.key = cpu[c].key /\ r.set = cpu[c].set /\ r.pend = rest
        /\ r.pc \in {"store", "count_new"}
        /\ rest # {} => r.pc = "store"
    BY <2>2 DEF Registers
  <2>4. CASE f = "state"
    <3>1. \A j \in Key : flow_map'[j].state = IF j = cpu[c].key THEN cpu[c].set ELSE flow_map[j].state
      BY <1>7, <2>2, <2>4 DEF Store, TypeOK, FlowEntry
    <3> HIDE DEF r
    <3> QED BY <2>1, <2>2, <2>3, <3>1 DEF Terminal
  <2>5. CASE f = "app_id"
    <3>1. \A j \in Key : flow_map'[j].state = flow_map[j].state
      BY <1>7, <2>2, <2>5 DEF Store, TypeOK, FlowEntry
    <3>2. "state" \in cpu[c].pend => "state" \in rest BY <2>5
    <3> HIDE DEF r, rest
    <3> QED BY <2>1, <2>2, <2>3, <3>1, <3>2 DEF Terminal
  <2> QED BY <2>4, <2>5
<1>8. ASSUME UNCHANGED <<flow_map, cpu>> PROVE Ends' /\ \A j \in Key : FrameOf(j)
  BY <1>8
<1> QED BY <1>1, <1>2, <1>3, <1>4, <1>5, <1>6, <1>7, <1>8
        DEF Next, Kernel, Step, Consume, Answer, WriteVerdict, vars, kernel

\* However the CPUs interleave, a flow that was classified or given up never goes
\* back to classification: the store of a terminal state is never undone by a
\* late insert, a late count or another store.
THEOREM FlowNeverReopened == Spec => NeverReopened
<1>1. Init => Ends BY DEF Init, Ends, Idle
<1>2. TypeOK /\ Ends /\ [Next]_vars => Ends' BY StepFrame
<1>3. TypeOK /\ Ends /\ [Next]_vars =>
        [\A k \in Key : Terminal(flow_map[k].state) => Terminal(flow_map'[k].state)]_vars
  BY StepFrame DEF FrameOf
<1> QED BY <1>1, <1>2, <1>3, TypeCorrect, PTL DEF Spec, NeverReopened
-----------------------------------------------------------------------------
\* Active and GivingUp are disjoint finite sets of CPUs.
LEMMA Sizes ==
  ASSUME NEW k \in Key
  PROVE  /\ IsFiniteSet(Active(k)) /\ IsFiniteSet(GivingUp(k))
         /\ Cardinality(Active(k)) \in Nat /\ Cardinality(GivingUp(k)) \in Nat
         /\ Cardinality(CPU) \in Nat
         /\ Cardinality(Active(k)) + Cardinality(GivingUp(k)) =< Cardinality(CPU)
<1>1. Active(k) \subseteq CPU /\ GivingUp(k) \subseteq CPU /\ Active(k) \cap GivingUp(k) = {}
  BY DEF Active, GivingUp
<1>2. IsFiniteSet(Active(k)) /\ IsFiniteSet(GivingUp(k))
  BY <1>1, CpuAssumption, FS_Subset
<1>3. Cardinality(Active(k) \cup GivingUp(k)) =
        Cardinality(Active(k)) + Cardinality(GivingUp(k))
  <2>1. Cardinality(Active(k) \cup GivingUp(k)) =
          Cardinality(Active(k)) + Cardinality(GivingUp(k))
          - Cardinality(Active(k) \cap GivingUp(k))
    BY <1>2, FS_Union
  <2>2. Cardinality(Active(k) \cap GivingUp(k)) = 0 BY <1>1, FS_EmptySet
  <2>3. Cardinality(Active(k)) \in Nat /\ Cardinality(GivingUp(k)) \in Nat
    BY <1>2, FS_CardinalityType
  <2> QED BY <2>1, <2>2, <2>3
<1>4. Cardinality(Active(k) \cup GivingUp(k)) =< Cardinality(CPU)
  BY <1>1, CpuAssumption, FS_Subset
<1> QED BY <1>2, <1>3, <1>4, CpuAssumption, FS_CardinalityType

\* The same for the next state.
LEMMA SizesNext ==
  ASSUME NEW k \in Key
  PROVE  /\ IsFiniteSet(Active(k)') /\ IsFiniteSet(GivingUp(k)')
         /\ Cardinality(Active(k)') \in Nat /\ Cardinality(GivingUp(k)') \in Nat
<1>1. Active(k)' \subseteq CPU /\ GivingUp(k)' \subseteq CPU
  BY DEF Active, GivingUp
<1> QED BY <1>1, CpuAssumption, FS_Subset, FS_CardinalityType

\* A step with the frame never lowers the limit.  When the step ends the flow, the
\* CPUs giving up and those still counting are different CPUs.
LEMMA LimitGrows ==
  ASSUME NEW k \in Key, FrameOf(k)
  PROVE  Limit(k) \in Int /\ Limit(k)' \in Int /\ Limit(k) =< Limit(k)'
<1>1. Limit(k) \in Int /\ Limit(k)' \in Int
  BY Sizes, SizesNext, ThresholdAssumption DEF Limit
<1>2. CASE Terminal(flow_map'[k].state)
  <2>1. Cardinality(Active(k)') =< Cardinality(Active(k))
    BY <1>2, Sizes, FS_Subset DEF FrameOf
  <2> QED BY <1>1, <1>2, <2>1, Sizes, SizesNext, ThresholdAssumption DEF Limit
<1>3. CASE ~Terminal(flow_map'[k].state)
  <2>1. Cardinality(GivingUp(k)) =< Cardinality(GivingUp(k)')
    BY <1>3, SizesNext, FS_Subset DEF FrameOf
  <2>2. ~Terminal(flow_map[k].state) BY <1>3 DEF FrameOf
  <2> QED BY <1>1, <1>3, <2>1, <2>2, Sizes, SizesNext, ThresholdAssumption DEF Limit
<1> QED BY <1>1, <1>2, <1>3

\* The increment itself: the CPU leaves Active(k) and, at the threshold, joins
\* GivingUp(k), which pays for the one packet it adds.
LEMMA WriteWithin ==
  ASSUME TypeOK, Overshoot, NEW c \in CPU, WriteCount(c), NEW k \in Key, cpu[c].key = k
  PROVE  flow_map'[k].pkt_count =< Limit(k)'
<1> DEFINE n == (cpu[c].cnt + 1) % U8
           r == IF ReachesThreshold(n)
                THEN [cpu[c] EXCEPT !.pc = "store", !.app = Unknown, !.cnt = 0,
                                    !.set = "GAVE_UP", !.pend = Stores]
                ELSE [cpu[c] EXCEPT !.pc = "send", !.cnt = 0]
<1>1. /\ cpu[c] \in Registers /\ cpu[c].pc = "write"
      /\ cpu[c].cnt \in Nat /\ n \in Nat /\ n =< cpu[c].cnt + 1
  <2>1. cpu[c] \in Registers /\ cpu[c].pc = "write" BY DEF WriteCount, TypeOK
  <2>2. cpu[c].cnt \in Nat BY <2>1 DEF Registers, U8
  <2> QED BY <2>1, <2>2 DEF U8
<1>2. /\ flow_map'[k].pkt_count = n
      /\ flow_map'[k].state = flow_map[k].state
  BY DEF WriteCount, TypeOK, FlowEntry
<1>3. cpu'[c] = r /\ \A x \in CPU \ {c} : cpu'[x] = cpu[x]
  BY BecomesFacts DEF WriteCount
<1>4. cpu[c].cnt =< Limit(k) BY <1>1 DEF Overshoot
<1>5. CASE Terminal(flow_map[k].state)
  <2>1. c \in Active(k) BY <1>1 DEF Active
  <2>2. r.pc \notin {"lookup", "read", "write"} BY <1>1 DEF Registers
  <2>3. Active(k)' \subseteq Active(k) \ {c}
    <3> HIDE DEF r
    <3> QED BY <1>3, <2>2 DEF Active
  <2>4. /\ IsFiniteSet(Active(k) \ {c})
        /\ Cardinality(Active(k) \ {c}) = Cardinality(Active(k)) - 1
    BY <2>1, Sizes, FS_RemoveElement
  <2>5. Cardinality(Active(k)') =< Cardinality(Active(k)) - 1
    BY <2>3, <2>4, FS_Subset
  <2>6. cpu[c].cnt =< FLOW_MAX_CLASSIFY_PKTS - 1 + Cardinality(CPU) - Cardinality(Active(k))
    BY <1>4, <1>5 DEF Limit
  <2>7. n =< FLOW_MAX_CLASSIFY_PKTS - 1 + Cardinality(CPU) - Cardinality(Active(k)')
    <3> HIDE DEF n
    <3> QED BY <1>1, <2>5, <2>6, Sizes, SizesNext, ThresholdAssumption
  <2> HIDE DEF n
  <2> QED BY <1>2, <1>5, <2>7 DEF Limit
<1>6. CASE ~Terminal(flow_map[k].state)
  <2>1. n =< FLOW_MAX_CLASSIFY_PKTS - 1 + Cardinality(GivingUp(k)')
    <3>1. CASE ReachesThreshold(n)
      <4>1. c \notin GivingUp(k) BY <1>1 DEF GivingUp
      <4>2. r.key = k /\ r.pc = "store" /\ r.set = "GAVE_UP" /\ "state" \in r.pend
        <5> HIDE DEF n
        <5> QED BY <1>1, <3>1 DEF Registers, Stores
      <4>3. GivingUp(k) \cup {c} \subseteq GivingUp(k)'
        <5> HIDE DEF r
        <5> QED BY <1>3, <4>1, <4>2 DEF GivingUp
      <4>4. Cardinality(GivingUp(k) \cup {c}) = Cardinality(GivingUp(k)) + 1
        BY <4>1, Sizes, FS_AddElement
      <4>5. Cardinality(GivingUp(k)) + 1 =< Cardinality(GivingUp(k)')
        BY <4>3, <4>4, SizesNext, FS_Subset
      <4>6. cpu[c].cnt =< FLOW_MAX_CLASSIFY_PKTS - 1 + Cardinality(GivingUp(k))
        BY <1>4, <1>6 DEF Limit
      <4> HIDE DEF n
      <4> QED BY <1>1, <4>5, <4>6, Sizes, SizesNext, ThresholdAssumption
    <3>2. CASE ~ReachesThreshold(n)
      <4> HIDE DEF n
      <4> QED BY <1>1, <3>2, SizesNext, ThresholdAssumption DEF ReachesThreshold
    <3> QED BY <3>1, <3>2
  <2> HIDE DEF n
  <2> QED BY <1>2, <1>6, <2>1 DEF Limit
<1> QED BY <1>5, <1>6

\* A step changes k's count only by inserting or by writing it, and puts a count
\* into a register only by reading it.
LEMMA CountChanges ==
  ASSUME TypeOK, [Next]_vars, NEW k \in Key, NEW c \in CPU
  PROVE  /\ \/ flow_map'[k].pkt_count = flow_map[k].pkt_count
            \/ flow_map'[k].state = "CLASSIFYING" /\ flow_map'[k].pkt_count = 1
            \/ \E x \in CPU : WriteCount(x) /\ cpu[x].key = k
         /\ cpu'[c].pc = "write" => \/ cpu'[c] = cpu[c]
                                    \/ /\ cpu'[c].key = cpu[c].key
                                       /\ cpu'[c].cnt = flow_map[cpu[c].key].pkt_count
<1> DEFINE P == \/ flow_map'[k].pkt_count = flow_map[k].pkt_count
                \/ flow_map'[k].state = "CLASSIFYING" /\ flow_map'[k].pkt_count = 1
                \/ \E x \in CPU : WriteCount(x) /\ cpu[x].key = k
           Q == cpu'[c].pc = "write" => \/ cpu'[c] = cpu[c]
                                        \/ /\ cpu'[c].key = cpu[c].key
                                           /\ cpu'[c].cnt = flow_map[cpu[c].key].pkt_count
<1>1. ASSUME NEW x \in CPU, NEW j \in Key, NEW d \in Capture, Arrive(x, j, d) PROVE P /\ Q
  BY <1>1 DEF Arrive, Becomes, Idle, Dispatch, TypeOK
<1>2. ASSUME NEW x \in CPU, InsertNew(x) PROVE P /\ Q
  BY <1>2 DEF InsertNew, Becomes, TypeOK, Registers
<1>3. ASSUME NEW x \in CPU, CountFast(x) \/ CountNew(x) \/ Send(x) PROVE P /\ Q
  BY <1>3 DEF CountFast, CountNew, Send, Becomes, Idle, TypeOK
<1>4. ASSUME NEW x \in CPU, LookupVerdict(x) PROVE P /\ Q
  BY <1>4 DEF LookupVerdict, Becomes, TypeOK, Registers
<1>5. ASSUME NEW x \in CPU, ReadCount(x) PROVE P /\ Q
  BY <1>5 DEF ReadCount, Becomes, TypeOK, Registers
<1>6. ASSUME NEW x \in CPU, WriteCount(x) PROVE P /\ Q
  <2>1. P BY <1>6 DEF WriteCount, TypeOK
  <2>2. Q
    <3> DEFINE n == (cpu[x].cnt + 1) % U8
    <3> HIDE DEF n
    <3> QED BY <1>6 DEF WriteCount, Becomes, TypeOK, Registers
  <2> QED BY <2>1, <2>2
<1>7. ASSUME NEW x \in CPU, NEW f \in {"state", "app_id"}, Store(x, f) PROVE P /\ Q
  <2>1. P BY <1>7 DEF Store, TypeOK, FlowEntry
  <2>2. Q BY <1>7 DEF Store, Becomes, TypeOK, Registers
  <2> QED BY <2>1, <2>2
<1>8. ASSUME UNCHANGED <<flow_map, cpu>> PROVE P /\ Q
  BY <1>8
<1> HIDE DEF P, Q
<1>9. P /\ Q
  BY <1>1, <1>2, <1>3, <1>4, <1>5, <1>6, <1>7, <1>8
     DEF Next, Kernel, Step, Consume, Answer, WriteVerdict, vars, kernel
<1> QED BY <1>9 DEF P, Q

\* Every step keeps the counts within their limits.
LEMMA NextOvershoot ==
  ASSUME TypeOK, Ends, Overshoot, [Next]_vars
  PROVE  Overshoot'
<1> SUFFICES ASSUME NEW k \in Key
             PROVE  /\ flow_map'[k].pkt_count =< Limit(k)'
                    /\ \A c \in CPU : cpu'[c].pc = "write" /\ cpu'[c].key = k
                                      => cpu'[c].cnt =< Limit(k)'
  BY DEF Overshoot
<1>1. Limit(k) \in Int /\ Limit(k)' \in Int /\ Limit(k) =< Limit(k)'
  BY StepFrame, LimitGrows
<1>2. flow_map[k].pkt_count \in Nat /\ flow_map[k].pkt_count =< Limit(k)
  BY CountTypes DEF Overshoot
<1>3. flow_map'[k].pkt_count =< Limit(k)'
  <2>1. CASE flow_map'[k].pkt_count = flow_map[k].pkt_count
    BY <1>1, <1>2, <2>1
  <2>2. CASE flow_map'[k].state = "CLASSIFYING" /\ flow_map'[k].pkt_count = 1
    BY <2>2, SizesNext, ThresholdAssumption DEF Limit, Terminal
  <2>3. CASE \E x \in CPU : WriteCount(x) /\ cpu[x].key = k
    BY <2>3, WriteWithin
  <2>4. CASE CPU = {}
    BY <2>4, <1>1, <1>2 DEF Next, Kernel, Consume, Answer, WriteVerdict, vars, kernel
  <2> QED BY <2>1, <2>2, <2>3, <2>4, CountChanges
<1>4. ASSUME NEW c \in CPU, cpu'[c].pc = "write", cpu'[c].key = k
      PROVE  cpu'[c].cnt =< Limit(k)'
  <2>1. CASE cpu'[c] = cpu[c]
    <3>1. cpu[c].cnt \in Nat BY CountTypes
    <3>2. cpu[c].cnt =< Limit(k) BY <1>4, <2>1 DEF Overshoot
    <3> QED BY <1>1, <2>1, <3>1, <3>2
  <2>2. CASE cpu'[c].key = cpu[c].key /\ cpu'[c].cnt = flow_map[cpu[c].key].pkt_count
    BY <1>1, <1>2, <1>4, <2>2
  <2> QED BY <1>4, <2>1, <2>2, CountChanges
<1> QED BY <1>3, <1>4

\* pkt_count of a flow is at most FLOW_MAX_CLASSIFY_PKTS - 1 plus the number of
\* CPUs: lost updates included, fewer than 249 CPUs cannot wrap the __u8.
THEOREM PktCountWithinBound == Spec => []PktCountBounded
<1>1. Init => IInv
  <2>1. ASSUME Init PROVE Overshoot
    BY <2>1, Sizes, ThresholdAssumption
       DEF Init, Overshoot, Limit, NotTracked, Terminal, Idle
  <2> QED BY <2>1, InitType DEF IInv, Init, Ends, Idle
<1>2. IInv /\ [Next]_vars => IInv'
  BY NextType, StepFrame, NextOvershoot DEF IInv
<1>3. IInv => PktCountBounded
  <2> SUFFICES ASSUME IInv, NEW k \in Key
               PROVE  flow_map[k].pkt_count =< FLOW_MAX_CLASSIFY_PKTS - 1 + Cardinality(CPU)
    BY DEF PktCountBounded
  <2>1. flow_map[k].pkt_count \in Nat BY CountTypes DEF IInv
  <2>2. flow_map[k].pkt_count =< Limit(k) BY DEF IInv, Overshoot
  <2> QED BY <2>1, <2>2, Sizes, ThresholdAssumption DEF Limit
<1> QED BY <1>1, <1>2, <1>3, PTL DEF Spec
-----------------------------------------------------------------------------
(* What is counted, and by whom. *)

\* Every id has a number of packets and of flows on every CPU, and so has a CPU.
Packets(c) == [a \in Countable |-> app_counters[c][a].packets]
Flows(c) == [a \in Countable |-> app_counters[c][a].flows]

CellsTyped ==
  \A c \in CPU : /\ Packets(c) \in [Countable -> Nat] /\ Flows(c) \in [Countable -> Nat]
                 /\ PacketsOn(c) \in Nat /\ FlowsOn(c) \in Nat

LEMMA CellTypes == IsFiniteSet(Countable) /\ (TypeOK => CellsTyped)
<1>1. IsFiniteSet(Countable)
  BY AppAssumption, FS_Subset
<1>2. ASSUME TypeOK, NEW c \in CPU
      PROVE  /\ Packets(c) \in [Countable -> Nat] /\ Flows(c) \in [Countable -> Nat]
             /\ PacketsOn(c) \in Nat /\ FlowsOn(c) \in Nat
  <2>1. app_counters[c] \in [Countable -> [packets : Nat, flows : Nat]]
    BY <1>2 DEF TypeOK
  <2>2. Packets(c) \in [Countable -> Nat] /\ Flows(c) \in [Countable -> Nat]
    BY <2>1 DEF Packets, Flows
  <2>3. PacketsOn(c) = SumFunction(Packets(c)) /\ FlowsOn(c) = SumFunction(Flows(c))
    BY DEF PacketsOn, FlowsOn, Packets, Flows
  <2>4. DOMAIN Packets(c) = Countable /\ DOMAIN Flows(c) = Countable
    BY <2>2
  <2>5. SumFunction(Packets(c)) \in Nat /\ SumFunction(Flows(c)) \in Nat
    BY <1>1, <2>2, <2>4, SumWithout DEF SumFunction
  <2> QED
    BY <2>2, <2>3, <2>5
<1> QED
  BY <1>1, <1>2 DEF CellsTyped

LEMMA CellTypesNext == TypeOK' => CellsTyped'
BY CellTypes, PTL

InCounters == SumFunction([c \in CPU |-> PacketsOn(c)])

\* update_app_counter moves the packet into one counter of the CPU, or loses it, and
\* adds a new flow to the CPU's flows, or to none.
LEMMA CountMoves ==
  ASSUME TypeOK, TypeOK', NEW c \in CPU, NEW a \in AppId, NEW n \in 0..1,
         UpdateAppCounter(c, a, n)
  PROVE  /\ InCounters \in Nat /\ InCounters' \in Nat
         /\ InCounters' + lost' = InCounters + lost + 1
         /\ \A x \in CPU \ {c} : FlowsOn(x)' = FlowsOn(x)
         /\ FlowsOn(c)' =< FlowsOn(c) + n
<1>1. CellsTyped /\ CellsTyped' /\ IsFiniteSet(Countable) /\ lost \in Nat /\ lost' \in Nat
  BY CellTypes, CellTypesNext DEF TypeOK
<1>2. \A x \in CPU : PacketsOn(x) \in Nat /\ PacketsOn(x)' \in Nat
                     /\ FlowsOn(x) \in Nat /\ FlowsOn(x)' \in Nat
  BY <1>1 DEF CellsTyped
<1> DEFINE P == [x \in CPU |-> PacketsOn(x)]
           Q == [x \in CPU |-> PacketsOn(x)']
<1>3. P \in [CPU -> Nat] /\ Q \in [CPU -> Nat] /\ P[c] = PacketsOn(c) /\ Q[c] = PacketsOn(c)'
  BY <1>2
<1>4. InCounters = SumFunction(P) /\ InCounters' = SumFunction(Q)
  BY DEF InCounters
<1>5. CASE a \notin Countable
  <2>1. app_counters' = app_counters /\ lost' = lost + 1
    BY <1>5 DEF UpdateAppCounter
  <2>2. \A x \in CPU : PacketsOn(x)' = PacketsOn(x) /\ FlowsOn(x)' = FlowsOn(x)
    BY <2>1 DEF PacketsOn, FlowsOn
  <2>3. P = Q
    BY <2>2
  <2>4. InCounters \in Nat /\ InCounters' = InCounters
    <3> HIDE DEF P, Q
    <3> QED BY <1>3, <1>4, <2>3, CpuAssumption, SumUpdate
  <2> QED
    BY <1>1, <1>2, <2>1, <2>2, <2>4
<1>6. CASE a \in Countable
  <2>1. /\ app_counters' = [app_counters EXCEPT ![c][a] = Counted(@, n)]
        /\ lost' = lost
    BY <1>6 DEF UpdateAppCounter
  <2>2. /\ app_counters \in [CPU -> [Countable -> [packets : Nat, flows : Nat]]]
    BY DEF TypeOK
  <2>3. \A x \in CPU \ {c} : app_counters'[x] = app_counters[x]
    BY <2>1, <2>2
  <2>4. /\ app_counters'[c][a] = Counted(app_counters[c][a], n)
        /\ \A b \in Countable \ {a} : app_counters'[c][b] = app_counters[c][b]
    BY <1>6, <2>1, <2>2
  <2>5. \A x \in CPU \ {c} : PacketsOn(x)' = PacketsOn(x) /\ FlowsOn(x)' = FlowsOn(x)
    BY <2>3 DEF PacketsOn, FlowsOn
  <2>6. /\ Packets(c)'[a] = Packets(c)[a] + 1
        /\ Flows(c)'[a] = Flows(c)[a] + n
        /\ \A b \in Countable \ {a} : Packets(c)'[b] = Packets(c)[b] /\ Flows(c)'[b] = Flows(c)[b]
    BY <1>6, <2>4 DEF Packets, Flows, Counted
  <2>7. /\ Packets(c) \in [Countable -> Nat] /\ Packets(c)' \in [Countable -> Nat]
        /\ Flows(c) \in [Countable -> Nat] /\ Flows(c)' \in [Countable -> Nat]
    BY <1>1 DEF CellsTyped
  <2>8. /\ PacketsOn(c) = SumFunction(Packets(c)) /\ PacketsOn(c)' = SumFunction(Packets(c)')
        /\ FlowsOn(c) = SumFunction(Flows(c)) /\ FlowsOn(c)' = SumFunction(Flows(c)')
    BY DEF PacketsOn, FlowsOn, Packets, Flows
  <2>9. PacketsOn(c)' = PacketsOn(c) - Packets(c)[a] + Packets(c)'[a]
    BY <1>1, <1>6, <2>6, <2>7, <2>8, SumUpdate
  <2>10. FlowsOn(c)' = FlowsOn(c) - Flows(c)[a] + Flows(c)'[a]
    BY <1>1, <1>6, <2>6, <2>7, <2>8, SumUpdate
  <2>11. Packets(c)[a] \in Nat /\ Flows(c)[a] \in Nat
    BY <1>6, <2>7
  <2>12. PacketsOn(c)' = PacketsOn(c) + 1 /\ FlowsOn(c)' = FlowsOn(c) + n
    BY <1>2, <2>6, <2>9, <2>10, <2>11
  <2>13. \A x \in CPU \ {c} : Q[x] = P[x]
    BY <2>5
  <2>14. /\ SumFunction(P) \in Nat /\ SumFunction(Q) \in Nat
         /\ SumFunction(Q) = SumFunction(P) - P[c] + Q[c]
    <3> HIDE DEF P, Q
    <3> QED BY <1>3, <2>13, CpuAssumption, SumUpdate
  <2>15. InCounters \in Nat /\ InCounters' = InCounters + 1
    <3> HIDE DEF P, Q
    <3> QED BY <1>2, <1>3, <1>4, <2>12, <2>14
  <2> QED
    BY <1>1, <1>2, <2>1, <2>5, <2>12, <2>15
<1> QED
  BY <1>5, <1>6

\* The CPUs with a packet.
Busy == {c \in CPU : cpu[c].pc # "idle"}

LEMMA BusyMoves ==
  ASSUME TypeOK, NEW c \in CPU, NEW r, Becomes(c, r)
  PROVE  /\ Cardinality(Busy) \in Nat /\ Cardinality(Busy') \in Nat
         /\ Cardinality(Busy') = Cardinality(Busy) - (IF cpu[c].pc = "idle" THEN 0 ELSE 1)
                                                   + (IF r.pc = "idle" THEN 0 ELSE 1)
<1>1. cpu'[c] = r /\ \A x \in CPU \ {c} : cpu'[x] = cpu[x]
  BY BecomesFacts
<1> DEFINE Rest == Busy \ {c}
<1>2. IsFiniteSet(Busy) /\ IsFiniteSet(Rest) /\ c \notin Rest /\ Cardinality(Rest) \in Nat
  BY CpuAssumption, FS_Subset, FS_CardinalityType DEF Busy
<1>3. /\ Busy = IF cpu[c].pc = "idle" THEN Rest ELSE Rest \cup {c}
      /\ Busy' = IF r.pc = "idle" THEN Rest ELSE Rest \cup {c}
  BY <1>1 DEF Busy
<1> HIDE DEF Rest
<1>4. Cardinality(Rest \cup {c}) = Cardinality(Rest) + 1
  BY <1>2, FS_AddElement
<1> QED
  BY <1>2, <1>3, <1>4

\* The packets that have left their CPU.
Sent == SumFunction(sent)
Gone == InCounters + Sent + lost

GoneTyped ==
  /\ InCounters \in Nat /\ Sent \in Nat /\ lost \in Nat /\ Gone \in Nat
  /\ Cardinality(Busy) \in Nat /\ arrived \in Nat
  /\ Gone = Sent + (InCounters + lost) /\ Gone = InCounters + (Sent + lost)
  /\ PacketLedger <=> arrived = Cardinality(Busy) + Gone

LEMMA GoneTypes == TypeOK => GoneTyped
<1> SUFFICES ASSUME TypeOK PROVE GoneTyped
  OBVIOUS
<1>1. arrived \in Nat /\ lost \in Nat /\ sent \in [Key -> Nat]
  BY DEF TypeOK
<1>2. Sent \in Nat
  BY <1>1, KeyAssumption, SumWithout DEF SumFunction, Sent
<1>3. Cardinality(Busy) \in Nat
  BY CpuAssumption, FS_Subset, FS_CardinalityType DEF Busy
<1>4. InCounters \in Nat
  <2>1. CellsTyped
    BY CellTypes
  <2> DEFINE P == [x \in CPU |-> PacketsOn(x)]
  <2>2. DOMAIN P = CPU /\ \A x \in CPU : P[x] \in Nat
    BY <2>1 DEF CellsTyped
  <2> HIDE DEF P
  <2>3. SumFunction(P) \in Nat
    BY <2>2, CpuAssumption, SumWithout DEF SumFunction
  <2> QED BY <2>3 DEF InCounters, P
<1>5. /\ Gone \in Nat /\ Gone = Sent + (InCounters + lost) /\ Gone = InCounters + (Sent + lost)
      /\ Cardinality(Busy) + Gone = Cardinality(Busy) + InCounters + Sent + lost
  BY <1>1, <1>2, <1>3, <1>4 DEF Gone
<1>6. PacketLedger <=> arrived = Cardinality(Busy) + InCounters + Sent + lost
  BY DEF PacketLedger, Busy, InCounters, Sent
<1> QED BY <1>1, <1>2, <1>3, <1>4, <1>5, <1>6 DEF GoneTyped

LEMMA GoneTypesNext == TypeOK' => GoneTyped'
BY GoneTypes, PTL

\* Every step keeps the ledger.
LEMMA NextLedger == TypeOK /\ TypeOK' /\ PacketLedger /\ [Next]_vars => PacketLedger'
<1> SUFFICES ASSUME TypeOK, TypeOK', PacketLedger, [Next]_vars PROVE PacketLedger'
  OBVIOUS
<1>1. GoneTyped /\ GoneTyped'
  BY GoneTypes, GoneTypesNext
<1>2. /\ InCounters \in Nat /\ Sent \in Nat /\ lost \in Nat /\ Gone \in Nat
      /\ Cardinality(Busy) \in Nat /\ arrived \in Nat
      /\ arrived = Cardinality(Busy) + Gone
      /\ Gone = Sent + (InCounters + lost) /\ Gone = InCounters + (Sent + lost)
      /\ Gone' = Sent' + (InCounters' + lost') /\ Gone' = InCounters' + (Sent' + lost')
      /\ PacketLedger' <=> arrived' = Cardinality(Busy') + Gone'
  BY <1>1 DEF GoneTyped
<1>3. ASSUME UNCHANGED <<app_counters, arrived, sent, lost>>, Cardinality(Busy') = Cardinality(Busy)
      PROVE  PacketLedger'
  <2>1. Gone' = Gone
    BY <1>3 DEF Gone, InCounters, PacketsOn, Sent
  <2> QED BY <1>2, <1>3, <2>1
<1>7. ASSUME NEW c \in CPU, NEW k \in Key, NEW d \in Capture, Arrive(c, k, d) PROVE PacketLedger'
  <2> DEFINE r == [Idle EXCEPT !.key = k, !.data = d, !.pc = Dispatch(flow_map[k].state)]
  <2>1. Becomes(c, r) /\ cpu[c].pc = "idle" /\ arrived' = arrived + 1
        /\ UNCHANGED <<app_counters, sent, lost>>
    BY <1>7 DEF Arrive
  <2>2. r.pc # "idle"
    BY DEF Idle, Dispatch
  <2> HIDE DEF r
  <2>3. Cardinality(Busy') = Cardinality(Busy) + 1
    BY <1>2, <2>1, <2>2, BusyMoves
  <2>4. Gone' = Gone
    BY <2>1 DEF Gone, InCounters, PacketsOn, Sent
  <2> QED
    BY <1>2, <2>1, <2>3, <2>4
<1>8. ASSUME NEW c \in CPU, InsertNew(c) PROVE PacketLedger'
  <2> DEFINE r == [cpu[c] EXCEPT !.pc = "send"]
  <2>1. Becomes(c, r) /\ cpu[c].pc # "idle" BY <1>8 DEF InsertNew
  <2>2. r.pc # "idle" BY DEF TypeOK, Registers
  <2> HIDE DEF r
  <2>3. Cardinality(Busy') = Cardinality(Busy) BY <1>2, <2>1, <2>2, BusyMoves
  <2> QED BY <1>3, <1>8, <2>3 DEF InsertNew
<1>9. ASSUME NEW c \in CPU, LookupVerdict(c) PROVE PacketLedger'
  <2> DEFINE v == verdict_map[cpu[c].key]
             r == IF Found(v)
                  THEN [cpu[c] EXCEPT !.pc = "store", !.app = v,
                                      !.set = "CLASSIFIED", !.pend = Stores]
                  ELSE [cpu[c] EXCEPT !.pc = "read"]
  <2>1. Becomes(c, r) /\ cpu[c].pc # "idle" BY <1>9 DEF LookupVerdict
  <2>2. r.pc # "idle" BY DEF TypeOK, Registers
  <2> HIDE DEF r
  <2>3. Cardinality(Busy') = Cardinality(Busy) BY <1>2, <2>1, <2>2, BusyMoves
  <2> QED BY <1>3, <1>9, <2>3 DEF LookupVerdict
<1>10. ASSUME NEW c \in CPU, ReadCount(c) PROVE PacketLedger'
  <2> DEFINE r == [cpu[c] EXCEPT !.pc = "write", !.cnt = flow_map[cpu[c].key].pkt_count]
  <2>1. Becomes(c, r) /\ cpu[c].pc # "idle" BY <1>10 DEF ReadCount
  <2>2. r.pc # "idle" BY DEF TypeOK, Registers
  <2> HIDE DEF r
  <2>3. Cardinality(Busy') = Cardinality(Busy) BY <1>2, <2>1, <2>2, BusyMoves
  <2> QED BY <1>3, <1>10, <2>3 DEF ReadCount
<1>11. ASSUME NEW c \in CPU, WriteCount(c) PROVE PacketLedger'
  <2> DEFINE n == (cpu[c].cnt + 1) % U8
             r == IF ReachesThreshold(n)
                  THEN [cpu[c] EXCEPT !.pc = "store", !.app = Unknown, !.cnt = 0,
                                      !.set = "GAVE_UP", !.pend = Stores]
                  ELSE [cpu[c] EXCEPT !.pc = "send", !.cnt = 0]
  <2>1. Becomes(c, r) /\ cpu[c].pc # "idle" BY <1>11 DEF WriteCount
  <2>2. r.pc # "idle"
    <3> HIDE DEF n
    <3> QED BY DEF TypeOK, Registers
  <2> HIDE DEF r, n
  <2>3. Cardinality(Busy') = Cardinality(Busy) BY <1>2, <2>1, <2>2, BusyMoves
  <2> QED BY <1>3, <1>11, <2>3 DEF WriteCount
<1>12. ASSUME NEW c \in CPU, NEW f \in {"state", "app_id"}, Store(c, f) PROVE PacketLedger'
  <2> DEFINE rest == cpu[c].pend \ {f}
             r == [cpu[c] EXCEPT !.pend = rest,
                                 !.pc = IF rest = {} THEN "count_new" ELSE "store"]
  <2>1. Becomes(c, r) /\ cpu[c].pc # "idle" BY <1>12 DEF Store
  <2>2. r.pc # "idle" BY DEF TypeOK, Registers
  <2> HIDE DEF r
  <2>3. Cardinality(Busy') = Cardinality(Busy) BY <1>2, <2>1, <2>2, BusyMoves
  <2> QED BY <1>3, <1>12, <2>3 DEF Store
<1>13. ASSUME NEW c \in CPU, NEW a \in AppId, NEW n \in 0..1, UpdateAppCounter(c, a, n),
              Becomes(c, Idle), cpu[c].pc # "idle", UNCHANGED <<arrived, sent>>
       PROVE  PacketLedger'
  <2>1. InCounters' \in Nat /\ InCounters' + lost' = InCounters + lost + 1
    BY <1>13, CountMoves
  <2>2. Idle.pc = "idle" BY DEF Idle
  <2>3. Cardinality(Busy') \in Nat /\ Cardinality(Busy') = Cardinality(Busy) - 1
    BY <1>2, <1>13, <2>2, BusyMoves
  <2>4. Sent' = Sent /\ arrived' = arrived BY <1>13 DEF Sent
  <2>5. Gone' = Gone + 1
    BY <1>2, <2>1, <2>4
  <2> QED
    BY <1>2, <2>3, <2>4, <2>5
<1>14. ASSUME NEW c \in CPU, CountFast(c) PROVE PacketLedger'
  <2>1. flow_map[cpu[c].key].app_id \in AppId BY <1>14 DEF CountFast, TypeOK, FlowEntry
  <2> QED BY <1>13, <1>14, <2>1 DEF CountFast
<1>15. ASSUME NEW c \in CPU, CountNew(c) PROVE PacketLedger'
  <2>1. cpu[c].app \in AppId BY DEF TypeOK, Registers
  <2> QED BY <1>13, <1>15, <2>1 DEF CountNew
<1>16. ASSUME NEW c \in CPU, Send(c) PROVE PacketLedger'
  <2>1. Becomes(c, Idle) /\ cpu[c].pc # "idle" /\ UNCHANGED <<app_counters, arrived>>
    BY <1>16 DEF Send
  <2>2. Idle.pc = "idle" BY DEF Idle
  <2>3. Cardinality(Busy') \in Nat /\ Cardinality(Busy') = Cardinality(Busy) - 1
    BY <1>2, <2>1, <2>2, BusyMoves
  <2>4. InCounters' = InCounters BY <2>1 DEF InCounters, PacketsOn
  <2>5. Sent' \in Nat /\ Sent' + lost' = Sent + lost + 1
    <3>1. CASE Len(flow_events) < RingSize
      <4>1. lost' = lost /\ sent' = [sent EXCEPT ![cpu[c].key] = @ + 1] /\ cpu[c].key \in Key
        BY <1>16, <3>1 DEF Send, TypeOK
      <4> PICK k \in Key : k = cpu[c].key BY <4>1
      <4>2. sent'[k] = sent[k] + 1 /\ sent[k] \in Nat
            /\ \A j \in Key \ {k} : sent'[j] = sent[j]
        BY <4>1 DEF TypeOK
      <4>3. sent \in [Key -> Nat] /\ sent' \in [Key -> Nat] BY DEF TypeOK
      <4>4. Sent' \in Nat /\ Sent' = Sent - sent[k] + sent'[k]
        BY <4>2, <4>3, KeyAssumption, SumUpdate DEF Sent
      <4> QED BY <1>2, <4>1, <4>2, <4>4
    <3>2. CASE ~(Len(flow_events) < RingSize)
      <4>1. lost' = lost + 1 /\ sent' = sent BY <1>16, <3>2 DEF Send
      <4> QED BY <1>2, <4>1 DEF Sent
    <3> QED BY <3>1, <3>2
  <2>6. Gone' = Gone + 1
    BY <1>2, <2>4, <2>5
  <2> QED
    BY <1>2, <2>1, <2>3, <2>6
<1>17. ASSUME UNCHANGED kernel PROVE PacketLedger'
  <2>1. Busy' = Busy BY <1>17 DEF kernel, Busy
  <2> QED BY <1>3, <1>17, <2>1 DEF kernel
<1> QED
  BY <1>7, <1>8, <1>9, <1>10, <1>11, <1>12, <1>14, <1>15, <1>16, <1>17
     DEF Next, Kernel, Step, Consume, Answer, WriteVerdict, vars

\* No packet vanishes in the TC program and none is accounted for twice, for any
\* number of CPUs in any interleaving, with any ring and any ids.
THEOREM PacketsAreAccountedFor == Spec => []PacketLedger
<1>1. Init => PacketLedger
  <2> SUFFICES ASSUME Init PROVE PacketLedger
    OBVIOUS
  <2>1. Cardinality({c \in CPU : cpu[c].pc # "idle"}) = 0
    <3>1. {c \in CPU : cpu[c].pc # "idle"} = {} BY DEF Init, Idle
    <3> QED BY <3>1, FS_EmptySet
  <2>2. \A c \in CPU : PacketsOn(c) = 0
    <3> SUFFICES ASSUME NEW c \in CPU PROVE PacketsOn(c) = 0
      OBVIOUS
    <3>1. PacketsOn(c) = SumFunction([a \in Countable |-> 0])
      BY DEF PacketsOn, Init
    <3> QED BY <3>1, CellTypes, SumOfZeros
  <2>3. SumFunction([c \in CPU |-> PacketsOn(c)]) = 0
    <3>1. [c \in CPU |-> PacketsOn(c)] = [c \in CPU |-> 0] BY <2>2
    <3> QED BY <3>1, CpuAssumption, SumOfZeros
  <2>4. SumFunction(sent) = 0
    BY KeyAssumption, SumOfZeros DEF Init
  <2> QED BY <2>1, <2>3, <2>4 DEF PacketLedger, Init
<1>2. PacketLedger /\ TypeOK /\ TypeOK' /\ [Next]_vars => PacketLedger'
  BY NextLedger
<1> QED
  BY <1>1, <1>2, TypeCorrect, PTL DEF Spec
-----------------------------------------------------------------------------
(* The invariant behind CountedOncePerCpu.  A CPU counts a flow as new only for a
   flow that is in classification when its packet arrives and has ended when it
   is counted, so each flow it has counted is one it cannot claim again. *)

\* The flow whose classification CPU c may yet count.
Claimed(c) ==
  IF cpu[c].pc \in {"lookup", "read", "write", "store", "count_new"} THEN {cpu[c].key} ELSE {}

\* A CPU that has stored the terminal state has ended its flow.
Ended == \A c \in CPU :
  cpu[c].pc = "count_new" \/ (cpu[c].pc = "store" /\ "state" \notin cpu[c].pend)
    => cpu[c].key \in Finished

\* The flows a CPU has counted have ended, its own claim aside.
OncePerFlow == \A c \in CPU : FlowsOn(c) =< Cardinality(Finished \ Claimed(c))

\* No step makes a CPU claim a flow that has ended, and ended flows stay ended.
LEMMA ClaimsMove ==
  ASSUME TypeOK, Ends, Ended, [Next]_vars
  PROVE  /\ Ended'
         /\ \A x \in CPU : Finished \ Claimed(x) \subseteq Finished' \ Claimed(x)'
<1>1. Finished \subseteq Finished'
  <2>1. \A k \in Key : FrameOf(k) BY StepFrame
  <2> QED BY <2>1 DEF FrameOf, Finished
<1> DEFINE Goal(c) ==
  /\ cpu'[c].pc = "count_new" \/ (cpu'[c].pc = "store" /\ "state" \notin cpu'[c].pend)
       => cpu'[c].key \in Finished'
  /\ Claimed(c)' \cap Finished \subseteq Claimed(c)
<1>2. ASSUME NEW c \in CPU, cpu'[c] = cpu[c] PROVE Goal(c)
  BY <1>1, <1>2 DEF Ended, Claimed
<1>3. ASSUME NEW c \in CPU, NEW k \in Key, NEW d \in Capture, Arrive(c, k, d)
      PROVE  \A x \in CPU : Goal(x)
  <2> DEFINE r == [Idle EXCEPT !.key = k, !.data = d, !.pc = Dispatch(flow_map[k].state)]
  <2>1. cpu'[c] = r /\ \A x \in CPU \ {c} : cpu'[x] = cpu[x]
    BY <1>3, BecomesFacts DEF Arrive
  <2>2. /\ r.key = k
        /\ r.pc \notin {"store", "count_new"}
        /\ r.pc \in {"lookup", "read", "write"} => ~Terminal(flow_map[k].state)
    BY DEF Idle, Dispatch
  <2> HIDE DEF r
  <2>3. Goal(c) BY <2>1, <2>2 DEF Claimed, Finished
  <2> HIDE DEF Goal
  <2> QED BY <1>2, <2>1, <2>3
<1>4. ASSUME NEW c \in CPU, InsertNew(c) \/ CountFast(c) \/ CountNew(c) \/ Send(c)
      PROVE  \A x \in CPU : Goal(x)
  <2>1. \E r : Becomes(c, r) /\ r.pc \in {"send", "idle"}
    <3>1. CASE InsertNew(c)
      <4>1. [cpu[c] EXCEPT !.pc = "send"].pc = "send" BY DEF TypeOK, Registers
      <4> QED BY <3>1, <4>1 DEF InsertNew
    <3>2. CASE CountFast(c) \/ CountNew(c) \/ Send(c)
      <4>1. Idle.pc = "idle" BY DEF Idle
      <4> QED BY <3>2, <4>1 DEF CountFast, CountNew, Send
    <3> QED BY <1>4, <3>1, <3>2
  <2> PICK r : Becomes(c, r) /\ r.pc \in {"send", "idle"} BY <2>1
  <2>2. cpu'[c] = r /\ \A x \in CPU \ {c} : cpu'[x] = cpu[x] BY BecomesFacts
  <2>3. Goal(c) BY <2>2 DEF Claimed
  <2> HIDE DEF Goal
  <2> QED BY <1>2, <2>2, <2>3
<1>5. ASSUME NEW c \in CPU, NEW r, Becomes(c, r), r.key = cpu[c].key, Claimed(c) = {cpu[c].key},
             r.pc # "count_new", r.pc = "store" => "state" \in r.pend
      PROVE  \A x \in CPU : Goal(x)
  <2>1. cpu'[c] = r /\ \A x \in CPU \ {c} : cpu'[x] = cpu[x] BY <1>5, BecomesFacts
  <2>2. Goal(c) BY <1>5, <2>1 DEF Claimed
  <2> HIDE DEF Goal
  <2> QED BY <1>2, <2>1, <2>2
<1>6. ASSUME NEW c \in CPU, LookupVerdict(c) PROVE \A x \in CPU : Goal(x)
  <2> DEFINE v == verdict_map[cpu[c].key]
             r == IF Found(v)
                  THEN [cpu[c] EXCEPT !.pc = "store", !.app = v,
                                      !.set = "CLASSIFIED", !.pend = Stores]
                  ELSE [cpu[c] EXCEPT !.pc = "read"]
  <2>1. Becomes(c, r) /\ Claimed(c) = {cpu[c].key} BY <1>6 DEF LookupVerdict, Claimed
  <2>2. /\ r.key = cpu[c].key /\ r.pc \in {"store", "read"}
        /\ r.pc = "store" => r.pend = Stores
    BY DEF TypeOK, Registers
  <2> HIDE DEF r, Goal
  <2> QED BY <1>5, <2>1, <2>2 DEF Stores
<1>7. ASSUME NEW c \in CPU, ReadCount(c) PROVE \A x \in CPU : Goal(x)
  <2> DEFINE r == [cpu[c] EXCEPT !.pc = "write", !.cnt = flow_map[cpu[c].key].pkt_count]
  <2>1. Becomes(c, r) /\ Claimed(c) = {cpu[c].key} BY <1>7 DEF ReadCount, Claimed
  <2>2. r.key = cpu[c].key /\ r.pc = "write" BY DEF TypeOK, Registers
  <2> HIDE DEF r, Goal
  <2> QED BY <1>5, <2>1, <2>2
<1>8. ASSUME NEW c \in CPU, WriteCount(c) PROVE \A x \in CPU : Goal(x)
  <2> DEFINE n == (cpu[c].cnt + 1) % U8
             r == IF ReachesThreshold(n)
                  THEN [cpu[c] EXCEPT !.pc = "store", !.app = Unknown, !.cnt = 0,
                                      !.set = "GAVE_UP", !.pend = Stores]
                  ELSE [cpu[c] EXCEPT !.pc = "send", !.cnt = 0]
  <2>1. Becomes(c, r) /\ Claimed(c) = {cpu[c].key} BY <1>8 DEF WriteCount, Claimed
  <2>2. /\ r.key = cpu[c].key /\ r.pc \in {"store", "send"}
        /\ r.pc = "store" => r.pend = Stores
    <3> HIDE DEF n
    <3> QED BY DEF TypeOK, Registers
  <2> HIDE DEF r, n, Goal
  <2> QED BY <1>5, <2>1, <2>2 DEF Stores
<1>9. ASSUME NEW c \in CPU, NEW f \in {"state", "app_id"}, Store(c, f)
      PROVE  \A x \in CPU : Goal(x)
  <2> DEFINE rest == cpu[c].pend \ {f}
             r == [cpu[c] EXCEPT !.pend = rest,
                                 !.pc = IF rest = {} THEN "count_new" ELSE "store"]
  <2>1. cpu'[c] = r /\ \A x \in CPU \ {c} : cpu'[x] = cpu[x]
    BY <1>9, BecomesFacts DEF Store
  <2>2. /\ cpu[c].pc = "store" /\ cpu[c].key \in Key /\ Claimed(c) = {cpu[c].key}
        /\ r.key = cpu[c].key /\ r.pend = rest
    BY <1>9 DEF Store, TypeOK, Registers, Claimed
  <2>3. "state" \notin rest => cpu[c].key \in Finished'
    <3>1. CASE f = "state"
      <4>1. flow_map'[cpu[c].key].state = cpu[c].set
        BY <1>9, <2>2, <3>1 DEF Store, TypeOK, FlowEntry
      <4> QED BY <2>2, <4>1 DEF Ends, Finished
    <3>2. CASE f = "app_id"
      BY <1>1, <2>2, <3>2 DEF Ended
    <3> QED BY <3>1, <3>2
  <2>4. r.pc = "count_new" => "state" \notin rest
    BY DEF TypeOK, Registers
  <2> HIDE DEF r, rest
  <2>5. Goal(c) BY <2>1, <2>2, <2>3, <2>4 DEF Claimed
  <2> HIDE DEF Goal
  <2> QED BY <1>2, <2>1, <2>5
<1>10. ASSUME UNCHANGED cpu PROVE \A x \in CPU : Goal(x)
  <2> HIDE DEF Goal
  <2> QED BY <1>2, <1>10
<1>11. \A x \in CPU : Goal(x)
  <2> HIDE DEF Goal
  <2> QED BY <1>3, <1>4, <1>6, <1>7, <1>8, <1>9, <1>10
          DEF Next, Kernel, Step, Consume, Answer, WriteVerdict, vars, kernel
<1> QED BY <1>1, <1>11 DEF Ended

\* A CPU's flow total grows only when the CPU counts its claim, by one.
LEMMA FlowsMove ==
  ASSUME TypeOK, TypeOK', [Next]_vars, NEW x \in CPU
  PROVE  \/ FlowsOn(x)' =< FlowsOn(x)
         \/ /\ cpu[x].pc = "count_new" /\ cpu'[x].pc = "idle"
            /\ FlowsOn(x)' =< FlowsOn(x) + 1
<1>1. FlowsOn(x) \in Nat /\ FlowsOn(x)' \in Nat
  BY CellTypes, CellTypesNext DEF CellsTyped
<1>2. ASSUME NEW c \in CPU, CountFast(c) PROVE FlowsOn(x)' =< FlowsOn(x)
  <2>1. flow_map[cpu[c].key].app_id \in AppId BY <1>2 DEF CountFast, TypeOK, FlowEntry
  <2>2. /\ \A y \in CPU \ {c} : FlowsOn(y)' = FlowsOn(y)
        /\ FlowsOn(c)' =< FlowsOn(c) + 0
    BY <1>2, <2>1, CountMoves DEF CountFast
  <2> QED BY <1>1, <2>2
<1>3. ASSUME NEW c \in CPU, CountNew(c)
      PROVE  \/ FlowsOn(x)' =< FlowsOn(x)
             \/ /\ cpu[x].pc = "count_new" /\ cpu'[x].pc = "idle"
                /\ FlowsOn(x)' =< FlowsOn(x) + 1
  <2>1. cpu[c].app \in AppId BY DEF TypeOK, Registers
  <2>2. /\ \A y \in CPU \ {c} : FlowsOn(y)' = FlowsOn(y)
        /\ FlowsOn(c)' =< FlowsOn(c) + 1
    BY <1>3, <2>1, CountMoves DEF CountNew
  <2>3. cpu[c].pc = "count_new" /\ cpu'[c].pc = "idle"
    BY <1>3, BecomesFacts DEF CountNew, Idle
  <2> QED BY <1>1, <2>2, <2>3
<1>4. ASSUME UNCHANGED app_counters PROVE FlowsOn(x)' =< FlowsOn(x)
  <2>1. FlowsOn(x)' = FlowsOn(x) BY <1>4 DEF FlowsOn
  <2> QED BY <1>1, <2>1
<1> QED
  BY <1>2, <1>3, <1>4
     DEF Next, Kernel, Step, Arrive, InsertNew, LookupVerdict, ReadCount, WriteCount, Store,
         Send, Consume, Answer, WriteVerdict, vars, kernel

\* Every step keeps the bound.
LEMMA NextOncePerFlow ==
  TypeOK /\ TypeOK' /\ Ends /\ Ended /\ OncePerFlow /\ [Next]_vars => Ended' /\ OncePerFlow'
<1> SUFFICES ASSUME TypeOK, TypeOK', Ends, Ended, OncePerFlow, [Next]_vars
             PROVE  Ended' /\ OncePerFlow'
  OBVIOUS
<1>1. /\ Ended'
      /\ \A x \in CPU : Finished \ Claimed(x) \subseteq Finished' \ Claimed(x)'
  BY ClaimsMove
<1>2. ASSUME NEW x \in CPU PROVE FlowsOn(x)' =< Cardinality(Finished' \ Claimed(x)')
  <2> DEFINE A == Finished \ Claimed(x)
             B == Finished' \ Claimed(x)'
  <2>1. IsFiniteSet(A) /\ IsFiniteSet(B) /\ A \subseteq B
    BY <1>1, KeyAssumption, FS_Subset DEF Finished
  <2>2. FlowsOn(x) =< Cardinality(A)
    BY DEF OncePerFlow
  <2>3. FlowsOn(x) \in Nat /\ FlowsOn(x)' \in Nat
    BY CellTypes, CellTypesNext DEF CellsTyped
  <2>4. CASE FlowsOn(x)' =< FlowsOn(x)
    <3> HIDE DEF A, B
    <3>1. Cardinality(A) =< Cardinality(B) /\ Cardinality(A) \in Nat /\ Cardinality(B) \in Nat
      BY <2>1, FS_Subset, FS_CardinalityType
    <3>2. FlowsOn(x)' =< Cardinality(B) BY <2>2, <2>3, <2>4, <3>1
    <3> QED BY <3>2 DEF B
  <2>5. CASE /\ cpu[x].pc = "count_new" /\ cpu'[x].pc = "idle"
             /\ FlowsOn(x)' =< FlowsOn(x) + 1
    <3>1. cpu[x].key \in B /\ cpu[x].key \notin A
      <4>1. Finished \subseteq Finished'
        <5>1. \A k \in Key : FrameOf(k) BY StepFrame
        <5> QED BY <5>1 DEF FrameOf, Finished
      <4> QED BY <2>5, <4>1 DEF Ended, Claimed
    <3> HIDE DEF A, B
    <3>2. /\ IsFiniteSet(A \cup {cpu[x].key})
          /\ Cardinality(A \cup {cpu[x].key}) = Cardinality(A) + 1
      BY <2>1, <3>1, FS_AddElement
    <3>3. Cardinality(A \cup {cpu[x].key}) =< Cardinality(B)
      BY <2>1, <3>1, FS_Subset
    <3>4. Cardinality(A) \in Nat /\ Cardinality(B) \in Nat
      BY <2>1, FS_CardinalityType
    <3>5. FlowsOn(x)' =< Cardinality(B) BY <2>2, <2>3, <2>5, <3>2, <3>3, <3>4
    <3> QED BY <3>5 DEF B
  <2> HIDE DEF A, B
  <2>6. FlowsOn(x)' =< Cardinality(B) BY <2>4, <2>5, FlowsMove DEF B
  <2> QED BY <2>6 DEF B
<1> QED
  BY <1>1, <1>2 DEF OncePerFlow

\* One CPU never counts a flow as new twice, however the CPUs race on the entry:
\* its flow total never exceeds the number of flows whose classification ended.
THEOREM FlowCountedOncePerCpu == Spec => []CountedOncePerCpu
<1>1. Init => Ends /\ Ended /\ OncePerFlow
  <2> SUFFICES ASSUME Init PROVE Ends /\ Ended /\ OncePerFlow
    OBVIOUS
  <2>1. Ends /\ Ended BY DEF Init, Idle, Ends, Ended
  <2>2. \A c \in CPU : FlowsOn(c) =< Cardinality(Finished \ Claimed(c))
    <3> SUFFICES ASSUME NEW c \in CPU PROVE FlowsOn(c) =< Cardinality(Finished \ Claimed(c))
      OBVIOUS
    <3>1. FlowsOn(c) = SumFunction([a \in Countable |-> 0])
      BY DEF FlowsOn, Init
    <3>2. FlowsOn(c) = 0 BY <3>1, CellTypes, SumOfZeros
    <3>3. Cardinality(Finished \ Claimed(c)) \in Nat
      BY KeyAssumption, FS_Subset, FS_CardinalityType DEF Finished
    <3> QED BY <3>2, <3>3
  <2> QED BY <2>1, <2>2 DEF OncePerFlow
<1>2. TypeOK /\ Ends /\ [Next]_vars => Ends'
  BY StepFrame
<1>3. TypeOK /\ TypeOK' /\ Ends /\ Ended /\ OncePerFlow /\ [Next]_vars => Ended' /\ OncePerFlow'
  BY NextOncePerFlow
<1>4. TypeOK /\ OncePerFlow => CountedOncePerCpu
  <2> SUFFICES ASSUME TypeOK, OncePerFlow, NEW c \in CPU
               PROVE  FlowsOn(c) =< Cardinality(Finished)
    BY DEF CountedOncePerCpu
  <2>1. FlowsOn(c) =< Cardinality(Finished \ Claimed(c)) /\ FlowsOn(c) \in Nat
    BY CellTypes DEF OncePerFlow, CellsTyped
  <2>2. IsFiniteSet(Finished) /\ Finished \ Claimed(c) \subseteq Finished
    BY KeyAssumption, FS_Subset DEF Finished
  <2>3. /\ Cardinality(Finished \ Claimed(c)) =< Cardinality(Finished)
        /\ Cardinality(Finished \ Claimed(c)) \in Nat /\ Cardinality(Finished) \in Nat
    BY <2>2, FS_Subset, FS_CardinalityType
  <2> QED BY <2>1, <2>3
<1> QED
  BY <1>1, <1>2, <1>3, <1>4, TypeCorrect, PTL DEF Spec
-----------------------------------------------------------------------------
(* One CPU.  Between two accesses of its packet to a flow nothing else touches the
   flow, so what the registers hold is what flow_map holds. *)

\* What one CPU's step leaves in its registers and in flow_map, action by action.
LEMMA RegisterFacts ==
  ASSUME TypeOK, NEW c \in CPU
  PROVE  LET k == cpu[c].key  r == cpu'[c] IN
    /\ \A j \in Key, d \in Capture : Arrive(c, j, d) =>
         /\ r.key = j /\ r.pc = Dispatch(flow_map[j].state)
         /\ flow_map' = flow_map
    /\ InsertNew(c) =>
         /\ r.key = k /\ r.pc = "send" /\ k \in Key
         /\ \A j \in Key : flow_map'[j] = IF j = k /\ Inserts(k)
              THEN [state |-> "CLASSIFYING", pkt_count |-> 1, app_id |-> Unknown]
              ELSE flow_map[j]
    /\ CountFast(c) \/ CountNew(c) \/ Send(c) => r.pc = "idle" /\ flow_map' = flow_map
    /\ LookupVerdict(c) =>
         /\ r.key = k /\ k \in Key /\ flow_map' = flow_map
         /\ IF verdict_map[k] # NoVerdict
            THEN /\ r.pc = "store" /\ r.set = "CLASSIFIED" /\ r.app = verdict_map[k]
                 /\ r.pend = {"state", "app_id"}
            ELSE r.pc = "read"
    /\ ReadCount(c) =>
         /\ r.key = k /\ k \in Key /\ r.pc = "write" /\ r.cnt = flow_map[k].pkt_count
         /\ flow_map' = flow_map
    /\ WriteCount(c) =>
         /\ r.key = k /\ k \in Key
         /\ IF ReachesThreshold((cpu[c].cnt + 1) % U8)
            THEN /\ r.pc = "store" /\ r.set = "GAVE_UP" /\ r.app = Unknown
                 /\ r.pend = {"state", "app_id"}
            ELSE r.pc = "send"
         /\ \A j \in Key :
              /\ flow_map'[j].state = flow_map[j].state /\ flow_map'[j].app_id = flow_map[j].app_id
              /\ flow_map'[j].pkt_count =
                   IF j = k THEN (cpu[c].cnt + 1) % U8 ELSE flow_map[j].pkt_count
    /\ \A f \in {"state", "app_id"} : Store(c, f) =>
         /\ r.key = k /\ k \in Key /\ r.set = cpu[c].set /\ r.app = cpu[c].app
         /\ r.pend = cpu[c].pend \ {f} /\ r.pc = IF r.pend = {} THEN "count_new" ELSE "store"
         /\ \A j \in Key :
              /\ flow_map'[j].pkt_count = flow_map[j].pkt_count
              /\ flow_map'[j].state =
                   IF j = k /\ f = "state" THEN cpu[c].set ELSE flow_map[j].state
              /\ flow_map'[j].app_id =
                   IF j = k /\ f = "app_id" THEN cpu[c].app ELSE flow_map[j].app_id
<1>1. cpu[c] \in Registers /\ flow_map \in [Key -> FlowEntry] BY DEF TypeOK
<1>2. cpu[c].pc # "idle" => cpu[c].key \in Key BY DEF TypeOK
<1>3. ASSUME NEW j \in Key, NEW d \in Capture, Arrive(c, j, d)
      PROVE  /\ cpu'[c].key = j /\ cpu'[c].pc = Dispatch(flow_map[j].state)
             /\ flow_map' = flow_map
  <2> DEFINE p == Dispatch(flow_map[j].state)
  <2>1. cpu'[c] = [Idle EXCEPT !.key = j, !.data = d, !.pc = p] /\ flow_map' = flow_map
    BY <1>3, BecomesFacts DEF Arrive
  <2> HIDE DEF p
  <2>2. cpu'[c].key = j /\ cpu'[c].pc = p BY <2>1 DEF Idle
  <2> QED BY <2>1, <2>2 DEF p
<1>4. ASSUME InsertNew(c)
      PROVE  /\ cpu'[c].key = cpu[c].key /\ cpu'[c].pc = "send" /\ cpu[c].key \in Key
             /\ \A j \in Key : flow_map'[j] = IF j = cpu[c].key /\ Inserts(cpu[c].key)
                  THEN [state |-> "CLASSIFYING", pkt_count |-> 1, app_id |-> Unknown]
                  ELSE flow_map[j]
  <2>1. cpu'[c] = [cpu[c] EXCEPT !.pc = "send"] /\ cpu[c].key \in Key
    BY <1>2, <1>4, BecomesFacts DEF InsertNew
  <2> QED BY <1>1, <1>4, <2>1 DEF InsertNew, Registers
<1>5. ASSUME CountFast(c) \/ CountNew(c) \/ Send(c)
      PROVE  cpu'[c].pc = "idle" /\ flow_map' = flow_map
  BY <1>5, BecomesFacts DEF CountFast, CountNew, Send, Idle
<1>6. ASSUME LookupVerdict(c)
      PROVE  /\ cpu'[c].key = cpu[c].key /\ cpu[c].key \in Key /\ flow_map' = flow_map
             /\ IF verdict_map[cpu[c].key] # NoVerdict
                THEN /\ cpu'[c].pc = "store" /\ cpu'[c].set = "CLASSIFIED"
                     /\ cpu'[c].app = verdict_map[cpu[c].key]
                     /\ cpu'[c].pend = {"state", "app_id"}
                ELSE cpu'[c].pc = "read"
  <2> DEFINE v == verdict_map[cpu[c].key]
  <2>1. /\ cpu'[c] = IF Found(v)
                     THEN [cpu[c] EXCEPT !.pc = "store", !.app = v,
                                         !.set = "CLASSIFIED", !.pend = Stores]
                     ELSE [cpu[c] EXCEPT !.pc = "read"]
        /\ cpu[c].key \in Key /\ flow_map' = flow_map
    BY <1>2, <1>6, BecomesFacts DEF LookupVerdict
  <2> HIDE DEF v
  <2>2. /\ cpu'[c].key = cpu[c].key
        /\ IF v # NoVerdict
           THEN /\ cpu'[c].pc = "store" /\ cpu'[c].set = "CLASSIFIED"
                /\ cpu'[c].app = v /\ cpu'[c].pend = {"state", "app_id"}
           ELSE cpu'[c].pc = "read"
    BY <1>1, <2>1 DEF Found, Stores, Registers
  <2> QED BY <2>1, <2>2 DEF v
<1>7. ASSUME ReadCount(c)
      PROVE  /\ cpu'[c].key = cpu[c].key /\ cpu[c].key \in Key /\ cpu'[c].pc = "write"
             /\ cpu'[c].cnt = flow_map[cpu[c].key].pkt_count /\ flow_map' = flow_map
  <2>1. /\ cpu'[c] = [cpu[c] EXCEPT !.pc = "write", !.cnt = flow_map[cpu[c].key].pkt_count]
        /\ cpu[c].key \in Key /\ flow_map' = flow_map
    BY <1>2, <1>7, BecomesFacts DEF ReadCount
  <2> QED BY <1>1, <2>1 DEF Registers
<1>8. ASSUME WriteCount(c)
      PROVE  /\ cpu'[c].key = cpu[c].key /\ cpu[c].key \in Key
             /\ IF ReachesThreshold((cpu[c].cnt + 1) % U8)
                THEN /\ cpu'[c].pc = "store" /\ cpu'[c].set = "GAVE_UP"
                     /\ cpu'[c].app = Unknown /\ cpu'[c].pend = {"state", "app_id"}
                ELSE cpu'[c].pc = "send"
             /\ \A j \in Key :
                  /\ flow_map'[j].state = flow_map[j].state
                  /\ flow_map'[j].app_id = flow_map[j].app_id
                  /\ flow_map'[j].pkt_count =
                       IF j = cpu[c].key THEN (cpu[c].cnt + 1) % U8 ELSE flow_map[j].pkt_count
  <2> DEFINE n == (cpu[c].cnt + 1) % U8
  <2>1. /\ cpu'[c] = IF ReachesThreshold(n)
                     THEN [cpu[c] EXCEPT !.pc = "store", !.app = Unknown, !.cnt = 0,
                                         !.set = "GAVE_UP", !.pend = Stores]
                     ELSE [cpu[c] EXCEPT !.pc = "send", !.cnt = 0]
        /\ cpu[c].key \in Key /\ flow_map' = [flow_map EXCEPT ![cpu[c].key].pkt_count = n]
    BY <1>2, <1>8, BecomesFacts DEF WriteCount
  <2> HIDE DEF n
  <2>2. /\ cpu'[c].key = cpu[c].key
        /\ IF ReachesThreshold(n)
           THEN /\ cpu'[c].pc = "store" /\ cpu'[c].set = "GAVE_UP"
                /\ cpu'[c].app = Unknown /\ cpu'[c].pend = {"state", "app_id"}
           ELSE cpu'[c].pc = "send"
    BY <1>1, <2>1 DEF Stores, Registers
  <2>3. \A j \in Key :
          /\ flow_map'[j].state = flow_map[j].state
          /\ flow_map'[j].app_id = flow_map[j].app_id
          /\ flow_map'[j].pkt_count = IF j = cpu[c].key THEN n ELSE flow_map[j].pkt_count
    BY <1>1, <2>1 DEF FlowEntry
  <2> QED BY <2>1, <2>2, <2>3 DEF n
<1>9. ASSUME NEW f \in {"state", "app_id"}, Store(c, f)
      PROVE  /\ cpu'[c].key = cpu[c].key /\ cpu[c].key \in Key
             /\ cpu'[c].set = cpu[c].set /\ cpu'[c].app = cpu[c].app
             /\ cpu'[c].pend = cpu[c].pend \ {f}
             /\ cpu'[c].pc = IF cpu'[c].pend = {} THEN "count_new" ELSE "store"
             /\ \A j \in Key :
                  /\ flow_map'[j].pkt_count = flow_map[j].pkt_count
                  /\ flow_map'[j].state =
                       IF j = cpu[c].key /\ f = "state" THEN cpu[c].set ELSE flow_map[j].state
                  /\ flow_map'[j].app_id =
                       IF j = cpu[c].key /\ f = "app_id" THEN cpu[c].app ELSE flow_map[j].app_id
  <2> DEFINE rest == cpu[c].pend \ {f}
             p == IF rest = {} THEN "count_new" ELSE "store"
  <2>1. cpu'[c] = [cpu[c] EXCEPT !.pend = rest, !.pc = p] /\ cpu[c].key \in Key
    BY <1>2, <1>9, BecomesFacts DEF Store
  <2>2. flow_map' = IF f = "state" THEN [flow_map EXCEPT ![cpu[c].key].state = cpu[c].set]
                                   ELSE [flow_map EXCEPT ![cpu[c].key].app_id = cpu[c].app]
    BY <1>9 DEF Store
  <2> HIDE DEF rest, p
  <2>3. /\ cpu'[c].key = cpu[c].key /\ cpu'[c].set = cpu[c].set /\ cpu'[c].app = cpu[c].app
        /\ cpu'[c].pend = rest /\ cpu'[c].pc = p
    BY <1>1, <2>1 DEF Registers
  <2>4. \A j \in Key :
          /\ flow_map'[j].pkt_count = flow_map[j].pkt_count
          /\ flow_map'[j].state =
               IF j = cpu[c].key /\ f = "state" THEN cpu[c].set ELSE flow_map[j].state
          /\ flow_map'[j].app_id =
               IF j = cpu[c].key /\ f = "app_id" THEN cpu[c].app ELSE flow_map[j].app_id
    <3>1. CASE f = "state" BY <1>1, <2>1, <2>2, <3>1 DEF FlowEntry
    <3>2. CASE f = "app_id" BY <1>1, <2>1, <2>2, <3>2 DEF FlowEntry
    <3> QED BY <3>1, <3>2
  <2> QED BY <2>1, <2>3, <2>4 DEF rest, p
<1> QED BY <1>3, <1>4, <1>5, <1>6, <1>7, <1>8, <1>9

\* How the CPU's packet and its flow stand to each other: a flow is inserted while it
\* is untracked and ended while it is in classification, and each store that has
\* taken effect is found in flow_map.
Alone == \A c \in CPU :
  LET k == cpu[c].key IN
  /\ cpu[c].pc = "insert" => flow_map[k].state = "NEW"
  /\ cpu[c].pc \in {"lookup", "read", "write"} => flow_map[k].state = "CLASSIFYING"
  /\ cpu[c].pc \in {"store", "count_new"} =>
       /\ \/ cpu[c].set = "CLASSIFIED" /\ cpu[c].app \in VerdictApp
          \/ cpu[c].set = "GAVE_UP" /\ cpu[c].app = Unknown
       /\ flow_map[k].state = IF "state" \in cpu[c].pend THEN "CLASSIFYING" ELSE cpu[c].set
       /\ "app_id" \notin cpu[c].pend => flow_map[k].app_id = cpu[c].app
  /\ cpu[c].pc = "count_new" => cpu[c].pend = {}

\* The daemon writes ids of its own.
OwnIds == verdict_map \in [Key -> VerdictApp \cup {NoVerdict}]

LEMMA NextOwnIds == OwnIds /\ TypeOK /\ [Next]_vars => OwnIds'
<1> SUFFICES ASSUME OwnIds, TypeOK, [Next]_vars PROVE OwnIds'
  OBVIOUS
<1>1. ASSUME NEW k, NEW a \in VerdictApp, verdict_map' = VerdictUpdate(verdict_map, k, a)
      PROVE  OwnIds'
  BY <1>1 DEF OwnIds, VerdictUpdate
<1>2. CASE UNCHANGED verdict_map
  BY <1>2 DEF OwnIds
<1> QED
  BY <1>1, <1>2 DEF Next, Kernel, Step, Arrive, InsertNew, CountFast, LookupVerdict, ReadCount,
     WriteCount, Store, CountNew, Send, Consume, Answer, WriteVerdict, vars

\* On one CPU every step keeps it.
LEMMA NextAlone ==
  ASSUME NEW c, CPU = {c}, TypeOK, OwnIds, Alone, [Next]_vars
  PROVE  Alone'
<1> DEFINE k == cpu[c].key
<1>1. c \in CPU /\ \A x \in CPU : x = c OBVIOUS
<1> USE DEF Alone
<1>2. ASSUME NEW j \in Key, NEW d \in Capture, Arrive(c, j, d) PROVE Alone'
  <2>1. cpu'[c].key = j /\ cpu'[c].pc = Dispatch(flow_map[j].state) /\ flow_map' = flow_map
    BY <1>1, <1>2, RegisterFacts
  <2>2. flow_map[j].state \in FlowState BY DEF TypeOK, FlowEntry
  <2> QED BY <1>1, <2>1, <2>2 DEF Dispatch, Terminal, FlowState
<1>3. ASSUME InsertNew(c) \/ CountFast(c) \/ CountNew(c) \/ Send(c) PROVE Alone'
  <2>1. cpu'[c].pc \in {"send", "idle"} BY <1>1, <1>3, RegisterFacts
  <2> QED BY <1>1, <2>1
<1>4. ASSUME LookupVerdict(c) PROVE Alone'
  <2>1. /\ cpu'[c].key = k /\ k \in Key /\ flow_map' = flow_map
        /\ IF verdict_map[k] # NoVerdict
           THEN /\ cpu'[c].pc = "store" /\ cpu'[c].set = "CLASSIFIED"
                /\ cpu'[c].app = verdict_map[k] /\ cpu'[c].pend = {"state", "app_id"}
           ELSE cpu'[c].pc = "read"
    BY <1>1, <1>4, RegisterFacts
  <2>2. verdict_map[k] # NoVerdict => verdict_map[k] \in VerdictApp BY <2>1 DEF OwnIds
  <2>3. flow_map[k].state = "CLASSIFYING" BY <1>1, <1>4 DEF LookupVerdict
  <2> HIDE DEF k
  <2> QED BY <1>1, <2>1, <2>2, <2>3
<1>5. ASSUME ReadCount(c) PROVE Alone'
  <2>1. cpu'[c].key = k /\ cpu'[c].pc = "write" /\ flow_map' = flow_map
    BY <1>1, <1>5, RegisterFacts
  <2>2. flow_map[k].state = "CLASSIFYING" BY <1>1, <1>5 DEF ReadCount
  <2> HIDE DEF k
  <2> QED BY <1>1, <2>1, <2>2
<1>6. ASSUME WriteCount(c) PROVE Alone'
  <2>1. /\ cpu'[c].key = k /\ k \in Key
        /\ \/ /\ cpu'[c].pc = "store" /\ cpu'[c].set = "GAVE_UP"
              /\ cpu'[c].app = Unknown /\ cpu'[c].pend = {"state", "app_id"}
           \/ cpu'[c].pc = "send"
        /\ flow_map'[k].state = flow_map[k].state
    BY <1>1, <1>6, RegisterFacts
  <2>2. flow_map[k].state = "CLASSIFYING" BY <1>1, <1>6 DEF WriteCount
  <2> HIDE DEF k
  <2> QED BY <1>1, <2>1, <2>2
<1>7. ASSUME NEW f \in {"state", "app_id"}, Store(c, f) PROVE Alone'
  <2>1. /\ cpu'[c].key = k /\ k \in Key
        /\ cpu'[c].set = cpu[c].set /\ cpu'[c].app = cpu[c].app
        /\ cpu'[c].pend = cpu[c].pend \ {f}
        /\ cpu'[c].pc = IF cpu'[c].pend = {} THEN "count_new" ELSE "store"
        /\ flow_map'[k].state = IF f = "state" THEN cpu[c].set ELSE flow_map[k].state
        /\ flow_map'[k].app_id = IF f = "app_id" THEN cpu[c].app ELSE flow_map[k].app_id
    BY <1>1, <1>7, RegisterFacts
  <2>2. cpu[c].pc = "store" BY <1>7 DEF Store
  <2> HIDE DEF k
  <2>3. /\ \/ cpu[c].set = "CLASSIFIED" /\ cpu[c].app \in VerdictApp
           \/ cpu[c].set = "GAVE_UP" /\ cpu[c].app = Unknown
        /\ flow_map[k].state = IF "state" \in cpu[c].pend THEN "CLASSIFYING" ELSE cpu[c].set
        /\ "app_id" \notin cpu[c].pend => flow_map[k].app_id = cpu[c].app
    BY <1>1, <2>2 DEF k
  <2> QED BY <1>1, <2>1, <2>3
<1>8. ASSUME UNCHANGED <<flow_map, cpu>> PROVE Alone'
  BY <1>8
<1> QED
  BY <1>1, <1>2, <1>3, <1>4, <1>5, <1>6, <1>7, <1>8
     DEF Next, Kernel, Step, Consume, Answer, WriteVerdict, vars, kernel
-----------------------------------------------------------------------------
(* process_pkt on one CPU implements FlowLifecycle. *)

BarState == [k \in Key |-> EndedState(k)]
BarApp == [k \in Key |-> EndedApp(k)]
BarFlows == [a \in Countable |-> SumFunction([c \in CPU |-> app_counters[c][a].flows])]

\* With one CPU there is nothing to add up.
OwnFlows == \A c : CPU = {c} => BarFlows = [a \in Countable |-> app_counters[c][a].flows]

LEMMA OneCell == TypeOK => OwnFlows
<1> SUFFICES ASSUME TypeOK, NEW c, CPU = {c}, NEW a \in Countable
             PROVE  SumFunction([x \in CPU |-> app_counters[x][a].flows])
                      = app_counters[c][a].flows
  BY DEF BarFlows, OwnFlows
<1> DEFINE F == [x \in CPU |-> app_counters[x][a].flows]
<1>1. DOMAIN F = {c} /\ F[c] = app_counters[c][a].flows /\ F[c] \in Nat
  BY DEF TypeOK
<1> HIDE DEF F
<1>2. IsFiniteSet({c}) BY FS_Singleton
<1>3. SumFunctionOnSet(F, {c}) = F[c] + SumFunctionOnSet(F, {c} \ {c})
  BY <1>1, <1>2, SumWithout
<1>4. {c} \ {c} = {} OBVIOUS
<1>5. SumFunction(F) = F[c]
  BY <1>1, <1>3, <1>4, SumOfNothing DEF SumFunction
<1> QED BY <1>1, <1>5 DEF F

LEMMA OneCellNext == TypeOK' => OwnFlows'
BY OneCell, PTL

\* update_app_counter moves the flow count of one id.
LEMMA CellMoves ==
  ASSUME TypeOK, NEW c \in CPU, NEW a \in AppId, NEW n \in 0..1, UpdateAppCounter(c, a, n)
  PROVE  \A b \in Countable :
           app_counters'[c][b].flows = app_counters[c][b].flows + IF a = b THEN n ELSE 0
<1>1. \A b \in Countable : app_counters[c][b].flows \in Nat BY DEF TypeOK
<1>2. CASE a \in Countable
  <2>1. app_counters' = [app_counters EXCEPT ![c][a] = Counted(@, n)]
    BY <1>2 DEF UpdateAppCounter
  <2>2. \A b \in Countable :
          app_counters'[c][b] = IF a = b THEN Counted(app_counters[c][a], n) ELSE app_counters[c][b]
    BY <1>2, <2>1 DEF TypeOK
  <2>3. Counted(app_counters[c][a], n).flows = app_counters[c][a].flows + n BY DEF Counted
  <2> QED BY <1>1, <2>2, <2>3
<1>3. CASE a \notin Countable
  BY <1>1, <1>3 DEF UpdateAppCounter
<1> QED BY <1>2, <1>3

\* A step that leaves what is mapped of every flow alone is a stutter.
LEMMA Stutters ==
  ASSUME NEW c, CPU = {c}, TypeOK, TypeOK',
         \A j \in Key : EndedState(j)' = EndedState(j) /\ EndedApp(j)' = EndedApp(j),
         \A a \in Countable : app_counters'[c][a].flows = app_counters[c][a].flows
  PROVE  UNCHANGED <<BarState, BarApp, BarFlows>>
<1>1. BarState' = BarState /\ BarApp' = BarApp BY DEF BarState, BarApp
<1>2. BarFlows = [a \in Countable |-> app_counters[c][a].flows]
  BY OneCell DEF OwnFlows
<1>3. BarFlows' = [a \in Countable |-> app_counters'[c][a].flows]
  BY OneCellNext DEF OwnFlows
<1> QED BY <1>1, <1>2, <1>3

\* What the mapped state is while the CPU is, or is not, ending the flow.
LEMMA Mapping ==
  ASSUME NEW c, CPU = {c}, NEW j \in Key
  PROVE  /\ Ending(j) <=> cpu[c].pc \in {"store", "count_new"} /\ cpu[c].key = j
         /\ Ending(j) => EndedState(j) = "CLASSIFYING" /\ EndedApp(j) = Unknown
         /\ ~Ending(j) => /\ EndedState(j) = flow_map[j].state
                          /\ EndedApp(j) = IF Terminal(flow_map[j].state)
                                           THEN flow_map[j].app_id ELSE Unknown
BY DEF Ending, EndedState, EndedApp, Terminal

LEMMA MappingNext ==
  ASSUME NEW c, CPU = {c}, NEW j \in Key
  PROVE  /\ Ending(j)' <=> cpu'[c].pc \in {"store", "count_new"} /\ cpu'[c].key = j
         /\ Ending(j)' => EndedState(j)' = "CLASSIFYING" /\ EndedApp(j)' = Unknown
         /\ ~Ending(j)' => /\ EndedState(j)' = flow_map'[j].state
                           /\ EndedApp(j)' = IF Terminal(flow_map'[j].state)
                                             THEN flow_map'[j].app_id ELSE Unknown
BY DEF Ending, EndedState, EndedApp, Terminal

\* Every step on one CPU tracks a flow, ends one, or changes nothing of any.
LEMMA StepRefines ==
  ASSUME NEW c, CPU = {c}, TypeOK, TypeOK', Alone, [Next]_vars
  PROVE  [Lifecycle!Next]_(Lifecycle!vars)
<1> DEFINE k == cpu[c].key
           Same == /\ \A j \in Key : EndedState(j)' = EndedState(j) /\ EndedApp(j)' = EndedApp(j)
                   /\ \A a \in Countable : app_counters'[c][a].flows = app_counters[c][a].flows
<1>1. c \in CPU /\ \A x \in CPU : x = c OBVIOUS
<1>2. Same => UNCHANGED <<BarState, BarApp, BarFlows>>
  BY Stutters
<1>3. Same => UNCHANGED Lifecycle!vars
  <2> HIDE DEF Same
  <2> QED BY <1>2 DEF Lifecycle!vars, BarState, BarApp, BarFlows
<1>4. \A j \in Key : /\ flow_map[j].state \in FlowState /\ flow_map[j].app_id \in AppId
                     /\ BarState[j] = EndedState(j)
  BY DEF TypeOK, FlowEntry, BarState
<1>5. ASSUME NEW j \in Key, NEW d \in Capture, Arrive(c, j, d) PROVE Same
  <2>1. /\ cpu'[c].pc \notin {"store", "count_new"} /\ flow_map' = flow_map
        /\ cpu[c].pc = "idle" /\ app_counters' = app_counters
    BY <1>1, <1>5, RegisterFacts DEF Dispatch, Arrive
  <2> QED BY <1>1, <2>1, Mapping, MappingNext
<1>6. ASSUME InsertNew(c) PROVE Same \/ Lifecycle!Next
  <2> PICK q \in Key : q = k
    BY <1>1, <1>6, RegisterFacts
  <2>1. /\ cpu'[c].pc = "send" /\ k = q /\ cpu[c].pc = "insert"
        /\ app_counters' = app_counters /\ flow_map[q].state = "NEW"
        /\ \A j \in Key : flow_map'[j] = IF j = q /\ Inserts(q)
             THEN [state |-> "CLASSIFYING", pkt_count |-> 1, app_id |-> Unknown]
             ELSE flow_map[j]
    BY <1>1, <1>6, RegisterFacts DEF InsertNew, Alone
  <2>2. CASE ~Inserts(q)
    BY <1>1, <2>1, <2>2, Mapping, MappingNext
  <2>3. CASE Inserts(q)
    <3>1. /\ EndedState(q) = "NEW" /\ EndedState(q)' = "CLASSIFYING"
          /\ \A j \in Key : EndedApp(j)' = EndedApp(j)
          /\ \A j \in Key \ {q} : EndedState(j)' = EndedState(j)
      BY <1>1, <2>1, <2>3, Mapping, MappingNext DEF Terminal
    <3>2. BarApp' = BarApp /\ BarFlows' = BarFlows
      BY <2>1, <3>1 DEF BarApp, BarFlows
    <3>3. BarState' = [BarState EXCEPT ![q] = "CLASSIFYING"] /\ BarState[q] = "NEW"
      BY <2>1, <3>1 DEF BarState
    <3>4. Lifecycle!Track(q)
      BY <2>1, <3>2, <3>3 DEF Lifecycle!Track, BarState, BarApp, BarFlows
    <3> QED BY <2>1, <3>4 DEF Lifecycle!Next
  <2> QED BY <2>2, <2>3
<1>7. ASSUME CountFast(c) PROVE Same
  <2>1. /\ cpu'[c].pc = "idle" /\ flow_map' = flow_map /\ cpu[c].pc = "count_fast"
        /\ flow_map[k].app_id \in AppId /\ UpdateAppCounter(c, flow_map[k].app_id, 0)
    BY <1>1, <1>7, RegisterFacts DEF CountFast, TypeOK, FlowEntry
  <2>2. \A a \in Countable : app_counters'[c][a].flows = app_counters[c][a].flows
    <3>1. \A b \in Countable : app_counters[c][b].flows \in Nat BY <1>1 DEF TypeOK
    <3> HIDE DEF k
    <3>2. \A b \in Countable : app_counters'[c][b].flows =
            app_counters[c][b].flows + IF flow_map[k].app_id = b THEN 0 ELSE 0
      BY <1>1, <2>1, CellMoves
    <3> QED BY <3>1, <3>2
  <2> QED BY <1>1, <2>1, <2>2, Mapping, MappingNext
<1>8. ASSUME LookupVerdict(c) \/ ReadCount(c) \/ WriteCount(c) PROVE Same
  <2>1. /\ cpu'[c].key = k /\ k \in Key /\ cpu[c].pc \in {"lookup", "read", "write"}
        /\ app_counters' = app_counters
        /\ \A j \in Key : /\ flow_map'[j].state = flow_map[j].state
                          /\ flow_map'[j].app_id = flow_map[j].app_id
    BY <1>1, <1>8, RegisterFacts DEF LookupVerdict, ReadCount, WriteCount
  <2>2. flow_map[k].state = "CLASSIFYING" BY <1>1, <2>1 DEF Alone
  <2> HIDE DEF k
  <2> QED BY <1>1, <2>1, <2>2, Mapping, MappingNext DEF Terminal
<1>9. ASSUME NEW f \in {"state", "app_id"}, Store(c, f) PROVE Same
  <2>1. /\ cpu'[c].key = k /\ k \in Key
        /\ cpu'[c].pc \in {"store", "count_new"}
        /\ \A j \in Key \ {k} : /\ flow_map'[j].state = flow_map[j].state
                                /\ flow_map'[j].app_id = flow_map[j].app_id
    BY <1>1, <1>9, RegisterFacts
  <2>2. cpu[c].pc = "store" /\ app_counters' = app_counters BY <1>9 DEF Store
  <2> HIDE DEF k
  <2> QED BY <1>1, <2>1, <2>2, Mapping, MappingNext DEF k
<1>10. ASSUME CountNew(c) PROVE Lifecycle!Next
  <2>1. /\ k \in Key /\ cpu[c].app \in AppId /\ cpu[c].pc = "count_new"
        /\ UpdateAppCounter(c, cpu[c].app, 1)
    BY <1>1, <1>10 DEF CountNew, TypeOK, Registers
  <2>2. cpu'[c].pc = "idle" /\ flow_map' = flow_map BY <1>1, <1>10, RegisterFacts
  <2>3. PICK q \in Key : q = k BY <2>1
  <2>4. PICK s : s = cpu[c].set OBVIOUS
  <2>5. PICK a \in AppId : a = cpu[c].app BY <2>1
  <2>6. /\ \/ s = "CLASSIFIED" /\ a \in VerdictApp
           \/ s = "GAVE_UP" /\ a = Unknown
        /\ flow_map[q].state = s /\ flow_map[q].app_id = a
    BY <1>1, <2>1, <2>3, <2>4, <2>5 DEF Alone
  <2>7. \A b \in Countable :
          app_counters'[c][b].flows = app_counters[c][b].flows + IF a = b THEN 1 ELSE 0
    <3>1. UpdateAppCounter(c, a, 1) BY <2>1, <2>5
    <3> QED BY <1>1, <3>1, CellMoves
  <2>8. BarFlows' = [b \in Countable |-> BarFlows[b] + IF a = b THEN 1 ELSE 0]
    <3>1. BarFlows = [b \in Countable |-> app_counters[c][b].flows]
      BY OneCell DEF OwnFlows
    <3>2. BarFlows' = [b \in Countable |-> app_counters'[c][b].flows]
      BY OneCellNext DEF OwnFlows
    <3> QED BY <2>7, <3>1, <3>2
  <2>9. Ending(q) /\ ~Ending(q)' /\ \A j \in Key \ {q} : ~Ending(j) /\ ~Ending(j)'
    <3>1. \A j \in Key : ~Ending(j)' BY <2>2, MappingNext
    <3> QED BY <2>1, <2>3, <3>1, Mapping
  <2>10. /\ EndedState(q) = "CLASSIFYING" /\ EndedState(q)' = s /\ EndedApp(q)' = a
         /\ \A j \in Key \ {q} : EndedState(j)' = EndedState(j) /\ EndedApp(j)' = EndedApp(j)
    BY <2>2, <2>6, <2>9, Mapping, MappingNext DEF Terminal
  <2>11. /\ BarState[q] = "CLASSIFYING" /\ BarState' = [BarState EXCEPT ![q] = s]
         /\ BarApp' = [BarApp EXCEPT ![q] = a]
    BY <2>10 DEF BarState, BarApp
  <2>12. Lifecycle!End(q, s, a)
    BY <2>8, <2>11 DEF Lifecycle!End, BarState, BarApp, BarFlows
  <2> QED BY <2>6, <2>12 DEF Lifecycle!Next
<1>11. ASSUME Send(c) PROVE Same
  <2>1. /\ cpu'[c].pc = "idle" /\ flow_map' = flow_map /\ cpu[c].pc = "send"
        /\ app_counters' = app_counters
    BY <1>1, <1>11, RegisterFacts DEF Send
  <2> QED BY <1>1, <2>1, Mapping, MappingNext
<1>12. ASSUME UNCHANGED kernel PROVE Same
  BY <1>1, <1>12, Mapping, MappingNext DEF kernel
<1> HIDE DEF Same
<1> QED
  BY <1>1, <1>3, <1>5, <1>6, <1>7, <1>8, <1>9, <1>10, <1>11, <1>12
     DEF Next, Kernel, Step, Consume, Answer, WriteVerdict, vars

\* With one CPU a flow is tracked once, ends once, is credited to one application
\* when it ends, and nothing of it changes after: for any maps and thresholds,
\* whatever verdicts come, and however late.
THEOREM OneCpuImplementsLifecycle ==
  ASSUME NEW c, CPU = {c}
  PROVE  Spec => FlowEndsOnce
<1>1. Init => OwnIds /\ Alone
  BY DEF Init, OwnIds, Alone, Idle
<1>2. TypeOK /\ OwnIds /\ Alone /\ [Next]_vars => OwnIds' /\ Alone'
  BY NextOwnIds, NextAlone
<1>3. TypeOK /\ TypeOK' /\ Alone /\ [Next]_vars => [Lifecycle!Next]_(Lifecycle!vars)
  BY StepRefines
<1>4. Init => Lifecycle!Init
  <2> SUFFICES ASSUME Init PROVE Lifecycle!Init
    OBVIOUS
  <2>1. TypeOK BY InitType
  <2>2. BarFlows = [a \in Countable |-> 0] BY <2>1, OneCell DEF Init, OwnFlows
  <2>3. \A j \in Key : EndedState(j) = "NEW" /\ EndedApp(j) = Unknown
    BY Mapping DEF Init, Idle, NotTracked, Terminal
  <2> QED BY <2>2, <2>3 DEF Lifecycle!Init, BarFlows
<1> QED
  BY <1>1, <1>2, <1>3, <1>4, TypeCorrect, PTL DEF Spec, FlowEndsOnce, Lifecycle!Spec
-----------------------------------------------------------------------------
(* One CPU and room in flow_map: how many events a flow can be worth. *)

\* The packet of k that is about to be sent.
Sending(k) == IF \E c \in CPU : cpu[c].pc = "send" /\ cpu[c].key = k THEN 1 ELSE 0

\* Each event is for a packet counted in the kernel, and the packet that reaches the
\* threshold is not sent.
SentBelow ==
  /\ \A c \in CPU : cpu[c].pc = "write" => cpu[c].cnt = flow_map[cpu[c].key].pkt_count
  /\ \A k \in Key :
       /\ flow_map[k].state = "NEW" => flow_map[k].pkt_count = 0
       /\ flow_map[k].state = "CLASSIFYING" /\ ~Storing(k)
            => flow_map[k].pkt_count < FLOW_MAX_CLASSIFY_PKTS
       /\ sent[k] + Sending(k) =< flow_map[k].pkt_count
       /\ sent[k] + Sending(k) < FLOW_MAX_CLASSIFY_PKTS

\* What Sending and Storing are for the one CPU.
LEMMA OneCpu ==
  ASSUME NEW c, CPU = {c}, NEW k
  PROVE  /\ Sending(k) = IF cpu[c].pc = "send" /\ cpu[c].key = k THEN 1 ELSE 0
         /\ Sending(k)' = IF cpu'[c].pc = "send" /\ cpu'[c].key = k THEN 1 ELSE 0
         /\ Storing(k) <=> cpu[c].pc = "store" /\ cpu[c].key = k
         /\ Storing(k)' <=> cpu'[c].pc = "store" /\ cpu'[c].key = k
BY DEF Sending, Storing

LEMMA RoomForNew ==
  ASSUME TypeOK, Cardinality(Key) =< FlowMapSize, NEW k \in Key, flow_map[k].state = "NEW"
  PROVE  Inserts(k)
<1> DEFINE T == {j \in Key : flow_map[j].state # "NEW"}
<1>1. T \subseteq Key \ {k} OBVIOUS
<1>2. /\ IsFiniteSet(Key \ {k}) /\ Cardinality(Key \ {k}) = Cardinality(Key) - 1
      /\ Cardinality(Key) \in Nat
  BY KeyAssumption, FS_RemoveElement, FS_CardinalityType
<1>3. Cardinality(T) =< Cardinality(Key \ {k}) /\ Cardinality(T) \in Nat
  BY <1>1, <1>2, FS_Subset, FS_CardinalityType
<1>4. Cardinality(T) < FlowMapSize BY <1>2, <1>3, SizeAssumption
<1> QED BY <1>4 DEF Inserts, HasRoom

LEMMA NextSentBelow ==
  ASSUME NEW c, CPU = {c}, Cardinality(Key) =< FlowMapSize,
         TypeOK, TypeOK', Alone, Alone', SentBelow, [Next]_vars
  PROVE  SentBelow'
<1>1. c \in CPU /\ \A x \in CPU : x = c OBVIOUS
<1>2. /\ \A j \in Key : /\ sent[j] \in Nat /\ sent'[j] \in Nat
                        /\ flow_map[j].pkt_count \in Nat /\ flow_map[j].state \in FlowState
      /\ cpu[c].cnt \in Nat
  BY <1>1, CountTypes DEF TypeOK, FlowEntry
<1>3. \A j \in Key :
        /\ flow_map[j].state = "NEW" => flow_map[j].pkt_count = 0
        /\ flow_map[j].state = "CLASSIFYING" /\ ~Storing(j)
             => flow_map[j].pkt_count < FLOW_MAX_CLASSIFY_PKTS
        /\ sent[j] + Sending(j) =< flow_map[j].pkt_count
        /\ sent[j] + Sending(j) < FLOW_MAX_CLASSIFY_PKTS
  BY DEF SentBelow
<1>4. ASSUME /\ cpu'[c].pc = "write" => cpu'[c].cnt = flow_map'[cpu'[c].key].pkt_count
             /\ \A j \in Key :
                  /\ flow_map'[j].state = "NEW" => flow_map'[j].pkt_count = 0
                  /\ flow_map'[j].state = "CLASSIFYING" /\ ~Storing(j)'
                       => flow_map'[j].pkt_count < FLOW_MAX_CLASSIFY_PKTS
                  /\ sent'[j] + Sending(j)' =< flow_map'[j].pkt_count
                  /\ sent'[j] + Sending(j)' < FLOW_MAX_CLASSIFY_PKTS
      PROVE  SentBelow'
  BY <1>1, <1>4 DEF SentBelow
<1>5. ASSUME flow_map' = flow_map, sent' = sent,
             cpu[c].pc \notin {"store", "send"}, cpu'[c].pc # "send",
             cpu'[c].pc = "write" => cpu'[c].cnt = flow_map[cpu'[c].key].pkt_count
      PROVE  SentBelow'
  <2>1. \A j \in Key : Sending(j) = 0 /\ Sending(j)' = 0 /\ ~Storing(j)
    BY <1>5, OneCpu
  <2> QED BY <1>3, <1>4, <1>5, <2>1
<1>6. ASSUME NEW j \in Key, NEW d \in Capture, Arrive(c, j, d) PROVE SentBelow'
  <2>1. /\ cpu[c].pc = "idle" /\ cpu'[c].pc \notin {"send", "write"}
        /\ flow_map' = flow_map /\ sent' = sent
    BY <1>1, <1>6, RegisterFacts DEF Arrive, Dispatch
  <2> QED BY <1>5, <2>1
<1>7. ASSUME InsertNew(c) PROVE SentBelow'
  <2> PICK k \in Key : k = cpu[c].key
    BY <1>1, <1>7, RegisterFacts
  <2>1. /\ cpu[c].pc = "insert" /\ cpu'[c].pc = "send" /\ cpu'[c].key = k /\ sent' = sent
        /\ flow_map[k].state = "NEW"
        /\ \A j \in Key : flow_map'[j] = IF j = k /\ Inserts(k)
             THEN [state |-> "CLASSIFYING", pkt_count |-> 1, app_id |-> Unknown]
             ELSE flow_map[j]
    BY <1>1, <1>7, RegisterFacts DEF InsertNew, Alone
  <2>2. Inserts(k) BY <2>1, RoomForNew
  <2>3. /\ flow_map'[k].pkt_count = 1 /\ flow_map'[k].state = "CLASSIFYING"
        /\ \A j \in Key \ {k} : flow_map'[j] = flow_map[j]
    BY <2>1, <2>2
  <2>4. \A j \in Key : /\ Sending(j) = 0 /\ Sending(j)' = IF j = k THEN 1 ELSE 0
                       /\ ~Storing(j) /\ ~Storing(j)'
    BY <2>1, OneCpu
  <2>5. sent[k] = 0 BY <1>2, <1>3, <2>1, <2>4
  <2> QED BY <1>2, <1>3, <1>4, <2>1, <2>3, <2>4, <2>5, ThresholdAssumption
<1>8. ASSUME CountFast(c) \/ CountNew(c) PROVE SentBelow'
  <2>1. /\ cpu[c].pc \in {"count_fast", "count_new"} /\ cpu'[c].pc = "idle"
        /\ flow_map' = flow_map /\ sent' = sent
    BY <1>1, <1>8, RegisterFacts DEF CountFast, CountNew
  <2> QED BY <1>5, <2>1
<1>9. ASSUME LookupVerdict(c) PROVE SentBelow'
  <2>1. /\ cpu[c].pc = "lookup" /\ cpu'[c].pc \in {"store", "read"}
        /\ flow_map' = flow_map /\ sent' = sent
    BY <1>1, <1>9, RegisterFacts DEF LookupVerdict
  <2> QED BY <1>5, <2>1
<1>10. ASSUME ReadCount(c) PROVE SentBelow'
  <2>1. /\ cpu[c].pc = "read" /\ cpu'[c].pc = "write" /\ flow_map' = flow_map /\ sent' = sent
        /\ cpu'[c].key = cpu[c].key /\ cpu'[c].cnt = flow_map[cpu[c].key].pkt_count
    BY <1>1, <1>10, RegisterFacts DEF ReadCount
  <2> QED BY <1>5, <2>1
<1>11. ASSUME WriteCount(c) PROVE SentBelow'
  <2> DEFINE n == (cpu[c].cnt + 1) % U8
  <2> PICK k \in Key : k = cpu[c].key
    BY <1>1, <1>11, RegisterFacts
  <2>1. /\ cpu[c].pc = "write" /\ sent' = sent /\ flow_map[k].state = "CLASSIFYING"
        /\ cpu[c].cnt = flow_map[k].pkt_count
    BY <1>1, <1>11 DEF WriteCount, Alone, SentBelow
  <2>2. /\ cpu'[c].key = k
        /\ cpu'[c].pc = IF ReachesThreshold(n) THEN "store" ELSE "send"
        /\ \A j \in Key :
             /\ flow_map'[j].state = flow_map[j].state
             /\ flow_map'[j].pkt_count = IF j = k THEN n ELSE flow_map[j].pkt_count
    BY <1>1, <1>11, RegisterFacts
  <2>3. \A j \in Key : /\ Sending(j) = 0 /\ ~Storing(j)
                       /\ Sending(j)' = IF j = k /\ ~ReachesThreshold(n) THEN 1 ELSE 0
                       /\ Storing(j)' <=> j = k /\ ReachesThreshold(n)
    <3> HIDE DEF n
    <3> QED BY <2>1, <2>2, OneCpu
  <2>4. n = flow_map[k].pkt_count + 1
    BY <1>2, <1>3, <2>1, <2>3, ThresholdAssumption DEF U8
  <2>5. ReachesThreshold(n) <=> n >= FLOW_MAX_CLASSIFY_PKTS BY DEF ReachesThreshold
  <2> HIDE DEF n
  <2> QED BY <1>2, <1>3, <1>4, <2>1, <2>2, <2>3, <2>4, <2>5, ThresholdAssumption
<1>12. ASSUME NEW f \in {"state", "app_id"}, Store(c, f) PROVE SentBelow'
  <2> PICK k \in Key : k = cpu[c].key
    BY <1>1, <1>12, RegisterFacts
  <2>1. /\ cpu'[c].key = k /\ cpu'[c].pc \in {"store", "count_new"}
        /\ cpu'[c].pend = cpu[c].pend \ {f}
        /\ cpu'[c].pc = IF cpu'[c].pend = {} THEN "count_new" ELSE "store"
        /\ \A j \in Key :
             /\ flow_map'[j].pkt_count = flow_map[j].pkt_count
             /\ j # k => flow_map'[j].state = flow_map[j].state
    BY <1>1, <1>12, RegisterFacts
  <2>2. cpu[c].pc = "store" /\ sent' = sent BY <1>12 DEF Store
  <2>3. /\ flow_map'[k].state # "NEW"
        /\ flow_map'[k].state = "CLASSIFYING" => cpu'[c].pc = "store"
    BY <1>1, <2>1 DEF Alone
  <2>4. \A j \in Key : /\ Sending(j) = 0 /\ Sending(j)' = 0
                       /\ j # k => ~Storing(j) /\ ~Storing(j)'
                       /\ Storing(k)' <=> cpu'[c].pc = "store"
    BY <2>1, <2>2, OneCpu
  <2> QED BY <1>3, <1>4, <2>1, <2>2, <2>3, <2>4
<1>13. ASSUME Send(c) PROVE SentBelow'
  <2> PICK k \in Key : k = cpu[c].key
    BY <1>1, <1>13 DEF Send, TypeOK
  <2>1. cpu[c].pc = "send" /\ cpu'[c].pc = "idle" /\ flow_map' = flow_map
    BY <1>1, <1>13, RegisterFacts DEF Send
  <2>2. \/ sent' = sent
        \/ sent'[k] = sent[k] + 1 /\ \A j \in Key \ {k} : sent'[j] = sent[j]
    BY <1>13 DEF Send, TypeOK
  <2>3. \A j \in Key : /\ Sending(j) = IF j = k THEN 1 ELSE 0
                       /\ Sending(j)' = 0 /\ ~Storing(j)
    BY <2>1, OneCpu
  <2>4. \A j \in Key : /\ sent'[j] + Sending(j)' \in Nat
                       /\ sent'[j] + Sending(j)' =< sent[j] + Sending(j)
    <3>1. CASE sent' = sent BY <1>2, <2>3, <3>1
    <3>2. CASE sent'[k] = sent[k] + 1 /\ \A j \in Key \ {k} : sent'[j] = sent[j]
      BY <1>2, <2>3, <3>2
    <3> QED BY <2>2, <3>1, <3>2
  <2>5. \A j \in Key : sent[j] + Sending(j) \in Nat BY <1>2, <2>3
  <2>6. \A j \in Key : /\ sent'[j] + Sending(j)' =< flow_map[j].pkt_count
                       /\ sent'[j] + Sending(j)' < FLOW_MAX_CLASSIFY_PKTS
    BY <1>2, <1>3, <2>4, <2>5, ThresholdAssumption
  <2> QED BY <1>3, <1>4, <2>1, <2>3, <2>6
<1>14. ASSUME UNCHANGED kernel PROVE SentBelow'
  <2>1. \A j \in Key : Sending(j)' = Sending(j) /\ (Storing(j)' <=> Storing(j))
    BY <1>14 DEF kernel, Sending, Storing
  <2>2. cpu[c].pc = "write" => cpu[c].cnt = flow_map[cpu[c].key].pkt_count
    BY <1>1 DEF SentBelow
  <2> QED BY <1>3, <1>4, <1>14, <2>1, <2>2 DEF kernel
<1> QED
  BY <1>1, <1>6, <1>7, <1>8, <1>9, <1>10, <1>11, <1>12, <1>13, <1>14
     DEF Next, Kernel, Step, Consume, Answer, WriteVerdict, vars

LEMMA InitOneCpu == Init => OwnIds /\ Alone /\ SentBelow
<1> SUFFICES ASSUME Init PROVE OwnIds /\ Alone /\ SentBelow
  OBVIOUS
<1>1. \A k \in Key : Sending(k) = 0 BY DEF Init, Idle, Sending
<1>2. OwnIds /\ Alone BY DEF Init, OwnIds, Alone, Idle
<1>3. SentBelow BY <1>1, ThresholdAssumption DEF Init, NotTracked, Idle, SentBelow
<1> QED BY <1>2, <1>3

\* On one CPU, with room in flow_map, a flow is worth fewer events than the daemon
\* waits for.
LEMMA OneCpuInvariant ==
  ASSUME NEW c, CPU = {c}, Cardinality(Key) =< FlowMapSize
  PROVE  Spec => [](OwnIds /\ Alone /\ SentBelow)
<1>1. TypeOK /\ OwnIds /\ Alone /\ [Next]_vars => OwnIds' /\ Alone'
  BY NextOwnIds, NextAlone
<1>2. TypeOK /\ TypeOK' /\ Alone /\ Alone' /\ SentBelow /\ [Next]_vars => SentBelow'
  BY NextSentBelow
<1> QED
  BY <1>1, <1>2, InitOneCpu, TypeCorrect, PTL DEF Spec
-----------------------------------------------------------------------------
(* One CPU: what the kernel knows of a classified flow, and the verdict.  This is for
   compositions of Datapath with a daemon. *)

\* CPU x is ending flow k with a verdict.
Closes(x, k) == /\ cpu[x].pc \in {"store", "count_new"} /\ cpu[x].key = k
                /\ cpu[x].set = "CLASSIFIED"

HasVerdict == \A k \in Key :
  flow_map[k].state = "CLASSIFIED" \/ (\E x \in CPU : Closes(x, k)) => verdict_map[k] # NoVerdict

SameId == \A k \in Key :
  /\ flow_map[k].state = "CLASSIFIED" /\ ~Storing(k) => flow_map[k].app_id = verdict_map[k]
  /\ \A x \in CPU : Closes(x, k) => cpu[x].app = verdict_map[k]

\* No verdict is replaced.
VerdictsStay == \A k \in Key : verdict_map[k] # NoVerdict => verdict_map'[k] = verdict_map[k]

LEMMA KernelReadsVerdicts == Kernel => verdict_map' = verdict_map
BY DEF Kernel, Step, Arrive, InsertNew, CountFast, LookupVerdict, ReadCount, WriteCount, Store,
       CountNew, Send

\* A classified flow has a verdict, and it is the one as long as none is replaced.
LEMMA NextFollows ==
  ASSUME NEW c, CPU = {c}, TypeOK, OwnIds, OwnIds', Alone, Alone', HasVerdict, [Next]_vars
  PROVE  HasVerdict' /\ (SameId /\ VerdictsStay => SameId')
<1> DEFINE k == cpu[c].key
           Goal == HasVerdict' /\ (SameId /\ VerdictsStay => SameId')
<1>1. c \in CPU /\ \A x \in CPU : x = c OBVIOUS
<1>2. /\ \A j : Storing(j) <=> cpu[c].pc = "store" /\ cpu[c].key = j
      /\ \A j : Storing(j)' <=> cpu'[c].pc = "store" /\ cpu'[c].key = j
  BY OneCpu
<1>3. ASSUME verdict_map' = verdict_map, cpu[c].pc # "store", \A j : ~Closes(c, j)',
             \A j \in Key : flow_map'[j].state = "CLASSIFIED" =>
               flow_map[j].state = "CLASSIFIED" /\ flow_map'[j].app_id = flow_map[j].app_id
      PROVE  Goal
  <2>1. HasVerdict' BY <1>1, <1>3 DEF HasVerdict
  <2>2. SameId => SameId' BY <1>1, <1>2, <1>3 DEF SameId
  <2> QED BY <2>1, <2>2
<1>4. ASSUME NEW j \in Key, NEW d \in Capture, Arrive(c, j, d) PROVE Goal
  <2>1. cpu'[c].pc = Dispatch(flow_map[j].state) /\ flow_map' = flow_map BY <1>1, <1>4, RegisterFacts
  <2>2. cpu[c].pc = "idle" /\ verdict_map' = verdict_map BY <1>4 DEF Arrive
  <2>3. \A i : ~Closes(c, i)' BY <2>1 DEF Dispatch, Closes
  <2> QED BY <1>3, <2>1, <2>2, <2>3
<1>5. CASE InsertNew(c)
  <2>1. /\ cpu'[c].pc = "send"
        /\ \A j \in Key : flow_map'[j] = IF j = k /\ Inserts(k)
             THEN [state |-> "CLASSIFYING", pkt_count |-> 1, app_id |-> Unknown]
             ELSE flow_map[j]
    BY <1>1, <1>5, RegisterFacts
  <2>2. cpu[c].pc = "insert" /\ verdict_map' = verdict_map BY <1>5 DEF InsertNew
  <2> HIDE DEF k
  <2>3. \A i : ~Closes(c, i)' BY <2>1 DEF Closes
  <2> QED BY <1>3, <2>1, <2>2, <2>3
<1>6. CASE CountFast(c) \/ CountNew(c) \/ Send(c)
  <2>1. cpu'[c].pc = "idle" /\ flow_map' = flow_map BY <1>1, <1>6, RegisterFacts
  <2>2. cpu[c].pc # "store" /\ verdict_map' = verdict_map BY <1>6 DEF CountFast, CountNew, Send
  <2>3. \A i : ~Closes(c, i)' BY <2>1 DEF Closes
  <2> QED BY <1>3, <2>1, <2>2, <2>3
<1>7. CASE LookupVerdict(c)
  <2>1. cpu[c].pc = "lookup" /\ verdict_map' = verdict_map BY <1>7 DEF LookupVerdict
  <2>2. /\ cpu'[c].key = k /\ k \in Key /\ flow_map' = flow_map
        /\ IF verdict_map[k] # NoVerdict
           THEN cpu'[c].pc = "store" /\ cpu'[c].app = verdict_map[k]
           ELSE cpu'[c].pc = "read"
    BY <1>1, <1>7, RegisterFacts
  <2>3. CASE verdict_map[k] = NoVerdict
    <3>1. \A i : ~Closes(c, i)' BY <2>2, <2>3 DEF Closes
    <3> QED BY <1>3, <2>1, <2>2, <3>1
  <2>4. CASE verdict_map[k] # NoVerdict
    <3>1. \A j : Closes(c, j)' => j = k BY <2>2 DEF Closes
    <3>2. HasVerdict' BY <1>1, <2>1, <2>2, <2>4, <3>1 DEF HasVerdict
    <3>3. SameId => SameId' BY <1>1, <1>2, <2>1, <2>2, <2>4, <3>1 DEF SameId
    <3> QED BY <3>2, <3>3 DEF Goal
  <2> QED BY <2>3, <2>4
<1>8. CASE ReadCount(c)
  <2>1. cpu'[c].pc = "write" /\ flow_map' = flow_map BY <1>1, <1>8, RegisterFacts
  <2>2. cpu[c].pc = "read" /\ verdict_map' = verdict_map BY <1>8 DEF ReadCount
  <2>3. \A i : ~Closes(c, i)' BY <2>1 DEF Closes
  <2> QED BY <1>3, <2>1, <2>2, <2>3
<1>9. CASE WriteCount(c)
  <2>1. /\ cpu'[c].pc = "send" \/ cpu'[c].set = "GAVE_UP"
        /\ \A j \in Key : flow_map'[j].state = flow_map[j].state /\ flow_map'[j].app_id = flow_map[j].app_id
    BY <1>1, <1>9, RegisterFacts
  <2>2. cpu[c].pc = "write" /\ verdict_map' = verdict_map BY <1>9 DEF WriteCount
  <2>3. \A i : ~Closes(c, i)' BY <2>1 DEF Closes
  <2> QED BY <1>3, <2>1, <2>2, <2>3
<1>10. ASSUME NEW f \in {"state", "app_id"}, Store(c, f) PROVE Goal
  <2>1. /\ cpu'[c].key = k /\ k \in Key /\ cpu'[c].set = cpu[c].set /\ cpu'[c].app = cpu[c].app
        /\ cpu'[c].pc = IF cpu'[c].pend = {} THEN "count_new" ELSE "store"
        /\ \A j \in Key \ {k} :
             flow_map'[j].state = flow_map[j].state /\ flow_map'[j].app_id = flow_map[j].app_id
    BY <1>1, <1>10, RegisterFacts
  <2>2. cpu[c].pc = "store" /\ verdict_map' = verdict_map BY <1>10 DEF Store
  <2>3. /\ cpu[c].set \in {"CLASSIFIED", "GAVE_UP"}
        /\ flow_map'[k].state \in {"CLASSIFYING", cpu[c].set}
        /\ cpu'[c].pend = {} => flow_map'[k].app_id = cpu[c].app
    BY <1>1, <2>1, <2>2 DEF Alone
  <2>4. \A j : Closes(c, j)' <=> Closes(c, j) BY <2>1, <2>2 DEF Closes
  <2>5. cpu[c].set = "CLASSIFIED" <=> Closes(c, k) BY <2>2 DEF Closes
  <2>6. HasVerdict'
    BY <1>1, <2>1, <2>2, <2>3, <2>4, <2>5 DEF HasVerdict
  <2>7. SameId => SameId'
    BY <1>1, <1>2, <2>1, <2>2, <2>3, <2>4, <2>5 DEF SameId
  <2> QED BY <2>6, <2>7 DEF Goal
<1>11. CASE UNCHANGED kernel
  <2>1. flow_map' = flow_map /\ cpu' = cpu BY <1>11 DEF kernel
  <2>2. \A j \in Key : verdict_map[j] # NoVerdict => verdict_map'[j] # NoVerdict
    <3>1. ASSUME NEW i, NEW a \in VerdictApp, verdict_map' = VerdictUpdate(verdict_map, i, a)
          PROVE  \A j \in Key : verdict_map[j] # NoVerdict => verdict_map'[j] # NoVerdict
      <4>1. a # NoVerdict BY AppAssumption, VerdictAppAssumption
      <4> QED BY <3>1, <4>1 DEF VerdictUpdate, OwnIds
    <3>2. CASE verdict_map' = verdict_map
      BY <3>2
    <3> QED
      BY <3>1, <3>2, KernelReadsVerdicts DEF Next, Consume, Answer, WriteVerdict, vars
  <2>3. \A x, j : (Closes(x, j)' <=> Closes(x, j)) /\ (Storing(j)' <=> Storing(j))
    BY <2>1 DEF Closes, Storing
  <2>4. HasVerdict' BY <2>1, <2>2, <2>3 DEF HasVerdict
  <2>5. SameId /\ VerdictsStay => SameId'
    BY <2>1, <2>3 DEF SameId, VerdictsStay, HasVerdict
  <2> QED BY <2>4, <2>5 DEF Goal
<1>12. Goal
  BY <1>1, <1>4, <1>5, <1>6, <1>7, <1>8, <1>9, <1>10, <1>11
     DEF Next, Kernel, Step, Consume, Answer, WriteVerdict, vars, kernel
<1> QED BY <1>12 DEF Goal

LEMMA InitFollows == Init => HasVerdict /\ SameId
BY DEF Init, NotTracked, Idle, HasVerdict, SameId, Closes
=============================================================================
