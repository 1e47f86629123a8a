------------------------------- MODULE Engine -------------------------------
(***************************************************************************)
(* daemon/ndpi_engine.c and flow_table.c: ndpi_engine_process, the handler *)
(* of one packet event, and ndpi_engine_age, the sweep that frees idle     *)
(* flows.  The daemon is single-threaded: each call is one action.         *)
(*                                                                         *)
(* What libndpi, the ML model and the host name caches answer is chosen    *)
(* freely: det is what ndpi_detection_process_packet returns, guess what   *)
(* ndpi_detection_giveup returns, ml what ndpi_ml_classify and the MCP     *)
(* lookup leave (Unknown: no answer); src says where a host name comes     *)
(* from and ai which id it stands for.  An entry's packets counter moves   *)
(* with pkt_count and is modelled by it, as bytes are; ML features and     *)
(* categories, which feed back into nothing here, are left out.            *)
(***************************************************************************)
EXTENDS ObsTypes, FiniteSetsExt

CONSTANTS
  MlEnabled,   \* e->ml_enabled: give-up guess and ML model are used
  VerdictFd,   \* verdict_map_fd >= 0: ndpid; FALSE in ndpid-simple
  MaxEvents    \* bound on the events of a behaviour

ASSUME EngineAssumption == MlEnabled \in BOOLEAN /\ VerdictFd \in BOOLEAN /\ MaxEvents \in Nat

VARIABLES
  flows,          \* flow_table_t: Key -> entry, "ABSENT" when there is none
  stats,          \* the scalar counters of ndpi_engine_t
  app_packets,    \* e->app_packets, and e->app_bytes
  app_flows,      \* e->app_flows
  app_classified, \* e->app_classified_<method>: method -> id -> Nat
  verdict_map,    \* shared with the TC program
  events,         \* history: calls of ndpi_engine_process
  failed,         \* history: events lost to a failed calloc
  nflows,         \* history: ndpi_flow_struct objects malloced and not freed
  expired_new,    \* history: flows that expired while NEW
  expired_credit  \* history: method -> id -> flows that expired holding that credit

counters == <<app_packets, app_flows, app_classified>>
expiry == <<expired_new, expired_credit>>
vars == <<flows, stats, counters, verdict_map, events, failed, nflows, expiry>>

Method == {"ndpi", "giveup", "sni", "ml", "dns"}

Entry == [state : FlowState \cup {"ABSENT"}, pkt_count : 0..(U8-1), app_id : AppId,
          credit : Method \cup {"none"}, ndpi_flow : {"null", "alloc"}]

Absent == [state |-> "ABSENT", pkt_count |-> 0, app_id |-> Unknown,
           credit |-> "none", ndpi_flow |-> "null"]

Stats == [total_created : Nat, pkts_scanned : Nat, pkts_cached : Nat,
          flows_classified : Nat, flows_guessed : Nat, flows_ml_classified : Nat,
          flows_gave_up : Nat]

Zero == [a \in Countable |-> 0]

Init ==
  /\ flows = [k \in Key |-> Absent]
  /\ stats = [total_created |-> 0, pkts_scanned |-> 0, pkts_cached |-> 0,
              flows_classified |-> 0, flows_guessed |-> 0,
              flows_ml_classified |-> 0, flows_gave_up |-> 0]
  /\ app_packets = Zero /\ app_flows = Zero
  /\ app_classified = [m \in Method |-> Zero]
  /\ verdict_map = [k \in Key |-> NoVerdict]
  /\ events = 0 /\ failed = 0 /\ nflows = 0
  /\ expired_new = 0
  /\ expired_credit = [m \in Method |-> Zero]
-----------------------------------------------------------------------------
(* The definitions named <definition>_<fault> are seeded faults, used only to
   show that a property notices them. *)

(* flow_table_get_or_create and the accounting of the packet. *)

Live == {k \in Key : flows[k].state # "ABSENT"}
IsNew(k) == k \notin Live
Open_until_classified(k) == flows[k].state # "CLASSIFIED"
Open(k) == ~Terminal(flows[k].state)

\* total_created once the flow's entry has been looked up or created.
Created(k) == stats.total_created + IF IsNew(k) THEN 1 ELSE 0

\* The entry after this packet has been added to it.
Touched(k) == [flows[k] EXCEPT !.state = "NEW", !.pkt_count = (@ + 1) % U8]

\* Whether the packet reaches the threshold.
AtThreshold(k) == Touched(k).pkt_count >= FLOW_MAX_CLASSIFY_PKTS

GaveUp(f) == [f EXCEPT !.state = "GAVE_UP", !.app_id = Unknown]

PublishVerdict_noexist(k, a) ==
  verdict_map' = IF VerdictFd /\ verdict_map[k] = NoVerdict
                 THEN VerdictUpdate(verdict_map, k, a) ELSE verdict_map
PublishVerdict(k, a) ==
  verdict_map' = IF VerdictFd THEN VerdictUpdate(verdict_map, k, a) ELSE verdict_map

\* app_classified_m[a] += d, skipped for an id without a slot.
Bump(cls, m, a, d) ==
  IF a \in Countable THEN [cls EXCEPT ![m][a] = @ + d] ELSE cls
-----------------------------------------------------------------------------
(* ndpi_engine_process, one action per way through it. *)

\* calloc fails: the packet leaves no trace.
CreateFails(k) ==
  /\ IsNew(k)
  /\ failed' = failed + 1
  /\ UNCHANGED <<flows, stats, counters, verdict_map, nflows, expiry>>

\* The flow is finished; its packet is only counted as cached.
CachedPacket(k) ==
  /\ ~Open(k)
  /\ stats' = [stats EXCEPT !.pkts_cached = @ + 1]
  /\ UNCHANGED <<flows, counters, verdict_map, failed, nflows, expiry>>

\* No captured bytes: nDPI is not called, but the packet counts towards the
\* threshold, where the flow is given up without a guess.
BarePacket(k) ==
  /\ Open(k)
  /\ IF AtThreshold(k)
     THEN /\ flows' = [flows EXCEPT ![k] = GaveUp(Touched(k))]
          /\ stats' = [stats EXCEPT !.total_created = Created(k), !.flows_gave_up = @ + 1]
          /\ PublishVerdict(k, Unknown)
     ELSE /\ flows' = [flows EXCEPT ![k] = Touched(k)]
          /\ stats' = [stats EXCEPT !.total_created = Created(k)]
          /\ UNCHANGED verdict_map
  /\ UNCHANGED <<counters, failed, nflows, expiry>>

\* ndpi_flow_malloc fails: the flow is given up, and no verdict is written.
NdpiAllocFails(k) ==
  /\ Open(k) /\ flows[k].ndpi_flow = "null"
  /\ flows' = [flows EXCEPT ![k] = GaveUp(Touched(k))]
  /\ stats' = [stats EXCEPT !.total_created = Created(k), !.flows_gave_up = @ + 1]
  /\ UNCHANGED <<counters, verdict_map, failed, nflows, expiry>>

\* ndpi_flow_struct objects while the packet is scanned.
Allocated(k) == nflows + IF flows[k].ndpi_flow = "alloc" THEN 0 ELSE 1

\* stats once the packet is scanned.
Scanned(k) == [stats EXCEPT !.total_created = Created(k), !.pkts_scanned = @ + 1]

\* Undecided, below the threshold: the ndpi_flow is kept.
StillOpen(k) ==
  /\ Open(k) /\ ~AtThreshold(k)
  /\ flows' = [flows EXCEPT ![k] = [Touched(k) EXCEPT !.ndpi_flow = "alloc"]]
  /\ nflows' = Allocated(k)
  /\ stats' = Scanned(k)
  /\ UNCHANGED <<counters, verdict_map, failed, expiry>>

\* A host name (from the flow's SNI or the DNS cache) relabels app a as ai.
Relabels(a, src, ai) == src # "none" /\ ai \notin {Unknown, a} /\ a \in Countable

\* app_classified once method m has classified a flow as a and the host name
\* has had its say: the credit moves from (m, a) to (src, ai).
Credited_without_own(cls, m, a, src, ai) ==
  IF Relabels(a, src, ai) THEN Bump(Bump(cls, m, a, -1), src, ai, 1) ELSE Bump(cls, m, a, 1)
Credited(cls, m, a, src, ai) ==
  LET own == Bump(cls, m, a, 1) IN
  IF Relabels(a, src, ai) THEN Bump(Bump(own, m, a, -1), src, ai, 1) ELSE own

Classified(f, m, a, src, ai) ==
  [f EXCEPT !.state = "CLASSIFIED",
            !.app_id = IF Relabels(a, src, ai) THEN ai ELSE a,
            !.credit = IF Relabels(a, src, ai) THEN src ELSE m]

\* ndpi_flow_struct objects once a decision has freed the flow's.
Freed_not(k) == Allocated(k)
Freed(k) == Allocated(k) - 1

\* The tail of a decision: free the ndpi_flow, publish the verdict and add the
\* flow's packets to its application.
Decide(k, f) ==
  /\ flows' = [flows EXCEPT ![k] = [f EXCEPT !.ndpi_flow = "null"]]
  /\ nflows' = Freed(k)
  /\ PublishVerdict(k, f.app_id)
  /\ IF f.app_id \in Countable
     THEN /\ app_packets' = [app_packets EXCEPT ![f.app_id] = @ + f.pkt_count]
          /\ app_flows' = [app_flows EXCEPT ![f.app_id] = @ + 1]
     ELSE UNCHANGED <<app_packets, app_flows>>
  /\ UNCHANGED <<failed, expiry>>

\* nDPI recognises the flow.
Detected(k, det, src, ai) ==
  /\ Open(k) /\ det # Unknown
  /\ Decide(k, Classified(Touched(k), "ndpi", det, src, ai))
  /\ stats' = [Scanned(k) EXCEPT !.flows_classified = @ + 1]
  /\ app_classified' = Credited(app_classified, "ndpi", det, src, ai)

\* The ML model refines a guess: the counter that holds the credit of f is undone.
Undone_giveup_only(cls, f) ==
  IF f.credit = "giveup" THEN Bump(cls, f.credit, f.app_id, -1) ELSE cls
Undone(cls, f) ==
  IF f.credit \in {"giveup", "sni", "dns"} THEN Bump(cls, f.credit, f.app_id, -1) ELSE cls

\* stats once ndpi_detection_giveup has answered ...
GuessStats(k, guess) ==
  IF guess = Unknown THEN Scanned(k)
  ELSE [Scanned(k) EXCEPT !.flows_guessed = @ + 1, !.flows_classified = @ + 1]

\* ... and once the ML model has: over a guess it takes the guess back, over
\* none it classifies the flow.
MlStats_always_takes_back(st, guess) ==
  [st EXCEPT !.flows_guessed = @ - 1, !.flows_ml_classified = @ + 1,
             !.flows_classified = @ + IF guess = Unknown THEN 1 ELSE 0]
MlStats_keeps_guess(st, guess) ==
  [st EXCEPT !.flows_ml_classified = @ + 1,
             !.flows_classified = @ + IF guess = Unknown THEN 1 ELSE 0]
MlStats_classifies_again(st, guess) ==
  [st EXCEPT !.flows_guessed = @ - IF guess = Unknown THEN 0 ELSE 1,
             !.flows_ml_classified = @ + 1, !.flows_classified = @ + 1]
MlStats(st, guess) ==
  [st EXCEPT !.flows_guessed = @ - IF guess = Unknown THEN 0 ELSE 1,
             !.flows_ml_classified = @ + 1,
             !.flows_classified = @ + IF guess = Unknown THEN 1 ELSE 0]

\* Undecided at the threshold: neither guess nor ML model has an answer.
GivesUp(k) ==
  /\ Open(k) /\ AtThreshold(k)
  /\ Decide(k, GaveUp(Touched(k)))
  /\ stats' = [Scanned(k) EXCEPT !.flows_gave_up = @ + 1]
  /\ UNCHANGED app_classified

\* The entry and app_classified once the guess has been taken, if there is one.
AfterGuess(k, guess, src, ai) ==
  IF guess = Unknown THEN Touched(k) ELSE Classified(Touched(k), "giveup", guess, src, ai)
GuessCredited(guess, src, ai) ==
  IF guess = Unknown THEN app_classified
  ELSE Credited(app_classified, "giveup", guess, src, ai)

\* The guess is kept.
Guessed(k, guess, src, ai) ==
  /\ Open(k) /\ AtThreshold(k) /\ MlEnabled /\ guess # Unknown
  /\ Decide(k, AfterGuess(k, guess, src, ai))
  /\ stats' = GuessStats(k, guess)
  /\ app_classified' = GuessCredited(guess, src, ai)

\* The ML model has the last word, over a guess or over none.
MlClassified(k, guess, src, ai, ml) ==
  LET f == AfterGuess(k, guess, src, ai) IN
  /\ Open(k) /\ AtThreshold(k) /\ MlEnabled /\ ml # Unknown
  /\ Decide(k, [f EXCEPT !.state = "CLASSIFIED", !.app_id = ml, !.credit = "ml"])
  /\ stats' = MlStats(GuessStats(k, guess), guess)
  /\ app_classified' = Bump(Undone(GuessCredited(guess, src, ai), f), "ml", ml, 1)

\* Where a host name can come from, and the id it stands for.
Source == {"none", "sni", "dns"}

ndpi_engine_process(ev) ==
  LET k == ev.key IN
  /\ events' = events + 1
  /\ \/ CreateFails(k)
     \/ CachedPacket(k)
     \/ ev.data = "none" /\ BarePacket(k)
     \/ /\ ev.data = "bytes"
        /\ \/ NdpiAllocFails(k)
           \/ StillOpen(k)
           \/ GivesUp(k)
           \/ \E a, ai \in AppId, src \in Source :
                \/ Detected(k, a, src, ai)
                \/ Guessed(k, a, src, ai)
                \/ \E ml \in AppId : MlClassified(k, a, src, ai, ml)
-----------------------------------------------------------------------------
\* The flows of S that go to application a, and the packets they bring.
Of(S, a) == {k \in S : flows[k].app_id = a}
ExpiredPackets_classified_only(S, a) ==
  SumFunction([k \in {j \in Of(S, a) : flows[j].state = "CLASSIFIED"} |-> flows[k].pkt_count])
ExpiredPackets(S, a) == SumFunction([k \in Of(S, a) |-> flows[k].pkt_count])

\* ndpi_engine_age: the flows in S are past their idle timeout (time is not
\* modelled, so any may be).  Each is added to its application, even when a
\* verdict has added it before, and freed.
ndpi_engine_age(S) ==
  /\ S \subseteq Live /\ S # {}
  /\ app_packets' = [a \in Countable |-> app_packets[a] + ExpiredPackets(S, a)]
  /\ app_flows' = [a \in Countable |-> app_flows[a] + Cardinality(Of(S, a))]
  /\ flows' = [k \in Key |-> IF k \in S THEN Absent ELSE flows[k]]
  /\ nflows' = nflows - Cardinality({k \in S : flows[k].ndpi_flow = "alloc"})
  /\ expired_new' = expired_new + Cardinality({k \in S : flows[k].state = "NEW"})
  /\ expired_credit' = [m \in Method |-> [a \in Countable |->
       expired_credit[m][a] + Cardinality({k \in Of(S, a) : flows[k].credit = m})]]
  /\ UNCHANGED <<stats, app_classified, verdict_map, events, failed>>

Next ==
  \/ /\ events < MaxEvents
     /\ \E k \in Key, d \in Capture : ndpi_engine_process([key |-> k, data |-> d])
  \/ \E S \in SUBSET Key : ndpi_engine_age(S)

Spec == Init /\ [][Next]_vars
-----------------------------------------------------------------------------
CreditCounts == [Method -> [Countable -> Nat]]

\* Types of the state; in particular no unsigned counter goes below zero when a
\* classification is taken back.
TypeOK ==
  /\ flows \in [Key -> Entry]
  /\ stats \in Stats
  /\ app_packets \in [Countable -> Nat] /\ app_flows \in [Countable -> Nat]
  /\ app_classified \in CreditCounts
  /\ verdict_map \in VerdictMap
  /\ events \in Nat /\ failed \in Nat /\ nflows \in Nat /\ expired_new \in Nat
  /\ expired_credit \in CreditCounts

\* flow_table.h:28, credit_method says "which counter holds the classification
\* credit": whatever host names and the ML model relabel, each per-method
\* counter of an application is the number of flows, live or expired, whose
\* final credit it is.
CreditConservation ==
  \A m \in Method, a \in Countable :
    app_classified[m][a] = expired_credit[m][a]
      + Cardinality({k \in Key : flows[k].credit = m /\ flows[k].app_id = a})

\* Every flow created has exactly one outcome: classified, given up, or expired
\* or still waiting while undecided; none is counted twice on the way.
OutcomesPartition ==
  stats.total_created = stats.flows_classified + stats.flows_gave_up + expired_new
                        + Cardinality({k \in Key : flows[k].state = "NEW"})

Total(m) == SumFunction(app_classified[m])

\* tests/test_ml.py computes "Flows classified (nDPI)" as classified - guessed -
\* ml: that leaves at least the flows nDPI holds the credit of, and the guess
\* and ML scalars cover the per-application counts of their method.
StatsAgree ==
  /\ Total("ndpi") =< stats.flows_classified - stats.flows_guessed - stats.flows_ml_classified
  /\ Total("giveup") =< stats.flows_guessed
  /\ Total("ml") =< stats.flows_ml_classified

\* No path leaks or double-frees the nDPI state of a flow: what is allocated is
\* what the live entries point to.
NoLeak == nflows = Cardinality({k \in Key : flows[k].ndpi_flow = "alloc"})

AppPackets == SumFunction(app_packets)
LivePackets == SumFunction([k \in Key |-> flows[k].pkt_count])

\* A packet added to a flow reaches an application counter by the time the flow
\* expires, and no more than twice: a verdict credits the flow's packets and so
\* does its expiry.  (All ids countable.)
PacketsCredited ==
  LET accounted == events - failed - stats.pkts_cached IN
  /\ accounted =< AppPackets + LivePackets
  /\ AppPackets =< 2 * accounted

\* While a flow is CLASSIFIED in the daemon, verdict_map holds that very id, also
\* when an earlier flow of the same tuple left another one.  (verdict_map has
\* room for every key.)
VerdictPublished ==
  \A k \in Key : flows[k].state = "CLASSIFIED" => verdict_map[k] = flows[k].app_id

\* Until a decided flow expires, no later packet of it changes its outcome, its
\* credit or its published verdict.
OutcomeStable ==
  [][\A k \in Key : Terminal(flows[k].state) =>
       \/ flows'[k] = flows[k] /\ verdict_map'[k] = verdict_map[k]
       \/ flows'[k].state = "ABSENT" /\ verdict_map'[k] = verdict_map[k]]_vars

\* What an exporter shows as counters never falls from one call to the next
\* (prometheus.c:58-75): a call that takes a guess, a credit or a classification
\* back takes back what it has given itself, never what an earlier flow was
\* counted for.  (The other counters are only ever added to.)
CountersNeverFall ==
  [][/\ \A f \in DOMAIN stats : stats[f] =< stats'[f]
     /\ \A m \in Method, a \in Countable : app_classified[m][a] =< app_classified'[m][a]]_vars
=============================================================================
