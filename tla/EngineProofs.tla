---------------------------- MODULE EngineProofs ----------------------------
(***************************************************************************)
(* Theorems about Engine, for any number of flows, applications and events *)
(* and any threshold.                                                      *)
(***************************************************************************)
EXTENDS Engine, RecursionTheorems

(* The inductive invariant: the three counting invariants, with the types and
   the shape of the entries they rest on.  Counters that go down are only known
   to be integers until the counts have been tied to sets. *)

Credits == [Method -> [Countable -> Int]]

Typed ==
  /\ flows \in [Key -> Entry]
  /\ stats \in Stats
  /\ app_classified \in Credits
  /\ nflows \in Int
  /\ expired_new \in Nat
  /\ expired_credit \in CreditCounts

\* An entry is absent, new or decided; one that is new holds no credit.
Shape == \A k \in Key :
  /\ flows[k].state # "CLASSIFYING"
  /\ flows[k].state = "NEW" => flows[k].credit = "none"
  /\ flows[k].state = "ABSENT" => flows[k] = Absent

\* The calls of the engine, however many: what is proved of them holds wherever the
\* events come from.
Call ==
  \/ \E k \in Key, d \in {"bytes", "none"} : ndpi_engine_process([key |-> k, data |-> d])
  \/ \E S \in SUBSET Key : ndpi_engine_age(S)

Calls == Init /\ [][Call]_vars

IInv == Typed /\ Shape /\ NoLeak /\ OutcomesPartition /\ CreditConservation

(* What one entry adds to each of the three counts. *)
Held(f) == IF f.ndpi_flow = "alloc" THEN 1 ELSE 0
Waits(f) == IF f.state = "NEW" THEN 1 ELSE 0
Has(f, m, a) == IF f.credit = m /\ f.app_id = a THEN 1 ELSE 0

\* The flows created that have no outcome yet, expired or not.
Undecided(st) == st.total_created - st.flows_classified - st.flows_gave_up

\* A packet of k leaves its entry as f, and every count moves with the entry.
Effect(k, f) ==
  /\ f \in Entry /\ f.state \in {"NEW", "CLASSIFIED", "GAVE_UP"}
  /\ f.state = "NEW" => f.credit = "none"
  /\ flows' = [flows EXCEPT ![k] = f]
  /\ nflows' = nflows + Held(f) - Held(flows[k])
  /\ stats' \in Stats
  /\ Undecided(stats') = Undecided(stats) + Waits(f) - Waits(flows[k])
  /\ app_classified' \in Credits
  /\ \A m \in Method, a \in Countable :
       app_classified'[m][a] = app_classified[m][a] + Has(f, m, a) - Has(flows[k], m, a)
  /\ UNCHANGED expiry
-----------------------------------------------------------------------------
\* Bump changes one count and keeps the type.
LEMMA BumpValue ==
  ASSUME NEW cls \in Credits, NEW m \in Method, NEW a \in AppId, NEW d \in Int
  PROVE  /\ Bump(cls, m, a, d) \in Credits
         /\ \A n \in Method, b \in Countable :
              Bump(cls, m, a, d)[n][b] = cls[n][b] + IF n = m /\ b = a THEN d ELSE 0
<1>1. CASE a \in Countable
  BY <1>1 DEF Bump, Credits
<1>2. CASE a \notin Countable
  BY <1>2 DEF Bump, Credits
<1> QED BY <1>1, <1>2

\* A classification with the host name's say adds one: to the credit the entry gets.
LEMMA CreditedValue ==
  ASSUME NEW cls \in Credits, NEW f \in Entry, NEW m \in Method, NEW a \in AppId,
         NEW src \in Source, NEW ai \in AppId
  PROVE  /\ Credited(cls, m, a, src, ai) \in Credits
         /\ \A n \in Method, b \in Countable :
              Credited(cls, m, a, src, ai)[n][b] =
                cls[n][b] + Has(Classified(f, m, a, src, ai), n, b)
<1> DEFINE own == Bump(cls, m, a, 1)
<1>1. /\ own \in Credits
      /\ \A n \in Method, b \in Countable :
           own[n][b] = cls[n][b] + IF n = m /\ b = a THEN 1 ELSE 0
  BY BumpValue
<1>2. CASE ~Relabels(a, src, ai)
  <2>1. Credited(cls, m, a, src, ai) = own BY <1>2 DEF Credited
  <2>2. /\ Classified(f, m, a, src, ai).app_id = a
        /\ Classified(f, m, a, src, ai).credit = m
    BY <1>2 DEF Classified, Entry
  <2> HIDE DEF own
  <2> QED BY <1>1, <2>1, <2>2 DEF Has
<1>3. CASE Relabels(a, src, ai)
  <2> DEFINE moved == Bump(own, m, a, -1)
             final == Bump(moved, src, ai, 1)
  <2>1. Credited(cls, m, a, src, ai) = final BY <1>3 DEF Credited
  <2>2. /\ Classified(f, m, a, src, ai).app_id = ai
        /\ Classified(f, m, a, src, ai).credit = src
    BY <1>3 DEF Classified, Entry
  <2>3. src \in Method /\ 1 \in Int /\ -1 \in Int BY <1>3 DEF Relabels, Source, Method
  <2> HIDE DEF own
  <2>4. /\ moved \in Credits
        /\ \A n \in Method, b \in Countable :
             moved[n][b] = own[n][b] + IF n = m /\ b = a THEN -1 ELSE 0
    BY <1>1, <2>3, BumpValue
  <2> HIDE DEF moved
  <2>5. /\ final \in Credits
        /\ \A n \in Method, b \in Countable :
             final[n][b] = moved[n][b] + IF n = src /\ b = ai THEN 1 ELSE 0
    BY <2>3, <2>4, BumpValue
  <2> HIDE DEF final
  <2>6. \A n \in Method, b \in Countable : cls[n][b] \in Int BY DEF Credits
  <2>7. \A n \in Method, b \in Countable : moved[n][b] = cls[n][b]
    BY <1>1, <2>4, <2>6
  <2> QED BY <2>1, <2>2, <2>5, <2>7 DEF Has
<1> QED BY <1>2, <1>3

\* Undoing takes away the one credit an entry holds; a new entry holds none.
LEMMA UndoneValue ==
  ASSUME NEW cls \in Credits, NEW f \in Entry,
         f.credit \in {"giveup", "sni", "dns", "none"}
  PROVE  /\ Undone(cls, f) \in Credits
         /\ \A n \in Method, b \in Countable :
              Undone(cls, f)[n][b] = cls[n][b] - Has(f, n, b)
<1>1. \A n \in Method, b \in Countable : cls[n][b] \in Int BY DEF Credits
<1>2. CASE f.credit = "none"
  <2>1. Undone(cls, f) = cls BY <1>2 DEF Undone
  <2>2. \A n \in Method, b \in Countable : Has(f, n, b) = 0 BY <1>2 DEF Has, Method
  <2> QED BY <1>1, <2>1, <2>2
<1>3. CASE f.credit # "none"
  <2>1. Undone(cls, f) = Bump(cls, f.credit, f.app_id, -1) BY <1>3 DEF Undone
  <2>2. f.credit \in Method /\ f.app_id \in AppId /\ -1 \in Int BY <1>3 DEF Method, Entry
  <2>3. /\ Undone(cls, f) \in Credits
        /\ \A n \in Method, b \in Countable :
             Undone(cls, f)[n][b] =
               cls[n][b] + IF n = f.credit /\ b = f.app_id THEN -1 ELSE 0
    BY <2>1, <2>2, BumpValue
  <2> QED BY <1>1, <2>3 DEF Has
<1> QED BY <1>2, <1>3
-----------------------------------------------------------------------------
\* The entry of a flow that is not decided, after the packet has been added.
LEMMA TouchedFacts ==
  ASSUME Typed, Shape, NEW k \in Key, Open(k)
  PROVE  /\ Touched(k) \in Entry
         /\ Touched(k).state = "NEW" /\ Touched(k).credit = "none"
         /\ Touched(k).ndpi_flow = flows[k].ndpi_flow
         /\ flows[k] \in Entry
         /\ flows[k].credit = "none"
         /\ flows[k].state = IF IsNew(k) THEN "ABSENT" ELSE "NEW"
<1>1. flows[k] \in Entry BY DEF Typed
<1>2. flows[k].state \in {"ABSENT", "NEW"}
  BY <1>1 DEF Shape, Open, Terminal, Entry, FlowState
<1>3. flows[k].credit = "none" BY <1>2 DEF Shape, Absent
<1>4. flows[k].state = IF IsNew(k) THEN "ABSENT" ELSE "NEW" BY <1>2 DEF IsNew, Live
<1>5. (flows[k].pkt_count + 1) % U8 \in 0..(U8-1) BY <1>1 DEF Entry, U8
<1> DEFINE n == (flows[k].pkt_count + 1) % U8
<1>6. Touched(k) = [flows[k] EXCEPT !.state = "NEW", !.pkt_count = n] BY DEF Touched
<1> HIDE DEF n
<1>7. n \in 0..(U8-1) BY <1>5 DEF n
<1> QED BY <1>1, <1>3, <1>4, <1>6, <1>7 DEF Entry, FlowState

\* The scalar counters that say what became of the flows.
LEMMA StatsFields ==
  ASSUME NEW st \in Stats
  PROVE  /\ st.total_created \in Nat /\ st.pkts_scanned \in Nat /\ st.pkts_cached \in Nat
         /\ st.flows_classified \in Nat /\ st.flows_guessed \in Nat
         /\ st.flows_ml_classified \in Nat /\ st.flows_gave_up \in Nat
BY DEF Stats

\* The counters after a scan: a flow that was created is undecided.
LEMMA ScannedFacts ==
  ASSUME Typed, NEW k \in Key
  PROVE  /\ Created(k) \in Nat
         /\ Scanned(k) \in Stats
         /\ Undecided(Scanned(k)) = Undecided(stats) + IF IsNew(k) THEN 1 ELSE 0
<1> DEFINE t == Created(k)
           p == stats.pkts_scanned + 1
<1>1. stats \in Stats BY DEF Typed
<1>2. t \in Nat /\ p \in Nat /\ t = stats.total_created + IF IsNew(k) THEN 1 ELSE 0
  BY <1>1, StatsFields DEF Created
<1>3. Scanned(k) = [stats EXCEPT !.total_created = t, !.pkts_scanned = p]
  BY DEF Scanned
<1> HIDE DEF t, p
<1>4. /\ Scanned(k) \in Stats
      /\ Scanned(k).total_created = t
      /\ Scanned(k).flows_classified = stats.flows_classified
      /\ Scanned(k).flows_gave_up = stats.flows_gave_up
  BY <1>1, <1>2, <1>3 DEF Stats
<1>5. Undecided(Scanned(k)) = Undecided(stats) + IF IsNew(k) THEN 1 ELSE 0
  BY <1>1, <1>2, <1>4, StatsFields DEF Undecided
<1> QED BY <1>2, <1>4, <1>5 DEF t

\* A guess, and the ML model over a guess or over none, decide one flow, once.
LEMMA GuessStatsFacts ==
  ASSUME Typed, NEW k \in Key, NEW guess \in AppId
  PROVE  /\ GuessStats(k, guess) \in Stats
         /\ Undecided(GuessStats(k, guess)) =
              Undecided(Scanned(k)) - IF guess = Unknown THEN 0 ELSE 1
         /\ guess # Unknown => GuessStats(k, guess).flows_guessed >= 1
<1> DEFINE st == Scanned(k)
           g == st.flows_guessed + 1
           c == st.flows_classified + 1
<1>1. st \in Stats BY ScannedFacts
<1> HIDE DEF st
<1>2. CASE guess = Unknown
  BY <1>1, <1>2, StatsFields DEF GuessStats, Undecided, st
<1>3. CASE guess # Unknown
  <2>1. GuessStats(k, guess) = [st EXCEPT !.flows_guessed = g, !.flows_classified = c]
    BY <1>3 DEF GuessStats, st
  <2>2. g \in Nat /\ c \in Nat /\ g >= 1 /\ c = st.flows_classified + 1
    BY <1>1, StatsFields
  <2> HIDE DEF g, c
  <2>3. /\ GuessStats(k, guess) \in Stats
        /\ GuessStats(k, guess).total_created = st.total_created
        /\ GuessStats(k, guess).flows_guessed = g
        /\ GuessStats(k, guess).flows_classified = c
        /\ GuessStats(k, guess).flows_gave_up = st.flows_gave_up
    BY <1>1, <2>1, <2>2 DEF Stats
  <2>4. Undecided(GuessStats(k, guess)) = Undecided(st) - 1
    BY <1>1, <2>2, <2>3, StatsFields DEF Undecided
  <2> QED BY <1>3, <2>2, <2>3, <2>4 DEF st
<1> QED BY <1>2, <1>3

LEMMA MlStatsFacts ==
  ASSUME NEW st \in Stats, NEW guess \in AppId, guess # Unknown => st.flows_guessed >= 1
  PROVE  /\ MlStats(st, guess) \in Stats
         /\ Undecided(MlStats(st, guess)) =
              Undecided(st) - IF guess = Unknown THEN 1 ELSE 0
<1> DEFINE g == st.flows_guessed - IF guess = Unknown THEN 0 ELSE 1
           m == st.flows_ml_classified + 1
           c == st.flows_classified + IF guess = Unknown THEN 1 ELSE 0
<1>1. MlStats(st, guess) = [st EXCEPT !.flows_guessed = g, !.flows_ml_classified = m,
                                      !.flows_classified = c]
  BY DEF MlStats
<1>2. /\ g \in Nat /\ m \in Nat /\ c \in Nat
      /\ c = st.flows_classified + IF guess = Unknown THEN 1 ELSE 0
  BY StatsFields
<1> HIDE DEF g, m, c
<1>3. /\ MlStats(st, guess) \in Stats
      /\ MlStats(st, guess).total_created = st.total_created
      /\ MlStats(st, guess).flows_classified = c
      /\ MlStats(st, guess).flows_gave_up = st.flows_gave_up
  BY <1>1, <1>2 DEF Stats
<1> QED BY <1>2, <1>3, StatsFields DEF Undecided
-----------------------------------------------------------------------------
\* The tail of a decision frees the ndpi_flow the flow came with, if it had one.
LEMMA DecideEffect ==
  ASSUME Typed, Shape, NEW k \in Key, Open(k), NEW f \in Entry,
         f.state \in {"CLASSIFIED", "GAVE_UP"}, Decide(k, f)
  PROVE  LET g == [f EXCEPT !.ndpi_flow = "null"] IN
         /\ g \in Entry /\ g.state = f.state
         /\ \A m \in Method, a \in Countable : Has(g, m, a) = Has(f, m, a)
         /\ Waits(g) = 0
         /\ flows' = [flows EXCEPT ![k] = g]
         /\ nflows' = nflows + Held(g) - Held(flows[k])
         /\ UNCHANGED expiry
<1> DEFINE g == [f EXCEPT !.ndpi_flow = "null"]
<1>1. g \in Entry /\ g.state = f.state /\ g.credit = f.credit /\ g.app_id = f.app_id
      /\ g.ndpi_flow = "null"
  BY DEF Entry
<1>2. flows' = [flows EXCEPT ![k] = g] /\ nflows' = Freed(k) /\ UNCHANGED expiry
  BY DEF Decide
<1> HIDE DEF g
<1>3. nflows' = nflows + Held(g) - Held(flows[k])
  BY <1>1, <1>2 DEF Freed, Allocated, Held, Typed
<1> QED BY <1>1, <1>2, <1>3 DEF Has, Waits, g

-----------------------------------------------------------------------------
\* A packet that finds its flow decided, or no room for it, moves no count.
Unmoved ==
  /\ UNCHANGED <<flows, nflows, app_classified, expiry>>
  /\ stats' \in Stats /\ Undecided(stats') = Undecided(stats)

\* Ways through ndpi_engine_process that do not decide by an id: the entry stays
\* new or is given up, and holds no credit.
LEMMA PlainEffect ==
  ASSUME Typed, Shape, NEW k \in Key, Open(k)
  PROVE  /\ BarePacket(k) => \E f \in Entry : Effect(k, f)
         /\ NdpiAllocFails(k) => \E f \in Entry : Effect(k, f)
         /\ StillOpen(k) => \E f \in Entry : Effect(k, f)
<1> USE AppAssumption
<1> DEFINE t == Touched(k)
           n == IF IsNew(k) THEN 1 ELSE 0
           g == stats.flows_gave_up + 1
           tracked == [stats EXCEPT !.total_created = Created(k)]
           given_up == [stats EXCEPT !.total_created = Created(k), !.flows_gave_up = g]
<1>1. /\ t \in Entry /\ t.state = "NEW" /\ t.credit = "none"
      /\ t.ndpi_flow = flows[k].ndpi_flow
      /\ flows[k].credit = "none" /\ flows[k].state = IF IsNew(k) THEN "ABSENT" ELSE "NEW"
  BY TouchedFacts
<1>2. /\ GaveUp(t) \in Entry /\ GaveUp(t).state = "GAVE_UP"
      /\ GaveUp(t).credit = "none" /\ GaveUp(t).ndpi_flow = flows[k].ndpi_flow
  BY <1>1 DEF GaveUp, Entry, FlowState
<1>3. /\ [t EXCEPT !.ndpi_flow = "alloc"] \in Entry
      /\ [t EXCEPT !.ndpi_flow = "alloc"].state = "NEW"
      /\ [t EXCEPT !.ndpi_flow = "alloc"].credit = "none"
      /\ [t EXCEPT !.ndpi_flow = "alloc"].ndpi_flow = "alloc"
  BY <1>1 DEF Entry
<1>4. Waits(flows[k]) = 1 - n BY <1>1 DEF Waits
<1>5. stats \in Stats /\ Created(k) \in Nat /\ Created(k) = stats.total_created + n
      /\ g \in Nat /\ g = stats.flows_gave_up + 1
  BY ScannedFacts, StatsFields DEF Typed, Created
<1>6. /\ tracked \in Stats /\ tracked.total_created = Created(k)
      /\ tracked.flows_classified = stats.flows_classified
      /\ tracked.flows_gave_up = stats.flows_gave_up
  BY <1>5 DEF Stats
<1>7. /\ given_up \in Stats /\ given_up.total_created = Created(k)
      /\ given_up.flows_classified = stats.flows_classified
      /\ given_up.flows_gave_up = g
  BY <1>5 DEF Stats
<1>8. n \in {0, 1} OBVIOUS
<1> HIDE DEF t, n, g, tracked, given_up
<1>9. Undecided(tracked) = Undecided(stats) + n
  BY <1>5, <1>6, <1>8, StatsFields DEF Undecided
<1>10. Undecided(given_up) = Undecided(stats) + n - 1
  BY <1>5, <1>7, <1>8, StatsFields DEF Undecided
<1>11. \A m \in Method, a \in Countable :
         /\ Has(flows[k], m, a) = 0 /\ Has(t, m, a) = 0 /\ Has(GaveUp(t), m, a) = 0
         /\ Has([t EXCEPT !.ndpi_flow = "alloc"], m, a) = 0
  BY <1>1, <1>2, <1>3 DEF Has, Method
<1>12. app_classified \in Credits /\ nflows \in Int
       /\ \A m \in Method, a \in Countable : app_classified[m][a] \in Int
  BY DEF Typed, Credits
<1>13. Undecided(stats) \in Int BY <1>5, StatsFields DEF Undecided
<1>14. ASSUME NEW f \in Entry, f \in {t, GaveUp(t)}, flows' = [flows EXCEPT ![k] = f],
              stats' = IF f = t THEN tracked ELSE given_up,
              UNCHANGED <<app_classified, nflows, expiry>>
       PROVE  Effect(k, f)
  <2>1. Held(f) = Held(flows[k]) BY <1>1, <1>2, <1>14 DEF Held
  <2>2. Held(f) \in Int BY DEF Held
  <2>3. nflows' = nflows + Held(f) - Held(flows[k]) BY <1>12, <1>14, <2>1, <2>2
  <2>4. Undecided(stats') = Undecided(stats) + Waits(f) - Waits(flows[k])
    BY <1>1, <1>2, <1>4, <1>8, <1>9, <1>10, <1>13, <1>14 DEF Waits
  <2>5. \A m \in Method, a \in Countable :
          app_classified'[m][a] = app_classified[m][a] + Has(f, m, a) - Has(flows[k], m, a)
    BY <1>11, <1>12, <1>14
  <2>6. stats' \in Stats BY <1>6, <1>7, <1>14
  <2>7. f.state \in {"NEW", "GAVE_UP"} /\ f.credit = "none" BY <1>1, <1>2, <1>14
  <2> QED BY <1>12, <1>14, <2>3, <2>4, <2>5, <2>6, <2>7 DEF Effect
<1>15. ASSUME BarePacket(k) PROVE \E f \in Entry : Effect(k, f)
  <2>1. CASE AtThreshold(k)
    <3>1. flows' = [flows EXCEPT ![k] = GaveUp(t)] /\ stats' = given_up
          /\ UNCHANGED <<app_classified, nflows, expiry>>
      BY <1>15, <2>1 DEF BarePacket, t, given_up, g, counters
    <3>2. GaveUp(t) # t BY <1>1, <1>2
    <3> QED BY <1>2, <1>14, <3>1, <3>2
  <2>2. CASE ~AtThreshold(k)
    <3>1. flows' = [flows EXCEPT ![k] = t] /\ stats' = tracked
          /\ UNCHANGED <<app_classified, nflows, expiry>>
      BY <1>15, <2>2 DEF BarePacket, t, tracked, counters
    <3> QED BY <1>1, <1>14, <3>1
  <2> QED BY <2>1, <2>2
<1>16. ASSUME NdpiAllocFails(k) PROVE \E f \in Entry : Effect(k, f)
  <2>1. flows' = [flows EXCEPT ![k] = GaveUp(t)] /\ stats' = given_up
        /\ UNCHANGED <<app_classified, nflows, expiry>>
    BY <1>16 DEF NdpiAllocFails, t, given_up, g, counters
  <2>2. GaveUp(t) # t BY <1>1, <1>2
  <2> QED BY <1>2, <1>14, <2>1, <2>2
<1>17. ASSUME StillOpen(k) PROVE \E f \in Entry : Effect(k, f)
  <2> DEFINE f == [t EXCEPT !.ndpi_flow = "alloc"]
  <2>1. flows' = [flows EXCEPT ![k] = f] /\ stats' = Scanned(k) /\ nflows' = Allocated(k)
        /\ UNCHANGED <<app_classified, expiry>>
    BY <1>17 DEF StillOpen, t, counters
  <2> HIDE DEF f
  <2>2. f \in Entry /\ f.state = "NEW" /\ f.credit = "none" /\ f.ndpi_flow = "alloc"
        /\ \A m \in Method, a \in Countable : Has(f, m, a) = 0
    BY <1>3, <1>11 DEF f
  <2>3. nflows' = nflows + Held(f) - Held(flows[k])
    BY <1>12, <2>1, <2>2 DEF Allocated, Held
  <2>4. stats' \in Stats /\ Undecided(stats') = Undecided(stats) + n
    BY <2>1, ScannedFacts DEF n
  <2>5. Undecided(stats') = Undecided(stats) + Waits(f) - Waits(flows[k])
    BY <1>4, <1>8, <1>13, <2>2, <2>4 DEF Waits
  <2>6. \A m \in Method, a \in Countable :
          app_classified'[m][a] = app_classified[m][a] + Has(f, m, a) - Has(flows[k], m, a)
    BY <1>11, <1>12, <2>1, <2>2
  <2> QED BY <1>12, <2>1, <2>2, <2>3, <2>4, <2>5, <2>6 DEF Effect
<1> QED BY <1>15, <1>16, <1>17

\* A decision: the flow leaves the undecided, and the credit it holds is counted.
Decision(k, f) ==
  /\ Decide(k, f)
  /\ f \in Entry /\ f.state \in {"CLASSIFIED", "GAVE_UP"}
  /\ stats' \in Stats
  /\ Undecided(stats') = Undecided(Scanned(k)) - 1
  /\ app_classified' \in Credits
  /\ \A m \in Method, a \in Countable :
       app_classified'[m][a] = app_classified[m][a] + Has(f, m, a)

\* Its counts move as an Effect says.
LEMMA DecisionEffect ==
  ASSUME Typed, Shape, NEW k \in Key, Open(k), NEW f, Decision(k, f)
  PROVE  \E g \in Entry : Effect(k, g)
<1> DEFINE g == [f EXCEPT !.ndpi_flow = "null"]
<1>1. /\ g \in Entry /\ g.state = f.state
      /\ \A m \in Method, a \in Countable : Has(g, m, a) = Has(f, m, a)
      /\ Waits(g) = 0
      /\ flows' = [flows EXCEPT ![k] = g]
      /\ nflows' = nflows + Held(g) - Held(flows[k])
      /\ UNCHANGED expiry
  BY DecideEffect DEF Decision
<1> HIDE DEF g
<1>2. g.state \in {"CLASSIFIED", "GAVE_UP"} BY <1>1 DEF Decision
<1>3. flows[k].credit = "none" /\ flows[k].state = IF IsNew(k) THEN "ABSENT" ELSE "NEW"
  BY TouchedFacts
<1>4. Undecided(Scanned(k)) = Undecided(stats) + 1 - Waits(flows[k])
      /\ Undecided(stats) \in Int
  BY <1>3, ScannedFacts, StatsFields DEF Waits, Undecided, Typed
<1>5. Undecided(stats') = Undecided(stats) + Waits(g) - Waits(flows[k])
  BY <1>1, <1>4 DEF Decision, Waits
<1>6. \A m \in Method, a \in Countable :
        app_classified'[m][a] = app_classified[m][a] + Has(g, m, a) - Has(flows[k], m, a)
  <2>1. \A m \in Method, a \in Countable : Has(flows[k], m, a) = 0
    BY <1>3 DEF Has, Method
  <2>2. \A m \in Method, a \in Countable :
          app_classified[m][a] \in Int /\ Has(g, m, a) \in Int
    BY DEF Typed, Credits, Has
  <2>3. \A m \in Method, a \in Countable :
          app_classified'[m][a] = app_classified[m][a] + Has(g, m, a)
    BY <1>1 DEF Decision
  <2> QED BY <2>1, <2>2, <2>3
<1> QED BY <1>1, <1>2, <1>5, <1>6 DEF Effect, Decision

\* A host name may change an entry's application and who is credited, no more.
LEMMA ClassifiedFacts ==
  ASSUME NEW f \in Entry, NEW m \in Method, NEW a \in AppId,
         NEW src \in Source, NEW ai \in AppId
  PROVE  /\ Classified(f, m, a, src, ai) \in Entry
         /\ Classified(f, m, a, src, ai).state = "CLASSIFIED"
         /\ Classified(f, m, a, src, ai).credit \in {m, "sni", "dns"}
<1>1. CASE Relabels(a, src, ai)
  <2>1. Classified(f, m, a, src, ai) =
          [f EXCEPT !.state = "CLASSIFIED", !.app_id = ai, !.credit = src]
    BY <1>1 DEF Classified
  <2>2. src \in {"sni", "dns"} BY <1>1 DEF Relabels, Source
  <2> QED BY <2>1, <2>2 DEF Entry, FlowState, Method
<1>2. CASE ~Relabels(a, src, ai)
  <2>1. Classified(f, m, a, src, ai) =
          [f EXCEPT !.state = "CLASSIFIED", !.app_id = a, !.credit = m]
    BY <1>2 DEF Classified
  <2> QED BY <2>1 DEF Entry, FlowState, Method
<1> QED BY <1>1, <1>2

\* The entry and the credits once a guess has been taken, or none.
LEMMA GuessFacts ==
  ASSUME Typed, Shape, NEW k \in Key, Open(k),
         NEW guess \in AppId, NEW src \in Source, NEW ai \in AppId
  PROVE  LET f == AfterGuess(k, guess, src, ai)
             cls == GuessCredited(guess, src, ai) IN
         /\ f \in Entry /\ cls \in Credits
         /\ guess # Unknown => f.state = "CLASSIFIED"
         /\ f.credit \in {"giveup", "sni", "dns", "none"}
         /\ \A m \in Method, a \in Countable :
              cls[m][a] = app_classified[m][a] + Has(f, m, a)
<1>1. Touched(k) \in Entry /\ Touched(k).credit = "none" BY TouchedFacts
<1>2. app_classified \in Credits BY DEF Typed
<1>3. CASE guess = Unknown
  <2>1. AfterGuess(k, guess, src, ai) = Touched(k)
        /\ GuessCredited(guess, src, ai) = app_classified
    BY <1>3 DEF AfterGuess, GuessCredited
  <2>2. \A m \in Method, a \in Countable :
          Has(Touched(k), m, a) = 0 /\ app_classified[m][a] \in Int
    BY <1>1, <1>2 DEF Has, Method, Credits
  <2> QED BY <1>1, <1>2, <1>3, <2>1, <2>2
<1>4. CASE guess # Unknown
  <2>1. AfterGuess(k, guess, src, ai) = Classified(Touched(k), "giveup", guess, src, ai)
        /\ GuessCredited(guess, src, ai) =
             Credited(app_classified, "giveup", guess, src, ai)
    BY <1>4 DEF AfterGuess, GuessCredited
  <2>2. "giveup" \in Method BY DEF Method
  <2> QED BY <1>1, <1>2, <2>1, <2>2, ClassifiedFacts, CreditedValue
<1> QED BY <1>3, <1>4

\* The ways that decide a flow are decisions.
LEMMA DecidingWays ==
  ASSUME Typed, Shape, NEW k \in Key, Open(k)
  PROVE  /\ GivesUp(k) => \E f : Decision(k, f)
         /\ \A a, ai \in AppId, src \in Source :
              /\ Detected(k, a, src, ai) => \E f : Decision(k, f)
              /\ Guessed(k, a, src, ai) => \E f : Decision(k, f)
              /\ \A ml \in AppId : MlClassified(k, a, src, ai, ml) => \E f : Decision(k, f)
<1> USE AppAssumption
<1>1. Touched(k) \in Entry /\ Touched(k).credit = "none" BY TouchedFacts
<1>2. app_classified \in Credits
      /\ \A m \in Method, a \in Countable : app_classified[m][a] \in Int
  BY DEF Typed, Credits
<1>3. Scanned(k) \in Stats BY ScannedFacts
<1>4. ASSUME GivesUp(k) PROVE \E f : Decision(k, f)
  <2> DEFINE f == GaveUp(Touched(k))
             g == Scanned(k).flows_gave_up + 1
  <2>1. f \in Entry /\ f.state = "GAVE_UP" /\ f.credit = "none"
    BY <1>1 DEF GaveUp, Entry, FlowState
  <2>2. stats' = [Scanned(k) EXCEPT !.flows_gave_up = g] /\ app_classified' = app_classified
        /\ Decide(k, f)
    BY <1>4 DEF GivesUp
  <2>3. g \in Nat /\ g = Scanned(k).flows_gave_up + 1 BY <1>3, StatsFields
  <2> HIDE DEF f, g
  <2>4. stats' \in Stats /\ stats'.total_created = Scanned(k).total_created
        /\ stats'.flows_classified = Scanned(k).flows_classified
        /\ stats'.flows_gave_up = g
    BY <1>3, <2>2, <2>3 DEF Stats
  <2>5. Undecided(stats') = Undecided(Scanned(k)) - 1
    BY <1>3, <2>3, <2>4, StatsFields DEF Undecided
  <2>6. \A m \in Method, a \in Countable : Has(f, m, a) = 0 BY <2>1 DEF Has, Method
  <2> QED BY <1>2, <2>1, <2>2, <2>4, <2>5, <2>6 DEF Decision
<1>5. ASSUME NEW a \in AppId, NEW ai \in AppId, NEW src \in Source, Detected(k, a, src, ai)
      PROVE  \E f : Decision(k, f)
  <2> DEFINE f == Classified(Touched(k), "ndpi", a, src, ai)
             c == Scanned(k).flows_classified + 1
  <2>1. "ndpi" \in Method BY DEF Method
  <2>2. f \in Entry /\ f.state = "CLASSIFIED" BY <1>1, <2>1, ClassifiedFacts
  <2>3. /\ stats' = [Scanned(k) EXCEPT !.flows_classified = c] /\ Decide(k, f)
        /\ app_classified' = Credited(app_classified, "ndpi", a, src, ai)
    BY <1>5 DEF Detected
  <2>4. app_classified' \in Credits
        /\ \A m \in Method, b \in Countable :
             app_classified'[m][b] = app_classified[m][b] + Has(f, m, b)
    BY <1>1, <1>2, <2>1, <2>3, CreditedValue
  <2>5. c \in Nat /\ c = Scanned(k).flows_classified + 1 BY <1>3, StatsFields
  <2> HIDE DEF f, c
  <2>6. stats' \in Stats /\ stats'.total_created = Scanned(k).total_created
        /\ stats'.flows_gave_up = Scanned(k).flows_gave_up /\ stats'.flows_classified = c
    BY <1>3, <2>3, <2>5 DEF Stats
  <2>7. Undecided(stats') = Undecided(Scanned(k)) - 1
    BY <1>3, <2>5, <2>6, StatsFields DEF Undecided
  <2> QED BY <2>2, <2>3, <2>4, <2>6, <2>7 DEF Decision
<1>6. ASSUME NEW a \in AppId, NEW ai \in AppId, NEW src \in Source, Guessed(k, a, src, ai)
      PROVE  \E f : Decision(k, f)
  <2> DEFINE f == AfterGuess(k, a, src, ai)
  <2>1. a # Unknown /\ Decide(k, f) /\ stats' = GuessStats(k, a)
        /\ app_classified' = GuessCredited(a, src, ai)
    BY <1>6 DEF Guessed
  <2>2. /\ f \in Entry /\ f.state = "CLASSIFIED" /\ app_classified' \in Credits
        /\ \A m \in Method, b \in Countable :
             app_classified'[m][b] = app_classified[m][b] + Has(f, m, b)
    BY <2>1, GuessFacts
  <2>3. stats' \in Stats /\ Undecided(stats') = Undecided(Scanned(k)) - 1
    BY <2>1, GuessStatsFacts
  <2> HIDE DEF f
  <2> QED BY <2>1, <2>2, <2>3 DEF Decision
<1>7. ASSUME NEW a \in AppId, NEW ai \in AppId, NEW src \in Source, NEW ml \in AppId,
             MlClassified(k, a, src, ai, ml)
      PROVE  \E f : Decision(k, f)
  <2> DEFINE f == AfterGuess(k, a, src, ai)
             h == [f EXCEPT !.state = "CLASSIFIED", !.app_id = ml, !.credit = "ml"]
             cls == GuessCredited(a, src, ai)
             undone == Undone(cls, f)
  <2>1. /\ Decide(k, h) /\ stats' = MlStats(GuessStats(k, a), a)
        /\ app_classified' = Bump(undone, "ml", ml, 1)
    BY <1>7 DEF MlClassified
  <2>2. /\ f \in Entry /\ cls \in Credits /\ f.credit \in {"giveup", "sni", "dns", "none"}
        /\ \A m \in Method, b \in Countable :
             cls[m][b] = app_classified[m][b] + Has(f, m, b)
    BY GuessFacts
  <2> HIDE DEF f, cls
  <2>3. h \in Entry /\ h.state = "CLASSIFIED" /\ h.app_id = ml /\ h.credit = "ml"
    BY <2>2 DEF Entry, FlowState, Method
  <2> HIDE DEF h
  <2>4. /\ undone \in Credits
        /\ \A m \in Method, b \in Countable : undone[m][b] = app_classified[m][b]
    <3>1. /\ undone \in Credits
          /\ \A m \in Method, b \in Countable : undone[m][b] = cls[m][b] - Has(f, m, b)
      BY <2>2, UndoneValue
    <3>2. \A m \in Method, b \in Countable : Has(f, m, b) \in Int BY DEF Has
    <3> QED BY <1>2, <2>2, <3>1, <3>2
  <2> HIDE DEF undone
  <2>5. "ml" \in Method /\ 1 \in Int BY DEF Method
  <2>6. /\ app_classified' \in Credits
        /\ \A m \in Method, b \in Countable :
             app_classified'[m][b] = undone[m][b] + IF m = "ml" /\ b = ml THEN 1 ELSE 0
    <3>1. undone \in Credits BY <2>4
    <3>2. /\ Bump(undone, "ml", ml, 1) \in Credits
          /\ \A m \in Method, b \in Countable :
               Bump(undone, "ml", ml, 1)[m][b] =
                 undone[m][b] + IF m = "ml" /\ b = ml THEN 1 ELSE 0
      BY <2>5, <3>1, BumpValue
    <3> QED BY <2>1, <3>2
  <2>7. \A m \in Method, b \in Countable :
          app_classified'[m][b] = app_classified[m][b] + Has(h, m, b)
    BY <2>3, <2>4, <2>6 DEF Has
  <2>8. stats' \in Stats /\ Undecided(stats') = Undecided(Scanned(k)) - 1
    <3> DEFINE st == GuessStats(k, a)
               n == IF a = Unknown THEN 0 ELSE 1
    <3>1. st \in Stats /\ Undecided(st) = Undecided(Scanned(k)) - n
          /\ (a # Unknown => st.flows_guessed >= 1)
      BY GuessStatsFacts
    <3>2. stats' = MlStats(st, a) BY <2>1
    <3> HIDE DEF st
    <3>3. stats' \in Stats
          /\ Undecided(stats') = Undecided(st) - IF a = Unknown THEN 1 ELSE 0
      BY <3>1, <3>2, MlStatsFacts
    <3>4. Undecided(Scanned(k)) \in Int BY <1>3, StatsFields DEF Undecided
    <3> QED BY <3>1, <3>3, <3>4
  <2> QED BY <2>1, <2>3, <2>6, <2>7, <2>8 DEF Decision
<1> QED BY <1>4, <1>5, <1>6, <1>7

\* Every packet either moves no count or moves them with one entry.
LEMMA ProcessEffect ==
  ASSUME Typed, Shape, NEW k \in Key, NEW d,
         ndpi_engine_process([key |-> k, data |-> d])
  PROVE  Unmoved \/ \E f \in Entry : Effect(k, f)
<1>1. CASE CreateFails(k)
  BY <1>1 DEF CreateFails, Unmoved, counters, expiry, Typed
<1>2. CASE CachedPacket(k)
  <2> DEFINE p == stats.pkts_cached + 1
  <2>1. stats' = [stats EXCEPT !.pkts_cached = p] BY <1>2 DEF CachedPacket
  <2>2. p \in Nat /\ stats \in Stats BY StatsFields DEF Typed
  <2> HIDE DEF p
  <2>3. stats' \in Stats /\ Undecided(stats') = Undecided(stats)
    BY <2>1, <2>2 DEF Stats, Undecided
  <2> QED BY <1>2, <2>3 DEF CachedPacket, Unmoved, counters, expiry
<1>3. CASE BarePacket(k)
  BY <1>3, PlainEffect DEF BarePacket
<1>4. CASE NdpiAllocFails(k)
  BY <1>4, PlainEffect DEF NdpiAllocFails
<1>5. CASE StillOpen(k)
  BY <1>5, PlainEffect DEF StillOpen
<1>6. CASE GivesUp(k)
  BY <1>6, DecidingWays, DecisionEffect DEF GivesUp
<1>7. CASE \E a, ai \in AppId, src \in Source :
             \/ Detected(k, a, src, ai)
             \/ Guessed(k, a, src, ai)
             \/ \E ml \in AppId : MlClassified(k, a, src, ai, ml)
  <2>1. Open(k) BY <1>7 DEF Detected, Guessed, MlClassified
  <2> QED BY <1>7, <2>1, DecidingWays, DecisionEffect
<1> QED BY <1>1, <1>2, <1>3, <1>4, <1>5, <1>6, <1>7 DEF ndpi_engine_process

-----------------------------------------------------------------------------
\* Two sets of keys that differ at most in k differ in size by what k adds.
LEMMA OneChanges ==
  ASSUME NEW A \in SUBSET Key, NEW B \in SUBSET Key, NEW k \in Key, A \ {k} = B \ {k}
  PROVE  /\ Cardinality(A) \in Nat /\ Cardinality(B) \in Nat
         /\ Cardinality(B) = Cardinality(A) + (IF k \in B THEN 1 ELSE 0)
                                            - (IF k \in A THEN 1 ELSE 0)
<1>1. IsFiniteSet(A) /\ IsFiniteSet(B) BY KeyAssumption, FS_Subset
<1>2. Cardinality(A) \in Nat /\ Cardinality(B) \in Nat BY <1>1, FS_CardinalityType
<1>3. ASSUME NEW S \in {A, B}
      PROVE  Cardinality(S) = Cardinality(S \ {k}) + IF k \in S THEN 1 ELSE 0
  <2>1. IsFiniteSet(S) /\ Cardinality(S) \in Nat BY <1>1, <1>2
  <2>2. CASE k \in S
    <3>1. Cardinality(S \ {k}) = Cardinality(S) - 1 BY <2>1, <2>2, FS_RemoveElement
    <3> QED BY <2>1, <2>2, <3>1
  <2>3. CASE k \notin S
    <3>1. S \ {k} = S BY <2>3
    <3> QED BY <2>1, <2>3, <3>1
  <2> QED BY <2>2, <2>3
<1>4. Cardinality(A \ {k}) = Cardinality(B \ {k}) OBVIOUS
<1>5. Cardinality(A \ {k}) \in Nat
  BY <1>1, FS_RemoveElement, FS_CardinalityType
<1> QED BY <1>2, <1>3, <1>4, <1>5

\* A set of keys is what expires of it and what remains.
LEMMA Splits ==
  ASSUME NEW A \in SUBSET Key, NEW S \in SUBSET Key
  PROVE  /\ Cardinality(A \ S) \in Nat /\ Cardinality(A \cap S) \in Nat
         /\ Cardinality(A) = Cardinality(A \ S) + Cardinality(A \cap S)
<1>1. IsFiniteSet(A \ S) /\ IsFiniteSet(A \cap S)
  BY KeyAssumption, FS_Subset
<1>2. Cardinality(A \ S) \in Nat /\ Cardinality(A \cap S) \in Nat
  BY <1>1, FS_CardinalityType
<1>3. A = (A \ S) \cup (A \cap S) /\ (A \ S) \cap (A \cap S) = {} OBVIOUS
<1>4. Cardinality((A \ S) \cup (A \cap S)) =
        Cardinality(A \ S) + Cardinality(A \cap S) - Cardinality((A \ S) \cap (A \cap S))
  BY <1>1, FS_Union
<1>5. Cardinality((A \ S) \cap (A \cap S)) = 0 BY <1>3, FS_EmptySet
<1> QED BY <1>2, <1>3, <1>4, <1>5

\* The keys the three invariants count.
Holding == {k \in Key : flows[k].ndpi_flow = "alloc"}
Waiting == {k \in Key : flows[k].state = "NEW"}
Credited_to(m, a) == {k \in Key : flows[k].credit = m /\ flows[k].app_id = a}

\* The invariants follow a packet, because each counter moves with the one entry.
LEMMA EffectKeeps ==
  ASSUME IInv, NEW k \in Key, NEW f \in Entry, Effect(k, f)
  PROVE  IInv'
<1>1. /\ flows \in [Key -> Entry] /\ flows' = [flows EXCEPT ![k] = f]
      /\ flows' \in [Key -> Entry]
      /\ flows'[k] = f /\ \A j \in Key \ {k} : flows'[j] = flows[j]
  BY DEF IInv, Typed, Effect
<1>2. nflows \in Int /\ nflows' = nflows + Held(f) - Held(flows[k])
      /\ Held(f) \in {0, 1} /\ Held(flows[k]) \in {0, 1}
  BY DEF IInv, Typed, Effect, Held
<1>3. Typed' BY <1>1, <1>2 DEF IInv, Typed, Effect, expiry
<1>4. Shape'
  <2>1. ASSUME NEW j \in Key
        PROVE  /\ flows'[j].state # "CLASSIFYING"
               /\ flows'[j].state = "NEW" => flows'[j].credit = "none"
               /\ flows'[j].state = "ABSENT" => flows'[j] = Absent
    <3>1. CASE j = k BY <1>1, <3>1 DEF Effect
    <3>2. CASE j # k BY <1>1, <3>2 DEF IInv, Shape
    <3> QED BY <3>1, <3>2
  <2> QED BY <2>1 DEF Shape, Absent
<1>5. NoLeak'
  <2>1. Holding \ {k} = Holding' \ {k} BY <1>1 DEF Holding
  <2>2. (k \in Holding <=> flows[k].ndpi_flow = "alloc")
        /\ (k \in Holding' <=> f.ndpi_flow = "alloc")
    BY <1>1 DEF Holding
  <2>3. Cardinality(Holding') = Cardinality(Holding) + Held(f) - Held(flows[k])
        /\ Cardinality(Holding) \in Nat
    <3>1. Holding \in SUBSET Key /\ Holding' \in SUBSET Key BY DEF Holding
    <3>2. /\ Cardinality(Holding) \in Nat /\ Cardinality(Holding') \in Nat
          /\ Cardinality(Holding') = Cardinality(Holding)
               + (IF k \in Holding' THEN 1 ELSE 0) - (IF k \in Holding THEN 1 ELSE 0)
      BY <2>1, <3>1, OneChanges
    <3> QED BY <2>2, <3>2 DEF Held
  <2>4. nflows = Cardinality(Holding) BY DEF IInv, NoLeak, Holding
  <2>5. nflows' = Cardinality(Holding') BY <1>2, <2>3, <2>4
  <2> QED BY <2>5 DEF NoLeak, Holding
<1>6. OutcomesPartition'
  <2>1. Waiting \ {k} = Waiting' \ {k} BY <1>1 DEF Waiting
  <2>2. (k \in Waiting <=> flows[k].state = "NEW") /\ (k \in Waiting' <=> f.state = "NEW")
    BY <1>1 DEF Waiting
  <2>3. Cardinality(Waiting') = Cardinality(Waiting) + Waits(f) - Waits(flows[k])
        /\ Cardinality(Waiting) \in Nat /\ Cardinality(Waiting') \in Nat
    <3>1. Waiting \in SUBSET Key /\ Waiting' \in SUBSET Key BY DEF Waiting
    <3>2. /\ Cardinality(Waiting) \in Nat /\ Cardinality(Waiting') \in Nat
          /\ Cardinality(Waiting') = Cardinality(Waiting)
               + (IF k \in Waiting' THEN 1 ELSE 0) - (IF k \in Waiting THEN 1 ELSE 0)
      BY <2>1, <3>1, OneChanges
    <3> QED BY <2>2, <3>2 DEF Waits
  <2>4. /\ stats \in Stats /\ stats' \in Stats
        /\ expired_new \in Nat /\ expired_new' = expired_new
        /\ Undecided(stats') = Undecided(stats) + Waits(f) - Waits(flows[k])
        /\ Waits(f) \in {0, 1} /\ Waits(flows[k]) \in {0, 1}
    BY DEF IInv, Typed, Effect, expiry, Waits
  <2>5. Undecided(stats) = expired_new + Cardinality(Waiting)
    <3>1. stats.total_created = stats.flows_classified + stats.flows_gave_up
                                + expired_new + Cardinality(Waiting)
      BY DEF IInv, OutcomesPartition, Waiting
    <3> QED BY <2>3, <2>4, <3>1, StatsFields DEF Undecided
  <2>6. Undecided(stats') = expired_new' + Cardinality(Waiting') BY <2>3, <2>4, <2>5
  <2>7. stats'.total_created = stats'.flows_classified + stats'.flows_gave_up
                               + expired_new' + Cardinality(Waiting')
    BY <2>3, <2>4, <2>6, StatsFields DEF Undecided
  <2> QED BY <2>7 DEF OutcomesPartition, Waiting
<1>7. CreditConservation'
  <2>1. ASSUME NEW m \in Method, NEW a \in Countable
        PROVE  app_classified'[m][a] = expired_credit'[m][a] + Cardinality(Credited_to(m, a)')
    <3> DEFINE A == Credited_to(m, a)
               B == Credited_to(m, a)'
    <3>1. A \in SUBSET Key /\ B \in SUBSET Key /\ A \ {k} = B \ {k}
      BY <1>1 DEF Credited_to
    <3>2. (k \in A <=> flows[k].credit = m /\ flows[k].app_id = a)
          /\ (k \in B <=> f.credit = m /\ f.app_id = a)
      BY <1>1 DEF Credited_to
    <3>3. app_classified[m][a] = expired_credit[m][a] + Cardinality(A)
      BY DEF IInv, CreditConservation, Credited_to
    <3>4. app_classified'[m][a] = app_classified[m][a] + Has(f, m, a) - Has(flows[k], m, a)
          /\ expired_credit' = expired_credit
      BY DEF Effect, expiry
    <3>5. expired_credit[m][a] \in Nat BY DEF IInv, Typed, CreditCounts
    <3> HIDE DEF A, B
    <3>6. /\ Cardinality(A) \in Nat /\ Cardinality(B) \in Nat
          /\ Cardinality(B) = Cardinality(A) + (IF k \in B THEN 1 ELSE 0)
                                             - (IF k \in A THEN 1 ELSE 0)
      BY <3>1, OneChanges
    <3>7. Cardinality(B) = Cardinality(A) + Has(f, m, a) - Has(flows[k], m, a)
      BY <3>2, <3>6 DEF Has
    <3>8. Has(f, m, a) \in {0, 1} /\ Has(flows[k], m, a) \in {0, 1} BY DEF Has
    <3> QED BY <3>3, <3>4, <3>5, <3>6, <3>7, <3>8 DEF B
  <2> QED BY <2>1 DEF CreditConservation, Credited_to
<1> QED BY <1>3, <1>4, <1>5, <1>6, <1>7 DEF IInv

\* A packet that moves no count keeps the invariants.
LEMMA UnmovedKeeps ==
  ASSUME IInv, Unmoved
  PROVE  IInv'
<1>1. /\ flows' = flows /\ nflows' = nflows /\ app_classified' = app_classified
      /\ expired_new' = expired_new /\ expired_credit' = expired_credit
      /\ stats \in Stats /\ stats' \in Stats /\ Undecided(stats') = Undecided(stats)
  BY DEF Unmoved, expiry, IInv, Typed
<1>2. Typed' /\ Shape' BY <1>1 DEF IInv, Typed, Shape, Absent
<1>3. NoLeak' /\ CreditConservation' BY <1>1 DEF IInv, NoLeak, CreditConservation
<1>4. OutcomesPartition'
  <2>1. Waiting' = Waiting BY <1>1 DEF Waiting
  <2>2. Cardinality(Waiting) \in Nat
    BY KeyAssumption, FS_Subset, FS_CardinalityType DEF Waiting
  <2>3. stats.total_created = stats.flows_classified + stats.flows_gave_up
                              + expired_new + Cardinality(Waiting) /\ expired_new \in Nat
    BY DEF IInv, Typed, OutcomesPartition, Waiting
  <2>4. stats'.total_created = stats'.flows_classified + stats'.flows_gave_up
                               + expired_new' + Cardinality(Waiting')
    BY <1>1, <2>1, <2>2, <2>3, StatsFields DEF Undecided
  <2> QED BY <2>4 DEF OutcomesPartition, Waiting
<1> QED BY <1>2, <1>3, <1>4 DEF IInv

\* The sweep moves what it frees from the entries to the history of each count.
LEMMA AgeKeeps ==
  ASSUME IInv, NEW S \in SUBSET Key, ndpi_engine_age(S)
  PROVE  IInv'
<1>1. /\ S \subseteq Live
      /\ flows' = [k \in Key |-> IF k \in S THEN Absent ELSE flows[k]]
      /\ stats' = stats /\ app_classified' = app_classified
      /\ nflows' = nflows - Cardinality(Holding \cap S)
      /\ expired_new' = expired_new + Cardinality(Waiting \cap S)
      /\ expired_credit' = [m \in Method |-> [a \in Countable |->
           expired_credit[m][a] + Cardinality(Credited_to(m, a) \cap S)]]
  <2>1. {k \in S : flows[k].ndpi_flow = "alloc"} = Holding \cap S BY DEF Holding
  <2>2. {k \in S : flows[k].state = "NEW"} = Waiting \cap S BY DEF Waiting
  <2>3. \A m \in Method, a \in Countable :
          {k \in Of(S, a) : flows[k].credit = m} = Credited_to(m, a) \cap S
    BY DEF Of, Credited_to
  <2> QED BY <2>1, <2>2, <2>3 DEF ndpi_engine_age
<1>2. Absent \in Entry /\ Absent.state = "ABSENT" /\ Absent.ndpi_flow = "null"
      /\ Absent.credit = "none"
  BY AppAssumption DEF Absent, Entry, U8
<1>3. Holding' = Holding \ S /\ Waiting' = Waiting \ S
      /\ \A m \in Method, a \in Countable : Credited_to(m, a)' = Credited_to(m, a) \ S
  BY <1>1, <1>2 DEF Holding, Waiting, Credited_to, Method
<1>4. Holding \in SUBSET Key /\ Waiting \in SUBSET Key
      /\ \A m \in Method, a \in Countable : Credited_to(m, a) \in SUBSET Key
  BY DEF Holding, Waiting, Credited_to
<1>5. /\ flows \in [Key -> Entry] /\ stats \in Stats /\ app_classified \in Credits
      /\ nflows \in Int /\ expired_new \in Nat /\ expired_credit \in CreditCounts
  BY DEF IInv, Typed
<1>6. Typed'
  <2>1. flows' \in [Key -> Entry] BY <1>1, <1>2, <1>5
  <2>2. Cardinality(Holding \cap S) \in Nat /\ Cardinality(Waiting \cap S) \in Nat
        /\ \A m \in Method, a \in Countable : Cardinality(Credited_to(m, a) \cap S) \in Nat
    BY <1>4, Splits
  <2>3. nflows' \in Int /\ expired_new' \in Nat BY <1>1, <1>5, <2>2
  <2>4. expired_credit' \in CreditCounts
    <3>1. \A m \in Method, a \in Countable :
            expired_credit[m][a] + Cardinality(Credited_to(m, a) \cap S) \in Nat
      BY <1>5, <2>2 DEF CreditCounts
    <3> QED BY <1>1, <3>1 DEF CreditCounts
  <2> QED BY <1>1, <1>5, <2>1, <2>3, <2>4 DEF Typed
<1>7. Shape'
  <2>1. ASSUME NEW k \in Key
        PROVE  /\ flows'[k].state # "CLASSIFYING"
               /\ flows'[k].state = "NEW" => flows'[k].credit = "none"
               /\ flows'[k].state = "ABSENT" => flows'[k] = Absent
    <3>1. CASE k \in S
      <4>1. flows'[k] = Absent BY <1>1, <3>1
      <4> QED BY <1>2, <4>1
    <3>2. CASE k \notin S BY <1>1, <3>2 DEF IInv, Shape
    <3> QED BY <3>1, <3>2
  <2> QED BY <2>1 DEF Shape, Absent
<1>8. NoLeak'
  <2>1. nflows = Cardinality(Holding) BY DEF IInv, NoLeak, Holding
  <2>2. /\ Cardinality(Holding \ S) \in Nat /\ Cardinality(Holding \cap S) \in Nat
        /\ Cardinality(Holding) = Cardinality(Holding \ S) + Cardinality(Holding \cap S)
    BY <1>4, Splits
  <2>3. nflows' = Cardinality(Holding') BY <1>1, <1>3, <2>1, <2>2
  <2> QED BY <2>3 DEF NoLeak, Holding
<1>9. OutcomesPartition'
  <2>1. stats.total_created = stats.flows_classified + stats.flows_gave_up
                              + expired_new + Cardinality(Waiting)
    BY DEF IInv, OutcomesPartition, Waiting
  <2>2. /\ Cardinality(Waiting \ S) \in Nat /\ Cardinality(Waiting \cap S) \in Nat
        /\ Cardinality(Waiting) = Cardinality(Waiting \ S) + Cardinality(Waiting \cap S)
    BY <1>4, Splits
  <2>3. stats'.total_created = stats'.flows_classified + stats'.flows_gave_up
                               + expired_new' + Cardinality(Waiting')
    BY <1>1, <1>3, <1>5, <2>1, <2>2, StatsFields
  <2> QED BY <2>3 DEF OutcomesPartition, Waiting
<1>10. CreditConservation'
  <2>1. ASSUME NEW m \in Method, NEW a \in Countable
        PROVE  app_classified'[m][a] = expired_credit'[m][a] + Cardinality(Credited_to(m, a)')
    <3> DEFINE A == Credited_to(m, a)
    <3>1. app_classified[m][a] = expired_credit[m][a] + Cardinality(A)
      BY DEF IInv, CreditConservation, Credited_to
    <3>2. /\ Cardinality(A \ S) \in Nat /\ Cardinality(A \cap S) \in Nat
          /\ Cardinality(A) = Cardinality(A \ S) + Cardinality(A \cap S)
      BY <1>4, Splits
    <3>3. expired_credit[m][a] \in Nat BY <1>5 DEF CreditCounts
    <3>4. expired_credit'[m][a] = expired_credit[m][a] + Cardinality(A \cap S)
          /\ Credited_to(m, a)' = A \ S
      BY <1>1, <1>3
    <3> HIDE DEF A
    <3> QED BY <1>1, <3>1, <3>2, <3>3, <3>4
  <2> QED BY <2>1 DEF CreditConservation, Credited_to
<1> QED BY <1>6, <1>7, <1>8, <1>9, <1>10 DEF IInv
-----------------------------------------------------------------------------
\* No flow exists at first, and every counter is zero.
LEMMA InitInv == Init => IInv
<1> SUFFICES ASSUME Init PROVE IInv
  OBVIOUS
<1>1. Absent \in Entry /\ Absent.state = "ABSENT" /\ Absent.ndpi_flow = "null"
      /\ Absent.credit = "none"
  BY AppAssumption DEF Absent, Entry, U8
<1>2. \A k \in Key : flows[k] = Absent BY DEF Init
<1>3. \A m \in Method, a \in Countable : app_classified[m][a] = 0 /\ expired_credit[m][a] = 0
  BY DEF Init, Zero
<1>4. Typed BY <1>1 DEF Init, Typed, Zero, Stats, Credits, CreditCounts
<1>5. Shape BY <1>1, <1>2 DEF Shape
<1>6. Holding = {} /\ Waiting = {}
      /\ \A m \in Method, a \in Countable : Credited_to(m, a) = {}
  BY <1>1, <1>2 DEF Holding, Waiting, Credited_to, Method
<1>7. NoLeak BY <1>6, FS_EmptySet DEF Init, NoLeak, Holding
<1>8. OutcomesPartition
  <2>1. Cardinality(Waiting) = 0 BY <1>6, FS_EmptySet
  <2>2. /\ stats.total_created = 0 /\ stats.flows_classified = 0 /\ stats.flows_gave_up = 0
        /\ expired_new = 0
    BY DEF Init
  <2> QED BY <2>1, <2>2 DEF OutcomesPartition, Waiting
<1>9. CreditConservation
  <2>1. \A m \in Method, a \in Countable : Cardinality(Credited_to(m, a)) = 0
    BY <1>6, FS_EmptySet
  <2> QED BY <1>3, <2>1 DEF CreditConservation, Credited_to
<1> QED BY <1>4, <1>5, <1>7, <1>8, <1>9 DEF IInv

\* Every step keeps the invariants.
LEMMA NextInv == IInv /\ [Call]_vars => IInv'
<1> SUFFICES ASSUME IInv, [Call]_vars PROVE IInv'
  OBVIOUS
<1>1. ASSUME NEW k \in Key, NEW d, ndpi_engine_process([key |-> k, data |-> d])
      PROVE  IInv'
  BY <1>1, ProcessEffect, EffectKeeps, UnmovedKeeps DEF IInv
<1>2. ASSUME NEW S \in SUBSET Key, ndpi_engine_age(S) PROVE IInv'
  BY <1>2, AgeKeeps
<1>3. CASE UNCHANGED vars
  BY <1>3, UnmovedKeeps DEF vars, counters, Unmoved, IInv, Typed
<1> QED BY <1>1, <1>2, <1>3 DEF Call

LEMMA Invariant == Calls => []IInv
BY InitInv, NextInv, PTL DEF Calls

LEMMA SpecCalls == Spec => Calls
<1>1. [Next]_vars => [Call]_vars
  BY CaptureAssumption DEF Next, Call
<1> QED BY <1>1, PTL DEF Spec, Calls

\* ndpi_flow_malloc and ndpi_flow_free are paired on every way through
\* ndpi_engine_process and in the sweep.
THEOREM NoNdpiFlowLeaks == Spec => []NoLeak
BY Invariant, SpecCalls, PTL DEF IInv

\* Each flow the daemon creates is counted under exactly one outcome.
THEOREM OneOutcomePerFlow == Spec => []OutcomesPartition
BY Invariant, SpecCalls, PTL DEF IInv

\* Whatever relabels a flow, the per-method counters count final credits.
THEOREM CreditsAreConserved == Spec => []CreditConservation
BY Invariant, SpecCalls, PTL DEF IInv
-----------------------------------------------------------------------------
(* What packets and sweeps do to verdict_map. *)

Verdicts == verdict_map \in VerdictMap

\* A packet changes nothing of its flow, or finds it open; then a flow it leaves
\* classified has its verdict published, and no other but one it gives up.
LEMMA Publishes ==
  ASSUME Typed, Shape, NEW k \in Key, NEW d,
         ndpi_engine_process([key |-> k, data |-> d])
  PROVE  \/ flows' = flows /\ verdict_map' = verdict_map
         \/ /\ Open(k)
            /\ \E f \in Entry :
                 /\ flows' = [flows EXCEPT ![k] = f]
                 /\ \/ f.state # "CLASSIFIED" /\ verdict_map' = verdict_map
                    \/ f.state \in {"CLASSIFIED", "GAVE_UP"} /\ PublishVerdict(k, f.app_id)
<1> USE AppAssumption
<1>1. CASE CreateFails(k) \/ CachedPacket(k)
  BY <1>1 DEF CreateFails, CachedPacket
<1>2. CASE Open(k) /\ (BarePacket(k) \/ NdpiAllocFails(k) \/ StillOpen(k))
  <2> DEFINE t == Touched(k)
  <2>1. t \in Entry /\ t.state = "NEW" BY <1>2, TouchedFacts
  <2> HIDE DEF t
  <2>2. GaveUp(t) \in Entry /\ GaveUp(t).state = "GAVE_UP" /\ GaveUp(t).app_id = Unknown
    BY <2>1 DEF GaveUp, Entry, FlowState
  <2>3. [t EXCEPT !.ndpi_flow = "alloc"] \in Entry
        /\ [t EXCEPT !.ndpi_flow = "alloc"].state = "NEW"
    BY <2>1 DEF Entry
  <2>4. CASE BarePacket(k)
    <3>1. CASE AtThreshold(k)
      <4>1. flows' = [flows EXCEPT ![k] = GaveUp(t)] /\ PublishVerdict(k, Unknown)
        BY <2>4, <3>1 DEF BarePacket, t
      <4> QED BY <1>2, <2>2, <4>1
    <3>2. CASE ~AtThreshold(k)
      <4>1. flows' = [flows EXCEPT ![k] = t] /\ verdict_map' = verdict_map
        BY <2>4, <3>2 DEF BarePacket, t
      <4> QED BY <1>2, <2>1, <4>1
    <3> QED BY <3>1, <3>2
  <2>5. CASE NdpiAllocFails(k)
    <3>1. flows' = [flows EXCEPT ![k] = GaveUp(t)] /\ verdict_map' = verdict_map
      BY <2>5 DEF NdpiAllocFails, t
    <3> QED BY <1>2, <2>2, <3>1
  <2>6. CASE StillOpen(k)
    <3>1. flows' = [flows EXCEPT ![k] = [t EXCEPT !.ndpi_flow = "alloc"]]
          /\ verdict_map' = verdict_map
      BY <2>6 DEF StillOpen, t
    <3> QED BY <1>2, <2>3, <3>1
  <2> QED BY <1>2, <2>4, <2>5, <2>6
<1>3. CASE Open(k) /\ \E f : Decision(k, f)
  <2>1. PICK f : Decision(k, f) BY <1>3
  <2> DEFINE g == [f EXCEPT !.ndpi_flow = "null"]
  <2>2. /\ g \in Entry /\ g.app_id = f.app_id /\ g.state = f.state
        /\ f.state \in {"CLASSIFIED", "GAVE_UP"}
    BY <2>1 DEF Decision, Entry
  <2>3. flows' = [flows EXCEPT ![k] = g] /\ PublishVerdict(k, f.app_id)
    BY <2>1 DEF Decision, Decide
  <2> HIDE DEF g
  <2> QED BY <1>3, <2>2, <2>3
<1>4. CASE GivesUp(k)
  BY <1>3, <1>4, DecidingWays DEF GivesUp
<1>5. CASE \E a, ai \in AppId, src \in Source :
             \/ Detected(k, a, src, ai)
             \/ Guessed(k, a, src, ai)
             \/ \E ml \in AppId : MlClassified(k, a, src, ai, ml)
  <2>1. Open(k) BY <1>5 DEF Detected, Guessed, MlClassified
  <2> QED BY <1>3, <1>5, <2>1, DecidingWays
<1>6. BarePacket(k) \/ NdpiAllocFails(k) \/ StillOpen(k) => Open(k)
  BY DEF BarePacket, NdpiAllocFails, StillOpen
<1> QED BY <1>1, <1>2, <1>4, <1>5, <1>6 DEF ndpi_engine_process

\* Publishing touches one key, and succeeds where there is room for every key.
LEMMA PublishFacts ==
  ASSUME Verdicts, NEW k \in Key, NEW a \in AppId, PublishVerdict(k, a)
  PROVE  /\ Verdicts'
         /\ \A j \in Key \ {k} : verdict_map'[j] = verdict_map[j]
         /\ verdict_map'[k] \in {verdict_map[k], a}
         /\ VerdictFd /\ Cardinality(Key) =< VerdictMapSize => verdict_map'[k] = a
<1> DEFINE used == {j \in Key : verdict_map[j] # NoVerdict}
<1>1. CASE ~VerdictFd
  BY <1>1 DEF PublishVerdict, Verdicts
<1>2. CASE VerdictFd
  <2>1. verdict_map' = VerdictUpdate(verdict_map, k, a) BY <1>2 DEF PublishVerdict
  <2>2. verdict_map' \in {[verdict_map EXCEPT ![k] = a], verdict_map}
    BY <2>1 DEF VerdictUpdate
  <2>3. /\ Verdicts' /\ \A j \in Key \ {k} : verdict_map'[j] = verdict_map[j]
        /\ verdict_map'[k] \in {verdict_map[k], a}
    BY <2>2 DEF Verdicts, VerdictMap
  <2>4. ASSUME Cardinality(Key) =< VerdictMapSize
        PROVE  verdict_map[k] # NoVerdict \/ Cardinality(used) < VerdictMapSize
    <3>1. IsFiniteSet(used) /\ Cardinality(used) =< Cardinality(Key)
          /\ (Cardinality(Key) = Cardinality(used) => used = Key)
      BY KeyAssumption, FS_Subset
    <3>2. Cardinality(used) \in Nat /\ Cardinality(Key) \in Nat
      BY <3>1, KeyAssumption, FS_CardinalityType
    <3>3. verdict_map[k] = NoVerdict => used # Key OBVIOUS
    <3> QED BY <2>4, <3>1, <3>2, <3>3, VerdictMapAssumption
  <2>5. ASSUME Cardinality(Key) =< VerdictMapSize PROVE verdict_map'[k] = a
    <3>1. verdict_map' = [verdict_map EXCEPT ![k] = a]
      BY <2>1, <2>4, <2>5 DEF VerdictUpdate
    <3> QED BY <3>1 DEF Verdicts, VerdictMap
  <2> QED BY <2>3, <2>5
<1> QED BY <1>1, <1>2

\* A step keeps the type of verdict_map, the outcome of decided flows and, where
\* there is room, the verdicts of classified flows.
Outcome(k) ==
  Terminal(flows[k].state) =>
    /\ flows'[k] = flows[k] \/ flows'[k].state = "ABSENT"
    /\ verdict_map'[k] = verdict_map[k]

LEMMA VerdictStep ==
  ASSUME Typed, Shape, Verdicts, [Call]_vars
  PROVE  /\ Verdicts'
         /\ \A k \in Key : Outcome(k)
         /\ VerdictFd /\ Cardinality(Key) =< VerdictMapSize /\ VerdictPublished
              => VerdictPublished'
<1>1. flows \in [Key -> Entry] BY DEF Typed
<1>2. CASE flows' = flows /\ verdict_map' = verdict_map
  BY <1>2 DEF Verdicts, Outcome, VerdictPublished
<1>3. ASSUME NEW k \in Key, NEW f \in Entry, Open(k), flows' = [flows EXCEPT ![k] = f],
             \/ f.state # "CLASSIFIED" /\ verdict_map' = verdict_map
             \/ PublishVerdict(k, f.app_id)
      PROVE  /\ Verdicts'
             /\ \A j \in Key : Outcome(j)
             /\ VerdictFd /\ Cardinality(Key) =< VerdictMapSize /\ VerdictPublished
                  => VerdictPublished'
  <2>1. flows'[k] = f /\ \A j \in Key \ {k} : flows'[j] = flows[j] BY <1>1, <1>3
  <2>2. f.app_id \in AppId BY DEF Entry
  <2>3. /\ Verdicts'
        /\ \A j \in Key \ {k} : verdict_map'[j] = verdict_map[j]
        /\ VerdictFd /\ Cardinality(Key) =< VerdictMapSize /\ f.state = "CLASSIFIED"
             => verdict_map'[k] = f.app_id
    BY <1>3, <2>2, PublishFacts DEF Verdicts
  <2>4. \A j \in Key : Outcome(j)
    BY <1>3, <2>1, <2>3 DEF Outcome, Open
  <2> QED BY <2>1, <2>3, <2>4 DEF VerdictPublished
<1>4. ASSUME NEW k \in Key, NEW d, ndpi_engine_process([key |-> k, data |-> d])
      PROVE  \/ flows' = flows /\ verdict_map' = verdict_map
             \/ \E f \in Entry :
                  /\ Open(k) /\ flows' = [flows EXCEPT ![k] = f]
                  /\ \/ f.state # "CLASSIFIED" /\ verdict_map' = verdict_map
                     \/ PublishVerdict(k, f.app_id)
  BY <1>4, Publishes
<1>5. CASE \E k \in Key, d \in {"bytes", "none"} : ndpi_engine_process([key |-> k, data |-> d])
  BY <1>2, <1>3, <1>4, <1>5
<1>6. CASE \E S \in SUBSET Key : ndpi_engine_age(S)
  <2>1. PICK S \in SUBSET Key : ndpi_engine_age(S) BY <1>6
  <2>2. verdict_map' = verdict_map
        /\ \A k \in Key : flows'[k] = IF k \in S THEN Absent ELSE flows[k]
    BY <2>1 DEF ndpi_engine_age
  <2>3. Absent.state = "ABSENT" BY DEF Absent
  <2> QED BY <2>2, <2>3 DEF Verdicts, Outcome, VerdictPublished
<1>7. CASE UNCHANGED vars
  BY <1>2, <1>7 DEF vars
<1> QED BY <1>5, <1>6, <1>7 DEF Call

LEMMA InitVerdicts == Init => Verdicts /\ VerdictPublished
BY DEF Init, Verdicts, VerdictMap, VerdictPublished, Absent

LEMMA OutcomesStay == Calls => OutcomeStable
<1>1. Typed /\ Shape /\ Verdicts /\ [Call]_vars => Verdicts' BY VerdictStep
<1>2. Typed /\ Shape /\ Verdicts /\ [Call]_vars =>
        [\A k \in Key : Terminal(flows[k].state) =>
           \/ flows'[k] = flows[k] /\ verdict_map'[k] = verdict_map[k]
           \/ flows'[k].state = "ABSENT" /\ verdict_map'[k] = verdict_map[k]]_vars
  BY VerdictStep DEF Outcome
<1> QED BY <1>1, <1>2, InitVerdicts, Invariant, PTL DEF Calls, IInv, OutcomeStable

\* Later packets of a decided flow change neither its entry nor its verdict.
THEOREM DecidedFlowsStay == Spec => OutcomeStable
BY OutcomesStay, SpecCalls

\* In ndpid, if verdict_map has room for every key, the verdict of a classified
\* flow is its application.
THEOREM VerdictsArePublished ==
  ASSUME VerdictFd, Cardinality(Key) =< VerdictMapSize
  PROVE  Spec => []VerdictPublished
<1>1. Typed /\ Shape /\ Verdicts /\ VerdictPublished /\ [Call]_vars
        => Verdicts' /\ VerdictPublished'
  BY VerdictStep
<1> QED BY <1>1, InitVerdicts, Invariant, SpecCalls, PTL DEF Calls, IInv
-----------------------------------------------------------------------------
(* No counter falls. *)

AtLeast(t, s) ==
  /\ s.total_created =< t.total_created /\ s.pkts_scanned =< t.pkts_scanned
  /\ s.pkts_cached =< t.pkts_cached /\ s.flows_classified =< t.flows_classified
  /\ s.flows_guessed =< t.flows_guessed /\ s.flows_ml_classified =< t.flows_ml_classified
  /\ s.flows_gave_up =< t.flows_gave_up

\* A scan only adds, and so does a guess.
LEMMA ScanGrows ==
  ASSUME Typed, NEW k \in Key
  PROVE  AtLeast(Scanned(k), stats)
<1> DEFINE t == Created(k)
           p == stats.pkts_scanned + 1
<1>1. stats \in Stats BY DEF Typed
<1>2. t \in Nat /\ p \in Nat /\ stats.total_created =< t /\ stats.pkts_scanned =< p
  BY <1>1, StatsFields DEF Created
<1>3. Scanned(k) = [stats EXCEPT !.total_created = t, !.pkts_scanned = p]
  BY DEF Scanned
<1> HIDE DEF t, p
<1> QED BY <1>1, <1>2, <1>3, StatsFields DEF Stats, AtLeast

LEMMA GuessGrows ==
  ASSUME NEW k \in Key, NEW guess \in AppId, Scanned(k) \in Stats
  PROVE  /\ AtLeast(GuessStats(k, guess), Scanned(k))
         /\ guess # Unknown =>
              GuessStats(k, guess).flows_guessed = Scanned(k).flows_guessed + 1
<1> DEFINE st == Scanned(k)
           g == st.flows_guessed + 1
           c == st.flows_classified + 1
<1>1. CASE guess = Unknown
  BY <1>1, StatsFields DEF GuessStats, AtLeast
<1>2. CASE guess # Unknown
  <2>1. GuessStats(k, guess) = [st EXCEPT !.flows_guessed = g, !.flows_classified = c]
    BY <1>2 DEF GuessStats
  <2>2. /\ g \in Nat /\ c \in Nat /\ g = st.flows_guessed + 1
        /\ st.flows_guessed =< g /\ st.flows_classified =< c
    BY StatsFields
  <2> HIDE DEF st, g, c
  <2>3. st \in Stats BY DEF st
  <2>4. AtLeast(GuessStats(k, guess), st) /\ GuessStats(k, guess).flows_guessed = g
    BY <2>1, <2>2, <2>3, StatsFields DEF Stats, AtLeast
  <2> QED BY <2>2, <2>4 DEF st
<1> QED BY <1>1, <1>2

\* The ML model takes back one guess, and only where one was just added.
LEMMA MlGrows ==
  ASSUME NEW s \in Stats, NEW st \in Stats, NEW guess \in AppId, AtLeast(st, s),
         guess # Unknown => s.flows_guessed + 1 =< st.flows_guessed
  PROVE  AtLeast(MlStats(st, guess), s)
<1> DEFINE g == st.flows_guessed - IF guess = Unknown THEN 0 ELSE 1
           m == st.flows_ml_classified + 1
           c == st.flows_classified + IF guess = Unknown THEN 1 ELSE 0
<1>1. MlStats(st, guess) = [st EXCEPT !.flows_guessed = g, !.flows_ml_classified = m,
                                      !.flows_classified = c]
  BY DEF MlStats
<1>2. s.flows_guessed =< g /\ s.flows_ml_classified =< m /\ s.flows_classified =< c
  BY StatsFields DEF AtLeast
<1> HIDE DEF g, m, c
<1> QED BY <1>1, <1>2, StatsFields DEF Stats, AtLeast

\* Each call leaves every scalar counter at least where it was.
LEMMA StatsGrow ==
  ASSUME Typed, NEW k \in Key, NEW d,
         ndpi_engine_process([key |-> k, data |-> d])
  PROVE  AtLeast(stats', stats)
<1> DEFINE t == Created(k)
           p == stats.pkts_cached + 1
           u == stats.flows_gave_up + 1
<1>1. /\ stats \in Stats /\ t \in Nat /\ p \in Nat /\ u \in Nat
      /\ stats.total_created =< t /\ stats.pkts_cached =< p /\ stats.flows_gave_up =< u
  BY StatsFields DEF Typed, Created
<1>2. Scanned(k) \in Stats /\ AtLeast(Scanned(k), stats)
  BY ScannedFacts, ScanGrows
<1>3. CASE CreateFails(k)
  BY <1>1, <1>3, StatsFields DEF CreateFails, AtLeast
<1>4. CASE CachedPacket(k)
  <2>1. stats' = [stats EXCEPT !.pkts_cached = p] BY <1>4 DEF CachedPacket
  <2> HIDE DEF p
  <2> QED BY <1>1, <2>1, StatsFields DEF Stats, AtLeast
<1>5. CASE BarePacket(k) \/ NdpiAllocFails(k)
  <2>1. \/ stats' = [stats EXCEPT !.total_created = t]
        \/ stats' = [stats EXCEPT !.total_created = t, !.flows_gave_up = u]
    BY <1>5 DEF BarePacket, NdpiAllocFails
  <2> HIDE DEF t, u
  <2>2. CASE stats' = [stats EXCEPT !.total_created = t]
    BY <1>1, <2>2, StatsFields DEF Stats, AtLeast
  <2>3. CASE stats' = [stats EXCEPT !.total_created = t, !.flows_gave_up = u]
    BY <1>1, <2>3, StatsFields DEF Stats, AtLeast
  <2> QED BY <2>1, <2>2, <2>3
<1>6. CASE StillOpen(k)
  BY <1>2, <1>6 DEF StillOpen
<1>7. CASE GivesUp(k)
  <2> DEFINE st == Scanned(k)
             v == st.flows_gave_up + 1
  <2>1. stats' = [st EXCEPT !.flows_gave_up = v] BY <1>7 DEF GivesUp
  <2>2. v \in Nat /\ st.flows_gave_up =< v BY <1>2, StatsFields
  <2>3. st \in Stats /\ AtLeast(st, stats) BY <1>2
  <2> HIDE DEF st, v
  <2> QED BY <1>1, <2>1, <2>2, <2>3, StatsFields DEF Stats, AtLeast
<1>8. ASSUME NEW a \in AppId, NEW ai \in AppId, NEW src \in Source, Detected(k, a, src, ai)
      PROVE  AtLeast(stats', stats)
  <2> DEFINE st == Scanned(k)
             v == st.flows_classified + 1
  <2>1. stats' = [st EXCEPT !.flows_classified = v] BY <1>8 DEF Detected
  <2>2. v \in Nat /\ st.flows_classified =< v BY <1>2, StatsFields
  <2>3. st \in Stats /\ AtLeast(st, stats) BY <1>2
  <2> HIDE DEF st, v
  <2> QED BY <1>1, <2>1, <2>2, <2>3, StatsFields DEF Stats, AtLeast
<1>9. ASSUME NEW a \in AppId
      PROVE  /\ GuessStats(k, a) \in Stats /\ AtLeast(GuessStats(k, a), stats)
             /\ a # Unknown => stats.flows_guessed + 1 =< GuessStats(k, a).flows_guessed
  <2>1. GuessStats(k, a) \in Stats BY GuessStatsFacts
  <2>2. /\ AtLeast(GuessStats(k, a), Scanned(k))
        /\ a # Unknown => GuessStats(k, a).flows_guessed = Scanned(k).flows_guessed + 1
    BY <1>2, GuessGrows
  <2> QED BY <1>1, <1>2, <2>1, <2>2, StatsFields DEF AtLeast
<1>10. ASSUME NEW a \in AppId, NEW ai \in AppId, NEW src \in Source, Guessed(k, a, src, ai)
       PROVE  AtLeast(stats', stats)
  BY <1>9, <1>10 DEF Guessed
<1>11. ASSUME NEW a \in AppId, NEW ai \in AppId, NEW src \in Source, NEW ml \in AppId,
              MlClassified(k, a, src, ai, ml)
       PROVE  AtLeast(stats', stats)
  BY <1>1, <1>9, <1>11, MlGrows DEF MlClassified
<1> QED
  BY <1>3, <1>4, <1>5, <1>6, <1>7, <1>8, <1>10, <1>11 DEF ndpi_engine_process

\* An open flow holds no credit, so a call can only add one.
LEMMA CreditsGrow ==
  ASSUME Typed, Shape, NEW k \in Key, NEW d,
         ndpi_engine_process([key |-> k, data |-> d]),
         NEW m \in Method, NEW a \in Countable
  PROVE  app_classified[m][a] =< app_classified'[m][a]
<1>1. app_classified[m][a] \in Int BY DEF Typed, Credits
<1>2. CASE app_classified' = app_classified
  BY <1>1, <1>2
<1>3. CASE Open(k) /\ \E f \in Entry : Effect(k, f)
  <2>1. PICK f \in Entry : Effect(k, f) BY <1>3
  <2>2. Has(flows[k], m, a) = 0 BY <1>3, TouchedFacts DEF Has, Method
  <2>3. app_classified'[m][a] = app_classified[m][a] + Has(f, m, a) - Has(flows[k], m, a)
    BY <2>1 DEF Effect
  <2> QED BY <1>1, <2>2, <2>3 DEF Has
<1>4. ~Open(k) => app_classified' = app_classified
  BY DEF ndpi_engine_process, CreateFails, CachedPacket, BarePacket, NdpiAllocFails,
         StillOpen, GivesUp, Detected, Guessed, MlClassified, counters
<1>5. Unmoved => app_classified' = app_classified
  BY DEF Unmoved
<1> QED BY <1>2, <1>3, <1>4, <1>5, ProcessEffect

\* No scalar counter and no credit falls, although guesses, credits and
\* classifications are taken back on the way (ndpi_engine.c:404-418, 538-552).
THEOREM NoCounterFalls == Spec => CountersNeverFall
<1> DEFINE Grows == /\ \A f \in DOMAIN stats : stats[f] =< stats'[f]
                    /\ \A m \in Method, a \in Countable :
                         app_classified[m][a] =< app_classified'[m][a]
<1>1. ASSUME Typed, Shape, Call PROVE Grows
  <2>1. stats \in Stats /\ app_classified \in Credits BY <1>1 DEF Typed
  <2>2. AtLeast(stats', stats) => \A f \in DOMAIN stats : stats[f] =< stats'[f]
    BY <2>1 DEF Stats, AtLeast
  <2>3. ASSUME NEW k \in Key, NEW d,
               ndpi_engine_process([key |-> k, data |-> d])
        PROVE  Grows
    BY <1>1, <2>2, <2>3, StatsGrow, CreditsGrow
  <2>4. CASE \E S \in SUBSET Key : ndpi_engine_age(S)
    <3>1. stats' = stats /\ app_classified' = app_classified BY <2>4 DEF ndpi_engine_age
    <3>2. AtLeast(stats, stats) BY <2>1, StatsFields DEF AtLeast
    <3>3. \A m \in Method, a \in Countable : app_classified[m][a] \in Int
      BY <2>1 DEF Credits
    <3> QED BY <2>2, <3>1, <3>2, <3>3
  <2> QED BY <1>1, <2>3, <2>4 DEF Call
<1>2. Typed /\ Shape /\ [Call]_vars => [Grows]_vars
  BY <1>1
<1> QED BY <1>2, Invariant, SpecCalls, PTL DEF Calls, IInv, CountersNeverFall
-----------------------------------------------------------------------------
(* What a packet brings to the application counters.  The packet is passed over,
   or added to its flow's entry, which becomes f; a decision credits the
   entry's packets to its application. *)

PassedOver ==
  /\ UNCHANGED <<flows, app_packets, app_flows>>
  /\ stats'.total_created = stats.total_created
  /\ \/ failed' = failed + 1 /\ stats'.pkts_cached = stats.pkts_cached
     \/ failed' = failed /\ stats'.pkts_cached = stats.pkts_cached + 1

Added(k, f) ==
  /\ Open(k) /\ f \in Entry /\ f.state \in {"NEW", "CLASSIFIED", "GAVE_UP"}
  /\ flows' = [flows EXCEPT ![k] = f]
  /\ f.pkt_count = Touched(k).pkt_count
  /\ f.state = "NEW" => ~AtThreshold(k)
  /\ \/ UNCHANGED <<app_packets, app_flows>>
     \/ /\ f.state # "NEW" /\ f.app_id \in Countable
        /\ app_packets' = [app_packets EXCEPT ![f.app_id] = @ + f.pkt_count]
        /\ app_flows' = [app_flows EXCEPT ![f.app_id] = @ + 1]
  /\ failed' = failed /\ stats'.pkts_cached = stats.pkts_cached
  /\ stats'.total_created = Created(k)

\* A scan counts the flow as created if it is new; a guess and the ML model leave
\* that and pkts_cached alone.
LEMMA CachedUntouched ==
  ASSUME Typed, NEW k \in Key, NEW guess \in AppId
  PROVE  LET ml == MlStats(GuessStats(k, guess), guess) IN
         /\ Scanned(k) \in Stats /\ Scanned(k).pkts_cached = stats.pkts_cached
         /\ Scanned(k).total_created = Created(k)
         /\ GuessStats(k, guess) \in Stats
         /\ GuessStats(k, guess).pkts_cached = stats.pkts_cached
         /\ GuessStats(k, guess).total_created = Created(k)
         /\ ml.pkts_cached = stats.pkts_cached /\ ml.total_created = Created(k)
<1> DEFINE Same(s, t) == s.pkts_cached = t.pkts_cached /\ s.total_created = t.total_created
<1>1. stats \in Stats /\ Scanned(k) \in Stats /\ GuessStats(k, guess) \in Stats
  BY ScannedFacts, GuessStatsFacts DEF Typed
<1>2. Scanned(k).pkts_cached = stats.pkts_cached /\ Scanned(k).total_created = Created(k)
  BY <1>1 DEF Scanned, Stats
<1>3. Same(GuessStats(k, guess), Scanned(k))
  <2> DEFINE st == Scanned(k)
  <2>1. st \in Stats BY <1>1
  <2>2. GuessStats(k, guess) = st \/
        GuessStats(k, guess) = [st EXCEPT !.flows_guessed = @ + 1, !.flows_classified = @ + 1]
    BY DEF GuessStats
  <2> HIDE DEF st
  <2>3. Same(GuessStats(k, guess), st) BY <2>1, <2>2 DEF Stats
  <2> QED BY <2>3 DEF st
<1>4. Same(MlStats(GuessStats(k, guess), guess), GuessStats(k, guess))
  <2> DEFINE st == GuessStats(k, guess)
  <2>1. st \in Stats BY <1>1
  <2> HIDE DEF st
  <2>2. Same(MlStats(st, guess), st) BY <2>1 DEF MlStats, Stats
  <2> QED BY <2>2 DEF st
<1> QED BY <1>1, <1>2, <1>3, <1>4

\* A decision adds the packet to the entry and credits the entry's packets.
LEMMA DecisionAdds ==
  ASSUME Typed, Shape, NEW k \in Key, Open(k), NEW f \in Entry,
         f.state \in {"CLASSIFIED", "GAVE_UP"}, f.pkt_count = Touched(k).pkt_count,
         Decide(k, f), stats'.pkts_cached = stats.pkts_cached,
         stats'.total_created = Created(k)
  PROVE  \E g \in Entry : Added(k, g)
<1> DEFINE g == [f EXCEPT !.ndpi_flow = "null"]
<1>1. /\ g \in Entry /\ g.state = f.state /\ g.app_id = f.app_id
      /\ g.pkt_count = f.pkt_count
  BY DEF Entry
<1>2. /\ flows' = [flows EXCEPT ![k] = g] /\ failed' = failed
      /\ \/ UNCHANGED <<app_packets, app_flows>>
         \/ /\ f.app_id \in Countable
            /\ app_packets' = [app_packets EXCEPT ![f.app_id] = @ + f.pkt_count]
            /\ app_flows' = [app_flows EXCEPT ![f.app_id] = @ + 1]
  BY DEF Decide
<1> HIDE DEF g
<1>3. Added(k, g)
  BY <1>1, <1>2 DEF Added
<1> QED BY <1>1, <1>3

\* What was added to an entry stays with it, whatever classifies it.
LEMMA ClassifiedCount ==
  ASSUME NEW f \in Entry, NEW m \in Method, NEW a \in AppId,
         NEW src \in Source, NEW ai \in AppId
  PROVE  Classified(f, m, a, src, ai).pkt_count = f.pkt_count
BY DEF Classified, Entry

\* Every packet is passed over or added to its flow.
LEMMA PacketAdds ==
  ASSUME Typed, Shape, NEW k \in Key, NEW d,
         ndpi_engine_process([key |-> k, data |-> d])
  PROVE  PassedOver \/ \E f \in Entry : Added(k, f)
<1> USE AppAssumption
<1>1. stats \in Stats BY DEF Typed
<1>2. CASE CreateFails(k)
  BY <1>2 DEF CreateFails, PassedOver, counters
<1>3. CASE CachedPacket(k)
  <2>1. /\ stats'.pkts_cached = stats.pkts_cached + 1
        /\ stats'.total_created = stats.total_created
    BY <1>1, <1>3 DEF CachedPacket, Stats
  <2> QED BY <1>3, <2>1 DEF CachedPacket, PassedOver, counters
<1>4. ASSUME Open(k) PROVE Touched(k) \in Entry /\ Touched(k).state = "NEW"
  BY <1>4, TouchedFacts
<1>5. ASSUME Open(k), NEW f, f \in {Touched(k), GaveUp(Touched(k))},
             flows' = [flows EXCEPT ![k] = f],
             f = Touched(k) => ~AtThreshold(k),
             \/ stats' = [stats EXCEPT !.total_created = Created(k)]
             \/ stats' = [stats EXCEPT !.total_created = Created(k), !.flows_gave_up = @ + 1],
             UNCHANGED <<counters, failed>>
      PROVE  \E g \in Entry : Added(k, g)
  <2>1. /\ f \in Entry /\ f.state \in {"NEW", "GAVE_UP"}
        /\ f.pkt_count = Touched(k).pkt_count
        /\ f.state = "NEW" => f = Touched(k)
    BY <1>4, <1>5 DEF GaveUp, Entry, FlowState
  <2>2. stats'.pkts_cached = stats.pkts_cached /\ stats'.total_created = Created(k)
    BY <1>1, <1>5 DEF Stats
  <2> QED BY <1>5, <2>1, <2>2 DEF Added, counters
<1>6. CASE BarePacket(k)
  <2>1. CASE AtThreshold(k)
    <3>1. GaveUp(Touched(k)) # Touched(k) BY <1>4, <1>6 DEF BarePacket, GaveUp, Entry
    <3> QED BY <1>5, <1>6, <2>1, <3>1 DEF BarePacket
  <2>2. CASE ~AtThreshold(k)
    BY <1>5, <1>6, <2>2 DEF BarePacket
  <2> QED BY <2>1, <2>2
<1>7. CASE NdpiAllocFails(k)
  <2>1. GaveUp(Touched(k)) # Touched(k) BY <1>4, <1>7 DEF NdpiAllocFails, GaveUp, Entry
  <2> QED BY <1>5, <1>7, <2>1 DEF NdpiAllocFails
<1>8. CASE StillOpen(k)
  <2> DEFINE f == [Touched(k) EXCEPT !.ndpi_flow = "alloc"]
  <2>1. f \in Entry /\ f.state = "NEW" /\ f.pkt_count = Touched(k).pkt_count
    BY <1>4, <1>8 DEF StillOpen, Entry
  <2>2. stats'.pkts_cached = stats.pkts_cached /\ stats'.total_created = Created(k)
    BY <1>8, AppAssumption, CachedUntouched DEF StillOpen
  <2>3. Open(k) /\ ~AtThreshold(k) /\ flows' = [flows EXCEPT ![k] = f]
        /\ UNCHANGED <<app_packets, app_flows, failed>>
    BY <1>8 DEF StillOpen, counters
  <2> HIDE DEF f
  <2>4. Added(k, f) BY <2>1, <2>2, <2>3 DEF Added
  <2> QED BY <2>1, <2>4
<1>9. CASE GivesUp(k)
  <2>1. Open(k) /\ Decide(k, GaveUp(Touched(k))) BY <1>9 DEF GivesUp
  <2>2. /\ GaveUp(Touched(k)) \in Entry /\ GaveUp(Touched(k)).state = "GAVE_UP"
        /\ GaveUp(Touched(k)).pkt_count = Touched(k).pkt_count
    BY <1>4, <2>1 DEF GaveUp, Entry, FlowState
  <2>3. stats'.pkts_cached = stats.pkts_cached /\ stats'.total_created = Created(k)
    <3>1. stats' = [Scanned(k) EXCEPT !.flows_gave_up = @ + 1] BY <1>9 DEF GivesUp
    <3>2. /\ Scanned(k) \in Stats /\ Scanned(k).pkts_cached = stats.pkts_cached
          /\ Scanned(k).total_created = Created(k)
      BY CachedUntouched
    <3> QED BY <3>1, <3>2 DEF Stats
  <2> QED BY <2>1, <2>2, <2>3, DecisionAdds
<1>10. ASSUME NEW a \in AppId, NEW ai \in AppId, NEW src \in Source, Detected(k, a, src, ai)
       PROVE  \E g \in Entry : Added(k, g)
  <2> DEFINE f == Classified(Touched(k), "ndpi", a, src, ai)
  <2>1. Open(k) /\ Decide(k, f) /\ "ndpi" \in Method BY <1>10 DEF Detected, Method
  <2>2. f \in Entry /\ f.state = "CLASSIFIED" /\ f.pkt_count = Touched(k).pkt_count
    BY <1>4, <2>1, ClassifiedFacts, ClassifiedCount
  <2>3. stats'.pkts_cached = stats.pkts_cached /\ stats'.total_created = Created(k)
    <3>1. stats' = [Scanned(k) EXCEPT !.flows_classified = @ + 1] BY <1>10 DEF Detected
    <3>2. /\ Scanned(k) \in Stats /\ Scanned(k).pkts_cached = stats.pkts_cached
          /\ Scanned(k).total_created = Created(k)
      BY CachedUntouched
    <3> QED BY <3>1, <3>2 DEF Stats
  <2> HIDE DEF f
  <2> QED BY <2>1, <2>2, <2>3, DecisionAdds
<1>11. ASSUME NEW a \in AppId, NEW ai \in AppId, NEW src \in Source, Open(k)
       PROVE  /\ AfterGuess(k, a, src, ai) \in Entry
              /\ AfterGuess(k, a, src, ai).pkt_count = Touched(k).pkt_count
              /\ a # Unknown => AfterGuess(k, a, src, ai).state = "CLASSIFIED"
  <2>1. "giveup" \in Method BY DEF Method
  <2> QED BY <1>4, <1>11, <2>1, ClassifiedFacts, ClassifiedCount DEF AfterGuess
<1>12. ASSUME NEW a \in AppId, NEW ai \in AppId, NEW src \in Source, Guessed(k, a, src, ai)
       PROVE  \E g \in Entry : Added(k, g)
  <2>1. Open(k) /\ Decide(k, AfterGuess(k, a, src, ai)) /\ a # Unknown
        /\ stats' = GuessStats(k, a)
    BY <1>12 DEF Guessed
  <2>2. stats'.pkts_cached = stats.pkts_cached /\ stats'.total_created = Created(k)
    BY <2>1, CachedUntouched
  <2> QED BY <1>11, <2>1, <2>2, DecisionAdds
<1>13. ASSUME NEW a \in AppId, NEW ai \in AppId, NEW src \in Source, NEW ml \in AppId,
              MlClassified(k, a, src, ai, ml)
       PROVE  \E g \in Entry : Added(k, g)
  <2> DEFINE f == AfterGuess(k, a, src, ai)
             h == [f EXCEPT !.state = "CLASSIFIED", !.app_id = ml, !.credit = "ml"]
  <2>1. Open(k) /\ Decide(k, h) /\ stats' = MlStats(GuessStats(k, a), a)
    BY <1>13 DEF MlClassified
  <2>2. f \in Entry /\ f.pkt_count = Touched(k).pkt_count BY <1>11, <2>1
  <2> HIDE DEF f
  <2>3. h \in Entry /\ h.state = "CLASSIFIED" /\ h.pkt_count = Touched(k).pkt_count
    BY <2>2 DEF Entry, FlowState, Method
  <2>4. stats'.pkts_cached = stats.pkts_cached /\ stats'.total_created = Created(k)
    BY <2>1, CachedUntouched
  <2> HIDE DEF h
  <2> QED BY <2>1, <2>3, <2>4, DecisionAdds
<1> QED
  BY <1>2, <1>3, <1>6, <1>7, <1>8, <1>9, <1>10, <1>12, <1>13 DEF ndpi_engine_process
-----------------------------------------------------------------------------
(* Types.  The credits and nflows are natural numbers because the invariants tie
   them to sets; the other counters are only added to. *)

Counts ==
  /\ app_packets \in [Countable -> Nat] /\ app_flows \in [Countable -> Nat]
  /\ events \in Nat /\ failed \in Nat

\* What expires adds up to a number.
LEMMA ExpiredTypes ==
  ASSUME Typed, NEW S \in SUBSET Key, NEW a
  PROVE  /\ ExpiredPackets(S, a) \in Nat /\ Cardinality(Of(S, a)) \in Nat
         /\ IsFiniteSet(S) /\ \A k \in S : flows[k] \in Entry /\ flows[k].pkt_count \in Nat
<1>1. IsFiniteSet(S) /\ IsFiniteSet(Of(S, a)) /\ Of(S, a) \subseteq S
  BY KeyAssumption, FS_Subset DEF Of
<1>2. \A k \in S : flows[k] \in Entry BY DEF Typed
<1>3. \A k \in S : flows[k].pkt_count \in Nat BY <1>2 DEF Entry, U8
<1> DEFINE F == [k \in Of(S, a) |-> flows[k].pkt_count]
<1>4. DOMAIN F = Of(S, a) /\ \A k \in Of(S, a) : F[k] \in Nat BY <1>1, <1>3
<1>5. ExpiredPackets(S, a) = SumFunctionOnSet(F, DOMAIN F)
  BY DEF ExpiredPackets, SumFunction
<1> HIDE DEF F
<1>6. ExpiredPackets(S, a) \in Nat BY <1>1, <1>4, <1>5, SumWithout
<1> QED BY <1>1, <1>2, <1>3, <1>6, FS_CardinalityType

LEMMA NextCounts == Typed /\ Shape /\ Counts /\ [Call]_vars => Counts'
<1> SUFFICES ASSUME Typed, Shape, Counts, [Call]_vars PROVE Counts'
  OBVIOUS
<1>1. ASSUME NEW k \in Key, NEW d, ndpi_engine_process([key |-> k, data |-> d])
      PROVE  Counts'
  <2>1. events' = events + 1 BY <1>1 DEF ndpi_engine_process
  <2>2. CASE PassedOver
    BY <2>1, <2>2 DEF PassedOver, Counts
  <2>3. CASE \E f \in Entry : Added(k, f)
    <3>1. PICK f \in Entry : Added(k, f) BY <2>3
    <3>2. f.pkt_count \in Nat BY DEF Entry, U8
    <3> QED BY <2>1, <3>1, <3>2 DEF Added, Counts
  <2> QED BY <1>1, <2>2, <2>3, PacketAdds
<1>2. ASSUME NEW S \in SUBSET Key, ndpi_engine_age(S) PROVE Counts'
  <2>1. \A a \in Countable : ExpiredPackets(S, a) \in Nat /\ Cardinality(Of(S, a)) \in Nat
    BY ExpiredTypes
  <2>2. /\ app_packets' = [a \in Countable |-> app_packets[a] + ExpiredPackets(S, a)]
        /\ app_flows' = [a \in Countable |-> app_flows[a] + Cardinality(Of(S, a))]
        /\ events' = events /\ failed' = failed
    BY <1>2 DEF ndpi_engine_age
  <2> QED BY <2>1, <2>2 DEF Counts
<1>3. CASE UNCHANGED vars
  BY <1>3 DEF vars, counters, Counts
<1> QED BY <1>1, <1>2, <1>3 DEF Call

LEMMA CountsInvariant == Calls => [](IInv /\ Counts /\ Verdicts)
<1>1. Init => Counts BY DEF Init, Counts, Zero
<1>2. Typed /\ Shape /\ Counts /\ [Call]_vars => Counts' BY NextCounts
<1>3. Typed /\ Shape /\ Verdicts /\ [Call]_vars => Verdicts' BY VerdictStep
<1> QED BY <1>1, <1>2, <1>3, InitVerdicts, Invariant, PTL DEF Calls, IInv

LEMMA TypesFromCounts == IInv /\ Counts /\ Verdicts => TypeOK
<1> SUFFICES ASSUME IInv, Counts, Verdicts PROVE TypeOK
  OBVIOUS
<1>1. Typed BY DEF IInv
<1>2. nflows \in Nat
  <2>1. nflows = Cardinality(Holding) BY DEF IInv, NoLeak, Holding
  <2>2. IsFiniteSet(Holding) BY KeyAssumption, FS_Subset DEF Holding
  <2> QED BY <2>1, <2>2, FS_CardinalityType
<1>3. app_classified \in CreditCounts
  <2>1. ASSUME NEW m \in Method, NEW a \in Countable PROVE app_classified[m][a] \in Nat
    <3>1. app_classified[m][a] = expired_credit[m][a] + Cardinality(Credited_to(m, a))
      BY DEF IInv, CreditConservation, Credited_to
    <3>2. expired_credit[m][a] \in Nat BY <1>1 DEF Typed, CreditCounts
    <3>3. IsFiniteSet(Credited_to(m, a)) BY KeyAssumption, FS_Subset DEF Credited_to
    <3>4. Cardinality(Credited_to(m, a)) \in Nat BY <3>3, FS_CardinalityType
    <3> QED BY <3>1, <3>2, <3>4
  <2> QED BY <1>1, <2>1 DEF Typed, Credits, CreditCounts
<1> QED BY <1>1, <1>2, <1>3 DEF Typed, Counts, Verdicts, TypeOK

\* No unsigned counter of the engine goes below zero, although guesses, credits and
\* classifications are taken back by subtraction.
THEOREM NoCounterUnderflows == Spec => []TypeOK
BY CountsInvariant, SpecCalls, TypesFromCounts, PTL
-----------------------------------------------------------------------------
(* What a packet does to the scalar counters and to the credits.  c is who gets the
   credit of the flow, if anybody does, and a is the application. *)

\* What is left of flows_classified without the guesses and the ML model's.
Left(st) == st.flows_classified - st.flows_guessed - st.flows_ml_classified

\* From st to t the scalar counters have paid for a credit of c.
Pays(st, t, c) ==
  /\ Left(t) >= Left(st) + IF c = "ndpi" THEN 1 ELSE 0
  /\ t.flows_guessed >= st.flows_guessed + IF c = "giveup" THEN 1 ELSE 0
  /\ t.flows_ml_classified >= st.flows_ml_classified + IF c = "ml" THEN 1 ELSE 0

Paid(c, a) ==
  /\ c \in Method \cup {"none"} /\ a \in AppId
  /\ Pays(stats, stats', c)
  /\ \A m \in Method, b \in Countable :
       app_classified'[m][b] = app_classified[m][b] + IF m = c /\ b = a THEN 1 ELSE 0

\* A scan pays for nothing.  The ML model is paid for whether or not there was a guess.
LEMMA Prices ==
  ASSUME Typed, NEW k \in Key, NEW guess \in AppId
  PROVE  /\ Scanned(k) \in Stats
         /\ Scanned(k).flows_classified = stats.flows_classified
         /\ Scanned(k).flows_guessed = stats.flows_guessed
         /\ Scanned(k).flows_ml_classified = stats.flows_ml_classified
         /\ Pays(stats, MlStats(GuessStats(k, guess), guess), "ml")
         /\ guess # Unknown =>
              \A c \in {"giveup", "sni", "dns"} : Pays(stats, GuessStats(k, guess), c)
<1>1. stats \in Stats /\ Scanned(k) \in Stats /\ GuessStats(k, guess) \in Stats
  BY ScannedFacts, GuessStatsFacts DEF Typed
<1>2. /\ Scanned(k).flows_classified = stats.flows_classified
      /\ Scanned(k).flows_guessed = stats.flows_guessed
      /\ Scanned(k).flows_ml_classified = stats.flows_ml_classified
  BY <1>1 DEF Scanned, Stats
<1> DEFINE n == IF guess = Unknown THEN 0 ELSE 1
           g == GuessStats(k, guess)
           u == MlStats(g, guess)
<1>3. /\ g.flows_classified = stats.flows_classified + n
      /\ g.flows_guessed = stats.flows_guessed + n
      /\ g.flows_ml_classified = stats.flows_ml_classified
  <2> DEFINE st == Scanned(k)
  <2>1. g = IF guess = Unknown THEN st
            ELSE [st EXCEPT !.flows_guessed = @ + 1, !.flows_classified = @ + 1]
    BY DEF GuessStats
  <2>2. st \in Stats /\ st.flows_classified \in Nat /\ st.flows_guessed \in Nat
    BY <1>1, StatsFields
  <2> HIDE DEF st, g
  <2>3. /\ g.flows_classified = st.flows_classified + n
        /\ g.flows_guessed = st.flows_guessed + n
        /\ g.flows_ml_classified = st.flows_ml_classified
    BY <2>1, <2>2 DEF Stats
  <2> QED BY <1>2, <2>3 DEF st
<1>4. /\ u.flows_classified = g.flows_classified + 1 - n
      /\ u.flows_guessed = g.flows_guessed - n
      /\ u.flows_ml_classified = g.flows_ml_classified + 1
  <2>1. g \in Stats /\ g.flows_classified \in Nat /\ g.flows_guessed \in Nat
    BY <1>1, StatsFields
  <2> HIDE DEF g
  <2> QED BY <2>1 DEF MlStats, Stats
<1>5. /\ stats.flows_classified \in Nat /\ stats.flows_guessed \in Nat
      /\ stats.flows_ml_classified \in Nat /\ n \in {0, 1}
  BY <1>1, StatsFields
<1>6. guess # Unknown => n = 1
  OBVIOUS
<1> HIDE DEF u, g, n
<1>7. Pays(stats, u, "ml")
  BY <1>3, <1>4, <1>5 DEF Pays, Left
<1>8. guess # Unknown => \A c \in {"giveup", "sni", "dns"} : Pays(stats, g, c)
  BY <1>3, <1>5, <1>6 DEF Pays, Left
<1> QED BY <1>1, <1>2, <1>7, <1>8 DEF u, g

\* Every packet pays for the credit it gives.
LEMMA PacketPays ==
  ASSUME Typed, Shape, NEW k \in Key, NEW d,
         ndpi_engine_process([key |-> k, data |-> d])
  PROVE  \E c, a : Paid(c, a)
<1> USE AppAssumption
<1>1. stats \in Stats /\ app_classified \in Credits
      /\ \A m \in Method, a \in Countable : app_classified[m][a] \in Int
  BY DEF Typed, Credits
<1>2. Scanned(k) \in Stats BY Prices
<1>3. ASSUME stats' \in Stats, app_classified' = app_classified,
             stats'.flows_classified = stats.flows_classified,
             stats'.flows_guessed = stats.flows_guessed,
             stats'.flows_ml_classified = stats.flows_ml_classified
      PROVE  Paid("none", Unknown)
  BY <1>1, <1>3, StatsFields DEF Paid, Pays, Left, Method
<1>4. CASE CreateFails(k)
  BY <1>1, <1>3, <1>4 DEF CreateFails, counters
<1>5. CASE CachedPacket(k) \/ BarePacket(k) \/ NdpiAllocFails(k)
  <2>1. /\ \/ stats' = [stats EXCEPT !.pkts_cached = @ + 1]
           \/ stats' = [stats EXCEPT !.total_created = Created(k)]
           \/ stats' = [stats EXCEPT !.total_created = Created(k), !.flows_gave_up = @ + 1]
        /\ app_classified' = app_classified
    BY <1>5 DEF CachedPacket, BarePacket, NdpiAllocFails, counters
  <2>2. Created(k) \in Nat BY ScannedFacts
  <2> DEFINE t == Created(k)
             p == stats.pkts_cached + 1
             u == stats.flows_gave_up + 1
  <2>3. t \in Nat /\ p \in Nat /\ u \in Nat BY <1>1, <2>2, StatsFields
  <2>4. \/ stats' = [stats EXCEPT !.pkts_cached = p]
        \/ stats' = [stats EXCEPT !.total_created = t]
        \/ stats' = [stats EXCEPT !.total_created = t, !.flows_gave_up = u]
    BY <2>1
  <2> HIDE DEF t, p, u
  <2>5. /\ stats' \in Stats
        /\ stats'.flows_classified = stats.flows_classified
        /\ stats'.flows_guessed = stats.flows_guessed
        /\ stats'.flows_ml_classified = stats.flows_ml_classified
    <3>1. CASE stats' = [stats EXCEPT !.pkts_cached = p]
      BY <1>1, <2>3, <3>1 DEF Stats
    <3>2. CASE stats' = [stats EXCEPT !.total_created = t]
      BY <1>1, <2>3, <3>2 DEF Stats
    <3>3. CASE stats' = [stats EXCEPT !.total_created = t, !.flows_gave_up = u]
      BY <1>1, <2>3, <3>3 DEF Stats
    <3> QED BY <2>4, <3>1, <3>2, <3>3
  <2> QED BY <1>3, <2>1, <2>5
<1>6. CASE StillOpen(k)
  <2>1. stats' = Scanned(k) /\ app_classified' = app_classified
    BY <1>6 DEF StillOpen, counters
  <2> QED BY <1>3, <2>1, Prices
<1>7. CASE GivesUp(k)
  <2>1. stats' = [Scanned(k) EXCEPT !.flows_gave_up = @ + 1] /\ app_classified' = app_classified
    BY <1>7 DEF GivesUp
  <2>2. /\ stats' \in Stats
        /\ stats'.flows_classified = Scanned(k).flows_classified
        /\ stats'.flows_guessed = Scanned(k).flows_guessed
        /\ stats'.flows_ml_classified = Scanned(k).flows_ml_classified
    BY <1>2, <2>1 DEF Stats
  <2> QED BY <1>3, <2>1, <2>2, Prices
<1>8. ASSUME NEW a \in AppId, NEW ai \in AppId, NEW src \in Source, Detected(k, a, src, ai)
      PROVE  \E c, b : Paid(c, b)
  <2> DEFINE f == Classified(Touched(k), "ndpi", a, src, ai)
  <2>1. /\ Open(k) /\ "ndpi" \in Method
        /\ stats' = [Scanned(k) EXCEPT !.flows_classified = @ + 1]
        /\ app_classified' = Credited(app_classified, "ndpi", a, src, ai)
    BY <1>8 DEF Detected, Method
  <2>2. Touched(k) \in Entry BY <2>1, TouchedFacts
  <2>3. f \in Entry /\ f.credit \in {"ndpi", "sni", "dns"}
        /\ \A m \in Method, b \in Countable :
             app_classified'[m][b] = app_classified[m][b] + Has(f, m, b)
    <3>1. f \in Entry /\ f.credit \in {"ndpi", "sni", "dns"}
      BY <2>1, <2>2, ClassifiedFacts
    <3>2. \A m \in Method, b \in Countable :
            Credited(app_classified, "ndpi", a, src, ai)[m][b]
              = app_classified[m][b] + Has(f, m, b)
      BY <1>1, <2>1, <2>2, CreditedValue
    <3> QED BY <2>1, <3>1, <3>2
  <2> HIDE DEF f
  <2>4. /\ stats'.flows_classified = Scanned(k).flows_classified + 1
        /\ stats'.flows_guessed = Scanned(k).flows_guessed
        /\ stats'.flows_ml_classified = Scanned(k).flows_ml_classified
    BY <1>2, <2>1 DEF Stats
  <2>5. Pays(stats, stats', f.credit)
    BY <1>1, <2>3, <2>4, Prices, StatsFields DEF Pays, Left
  <2>6. f.app_id \in AppId /\ f.credit \in Method BY <2>3 DEF Entry, Method
  <2>7. Paid(f.credit, f.app_id) BY <2>3, <2>5, <2>6 DEF Paid, Has
  <2> QED BY <2>7
<1>9. ASSUME NEW a \in AppId, NEW ai \in AppId, NEW src \in Source, Guessed(k, a, src, ai)
      PROVE  \E c, b : Paid(c, b)
  <2> DEFINE f == AfterGuess(k, a, src, ai)
  <2>1. /\ Open(k) /\ a # Unknown /\ stats' = GuessStats(k, a)
        /\ app_classified' = GuessCredited(a, src, ai)
    BY <1>9 DEF Guessed
  <2>2. /\ f \in Entry
        /\ \A m \in Method, b \in Countable :
             app_classified'[m][b] = app_classified[m][b] + Has(f, m, b)
    BY <2>1, GuessFacts
  <2>3. f.credit \in {"giveup", "sni", "dns"}
    <3>1. Touched(k) \in Entry /\ "giveup" \in Method BY <2>1, TouchedFacts DEF Method
    <3>2. f = Classified(Touched(k), "giveup", a, src, ai) BY <2>1 DEF AfterGuess
    <3> QED BY <3>1, <3>2, ClassifiedFacts
  <2>4. Pays(stats, stats', f.credit) BY <2>1, <2>3, Prices
  <2> HIDE DEF f
  <2>5. f.app_id \in AppId /\ f.credit \in Method BY <2>2, <2>3 DEF Entry, Method
  <2>6. Paid(f.credit, f.app_id) BY <2>2, <2>4, <2>5 DEF Paid, Has
  <2> QED BY <2>6
<1>10. ASSUME NEW a \in AppId, NEW ai \in AppId, NEW src \in Source, NEW ml \in AppId,
              MlClassified(k, a, src, ai, ml)
       PROVE  \E c, b : Paid(c, b)
  <2> DEFINE f == AfterGuess(k, a, src, ai)
             cls == GuessCredited(a, src, ai)
             undone == Undone(cls, f)
  <2>1. /\ Open(k) /\ stats' = MlStats(GuessStats(k, a), a)
        /\ app_classified' = Bump(undone, "ml", ml, 1)
    BY <1>10 DEF MlClassified
  <2>2. /\ f \in Entry /\ cls \in Credits /\ f.credit \in {"giveup", "sni", "dns", "none"}
        /\ \A m \in Method, b \in Countable :
             cls[m][b] = app_classified[m][b] + Has(f, m, b)
    BY <2>1, GuessFacts
  <2> HIDE DEF f, cls
  <2>3. /\ undone \in Credits
        /\ \A m \in Method, b \in Countable : undone[m][b] = cls[m][b] - Has(f, m, b)
    BY <2>2, UndoneValue
  <2>4. "ml" \in Method /\ 1 \in Int BY DEF Method
  <2> HIDE DEF undone
  <2>5. \A m \in Method, b \in Countable :
          app_classified'[m][b] = undone[m][b] + IF m = "ml" /\ b = ml THEN 1 ELSE 0
    <3>1. undone \in Credits BY <2>3
    <3>2. /\ Bump(undone, "ml", ml, 1) \in Credits
          /\ \A m \in Method, b \in Countable :
               Bump(undone, "ml", ml, 1)[m][b] =
                 undone[m][b] + IF m = "ml" /\ b = ml THEN 1 ELSE 0
      BY <2>4, <3>1, BumpValue
    <3> QED BY <2>1, <3>2
  <2>6. \A m \in Method, b \in Countable : undone[m][b] = app_classified[m][b]
    <3>1. \A m \in Method, b \in Countable : Has(f, m, b) \in Int BY DEF Has
    <3> QED BY <1>1, <2>2, <2>3, <3>1
  <2>7. Pays(stats, stats', "ml") BY <2>1, Prices
  <2>8. Paid("ml", ml) BY <2>4, <2>5, <2>6, <2>7 DEF Paid
  <2> QED BY <2>8
<1> QED
  BY <1>3, <1>4, <1>5, <1>6, <1>7, <1>8, <1>9, <1>10 DEF ndpi_engine_process

\* What is paid for adds at most one to its method's total.
LEMMA TotalMoves ==
  ASSUME app_classified \in CreditCounts, app_classified' \in CreditCounts,
         NEW c, NEW a, Paid(c, a), NEW m \in Method
  PROVE  /\ Total(m) \in Nat /\ Total(m)' \in Nat
         /\ Total(m)' =< Total(m) + IF c = m THEN 1 ELSE 0
<1> DEFINE F == app_classified[m]
           G == app_classified'[m]
<1>1. F \in [Countable -> Nat] /\ G \in [Countable -> Nat] BY DEF CreditCounts
<1>2. Total(m) = SumFunction(F) /\ Total(m)' = SumFunction(G) BY DEF Total
<1>3. \A b \in Countable : G[b] = F[b] + IF m = c /\ b = a THEN 1 ELSE 0 BY DEF Paid
<1>4. IsFiniteSet(Countable) /\ Unknown \in Countable BY AppAssumption, FS_Subset
<1> HIDE DEF F, G
<1>5. CASE c = m /\ a \in Countable
  <2>1. \A b \in Countable \ {a} : G[b] = F[b] BY <1>1, <1>3
  <2>2. G[a] = F[a] + 1 /\ F[a] \in Nat BY <1>1, <1>3, <1>5
  <2>3. /\ SumFunction(F) \in Nat /\ SumFunction(G) \in Nat
        /\ SumFunction(G) = SumFunction(F) - F[a] + G[a]
    BY <1>1, <1>4, <1>5, <2>1, SumUpdate
  <2> QED BY <1>2, <1>5, <2>2, <2>3
<1>6. CASE ~(c = m /\ a \in Countable)
  <2>1. \A b \in Countable : G[b] = F[b] BY <1>1, <1>3, <1>6
  <2>2. SumFunction(F) \in Nat /\ SumFunction(G) = SumFunction(F)
    <3>1. G = F BY <1>1, <2>1
    <3>2. SumFunction(F) \in Nat BY <1>1, <1>4, SumUpdate
    <3> QED BY <3>1, <3>2
  <2> QED BY <1>2, <2>2
<1> QED BY <1>5, <1>6

\* The scalar counters cover the totals.
LEMMA NextAgree ==
  ASSUME IInv, TypeOK, TypeOK', StatsAgree, [Call]_vars
  PROVE  StatsAgree'
<1>1. /\ app_classified \in CreditCounts /\ app_classified' \in CreditCounts
      /\ stats \in Stats /\ stats' \in Stats
  BY DEF TypeOK
<1>2. ASSUME NEW k \in Key, NEW d, ndpi_engine_process([key |-> k, data |-> d])
      PROVE  StatsAgree'
  <2>1. PICK c, a : Paid(c, a) BY <1>2, PacketPays DEF IInv
  <2>2. Pays(stats, stats', c) BY <2>1 DEF Paid
  <2>3. "ndpi" \in Method /\ "giveup" \in Method /\ "ml" \in Method BY DEF Method
  <2>4. /\ Total("ndpi") \in Nat /\ Total("ndpi")' \in Nat
        /\ Total("ndpi")' =< Total("ndpi") + IF c = "ndpi" THEN 1 ELSE 0
    BY <1>1, <2>1, <2>3, TotalMoves
  <2>5. /\ Total("giveup") \in Nat /\ Total("giveup")' \in Nat
        /\ Total("giveup")' =< Total("giveup") + IF c = "giveup" THEN 1 ELSE 0
    BY <1>1, <2>1, <2>3, TotalMoves
  <2>6. /\ Total("ml") \in Nat /\ Total("ml")' \in Nat
        /\ Total("ml")' =< Total("ml") + IF c = "ml" THEN 1 ELSE 0
    BY <1>1, <2>1, <2>3, TotalMoves
  <2>7. /\ stats.flows_classified \in Nat /\ stats'.flows_classified \in Nat
        /\ stats.flows_guessed \in Nat /\ stats'.flows_guessed \in Nat
        /\ stats.flows_ml_classified \in Nat /\ stats'.flows_ml_classified \in Nat
    BY <1>1, StatsFields
  <2>8. Left(stats) \in Int /\ Left(stats') \in Int BY <2>7 DEF Left
  <2>9. /\ Total("ndpi") =< Left(stats) /\ Total("giveup") =< stats.flows_guessed
        /\ Total("ml") =< stats.flows_ml_classified
    BY DEF StatsAgree, Left
  <2>10. Total("ndpi")' =< Left(stats') BY <2>2, <2>4, <2>8, <2>9 DEF Pays
  <2>11. Total("giveup")' =< stats'.flows_guessed BY <2>2, <2>5, <2>7, <2>9 DEF Pays
  <2>12. Total("ml")' =< stats'.flows_ml_classified BY <2>2, <2>6, <2>7, <2>9 DEF Pays
  <2> QED BY <2>10, <2>11, <2>12 DEF StatsAgree, Left
<1>3. CASE UNCHANGED <<stats, app_classified>>
  BY <1>3 DEF StatsAgree, Total
<1> QED BY <1>2, <1>3 DEF Call, ndpi_engine_age, vars, counters

\* The scalar counters cover the per-application counts, however often a guess or a
\* credit is moved on: what test_ml.py computes from them is never too small.
THEOREM ScalarsCoverCredits == Spec => []StatsAgree
<1>1. Init => StatsAgree
  <2> SUFFICES ASSUME Init PROVE StatsAgree
    OBVIOUS
  <2>1. \A m \in Method : Total(m) = SumFunction([a \in Countable |-> 0])
    BY DEF Init, Zero, Total
  <2>2. IsFiniteSet(Countable) BY AppAssumption, FS_Subset
  <2>3. \A m \in Method : Total(m) = 0 BY <2>1, <2>2, SumOfZeros
  <2>4. Total("ndpi") = 0 /\ Total("giveup") = 0 /\ Total("ml") = 0 BY <2>3 DEF Method
  <2> QED BY <2>4 DEF Init, StatsAgree
<1>2. IInv /\ TypeOK /\ TypeOK' /\ StatsAgree /\ [Call]_vars => StatsAgree'
  BY NextAgree
<1> QED BY <1>1, <1>2, CountsInvariant, TypesFromCounts, SpecCalls, PTL DEF Calls
-----------------------------------------------------------------------------
(* The invariant behind PacketsCredited: a packet of an undecided flow may still be
   credited twice, by a verdict and by the expiry, one of a decided flow once. *)

Accounted == events - failed - stats.pkts_cached

Due(k) == IF flows[k].state = "NEW" THEN 2 * flows[k].pkt_count ELSE flows[k].pkt_count

\* The count of an undecided flow has not wrapped.
BelowThreshold ==
  \A k \in Key : flows[k].state = "NEW" => flows[k].pkt_count < FLOW_MAX_CLASSIFY_PKTS

CreditBound ==
  /\ Accounted =< AppPackets + LivePackets
  /\ AppPackets + SumFunction([k \in Key |-> Due(k)]) =< 2 * Accounted

Bounds == BelowThreshold /\ CreditBound

\* The terms of the sums.
Packets == [k \in Key |-> flows[k].pkt_count]
Dues == [k \in Key |-> Due(k)]

SumsTyped ==
  /\ Packets \in [Key -> Nat] /\ Dues \in [Key -> Nat]
  /\ \A k \in Key : Packets[k] = flows[k].pkt_count /\ Dues[k] = Due(k)
  /\ LivePackets = SumFunction(Packets) /\ SumFunction(Packets) \in Nat
  /\ SumFunction(Dues) \in Nat
  /\ AppPackets \in Nat
  /\ Accounted \in Int
  /\ CreditBound <=> /\ Accounted =< AppPackets + SumFunction(Packets)
                     /\ AppPackets + SumFunction(Dues) =< 2 * Accounted

LEMMA SumTypes == Typed /\ Counts => SumsTyped
<1> SUFFICES ASSUME Typed, Counts PROVE SumsTyped
  OBVIOUS
<1>1. \A k \in Key : flows[k].pkt_count \in Nat
  <2>1. \A k \in Key : flows[k] \in Entry BY DEF Typed
  <2> QED BY <2>1 DEF Entry, U8
<1>2. \A k \in Key : Due(k) \in Nat BY <1>1 DEF Due
<1>3. /\ Packets \in [Key -> Nat] /\ Dues \in [Key -> Nat]
      /\ \A k \in Key : Packets[k] = flows[k].pkt_count /\ Dues[k] = Due(k)
  BY <1>1, <1>2 DEF Packets, Dues
<1>4. LivePackets = SumFunction(Packets) BY DEF LivePackets, Packets
<1>5. DOMAIN Packets = Key /\ DOMAIN Dues = Key BY <1>3
<1>6. SumFunction(Packets) \in Nat /\ SumFunction(Dues) \in Nat
  BY <1>3, <1>5, KeyAssumption, SumWithout DEF SumFunction
<1>7. AppPackets \in Nat
  <2>1. IsFiniteSet(Countable) /\ DOMAIN app_packets = Countable
        /\ \A a \in Countable : app_packets[a] \in Nat
    BY AppAssumption, FS_Subset DEF Counts
  <2> QED BY <2>1, SumWithout DEF AppPackets, SumFunction
<1>8. Accounted \in Int BY StatsFields DEF Typed, Counts, Accounted
<1>9. CreditBound <=> /\ Accounted =< AppPackets + SumFunction(Packets)
                      /\ AppPackets + SumFunction(Dues) =< 2 * Accounted
  BY <1>4 DEF CreditBound, Dues
<1> QED BY <1>3, <1>4, <1>6, <1>7, <1>8, <1>9 DEF SumsTyped

LEMMA SumTypesNext == Typed' /\ Counts' => SumsTyped'
BY SumTypes, PTL

\* A packet raises what is owed by two at most, and what is held by one at least.
LEMMA PacketBounds ==
  ASSUME Typed, Shape, Counts, Typed', Counts', Bounds, NEW k \in Key, NEW d,
         ndpi_engine_process([key |-> k, data |-> d])
  PROVE  Bounds'
<1>1. SumsTyped /\ SumsTyped' BY SumTypes, SumTypesNext
<1>2. /\ Packets \in [Key -> Nat] /\ Dues \in [Key -> Nat]
      /\ Packets' \in [Key -> Nat] /\ Dues' \in [Key -> Nat]
      /\ SumFunction(Packets) \in Nat /\ SumFunction(Dues) \in Nat
      /\ SumFunction(Packets') \in Nat /\ SumFunction(Dues') \in Nat
      /\ AppPackets \in Nat /\ AppPackets' \in Nat /\ Accounted \in Int /\ Accounted' \in Int
  BY <1>1 DEF SumsTyped
<1>3. /\ Accounted =< AppPackets + SumFunction(Packets)
      /\ AppPackets + SumFunction(Dues) =< 2 * Accounted
  BY <1>1 DEF SumsTyped, Bounds
<1>4. (/\ Accounted' =< AppPackets' + SumFunction(Packets')
       /\ AppPackets' + SumFunction(Dues') =< 2 * Accounted') => CreditBound'
  BY <1>1 DEF SumsTyped
<1>5. events' = events + 1 BY DEF ndpi_engine_process
<1>6. /\ events \in Nat /\ failed \in Nat /\ stats.pkts_cached \in Nat
      /\ failed' \in Nat /\ stats'.pkts_cached \in Nat
  BY StatsFields DEF Counts, Typed
<1>7. CASE PassedOver
  <2>1. Accounted' = Accounted BY <1>5, <1>6, <1>7 DEF PassedOver, Accounted
  <2>2. UNCHANGED <<flows, app_packets>> BY <1>7 DEF PassedOver
  <2>3. Packets' = Packets /\ Dues' = Dues /\ AppPackets' = AppPackets
    BY <2>2 DEF Packets, Dues, Due, AppPackets
  <2>4. BelowThreshold' BY <2>2 DEF Bounds, BelowThreshold
  <2> QED BY <1>3, <1>4, <2>1, <2>3, <2>4 DEF Bounds
<1>8. CASE \E f \in Entry : Added(k, f)
  <2>1. PICK f \in Entry : Added(k, f) BY <1>8
  <2>2. Accounted' = Accounted + 1 BY <1>5, <1>6, <2>1 DEF Added, Accounted
  <2>3. flows \in [Key -> Entry] /\ flows' = [flows EXCEPT ![k] = f] BY <2>1 DEF Added, Typed
  <2>4. flows'[k] = f /\ \A j \in Key \ {k} : flows'[j] = flows[j] BY <2>3
  <2> DEFINE p == flows[k].pkt_count
  <2>5. p \in 0..(U8-1) /\ Touched(k).pkt_count = (p + 1) % U8
    BY <2>3 DEF Touched, Entry
  <2>6. /\ flows[k].state \in {"ABSENT", "NEW"}
        /\ flows[k].state = "ABSENT" => p = 0
        /\ flows[k].state = "NEW" => p < FLOW_MAX_CLASSIFY_PKTS
    <3>1. flows[k].state \in {"ABSENT", "NEW"}
      BY <2>1, <2>3 DEF Added, Open, Terminal, Shape, Entry, FlowState
    <3>2. flows[k].state = "ABSENT" => p = 0 BY DEF Shape, Absent
    <3> QED BY <3>1, <3>2 DEF Bounds, BelowThreshold
  <2>7. p \in Nat /\ Touched(k).pkt_count = p + 1
    <3>1. p \in Nat /\ p + 1 < 256 BY <2>5, <2>6, ThresholdAssumption DEF U8
    <3> QED BY <2>5, <3>1 DEF U8
  <2>8. f.pkt_count = p + 1 BY <2>1, <2>7 DEF Added
  <2>9. BelowThreshold'
    <3>1. f.state = "NEW" => f.pkt_count < FLOW_MAX_CLASSIFY_PKTS
      BY <2>1, <2>7, <2>8, ThresholdAssumption DEF Added, AtThreshold
    <3> QED BY <2>4, <3>1 DEF Bounds, BelowThreshold
  <2>10. /\ Packets[k] = p /\ Packets'[k] = p + 1
         /\ Dues[k] = 2 * p
         /\ Dues'[k] = IF f.state = "NEW" THEN 2 * (p + 1) ELSE p + 1
         /\ \A j \in Key \ {k} : Packets'[j] = Packets[j] /\ Dues'[j] = Dues[j]
    <3>1. /\ \A j \in Key : Packets[j] = flows[j].pkt_count /\ Packets'[j] = flows'[j].pkt_count
          /\ \A j \in Key : Dues[j] = Due(j) /\ Dues'[j] = Due(j)'
      BY <1>1 DEF SumsTyped
    <3>2. Packets[k] = p /\ Packets'[k] = p + 1 BY <2>4, <2>8, <3>1
    <3>3. Dues[k] = 2 * p BY <2>6, <2>7, <3>1 DEF Due
    <3>4. Dues'[k] = IF f.state = "NEW" THEN 2 * (p + 1) ELSE p + 1
      BY <2>4, <2>8, <3>1 DEF Due
    <3>5. \A j \in Key \ {k} : Packets'[j] = Packets[j] /\ Dues'[j] = Dues[j]
      BY <2>4, <3>1 DEF Due
    <3> QED BY <3>2, <3>3, <3>4, <3>5
  <2>11. SumFunction(Packets') = SumFunction(Packets) - Packets[k] + Packets'[k]
    BY <1>2, <2>10, KeyAssumption, SumUpdate
  <2>12. SumFunction(Dues') = SumFunction(Dues) - Dues[k] + Dues'[k]
    <3>1. \A j \in Key \ {k} : Dues'[j] = Dues[j] BY <2>10
    <3>2. Dues \in [Key -> Nat] /\ Dues' \in [Key -> Nat] BY <1>2
    <3> QED BY <3>1, <3>2, KeyAssumption, SumUpdate
  <2>13. \/ AppPackets' = AppPackets
         \/ AppPackets' = AppPackets + (p + 1) /\ f.state # "NEW"
    <3>1. CASE UNCHANGED app_packets BY <3>1 DEF AppPackets
    <3>2. CASE /\ f.state # "NEW" /\ f.app_id \in Countable
               /\ app_packets' = [app_packets EXCEPT ![f.app_id] = @ + f.pkt_count]
      <4> DEFINE a == f.app_id
      <4>1. app_packets \in [Countable -> Nat] /\ app_packets' \in [Countable -> Nat]
        BY DEF Counts
      <4>2. /\ a \in Countable /\ app_packets'[a] = app_packets[a] + (p + 1)
            /\ app_packets[a] \in Nat
            /\ \A b \in Countable \ {a} : app_packets'[b] = app_packets[b]
        BY <2>8, <3>2, <4>1
      <4>3. IsFiniteSet(Countable) BY AppAssumption, FS_Subset
      <4> HIDE DEF a, p
      <4>4. SumFunction(app_packets')
              = SumFunction(app_packets) - app_packets[a] + app_packets'[a]
            /\ SumFunction(app_packets) \in Nat
        BY <4>1, <4>2, <4>3, SumUpdate
      <4>5. AppPackets' = AppPackets + (p + 1) BY <2>7, <4>2, <4>4 DEF AppPackets
      <4> QED BY <3>2, <4>5
    <3> QED BY <2>1, <3>1, <3>2 DEF Added
  <2> HIDE DEF p
  <2>14. SumFunction(Packets') = SumFunction(Packets) + 1
    BY <1>2, <2>7, <2>10, <2>11
  <2>15. Accounted' =< AppPackets' + SumFunction(Packets')
    BY <1>2, <1>3, <2>2, <2>7, <2>13, <2>14
  <2>16. SumFunction(Dues')
           = SumFunction(Dues) - 2 * p + IF f.state = "NEW" THEN 2 * (p + 1) ELSE p + 1
    BY <2>10, <2>12
  <2>17. AppPackets' + SumFunction(Dues') =< AppPackets + SumFunction(Dues) + 2
    <3>1. CASE f.state = "NEW"
      <4>1. SumFunction(Dues') = SumFunction(Dues) + 2 BY <1>2, <2>7, <2>16, <3>1
      <4> QED BY <1>2, <2>13, <3>1, <4>1
    <3>2. CASE f.state # "NEW"
      <4>1. SumFunction(Dues') = SumFunction(Dues) + 1 - p BY <1>2, <2>7, <2>16, <3>2
      <4> QED BY <1>2, <2>7, <2>13, <4>1
    <3> QED BY <3>1, <3>2
  <2>18. AppPackets' + SumFunction(Dues') =< 2 * Accounted'
    BY <1>2, <1>3, <2>2, <2>17
  <2> QED BY <1>4, <2>9, <2>15, <2>18 DEF Bounds
<1> QED BY <1>7, <1>8, PacketAdds

\* The sweep moves packets from the entries to their applications; none is lost if
\* every application has a counter.
LEMMA AgeBounds ==
  ASSUME Countable = AppId, Typed, Counts, Typed', Counts', Bounds,
         NEW S \in SUBSET Key, ndpi_engine_age(S)
  PROVE  Bounds'
<1>1. SumsTyped /\ SumsTyped' BY SumTypes, SumTypesNext
<1>2. /\ Packets \in [Key -> Nat] /\ Dues \in [Key -> Nat]
      /\ Packets' \in [Key -> Nat] /\ Dues' \in [Key -> Nat]
      /\ SumFunction(Packets) \in Nat /\ SumFunction(Dues) \in Nat
      /\ SumFunction(Packets') \in Nat /\ SumFunction(Dues') \in Nat
      /\ AppPackets \in Nat /\ AppPackets' \in Nat /\ Accounted \in Int /\ Accounted' \in Int
  BY <1>1 DEF SumsTyped
<1>3. /\ Accounted =< AppPackets + SumFunction(Packets)
      /\ AppPackets + SumFunction(Dues) =< 2 * Accounted
  BY <1>1 DEF SumsTyped, Bounds
<1>4. (/\ Accounted' =< AppPackets' + SumFunction(Packets')
       /\ AppPackets' + SumFunction(Dues') =< 2 * Accounted') => CreditBound'
  BY <1>1 DEF SumsTyped
<1>5. /\ flows' = [k \in Key |-> IF k \in S THEN Absent ELSE flows[k]]
      /\ app_packets' = [a \in Countable |-> app_packets[a] + ExpiredPackets(S, a)]
      /\ Accounted' = Accounted
  BY DEF ndpi_engine_age, Accounted
<1>6. \A k \in Key : /\ Packets[k] = flows[k].pkt_count /\ Packets'[k] = flows'[k].pkt_count
                     /\ Dues[k] = Due(k) /\ Dues'[k] = Due(k)'
  BY <1>1 DEF SumsTyped
<1>7. \A k \in Key : /\ Packets[k] \in Nat /\ Dues[k] \in Nat /\ Packets[k] =< Dues[k]
                     /\ Packets'[k] = IF k \in S THEN 0 ELSE Packets[k]
                     /\ Dues'[k] = IF k \in S THEN 0 ELSE Dues[k]
  <2> SUFFICES ASSUME NEW k \in Key
               PROVE  /\ Packets[k] \in Nat /\ Dues[k] \in Nat /\ Packets[k] =< Dues[k]
                      /\ Packets'[k] = IF k \in S THEN 0 ELSE Packets[k]
                      /\ Dues'[k] = IF k \in S THEN 0 ELSE Dues[k]
    OBVIOUS
  <2>1. Packets[k] \in Nat /\ Dues[k] \in Nat BY <1>2
  <2>2. Packets[k] =< Dues[k] BY <1>6, <2>1 DEF Due
  <2>3. CASE k \in S
    <3>1. flows'[k] = Absent BY <1>5, <2>3
    <3> QED BY <1>6, <2>1, <2>2, <2>3, <3>1 DEF Due, Absent
  <2>4. CASE k \notin S
    <3>1. flows'[k] = flows[k] BY <1>5, <2>4
    <3> QED BY <1>6, <2>1, <2>2, <2>4, <3>1 DEF Due
  <2> QED BY <2>3, <2>4
<1> DEFINE gone == SumFunctionOnSet(Packets, S)
           paid == SumFunctionOnSet(Dues, S)
<1>8. /\ gone \in Nat /\ SumFunction(Packets) = SumFunction(Packets') + gone
      /\ paid \in Nat /\ SumFunction(Dues) = SumFunction(Dues') + paid
  <2>1. /\ DOMAIN Packets = Key /\ DOMAIN Packets' = Key
        /\ DOMAIN Dues = Key /\ DOMAIN Dues' = Key
    BY <1>2
  <2>2. ASSUME NEW F, NEW G,
               \A k \in Key : F[k] \in Nat /\ G[k] = IF k \in S THEN 0 ELSE F[k]
        PROVE  /\ SumFunctionOnSet(F, S) \in Nat
               /\ SumFunctionOnSet(F, Key) = SumFunctionOnSet(G, Key) + SumFunctionOnSet(F, S)
    BY <2>2, KeyAssumption, SumTakenOut
  <2>3. gone \in Nat
        /\ SumFunctionOnSet(Packets, Key) = SumFunctionOnSet(Packets', Key) + gone
    <3>1. \A k \in Key : Packets[k] \in Nat
                         /\ Packets'[k] = IF k \in S THEN 0 ELSE Packets[k]
      BY <1>7
    <3> QED BY <2>2, <3>1
  <2>4. paid \in Nat
        /\ SumFunctionOnSet(Dues, Key) = SumFunctionOnSet(Dues', Key) + paid
    <3>1. \A k \in Key : Dues[k] \in Nat
                         /\ Dues'[k] = IF k \in S THEN 0 ELSE Dues[k]
      BY <1>7
    <3> QED BY <2>2, <3>1
  <2> HIDE DEF gone, paid
  <2> QED BY <2>1, <2>3, <2>4 DEF SumFunction
<1>9. gone =< paid
  <2>1. IsFiniteSet(S) BY KeyAssumption, FS_Subset
  <2> QED BY <1>7, <2>1, SumMonotone
<1>10. AppPackets' = AppPackets + gone
  <2> DEFINE E == [a \in Countable |-> ExpiredPackets(S, a)]
             g == [k \in S |-> flows[k].app_id]
  <2>1. \A a \in Countable : ExpiredPackets(S, a) = SumFunctionOnSet(Packets, Of(S, a))
    <3> SUFFICES ASSUME NEW a \in Countable
                 PROVE  ExpiredPackets(S, a) = SumFunctionOnSet(Packets, Of(S, a))
      OBVIOUS
    <3> DEFINE F == [k \in Of(S, a) |-> flows[k].pkt_count]
    <3>1. IsFiniteSet(Of(S, a)) /\ Of(S, a) \subseteq Key
      BY KeyAssumption, FS_Subset DEF Of
    <3>2. DOMAIN F = Of(S, a) /\ \A k \in Of(S, a) : Packets[k] \in Nat /\ F[k] = Packets[k]
      BY <1>6, <1>7, <3>1
    <3>3. ExpiredPackets(S, a) = SumFunctionOnSet(F, DOMAIN F)
      BY DEF ExpiredPackets, SumFunction
    <3> HIDE DEF F
    <3> QED BY <3>1, <3>2, <3>3, SumOfEqual
  <2>2. \A a \in Countable : Of(S, a) = {k \in S : g[k] = a} BY DEF Of
  <2>3. E = [a \in Countable |-> SumFunctionOnSet(Packets, {k \in S : g[k] = a})]
    BY <2>1, <2>2
  <2>4. IsFiniteSet(S) /\ IsFiniteSet(Countable) /\ \A k \in S : Packets[k] \in Nat
    BY <1>7, KeyAssumption, AppAssumption, FS_Subset
  <2>5. \A k \in S : g[k] \in Countable
    <3>1. \A k \in S : flows[k] \in Entry BY DEF Typed
    <3> QED BY <3>1 DEF Entry
  <2>6. \A a \in Countable : /\ E[a] \in Nat /\ app_packets[a] \in Nat
                             /\ app_packets'[a] = app_packets[a] + E[a]
    <3>1. \A a \in Countable : ExpiredPackets(S, a) \in Nat BY ExpiredTypes
    <3> QED BY <1>5, <3>1 DEF Counts
  <2>7. DOMAIN E = Countable /\ DOMAIN app_packets = Countable
        /\ DOMAIN app_packets' = Countable
    BY DEF Counts
  <2> HIDE DEF E, g
  <2>8. SumFunction(E) = gone BY <2>3, <2>4, <2>5, SumByGroups
  <2>9. SumFunctionOnSet(app_packets', Countable)
          = SumFunctionOnSet(app_packets, Countable) + SumFunctionOnSet(E, Countable)
    BY <2>4, <2>6, SumOfSums
  <2> HIDE DEF gone
  <2> QED BY <2>7, <2>8, <2>9 DEF AppPackets, SumFunction
<1> HIDE DEF gone, paid
<1>11. Accounted' =< AppPackets' + SumFunction(Packets')
  BY <1>2, <1>3, <1>5, <1>8, <1>10
<1>12. AppPackets' + SumFunction(Dues') =< 2 * Accounted'
  BY <1>2, <1>3, <1>5, <1>8, <1>9, <1>10
<1>13. BelowThreshold'
  <2>1. Absent.state # "NEW" BY DEF Absent
  <2> QED BY <1>5, <2>1 DEF Bounds, BelowThreshold
<1> QED BY <1>4, <1>11, <1>12, <1>13 DEF Bounds

LEMMA InitBounds == Init => Bounds
<1> SUFFICES ASSUME Init PROVE Bounds
  OBVIOUS
<1>1. \A k \in Key : flows[k] = Absent BY DEF Init
<1>2. Absent.state # "NEW" /\ Absent.pkt_count = 0 BY DEF Absent
<1>3. [k \in Key |-> Due(k)] = [k \in Key |-> 0]
      /\ [k \in Key |-> flows[k].pkt_count] = [k \in Key |-> 0]
  BY <1>1, <1>2 DEF Due
<1>4. SumFunction([k \in Key |-> 0]) = 0 BY KeyAssumption, SumOfZeros
<1>5. AppPackets = 0
  <2>1. IsFiniteSet(Countable) BY AppAssumption, FS_Subset
  <2>2. AppPackets = SumFunction([a \in Countable |-> 0]) BY DEF Init, Zero, AppPackets
  <2> QED BY <2>1, <2>2, SumOfZeros
<1>6. Accounted = 0 BY DEF Init, Accounted
<1>7. CreditBound BY <1>3, <1>4, <1>5, <1>6 DEF CreditBound, LivePackets
<1>8. BelowThreshold BY <1>1, <1>2 DEF BelowThreshold
<1> QED BY <1>7, <1>8 DEF Bounds

LEMMA BoundsSuffice == Typed /\ Counts /\ Bounds => PacketsCredited
<1> SUFFICES ASSUME Typed, Counts, Bounds PROVE PacketsCredited
  OBVIOUS
<1>1. SumsTyped BY SumTypes
<1>2. /\ AppPackets \in Nat /\ Accounted \in Int /\ SumFunction(Dues) \in Nat
      /\ AppPackets + SumFunction(Dues) =< 2 * Accounted
      /\ Accounted =< AppPackets + LivePackets
  BY <1>1 DEF SumsTyped, Bounds
<1>3. AppPackets =< 2 * Accounted BY <1>2
<1> QED BY <1>2, <1>3 DEF PacketsCredited, Accounted

LEMMA BoundsInvariant ==
  ASSUME Countable = AppId
  PROVE  Calls => []Bounds
<1>1. Typed /\ Shape /\ Counts /\ Typed' /\ Counts' /\ Bounds /\ [Call]_vars => Bounds'
  <2> SUFFICES ASSUME Typed, Shape, Counts, Typed', Counts', Bounds, [Call]_vars PROVE Bounds'
    OBVIOUS
  <2>1. CASE UNCHANGED vars
    BY <2>1 DEF vars, counters, Bounds, BelowThreshold, CreditBound, Accounted, AppPackets,
                LivePackets, Due
  <2> QED BY <2>1, PacketBounds, AgeBounds DEF Call
<1> QED BY <1>1, InitBounds, CountsInvariant, PTL DEF Calls, IInv

\* If every application has a counter, each packet added to a flow reaches its
\* application's counter by the expiry of the flow, and at most twice.
THEOREM EnginePacketsCredited ==
  ASSUME Countable = AppId
  PROVE  Spec => []PacketsCredited
BY BoundsInvariant, BoundsSuffice, CountsInvariant, SpecCalls, PTL DEF IInv
-----------------------------------------------------------------------------
(* Verdicts while no flow has expired.  Expired flows leave their verdicts behind;
   as long as there is none, a verdict is that of a live flow that is decided. *)

\* The daemon still holds every flow it created.
Whole == stats.total_created = Cardinality(Live)

VerdictHolds == \A k \in Key :
  verdict_map[k] # NoVerdict => Terminal(flows[k].state) /\ verdict_map[k] = flows[k].app_id

Faithful == Cardinality(Live) =< stats.total_created /\ (Whole => VerdictHolds)

\* An expiry is for good: no later flow makes up for it.
LEMMA NextFaithful ==
  ASSUME Typed, Shape, Verdicts, Faithful, [Call]_vars
  PROVE  /\ Faithful' /\ (Whole' => Whole)
         /\ Whole' => \A k \in Key : verdict_map[k] # NoVerdict => verdict_map'[k] = verdict_map[k]
<1> USE DEF Faithful
<1>1. /\ stats \in Stats /\ stats.total_created \in Nat
      /\ IsFiniteSet(Live) /\ Live \subseteq Key /\ Cardinality(Live) \in Nat
  BY KeyAssumption, FS_Subset, FS_CardinalityType, StatsFields DEF Typed, Live
<1>2. \A k \in Key : Outcome(k) BY VerdictStep
<1>3. ASSUME Whole => VerdictHolds, Whole' => Whole
      PROVE  Whole' => \A k \in Key : verdict_map[k] # NoVerdict => verdict_map'[k] = verdict_map[k]
  BY <1>2, <1>3 DEF VerdictHolds, Outcome
<1>4. ASSUME flows' = flows, verdict_map' = verdict_map,
             stats'.total_created = stats.total_created
      PROVE  Faithful' /\ (Whole' => Whole)
  <2>1. Live' = Live BY <1>4 DEF Live
  <2>2. VerdictHolds => VerdictHolds' BY <1>4 DEF VerdictHolds
  <2> QED BY <1>4, <2>1, <2>2 DEF Whole
<1>5. ASSUME NEW k \in Key, NEW d, ndpi_engine_process([key |-> k, data |-> d])
      PROVE  Faithful' /\ (Whole' => Whole)
  <2>1. PassedOver \/ \E f \in Entry : Added(k, f) BY <1>5, PacketAdds
  <2>2. \/ flows' = flows /\ verdict_map' = verdict_map
        \/ /\ Open(k)
           /\ \E f \in Entry :
                /\ flows' = [flows EXCEPT ![k] = f]
                /\ \/ f.state # "CLASSIFIED" /\ verdict_map' = verdict_map
                   \/ f.state \in {"CLASSIFIED", "GAVE_UP"} /\ PublishVerdict(k, f.app_id)
    BY <1>5, Publishes
  <2>3. flows \in [Key -> Entry] BY DEF Typed
  <2>4. CASE PassedOver
    <3>1. flows' = flows /\ stats'.total_created = stats.total_created
      BY <2>4 DEF PassedOver
    <3>2. verdict_map' = verdict_map
      BY <2>2, <2>3, <3>1 DEF Open, Terminal
    <3> QED BY <1>4, <3>1, <3>2
  <2>5. ASSUME NEW f \in Entry, Added(k, f) PROVE Faithful' /\ (Whole' => Whole)
    <3>1. /\ Open(k) /\ flows' = [flows EXCEPT ![k] = f] /\ f.state # "ABSENT"
          /\ stats'.total_created = stats.total_created + IF IsNew(k) THEN 1 ELSE 0
      BY <2>5 DEF Added, Created
    <3>2. /\ flows'[k] = f /\ \A j \in Key \ {k} : flows'[j] = flows[j]
      BY <2>3, <3>1
    <3>3. Live' \in SUBSET Key /\ Live \in SUBSET Key /\ Live \ {k} = Live' \ {k} /\ k \in Live'
      BY <3>1, <3>2 DEF Live
    <3>4. /\ Cardinality(Live') \in Nat
          /\ Cardinality(Live') = Cardinality(Live) + IF IsNew(k) THEN 1 ELSE 0
      BY <1>1, <3>3, OneChanges DEF IsNew
    <3>5. /\ Cardinality(Live') =< stats'.total_created
          /\ stats'.total_created = Cardinality(Live') => stats.total_created = Cardinality(Live)
      BY <1>1, <3>1, <3>4
    <3>6. f.app_id \in AppId BY DEF Entry
    <3>7. /\ \A j \in Key \ {k} : verdict_map'[j] = verdict_map[j]
          /\ \/ verdict_map'[k] = verdict_map[k]
             \/ Terminal(f.state) /\ verdict_map'[k] = f.app_id
      <4>1. CASE verdict_map' = verdict_map
        BY <4>1
      <4>2. ASSUME NEW g \in Entry, flows' = [flows EXCEPT ![k] = g],
                   g.state \in {"CLASSIFIED", "GAVE_UP"}, PublishVerdict(k, g.app_id)
            PROVE  /\ \A j \in Key \ {k} : verdict_map'[j] = verdict_map[j]
                   /\ \/ verdict_map'[k] = verdict_map[k]
                      \/ Terminal(f.state) /\ verdict_map'[k] = f.app_id
        <5>1. g = f BY <2>3, <3>2, <4>2
        <5> QED BY <3>6, <4>2, <5>1, PublishFacts DEF Terminal
      <4> QED BY <2>2, <4>1, <4>2
    <3>8. ASSUME VerdictHolds PROVE VerdictHolds'
      <4>1. verdict_map[k] = NoVerdict BY <3>1, <3>8 DEF VerdictHolds, Open
      <4> QED BY <3>2, <3>7, <3>8, <4>1 DEF VerdictHolds
    <3> QED BY <3>5, <3>8 DEF Whole
  <2> QED BY <2>1, <2>4, <2>5
<1>6. ASSUME NEW S \in SUBSET Key, ndpi_engine_age(S) PROVE Faithful' /\ (Whole' => Whole)
  <2>1. /\ S \subseteq Live /\ S # {} /\ stats' = stats
        /\ \A k \in Key : flows'[k] = IF k \in S THEN Absent ELSE flows[k]
    BY <1>6 DEF ndpi_engine_age
  <2>2. Live' = Live \ S BY <1>1, <2>1 DEF Live, Absent
  <2>3. /\ IsFiniteSet(Live \ S) /\ Live \ S \subseteq Live /\ Live \ S # Live
        /\ Cardinality(Live \ S) \in Nat
    BY <1>1, <2>1, FS_Subset, FS_CardinalityType
  <2>4. /\ Cardinality(Live \ S) =< Cardinality(Live)
        /\ Cardinality(Live) = Cardinality(Live \ S) => Live \ S = Live
    BY <1>1, <2>3, FS_Subset
  <2>5. Cardinality(Live') < stats'.total_created
    BY <1>1, <2>1, <2>2, <2>3, <2>4
  <2>6. Cardinality(Live') \in Nat /\ stats'.total_created \in Nat
    BY <1>1, <2>1, <2>2, <2>3
  <2>7. ~Whole' BY <2>5, <2>6 DEF Whole
  <2>8. Cardinality(Live') =< stats'.total_created BY <2>5, <2>6
  <2> QED BY <2>7, <2>8
<1>7. ASSUME UNCHANGED vars PROVE Faithful' /\ (Whole' => Whole)
  BY <1>4, <1>7 DEF vars
<1>8. Faithful' /\ (Whole' => Whole)
  BY <1>5, <1>6, <1>7 DEF Call
<1> QED BY <1>3, <1>8

LEMMA InitFaithful == Init => Faithful
<1> SUFFICES ASSUME Init PROVE Faithful
  OBVIOUS
<1>1. Live = {} BY DEF Init, Live, Absent
<1>2. Cardinality(Live) = 0 BY <1>1, FS_EmptySet
<1> QED BY <1>2 DEF Init, Faithful, VerdictHolds
=============================================================================
