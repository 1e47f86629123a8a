-------------------------- MODULE HostNamesProofs --------------------------
(***************************************************************************)
(* Theorems about HostNames, for any messages, host names and pool size:   *)
(* the labels and the ids; then the types; then the round trip from what a *)
(* resolver means through the bytes it sends, the capture and the parser   *)
(* to the cache.                                                           *)
(***************************************************************************)
EXTENDS HostNames, RecursionTheorems, SequenceTheorems

\* The least element of a set of numbers.
LEMMA MinFacts ==
  ASSUME NEW T \in SUBSET Nat, T # {}
  PROVE  Min(T) \in T /\ \A y \in T : Min(T) =< y
<1>1. PICK x \in T : \A y \in T : ~(<<y, x>> \in OpToRel(<, Nat))
  BY WFMin, NatLessThanWellFounded
<1>2. ASSUME NEW y \in T PROVE ~(y < x)
  <2>1. y < x => <<y, x>> \in OpToRel(<, Nat)
    BY DEF OpToRel
  <2> QED
    BY <1>1, <2>1
<1>3. \A y \in T : x =< y
  BY <1>2
<1> QED
  BY <1>3 DEF Min

\* A word that is not found in the pool is not in it, and its position is the next.
LEMMA PositionFacts ==
  ASSUME NEW S, NEW ls \in Seq(S), NEW w, Position(ls, w) \notin DOMAIN ls
  PROVE  \A i \in DOMAIN ls : ls[i] # w
<1> DEFINE found == {i \in DOMAIN ls : ls[i] = w}
           T == found \cup {Len(ls) + 1}
<1>1. T \in SUBSET Nat /\ T # {} /\ Position(ls, w) = Min(T)
  BY DEF Position
<1>2. Min(T) \in T /\ \A y \in T : Min(T) =< y
  BY <1>1, MinFacts
<1>3. Min(T) = Len(ls) + 1
  BY <1>1, <1>2
<1>4. found = {}
  BY <1>2, <1>3
<1> QED
  BY <1>4

\* The pool is a sequence, of whatever the words are.
IInv == (\E S : labels \in Seq(S)) /\ LabelsSound

\* A host name adds nothing to the pool, or a word it does not have, while there is room.
LEMMA DynAppFacts ==
  ASSUME NEW ls, NEW host
  PROVE  \/ DynApp(ls, host).labels = ls
         \/ /\ DynApp(ls, host).labels = Append(ls, Word(host))
            /\ Position(ls, Word(host)) \notin DOMAIN ls /\ ~Full(ls)
BY DEF DynApp

LEMMA AppendKeeps ==
  ASSUME IInv, NEW w, Position(labels, w) \notin DOMAIN labels, ~Full(labels),
         labels' = Append(labels, w)
  PROVE  IInv'
<1>1. PICK S : labels \in Seq(S) BY DEF IInv
<1>2. \A i \in DOMAIN labels : labels[i] # w
  BY <1>1, PositionFacts
<1>3. labels \in Seq(S \cup {w}) BY <1>1
<1>4. /\ labels' \in Seq(S \cup {w}) /\ Len(labels') = Len(labels) + 1
      /\ DOMAIN labels' = 1..(Len(labels) + 1)
      /\ labels'[Len(labels) + 1] = w
      /\ \A i \in DOMAIN labels : labels'[i] = labels[i]
      /\ DOMAIN labels = 1..Len(labels) /\ Len(labels) \in Nat
  BY <1>3
<1>5. Len(labels') =< LABELS
  BY <1>4, HostAssumption DEF Full
<1>6. IsInjective(labels')
  BY <1>2, <1>4 DEF IInv, LabelsSound, IsInjective
<1> QED
  BY <1>4, <1>5, <1>6 DEF IInv, LabelsSound

LEMMA InitIInv == Init => IInv
BY HostAssumption DEF Init, IInv, LabelsSound, IsInjective

LEMMA NextIInv == IInv /\ [Next]_vars => IInv'
<1> SUFFICES ASSUME IInv, [Next]_vars PROVE IInv'
  OBVIOUS
<1>1. CASE labels' = labels
  BY <1>1 DEF IInv, LabelsSound
<1>2. ASSUME NEW host, labels' = DynApp(labels, host).labels PROVE IInv'
  BY <1>1, <1>2, DynAppFacts, AppendKeeps
<1>3. CASE \E h \in Sni : BySni(h)
  BY <1>2, <1>3 DEF BySni
<1>4. ASSUME NEW ip \in Ip, ByDns(ip) PROVE IInv'
  <2>1. labels' = labels \/ labels' = DynApp(labels, cache[Hash[ip]].name).labels
    BY <1>4 DEF ByDns
  <2> QED BY <1>1, <1>2, <2>1
<1>5. CASE Tick \/ (\E m \in Message : \E n \in Captured(m) : Reply(m, n)) \/ UNCHANGED vars
  BY <1>1, <1>5 DEF Tick, Reply, vars
<1> QED
  BY <1>3, <1>4, <1>5 DEF Next

\* Two words never share a dynamic id, and the pool of labels is never written past
\* its end, whatever names flows and DNS answers bring (ndpi_engine.c:219-225).
THEOREM LabelsStaySound == Spec => []LabelsSound
<1>1. IInv => LabelsSound
  BY DEF IInv
<1> QED
  BY <1>1, InitIInv, NextIInv, PTL DEF Spec
-----------------------------------------------------------------------------
(* An id stands for a name, as long as the entry that keeps it holds that name
   and the label is at its place in the pool.  Both ids given and ids kept are
   invariant, since the kept ones are given again. *)

\* Means, in a pool.
MeansIn(ls, id, host) ==
  \/ id \in {Known(Service, host), Known(Native, host)}
  \/ \E i \in DOMAIN ls : id = DynId(i) /\ ls[i] = Word(host)

Kept == \A s \in Slot : cache[s].app = Unknown \/ Means(cache[s].app, cache[s].name)

\* dns_cache_entry_t
IsEntry(e) == \E i, n, x, a : e = [ip |-> i, name |-> n, expires |-> x, app |-> a]

Entries == DOMAIN cache = Slot /\ \A s \in Slot : IsEntry(cache[s])

IdInv == IInv /\ Entries /\ Kept /\ IdsMeanTheirNames

\* A word found in the pool is at its position; one appended goes to its position.
LEMMA PositionHolds ==
  ASSUME NEW S, NEW ls \in Seq(S), NEW w
  PROVE  /\ Position(ls, w) \in DOMAIN ls => ls[Position(ls, w)] = w
         /\ Position(ls, w) \notin DOMAIN ls => Position(ls, w) = Len(ls) + 1
<1> DEFINE found == {i \in DOMAIN ls : ls[i] = w}
           T == found \cup {Len(ls) + 1}
<1>1. T \in SUBSET Nat /\ T # {} /\ Position(ls, w) = Min(T)
  BY DEF Position
<1>2. Min(T) \in T
  BY <1>1, MinFacts
<1>3. Len(ls) + 1 \notin DOMAIN ls /\ found \subseteq DOMAIN ls
  OBVIOUS
<1> QED
  BY <1>1, <1>2, <1>3

\* The pool only grows: an id that stands for a name goes on standing for it, and the
\* id found for a host name stands for that one.
LEMMA DynAppMeans ==
  ASSUME NEW S, NEW ls \in Seq(S), NEW host
  PROVE  LET d == DynApp(ls, host) IN
         /\ \A id, name : MeansIn(ls, id, name) => MeansIn(d.labels, id, name)
         /\ d.id # Unknown => MeansIn(d.labels, d.id, host)
<1> DEFINE w == Word(host)
           p == Position(ls, w)
           d == DynApp(ls, host)
<1>1. \/ d.labels = ls /\ d.id \in {Unknown, Known(Native, host)}
      \/ d.labels = ls /\ p \in DOMAIN ls /\ d.id = DynId(p)
      \/ d.labels = Append(ls, w) /\ p \notin DOMAIN ls /\ d.id = DynId(p)
  BY DEF DynApp
<1>2. CASE d.labels = ls /\ d.id \in {Unknown, Known(Native, host)}
  BY <1>2 DEF MeansIn
<1>3. CASE d.labels = ls /\ p \in DOMAIN ls /\ d.id = DynId(p)
  <2>1. ls[p] = w BY <1>3, PositionHolds
  <2> QED BY <1>3, <2>1 DEF MeansIn
<1>4. CASE d.labels = Append(ls, w) /\ p \notin DOMAIN ls /\ d.id = DynId(p)
  <2>1. p = Len(ls) + 1 BY <1>4, PositionHolds
  <2> DEFINE new == d.labels
  <2>2. \A v : LET a == Append(ls, v) IN
          /\ Len(ls) + 1 \in DOMAIN a /\ a[Len(ls) + 1] = v
          /\ \A i \in DOMAIN ls : i \in DOMAIN a /\ a[i] = ls[i]
    <3> TAKE v
    <3>1. ls \in Seq(S \cup {v}) /\ v \in S \cup {v} OBVIOUS
    <3> QED BY <3>1
  <2>3. /\ p \in DOMAIN new /\ new[p] = Word(host) /\ d.id = DynId(p)
        /\ \A i \in DOMAIN ls : i \in DOMAIN new /\ new[i] = ls[i]
    BY <1>4, <2>1, <2>2
  <2> HIDE DEF p, d, new
  <2>4. MeansIn(new, d.id, host) BY <2>3 DEF MeansIn
  <2>5. ASSUME NEW id, NEW name, MeansIn(ls, id, name) PROVE MeansIn(new, id, name)
    BY <2>3, <2>5 DEF MeansIn
  <2> QED BY <2>4, <2>5 DEF new, d
<1> QED BY <1>1, <1>2, <1>3, <1>4

\* The pool is left as it is, or a host name is looked up in it.
LEMMA MeaningStays ==
  ASSUME IInv, labels' = labels \/ \E host : labels' = DynApp(labels, host).labels,
         NEW id, NEW name, MeansIn(labels, id, name)
  PROVE  MeansIn(labels', id, name)
BY DynAppMeans DEF IInv

\* What a flow is given joins the ids given.
LEMMA GivenMeans ==
  ASSUME IInv, IdsMeanTheirNames,
         labels' = labels \/ \E h : labels' = DynApp(labels, h).labels,
         NEW host, NEW id, Give(host, id), id # Unknown => MeansIn(labels', id, host)
  PROVE  IdsMeanTheirNames'
<1>1. \A g \in given : MeansIn(labels', g.id, g.host)
  BY MeaningStays DEF IdsMeanTheirNames, Means, MeansIn
<1>2. given' = given \/ (id # Unknown /\ given' = given \cup {[host |-> host, id |-> id]})
  BY DEF Give
<1>3. \A g \in given' : MeansIn(labels', g.id, g.host)
  BY <1>1, <1>2
<1> QED
  BY <1>3 DEF IdsMeanTheirNames, Means, MeansIn

\* A reply names slots anew, without an id.
LEMMA ReplyKeeps ==
  ASSUME Entries, Kept, NEW msg, dns_cache_update(msg), labels' = labels
  PROVE  Entries' /\ Kept'
<1>1. Entries'
  <2>1. \A s, name, a : IsEntry(Inserted(s, name, a))
    BY DEF Inserted, IsEntry
  <2> QED BY <2>1 DEF dns_cache_update, Entries
<1>2. \A s \in Slot : cache'[s] = cache[s] \/ cache'[s].app = Unknown
  BY DEF dns_cache_update, Inserted
<1> QED
  BY <1>1, <1>2 DEF Entries, Kept, Means

\* A flow without a server name keeps the id it finds in the entry that has the name.
LEMMA ByDnsKeeps ==
  ASSUME IInv, Entries, Kept, IdsMeanTheirNames, NEW ip \in Ip, ByDns(ip)
  PROVE  Entries' /\ Kept' /\ IdsMeanTheirNames'
<1> DEFINE e == cache[Hash[ip]]
           t == Known(Service, e.name)
           d == IF e.app # Unknown THEN [labels |-> labels, id |-> e.app]
                ELSE IF t # Unknown THEN [labels |-> labels, id |-> t]
                ELSE DynApp(labels, e.name)
<1>1. /\ labels' = d.labels /\ Give(e.name, d.id)
      /\ cache' = [cache EXCEPT ![Hash[ip]].app = d.id]
  BY DEF ByDns
<1>2. Hash[ip] \in Slot
  BY HostAssumption
<1>3. labels' = labels \/ \E h : labels' = DynApp(labels, h).labels
  BY <1>1
<1>4. d.id # Unknown => MeansIn(labels', d.id, e.name)
  <2>1. CASE e.app # Unknown
    BY <1>1, <1>2, <2>1 DEF Kept, Means, MeansIn
  <2>2. CASE e.app = Unknown /\ t # Unknown
    BY <1>1, <2>2 DEF MeansIn
  <2>3. CASE e.app = Unknown /\ t = Unknown
    BY <1>1, <2>3, DynAppMeans DEF IInv
  <2> QED BY <2>1, <2>2, <2>3
<1>5. /\ DOMAIN cache' = Slot
      /\ \A s \in Slot : cache'[s] = IF s = Hash[ip] THEN [e EXCEPT !.app = d.id] ELSE cache[s]
  BY <1>1, <1>2 DEF Entries
<1>6. PICK i, n, x, a : e = [ip |-> i, name |-> n, expires |-> x, app |-> a]
  BY <1>2 DEF Entries, IsEntry
<1> HIDE DEF d
<1>7. IdsMeanTheirNames'
  BY <1>1, <1>3, <1>4, GivenMeans
<1>8. ASSUME NEW s \in Slot
      PROVE  cache'[s].app = Unknown \/ MeansIn(labels', cache'[s].app, cache'[s].name)
  <2>1. CASE s # Hash[ip]
    <3>1. cache[s].app = Unknown \/ MeansIn(labels, cache[s].app, cache[s].name)
      BY DEF Kept, Means, MeansIn
    <3> QED BY <1>3, <1>5, <2>1, <3>1, MeaningStays
  <2>2. CASE s = Hash[ip]
    <3>1. cache'[s].app = d.id /\ cache'[s].name = e.name
      BY <1>5, <1>6, <2>2
    <3>2. e.app = Unknown \/ MeansIn(labels, e.app, e.name)
      BY <1>2 DEF Kept, Means, MeansIn
    <3> QED BY <1>3, <1>4, <3>1, <3>2, MeaningStays
  <2> QED BY <2>1, <2>2
<1>9. Entries'
  <2>1. IsEntry([e EXCEPT !.app = d.id])
    <3>1. [e EXCEPT !.app = d.id] = [ip |-> i, name |-> n, expires |-> x, app |-> d.id]
      BY <1>6
    <3>2. IsEntry([ip |-> i, name |-> n, expires |-> x, app |-> d.id])
      BY DEF IsEntry
    <3> QED BY <3>1, <3>2
  <2> QED BY <1>5, <2>1 DEF Entries
<1> QED
  BY <1>7, <1>8, <1>9 DEF Kept, Means, MeansIn

\* An id given to a flow stands for the flow's host name, however the names reach the
\* cache and whatever the slots share: a slot that gets a new name loses the id of the
\* old one, and a label never takes the place of another (ndpi_dns_cache.h:39,
\* ndpi_engine.c:222).
THEOREM IdsKeepTheirMeaning == Spec => []IdsMeanTheirNames
<1>1. Init => IdInv
  <2>1. IsEntry(Vacant)
    BY DEF Vacant, IsEntry
  <2> QED BY InitIInv, <2>1 DEF Init, IdInv, Entries, Kept, Vacant, IdsMeanTheirNames
<1>2. IdInv /\ [Next]_vars => IdInv'
  <2> SUFFICES ASSUME IdInv, [Next]_vars
               PROVE  IInv' => Entries' /\ Kept' /\ IdsMeanTheirNames'
    BY NextIInv DEF IdInv
  <2> USE DEF IdInv
  <2>1. ASSUME NEW m \in Message, NEW n \in Captured(m), Reply(m, n)
        PROVE  Entries' /\ Kept' /\ IdsMeanTheirNames'
    <3>1. /\ dns_cache_update([Encode(m) EXCEPT !.body = SubSeq(@, 1, n)])
          /\ UNCHANGED <<labels, given>>
      BY <2>1 DEF Reply
    <3>2. Entries' /\ Kept'
      BY <3>1, ReplyKeeps
    <3> QED BY <3>1, <3>2 DEF IdsMeanTheirNames, Means
  <2>2. ASSUME NEW h \in Sni, BySni(h)
        PROVE  Entries' /\ Kept' /\ IdsMeanTheirNames'
    <3> DEFINE d == DynApp(labels, h)
    <3>1. labels' = d.labels /\ Give(h, d.id) /\ cache' = cache
      BY <2>2 DEF BySni
    <3>2. d.id # Unknown => MeansIn(labels', d.id, h)
      BY <3>1, DynAppMeans DEF IInv
    <3>3. IdsMeanTheirNames'
      BY <3>1, <3>2, GivenMeans
    <3>4. \A s \in Slot :
            cache[s].app = Unknown \/ MeansIn(labels', cache[s].app, cache[s].name)
      <4> TAKE s \in Slot
      <4>1. cache[s].app = Unknown \/ MeansIn(labels, cache[s].app, cache[s].name)
        BY DEF Kept, Means, MeansIn
      <4> QED BY <3>1, <4>1, MeaningStays
    <3> QED BY <3>1, <3>3, <3>4 DEF Entries, Kept, Means, MeansIn
  <2>3. ASSUME NEW ip \in Ip, ByDns(ip)
        PROVE  Entries' /\ Kept' /\ IdsMeanTheirNames'
    BY <2>3, ByDnsKeeps
  <2>4. CASE Tick \/ UNCHANGED vars
    <3>1. UNCHANGED <<cache, labels, given>> BY <2>4 DEF Tick, vars
    <3> QED BY <3>1 DEF Entries, Kept, IdsMeanTheirNames, Means
  <2> QED
    BY <2>1, <2>2, <2>3, <2>4 DEF Next
<1> QED
  BY <1>1, <1>2, PTL DEF Spec, IdInv
-----------------------------------------------------------------------------
(* The walk over a message, for any bytes. *)

LEMMA ByteIsNat == \A x \in Byte : x \in Nat /\ x =< 255
BY DEF Byte

LEMMA MaxOfTwo == \A m, n \in Int : Max({m, n}) = IF m >= n THEN m ELSE n
<1> SUFFICES ASSUME NEW m \in Int, NEW n \in Int PROVE Max({m, n}) = IF m >= n THEN m ELSE n
  OBVIOUS
<1>1. \E x \in {m, n} : \A y \in {m, n} : x >= y
  OBVIOUS
<1>2. Max({m, n}) \in {m, n} /\ \A y \in {m, n} : Max({m, n}) >= y
  BY <1>1 DEF Max
<1> QED BY <1>2

LEMMA MinOfTwo == \A m, n \in Int : Min({m, n}) = IF m =< n THEN m ELSE n
<1> SUFFICES ASSUME NEW m \in Int, NEW n \in Int PROVE Min({m, n}) = IF m =< n THEN m ELSE n
  OBVIOUS
<1>1. \E x \in {m, n} : \A y \in {m, n} : x =< y
  OBVIOUS
<1>2. Min({m, n}) \in {m, n} /\ \A y \in {m, n} : Min({m, n}) =< y
  BY <1>1 DEF Min
<1> QED BY <1>2

LEMMA MinOfThree ==
  ASSUME NEW l \in Int, NEW m \in Int, NEW n \in Int
  PROVE  /\ Min({l, m, n}) \in {l, m, n}
         /\ Min({l, m, n}) =< l /\ Min({l, m, n}) =< m /\ Min({l, m, n}) =< n
<1>1. \E x \in {l, m, n} : \A y \in {l, m, n} : x =< y
  <2>1. CASE l =< m /\ l =< n BY <2>1
  <2>2. CASE m =< l /\ m =< n BY <2>2
  <2>3. CASE n =< l /\ n =< m BY <2>3
  <2> QED BY <2>1, <2>2, <2>3
<1>2. Min({l, m, n}) \in {l, m, n} /\ \A y \in {l, m, n} : Min({l, m, n}) =< y
  BY <1>1 DEF Min
<1> QED BY <1>2

LEMMA RoomFacts ==
  ASSUME NEW name \in Seq(Byte)
  PROVE  /\ Room(name) \in Nat
         /\ Room(name) = IF Len(name) < NAME_BUF THEN NAME_BUF - 1 - Len(name) ELSE 0
<1>1. NAME_BUF \in Nat /\ Len(name) \in Nat
  BY NameBufAssumption
<1>2. NAME_BUF - 1 - Len(name) \in Int /\ 0 \in Int
  BY <1>1
<1>3. Room(name) = IF 0 >= NAME_BUF - 1 - Len(name) THEN 0 ELSE NAME_BUF - 1 - Len(name)
  BY <1>2, MaxOfTwo DEF Room
<1> QED BY <1>1, <1>3

\* The name with a dot for the next label, and how many of its bytes are copied.
Dotted(q) == IF q.name # <<>> /\ Room(q.name) > 0 THEN Append(q.name, Dot) ELSE q.name
Copied(b, q) == Min({b[q.off], Len(b) - q.off, Room(Dotted(q))})

\* A label is copied as far as it is there and there is room; the walk goes on behind
\* what was copied.
LabelCopied(b, q, r) ==
  /\ r \in Query /\ Dotted(q) \in Seq(Byte) /\ Copied(b, q) \in Nat
  /\ Copied(b, q) \in {b[q.off], Len(b) - q.off, Room(Dotted(q))}
  /\ Copied(b, q) =< b[q.off] /\ Copied(b, q) =< Len(b) - q.off
  /\ Copied(b, q) =< Room(Dotted(q))
  /\ r.off = q.off + 1 + Copied(b, q)
  /\ Len(r.name) = Len(Dotted(q)) + Copied(b, q)
  /\ \A i \in 1..Len(Dotted(q)) : r.name[i] = Dotted(q)[i]
  /\ \A i \in 1..Copied(b, q) : r.name[Len(Dotted(q)) + i] = b[q.off + i]

LEMMA NextLabelFacts ==
  ASSUME NEW b \in Seq(Byte), NEW q \in Query, q.off =< Len(b)
  PROVE  LabelCopied(b, q, NextLabel(b, q))
<1> DEFINE d == Dotted(q)
           n == Copied(b, q)
           l == SubSeq(b, q.off + 1, q.off + n)
<1>1. q.name \in Seq(Byte) /\ q.off \in Nat \ {0} /\ Len(b) \in Nat /\ Len(q.name) \in Nat
  BY DEF Query
<1>2. q.off \in 1..Len(b) /\ b[q.off] \in Byte /\ b[q.off] \in Nat
  <2>1. q.off \in 1..Len(b) BY <1>1
  <2>2. b[q.off] \in Byte BY <2>1
  <2> QED BY <2>1, <2>2, ByteIsNat
<1>3. d \in Seq(Byte) /\ Len(d) \in Nat
  <2>1. Dot \in Byte BY DEF Dot, Byte
  <2> QED BY <1>1, <2>1 DEF Dotted
<1>4. Room(d) \in Nat
  BY <1>3, RoomFacts
<1>5. /\ n \in {b[q.off], Len(b) - q.off, Room(d)} /\ n \in Nat
      /\ n =< b[q.off] /\ n =< Len(b) - q.off /\ n =< Room(d)
  <2>1. b[q.off] \in Int /\ Len(b) - q.off \in Int /\ Room(d) \in Int BY <1>1, <1>2, <1>4
  <2> HIDE DEF d
  <2>2. n = Min({b[q.off], Len(b) - q.off, Room(d)}) BY DEF Copied, d
  <2> HIDE DEF n
  <2>3. /\ n \in {b[q.off], Len(b) - q.off, Room(d)}
        /\ n =< b[q.off] /\ n =< Len(b) - q.off /\ n =< Room(d)
    BY <2>1, <2>2, MinOfThree
  <2> QED BY <1>1, <1>2, <1>4, <2>3
<1> HIDE DEF d, n
<1>6. l \in Seq(Byte) /\ Len(l) = n /\ \A i \in 1..n : l[i] = b[q.off + i]
  <2>1. q.off + 1 \in Int /\ q.off + n \in Int /\ \A i \in (q.off + 1)..(q.off + n) : b[i] \in Byte
    BY <1>1, <1>5
  <2>2. /\ l \in Seq(Byte)
        /\ Len(l) = IF q.off + 1 =< q.off + n THEN (q.off + n) - (q.off + 1) + 1 ELSE 0
        /\ \A i \in 1..((q.off + n) - (q.off + 1) + 1) : l[i] = b[(q.off + 1) + i - 1]
    BY <2>1, SubSeqProperties
  <2>3. (q.off + n) - (q.off + 1) + 1 = n /\ \A i \in 1..n : (q.off + 1) + i - 1 = q.off + i
    BY <1>1, <1>5
  <2> HIDE DEF l
  <2>4. Len(l) = n BY <1>1, <1>5, <2>2
  <2> QED BY <2>2, <2>3, <2>4
<1> HIDE DEF l
<1>7. NextLabel(b, q) = [name |-> d \o l, off |-> q.off + 1 + n]
  BY DEF NextLabel, d, n, l, Dotted, Copied
<1>8. /\ d \o l \in Seq(Byte) /\ Len(d \o l) = Len(d) + n
      /\ \A i \in 1..Len(d) : (d \o l)[i] = d[i]
      /\ \A i \in 1..n : (d \o l)[Len(d) + i] = l[i]
  <2>1. /\ d \o l \in Seq(Byte) /\ Len(d \o l) = Len(d) + Len(l)
        /\ \A i \in 1..(Len(d) + Len(l)) :
             (d \o l)[i] = IF i <= Len(d) THEN d[i] ELSE l[i - Len(d)]
    BY <1>3, <1>6, ConcatProperties
  <2>2. \A i \in 1..Len(d) : i \in 1..(Len(d) + Len(l)) /\ i <= Len(d)
    BY <1>3, <1>5, <1>6
  <2>3. \A i \in 1..n : /\ Len(d) + i \in 1..(Len(d) + Len(l)) /\ ~(Len(d) + i <= Len(d))
                         /\ (Len(d) + i) - Len(d) = i
    BY <1>3, <1>5, <1>6
  <2> QED BY <1>6, <2>1, <2>2, <2>3
<1>9. NextLabel(b, q) \in Query
  BY <1>1, <1>5, <1>7, <1>8 DEF Query
<1> DEFINE r == NextLabel(b, q)
<1>10. r.name = d \o l /\ r.off = q.off + 1 + n
  BY <1>7
<1> HIDE DEF r
<1>11. /\ Len(r.name) = Len(d) + n
       /\ \A i \in 1..Len(d) : r.name[i] = d[i]
       /\ \A i \in 1..n : r.name[Len(d) + i] = b[q.off + i]
  BY <1>6, <1>8, <1>10
<1>12. r \in Query
  BY <1>9 DEF r
<1> QED
  BY <1>3, <1>5, <1>10, <1>11, <1>12 DEF LabelCopied, d, n, r

\* Where the walk over the query name ends, and with what.
Stops(b, q) == OutOfBytes(b, q.off, q.name) \/ b[q.off] = 0 \/ IsPointer(b[q.off])
Ended(b, q) ==
  IF OutOfBytes(b, q.off, q.name) THEN q
  ELSE IF b[q.off] = 0 THEN [q EXCEPT !.off = @ + 1] ELSE [q EXCEPT !.off = @ + 2]

Start == [name |-> <<>>, off |-> 1]

\* copy takes each point of the walk over b to its end.
IsWalk(b, copy) ==
  \A q \in Query : copy[q] = IF Stops(b, q) THEN Ended(b, q) ELSE copy[NextLabel(b, q)]

LEMMA QueryIsWalk ==
  ASSUME NEW b \in Seq(Byte)
  PROVE  \E copy : IsWalk(b, copy) /\ QueryName(b) = copy[Start]
<1> DEFINE Eq(c) == c = [q \in Query |->
                          IF OutOfBytes(b, q.off, q.name) THEN q
                          ELSE IF b[q.off] = 0 THEN [q EXCEPT !.off = @ + 1]
                          ELSE IF IsPointer(b[q.off]) THEN [q EXCEPT !.off = @ + 2]
                          ELSE c[NextLabel(b, q)]]
           copy == CHOOSE c : Eq(c)
           stop == [q \in Query |-> IF Stops(b, q) THEN TRUE ELSE FALSE]
           next == [q \in Query |-> IF Stops(b, q) THEN q ELSE NextLabel(b, q)]
           out == [q \in Query |-> IF Stops(b, q) THEN Ended(b, q) ELSE q]
           with == [q \in Query |-> [r \in Query |-> r]]
           left == [q \in Query |-> IF q.off > Len(b) THEN 0 ELSE Len(b) + 1 - q.off]
<1>1. Len(b) \in Nat /\ \A q \in Query : q.name \in Seq(Byte) /\ q.off \in Nat \ {0}
  BY DEF Query
<1>2. ASSUME NEW q \in Query PROVE Ended(b, q) \in Query
  <2>1. \A n \in Nat \ {0} : [q EXCEPT !.off = n] \in Query
    BY DEF Query
  <2>2. q.off + 1 \in Nat \ {0} /\ q.off + 2 \in Nat \ {0}
    BY <1>1
  <2> QED BY <2>1, <2>2 DEF Ended
<1>3. ASSUME NEW q \in Query, ~Stops(b, q)
      PROVE  NextLabel(b, q) \in Query /\ NextLabel(b, q).off > q.off /\ q.off =< Len(b)
  <2>1. q.off =< Len(b) BY <1>1, <1>3 DEF Stops, OutOfBytes
  <2>2. LabelCopied(b, q, NextLabel(b, q)) BY <2>1, NextLabelFacts
  <2> QED BY <1>1, <2>1, <2>2 DEF LabelCopied
<1>4. IsRecursion(Query, Query, stop, next, out, with, left)
  <2>1. stop \in [Query -> BOOLEAN] OBVIOUS
  <2>2. next \in [Query -> Query] BY <1>3
  <2>3. out \in [Query -> Query] BY <1>2
  <2>4. with \in [Query -> [Query -> Query]] OBVIOUS
  <2>5. left \in [Query -> Nat] BY <1>1
  <2>6. ASSUME NEW q \in Query, ~stop[q] PROVE left[next[q]] < left[q]
    <3>1. ~Stops(b, q) BY <2>6
    <3>2. next[q] = NextLabel(b, q) /\ next[q] \in Query /\ next[q].off > q.off /\ q.off =< Len(b)
      BY <1>3, <3>1
    <3> QED BY <1>1, <3>2
  <2> HIDE DEF stop, next, out, with, left
  <2> QED BY <2>1, <2>2, <2>3, <2>4, <2>5, <2>6 DEF IsRecursion
<1>5. PICK f \in [Query -> Query] :
        \A q \in Query : f[q] = IF stop[q] THEN out[q] ELSE with[q][f[next[q]]]
  <2> HIDE DEF stop, next, out, with, left
  <2> QED BY <1>4, Recursion
<1>6. ASSUME NEW q \in Query
      PROVE  f[q] = IF Stops(b, q) THEN Ended(b, q) ELSE f[NextLabel(b, q)]
  BY <1>3, <1>5
<1>7. Eq(f)
  <2>1. ASSUME NEW q \in Query
        PROVE  f[q] = IF OutOfBytes(b, q.off, q.name) THEN q
                      ELSE IF b[q.off] = 0 THEN [q EXCEPT !.off = @ + 1]
                      ELSE IF IsPointer(b[q.off]) THEN [q EXCEPT !.off = @ + 2]
                      ELSE f[NextLabel(b, q)]
    BY <1>6 DEF Stops, Ended
  <2> QED BY <2>1
<1>8. Eq(copy)
  <2> HIDE DEF Eq
  <2> QED BY <1>7
<1>9. ASSUME NEW q \in Query
      PROVE  copy[q] = IF Stops(b, q) THEN Ended(b, q) ELSE copy[NextLabel(b, q)]
  <2> HIDE DEF copy
  <2> QED BY <1>8 DEF Stops, Ended
<1>10. QueryName(b) = copy[Start]
  BY DEF QueryName, Start
<1> QED BY <1>9, <1>10 DEF IsWalk

\* What a walk keeps holds where it ends.
LEMMA WalkEnds ==
  ASSUME NEW b \in Seq(Byte), NEW copy, IsWalk(b, copy), NEW P \in SUBSET Query, NEW F,
         \A q \in P : Stops(b, q) => Ended(b, q) \in F,
         \A q \in P : ~Stops(b, q) => NextLabel(b, q) \in P
  PROVE  \A q \in P : copy[q] \in F
<1> DEFINE Left(q) == IF q.off > Len(b) THEN 0 ELSE Len(b) + 1 - q.off
           G == {n \in Nat : \A q \in P : Left(q) =< n => copy[q] \in F}
<1>1. Len(b) \in Nat /\ \A q \in P : q \in Query /\ q.name \in Seq(Byte) /\ q.off \in Nat \ {0}
  BY DEF Query
<1>2. ASSUME NEW q \in P, Stops(b, q) PROVE copy[q] \in F
  BY <1>1, <1>2 DEF IsWalk
<1>3. ASSUME NEW q \in P, ~Stops(b, q)
      PROVE  /\ copy[q] = copy[NextLabel(b, q)] /\ NextLabel(b, q) \in P
             /\ Left(NextLabel(b, q)) < Left(q) /\ Left(NextLabel(b, q)) \in Nat
  <2>1. q.off =< Len(b) BY <1>1, <1>3 DEF Stops, OutOfBytes
  <2>2. LabelCopied(b, q, NextLabel(b, q)) BY <1>1, <2>1, NextLabelFacts
  <2>3. NextLabel(b, q) \in P BY <1>3
  <2>4. NextLabel(b, q).off > q.off BY <1>1, <2>2 DEF LabelCopied
  <2>5. NextLabel(b, q).off \in Nat BY <1>1, <2>3
  <2>6. copy[q] = copy[NextLabel(b, q)] BY <1>1, <1>3 DEF IsWalk
  <2> QED BY <1>1, <2>1, <2>3, <2>4, <2>5, <2>6
<1>4. \A q \in P : Left(q) \in Nat
  BY <1>1
<1>5. ASSUME NEW q \in P, Left(q) = 0 PROVE Stops(b, q)
  <2>1. q.off > Len(b) BY <1>1, <1>5
  <2> QED BY <2>1 DEF Stops, OutOfBytes
<1> HIDE DEF Left
<1>6. 0 \in G
  BY <1>2, <1>4, <1>5
<1>7. ASSUME NEW n \in Nat, n \in G PROVE n + 1 \in G
  <2>1. SUFFICES ASSUME NEW q \in P, Left(q) =< n + 1 PROVE copy[q] \in F
    OBVIOUS
  <2>2. CASE Stops(b, q)
    BY <1>2, <2>2
  <2>3. CASE ~Stops(b, q)
    <3>1. /\ copy[q] = copy[NextLabel(b, q)] /\ NextLabel(b, q) \in P
          /\ Left(NextLabel(b, q)) < Left(q) /\ Left(NextLabel(b, q)) \in Nat
      BY <1>3, <2>3
    <3>2. Left(NextLabel(b, q)) =< n BY <1>4, <2>1, <3>1
    <3> QED BY <1>7, <3>1, <3>2
  <2> QED BY <2>2, <2>3
<1>8. \A n \in Nat : n \in G
  <2> HIDE DEF G
  <2> QED BY <1>6, <1>7, Induction
<1> QED BY <1>4, <1>8

\* The query name fits its buffer, whatever the bytes are.
LEMMA QueryNameTyped ==
  ASSUME NEW b \in Seq(Byte)
  PROVE  QueryName(b) \in Query /\ Len(QueryName(b).name) < NAME_BUF
<1> DEFINE P == {q \in Query : Len(q.name) < NAME_BUF}
<1>1. PICK copy : IsWalk(b, copy) /\ QueryName(b) = copy[Start]
  BY QueryIsWalk
<1>2. Start \in P
  <2>1. <<>> \in Seq(Byte) /\ Len(<<>>) = 0 /\ 1 \in Nat \ {0} OBVIOUS
  <2> QED BY <2>1, NameBufAssumption DEF Start, Query
<1>3. ASSUME NEW q \in P, Stops(b, q) PROVE Ended(b, q) \in P
  <2>1. q.off \in Nat \ {0} BY DEF Query
  <2>2. \A n \in Nat \ {0} : [q EXCEPT !.off = n] \in P BY DEF Query
  <2>3. q.off + 1 \in Nat \ {0} /\ q.off + 2 \in Nat \ {0} BY <2>1
  <2> QED BY <2>2, <2>3 DEF Ended
<1>4. ASSUME NEW q \in P, ~Stops(b, q) PROVE NextLabel(b, q) \in P
  <2> DEFINE r == NextLabel(b, q)
             d == Dotted(q)
  <2>1. q.name \in Seq(Byte) /\ q.off \in Nat /\ Len(q.name) < NAME_BUF /\ Len(q.name) \in Nat
    BY DEF Query
  <2>2. q.off =< Len(b) BY <1>4, <2>1 DEF Stops, OutOfBytes
  <2>3. LabelCopied(b, q, r) BY <2>2, NextLabelFacts
  <2>4. Len(d) < NAME_BUF /\ d \in Seq(Byte)
    <3>1. d \in Seq(Byte) BY <2>3 DEF LabelCopied
    <3>2. CASE d = q.name BY <2>1, <3>1, <3>2
    <3>3. CASE d # q.name
      <4>1. d = Append(q.name, Dot) /\ Room(q.name) > 0 BY <3>3 DEF Dotted
      <4>2. Len(d) = Len(q.name) + 1 BY <2>1, <4>1
      <4> QED BY <2>1, <3>1, <4>1, <4>2, RoomFacts, NameBufAssumption
    <3> QED BY <3>2, <3>3
  <2>5. Room(d) = NAME_BUF - 1 - Len(d) BY <2>4, RoomFacts
  <2>6. r \in Query /\ Len(r.name) = Len(d) + Copied(b, q) /\ Copied(b, q) =< Room(d)
        /\ Copied(b, q) \in Nat
    BY <2>3 DEF LabelCopied
  <2> HIDE DEF r, d
  <2>7. Len(r.name) < NAME_BUF BY <2>4, <2>5, <2>6, NameBufAssumption
  <2> QED BY <2>6, <2>7 DEF r
<1>5. copy[Start] \in P
  <2> HIDE DEF P
  <2>1. P \in SUBSET Query BY DEF P
  <2> QED BY <1>1, <1>2, <1>3, <1>4, <2>1, WalkEnds
<1> QED BY <1>1, <1>5

Offset == Nat \ {0}

LEMMA SkipNameFacts ==
  ASSUME NEW b \in Seq(Byte), NEW off \in Offset
  PROVE  /\ SkipName(b, off) \in Offset
         /\ off =< Len(b) /\ IsPointer(b[off]) => SkipName(b, off) = off + 2
<1> DEFINE stops(i) == i > Len(b) \/ b[i] = 0 \/ IsPointer(b[i])
           ended(i) == IF i > Len(b) THEN i ELSE IF b[i] = 0 THEN i + 1 ELSE i + 2
           Eq(s) == s = [i \in Nat \ {0} |-> IF i > Len(b) THEN i
                                             ELSE IF b[i] = 0 THEN i + 1
                                             ELSE IF IsPointer(b[i]) THEN i + 2
                                             ELSE s[i + 1 + b[i]]]
           skip == CHOOSE s : Eq(s)
           stop == [i \in Offset |-> IF stops(i) THEN TRUE ELSE FALSE]
           next == [i \in Offset |-> IF stops(i) THEN i ELSE i + 1 + b[i]]
           out == [i \in Offset |-> ended(i)]
           with == [i \in Offset |-> [j \in Offset |-> j]]
           left == [i \in Offset |-> IF i > Len(b) THEN 0 ELSE Len(b) + 1 - i]
<1>1. Len(b) \in Nat /\ \A i \in Offset : i \in Nat /\ i # 0
  BY DEF Offset
<1>2. ASSUME NEW i \in Offset, ~stops(i)
      PROVE  i + 1 + b[i] \in Offset /\ i + 1 + b[i] > i /\ i =< Len(b)
  <2>1. i \in 1..Len(b) BY <1>1, <1>2
  <2>2. b[i] \in Byte BY <2>1
  <2>3. b[i] \in Nat BY <2>2, ByteIsNat
  <2> QED BY <1>1, <2>1, <2>3 DEF Offset
<1>3. \A i \in Offset : ended(i) \in Offset
  BY <1>1 DEF Offset
<1>4. IsRecursion(Offset, Offset, stop, next, out, with, left)
  <2> HIDE DEF stops, ended
  <2>1. stop \in [Offset -> BOOLEAN] OBVIOUS
  <2>2. next \in [Offset -> Offset] BY <1>2
  <2>3. out \in [Offset -> Offset] BY <1>3
  <2>4. with \in [Offset -> [Offset -> Offset]] OBVIOUS
  <2>5. left \in [Offset -> Nat] BY <1>1
  <2>6. ASSUME NEW i \in Offset, ~stop[i] PROVE left[next[i]] < left[i]
    <3>1. ~stops(i) BY <2>6
    <3>2. next[i] = i + 1 + b[i] /\ next[i] \in Offset /\ next[i] > i /\ i =< Len(b)
      BY <1>2, <3>1
    <3> QED BY <1>1, <3>2
  <2> HIDE DEF stop, next, out, with, left
  <2> QED BY <2>1, <2>2, <2>3, <2>4, <2>5, <2>6 DEF IsRecursion
<1>5. PICK f \in [Offset -> Offset] :
        \A i \in Offset : f[i] = IF stop[i] THEN out[i] ELSE with[i][f[next[i]]]
  <2> HIDE DEF stop, next, out, with, left
  <2> QED BY <1>4, Recursion
<1>6. \A i \in Offset : f[i] = IF stops(i) THEN ended(i) ELSE f[i + 1 + b[i]]
  <2> HIDE DEF stops, ended
  <2> QED BY <1>2, <1>5
<1>7. Eq(f)
  <2>1. Offset = Nat \ {0} BY DEF Offset
  <2> QED BY <1>6, <2>1
<1>8. Eq(skip)
  <2> HIDE DEF Eq
  <2> QED BY <1>7
<1>9. \A i \in Offset : skip[i] = IF stops(i) THEN ended(i) ELSE skip[i + 1 + b[i]]
  <2> HIDE DEF skip
  <2> QED BY <1>8 DEF Offset
<1>10. SkipName(b, off) = skip[off]
  BY DEF SkipName
<1> HIDE DEF skip
<1> DEFINE G == {n \in Nat : \A i \in Offset : left[i] =< n => skip[i] \in Offset}
<1>11. \A i \in Offset : left[i] \in Nat /\ (left[i] = 0 => stops(i))
  BY <1>1
<1>12. ASSUME NEW i \in Offset, ~stops(i)
       PROVE  /\ skip[i] = skip[i + 1 + b[i]] /\ i + 1 + b[i] \in Offset
              /\ left[i + 1 + b[i]] < left[i] /\ left[i + 1 + b[i]] \in Nat
  <2>1. i + 1 + b[i] \in Offset /\ i + 1 + b[i] > i /\ i =< Len(b) BY <1>2, <1>12
  <2> HIDE DEF stops
  <2>2. skip[i] = skip[i + 1 + b[i]] BY <1>9, <1>12
  <2> QED BY <1>1, <2>1, <2>2
<1> HIDE DEF stops, ended, left
<1>13. 0 \in G
  BY <1>3, <1>9, <1>11
<1>14. ASSUME NEW n \in Nat, n \in G PROVE n + 1 \in G
  <2>1. SUFFICES ASSUME NEW i \in Offset, left[i] =< n + 1 PROVE skip[i] \in Offset
    OBVIOUS
  <2>2. CASE stops(i)
    BY <1>3, <1>9, <2>2
  <2>3. CASE ~stops(i)
    <3>1. /\ skip[i] = skip[i + 1 + b[i]] /\ i + 1 + b[i] \in Offset
          /\ left[i + 1 + b[i]] < left[i] /\ left[i + 1 + b[i]] \in Nat
      BY <1>12, <2>3
    <3>2. left[i + 1 + b[i]] =< n BY <1>11, <2>1, <3>1
    <3> QED BY <1>14, <3>1, <3>2
  <2> QED BY <2>2, <2>3
<1>15. \A n \in Nat : n \in G
  <2> HIDE DEF G
  <2> QED BY <1>13, <1>14, Induction
<1>16. skip[off] \in Offset
  BY <1>11, <1>15
<1>17. ASSUME off =< Len(b), IsPointer(b[off]) PROVE skip[off] = off + 2
  <2>1. b[off] # 0 BY <1>17 DEF IsPointer
  <2>2. stops(off) /\ ended(off) = off + 2 BY <1>1, <1>17, <2>1 DEF stops, ended
  <2> QED BY <1>9, <2>2
<1> QED BY <1>10, <1>16, <1>17

LEMMA AnswersFromFacts ==
  ASSUME NEW b \in Seq(Byte), NEW off \in Offset, NEW qdcount \in Offset
  PROVE  /\ AnswersFrom(b, off, qdcount) \in Offset
         /\ qdcount = 1 => AnswersFrom(b, off, qdcount) = off + 4
<1> DEFINE n == qdcount - 1
           Step(i) == IF i > Len(b) THEN i ELSE SkipName(b, i) + 4
           Eq(f) == f = [q \in 0..n |-> IF q = 0 THEN off ELSE Step(f[q - 1])]
           skip == CHOOSE f : Eq(f)
           step == [q \in 1..n |-> [i \in Offset |-> Step(i)]]
<1>1. n \in Nat
  BY DEF Offset
<1>2. \A i \in Offset : Step(i) \in Offset
  <2>1. \A i \in Offset : SkipName(b, i) \in Offset BY SkipNameFacts
  <2> QED BY <2>1 DEF Offset
<1> HIDE DEF Step, n
<1>3. PICK f \in [0..n -> Offset] : f[0] = off /\ \A q \in 1..n : f[q] = step[q][f[q - 1]]
  <2>1. step \in [1..n -> [Offset -> Offset]] BY <1>2
  <2> HIDE DEF step
  <2>2. IsCountdown(Offset, n, off, step) BY <1>1, <2>1 DEF IsCountdown
  <2>3. \E f : CountsDown(Offset, n, off, step, f) BY <2>2, Countdown
  <2> QED BY <2>3 DEF CountsDown
<1>4. Eq(f)
  <2>1. ASSUME NEW q \in 0..n, q # 0 PROVE f[q] = Step(f[q - 1])
    <3>1. q \in 1..n /\ q - 1 \in 0..n /\ f[q - 1] \in Offset BY <1>1, <2>1
    <3> QED BY <1>3, <3>1
  <2> QED BY <1>3, <2>1
<1>5. Eq(skip)
  <2> HIDE DEF Eq
  <2> QED BY <1>4
<1>6. skip[0] = off /\ \A q \in 1..n : skip[q] = Step(skip[q - 1])
  <2> HIDE DEF skip
  <2> QED BY <1>1, <1>5
<1>7. AnswersFrom(b, off, qdcount) = skip[n] + 4
  BY DEF AnswersFrom, Step, n
<1> HIDE DEF skip
<1> DEFINE G == {q \in Nat : q =< n => skip[q] \in Offset}
<1>8. 0 \in G
  BY <1>6
<1>9. ASSUME NEW q \in Nat, q \in G PROVE q + 1 \in G
  <2>1. SUFFICES ASSUME q + 1 =< n PROVE skip[q + 1] \in Offset OBVIOUS
  <2>2. q + 1 \in 1..n /\ (q + 1) - 1 = q /\ q =< n BY <1>1, <2>1
  <2> QED BY <1>2, <1>6, <1>9, <2>2
<1>10. n \in G
  <2> HIDE DEF G
  <2> QED BY <1>1, <1>8, <1>9, Induction
<1>11. skip[n] \in Offset
  BY <1>1, <1>10
<1>12. qdcount = 1 => n = 0
  BY DEF n
<1> QED BY <1>6, <1>7, <1>11, <1>12 DEF Offset

Address == [ip : [1..4 -> Byte], ttl : Nat]
Records == [found : Seq(Address), off : Offset]

LEMMA NumberAt ==
  ASSUME NEW b \in Seq(Byte), NEW i \in Offset, i < Len(b)
  PROVE  U16(b, i) \in Nat
<1>1. Len(b) \in Nat /\ i \in 1..Len(b) /\ i + 1 \in 1..Len(b)
  BY DEF Offset
<1>2. b[i] \in Byte /\ b[i + 1] \in Byte
  BY <1>1
<1>3. b[i] \in Nat /\ b[i + 1] \in Nat
  BY <1>2, ByteIsNat
<1> QED BY <1>3 DEF U16

\* Where the fixed part of the record at off is, whether the record is all there, and
\* what address it would give.
Fixed(b, off) == SkipName(b, off)
Fits(b, off) ==
  /\ off + 9 =< Len(b) /\ Fixed(b, off) + 9 =< Len(b)
  /\ Fixed(b, off) + 10 + U16(b, Fixed(b, off) + 8) - 1 =< Len(b)
AddressAt(b, off) ==
  [ip |-> SubSeq(b, Fixed(b, off) + 10, Fixed(b, off) + 10 + 3),
   ttl |-> 65536 * U16(b, Fixed(b, off) + 4) + U16(b, Fixed(b, off) + 6)]
Behind(b, off) == Fixed(b, off) + 10 + U16(b, Fixed(b, off) + 8)

LEMMA NextRecordCases ==
  ASSUME NEW b \in Seq(Byte), NEW r \in Records
  PROVE  /\ ~Fits(b, r.off) => NextRecord(b, r) = r
         /\ Fits(b, r.off) =>
              NextRecord(b, r) =
                [found |-> IF IsA(b, Fixed(b, r.off)) THEN Append(r.found, AddressAt(b, r.off))
                           ELSE r.found,
                 off |-> Behind(b, r.off)]
<1> DEFINE off == r.off
           h == Fixed(b, off)
           u == U16(b, h + 8)
<1>1. off \in Offset /\ h \in Offset /\ Len(b) \in Nat
  BY SkipNameFacts DEF Records, Fixed
<1> HIDE DEF off, h
<1>2. /\ ~(off + 9 =< Len(b)) <=> off + 9 > Len(b)
      /\ ~(h + 9 =< Len(b)) <=> h + 9 > Len(b)
  BY <1>1 DEF Offset
<1>3. h + 9 =< Len(b) => (~(h + 10 + u - 1 =< Len(b)) <=> h + 10 + u - 1 > Len(b))
  <2> SUFFICES ASSUME h + 9 =< Len(b)
               PROVE  ~(h + 10 + u - 1 =< Len(b)) <=> h + 10 + u - 1 > Len(b)
    OBVIOUS
  <2>1. h + 8 \in Offset /\ h + 8 < Len(b) BY <1>1 DEF Offset
  <2>2. u \in Nat BY <2>1, NumberAt
  <2> HIDE DEF u
  <2> QED BY <1>1, <2>2 DEF Offset
<1> HIDE DEF u
<1>4. Fits(b, r.off) <=> off + 9 =< Len(b) /\ h + 9 =< Len(b) /\ h + 10 + u - 1 =< Len(b)
  BY DEF Fits, off, h, u
<1>5. ~Fits(b, r.off) <=>
        off + 9 > Len(b) \/ h + 9 > Len(b) \/ h + 10 + u - 1 > Len(b)
  BY <1>2, <1>3, <1>4
<1>6. NextRecord(b, r) =
        IF off + 9 > Len(b) \/ h + 9 > Len(b) \/ h + 10 + u - 1 > Len(b) THEN r
        ELSE [found |-> IF IsA(b, h) THEN Append(r.found, AddressAt(b, off)) ELSE r.found,
              off |-> h + 10 + u]
  BY DEF NextRecord, AddressAt, off, h, u, Fixed
<1> QED
  BY <1>5, <1>6 DEF Behind, off, h, u

LEMMA AddressTyped ==
  ASSUME NEW b \in Seq(Byte), NEW off \in Offset, Fits(b, off)
  PROVE  /\ IsA(b, Fixed(b, off)) => AddressAt(b, off) \in Address
         /\ Behind(b, off) \in Offset
<1> DEFINE h == Fixed(b, off)
<1>1. h \in Offset /\ Len(b) \in Nat /\ h + 9 =< Len(b)
  BY SkipNameFacts DEF Fits, Fixed
<1>2. h + 10 + U16(b, h + 8) - 1 =< Len(b) /\ off \in Offset
  BY DEF Fits
<1> HIDE DEF h
<1>3. /\ h + 4 \in Offset /\ h + 4 < Len(b)
      /\ h + 6 \in Offset /\ h + 6 < Len(b)
      /\ h + 8 \in Offset /\ h + 8 < Len(b)
  BY <1>1 DEF Offset
<1>4. U16(b, h + 4) \in Nat /\ U16(b, h + 6) \in Nat /\ U16(b, h + 8) \in Nat
  BY <1>3, NumberAt
<1>5. h + 10 + U16(b, h + 8) \in Offset
  BY <1>1, <1>4 DEF Offset
<1>6. ASSUME IsA(b, h) PROVE SubSeq(b, h + 10, h + 10 + 3) \in [1..4 -> Byte]
  <2>1. U16(b, h + 8) = 4 BY <1>6 DEF IsA
  <2>2. h + 10 + 3 =< Len(b) BY <1>1, <1>2, <2>1 DEF Offset
  <2>3. h + 10 \in Int /\ h + 10 + 3 \in Int
        /\ \A i \in (h + 10)..(h + 10 + 3) : b[i] \in Byte
    BY <1>1, <2>2 DEF Offset
  <2> DEFINE s == SubSeq(b, h + 10, h + 10 + 3)
  <2>4. s \in Seq(Byte)
        /\ Len(s) = IF h + 10 =< h + 10 + 3 THEN (h + 10 + 3) - (h + 10) + 1 ELSE 0
    BY <2>3, SubSeqProperties
  <2>5. h + 10 =< h + 10 + 3 /\ (h + 10 + 3) - (h + 10) + 1 = 4 BY <1>1 DEF Offset
  <2> HIDE DEF s
  <2>6. Len(s) = 4 BY <2>4, <2>5
  <2>7. s \in [1..Len(s) -> Byte] BY <2>4, LenProperties
  <2>8. s \in [1..4 -> Byte] BY <2>6, <2>7
  <2> QED BY <2>8 DEF s
<1>7. 65536 * U16(b, h + 4) + U16(b, h + 6) \in Nat
  BY <1>4
<1> QED
  BY <1>5, <1>6, <1>7 DEF Address, AddressAt, Behind, h

LEMMA NextRecordTyped ==
  ASSUME NEW b \in Seq(Byte), NEW r \in Records
  PROVE  NextRecord(b, r) \in Records
<1>1. r.found \in Seq(Address) /\ r.off \in Offset
  BY DEF Records
<1>2. CASE ~Fits(b, r.off)
  BY <1>2, NextRecordCases
<1>3. CASE Fits(b, r.off)
  <2>1. /\ IsA(b, Fixed(b, r.off)) => AddressAt(b, r.off) \in Address
        /\ Behind(b, r.off) \in Offset
    BY <1>1, <1>3, AddressTyped
  <2>2. IsA(b, Fixed(b, r.off)) => Append(r.found, AddressAt(b, r.off)) \in Seq(Address)
    BY <1>1, <2>1
  <2> DEFINE found == IF IsA(b, Fixed(b, r.off)) THEN Append(r.found, AddressAt(b, r.off))
                      ELSE r.found
  <2>3. found \in Seq(Address)
    BY <1>1, <2>2
  <2>4. NextRecord(b, r) = [found |-> found, off |-> Behind(b, r.off)]
    BY <1>3, NextRecordCases
  <2> HIDE DEF found
  <2> QED BY <2>1, <2>3, <2>4 DEF Records
<1> QED BY <1>2, <1>3

\* read holds what there is after each record.
IsRead(b, off, n, read) ==
  /\ read[0] = [found |-> <<>>, off |-> off]
  /\ \A a \in 1..n : read[a] = NextRecord(b, read[a - 1])
  /\ \A a \in 0..n : read[a] \in Records

LEMMA ARecordsAreRead ==
  ASSUME NEW b \in Seq(Byte), NEW off \in Offset, NEW n \in Nat
  PROVE  \E read : IsRead(b, off, n, read) /\ ARecords(b, off, n) = read[n].found
<1> DEFINE base == [found |-> <<>>, off |-> off]
           Eq(f) == f = [a \in 0..n |-> IF a = 0 THEN base ELSE NextRecord(b, f[a - 1])]
           read == CHOOSE f : Eq(f)
           step == [a \in 1..n |-> [r \in Records |-> NextRecord(b, r)]]
<1>1. base \in Records
  <2>1. <<>> \in Seq(Address) OBVIOUS
  <2> QED BY <2>1 DEF Records
<1>2. PICK f \in [0..n -> Records] : f[0] = base /\ \A a \in 1..n : f[a] = step[a][f[a - 1]]
  <2>1. step \in [1..n -> [Records -> Records]] BY NextRecordTyped
  <2> HIDE DEF step, base
  <2>2. IsCountdown(Records, n, base, step) BY <1>1, <2>1 DEF IsCountdown
  <2>3. \E f : CountsDown(Records, n, base, step, f) BY <2>2, Countdown
  <2> QED BY <2>3 DEF CountsDown
<1> HIDE DEF base
<1>3. Eq(f)
  <2>1. ASSUME NEW a \in 0..n, a # 0 PROVE f[a] = NextRecord(b, f[a - 1])
    <3>1. a \in 1..n /\ a - 1 \in 0..n /\ f[a - 1] \in Records BY <2>1
    <3> QED BY <1>2, <3>1
  <2> QED BY <1>2, <2>1
<1>4. Eq(read)
  <2> HIDE DEF Eq
  <2> QED BY <1>3
<1>5. read[0] = base /\ \A a \in 1..n : read[a] = NextRecord(b, read[a - 1])
  <2> HIDE DEF read
  <2> QED BY <1>4
<1>6. ARecords(b, off, n) = read[n].found
  BY DEF ARecords, base
<1> HIDE DEF read
<1> DEFINE G == {a \in Nat : a =< n => read[a] \in Records}
<1>7. 0 \in G
  BY <1>1, <1>5
<1>8. ASSUME NEW a \in Nat, a \in G PROVE a + 1 \in G
  <2>1. SUFFICES ASSUME a + 1 =< n PROVE read[a + 1] \in Records OBVIOUS
  <2>2. a + 1 \in 1..n /\ (a + 1) - 1 = a /\ a =< n BY <2>1
  <2> QED BY <1>5, <1>8, <2>2, NextRecordTyped
<1>9. \A a \in Nat : a \in G
  <2> HIDE DEF G
  <2> QED BY <1>7, <1>8, Induction
<1>10. \A a \in 0..n : read[a] \in Records
  BY <1>9
<1> QED BY <1>5, <1>6, <1>10 DEF IsRead, base

LEMMA ARecordsTyped ==
  ASSUME NEW b \in Seq(Byte), NEW off \in Offset, NEW n \in Nat
  PROVE  ARecords(b, off, n) \in Seq(Address)
<1>1. PICK read : IsRead(b, off, n, read) /\ ARecords(b, off, n) = read[n].found
  BY ARecordsAreRead
<1>2. read[n] \in Records BY <1>1 DEF IsRead
<1> QED BY <1>1, <1>2 DEF Records

\* Two sequences behind each other.
LEMMA ConcatFacts ==
  ASSUME NEW T, NEW s \in Seq(T), NEW t \in Seq(T)
  PROVE  /\ s \o t \in Seq(T) /\ Len(s \o t) = Len(s) + Len(t)
         /\ Len(s) \in Nat /\ Len(t) \in Nat
         /\ \A i \in 1..Len(s) : (s \o t)[i] = s[i]
         /\ \A j \in 1..Len(t) : (s \o t)[Len(s) + j] = t[j]
<1>1. Len(s) \in Nat /\ Len(t) \in Nat
  OBVIOUS
<1>2. /\ s \o t \in Seq(T) /\ Len(s \o t) = Len(s) + Len(t)
      /\ \A i \in 1..(Len(s) + Len(t)) : (s \o t)[i] = IF i <= Len(s) THEN s[i] ELSE t[i - Len(s)]
  BY ConcatProperties
<1>3. \A i \in 1..Len(s) : i \in 1..(Len(s) + Len(t)) /\ i <= Len(s)
  BY <1>1
<1>4. \A j \in 1..Len(t) : /\ Len(s) + j \in 1..(Len(s) + Len(t)) /\ ~(Len(s) + j <= Len(s))
                            /\ (Len(s) + j) - Len(s) = j
  BY <1>1
<1> QED
  BY <1>1, <1>2, <1>3, <1>4

\* flat is the sequences seqs behind each other, the k-th of which ends at ends[k].
IsFlat(seqs, flat, ends) ==
  /\ ends[0] = 0 /\ ends[Len(seqs)] = Len(flat)
  /\ \A k \in 0..Len(seqs) : ends[k] \in Nat /\ ends[k] =< Len(flat)
  /\ \A k \in 1..Len(seqs) : /\ ends[k] = ends[k - 1] + Len(seqs[k])
                             /\ \A j \in 1..Len(seqs[k]) : flat[ends[k - 1] + j] = seqs[k][j]

LEMMA FlattenFacts ==
  ASSUME NEW T, NEW seqs \in Seq(Seq(T))
  PROVE  FlattenSeq(seqs) \in Seq(T) /\ \E ends : IsFlat(seqs, FlattenSeq(seqs), ends)
<1> DEFINE n == Len(seqs)
           Eq(f) == f = [i \in 1..n |-> IF i = 1 THEN seqs[i] ELSE f[i - 1] \o seqs[i]]
           flatten == CHOOSE f : Eq(f)
           step == [i \in 1..n |-> [s \in Seq(T) |-> s \o seqs[i]]]
<1>1. n \in Nat /\ \A i \in 1..n : seqs[i] \in Seq(T) /\ Len(seqs[i]) \in Nat
  OBVIOUS
<1>2. CASE n = 0
  <2>1. seqs = <<>> BY <1>2
  <2>2. FlattenSeq(seqs) = <<>> BY <1>2, <2>1 DEF FlattenSeq
  <2>3. IsFlat(seqs, <<>>, [k \in 0..0 |-> 0]) BY <1>2, <2>1 DEF IsFlat
  <2> QED BY <2>2, <2>3
<1>3. CASE n # 0
  <2>1. PICK f \in [0..n -> Seq(T)] : f[0] = <<>> /\ \A i \in 1..n : f[i] = step[i][f[i - 1]]
    <3>1. \A s \in Seq(T) : \A i \in 1..n : s \o seqs[i] \in Seq(T)
      BY <1>1, ConcatProperties
    <3>2. step \in [1..n -> [Seq(T) -> Seq(T)]] BY <3>1
    <3>3. <<>> \in Seq(T) OBVIOUS
    <3> HIDE DEF step, n
    <3>4. IsCountdown(Seq(T), n, <<>>, step) BY <1>1, <3>2, <3>3 DEF IsCountdown
    <3>5. \E f : CountsDown(Seq(T), n, <<>>, step, f) BY <3>4, Countdown
    <3> QED BY <3>5 DEF CountsDown
  <2> HIDE DEF n
  <2>2. ASSUME NEW i \in 1..n PROVE f[i] = f[i - 1] \o seqs[i]
    <3>1. i - 1 \in 0..n BY <1>1
    <3> QED BY <2>1, <3>1
  <2>3. f[1] = seqs[1]
    <3>1. 1 \in 1..n BY <1>1, <1>3
    <3>2. 1 - 1 = 0 OBVIOUS
    <3>3. f[1] = f[1 - 1] \o seqs[1] BY <2>2, <3>1
    <3>4. f[1] = <<>> \o seqs[1] BY <2>1, <3>2, <3>3
    <3> QED BY <1>1, <3>1, <3>4, ConcatEmptySeq
  <2>4. Eq([i \in 1..n |-> f[i]])
    <3>1. ASSUME NEW i \in 1..n, i # 1 PROVE i - 1 \in 1..n BY <1>1, <3>1
    <3> QED BY <2>2, <2>3, <3>1
  <2>5. Eq(flatten)
    <3> HIDE DEF Eq
    <3> QED BY <2>4
  <2>6. FlattenSeq(seqs) = flatten[n]
    BY <1>3 DEF FlattenSeq, n
  <2>7. /\ \A i \in 1..n : i # 1 => flatten[i] = flatten[i - 1] \o seqs[i]
        /\ 1 \in 1..n => flatten[1] = seqs[1]
    <3> HIDE DEF flatten
    <3> QED BY <2>5
  <2> HIDE DEF flatten, step
  <2> DEFINE G == {k \in Nat : k \in 1..n => flatten[k] = f[k]}
  <2>8. \A k \in Nat : k \in G
    <3>1. 0 \in G OBVIOUS
    <3>2. ASSUME NEW k \in Nat, k \in G PROVE k + 1 \in G
      <4>1. SUFFICES ASSUME k + 1 \in 1..n PROVE flatten[k + 1] = f[k + 1] OBVIOUS
      <4>2. CASE k = 0 BY <2>3, <2>7, <4>1, <4>2
      <4>3. CASE k # 0
        <5>1. k \in 1..n /\ (k + 1) - 1 = k /\ k + 1 # 1 BY <1>1, <4>1, <4>3
        <5>2. flatten[k + 1] = flatten[k] \o seqs[k + 1] BY <2>7, <4>1, <5>1
        <5>3. f[k + 1] = f[k] \o seqs[k + 1] BY <2>2, <4>1, <5>1
        <5> QED BY <3>2, <5>1, <5>2, <5>3
      <4> QED BY <4>2, <4>3
    <3> HIDE DEF G
    <3> QED BY <3>1, <3>2, Induction
  <2>9. FlattenSeq(seqs) = f[n] /\ f[n] \in Seq(T)
    BY <1>1, <1>3, <2>6, <2>8
  <2> DEFINE ends == [k \in 0..n |-> Len(f[k])]
  <2>10. ASSUME NEW k \in 1..n
         PROVE  /\ Len(f[k]) = Len(f[k - 1]) + Len(seqs[k])
                /\ \A i \in 1..Len(f[k - 1]) : f[k][i] = f[k - 1][i]
                /\ \A j \in 1..Len(seqs[k]) : f[k][Len(f[k - 1]) + j] = seqs[k][j]
    <3> DEFINE s == f[k - 1]
               t == seqs[k]
    <3>1. s \in Seq(T) /\ t \in Seq(T) /\ Len(s) \in Nat /\ Len(t) \in Nat
      <4>1. k - 1 \in 0..n BY <1>1
      <4> QED BY <1>1, <4>1
    <3>2. f[k] = s \o t BY <2>2
    <3> HIDE DEF s, t
    <3>3. /\ Len(s \o t) = Len(s) + Len(t)
          /\ \A i \in 1..Len(s) : (s \o t)[i] = s[i]
          /\ \A j \in 1..Len(t) : (s \o t)[Len(s) + j] = t[j]
      BY <3>1, ConcatFacts
    <3> QED BY <3>2, <3>3 DEF s, t
  <2>11. \A k \in 0..n : Len(f[k]) \in Nat
    BY <2>1
  <2> DEFINE H == {l \in Nat : \A k \in 0..n : k + l =< n =>
                      /\ Len(f[k]) =< Len(f[k + l])
                      /\ \A i \in 1..Len(f[k]) : f[k + l][i] = f[k][i]}
  <2>12. \A l \in Nat : l \in H
    <3>1. 0 \in H BY <1>1, <2>11
    <3>2. ASSUME NEW l \in Nat, l \in H PROVE l + 1 \in H
      <4>1. SUFFICES ASSUME NEW k \in 0..n, k + (l + 1) =< n
                     PROVE  /\ Len(f[k]) =< Len(f[k + (l + 1)])
                            /\ \A i \in 1..Len(f[k]) : f[k + (l + 1)][i] = f[k][i]
        OBVIOUS
      <4> DEFINE m == k + (l + 1)
      <4>2. m \in 1..n /\ m - 1 = k + l /\ k + l =< n /\ k + l \in 0..n BY <1>1, <4>1
      <4>3. Len(f[k]) =< Len(f[m - 1]) /\ \A i \in 1..Len(f[k]) : f[m - 1][i] = f[k][i]
        BY <3>2, <4>2
      <4> HIDE DEF m
      <4>4. /\ Len(f[m]) = Len(f[m - 1]) + Len(seqs[m])
            /\ \A i \in 1..Len(f[m - 1]) : f[m][i] = f[m - 1][i]
        BY <2>10, <4>2
      <4>5. Len(f[k]) \in Nat /\ Len(f[m - 1]) \in Nat /\ Len(seqs[m]) \in Nat
        BY <1>1, <2>11, <4>2
      <4>6. Len(f[k]) =< Len(f[m])
        <5>1. \A x, y, z \in Nat : x =< y => x =< y + z OBVIOUS
        <5> QED BY <4>3, <4>4, <4>5, <5>1
      <4>7. \A i \in 1..Len(f[k]) : f[m][i] = f[k][i]
        <5>1. \A i \in 1..Len(f[k]) : i \in 1..Len(f[m - 1]) BY <4>3, <4>5
        <5> QED BY <4>3, <4>4, <5>1
      <4> QED BY <4>6, <4>7 DEF m
    <3> HIDE DEF H
    <3> QED BY <3>1, <3>2, Induction
  <2>13. \A k \in 0..n : Len(f[k]) =< Len(f[n]) /\ \A i \in 1..Len(f[k]) : f[n][i] = f[k][i]
    <3> SUFFICES ASSUME NEW k \in 0..n
                 PROVE  Len(f[k]) =< Len(f[n]) /\ \A i \in 1..Len(f[k]) : f[n][i] = f[k][i]
      OBVIOUS
    <3>1. n - k \in Nat /\ k + (n - k) = n BY <1>1
    <3>2. n - k \in H BY <2>12, <3>1
    <3> QED BY <1>1, <3>1, <3>2
  <2> HIDE DEF H, G
  <2>14. ends[0] = 0 /\ ends[n] = Len(f[n])
    BY <1>1, <2>1
  <2>15. \A k \in 0..n : ends[k] \in Nat /\ ends[k] =< Len(f[n])
    BY <2>11, <2>13
  <2>16. ASSUME NEW k \in 1..n
         PROVE  /\ ends[k] = ends[k - 1] + Len(seqs[k])
                /\ \A j \in 1..Len(seqs[k]) : f[n][ends[k - 1] + j] = seqs[k][j]
    <3>1. k \in 0..n /\ k - 1 \in 0..n BY <1>1
    <3>2. ends[k] = Len(f[k]) /\ ends[k - 1] = Len(f[k - 1]) BY <3>1
    <3>3. Len(f[k - 1]) \in Nat /\ Len(seqs[k]) \in Nat BY <1>1, <2>11, <3>1
    <3> HIDE DEF ends
    <3>4. ASSUME NEW j \in 1..Len(seqs[k]) PROVE f[n][Len(f[k - 1]) + j] = seqs[k][j]
      <4>1. Len(f[k - 1]) + j \in 1..Len(f[k])
        <5>1. \A x, y \in Nat : \A i \in 1..y : x + i \in 1..(x + y) OBVIOUS
        <5> QED BY <2>10, <3>3, <5>1
      <4> QED BY <2>10, <2>13, <3>1, <4>1
    <3> QED BY <2>10, <3>2, <3>4
  <2> HIDE DEF ends
  <2>17. IsFlat(seqs, f[n], ends)
    BY <2>14, <2>15, <2>16 DEF IsFlat, n
  <2> QED BY <2>9, <2>17
<1> QED BY <1>2, <1>3

-----------------------------------------------------------------------------
(* The types.  What a resolver sends is bytes, and so is what is captured of it. *)

\* A sequence behind one more element.
LEMMA LedFacts ==
  ASSUME NEW T, NEW x \in T, NEW l \in Seq(T)
  PROVE  /\ <<x>> \o l \in Seq(T) /\ Len(<<x>> \o l) = 1 + Len(l)
         /\ (<<x>> \o l)[1] = x /\ \A j \in 1..Len(l) : (<<x>> \o l)[1 + j] = l[j]
<1> DEFINE s == <<x>>
<1>1. s \in Seq(T) /\ Len(s) = 1 /\ s[1] = x /\ Len(l) \in Nat
  OBVIOUS
<1> HIDE DEF s
<1>2. /\ s \o l \in Seq(T) /\ Len(s \o l) = Len(s) + Len(l)
      /\ \A i \in 1..Len(s) : (s \o l)[i] = s[i]
      /\ \A j \in 1..Len(l) : (s \o l)[Len(s) + j] = l[j]
  BY <1>1, ConcatFacts
<1>3. 1 \in 1..Len(s)
  BY <1>1
<1> QED
  BY <1>1, <1>2, <1>3 DEF s

WireLabel(l) == <<Len(l)>> \o l

LEMMA WireLabelFacts ==
  ASSUME NEW l \in Label
  PROVE  /\ WireLabel(l) \in Seq(Byte) /\ Len(WireLabel(l)) = 1 + Len(l)
         /\ WireLabel(l)[1] = Len(l) /\ \A j \in 1..Len(l) : WireLabel(l)[1 + j] = l[j]
         /\ l \in Seq(1..191) => WireLabel(l) \in Seq(1..191)
<1>1. l \in Seq(Byte) /\ Len(l) \in 1..63
  BY DEF Label
<1>2. Len(l) \in Byte /\ Len(l) \in 1..191
  BY <1>1 DEF Byte
<1> QED
  BY <1>1, <1>2, LedFacts DEF WireLabel

\* The name, its labels, and where they end.
Labels(name) == [i \in DOMAIN name |-> WireLabel(name[i])]

LEMMA LabelsTyped ==
  ASSUME NEW name \in Seq(Label)
  PROVE  /\ Labels(name) \in Seq(Seq(Byte)) /\ Len(Labels(name)) = Len(name)
         /\ \A i \in 1..Len(name) : Labels(name)[i] = WireLabel(name[i]) /\ name[i] \in Label
<1>1. DOMAIN name = 1..Len(name) /\ Len(name) \in Nat /\ \A i \in 1..Len(name) : name[i] \in Label
  OBVIOUS
<1>2. \A i \in 1..Len(name) : WireLabel(name[i]) \in Seq(Byte)
  BY <1>1, WireLabelFacts
<1>3. Labels(name) = [i \in 1..Len(name) |-> WireLabel(name[i])]
  BY <1>1 DEF Labels
<1>4. [i \in 1..Len(name) |-> WireLabel(name[i])] \in [1..Len(name) -> Seq(Byte)]
  BY <1>2
<1> HIDE DEF WireLabel
<1>5. [i \in 1..Len(name) |-> WireLabel(name[i])] \in Seq(Seq(Byte))
  BY <1>1, <1>4, IsASeq
<1> QED
  BY <1>1, <1>3, <1>5

LEMMA WireNameTyped ==
  ASSUME NEW name \in Seq(Label)
  PROVE  /\ FlattenSeq(Labels(name)) \in Seq(Byte) /\ WireName(name) \in Seq(Byte)
         /\ WireName(name) = FlattenSeq(Labels(name)) \o <<0>>
<1>1. FlattenSeq(Labels(name)) \in Seq(Byte)
  BY LabelsTyped, FlattenFacts
<1>2. <<0>> \in Seq(Byte)
  BY DEF Byte
<1>3. WireName(name) = FlattenSeq(Labels(name)) \o <<0>>
  BY DEF WireName, Labels, WireLabel
<1> QED
  BY <1>1, <1>2, <1>3, ConcatProperties

LEMMA WireAnswerTyped ==
  ASSUME NEW a \in Answer
  PROVE  /\ WireAnswer(a) \in Seq(Byte) /\ a.rdata \in Seq(Byte)
         /\ WireAnswer(a) = <<192, 12, 0, a.type, 0, 1, 0, 0, 0, a.ttl, 0, Len(a.rdata)>> \o a.rdata
         /\ <<192, 12, 0, a.type, 0, 1, 0, 0, 0, a.ttl, 0, Len(a.rdata)>> \in Seq(Byte)
<1>1. a.rdata \in Seq(Byte) /\ a.type \in Byte /\ a.ttl \in Byte /\ Len(a.rdata) \in Byte
  BY DEF Answer
<1>2. 192 \in Byte /\ 12 \in Byte /\ 0 \in Byte /\ 1 \in Byte
  BY DEF Byte
<1>3. \A n \in Byte : <<192, 12, 0, a.type, 0, 1, 0, 0, 0, a.ttl, 0, n>> \in Seq(Byte)
  BY <1>1, <1>2
<1>4. <<192, 12, 0, a.type, 0, 1, 0, 0, 0, a.ttl, 0, Len(a.rdata)>> \in Seq(Byte)
  BY <1>1, <1>3
<1> QED
  BY <1>1, <1>4, ConcatProperties DEF WireAnswer

\* The questions and the answers as they are laid out.
Questions(m) == [i \in DOMAIN m.names |-> WireName(m.names[i]) \o <<0, 1, 0, 1>>]
Replies(m) == [i \in DOMAIN m.answers |-> WireAnswer(m.answers[i])]

LEMMA BodyTyped ==
  ASSUME NEW m \in Message
  PROVE  /\ Questions(m) \in Seq(Seq(Byte)) /\ Replies(m) \in Seq(Seq(Byte))
         /\ Len(Questions(m)) = Len(m.names) /\ Len(Replies(m)) = Len(m.answers)
         /\ m.names \in Seq(Seq(Label)) /\ m.answers \in Seq(Answer)
         /\ Encode(m).body = FlattenSeq(Questions(m)) \o FlattenSeq(Replies(m))
         /\ FlattenSeq(Questions(m)) \in Seq(Byte) /\ FlattenSeq(Replies(m)) \in Seq(Byte)
         /\ Encode(m).body \in Seq(Byte)
<1>1. m.names \in Seq(Seq(Label)) /\ m.answers \in Seq(Answer)
  BY HostAssumption
<1>2. Questions(m) \in Seq(Seq(Byte)) /\ Len(Questions(m)) = Len(m.names)
  <2>1. DOMAIN m.names = 1..Len(m.names) /\ Len(m.names) \in Nat
        /\ \A i \in 1..Len(m.names) : m.names[i] \in Seq(Label)
    BY <1>1
  <2>2. <<0, 1, 0, 1>> \in Seq(Byte) BY DEF Byte
  <2>3. \A i \in 1..Len(m.names) : WireName(m.names[i]) \o <<0, 1, 0, 1>> \in Seq(Byte)
    BY <2>1, <2>2, WireNameTyped, ConcatProperties
  <2>4. Questions(m) \in [1..Len(m.names) -> Seq(Byte)]
    BY <2>1, <2>3 DEF Questions
  <2>5. DOMAIN Questions(m) = 1..Len(m.names) BY <2>1 DEF Questions
  <2>6. Questions(m) \in Seq(Seq(Byte)) BY <2>1, <2>4, IsASeq
  <2> QED BY <2>1, <2>5, <2>6, LenProperties
<1>3. Replies(m) \in Seq(Seq(Byte)) /\ Len(Replies(m)) = Len(m.answers)
  <2>1. DOMAIN m.answers = 1..Len(m.answers) /\ Len(m.answers) \in Nat
        /\ \A i \in 1..Len(m.answers) : m.answers[i] \in Answer
    BY <1>1
  <2>2. \A i \in 1..Len(m.answers) : WireAnswer(m.answers[i]) \in Seq(Byte)
    BY <2>1, WireAnswerTyped
  <2>3. Replies(m) \in [1..Len(m.answers) -> Seq(Byte)]
    BY <2>1, <2>2 DEF Replies
  <2>4. DOMAIN Replies(m) = 1..Len(m.answers) BY <2>1 DEF Replies
  <2>5. Replies(m) \in Seq(Seq(Byte)) BY <2>1, <2>3, IsASeq
  <2> QED BY <2>1, <2>4, <2>5, LenProperties
<1>4. FlattenSeq(Questions(m)) \in Seq(Byte) /\ FlattenSeq(Replies(m)) \in Seq(Byte)
  BY <1>2, <1>3, FlattenFacts
<1>5. Encode(m).body = FlattenSeq(Questions(m)) \o FlattenSeq(Replies(m))
  BY DEF Encode, Questions, Replies
<1> QED
  BY <1>1, <1>2, <1>3, <1>4, <1>5, ConcatProperties

\* A captured reply, as the parser gets it.
Taken(m, n) == [Encode(m) EXCEPT !.body = SubSeq(@, 1, n)]

LEMMA TakenTyped ==
  ASSUME NEW m \in Message, NEW n \in Captured(m)
  PROVE  /\ n \in Nat /\ n =< Len(Encode(m).body) /\ Taken(m, n).body = SubSeq(Encode(m).body, 1, n)
         /\ Taken(m, n).body \in Seq(Byte) /\ Len(Taken(m, n).body) = n
         /\ \A i \in 1..n : Taken(m, n).body[i] = Encode(m).body[i]
         /\ Taken(m, n).response
         /\ Taken(m, n).qdcount = Len(m.names) /\ Taken(m, n).ancount = Len(m.answers)
         /\ Taken(m, n).qdcount \in Nat /\ Taken(m, n).ancount \in Nat
<1> DEFINE b == Encode(m).body
           s == SubSeq(b, 1, n)
<1>1. b \in Seq(Byte) /\ Len(b) \in Nat
  BY BodyTyped
<1>2. n \in Nat /\ n =< Len(b)
  <2>1. n = Len(b) \/ (n \in Cut /\ n < Len(b)) BY DEF Captured
  <2>2. Cut \subseteq Nat BY HostAssumption
  <2> HIDE DEF b, s
  <2>3. CASE n = Len(b) BY <1>1, <2>3
  <2>4. CASE n \in Cut /\ n < Len(b)
    <3>1. n \in Nat BY <2>2, <2>4
    <3> QED BY <1>1, <2>4, <3>1
  <2> QED BY <2>1, <2>3, <2>4
<1>3. m.names \in Seq(Seq(Label)) /\ m.answers \in Seq(Answer)
  BY BodyTyped
<1>4. /\ Taken(m, n).body = s /\ Taken(m, n).response
      /\ Taken(m, n).qdcount = Len(m.names) /\ Taken(m, n).ancount = Len(m.answers)
  BY DEF Taken, Encode
<1> HIDE DEF b
<1>5. s \in Seq(Byte) /\ Len(s) = n /\ \A i \in 1..n : s[i] = b[i]
  <2>1. 1 \in Int /\ n \in Int /\ \A i \in 1..n : b[i] \in Byte BY <1>1, <1>2
  <2>2. /\ s \in Seq(Byte) /\ Len(s) = (IF 1 =< n THEN n - 1 + 1 ELSE 0)
        /\ \A i \in 1..(n - 1 + 1) : s[i] = b[1 + i - 1]
    BY <2>1, SubSeqProperties
  <2>3. n - 1 + 1 = n /\ \A i \in 1..n : 1 + i - 1 = i BY <1>2
  <2> HIDE DEF s
  <2>4. Len(s) = n BY <1>2, <2>2, <2>3
  <2> QED BY <2>2, <2>3, <2>4
<1> QED
  BY <1>2, <1>3, <1>4, <1>5 DEF b

\* What is parsed, of any bytes.
LEMMA ParsedTyped ==
  ASSUME NEW msg, msg.body \in Seq(Byte), msg.qdcount \in Nat, msg.ancount \in Nat
  PROVE  /\ Parsed(msg).name \in Seq(Byte) /\ Len(Parsed(msg).name) < NAME_BUF
         /\ Parsed(msg).addresses \in Seq(Address)
<1> DEFINE q == QueryName(msg.body)
           from == AnswersFrom(msg.body, q.off, msg.qdcount)
           some == msg.response /\ msg.ancount > 0 /\ msg.qdcount > 0 /\ q.name # <<>>
<1>1. q \in Query /\ Len(q.name) < NAME_BUF
  BY QueryNameTyped
<1>2. q.name \in Seq(Byte) /\ q.off \in Offset
  BY <1>1 DEF Query, Offset
<1> HIDE DEF q
<1>3. ASSUME some PROVE ARecords(msg.body, from, msg.ancount) \in Seq(Address)
  <2>1. msg.qdcount \in Offset BY <1>3 DEF Offset
  <2>2. from \in Offset BY <1>2, <2>1, AnswersFromFacts
  <2> HIDE DEF from
  <2> QED BY <2>2, ARecordsTyped
<1>4. <<>> \in Seq(Address)
  OBVIOUS
<1>5. /\ Parsed(msg).name = q.name
      /\ Parsed(msg).addresses = IF some THEN ARecords(msg.body, from, msg.ancount) ELSE <<>>
  BY DEF Parsed, q
<1> HIDE DEF from, some
<1> QED
  BY <1>1, <1>2, <1>3, <1>4, <1>5

LEMMA MaxFacts ==
  ASSUME NEW n \in Nat, NEW S \in SUBSET (0..n), S # {}
  PROVE  Max(S) \in S /\ \A k \in S : Max(S) >= k
<1>1. \E m \in S : \A k \in S : m >= k
  BY HasGreatest
<1> QED
  BY <1>1 DEF Max

LEMMA ExpiryTyped ==
  ASSUME NEW ttl \in Nat, now \in 0..MaxTime
  PROVE  Expiry(ttl) \in 0..(MaxTime + MAX_TTL)
<1>1. ttl \in Int /\ MAX_TTL \in Nat /\ MaxTime \in Nat
  BY HostAssumption
<1>2. Min({ttl, MAX_TTL}) = IF ttl =< MAX_TTL THEN ttl ELSE MAX_TTL
  BY <1>1, MinOfTwo
<1>3. Min({ttl, MAX_TTL}) \in 0..MAX_TTL
  BY <1>1, <1>2
<1> QED
  BY <1>1, <1>3 DEF Expiry

\* The word of a host name.
LEMMA WordTyped ==
  ASSUME NEW host \in Seq(Byte), IsDomain(host)
  PROVE  Word(host) \in Seq(Byte)
<1> DEFINE h == IF Last(host) = Dot THEN Front(host) ELSE host
           dots == {i \in DOMAIN h : h[i] = Dot}
           last == Max(dots)
           before == {0} \cup (dots \ {last})
           start == 1 + Max(before)
<1>1. h \in Seq(Byte)
  <2>1. Len(host) \in Nat /\ 1 \in Int /\ Len(host) - 1 \in Int
        /\ \A i \in 1..(Len(host) - 1) : host[i] \in Byte
    OBVIOUS
  <2>2. SubSeq(host, 1, Len(host) - 1) \in Seq(Byte) BY <2>1, SubSeqProperties
  <2> QED BY <2>2 DEF Front
<1>2. Word(host) = IF dots = {} THEN h ELSE SubSeq(h, start, last - 1)
  BY DEF Word
<1> HIDE DEF h
<1>3. CASE dots = {}
  BY <1>1, <1>2, <1>3
<1>4. CASE dots # {}
  <2> DEFINE n == Len(h)
  <2>1. n \in Nat /\ dots \in SUBSET (0..n) /\ dots \in SUBSET (1..n) BY <1>1
  <2>2. last \in dots
    <3> HIDE DEF dots, n
    <3> QED BY <1>4, <2>1, MaxFacts
  <2>3. before \in SUBSET (0..n) /\ before # {} BY <2>1
  <2>4. Max(before) \in before
    <3> HIDE DEF before, n
    <3> QED BY <2>1, <2>3, MaxFacts
  <2>5. last \in 1..n /\ Max(before) \in 0..n BY <2>1, <2>2, <2>3, <2>4
  <2> HIDE DEF last, before
  <2>6. start \in Int /\ last - 1 \in Int /\ \A i \in start..(last - 1) : h[i] \in Byte
    BY <1>1, <2>5
  <2> HIDE DEF start
  <2>7. SubSeq(h, start, last - 1) \in Seq(Byte) BY <2>6, SubSeqProperties
  <2> QED BY <1>2, <1>4, <2>7
<1> QED
  BY <1>3, <1>4

LEMMA DynAppTyped ==
  ASSUME NEW host \in Seq(Byte), labels \in Seq(Seq(Byte))
  PROVE  LET d == DynApp(labels, host) IN d.labels \in Seq(Seq(Byte)) /\ d.id \in Nat
<1> DEFINE d == DynApp(labels, host)
           w == Word(host)
           p == Position(labels, w)
<1>1. Known(Native, host) \in Nat /\ Unknown \in Nat
  BY HostAssumption DEF Known, Unknown
<1>2. p \in Nat
  <2>1. /\ p \in DOMAIN labels => p \in Nat
        /\ p \notin DOMAIN labels => p = Len(labels) + 1
    <3> HIDE DEF w
    <3> QED BY PositionHolds
  <2> QED BY <2>1
<1>3. DynId(p) \in Nat
  BY <1>2 DEF DynId
<1>4. IsDomain(host) => Append(labels, w) \in Seq(Seq(Byte))
  BY WordTyped, AppendProperties
<1> HIDE DEF w
<1>5. /\ d.labels = labels \/ (IsDomain(host) /\ d.labels = Append(labels, w))
      /\ d.id \in {Unknown, Known(Native, host), DynId(p)}
  BY DEF DynApp, w
<1> QED
  BY <1>1, <1>3, <1>4, <1>5

\* The types hold for any messages and names, when the addresses are all there are: a
\* cut or misread reply may give any four bytes as one.  A name always fits its buffer,
\* NUL included, and an entry never outlives the cap on its TTL
\* (ndpi_dns_cache.h:81-94, 29-40; engine_get_dyn_app).
THEOREM TypesHold == ASSUME [1..4 -> Byte] \subseteq Ip PROVE Spec => []TypeOK
<1>1. Init => TypeOK
  <2>1. <<>> \in Seq(Byte) /\ Len(<<>>) = 0 /\ <<>> \in Seq(Seq(Byte)) OBVIOUS
  <2>2. Vacant \in Entry
    BY <2>1, HostAssumption, NameBufAssumption DEF Vacant, Entry, Unknown
  <2> QED BY <2>1, <2>2, HostAssumption DEF Init, TypeOK
<1>2. TypeOK /\ [Next]_vars => TypeOK'
  <2> SUFFICES ASSUME TypeOK, [Next]_vars PROVE TypeOK'
    OBVIOUS
  <2>0. /\ cache \in [Slot -> Entry] /\ labels \in Seq(Seq(Byte)) /\ now \in 0..MaxTime
        /\ \A ip \in Ip : Hash[ip] \in Slot
    BY HostAssumption DEF TypeOK
  <2>1. ASSUME NEW m \in Message, NEW n \in Captured(m), Reply(m, n) PROVE TypeOK'
    <3> DEFINE p == Parsed(Taken(m, n))
               At(s) == {i \in DOMAIN p.addresses : Hash[p.addresses[i].ip] = s}
    <3>1. /\ p.name \in Seq(Byte) /\ Len(p.name) < NAME_BUF /\ p.addresses \in Seq(Address)
      <4>1. m \in Message /\ n \in Captured(m) OBVIOUS
      <4>2. /\ Taken(m, n).body \in Seq(Byte) /\ Taken(m, n).qdcount \in Nat
            /\ Taken(m, n).ancount \in Nat
        BY <4>1, TakenTyped
      <4> QED BY <4>2, ParsedTyped
    <3>2. cache' = [s \in Slot |-> IF At(s) = {} THEN cache[s]
                                   ELSE Inserted(s, p.name, p.addresses[Max(At(s))])]
      BY <2>1 DEF Reply, dns_cache_update, Taken
    <3> HIDE DEF p
    <3>3. ASSUME NEW a \in Address PROVE \A s : Inserted(s, p.name, a) \in Entry
      <4>1. a.ip \in Ip /\ a.ttl \in Nat BY DEF Address
      <4>2. Expiry(a.ttl) \in 0..(MaxTime + MAX_TTL) BY <2>0, <4>1, ExpiryTyped
      <4>3. \A s : Inserted(s, p.name, a) =
                     [ip |-> a.ip, name |-> p.name, expires |-> Expiry(a.ttl), app |-> Unknown]
        BY DEF Inserted
      <4> QED BY <3>1, <4>1, <4>2, <4>3 DEF Entry, Unknown
    <3>4. ASSUME NEW s \in Slot, At(s) # {} PROVE p.addresses[Max(At(s))] \in Address
      <4>1. Len(p.addresses) \in Nat /\ At(s) \in SUBSET (0..Len(p.addresses)) BY <3>1
      <4>2. Max(At(s)) \in At(s)
        <5> HIDE DEF At
        <5> QED BY <3>4, <4>1, MaxFacts
      <4>3. Max(At(s)) \in DOMAIN p.addresses BY <4>2
      <4> HIDE DEF At
      <4> QED BY <3>1, <4>3
    <3> HIDE DEF At
    <3>5. cache' \in [Slot -> Entry]
      BY <2>0, <3>2, <3>3, <3>4
    <3> QED BY <2>0, <2>1, <3>5 DEF TypeOK, Reply
  <2>2. ASSUME NEW h \in Sni, BySni(h) PROVE TypeOK'
    <3>1. h \in Seq(Byte) BY HostAssumption
    <3>2. DynApp(labels, h).labels \in Seq(Seq(Byte)) BY <2>0, <3>1, DynAppTyped
    <3> QED BY <2>0, <2>2, <3>2 DEF BySni, TypeOK
  <2>3. ASSUME NEW ip \in Ip, ByDns(ip) PROVE TypeOK'
    <3> DEFINE e == cache[Hash[ip]]
               t == Known(Service, e.name)
               d == IF e.app # Unknown THEN [labels |-> labels, id |-> e.app]
                    ELSE IF t # Unknown THEN [labels |-> labels, id |-> t]
                    ELSE DynApp(labels, e.name)
    <3>1. e \in Entry /\ e.name \in Seq(Byte) /\ e.app \in Nat BY <2>0 DEF Entry
    <3>2. /\ labels' = d.labels /\ cache' = [cache EXCEPT ![Hash[ip]].app = d.id]
          /\ now' = now
      BY <2>3 DEF ByDns
    <3>3. t \in Nat BY HostAssumption DEF Known, Unknown
    <3> HIDE DEF e, t
    <3>4. DynApp(labels, e.name).labels \in Seq(Seq(Byte)) /\ DynApp(labels, e.name).id \in Nat
      BY <2>0, <3>1, DynAppTyped
    <3>5. d.labels \in Seq(Seq(Byte)) /\ d.id \in Nat
      BY <2>0, <3>1, <3>3, <3>4
    <3> HIDE DEF d
    <3>6. [cache EXCEPT ![Hash[ip]].app = d.id] \in [Slot -> Entry]
      <4>1. \A s \in Slot : [cache[s] EXCEPT !.app = d.id] \in Entry
        BY <2>0, <3>5 DEF Entry
      <4> QED BY <2>0, <4>1
    <3> QED BY <2>0, <3>2, <3>5, <3>6 DEF TypeOK
  <2>4. CASE Tick
    BY <2>0, <2>4, HostAssumption DEF Tick, TypeOK
  <2>5. CASE UNCHANGED vars
    BY <2>5 DEF TypeOK, vars
  <2> QED
    BY <2>1, <2>2, <2>3, <2>4, <2>5 DEF Next
<1> QED
  BY <1>1, <1>2, PTL DEF Spec

-----------------------------------------------------------------------------
(* The round trip: what a resolver means is what is parsed of it, or a part of that
   when the capture is cut.  Host names have no byte 0 and none of 192 and above, which
   the walk would take for the end of the name once the buffer is full. *)

\* B begins with a name of K labels, the k-th of which ends at ends[k], and a zero; text
\* is the name as text.  The i-th byte of text is the one at i + 1 in B, or a dot
\* where that is a length.
NameLaid(B, text, K, ends) ==
  /\ K \in Nat /\ ends[0] = 0
  /\ \A k \in 0..K : ends[k] \in Nat /\ ends[k] =< ends[K]
  /\ text \in Seq(Byte) /\ Len(text) = IF K = 0 THEN 0 ELSE ends[K] - 1
  /\ \A o \in 1..ends[K] : B[o] \in 1..191
  /\ B[ends[K] + 1] = 0
  /\ \A k \in 0..(K - 1) :
       /\ B[ends[k] + 1] = ends[k + 1] - ends[k] - 1 /\ ends[k] < ends[k + 1]
       /\ k > 0 => text[ends[k]] = Dot
       /\ \A j \in 1..B[ends[k] + 1] : text[ends[k] + j] = B[ends[k] + 1 + j]

Clean(name) == \A i \in DOMAIN name : name[i] \in Seq(1..191)

\* The labels with their dots.
Piece(name, i) == (IF i = 1 THEN <<>> ELSE <<Dot>>) \o name[i]
Pieces(name) == [i \in DOMAIN name |-> Piece(name, i)]

LEMMA PiecesTyped ==
  ASSUME NEW name \in Seq(Label)
  PROVE  /\ Pieces(name) \in Seq(Seq(Byte)) /\ Len(Pieces(name)) = Len(name)
         /\ \A i \in 1..Len(name) : Pieces(name)[i] = Piece(name, i)
         /\ 1 \in 1..Len(name) => Piece(name, 1) = name[1]
         /\ \A i \in 1..Len(name) : i # 1 =>
              /\ Len(Piece(name, i)) = 1 + Len(name[i]) /\ Piece(name, i)[1] = Dot
              /\ \A j \in 1..Len(name[i]) : Piece(name, i)[1 + j] = name[i][j]
<1>1. /\ DOMAIN name = 1..Len(name) /\ Len(name) \in Nat
      /\ \A i \in 1..Len(name) : name[i] \in Seq(Byte)
  BY DEF Label
<1>2. Dot \in Byte
  BY DEF Dot, Byte
<1>3. 1 \in 1..Len(name) => Piece(name, 1) = name[1]
  BY <1>1, ConcatEmptySeq DEF Piece
<1>4. \A i \in 1..Len(name) : i # 1 => Piece(name, i) = <<Dot>> \o name[i]
  BY DEF Piece
<1>5. \A i \in 1..Len(name) : i # 1 =>
        /\ Piece(name, i) \in Seq(Byte)
        /\ Len(Piece(name, i)) = 1 + Len(name[i]) /\ Piece(name, i)[1] = Dot
        /\ \A j \in 1..Len(name[i]) : Piece(name, i)[1 + j] = name[i][j]
  <2> SUFFICES ASSUME NEW i \in 1..Len(name), i # 1
               PROVE  /\ Piece(name, i) \in Seq(Byte)
                      /\ Len(Piece(name, i)) = 1 + Len(name[i]) /\ Piece(name, i)[1] = Dot
                      /\ \A j \in 1..Len(name[i]) : Piece(name, i)[1 + j] = name[i][j]
    OBVIOUS
  <2> DEFINE l == name[i]
  <2>1. l \in Seq(Byte) BY <1>1
  <2>2. Piece(name, i) = <<Dot>> \o l BY <1>4
  <2> HIDE DEF l
  <2>3. /\ <<Dot>> \o l \in Seq(Byte) /\ Len(<<Dot>> \o l) = 1 + Len(l)
        /\ (<<Dot>> \o l)[1] = Dot /\ \A j \in 1..Len(l) : (<<Dot>> \o l)[1 + j] = l[j]
    BY <1>2, <2>1, LedFacts
  <2> QED BY <2>2, <2>3 DEF l
<1>6. \A i \in 1..Len(name) : Piece(name, i) \in Seq(Byte)
  BY <1>1, <1>3, <1>5
<1>7. Pieces(name) \in [1..Len(name) -> Seq(Byte)] /\ DOMAIN Pieces(name) = 1..Len(name)
      /\ \A i \in 1..Len(name) : Pieces(name)[i] = Piece(name, i)
  BY <1>1, <1>6 DEF Pieces
<1>8. Pieces(name) \in Seq(Seq(Byte))
  <2> DEFINE p == Pieces(name)
             n == Len(name)
  <2>1. n \in Nat /\ p \in [1..n -> Seq(Byte)]
    BY <1>1, <1>7
  <2> HIDE DEF p, n
  <2>2. p \in Seq(Seq(Byte))
    BY <2>1, IsASeq
  <2> QED
    BY <2>2 DEF p
<1>9. Len(Pieces(name)) = Len(name)
  BY <1>1, <1>7, <1>8, LenProperties
<1> QED
  BY <1>3, <1>5, <1>7, <1>8, <1>9

LEMMA NameIsLaid ==
  ASSUME NEW name \in Seq(Label), Clean(name)
  PROVE  \E ends : /\ NameLaid(WireName(name), Text(name), Len(name), ends)
                   /\ Len(WireName(name)) = ends[Len(name)] + 1
<1> DEFINE K == Len(name)
           labs == Labels(name)
           flat == FlattenSeq(labs)
           ps == Pieces(name)
           text == Text(name)
<1>1. /\ K \in Nat /\ DOMAIN name = 1..K /\ Len(labs) = K /\ labs \in Seq(Seq(Byte))
      /\ \A i \in 1..K : labs[i] = WireLabel(name[i]) /\ name[i] \in Label
  BY LabelsTyped
<1>2. labs \in Seq(Seq(1..191))
  <2>1. \A i \in 1..K : labs[i] \in Seq(1..191)
    BY <1>1, WireLabelFacts DEF Clean
  <2>2. DOMAIN labs = 1..K BY <1>1
  <2>3. labs \in [1..K -> Seq(1..191)]
    <3> HIDE DEF labs, K
    <3>1. labs = [i \in DOMAIN labs |-> labs[i]] BY <1>1
    <3> QED BY <2>1, <2>2, <3>1
  <2> HIDE DEF labs, K
  <2> QED BY <1>1, <2>3, IsASeq
<1>3. PICK ends : flat \in Seq(1..191) /\ IsFlat(labs, flat, ends)
  <2> HIDE DEF labs
  <2> QED BY <1>2, FlattenFacts
<1>4. PICK tends : text \in Seq(Byte) /\ IsFlat(ps, text, tends)
  <2>1. text = FlattenSeq(ps) BY DEF Text, Pieces, Piece
  <2>2. ps \in Seq(Seq(Byte)) BY PiecesTyped
  <2> HIDE DEF ps
  <2> QED BY <2>1, <2>2, FlattenFacts
<1>5. /\ Len(ps) = K /\ \A i \in 1..K : ps[i] = Piece(name, i)
      /\ 1 \in 1..K => Piece(name, 1) = name[1]
      /\ \A i \in 1..K : i # 1 =>
              /\ Len(Piece(name, i)) = 1 + Len(name[i]) /\ Piece(name, i)[1] = Dot
              /\ \A j \in 1..Len(name[i]) : Piece(name, i)[1 + j] = name[i][j]
  BY PiecesTyped
<1>6. \A i \in 1..K : /\ Len(name[i]) \in 1..63 /\ Len(labs[i]) = 1 + Len(name[i])
                      /\ labs[i][1] = Len(name[i])
                      /\ \A j \in 1..Len(name[i]) : labs[i][1 + j] = name[i][j]
  BY <1>1, WireLabelFacts DEF Label
<1>7. /\ ends[0] = 0 /\ ends[K] = Len(flat)
      /\ \A k \in 0..K : ends[k] \in Nat /\ ends[k] =< ends[K]
      /\ \A k \in 1..K : /\ ends[k] = ends[k - 1] + Len(labs[k])
                         /\ \A j \in 1..Len(labs[k]) : flat[ends[k - 1] + j] = labs[k][j]
  BY <1>1, <1>3 DEF IsFlat
<1>8. /\ tends[0] = 0 /\ tends[K] = Len(text)
      /\ \A k \in 0..K : tends[k] \in Nat
      /\ \A k \in 1..K : /\ tends[k] = tends[k - 1] + Len(ps[k])
                         /\ \A j \in 1..Len(ps[k]) : text[tends[k - 1] + j] = ps[k][j]
  BY <1>4, <1>5 DEF IsFlat
<1>9. WireName(name) = flat \o <<0>>
  BY WireNameTyped
<1> HIDE DEF labs, flat, ps, text, K
<1>10. /\ Len(WireName(name)) = ends[K] + 1
       /\ \A o \in 1..ends[K] : WireName(name)[o] = flat[o] /\ flat[o] \in 1..191
       /\ WireName(name)[ends[K] + 1] = 0
  <2> DEFINE z == <<0>>
  <2>1. z \in Seq(0..191) /\ Len(z) = 1 /\ z[1] = 0 /\ Len(flat) \in Nat
    BY <1>3
  <2>2. flat \in Seq(0..191)
    <3>1. 1..191 \subseteq 0..191 OBVIOUS
    <3> QED BY <1>3, <3>1, SeqMonotonic
  <2>3. WireName(name) = flat \o z BY <1>9
  <2> HIDE DEF z
  <2>4. /\ Len(flat \o z) = Len(flat) + Len(z)
        /\ \A i \in 1..Len(flat) : (flat \o z)[i] = flat[i]
        /\ \A j \in 1..Len(z) : (flat \o z)[Len(flat) + j] = z[j]
    <3> DEFINE T == 0..191
    <3>1. flat \in Seq(T) /\ z \in Seq(T) BY <2>1, <2>2
    <3> HIDE DEF T
    <3> QED BY <3>1, ConcatFacts
  <2> DEFINE l == Len(flat)
  <2>5. 1 \in 1..Len(z) BY <2>1
  <2>6. \A o \in 1..l : flat[o] \in 1..191
    <3>1. flat \in [1..l -> 1..191] BY <1>3, LenProperties
    <3> QED BY <3>1
  <2> QED BY <1>7, <2>1, <2>3, <2>4, <2>5, <2>6
<1>11. ASSUME NEW k \in 0..(K - 1)
       PROVE  /\ k + 1 \in 1..K /\ (k + 1) - 1 = k /\ k \in 0..K /\ k + 1 \in 0..K
              /\ ends[k + 1] = ends[k] + 1 + Len(name[k + 1])
              /\ flat[ends[k] + 1] = Len(name[k + 1])
              /\ \A j \in 1..Len(name[k + 1]) : flat[ends[k] + 1 + j] = name[k + 1][j]
              /\ ends[k] \in Nat /\ Len(name[k + 1]) \in 1..63
              /\ tends[k + 1] = tends[k] + (IF k = 0 THEN 0 ELSE 1) + Len(name[k + 1])
              /\ k > 0 => text[tends[k] + 1] = Dot
              /\ \A j \in 1..Len(name[k + 1]) :
                   text[tends[k] + (IF k = 0 THEN 0 ELSE 1) + j] = name[k + 1][j]
  <2>1. k + 1 \in 1..K /\ (k + 1) - 1 = k /\ k \in 0..K /\ k + 1 \in 0..K
    BY <1>1
  <2> DEFINE n == k + 1
             l == Len(name[n])
             e == ends[k]
             x == tends[k]
  <2>2. n \in 1..K /\ n - 1 = k /\ e \in Nat /\ l \in 1..63 /\ x \in Nat /\ (n = 1 <=> k = 0)
    BY <1>6, <1>7, <1>8, <2>1
  <2>3. /\ ends[n] = e + Len(labs[n]) /\ Len(labs[n]) = 1 + l
        /\ \A j \in 1..Len(labs[n]) : flat[e + j] = labs[n][j]
        /\ labs[n][1] = l /\ \A j \in 1..l : labs[n][1 + j] = name[n][j]
    BY <1>6, <1>7, <2>2
  <2>4. /\ tends[n] = x + Len(ps[n])
        /\ \A j \in 1..Len(ps[n]) : text[x + j] = ps[n][j]
        /\ ps[n] = Piece(name, n)
    BY <1>5, <1>8, <2>2
  <2>5. /\ n = 1 => Piece(name, n) = name[n]
        /\ n # 1 => /\ Len(Piece(name, n)) = 1 + l /\ Piece(name, n)[1] = Dot
                    /\ \A j \in 1..l : Piece(name, n)[1 + j] = name[n][j]
    BY <1>5, <2>2
  <2> HIDE DEF n, e, x
  <2>6. n = 1 => Len(Piece(name, n)) = l BY <2>5
  <2> HIDE DEF l
  <2>7. /\ 1 \in 1..(1 + l) /\ \A j \in 1..l : 1 + j \in 1..(1 + l)
        /\ \A j \in 1..l : e + 1 + j = e + (1 + j) /\ x + 1 + j = x + (1 + j) /\ x + 0 + j = x + j
    BY <2>2
  <2>8. ends[n] = e + 1 + l /\ flat[e + 1] = l
    BY <2>2, <2>3, <2>7
  <2>9. \A j \in 1..l : flat[e + 1 + j] = name[n][j]
    BY <2>3, <2>7
  <2>10. CASE k = 0
    <3>1. n = 1 /\ k = 0 /\ ~(k > 0) BY <2>2, <2>10
    <3>2. tends[n] = x + 0 + l BY <2>2, <2>4, <2>5, <2>6, <3>1
    <3>3. \A j \in 1..l : text[x + 0 + j] = name[n][j] BY <2>4, <2>5, <2>6, <2>7, <3>1
    <3> QED BY <2>1, <2>2, <2>8, <2>9, <3>1, <3>2, <3>3 DEF n, l, e, x
  <2>11. CASE k # 0
    <3>1. n # 1 BY <2>2, <2>11
    <3>2. tends[n] = x + 1 + l BY <2>2, <2>4, <2>5, <3>1
    <3>3. \A j \in 1..l : text[x + 1 + j] = name[n][j] BY <2>4, <2>5, <2>7, <3>1
    <3>4. text[x + 1] = Dot BY <2>4, <2>5, <2>7, <3>1
    <3> QED BY <2>1, <2>2, <2>8, <2>9, <2>11, <3>2, <3>3, <3>4 DEF n, l, e, x
  <2> QED BY <2>10, <2>11
<1> DEFINE G == {k \in Nat : k =< K => tends[k] = IF k = 0 THEN 0 ELSE ends[k] - 1}
<1>12. \A k \in Nat : k \in G
  <2>1. 0 \in G BY <1>8
  <2>2. ASSUME NEW k \in Nat, k \in G PROVE k + 1 \in G
    <3>1. SUFFICES ASSUME k + 1 =< K PROVE tends[k + 1] = ends[k + 1] - 1 BY <2>2
    <3>2. k \in 0..(K - 1) BY <1>1, <3>1
    <3>3. /\ ends[k + 1] = ends[k] + 1 + Len(name[k + 1]) /\ ends[k] \in Nat
          /\ Len(name[k + 1]) \in 1..63
          /\ tends[k + 1] = tends[k] + (IF k = 0 THEN 0 ELSE 1) + Len(name[k + 1])
      BY <1>11, <3>2
    <3>4. tends[k] = IF k = 0 THEN 0 ELSE ends[k] - 1 BY <1>1, <2>2, <3>1
    <3> QED BY <1>7, <3>3, <3>4
  <2> HIDE DEF G
  <2> QED BY <2>1, <2>2, Induction
<1>13. Len(text) = IF K = 0 THEN 0 ELSE ends[K] - 1
  BY <1>1, <1>8, <1>12
<1>14. ASSUME NEW k \in 0..(K - 1)
       PROVE  /\ WireName(name)[ends[k] + 1] = ends[k + 1] - ends[k] - 1
              /\ ends[k] < ends[k + 1]
              /\ k > 0 => text[ends[k]] = Dot
              /\ \A j \in 1..WireName(name)[ends[k] + 1] :
                   text[ends[k] + j] = WireName(name)[ends[k] + 1 + j]
  <2> DEFINE e == ends[k]
             l == Len(name[k + 1])
             w == WireName(name)
  <2>1. /\ ends[k + 1] = e + 1 + l /\ flat[e + 1] = l
        /\ \A j \in 1..l : flat[e + 1 + j] = name[k + 1][j]
        /\ e \in Nat /\ l \in 1..63 /\ ends[k + 1] =< ends[K] /\ ends[K] \in Nat
        /\ k > 0 => text[tends[k] + 1] = Dot
        /\ \A j \in 1..l : text[tends[k] + (IF k = 0 THEN 0 ELSE 1) + j] = name[k + 1][j]
    <3>1. K \in 0..K /\ k + 1 \in 0..K BY <1>1
    <3>2. ends[k + 1] =< ends[K] /\ ends[K] \in Nat BY <1>7, <3>1
    <3> QED BY <1>11, <3>2
  <2>2. tends[k] + (IF k = 0 THEN 0 ELSE 1) = e /\ (k > 0 => tends[k] + 1 = e)
    <3>1. k \in Nat /\ k =< K BY <1>1
    <3>2. tends[k] = IF k = 0 THEN 0 ELSE e - 1 BY <1>12, <3>1
    <3> QED BY <1>7, <2>1, <3>1, <3>2
  <2> HIDE DEF e, l, w
  <2>3. e + 1 \in 1..ends[K] /\ \A j \in 1..l : e + 1 + j \in 1..ends[K]
    BY <2>1
  <2>4. w[e + 1] = l /\ \A j \in 1..l : w[e + 1 + j] = flat[e + 1 + j]
    BY <1>10, <2>1, <2>3 DEF w
  <2>5. w[e + 1] = ends[k + 1] - e - 1 /\ e < ends[k + 1]
    BY <2>1, <2>4
  <2>6. k > 0 => text[e] = Dot
    BY <2>1, <2>2
  <2>7. \A j \in 1..l : text[e + j] = w[e + 1 + j]
    BY <2>1, <2>2, <2>4
  <2> QED BY <2>4, <2>5, <2>6, <2>7 DEF e, w
<1>15. NameLaid(WireName(name), text, K, ends)
  BY <1>1, <1>4, <1>7, <1>10, <1>13, <1>14 DEF NameLaid
<1> QED
  BY <1>10, <1>15 DEF K, text

\* How long a text is in the buffer, and when name is the beginning of it.
BUF == NAME_BUF - 1
Begins(text, name) == \A i \in 1..Len(name) : name[i] = text[i]

LEMMA InBufferIs ==
  ASSUME NEW text \in Seq(Byte)
  PROVE  /\ InBuffer(text) \in Seq(Byte)
         /\ Len(InBuffer(text)) = IF Len(text) =< BUF THEN Len(text) ELSE BUF
         /\ \A name \in Seq(Byte) :
              /\ Begins(text, name)
              /\ Len(name) = IF Len(text) =< BUF THEN Len(text) ELSE BUF
              => name = InBuffer(text)
<1> DEFINE n == IF Len(text) =< BUF THEN Len(text) ELSE BUF
           s == SubSeq(text, 1, n)
<1>1. Len(text) \in Nat /\ BUF \in Nat /\ n \in Nat /\ n =< Len(text)
  BY NameBufAssumption DEF BUF
<1>2. Min({Len(text), BUF}) = n
  <2>1. Len(text) \in Int /\ BUF \in Int BY <1>1
  <2> QED BY <2>1, MinOfTwo
<1>3. InBuffer(text) = s
  BY <1>2 DEF InBuffer, BUF
<1>4. s \in Seq(Byte) /\ Len(s) = n /\ \A i \in 1..n : s[i] = text[i]
  <2> HIDE DEF n
  <2>1. 1 \in Int /\ n \in Int /\ \A i \in 1..n : text[i] \in Byte BY <1>1
  <2>2. /\ s \in Seq(Byte) /\ Len(s) = (IF 1 =< n THEN n - 1 + 1 ELSE 0)
        /\ \A i \in 1..(n - 1 + 1) : s[i] = text[1 + i - 1]
    BY <2>1, SubSeqProperties
  <2>3. n - 1 + 1 = n /\ \A i \in 1..n : 1 + i - 1 = i BY <1>1
  <2> HIDE DEF s
  <2>4. Len(s) = n BY <1>1, <2>2, <2>3
  <2> QED BY <2>2, <2>3, <2>4
<1>5. ASSUME NEW name \in Seq(Byte), Begins(text, name), Len(name) = n PROVE name = s
  <2> HIDE DEF s, n
  <2>1. \A i \in 1..Len(name) : name[i] = s[i] BY <1>4, <1>5 DEF Begins
  <2> QED BY <1>4, <1>5, <2>1, SeqEqual
<1> QED
  BY <1>3, <1>4, <1>5

\* Where the walk is: behind the end of the copy, which ends in the name; before a label,
\* with all labels so far in the buffer; or anywhere, with the buffer full.
Lost(b, K, ends, q) == q.off > Len(b) /\ Len(b) =< ends[K]
AtLabel(text, K, ends, q) ==
  /\ Begins(text, q.name) /\ Len(q.name) < BUF
  /\ \E k \in 0..K : q.off = ends[k] + 1 /\ Len(q.name) = IF k = 0 THEN 0 ELSE ends[k] - 1
IsFull(text, K, ends, q) ==
  /\ Begins(text, q.name) /\ Len(q.name) = BUF
  /\ BUF =< Len(text) /\ q.off =< ends[K] + 1

\* b is a copy of B that may end early.
Copy(b, B, n) == \A i \in 1..Len(b) : i =< n => b[i] = B[i]

\* A byte that is no length of 0 and no pointer is walked over.
LEMMA GoesOn ==
  ASSUME NEW b, NEW q, NEW off \in Nat, NEW n \in Nat, NEW l \in 1..191,
         q.off = off, Len(b) = n, b[off] = l, off =< n
  PROVE  ~Stops(b, q)
<1>1. ~(off > n) /\ l # 0 /\ ~(l >= 192)
  OBVIOUS
<1> QED
  BY <1>1 DEF Stops, OutOfBytes, IsPointer

LEMMA FullStep ==
  ASSUME NEW B, NEW text, NEW K, NEW ends, NameLaid(B, text, K, ends),
         NEW b \in Seq(Byte), Copy(b, B, ends[K] + 1),
         NEW q \in Query, IsFull(text, K, ends, q), q.off =< Len(b), q.off =< ends[K]
  PROVE  ~Stops(b, q) /\ IsFull(text, K, ends, NextLabel(b, q)) /\ NextLabel(b, q) \in Query
<1> DEFINE r == NextLabel(b, q)
<1>1. /\ q.name \in Seq(Byte) /\ q.off \in Nat \ {0} /\ Len(b) \in Nat /\ Len(q.name) = BUF
      /\ NAME_BUF \in Nat /\ ends[K] \in Nat
  <2>1. K \in 0..K BY DEF NameLaid
  <2> QED BY <2>1, NameBufAssumption DEF Query, IsFull, NameLaid
<1>2. b[q.off] \in 1..191
  <2>1. q.off \in 1..Len(b) /\ q.off \in 1..ends[K] /\ q.off =< ends[K] + 1 BY <1>1
  <2> QED BY <2>1 DEF NameLaid, Copy
<1>3. ~Stops(b, q)
  BY <1>1, <1>2, GoesOn
<1>4. Room(q.name) = 0
  BY <1>1, RoomFacts DEF BUF
<1>5. Dotted(q) = q.name
  BY <1>4 DEF Dotted
<1>6. LabelCopied(b, q, r)
  BY NextLabelFacts
<1> HIDE DEF r
<1>7. Copied(b, q) = 0
  BY <1>4, <1>5, <1>6 DEF LabelCopied
<1>8. /\ r \in Query /\ r.off = q.off + 1 /\ Len(r.name) = Len(q.name)
      /\ \A i \in 1..Len(q.name) : r.name[i] = q.name[i]
  BY <1>1, <1>5, <1>6, <1>7 DEF LabelCopied
<1>9. IsFull(text, K, ends, r)
  BY <1>1, <1>8 DEF IsFull, Begins
<1> QED
  BY <1>3, <1>8, <1>9 DEF r

\* The walk is before label k + 1 of a copy b of B.
Before(B, text, K, ends, b, q, k) ==
  /\ NameLaid(B, text, K, ends) /\ Copy(b, B, ends[K] + 1)
  /\ Begins(text, q.name) /\ Len(q.name) < BUF
  /\ k \in 0..(K - 1) /\ q.off = ends[k] + 1 /\ q.off =< Len(b)
  /\ Len(q.name) = IF k = 0 THEN 0 ELSE ends[k] - 1

\* The same, with e the end of label k, f that of the next and W that of the last, and
\* l the length of the next.
Numbers(B, text, b, q, k, e, f, W, l) ==
  /\ q.off = e + 1 /\ q.off =< Len(b) /\ e < f /\ f =< W /\ l = f - e - 1
  /\ Len(q.name) = (IF k = 0 THEN 0 ELSE e - 1) /\ Len(q.name) < BUF
  /\ (k = 0 => e = 0) /\ (k # 0 => e > 1)
  /\ Len(text) = W - 1

Bytes(B, text, b, q, k, e, W, l) ==
  /\ b[q.off] = l /\ l \in 1..191 /\ B[e + 1] = l
  /\ k # 0 => text[e] = Dot
  /\ \A j \in 1..l : text[e + j] = B[e + 1 + j]
  /\ Copy(b, B, W + 1) /\ Begins(text, q.name)

LEMMA BeforeFacts ==
  ASSUME NEW B, NEW text, NEW K, NEW ends, NEW b \in Seq(Byte), NEW q \in Query, NEW k,
         Before(B, text, K, ends, b, q, k)
  PROVE  \E e, f, W, l \in Nat :
           /\ e = ends[k] /\ f = ends[k + 1] /\ W = ends[K]
           /\ K \in Nat /\ k \in Nat /\ k + 1 \in 0..K /\ text \in Seq(Byte)
           /\ Numbers(B, text, b, q, k, e, f, W, l) /\ Bytes(B, text, b, q, k, e, W, l)
<1> DEFINE e == ends[k]
           f == ends[k + 1]
           W == ends[K]
           l == f - e - 1
<1>0. /\ NameLaid(B, text, K, ends) /\ Copy(b, B, W + 1) /\ Begins(text, q.name)
      /\ k \in 0..(K - 1)
  BY DEF Before
<1>1. /\ K \in Nat /\ k \in Nat /\ k \in 0..K /\ k + 1 \in 0..K /\ K \in 0..K /\ k < K
      /\ 0 \in 0..K
  BY <1>0 DEF NameLaid
<1>2. /\ e \in Nat /\ f \in Nat /\ W \in Nat /\ f =< W /\ ends[0] = 0
      /\ text \in Seq(Byte) /\ Len(text) = IF K = 0 THEN 0 ELSE W - 1
  BY <1>0, <1>1 DEF NameLaid
<1>3. /\ B[e + 1] = l /\ e < f
      /\ k > 0 => text[e] = Dot
      /\ \A j \in 1..B[e + 1] : text[e + j] = B[e + 1 + j]
  BY <1>0 DEF NameLaid
<1>4. \A o \in 1..W : B[o] \in 1..191
  BY <1>0 DEF NameLaid
<1>5. q.off = e + 1 /\ q.off =< Len(b) /\ Len(q.name) < BUF
      /\ Len(q.name) = IF k = 0 THEN 0 ELSE e - 1
  BY DEF Before
<1>6. Len(b) \in Nat
  OBVIOUS
<1>7. k = 0 => e = 0
  BY <1>2
<1>8. k # 0 => e > 1
  <2> SUFFICES ASSUME k # 0 PROVE e > 1
    OBVIOUS
  <2> DEFINE j == k - 1
             c == ends[j]
  <2>1. j \in 0..(K - 1) /\ j \in 0..K /\ j + 1 = k BY <1>1
  <2>2. c \in Nat BY <1>0, <2>1 DEF NameLaid
  <2>3. B[c + 1] = ends[j + 1] - c - 1 /\ c < ends[j + 1] BY <1>0, <2>1 DEF NameLaid
  <2>4. B[c + 1] = e - c - 1 /\ c < e BY <2>1, <2>3
  <2> HIDE DEF c, e, f, W, j
  <2>5. c + 1 \in 1..W BY <1>2, <1>3, <2>2, <2>4
  <2>6. B[c + 1] \in 1..191 BY <1>4, <2>5
  <2>7. e - c - 1 \in 1..191 BY <2>4, <2>6
  <2> QED BY <1>2, <2>2, <2>7
<1> HIDE DEF e, f, W
<1>9. l \in 1..191 /\ l \in Nat
  <2>1. e + 1 \in 1..W BY <1>2, <1>3
  <2>2. B[e + 1] \in 1..191 BY <1>4, <2>1
  <2>3. l \in 1..191 BY <1>3, <2>2
  <2> HIDE DEF l
  <2> QED BY <2>3
<1>10. b[e + 1] = B[e + 1]
  <2>1. e + 1 \in 1..Len(b) /\ e + 1 =< W + 1 BY <1>2, <1>3, <1>5, <1>6
  <2> QED BY <1>0, <2>1 DEF Copy
<1> HIDE DEF l
<1>11. Numbers(B, text, b, q, k, e, f, W, l)
  BY <1>1, <1>2, <1>3, <1>5, <1>7, <1>8 DEF Numbers, l
<1>12. Bytes(B, text, b, q, k, e, W, l)
  BY <1>0, <1>1, <1>3, <1>5, <1>9, <1>10 DEF Bytes
<1>13. e = ends[k] /\ f = ends[k + 1] /\ W = ends[K]
  BY DEF e, f, W
<1> QED
  BY <1>1, <1>2, <1>9, <1>11, <1>12, <1>13

\* The name with the dot for the next label.
LEMMA DottedFacts ==
  ASSUME NEW B, NEW text, NEW b \in Seq(Byte), NEW q \in Query, NEW k,
         NEW e \in Nat, NEW f \in Nat, NEW W \in Nat, NEW l \in Nat,
         Numbers(B, text, b, q, k, e, f, W, l), Bytes(B, text, b, q, k, e, W, l)
  PROVE  /\ Dotted(q) \in Seq(Byte) /\ Len(Dotted(q)) = e /\ Begins(text, Dotted(q))
         /\ Room(Dotted(q)) = BUF - e /\ e =< BUF
<1> DEFINE d == Dotted(q)
           name == q.name
           n == Len(name)
<1>1. name \in Seq(Byte) /\ n \in Nat /\ NAME_BUF \in Nat /\ BUF \in Nat /\ NAME_BUF = BUF + 1
  BY NameBufAssumption DEF Query, BUF
<1>2. /\ n = (IF k = 0 THEN 0 ELSE e - 1) /\ n < BUF
      /\ (k = 0 => e = 0) /\ (k # 0 => e > 1)
  BY DEF Numbers
<1>3. Begins(text, name) /\ (k # 0 => text[e] = Dot)
  BY DEF Bytes
<1>4. d = IF name # <<>> /\ Room(name) > 0 THEN Append(name, Dot) ELSE name
  BY DEF Dotted
<1>5. \A s \in Seq(Byte) : Len(s) =< BUF => Room(s) = BUF - Len(s)
  <2> TAKE s \in Seq(Byte)
  <2>1. Room(s) = IF Len(s) < NAME_BUF THEN NAME_BUF - 1 - Len(s) ELSE 0 BY RoomFacts
  <2>2. Len(s) \in Nat OBVIOUS
  <2> QED BY <1>1, <2>1, <2>2
<1>6. Room(name) > 0
  BY <1>1, <1>2, <1>5
<1> HIDE DEF d
<1>7. CASE k = 0
  <2>1. n = 0 /\ e = 0 BY <1>2, <1>7
  <2>2. name = <<>> BY <1>1, <2>1
  <2>3. d = name BY <1>4, <2>2
  <2>4. Room(name) = BUF - n BY <1>1, <1>2, <1>5
  <2> QED BY <1>1, <1>3, <2>1, <2>3, <2>4 DEF d
<1>8. CASE k # 0
  <2>1. n = e - 1 /\ e > 1 BY <1>2, <1>8
  <2>2. name # <<>> BY <1>1, <2>1
  <2>3. d = Append(name, Dot) BY <1>4, <1>6, <2>2
  <2> HIDE DEF n, name
  <2>4. Dot \in Byte BY DEF Dot, Byte
  <2>5. /\ d \in Seq(Byte) /\ Len(d) = n + 1
        /\ \A i \in 1..n : d[i] = name[i]
        /\ d[n + 1] = Dot
    <3>1. /\ Append(name, Dot) \in Seq(Byte) /\ Len(Append(name, Dot)) = Len(name) + 1
          /\ \A i \in 1..Len(name) : Append(name, Dot)[i] = name[i]
          /\ Append(name, Dot)[Len(name) + 1] = Dot
      BY <1>1, <2>4, AppendProperties
    <3> QED BY <2>3, <3>1 DEF n
  <2>6. n + 1 = e /\ e =< BUF BY <1>1, <1>2, <2>1
  <2>7. Begins(text, d)
    <3>1. \A i \in 1..e : i = e \/ i \in 1..n BY <1>1, <2>6
    <3>2. \A i \in 1..n : name[i] = text[i] BY <1>3 DEF Begins, n
    <3> QED BY <1>3, <1>8, <2>5, <2>6, <3>1, <3>2 DEF Begins
  <2>8. Room(d) = BUF - e BY <1>5, <2>5, <2>6
  <2> QED BY <2>5, <2>6, <2>7, <2>8 DEF d
<1> QED BY <1>7, <1>8

LEMMA LabelStep ==
  ASSUME NEW B, NEW text, NEW K, NEW ends, NEW b \in Seq(Byte), NEW q \in Query, NEW k,
         Before(B, text, K, ends, b, q, k)
  PROVE  /\ ~Stops(b, q) /\ NextLabel(b, q) \in Query
         /\ \/ Lost(b, K, ends, NextLabel(b, q))
            \/ AtLabel(text, K, ends, NextLabel(b, q))
            \/ IsFull(text, K, ends, NextLabel(b, q))
<1>1. PICK e, f, W, l \in Nat :
        /\ e = ends[k] /\ f = ends[k + 1] /\ W = ends[K]
        /\ K \in Nat /\ k \in Nat /\ k + 1 \in 0..K /\ text \in Seq(Byte)
        /\ Numbers(B, text, b, q, k, e, f, W, l) /\ Bytes(B, text, b, q, k, e, W, l)
  BY BeforeFacts
<1> DEFINE r == NextLabel(b, q)
           d == Dotted(q)
           n == Copied(b, q)
           len == Len(b)
<1>2. /\ q.off = e + 1 /\ q.off =< len /\ e < f /\ f =< W /\ l = f - e - 1
      /\ Len(text) = W - 1
  BY <1>1 DEF Numbers
<1>3. /\ b[q.off] = l /\ l \in 1..191 /\ B[e + 1] = l
      /\ \A j \in 1..l : text[e + j] = B[e + 1 + j]
      /\ Copy(b, B, W + 1)
  BY <1>1 DEF Bytes
<1>4. d \in Seq(Byte) /\ Len(d) = e /\ Begins(text, d) /\ Room(d) = BUF - e /\ e =< BUF
  BY <1>1, DottedFacts
<1>5. BUF \in Nat /\ len \in Nat
  BY NameBufAssumption DEF BUF
<1>6. ~Stops(b, q)
  <2>1. e + 1 \in Nat /\ e + 1 =< len BY <1>2
  <2> QED BY <1>2, <1>3, <1>5, <2>1, GoesOn
<1>7. LabelCopied(b, q, r)
  BY <1>2, NextLabelFacts
<1> HIDE DEF r, d, n
<1>8. /\ r \in Query /\ n \in Nat /\ n \in {l, len - q.off, BUF - e}
      /\ n =< l /\ n =< len - q.off /\ n =< BUF - e
      /\ r.off = q.off + 1 + n /\ Len(r.name) = e + n
      /\ \A i \in 1..e : r.name[i] = d[i]
      /\ \A i \in 1..n : r.name[e + i] = b[q.off + i]
  BY <1>3, <1>4, <1>7 DEF LabelCopied, d, n
<1>9. Begins(text, r.name)
  <2>1. ASSUME NEW i \in 1..n PROVE r.name[e + i] = text[e + i]
    <3>1. n =< l /\ n =< len - (e + 1) /\ e + 1 + l =< W BY <1>2, <1>8
    <3>2. e + 1 + i \in 1..len /\ e + 1 + i =< W + 1 /\ i \in 1..l
      BY <1>5, <1>8, <3>1
    <3>3. b[e + 1 + i] = B[e + 1 + i] BY <1>3, <3>2 DEF Copy
    <3>4. r.name[e + i] = b[e + 1 + i] BY <1>2, <1>8
    <3> QED BY <1>3, <3>2, <3>3, <3>4
  <2>2. \A i \in 1..e : r.name[i] = text[i]
    BY <1>4, <1>8 DEF Begins
  <2>3. \A i \in 1..(e + n) : i \in 1..e \/ (i - e \in 1..n /\ e + (i - e) = i)
    BY <1>8
  <2>4. \A i \in 1..(e + n) : r.name[i] = text[i]
    BY <2>1, <2>2, <2>3
  <2> QED BY <1>8, <2>4 DEF Begins
<1>10. CASE n = l
  <2>1. /\ r.off = f + 1 /\ Len(r.name) = f - 1 /\ f - 1 =< BUF /\ f + 1 =< W + 1
        /\ f - 1 =< W - 1
    BY <1>2, <1>5, <1>8, <1>10
  <2>2. CASE f - 1 < BUF
    <3>1. k + 1 \in 0..K /\ k + 1 # 0 /\ r.off = ends[k + 1] + 1 /\ Len(r.name) = ends[k + 1] - 1
      BY <1>1, <2>1
    <3>2. Len(r.name) < BUF BY <2>1, <2>2
    <3>3. AtLabel(text, K, ends, r) BY <1>9, <3>1, <3>2 DEF AtLabel
    <3> QED BY <1>6, <1>8, <3>3 DEF r
  <2>3. CASE f - 1 = BUF
    <3>1. Len(r.name) = BUF /\ BUF =< Len(text) /\ r.off =< ends[K] + 1
      BY <1>1, <1>2, <2>1, <2>3
    <3>2. IsFull(text, K, ends, r) BY <1>9, <3>1 DEF IsFull
    <3> QED BY <1>6, <1>8, <3>2 DEF r
  <2> QED BY <1>5, <2>1, <2>2, <2>3
<1>11. CASE n = len - q.off
  <2>1. r.off > len /\ len =< W
    BY <1>2, <1>5, <1>8, <1>11
  <2>2. Lost(b, K, ends, r)
    BY <1>1, <2>1 DEF Lost
  <2> QED BY <1>6, <1>8, <2>2 DEF r
<1>12. CASE n = BUF - e
  <2>1. Len(r.name) = BUF /\ BUF =< W - 1 /\ r.off =< W + 1
    BY <1>2, <1>4, <1>5, <1>8, <1>12
  <2>2. IsFull(text, K, ends, r)
    BY <1>1, <1>2, <1>9, <2>1 DEF IsFull
  <2> QED BY <1>6, <1>8, <2>2 DEF r
<1> QED
  BY <1>8, <1>10, <1>11, <1>12

\* The name is read as it was written, as far as it fits; or the copy ends in it.
Read(text, K, ends, q) == q.off = ends[K] + 2 /\ q.name = InBuffer(text)

LEMMA NameEnds ==
  ASSUME NEW B, NEW text, NEW K, NEW ends, NameLaid(B, text, K, ends),
         NEW b \in Seq(Byte), Copy(b, B, ends[K] + 1),
         NEW q \in Query, q.off = ends[K] + 1, q.off =< Len(b), Begins(text, q.name),
         Len(q.name) = IF Len(text) =< BUF THEN Len(text) ELSE BUF
  PROVE  Stops(b, q) /\ Read(text, K, ends, Ended(b, q))
<1>1. text \in Seq(Byte) /\ ends[K] \in Nat /\ B[ends[K] + 1] = 0
  BY DEF NameLaid
<1>2. q.name \in Seq(Byte) /\ q.off \in Nat \ {0} /\ Len(b) \in Nat
  BY DEF Query
<1>3. b[q.off] = 0
  <2> DEFINE W == ends[K]
  <2>1. q.off = W + 1 /\ q.off \in 1..Len(b) BY <1>1, <1>2
  <2> QED BY <1>1, <2>1 DEF Copy
<1>4. ~OutOfBytes(b, q.off, q.name)
  <2> DEFINE o == q.off
  <2>1. o \in Nat /\ o =< Len(b) BY <1>2
  <2> HIDE DEF o
  <2>2. ~(o > Len(b)) BY <1>2, <2>1
  <2> QED BY <2>2 DEF OutOfBytes, o
<1>5. Ended(b, q).name = q.name /\ Ended(b, q).off = q.off + 1
  BY <1>2, <1>3, <1>4 DEF Ended, Query
<1>6. q.name = InBuffer(text)
  BY <1>1, <1>2, InBufferIs
<1> QED
  BY <1>1, <1>3, <1>5, <1>6 DEF Stops, Read

LEMMA NameRead ==
  ASSUME NEW B, NEW text, NEW K, NEW ends, NameLaid(B, text, K, ends),
         NEW b \in Seq(Byte), Copy(b, B, ends[K] + 1)
  PROVE  Lost(b, K, ends, QueryName(b)) \/ Read(text, K, ends, QueryName(b))
<1> DEFINE P == {q \in Query : \/ Lost(b, K, ends, q)
                               \/ AtLabel(text, K, ends, q)
                               \/ IsFull(text, K, ends, q)}
           F == {q \in Query : Lost(b, K, ends, q) \/ Read(text, K, ends, q)}
           W == ends[K]
           len == Len(b)
<1>1. /\ K \in Nat /\ K \in 0..K /\ 0 \in 0..K /\ W \in Nat /\ ends[0] = 0 /\ text \in Seq(Byte)
      /\ Len(text) = (IF K = 0 THEN 0 ELSE W - 1) /\ BUF \in Nat /\ BUF > 1
      /\ \A k \in 0..K : ends[k] \in Nat /\ ends[k] =< W
      /\ Len(text) \in Nat /\ len \in Nat
  <2>1. K \in Nat BY DEF NameLaid
  <2>2. K \in 0..K /\ 0 \in 0..K BY <2>1
  <2> QED BY <2>1, <2>2, NameBufAssumption DEF NameLaid, BUF
<1>2. \A q \in Query : q.name \in Seq(Byte) /\ q.off \in Nat \ {0} /\ Len(q.name) \in Nat
                       /\ Ended(b, q) \in Query
  <2> TAKE q \in Query
  <2>1. q.name \in Seq(Byte) /\ q.off \in Nat \ {0} BY DEF Query
  <2>2. \A n \in Nat \ {0} : [q EXCEPT !.off = n] \in Query BY DEF Query
  <2>3. q.off + 1 \in Nat \ {0} /\ q.off + 2 \in Nat \ {0} BY <2>1
  <2> QED BY <2>1, <2>2, <2>3 DEF Ended
<1>3. Start \in P
  <2>1. <<>> \in Seq(Byte) /\ Len(<<>>) = 0 /\ 1 \in Nat \ {0} OBVIOUS
  <2>2. Start \in Query /\ Start.name = <<>> /\ Start.off = 1 BY <2>1 DEF Start, Query
  <2>3. Begins(text, <<>>) BY DEF Begins
  <2>4. 0 \in 0..K /\ Start.off = ends[0] + 1 /\ Len(Start.name) = 0 /\ Len(Start.name) < BUF
    BY <1>1, <2>1, <2>2
  <2>5. AtLabel(text, K, ends, Start)
    BY <2>2, <2>3, <2>4 DEF AtLabel
  <2> QED BY <2>2, <2>5
<1>4. ASSUME NEW q \in Query, q.off > len, AtLabel(text, K, ends, q) \/ IsFull(text, K, ends, q)
      PROVE  Lost(b, K, ends, q)
  <2> DEFINE o == q.off
  <2>1. o \in Nat BY <1>2
  <2>2. o =< W + 1
    <3>1. CASE IsFull(text, K, ends, q) BY <3>1 DEF IsFull
    <3>2. CASE AtLabel(text, K, ends, q)
      <4>1. PICK k \in 0..K : q.off = ends[k] + 1 BY <3>2 DEF AtLabel
      <4>2. ends[k] \in Nat /\ ends[k] =< W BY <1>1
      <4> DEFINE e == ends[k]
      <4>3. o = e + 1 /\ e \in Nat /\ e =< W BY <4>1, <4>2
      <4> HIDE DEF e, o, W
      <4> QED BY <1>1, <4>3
    <3> QED BY <1>4, <3>1, <3>2
  <2>3. o > len BY <1>4
  <2> HIDE DEF o, W, len
  <2>4. len =< W BY <1>1, <2>1, <2>2, <2>3
  <2> QED BY <2>3, <2>4 DEF Lost, o, W, len
<1> HIDE DEF len
<1>5. ASSUME NEW q \in P, ~(q.off > len)
      PROVE  \/ Stops(b, q) /\ Ended(b, q) \in F
             \/ ~Stops(b, q) /\ NextLabel(b, q) \in P
  <2>1. q.off =< len /\ q.off =< Len(b) BY <1>1, <1>2, <1>5 DEF len
  <2>2. CASE Lost(b, K, ends, q) BY <1>5, <2>2 DEF Lost, len
  <2>3. CASE AtLabel(text, K, ends, q)
    <3>1. PICK k \in 0..K : /\ q.off = ends[k] + 1
                            /\ Len(q.name) = IF k = 0 THEN 0 ELSE ends[k] - 1
      BY <2>3 DEF AtLabel
    <3>2. Begins(text, q.name) /\ Len(q.name) < BUF BY <2>3 DEF AtLabel
    <3>3. CASE k \in 0..(K - 1)
      <4>1. Before(B, text, K, ends, b, q, k) BY <2>1, <3>1, <3>2, <3>3 DEF Before
      <4> QED BY <4>1, LabelStep
    <3>4. CASE k = K
      <4>1. q.off = ends[K] + 1 /\ Len(q.name) = Len(text) BY <1>1, <3>1, <3>4
      <4>2. Len(q.name) = IF Len(text) =< BUF THEN Len(text) ELSE BUF
        <5> DEFINE t == Len(text)
        <5>1. t \in Nat /\ t < BUF BY <1>1, <3>2, <4>1
        <5> HIDE DEF t
        <5>2. t =< BUF BY <1>1, <5>1
        <5> QED BY <4>1, <5>2 DEF t
      <4> QED BY <1>2, <2>1, <3>2, <4>1, <4>2, NameEnds
    <3> QED BY <1>1, <3>3, <3>4
  <2>4. CASE IsFull(text, K, ends, q)
    <3>1. Begins(text, q.name) /\ Len(q.name) = BUF /\ BUF =< Len(text) /\ q.off =< W + 1
      BY <2>4 DEF IsFull
    <3>2. CASE q.off =< W
      BY <2>1, <2>4, <3>2, FullStep
    <3>3. CASE q.off = W + 1
      <4>1. Len(q.name) = IF Len(text) =< BUF THEN Len(text) ELSE BUF
        <5> DEFINE t == Len(text)
        <5>1. t \in Nat /\ BUF =< t BY <1>1, <3>1
        <5> HIDE DEF t
        <5>2. t =< BUF => t = BUF BY <1>1, <5>1
        <5> QED BY <3>1, <5>2 DEF t
      <4> QED BY <1>2, <2>1, <3>1, <3>3, <4>1, NameEnds
    <3>4. q.off =< W \/ q.off = W + 1
      <4> DEFINE o == q.off
      <4>1. o \in Nat /\ o =< W + 1 BY <1>2, <3>1
      <4> HIDE DEF o, W
      <4>2. o =< W \/ o = W + 1 BY <1>1, <4>1
      <4> QED BY <4>2 DEF o
    <3> QED BY <3>2, <3>3, <3>4
  <2> QED BY <2>2, <2>3, <2>4
<1>6. ASSUME NEW q \in P
      PROVE  /\ Stops(b, q) => Ended(b, q) \in F
             /\ ~Stops(b, q) => NextLabel(b, q) \in P
  <2>1. CASE q.off > len
    <3>1. Lost(b, K, ends, q) BY <1>4, <2>1
    <3>2. Ended(b, q) = q BY <2>1 DEF Ended, OutOfBytes, len
    <3>3. Stops(b, q) BY <2>1 DEF Stops, OutOfBytes, len
    <3> QED BY <3>1, <3>2, <3>3
  <2> QED BY <1>5, <2>1
<1>7. PICK copy : IsWalk(b, copy) /\ QueryName(b) = copy[Start]
  BY QueryIsWalk
<1>8. copy[Start] \in F
  <2>1. P \in SUBSET Query OBVIOUS
  <2> HIDE DEF P, F
  <2> QED BY <1>3, <1>6, <1>7, <2>1, WalkEnds
<1> QED
  BY <1>7, <1>8

\* A message of one question: its name stands at the beginning, and its answers behind it.
LEMMA QuestionFirst ==
  ASSUME NEW m \in Message, Len(m.names) = 1
  PROVE  LET w == WireName(m.names[1]) IN
         /\ m.names[1] \in Seq(Label)
         /\ Len(FlattenSeq(Questions(m))) = Len(w) + 4
         /\ \A i \in 1..Len(w) : Encode(m).body[i] = w[i]
<1> DEFINE name == m.names[1]
           w == WireName(name)
           z == <<0, 1, 0, 1>>
           qs == Questions(m)
           flat == FlattenSeq(qs)
           as == FlattenSeq(Replies(m))
<1>1. /\ qs \in Seq(Seq(Byte)) /\ Len(qs) = 1 /\ m.names \in Seq(Seq(Label))
      /\ flat \in Seq(Byte) /\ as \in Seq(Byte) /\ Encode(m).body = flat \o as
  BY BodyTyped
<1>2. name \in Seq(Label) /\ 1 \in DOMAIN m.names
  BY <1>1
<1>3. w \in Seq(Byte) /\ z \in Seq(Byte) /\ Len(z) = 4
  BY <1>2, WireNameTyped DEF Byte
<1>4. qs[1] = w \o z
  BY <1>2 DEF Questions
<1> HIDE DEF qs, flat, w, z, as, name
<1>5. PICK ends : IsFlat(qs, flat, ends)
  BY <1>1, FlattenFacts DEF flat
<1>6. Len(flat) = Len(qs[1]) /\ \A j \in 1..Len(qs[1]) : flat[j] = qs[1][j]
  <2>1. 1 \in 1..Len(qs) /\ 1 - 1 = 0 BY <1>1
  <2>2. /\ ends[0] = 0 /\ ends[1] = Len(flat) /\ ends[1] = ends[0] + Len(qs[1])
        /\ \A j \in 1..Len(qs[1]) : flat[ends[0] + j] = qs[1][j]
    BY <1>1, <1>5, <2>1 DEF IsFlat
  <2>3. qs[1] \in Seq(Byte) /\ Len(qs[1]) \in Nat
    <3>1. w \o z \in Seq(Byte) BY <1>3, ConcatFacts
    <3> QED BY <1>4, <3>1
  <2>4. \A j \in 1..Len(qs[1]) : 0 + j = j OBVIOUS
  <2> QED BY <2>2, <2>3, <2>4
<1>7. Len(w \o z) = Len(w) + 4 /\ \A i \in 1..Len(w) : (w \o z)[i] = w[i] /\ i \in 1..(Len(w) + 4)
  <2>1. /\ Len(w \o z) = Len(w) + Len(z) /\ Len(w) \in Nat
        /\ \A i \in 1..Len(w) : (w \o z)[i] = w[i]
    BY <1>3, ConcatFacts
  <2>2. \A i \in 1..Len(w) : i \in 1..(Len(w) + 4) BY <2>1
  <2> QED BY <1>3, <2>1, <2>2
<1>8. \A i \in 1..Len(flat) : (flat \o as)[i] = flat[i]
  BY <1>1, ConcatFacts
<1>9. \A i \in 1..Len(w) : Encode(m).body[i] = w[i]
  BY <1>1, <1>4, <1>6, <1>7, <1>8
<1> QED
  BY <1>2, <1>4, <1>6, <1>7, <1>9 DEF flat, qs, w, name

\* In B the a-th of the answers begins at starts[a - 1]: the fields that are read of it.
RecordLaid(B, x, o) ==
  /\ B[o] = 192
  /\ B[o + 2] = 0 /\ B[o + 3] = x.type
  /\ B[o + 6] = 0 /\ B[o + 7] = 0 /\ B[o + 8] = 0 /\ B[o + 9] = x.ttl
  /\ B[o + 10] = 0 /\ B[o + 11] = Len(x.rdata)
  /\ \A j \in 1..Len(x.rdata) : B[o + 11 + j] = x.rdata[j]

RecordsLaid(B, answers, starts) ==
  /\ starts[Len(answers)] = Len(B) + 1
  /\ \A a \in 0..Len(answers) : starts[a] \in Offset /\ starts[a] =< Len(B) + 1
  /\ \A a \in 1..Len(answers) : /\ RecordLaid(B, answers[a], starts[a - 1])
                                /\ starts[a] = starts[a - 1] + 12 + Len(answers[a].rdata)

LEMMA WireAnswerFacts ==
  ASSUME NEW x \in Answer
  PROVE  /\ Len(WireAnswer(x)) = 12 + Len(x.rdata) /\ Len(x.rdata) \in Nat
         /\ \A B, o : o \in Nat /\ (\A j \in 1..Len(WireAnswer(x)) : B[o + j] = WireAnswer(x)[j])
                      => RecordLaid(B, x, o + 1)
<1> DEFINE w == WireAnswer(x)
           d == x.rdata
           h == <<192, 12, 0, x.type, 0, 1, 0, 0, 0, x.ttl, 0, Len(d)>>
<1>1. h \in Seq(Byte) /\ d \in Seq(Byte) /\ w = h \o d
  BY WireAnswerTyped
<1>2. /\ Len(h) = 12 /\ h[1] = 192 /\ h[3] = 0 /\ h[4] = x.type
      /\ h[7] = 0 /\ h[8] = 0 /\ h[9] = 0 /\ h[10] = x.ttl /\ h[11] = 0 /\ h[12] = Len(d)
  OBVIOUS
<1> HIDE DEF h, d, w
<1>3. Len(d) \in Nat
  BY <1>1
<1>4. /\ Len(w) = 12 + Len(d)
      /\ \A i \in 1..12 : w[i] = h[i]
      /\ \A j \in 1..Len(d) : w[12 + j] = d[j]
  <2>1. /\ Len(h \o d) = Len(h) + Len(d)
        /\ \A i \in 1..Len(h) : (h \o d)[i] = h[i]
        /\ \A j \in 1..Len(d) : (h \o d)[Len(h) + j] = d[j]
    BY <1>1, ConcatFacts
  <2>2. /\ Len(w) = Len(h) + Len(d)
        /\ \A i \in 1..Len(h) : w[i] = h[i]
        /\ \A j \in 1..Len(d) : w[Len(h) + j] = d[j]
    BY <1>1, <2>1
  <2>3. Len(h) = 12
    BY <1>2
  <2> QED BY <2>2, <2>3
<1>5. ASSUME NEW B, NEW o \in Nat, \A j \in 1..Len(w) : B[o + j] = w[j]
      PROVE  RecordLaid(B, x, o + 1)
  <2>1. /\ \A i \in 1..12 : i \in 1..Len(w)
        /\ \A j \in 1..Len(d) : 12 + j \in 1..Len(w) /\ o + (12 + j) = (o + 1) + 11 + j
    BY <1>3, <1>4
  <2>2. \A i \in 1..12 : B[o + i] = h[i]
    BY <1>4, <1>5, <2>1
  <2>3. /\ B[o + 1] = 192 /\ B[o + 3] = 0 /\ B[o + 4] = x.type
        /\ B[o + 7] = 0 /\ B[o + 8] = 0 /\ B[o + 9] = 0 /\ B[o + 10] = x.ttl
        /\ B[o + 11] = 0 /\ B[o + 12] = Len(d)
    <3>1. /\ B[o + 1] = h[1] /\ B[o + 3] = h[3] /\ B[o + 4] = h[4]
          /\ B[o + 7] = h[7] /\ B[o + 8] = h[8] /\ B[o + 9] = h[9] /\ B[o + 10] = h[10]
          /\ B[o + 11] = h[11] /\ B[o + 12] = h[12]
      BY <2>2
    <3> QED BY <1>2, <3>1
  <2>4. /\ (o + 1) + 2 = o + 3 /\ (o + 1) + 3 = o + 4 /\ (o + 1) + 6 = o + 7
        /\ (o + 1) + 7 = o + 8 /\ (o + 1) + 8 = o + 9 /\ (o + 1) + 9 = o + 10
        /\ (o + 1) + 10 = o + 11 /\ (o + 1) + 11 = o + 12
    OBVIOUS
  <2>5. \A j \in 1..Len(d) : B[(o + 1) + 11 + j] = d[j]
    BY <1>4, <1>5, <2>1
  <2> QED BY <2>3, <2>4, <2>5 DEF RecordLaid, d
<1> QED
  BY <1>3, <1>4, <1>5 DEF w, d

LEMMA RecordsAreLaid ==
  ASSUME NEW m \in Message
  PROVE  \E starts : /\ RecordsLaid(Encode(m).body, m.answers, starts)
                     /\ starts[0] = Len(FlattenSeq(Questions(m))) + 1
<1> DEFINE B == Encode(m).body
           qs == FlattenSeq(Questions(m))
           rs == Replies(m)
           as == FlattenSeq(rs)
           N == Len(m.answers)
           Q == Len(qs)
<1>1. /\ rs \in Seq(Seq(Byte)) /\ Len(rs) = N /\ m.answers \in Seq(Answer)
      /\ qs \in Seq(Byte) /\ as \in Seq(Byte) /\ B = qs \o as
  BY BodyTyped
<1>2. N \in Nat /\ Q \in Nat /\ Len(as) \in Nat /\ DOMAIN m.answers = 1..N
      /\ \A a \in 1..N : m.answers[a] \in Answer /\ rs[a] = WireAnswer(m.answers[a])
  BY <1>1 DEF Replies
<1> HIDE DEF B, qs, rs, as
<1>3. PICK ends : IsFlat(rs, as, ends)
  BY <1>1, FlattenFacts DEF as
<1>4. Len(B) = Q + Len(as) /\ \A i \in 1..Len(as) : B[Q + i] = as[i]
  <2>1. /\ Len(qs \o as) = Len(qs) + Len(as)
        /\ \A i \in 1..Len(as) : (qs \o as)[Len(qs) + i] = as[i]
    <3>1. qs \in Seq(Byte) /\ as \in Seq(Byte) BY <1>1
    <3>2. \A s, t \in Seq(Byte) :
            /\ Len(s \o t) = Len(s) + Len(t)
            /\ \A i \in 1..Len(t) : (s \o t)[Len(s) + i] = t[i]
      BY ConcatFacts
    <3> HIDE DEF N, Q
    <3> QED BY <3>1, <3>2
  <2> QED BY <1>1, <2>1
<1> HIDE DEF N, Q
<1> DEFINE starts == [a \in 0..N |-> Q + ends[a] + 1]
<1>5. /\ ends[0] = 0 /\ ends[N] = Len(as)
      /\ \A a \in 0..N : ends[a] \in Nat /\ ends[a] =< Len(as)
      /\ \A a \in 1..N : /\ ends[a] = ends[a - 1] + Len(rs[a])
                         /\ \A j \in 1..Len(rs[a]) : as[ends[a - 1] + j] = rs[a][j]
  BY <1>1, <1>3 DEF IsFlat
<1>6. /\ 0 \in 0..N /\ N \in 0..N
      /\ \A a \in 1..N : a \in 0..N /\ a - 1 \in 0..N
  BY <1>2
<1>7. starts[0] = Q + 1 /\ starts[N] = Len(B) + 1
  <2>1. starts[0] = Q + 0 + 1 /\ starts[N] = Q + Len(as) + 1 BY <1>5, <1>6
  <2> HIDE DEF starts
  <2> QED BY <1>2, <1>4, <2>1
<1>8. ASSUME NEW a \in 0..N PROVE starts[a] \in Offset /\ starts[a] =< Len(B) + 1
  <2> DEFINE e == ends[a]
  <2>1. e \in Nat /\ e =< Len(as) /\ starts[a] = Q + e + 1 BY <1>5
  <2> DEFINE n == Len(as)
  <2>2. n \in Nat /\ e =< n /\ Len(B) = Q + n BY <1>2, <1>4, <2>1
  <2> HIDE DEF e, n, starts
  <2>3. Q + e + 1 \in Nat \ {0} /\ Q + e + 1 =< (Q + n) + 1 BY <1>2, <2>1, <2>2
  <2> QED BY <2>1, <2>2, <2>3 DEF Offset
<1>9. ASSUME NEW a \in 1..N
      PROVE  /\ RecordLaid(B, m.answers[a], starts[a - 1])
             /\ starts[a] = starts[a - 1] + 12 + Len(m.answers[a].rdata)
  <2> DEFINE e == ends[a - 1]
             x == m.answers[a]
             l == Len(x.rdata)
             w == WireAnswer(x)
  <2>1. e \in Nat /\ ends[a] =< Len(as) /\ x \in Answer /\ rs[a] = w BY <1>2, <1>5, <1>6
  <2>2. Len(w) = 12 + l /\ l \in Nat BY <2>1, WireAnswerFacts
  <2>3. /\ ends[a] = e + Len(rs[a])
        /\ \A j \in 1..Len(rs[a]) : as[e + j] = rs[a][j]
    BY <1>5
  <2>4. starts[a] = Q + ends[a] + 1 /\ starts[a - 1] = Q + e + 1 BY <1>6
  <2> HIDE DEF e, w, starts
  <2>5. ends[a] = e + Len(w) /\ \A j \in 1..Len(w) : as[e + j] = w[j] BY <2>1, <2>3
  <2> HIDE DEF l, x
  <2>6. starts[a] = starts[a - 1] + 12 + l BY <1>2, <2>1, <2>2, <2>4, <2>5
  <2>7. \A j \in 1..Len(w) : e + j \in 1..Len(as) /\ Q + (e + j) = (Q + e) + j
    <3>a. Len(as) \in Nat BY <1>2
    <3>b. Len(w) \in Nat BY <2>2
    <3> DEFINE n == Len(as)
               k == Len(w)
    <3>1. n \in Nat /\ k \in Nat /\ e + k =< n
      <4>1. ends[a] = e + k /\ ends[a] =< n BY <2>1, <2>5
      <4>2. e + k =< n BY <4>1
      <4> QED BY <3>a, <3>b, <4>2
    <3> HIDE DEF n, k
    <3>2. \A j \in 1..k : e + j \in 1..n /\ Q + (e + j) = (Q + e) + j BY <1>2, <2>1, <3>1
    <3> QED BY <3>2 DEF n, k
  <2>8. \A j \in 1..Len(w) : B[(Q + e) + j] = w[j] BY <1>4, <2>5, <2>7
  <2>9. Q + e \in Nat BY <1>2, <2>1
  <2>10. RecordLaid(B, x, (Q + e) + 1) BY <2>1, <2>8, <2>9, WireAnswerFacts DEF w
  <2> QED BY <2>4, <2>6, <2>10 DEF x, l
<1>10. RecordsLaid(B, m.answers, starts)
  <2> HIDE DEF starts
  <2> QED BY <1>7, <1>8, <1>9 DEF RecordsLaid, N
<1> QED
  BY <1>7, <1>10 DEF B, Q, qs

\* An answer that is all there is read as it was written, up to the next.
LEMMA RecordRead ==
  ASSUME NEW b \in Seq(Byte), NEW B, Copy(b, B, Len(b)), NEW x \in Answer, NEW o \in Offset,
         RecordLaid(B, x, o)
  PROVE  /\ o + 11 + Len(x.rdata) =< Len(b) => Fits(b, o)
         /\ Fits(b, o) =>
              /\ Behind(b, o) = o + 12 + Len(x.rdata)
              /\ IsA(b, Fixed(b, o)) <=> x.type = 1 /\ Len(x.rdata) = 4
              /\ IsA(b, Fixed(b, o)) => AddressAt(b, o) = [ip |-> x.rdata, ttl |-> x.ttl]
<1> DEFINE n == Len(b)
           l == Len(x.rdata)
           h == Fixed(b, o)
<1>1. /\ o \in Nat /\ o > 0 /\ n \in Nat /\ l \in Nat /\ x.rdata \in Seq(Byte)
      /\ x.type \in Nat /\ x.ttl \in Nat
  BY ByteIsNat DEF Offset, Answer
<1>2. \A i \in 1..n : b[i] = B[i]
  BY DEF Copy
<1>3. o =< n => h = o + 2
  <2> SUFFICES ASSUME o =< n PROVE h = o + 2
    OBVIOUS
  <2>1. o \in 1..n BY <1>1
  <2>2. b[o] = 192 BY <1>2, <2>1 DEF RecordLaid
  <2>3. IsPointer(b[o]) BY <2>2 DEF IsPointer
  <2> QED BY <2>3, SkipNameFacts DEF Fixed
<1>4. o + 11 =< n =>
        /\ b[o + 2] = 0 /\ b[o + 3] = x.type
        /\ b[o + 6] = 0 /\ b[o + 7] = 0 /\ b[o + 8] = 0 /\ b[o + 9] = x.ttl
        /\ b[o + 10] = 0 /\ b[o + 11] = l
  <2> SUFFICES ASSUME o + 11 =< n
               PROVE  /\ b[o + 2] = 0 /\ b[o + 3] = x.type
                      /\ b[o + 6] = 0 /\ b[o + 7] = 0 /\ b[o + 8] = 0 /\ b[o + 9] = x.ttl
                      /\ b[o + 10] = 0 /\ b[o + 11] = l
    OBVIOUS
  <2> HIDE DEF n, l
  <2>1. /\ o + 2 \in 1..n /\ o + 3 \in 1..n /\ o + 6 \in 1..n /\ o + 7 \in 1..n /\ o + 8 \in 1..n
        /\ o + 9 \in 1..n /\ o + 10 \in 1..n /\ o + 11 \in 1..n
    BY <1>1
  <2>2. /\ b[o + 2] = B[o + 2] /\ b[o + 3] = B[o + 3] /\ b[o + 6] = B[o + 6]
        /\ b[o + 7] = B[o + 7] /\ b[o + 8] = B[o + 8] /\ b[o + 9] = B[o + 9]
        /\ b[o + 10] = B[o + 10] /\ b[o + 11] = B[o + 11]
    BY <1>2, <2>1
  <2> QED BY <2>2 DEF RecordLaid, l
<1>5. o + 11 =< n =>
        /\ U16(b, o + 2) = x.type /\ U16(b, o + 6) = 0 /\ U16(b, o + 8) = x.ttl
        /\ U16(b, o + 10) = l
  <2> SUFFICES ASSUME o + 11 =< n
               PROVE  /\ U16(b, o + 2) = x.type /\ U16(b, o + 6) = 0 /\ U16(b, o + 8) = x.ttl
                      /\ U16(b, o + 10) = l
    OBVIOUS
  <2> HIDE DEF n, l
  <2>1. /\ (o + 2) + 1 = o + 3 /\ (o + 6) + 1 = o + 7 /\ (o + 8) + 1 = o + 9
        /\ (o + 10) + 1 = o + 11
    BY <1>1
  <2>2. \A i, y \in Nat : b[i] = 0 /\ b[i + 1] = y => U16(b, i) = y BY DEF U16
  <2>3. /\ o + 2 \in Nat /\ o + 6 \in Nat /\ o + 8 \in Nat /\ o + 10 \in Nat /\ 0 \in Nat
    BY <1>1
  <2>4. /\ b[o + 2] = 0 /\ b[(o + 2) + 1] = x.type /\ b[o + 6] = 0 /\ b[(o + 6) + 1] = 0
        /\ b[o + 8] = 0 /\ b[(o + 8) + 1] = x.ttl /\ b[o + 10] = 0 /\ b[(o + 10) + 1] = l
    BY <1>4, <2>1
  <2> QED BY <1>1, <2>2, <2>3, <2>4 DEF l
<1>6. Fits(b, o) <=> o + 9 =< n /\ h + 9 =< n /\ h + 10 + U16(b, h + 8) - 1 =< n
  BY DEF Fits
<1>7. Behind(b, o) = h + 10 + U16(b, h + 8) /\ (IsA(b, h) <=> U16(b, h) = 1 /\ U16(b, h + 8) = 4)
  BY DEF Behind, IsA
<1>8. AddressAt(b, o) = [ip |-> SubSeq(b, h + 10, h + 10 + 3),
                         ttl |-> 65536 * U16(b, h + 4) + U16(b, h + 6)]
  BY DEF AddressAt
<1> HIDE DEF n, l, h
<1>9. /\ Fits(b, o) => o + 11 =< n
      /\ o + 11 + l =< n => o + 11 =< n
  <2>1. Fits(b, o) => o + 11 =< n
    <3> SUFFICES ASSUME Fits(b, o) PROVE o + 11 =< n
      OBVIOUS
    <3>1. o + 9 =< n /\ h + 9 =< n BY <1>6
    <3>2. h = o + 2 BY <1>1, <1>3, <3>1
    <3> QED BY <1>1, <3>1, <3>2
  <2>2. o + 11 + l =< n => o + 11 =< n BY <1>1
  <2> QED BY <2>1, <2>2
<1>10. ASSUME o + 11 =< n
       PROVE  /\ h = o + 2 /\ U16(b, h + 8) = l /\ U16(b, h) = x.type
              /\ U16(b, h + 4) = 0 /\ U16(b, h + 6) = x.ttl
  <2>1. h = o + 2 BY <1>1, <1>3, <1>10
  <2>2. h + 8 = o + 10 /\ h + 4 = o + 6 /\ h + 6 = o + 8 BY <1>1, <2>1
  <2> QED BY <1>5, <1>10, <2>1, <2>2
<1>11. o + 11 + l =< n => Fits(b, o)
  <2> SUFFICES ASSUME o + 11 + l =< n PROVE Fits(b, o)
    OBVIOUS
  <2>1. o + 11 =< n BY <1>9
  <2>2. h = o + 2 /\ U16(b, h + 8) = l BY <1>10, <2>1
  <2>3. o + 9 =< n /\ h + 9 =< n /\ h + 10 + l - 1 =< n BY <1>1, <2>1, <2>2
  <2> QED BY <1>6, <2>2, <2>3
<1>12. ASSUME Fits(b, o)
       PROVE  /\ Behind(b, o) = o + 12 + l
              /\ IsA(b, h) <=> x.type = 1 /\ l = 4
              /\ IsA(b, h) => AddressAt(b, o) = [ip |-> x.rdata, ttl |-> x.ttl]
  <2>1. /\ h = o + 2 /\ U16(b, h + 8) = l /\ U16(b, h) = x.type
        /\ U16(b, h + 4) = 0 /\ U16(b, h + 6) = x.ttl
    BY <1>9, <1>10, <1>12
  <2>2. Behind(b, o) = o + 12 + l BY <1>1, <1>7, <2>1
  <2>3. IsA(b, h) <=> x.type = 1 /\ l = 4 BY <1>7, <2>1
  <2>4. ASSUME IsA(b, h) PROVE AddressAt(b, o) = [ip |-> x.rdata, ttl |-> x.ttl]
    <3> DEFINE k == h + 10 + 3
               s == SubSeq(b, h + 10, k)
               ttl == 65536 * U16(b, h + 4) + U16(b, h + 6)
    <3>0. AddressAt(b, o) = [ip |-> s, ttl |-> ttl] BY <1>8
    <3>1. l = 4 BY <2>3, <2>4
    <3>2. h + 10 + l - 1 =< n BY <1>6, <1>12, <2>1
    <3>3. k =< n /\ h \in Nat /\ k \in Nat /\ k = h + 13 BY <1>1, <2>1, <3>1, <3>2
    <3> HIDE DEF k
    <3>4. h + 10 \in Int /\ k \in Int /\ \A i \in (h + 10)..k : b[i] \in Byte
      BY <3>3 DEF n
    <3>5. /\ s \in Seq(Byte)
          /\ Len(s) = (IF h + 10 =< k THEN k - (h + 10) + 1 ELSE 0)
          /\ \A i \in 1..(k - (h + 10) + 1) : s[i] = b[(h + 10) + i - 1]
      BY <3>4, SubSeqProperties
    <3>6. h + 10 =< k /\ k - (h + 10) + 1 = 4 BY <3>3
    <3> HIDE DEF s, ttl
    <3>7. Len(s) = 4 /\ \A i \in 1..4 : s[i] = b[(h + 10) + i - 1] BY <3>5, <3>6
    <3>8. \A i \in 1..4 : /\ (h + 10) + i - 1 = o + 11 + i /\ o + 11 + i \in 1..n
      BY <1>1, <2>1, <3>3
    <3>9. \A i \in 1..4 : B[o + 11 + i] = x.rdata[i]
      BY <3>1 DEF RecordLaid, l
    <3>10. \A i \in 1..Len(s) : s[i] = x.rdata[i]
      BY <1>2, <3>7, <3>8, <3>9
    <3>11. s = x.rdata
      BY <1>1, <3>1, <3>5, <3>7, <3>10, SeqEqual DEF l
    <3>12. ttl = x.ttl
      <4>1. \A y \in Nat : 65536 * 0 + y = y OBVIOUS
      <4> QED BY <1>1, <2>1, <4>1 DEF ttl
    <3> QED BY <3>0, <3>11, <3>12
  <2> QED BY <2>2, <2>3, <2>4
<1> QED
  BY <1>11, <1>12 DEF n, l, h

\* An answer that gives an address; what is found comes of such answers only; and the
\* first n that give one are found.
Gives(x) == x.type = 1 /\ Len(x.rdata) = 4
AddressOf(x) == [ip |-> x.rdata, ttl |-> x.ttl]
Told(answers, found) ==
  \A i \in 1..Len(found) : \E a \in 1..Len(answers) :
    Gives(answers[a]) /\ found[i] = AddressOf(answers[a])
Found(answers, found, n) ==
  \A a \in 1..n : Gives(answers[a]) => \E i \in 1..Len(found) : found[i] = AddressOf(answers[a])

\* b is a copy, perhaps cut, of B, in which the answers are laid out.
Laid(b, B, answers, starts) ==
  /\ Copy(b, B, Len(b)) /\ Len(b) =< Len(B) /\ Len(B) \in Nat
  /\ answers \in Seq(Answer) /\ RecordsLaid(B, answers, starts)

\* After a records the reader is at one of the first a + 1 answers, or all are read.
ReadUpTo(b, B, answers, starts, r, a) ==
  /\ \E c \in 0..a : r.off = starts[c] /\ (Len(b) = Len(B) => c = a)
  /\ Told(answers, r.found)
  /\ Len(b) = Len(B) => Found(answers, r.found, a)

\* One more address at the end of those found.
LEMMA OneMore ==
  ASSUME NEW found \in Seq(Address), NEW x \in Address
  PROVE  LET f == Append(found, x) IN
         /\ Len(f) = Len(found) + 1 /\ f[Len(f)] = x /\ Len(f) \in 1..Len(f)
         /\ \A i \in 1..Len(found) : f[i] = found[i] /\ i \in 1..Len(f)
         /\ \A i \in 1..Len(f) : i = Len(f) \/ i \in 1..Len(found)
<1>1. Len(found) \in Nat
  OBVIOUS
<1>2. /\ Len(Append(found, x)) = Len(found) + 1
      /\ \A i \in 1..Len(found) : Append(found, x)[i] = found[i]
      /\ Append(found, x)[Len(found) + 1] = x
  BY AppendProperties
<1> DEFINE n == Len(found)
<1>3. n + 1 \in 1..(n + 1) /\ \A i \in 1..n : i \in 1..(n + 1)
  BY <1>1
<1>4. \A i \in 1..(n + 1) : i = n + 1 \/ i \in 1..n
  BY <1>1
<1> QED BY <1>2, <1>3, <1>4

LEMMA ReadStep ==
  ASSUME NEW b \in Seq(Byte), NEW B, NEW answers, NEW starts, Laid(b, B, answers, starts),
         NEW r \in Records, NEW a \in Nat, a + 1 =< Len(answers),
         ReadUpTo(b, B, answers, starts, r, a)
  PROVE  ReadUpTo(b, B, answers, starts, NextRecord(b, r), a + 1)
<1> DEFINE N == Len(answers)
           whole == Len(b) = Len(B)
<1>1. PICK c \in 0..a : r.off = starts[c] /\ (whole => c = a)
  BY DEF ReadUpTo
<1>2. Told(answers, r.found) /\ (whole => Found(answers, r.found, a)) /\ r.found \in Seq(Address)
  BY DEF ReadUpTo, Records
<1> DEFINE o == starts[c]
           x == answers[c + 1]
           l == Len(x.rdata)
<1>3. /\ N \in Nat /\ c \in Nat /\ c =< a /\ c + 1 \in 1..N /\ (c + 1) - 1 = c /\ c \in 0..N
      /\ c + 1 \in 0..N /\ c + 1 \in 0..(a + 1) /\ c \in 0..(a + 1)
  BY DEF Laid
<1>4. /\ x \in Answer /\ l \in Nat /\ x.rdata \in Seq(Byte) /\ o \in Offset
      /\ RecordLaid(B, x, o) /\ starts[c + 1] = o + 12 + l
      /\ starts[c + 1] =< Len(B) + 1 /\ Len(B) \in Nat /\ Copy(b, B, Len(b))
  <2>1. x \in Answer BY <1>3 DEF Laid
  <2>2. x.rdata \in Seq(Byte) BY <2>1 DEF Answer
  <2> QED BY <1>3, <2>1, <2>2 DEF Laid, RecordsLaid
<1>5. /\ o + 11 + l =< Len(b) => Fits(b, o)
      /\ Fits(b, o) => /\ Behind(b, o) = o + 12 + l
                       /\ IsA(b, Fixed(b, o)) <=> Gives(x)
                       /\ IsA(b, Fixed(b, o)) => AddressAt(b, o) = AddressOf(x)
  <2> HIDE DEF x, o
  <2> QED BY <1>4, RecordRead DEF Gives, AddressOf, l
<1>6. whole => Fits(b, o)
  <2>1. o \in Nat /\ o + 12 + l =< Len(B) + 1 BY <1>4 DEF Offset
  <2> HIDE DEF o, l
  <2>2. o + 11 + l =< Len(B) BY <1>4, <2>1
  <2> QED BY <1>5, <2>2 DEF o, l
<1> HIDE DEF x, l, N
<1>7. CASE ~Fits(b, o)
  <2>1. NextRecord(b, r) = r BY <1>1, <1>7, NextRecordCases
  <2> QED BY <1>1, <1>2, <1>3, <1>6, <1>7, <2>1 DEF ReadUpTo
<1>8. CASE Fits(b, o)
  <2> DEFINE more == Append(r.found, AddressAt(b, o))
             s == NextRecord(b, r)
  <2>1. s = [found |-> IF IsA(b, Fixed(b, o)) THEN more ELSE r.found, off |-> Behind(b, o)]
    BY <1>1, <1>8, NextRecordCases
  <2>2. /\ s.off = starts[c + 1]
        /\ s.found = IF Gives(x) THEN more ELSE r.found
        /\ Gives(x) => AddressAt(b, o) = AddressOf(x)
    BY <1>4, <1>5, <1>8, <2>1
  <2>3. AddressAt(b, o) \in Address \/ ~Gives(x)
    BY <1>4, <1>5, <1>8, AddressTyped
  <2> HIDE DEF s, o
  <2>4. CASE ~Gives(x)
    <3>1. s.found = r.found BY <2>2, <2>4
    <3>2. whole => Found(answers, s.found, a + 1)
      <4>1. \A k \in 1..(a + 1) : k \in 1..a \/ k = a + 1 OBVIOUS
      <4> QED BY <1>1, <1>2, <2>4, <3>1, <4>1 DEF Found, x
    <3>3. \E d \in 0..(a + 1) : s.off = starts[d] /\ (whole => d = a + 1)
      BY <1>1, <1>3, <2>2
    <3>4. Told(answers, s.found) BY <1>2, <3>1
    <3> QED BY <3>2, <3>3, <3>4 DEF ReadUpTo, s
  <2>5. CASE Gives(x)
    <3>1. s.found = more /\ AddressAt(b, o) = AddressOf(x) BY <2>2, <2>5
    <3>2. /\ Len(more) = Len(r.found) + 1 /\ more[Len(more)] = AddressOf(x)
          /\ Len(more) \in 1..Len(more)
          /\ \A i \in 1..Len(r.found) : more[i] = r.found[i] /\ i \in 1..Len(more)
          /\ \A i \in 1..Len(more) : i = Len(more) \/ i \in 1..Len(r.found)
      BY <1>2, <2>3, <2>5, <3>1, OneMore
    <3> HIDE DEF more
    <3>3. Told(answers, s.found)
      <4> SUFFICES ASSUME NEW i \in 1..Len(more)
                   PROVE  \E k \in 1..Len(answers) :
                            Gives(answers[k]) /\ more[i] = AddressOf(answers[k])
        BY <3>1 DEF Told
      <4>1. CASE i = Len(more) BY <1>3, <2>5, <3>2, <4>1 DEF x, N
      <4>2. CASE i \in 1..Len(r.found) BY <1>2, <3>2, <4>2 DEF Told
      <4> QED BY <3>2, <4>1, <4>2
    <3>4. whole => Found(answers, s.found, a + 1)
      <4> SUFFICES ASSUME whole, NEW k \in 1..(a + 1), Gives(answers[k])
                   PROVE  \E i \in 1..Len(more) : more[i] = AddressOf(answers[k])
        BY <3>1 DEF Found
      <4>1. CASE k = a + 1 BY <1>1, <3>2, <4>1 DEF x
      <4>2. CASE k \in 1..a
        <5>1. PICK i \in 1..Len(r.found) : r.found[i] = AddressOf(answers[k])
          BY <1>2, <4>2 DEF Found
        <5> QED BY <3>2, <5>1
      <4> QED BY <4>1, <4>2
    <3>5. \E d \in 0..(a + 1) : s.off = starts[d] /\ (whole => d = a + 1)
      BY <1>1, <1>3, <2>2
    <3> QED BY <3>3, <3>4, <3>5 DEF ReadUpTo, s
  <2> QED BY <2>4, <2>5
<1> QED BY <1>7, <1>8

LEMMA AnswersRead ==
  ASSUME NEW b \in Seq(Byte), NEW B, NEW answers, NEW starts, Laid(b, B, answers, starts)
  PROVE  LET f == ARecords(b, starts[0], Len(answers)) IN
         Told(answers, f) /\ (Len(b) = Len(B) => Found(answers, f, Len(answers)))
<1> DEFINE N == Len(answers)
<1>1. N \in Nat /\ starts[0] \in Offset
  <2>1. N \in Nat BY DEF Laid
  <2>2. 0 \in 0..N BY <2>1
  <2> QED BY <2>1, <2>2 DEF Laid, RecordsLaid
<1>2. PICK read : IsRead(b, starts[0], N, read) /\ ARecords(b, starts[0], N) = read[N].found
  BY <1>1, ARecordsAreRead
<1>3. /\ read[0] = [found |-> <<>>, off |-> starts[0]]
      /\ \A a \in 1..N : read[a] = NextRecord(b, read[a - 1])
      /\ \A a \in 0..N : read[a] \in Records
  BY <1>2 DEF IsRead
<1> DEFINE G == {a \in Nat : a =< N => ReadUpTo(b, B, answers, starts, read[a], a)}
<1>4. 0 \in G
  <2>1. read[0].found = <<>> /\ read[0].off = starts[0] BY <1>3
  <2>2. Told(answers, <<>>) /\ Found(answers, <<>>, 0) BY DEF Told, Found
  <2>3. 0 \in 0..0 OBVIOUS
  <2>4. \E c \in 0..0 : read[0].off = starts[c] /\ (Len(b) = Len(B) => c = 0)
    BY <2>1, <2>3
  <2> QED BY <2>1, <2>2, <2>4 DEF ReadUpTo
<1>5. ASSUME NEW a \in Nat, a \in G PROVE a + 1 \in G
  <2>1. SUFFICES ASSUME a + 1 =< N PROVE ReadUpTo(b, B, answers, starts, read[a + 1], a + 1)
    OBVIOUS
  <2>2. a + 1 \in 1..N /\ (a + 1) - 1 = a /\ a =< N /\ a \in 0..N BY <1>1, <2>1
  <2>3. read[a + 1] = NextRecord(b, read[a]) /\ read[a] \in Records BY <1>3, <2>2
  <2>4. ReadUpTo(b, B, answers, starts, read[a], a) BY <1>5, <2>2
  <2> DEFINE r == read[a]
  <2>5. r \in Records /\ ReadUpTo(b, B, answers, starts, r, a) /\ a + 1 =< Len(answers)
    BY <2>1, <2>3, <2>4
  <2> HIDE DEF r
  <2>6. ReadUpTo(b, B, answers, starts, NextRecord(b, r), a + 1) BY <2>5, ReadStep
  <2> QED BY <2>3, <2>6 DEF r
<1>6. N \in G
  <2> HIDE DEF G
  <2> QED BY <1>1, <1>4, <1>5, Induction
<1> QED BY <1>1, <1>2, <1>6 DEF ReadUpTo

\* Behind the end of the copy nothing is found.
LEMMA NothingBehind ==
  ASSUME NEW b \in Seq(Byte), NEW off \in Offset, NEW n \in Nat, off > Len(b)
  PROVE  ARecords(b, off, n) = <<>>
<1>1. PICK read : IsRead(b, off, n, read) /\ ARecords(b, off, n) = read[n].found
  BY ARecordsAreRead
<1> DEFINE start == [found |-> <<>>, off |-> off]
           G == {a \in Nat : a =< n => read[a] = start}
<1>2. ~Fits(b, off)
  <2>1. off \in Nat /\ Len(b) \in Nat BY DEF Offset
  <2>2. ~(off + 9 =< Len(b)) BY <2>1
  <2> QED BY <2>2 DEF Fits
<1>3. start \in Records /\ start.off = off
  <2>1. <<>> \in Seq(Address) OBVIOUS
  <2> QED BY <2>1 DEF Records
<1> HIDE DEF start
<1>4. NextRecord(b, start) = start
  BY <1>2, <1>3, NextRecordCases
<1>5. 0 \in G
  BY <1>1 DEF IsRead, start
<1>6. ASSUME NEW a \in Nat, a \in G PROVE a + 1 \in G
  <2>1. SUFFICES ASSUME a + 1 =< n PROVE read[a + 1] = start OBVIOUS
  <2>2. a + 1 \in 1..n /\ (a + 1) - 1 = a /\ a =< n BY <2>1
  <2> QED BY <1>1, <1>4, <1>6, <2>2 DEF IsRead
<1>7. n \in G
  <2> HIDE DEF G
  <2> QED BY <1>5, <1>6, Induction
<1> QED BY <1>1, <1>7 DEF start

\* What the parser makes of a message of one question, host name clean.
LEMMA ParsedIs ==
  ASSUME NEW msg, msg.response, msg.qdcount = 1, msg.ancount \in Nat,
         msg.body \in Seq(Byte)
  PROVE  LET q == QueryName(msg.body) IN
         /\ Parsed(msg).name = q.name /\ q.off \in Offset
         /\ Parsed(msg).addresses = IF msg.ancount > 0 /\ q.name # <<>>
                                    THEN ARecords(msg.body, q.off + 4, msg.ancount)
                                    ELSE <<>>
<1> DEFINE q == QueryName(msg.body)
           from == AnswersFrom(msg.body, q.off, msg.qdcount)
           n == msg.ancount
<1>1. q \in Query
  BY QueryNameTyped
<1>2. q.off \in Offset
  BY <1>1 DEF Query, Offset
<1>3. 1 \in Offset /\ 1 > 0
  BY DEF Offset
<1> HIDE DEF q
<1>4. AnswersFrom(msg.body, q.off, 1) = q.off + 4
  BY <1>2, <1>3, AnswersFromFacts
<1>5. from = q.off + 4
  BY <1>4
<1>6. /\ Parsed(msg).name = q.name
      /\ Parsed(msg).addresses = IF msg.response /\ n > 0 /\ msg.qdcount > 0 /\ q.name # <<>>
                                 THEN ARecords(msg.body, from, n) ELSE <<>>
  BY DEF Parsed, q
<1> HIDE DEF from, n
<1>7. msg.qdcount > 0
  BY <1>3
<1>8. Parsed(msg).addresses = IF n > 0 /\ q.name # <<>> THEN ARecords(msg.body, from, n) ELSE <<>>
  BY <1>6, <1>7
<1> QED
  BY <1>2, <1>5, <1>6, <1>8 DEF q, n

\* A message of one question for a clean name, captured up to n: all that is parsed of it
\* is in it, and all that it says is parsed when the capture is whole.
LEMMA ParsedTells ==
  ASSUME NEW m \in Message, NEW n \in Captured(m), Len(m.names) = 1, Clean(m.names[1])
  PROVE  LET p == Parsed(Taken(m, n)) IN
         /\ Told(m.answers, p.addresses)
         /\ p.addresses # <<>> => p.name = InBuffer(Text(m.names[1]))
         /\ n = Len(Encode(m).body) /\ m.names[1] # <<>> =>
              Found(m.answers, p.addresses, Len(m.answers))
<1> DEFINE name == m.names[1]
           w == WireName(name)
           text == Text(name)
           K == Len(name)
           B == Encode(m).body
           b == Taken(m, n).body
           q == QueryName(b)
           N == Len(m.answers)
           p == Parsed(Taken(m, n))
<1>1. /\ name \in Seq(Label) /\ K \in Nat
      /\ Len(FlattenSeq(Questions(m))) = Len(w) + 4
      /\ \A i \in 1..Len(w) : B[i] = w[i]
  BY QuestionFirst
<1>2. PICK ends : NameLaid(w, text, K, ends) /\ Len(w) = ends[K] + 1
  BY <1>1, NameIsLaid
<1>3. PICK starts : RecordsLaid(B, m.answers, starts)
                    /\ starts[0] = Len(FlattenSeq(Questions(m))) + 1
  BY RecordsAreLaid
<1> DEFINE W == ends[K]
<1>4. W \in Nat /\ text \in Seq(Byte) /\ Len(text) = (IF K = 0 THEN 0 ELSE W - 1)
  BY <1>1, <1>2 DEF NameLaid
<1>5. /\ n \in Nat /\ n =< Len(B) /\ b \in Seq(Byte) /\ Len(b) = n
      /\ \A i \in 1..n : b[i] = B[i]
      /\ Taken(m, n).response /\ Taken(m, n).qdcount = 1 /\ Taken(m, n).ancount = N
      /\ N \in Nat /\ B \in Seq(Byte) /\ m.answers \in Seq(Answer)
  BY TakenTyped, BodyTyped
<1>6. /\ p.name = q.name /\ q.off \in Offset
      /\ p.addresses = IF N > 0 /\ q.name # <<>> THEN ARecords(b, q.off + 4, N) ELSE <<>>
  <2>1. Taken(m, n).ancount \in Nat BY <1>5
  <2> DEFINE t == Taken(m, n)
  <2>2. t.response /\ t.qdcount = 1 /\ t.ancount = N /\ t.body = b /\ b \in Seq(Byte) /\ t.ancount \in Nat
    BY <1>5, <2>1
  <2> HIDE DEF t
  <2>3. LET r == QueryName(t.body) IN
        /\ Parsed(t).name = r.name /\ r.off \in Offset
        /\ Parsed(t).addresses = IF t.ancount > 0 /\ r.name # <<>>
                                 THEN ARecords(t.body, r.off + 4, t.ancount) ELSE <<>>
    BY <2>2, ParsedIs
  <2> QED BY <2>2, <2>3 DEF t
<1> SUFFICES /\ Told(m.answers, p.addresses)
             /\ p.addresses # <<>> => p.name = InBuffer(text)
             /\ n = Len(B) /\ name # <<>> => Found(m.answers, p.addresses, N)
  OBVIOUS
<1> HIDE DEF name, w, text, K, B, b, q, N, p, W
<1>7. Copy(b, w, W + 1) /\ Len(w) = W + 1
  <2>1. Len(w) = W + 1 BY <1>2 DEF W
  <2>2. \A i \in 1..Len(b) : i =< W + 1 => i \in 1..Len(w) /\ i \in 1..n
    BY <1>4, <1>5, <2>1
  <2>3. \A i \in 1..Len(b) : i =< W + 1 => b[i] = w[i]
    BY <1>1, <1>5, <2>2
  <2> QED BY <2>1, <2>3 DEF Copy
<1>8. Lost(b, K, ends, q) \/ Read(text, K, ends, q)
  <2>1. Copy(b, w, ends[K] + 1) BY <1>7 DEF W
  <2> QED BY <1>2, <1>5, <2>1, NameRead DEF q
<1>9. starts[0] = W + 6
  <2>1. starts[0] = (Len(w) + 4) + 1 BY <1>1, <1>3
  <2>2. Len(w) = W + 1 BY <1>7
  <2> QED BY <1>4, <2>1, <2>2
<1>10. Len(b) = Len(B) <=> n = Len(B)
  BY <1>5
<1>11. Told(m.answers, <<>>)
  BY DEF Told
<1>12. CASE Lost(b, K, ends, q)
  <2>1. q.off > n /\ n =< W BY <1>5, <1>12 DEF Lost, W
  <2>2. p.addresses = <<>>
    <3> DEFINE o == q.off + 4
    <3>1. o \in Offset /\ o > Len(b) BY <1>5, <1>6, <2>1 DEF Offset
    <3> HIDE DEF o
    <3>2. ARecords(b, o, N) = <<>> BY <1>5, <3>1, NothingBehind
    <3> QED BY <1>6, <3>2 DEF o
  <2>3. n # Len(B)
    <3>1. 0 \in 0..N /\ starts[0] =< Len(B) + 1 /\ Len(B) \in Nat
      <4>1. 0 \in 0..N BY <1>5
      <4>2. \A a \in 0..N : starts[a] =< Len(B) + 1 BY <1>3 DEF RecordsLaid, N
      <4> QED BY <1>5, <4>1, <4>2
    <3> QED BY <1>4, <1>5, <1>9, <2>1, <3>1
  <2> QED BY <1>11, <2>2, <2>3
<1>13. CASE Read(text, K, ends, q)
  <2>1. q.off = W + 2 /\ q.name = InBuffer(text) BY <1>13 DEF Read, W
  <2>2. q.off + 4 = starts[0] BY <1>4, <1>9, <2>1
  <2>3. Laid(b, B, m.answers, starts)
    <3>1. Copy(b, B, Len(b)) BY <1>5 DEF Copy
    <3>2. Len(b) =< Len(B) /\ Len(B) \in Nat BY <1>5
    <3> QED BY <1>3, <1>5, <3>1, <3>2 DEF Laid
  <2> DEFINE f == ARecords(b, starts[0], N)
  <2>4. Told(m.answers, f) /\ (Len(b) = Len(B) => Found(m.answers, f, N))
    BY <1>5, <2>3, AnswersRead DEF N
  <2> HIDE DEF f
  <2>5. p.addresses = IF N > 0 /\ q.name # <<>> THEN f ELSE <<>>
    BY <1>6, <2>2 DEF f
  <2>6. Told(m.answers, p.addresses)
    BY <1>11, <2>4, <2>5
  <2>7. ASSUME n = Len(B), name # <<>> PROVE Found(m.answers, p.addresses, N)
    <3>1. CASE N = 0
      <4>1. \A a \in 1..N : FALSE BY <3>1
      <4> QED BY <4>1 DEF Found
    <3>2. CASE N # 0
      <4>1. q.name # <<>>
        <5>1. K # 0 BY <1>1, <2>7 DEF K, name
        <5>2. Len(w) > 2
          <6>1. K \in Nat /\ K - 1 \in 0..(K - 1) /\ (K - 1) + 1 = K /\ K - 1 \in 0..K
            BY <1>1, <5>1
          <6>2. /\ ends[K - 1] \in Nat /\ ends[K - 1] < W
                /\ w[ends[K - 1] + 1] = W - ends[K - 1] - 1
                /\ \A o \in 1..W : w[o] \in 1..191
            BY <1>2, <6>1 DEF NameLaid, W
          <6> DEFINE e == ends[K - 1]
          <6>3. e \in Nat /\ e < W /\ w[e + 1] = W - e - 1 BY <6>2
          <6> HIDE DEF e
          <6>4. e + 1 \in 1..W BY <1>4, <6>3
          <6>5. W - e - 1 \in 1..191 BY <6>2, <6>3, <6>4
          <6> QED BY <1>4, <1>7, <6>3, <6>5
        <5>3. Len(text) > 0 BY <1>4, <1>7, <5>1, <5>2
        <5>4. Len(InBuffer(text)) # 0
          <6>1. Len(InBuffer(text)) = IF Len(text) =< BUF THEN Len(text) ELSE BUF
            BY <1>4, InBufferIs
          <6>2. BUF > 0 BY NameBufAssumption DEF BUF
          <6> QED BY <5>3, <6>1, <6>2
        <5> QED BY <2>1, <5>4
      <4>2. N > 0 BY <1>5, <3>2
      <4>3. p.addresses = f BY <2>5, <4>1, <4>2
      <4> QED BY <1>10, <2>4, <2>7, <4>3
    <3> QED BY <3>1, <3>2
  <2> QED BY <1>6, <2>1, <2>6, <2>7
<1> QED BY <1>8, <1>12, <1>13

\* What a reply leaves in a slot: what was there, or what one of its answers says; and that
\* is so in the slot of every address it gives, when it is captured whole.
Says(m, a, e) ==
  /\ Gives(a)
  /\ e = [ip |-> a.rdata, name |-> InBuffer(Text(m.names[1])), expires |-> Expiry(a.ttl),
          app |-> Unknown]

LEMMA ReplyInserts ==
  ASSUME NEW m \in Message, NEW n \in Captured(m), Len(m.names) = 1, Clean(m.names[1]),
         Reply(m, n)
  PROVE  /\ DOMAIN cache' = Slot
         /\ \A s \in Slot : cache'[s] = cache[s] \/ \E a \in Range(m.answers) : Says(m, a, cache'[s])
         /\ n = Len(Encode(m).body) /\ m.names[1] # <<>> =>
              \A x \in Range(m.answers) : Gives(x) /\ Hash[x.rdata] \in Slot =>
                \E a \in Range(m.answers) : Says(m, a, cache'[Hash[x.rdata]])
<1> DEFINE p == Parsed(Taken(m, n))
           found == p.addresses
           name == InBuffer(Text(m.names[1]))
           N == Len(m.answers)
           At(s) == {i \in DOMAIN found : Hash[found[i].ip] = s}
           whole == n = Len(Encode(m).body) /\ m.names[1] # <<>>
<1>1. /\ Told(m.answers, found) /\ (found # <<>> => p.name = name)
      /\ whole => Found(m.answers, found, N)
  BY ParsedTells
<1>2. cache' = [s \in Slot |-> IF At(s) = {} THEN cache[s]
                               ELSE Inserted(s, p.name, found[Max(At(s))])]
  BY DEF Reply, dns_cache_update, Taken
<1>3. found \in Seq(Address)
  <2>1. /\ Taken(m, n).body \in Seq(Byte) /\ Taken(m, n).qdcount \in Nat
        /\ Taken(m, n).ancount \in Nat
    BY TakenTyped
  <2> QED BY <2>1, ParsedTyped
<1>4. m.answers \in Seq(Answer) /\ DOMAIN m.answers = 1..N
  BY BodyTyped
<1>5. \A a \in 1..N : m.answers[a] \in Range(m.answers)
  BY <1>4 DEF Range
<1>6. \A x \in Range(m.answers) : \E a \in 1..N : x = m.answers[a]
  BY <1>4 DEF Range
<1> HIDE DEF p, found, name, N, whole
<1>7. ASSUME NEW s \in Slot, At(s) # {}
      PROVE  \E a \in Range(m.answers) : Says(m, a, cache'[s])
  <2> DEFINE k == Max(At(s))
  <2>1. Len(found) \in Nat /\ DOMAIN found = 1..Len(found) /\ At(s) \in SUBSET (0..Len(found))
    BY <1>3
  <2>2. k \in At(s)
    <3> HIDE DEF At
    <3> QED BY <1>7, <2>1, MaxFacts
  <2>3. k \in 1..Len(found) BY <2>1, <2>2
  <2>4. cache'[s] = Inserted(s, p.name, found[k]) BY <1>2, <1>7
  <2> HIDE DEF k, At
  <2>5. found # <<>> BY <2>3
  <2>6. PICK a \in 1..N : Gives(m.answers[a]) /\ found[k] = AddressOf(m.answers[a])
    BY <1>1, <2>3 DEF Told, N
  <2>7. Inserted(s, p.name, found[k]) =
          [ip |-> m.answers[a].rdata, name |-> name, expires |-> Expiry(m.answers[a].ttl),
           app |-> Unknown]
    BY <1>1, <2>5, <2>6 DEF Inserted, AddressOf
  <2> QED BY <1>5, <2>4, <2>6, <2>7 DEF Says, name
<1>8. \A s \in Slot : At(s) = {} => cache'[s] = cache[s]
  BY <1>2
<1>9. ASSUME whole, NEW x \in Range(m.answers), Gives(x), Hash[x.rdata] \in Slot
      PROVE  At(Hash[x.rdata]) # {}
  <2>1. PICK a \in 1..N : x = m.answers[a] BY <1>6
  <2>2. PICK i \in 1..Len(found) : found[i] = AddressOf(x)
    BY <1>1, <1>9, <2>1 DEF Found
  <2>3. i \in DOMAIN found /\ found[i].ip = x.rdata
    BY <1>3, <2>2 DEF AddressOf
  <2> QED BY <2>3
<1>10. DOMAIN cache' = Slot
  BY <1>2
<1> HIDE DEF At
<1> QED
  BY <1>7, <1>8, <1>9, <1>10 DEF whole

-----------------------------------------------------------------------------
\* A live entry was answered.
Sourced ==
  \A s \in Slot : cache[s].name # <<>> /\ now < cache[s].expires =>
    [ip |-> cache[s].ip, name |-> cache[s].name, until |-> cache[s].expires] \in answered

SourceInv ==
  /\ Entries /\ Sourced /\ now \in 0..MaxTime
  /\ \A s \in Slot : cache[s].expires \in Nat

\* A name is found for an address only because an answer for that address, still within
\* its TTL, gave it, whatever is cut off the replies: for messages of one question for a
\* host name, with any number of answers of any kind (ndpi_dns_cache.h:49-136).
THEOREM CacheIsAnswered ==
  ASSUME \A m \in Message : Len(m.names) = 1 /\ Clean(m.names[1])
  PROVE  Spec => []CacheAnswered
<1>1. Init => SourceInv
  <2> SUFFICES ASSUME Init PROVE SourceInv
    OBVIOUS
  <2>1. cache = [s \in Slot |-> Vacant] /\ now = 0 /\ MaxTime \in Nat
    BY HostAssumption DEF Init
  <2>2. IsEntry(Vacant) /\ Vacant.name = <<>> /\ Vacant.expires = 0
    BY DEF IsEntry, Vacant
  <2>3. DOMAIN cache = Slot /\ \A s \in Slot : cache[s] = Vacant
    BY <2>1
  <2> QED BY <2>1, <2>2, <2>3 DEF SourceInv, Sourced, Entries
<1>2. SourceInv /\ [Next]_vars => SourceInv'
  <2> SUFFICES ASSUME SourceInv, [Next]_vars PROVE SourceInv'
    OBVIOUS
  <2>0. /\ DOMAIN cache = Slot /\ Sourced /\ now \in 0..MaxTime /\ MaxTime \in Nat
        /\ \A s \in Slot : IsEntry(cache[s]) /\ cache[s].expires \in Nat
    BY HostAssumption DEF SourceInv, Entries
  <2>1. ASSUME NEW m \in Message, NEW n \in Captured(m), Reply(m, n) PROVE SourceInv'
    <3>1. /\ DOMAIN cache' = Slot
          /\ \A s \in Slot : cache'[s] = cache[s] \/ \E a \in Range(m.answers) : Says(m, a, cache'[s])
      BY <2>1, ReplyInserts
    <3>2. now' = now /\ answered' = answered \cup Meaning(m)
      BY <2>1 DEF Reply
    <3>3. ASSUME NEW s \in Slot
          PROVE  /\ IsEntry(cache'[s]) /\ cache'[s].expires \in Nat
                 /\ cache'[s].name # <<>> /\ now < cache'[s].expires =>
                      [ip |-> cache'[s].ip, name |-> cache'[s].name, until |-> cache'[s].expires]
                        \in answered'
      <4>1. CASE cache'[s] = cache[s]
        BY <2>0, <3>2, <4>1 DEF Sourced
      <4>2. ASSUME NEW a \in Range(m.answers), Says(m, a, cache'[s])
            PROVE  /\ IsEntry(cache'[s]) /\ cache'[s].expires \in Nat
                   /\ [ip |-> cache'[s].ip, name |-> cache'[s].name, until |-> cache'[s].expires]
                        \in answered'
        <5> DEFINE e == cache'[s]
                   name == InBuffer(Text(m.names[1]))
        <5>1. e = [ip |-> a.rdata, name |-> name, expires |-> Expiry(a.ttl), app |-> Unknown]
              /\ a.type = 1
          BY <4>2 DEF Says, Gives
        <5>2. a \in Answer
          <6>1. m.answers \in Seq(Answer) BY BodyTyped
          <6> QED BY <6>1 DEF Range
        <5>3. Expiry(a.ttl) \in Nat
          <6>1. a.ttl \in Nat BY <5>2, ByteIsNat DEF Answer
          <6>2. Expiry(a.ttl) \in 0..(MaxTime + MAX_TTL) BY <2>0, <6>1, ExpiryTyped
          <6> QED BY <6>2
        <5>4. [ip |-> a.rdata, name |-> name, until |-> Expiry(a.ttl)] \in Meaning(m)
          BY <5>1 DEF Meaning
        <5> HIDE DEF e, name
        <5>5. e.ip = a.rdata /\ e.name = name /\ e.expires = Expiry(a.ttl) /\ IsEntry(e)
          BY <5>1 DEF IsEntry
        <5> QED BY <3>2, <5>3, <5>4, <5>5 DEF e
      <4> QED BY <3>1, <4>1, <4>2
    <3> QED BY <2>0, <3>1, <3>2, <3>3 DEF SourceInv, Sourced, Entries
  <2>2. ASSUME NEW h \in Sni, BySni(h) PROVE SourceInv'
    BY <2>2 DEF SourceInv, Sourced, Entries, BySni
  <2>3. ASSUME NEW ip \in Ip, ByDns(ip) PROVE SourceInv'
    <3>1. PICK id : cache' = [cache EXCEPT ![Hash[ip]].app = id]
      BY <2>3 DEF ByDns
    <3>2. now' = now /\ answered' = answered
      BY <2>3 DEF ByDns
    <3>3. DOMAIN cache' = Slot
      BY <2>0, <3>1
    <3>4. ASSUME NEW s \in Slot
          PROVE  /\ IsEntry(cache'[s]) /\ cache'[s].ip = cache[s].ip
                 /\ cache'[s].name = cache[s].name /\ cache'[s].expires = cache[s].expires
      <4>1. PICK i, nm, x, a : cache[s] = [ip |-> i, name |-> nm, expires |-> x, app |-> a]
        BY <2>0 DEF IsEntry
      <4>2. cache'[s] = IF s = Hash[ip] THEN [cache[s] EXCEPT !.app = id] ELSE cache[s]
        BY <2>0, <3>1
      <4>3. cache'[s] = [ip |-> i, name |-> nm, expires |-> x,
                         app |-> IF s = Hash[ip] THEN id ELSE a]
        BY <4>1, <4>2
      <4> DEFINE e == cache'[s]
                 f == cache[s]
                 c == IF s = Hash[ip] THEN id ELSE a
      <4>4. /\ e = [ip |-> i, name |-> nm, expires |-> x, app |-> c]
            /\ f = [ip |-> i, name |-> nm, expires |-> x, app |-> a]
        BY <4>1, <4>3
      <4> HIDE DEF e, f, c
      <4>5. IsEntry(e)
        BY <4>4 DEF IsEntry
      <4>6. e.ip = f.ip /\ e.name = f.name /\ e.expires = f.expires
        BY <4>4
      <4> QED BY <4>5, <4>6 DEF e, f
    <3> QED BY <2>0, <3>2, <3>3, <3>4 DEF SourceInv, Sourced, Entries
  <2>4. CASE Tick
    <3>1. /\ now' = now + 1 /\ now' \in 0..MaxTime /\ cache' = cache
          /\ answered' = {r \in answered : r.until > now'}
      BY <2>0, <2>4 DEF Tick
    <3>2. ASSUME NEW s \in Slot, cache[s].name # <<>>, now' < cache[s].expires
          PROVE  [ip |-> cache[s].ip, name |-> cache[s].name, until |-> cache[s].expires]
                   \in answered'
      <4> DEFINE x == cache[s].expires
                 r == [ip |-> cache[s].ip, name |-> cache[s].name, until |-> x]
      <4>1. x \in Nat /\ now < x /\ x > now' BY <2>0, <3>1, <3>2
      <4>2. r \in answered BY <2>0, <3>2, <4>1 DEF Sourced
      <4> QED BY <3>1, <4>1, <4>2
    <3> QED BY <2>0, <3>1, <3>2 DEF SourceInv, Sourced, Entries
  <2>5. CASE UNCHANGED vars
    BY <2>5 DEF SourceInv, Sourced, Entries, vars
  <2> QED
    BY <2>1, <2>2, <2>3, <2>4, <2>5 DEF Next
<1>3. SourceInv => CacheAnswered
  BY HostAssumption DEF SourceInv, Sourced, CacheAnswered, Live
<1> QED
  BY <1>1, <1>2, <1>3, PTL DEF Spec

\* What the resolvers ask and say: host names, and IPv4 addresses in the records for them.
Answers(m) ==
  /\ Clean(m.names[1]) /\ m.names[1] # <<>>
  /\ \A a \in Range(m.answers) : a.type = 1 => a.rdata \in Ip /\ Len(a.rdata) = 4

\* An answer to one question that is captured whole is found in the cache, under the
\* queried name as far as that fits, however many answers there are and however long the
\* name is (ndpi_dns_cache.h:49-136).
THEOREM AnswersAreCached ==
  ASSUME \A m \in Message : Len(m.names) = 1 => Answers(m)
  PROVE  Spec => AnswersCached
<1> DEFINE Cached == \A m \in Message : Len(m.names) = 1 /\ Reply(m, Len(Encode(m).body)) =>
             \A s \in {Hash[r.ip] : r \in Meaning(m)} :
               [ip |-> cache'[s].ip, name |-> cache'[s].name, until |-> cache'[s].expires]
                 \in Meaning(m)
<1>1. Cached
  <2> SUFFICES ASSUME NEW m \in Message, Len(m.names) = 1, Reply(m, Len(Encode(m).body)),
                      NEW r \in Meaning(m)
               PROVE  LET e == cache'[Hash[r.ip]] IN
                      [ip |-> e.ip, name |-> e.name, until |-> e.expires] \in Meaning(m)
    OBVIOUS
  <2>1. /\ Clean(m.names[1]) /\ m.names[1] # <<>>
        /\ \A a \in Range(m.answers) : a.type = 1 => a.rdata \in Ip /\ Len(a.rdata) = 4
    BY DEF Answers
  <2>2. PICK x \in Range(m.answers) : x.type = 1 /\ r.ip = x.rdata
    BY DEF Meaning
  <2>3. Gives(x) /\ Hash[x.rdata] \in Slot
    BY <2>1, <2>2, HostAssumption DEF Gives
  <2> DEFINE n == Len(Encode(m).body)
             e == cache'[Hash[r.ip]]
  <2>4. n \in Captured(m) /\ Reply(m, n) BY DEF Captured
  <2>5. PICK a \in Range(m.answers) : Says(m, a, cache'[Hash[x.rdata]])
    <3> HIDE DEF n
    <3>1. n = Len(Encode(m).body) BY DEF n
    <3> QED BY <2>1, <2>3, <2>4, <3>1, ReplyInserts
  <2>6. /\ a.type = 1 /\ e.ip = a.rdata /\ e.name = InBuffer(Text(m.names[1]))
        /\ e.expires = Expiry(a.ttl)
    BY <2>2, <2>5 DEF Says, Gives
  <2> HIDE DEF e
  <2> QED BY <2>6 DEF Meaning, e
<1>2. Cached => [Cached]_vars
  OBVIOUS
<1> QED
  BY <1>1, PTL DEF Spec, AnswersCached
=============================================================================
