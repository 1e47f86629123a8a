------------------------------ MODULE HostNames ------------------------------
(***************************************************************************)
(* The host names of the daemon: the cache of names by address that DNS    *)
(* answers fill (daemon/ndpi_dns_cache.h), the pool of dynamic labels, and *)
(* the application id a flow gets from its SNI or from the cache           *)
(* (daemon/ndpi_engine.c).                                                 *)
(*                                                                         *)
(* What libndpi and the service tables know about a host name is given:    *)
(* Service is what dns_match_app finds, Native the id of nDPI's own host   *)
(* database.  The other ids are Unknown (0) and the dynamic 400..463.      *)
(*                                                                         *)
(* A reply is captured whole or as a prefix.  That an event may come with  *)
(* no byte of its packet, and dns_cache_update then parse what the ring    *)
(* buffer last held there, is left out.                                    *)
(***************************************************************************)
EXTENDS DnsMessage, FiniteSets

CONSTANTS
  Ip, Slot, Hash,      \* addresses, cache slots, and _dns_hash
  Message,             \* the messages resolvers send
  Cut,                 \* lengths a capture may be cut to, in bytes after the header
  Sni,                 \* the server names nDPI finds in flows
  Service, Native,     \* partial functions from host name to id
  Local,               \* names of the local domains and of reverse DNS
  LABELS,              \* size of dyn_labels, 64 in the code
  MAX_TTL,             \* 300 seconds in the code
  MaxTime              \* bound on time

ASSUME HostAssumption ==
  /\ Hash \in [Ip -> Slot]
  /\ Message \subseteq [names : Seq(Seq(Label)), answers : Seq(Answer)] /\ Cut \subseteq Nat
  /\ Sni \subseteq Seq(Byte)
  /\ \A h \in DOMAIN Service : Service[h] \in Nat
  /\ \A h \in DOMAIN Native : Native[h] \in Nat
  /\ LABELS \in Nat \ {0} /\ MAX_TTL \in Nat \ {0} /\ MaxTime \in Nat

VARIABLES
  cache,     \* Slot -> dns_cache_entry_t, Vacant before the first insert
  labels,    \* dyn_labels
  now,
  answered,  \* history: what was answered and has not expired
  given      \* history: the ids given, each with the name it was given for
vars == <<cache, labels, now, answered, given>>

Unknown == 0
DynId(i) == 399 + i
Vacant == [ip |-> <<>>, name |-> <<>>, expires |-> 0, app |-> Unknown]

Init ==
  /\ cache = [s \in Slot |-> Vacant]
  /\ labels = <<>>
  /\ now = 0
  /\ answered = {}
  /\ given = {}
-----------------------------------------------------------------------------
(* The definitions named <definition>_<fault> are seeded faults, used only to
   show that a property notices them. *)

(* dns_cache_update and dns_cache_insert. *)

Expiry(ttl) == now + Min({ttl, MAX_TTL})

\* The slot s after dns_cache_insert(name, r).
Inserted_keeps_id(s, name, r) ==
  [ip |-> r.ip, name |-> name, expires |-> Expiry(r.ttl), app |-> cache[s].app]
Inserted(s, name, r) ==
  [ip |-> r.ip, name |-> name, expires |-> Expiry(r.ttl), app |-> Unknown]

\* Of the addresses that share a slot, the last one stays in it.
dns_cache_update(msg) ==
  LET p == Parsed(msg)
      At(s) == {i \in DOMAIN p.addresses : Hash[p.addresses[i].ip] = s}
  IN cache' = [s \in Slot |-> IF At(s) = {} THEN cache[s]
                              ELSE Inserted(s, p.name, p.addresses[Max(At(s))])]

\* What message m says, as its sender means it.
Meaning(m) ==
  {[ip |-> a.rdata, name |-> InBuffer(Text(m.names[1])), until |-> Expiry(a.ttl)] :
     a \in {x \in Range(m.answers) : x.type = 1}}

\* How much of a reply may be captured: all, or a prefix.
Captured(m) == {Len(Encode(m).body)} \cup {n \in Cut : n < Len(Encode(m).body)}

\* A reply comes, and the first n bytes of it are captured.
Reply(m, n) ==
  /\ dns_cache_update([Encode(m) EXCEPT !.body = SubSeq(@, 1, n)])
  /\ answered' = answered \cup Meaning(m)
  /\ UNCHANGED <<labels, now, given>>
-----------------------------------------------------------------------------
(* The id of a host name. *)

Known(table, host) == IF host \in DOMAIN table THEN table[host] ELSE Unknown

\* clean_label: the word before the last dot.  (The case of its first letter is
\* left out.)
Word(host) ==
  LET h == IF Last(host) = Dot THEN Front(host) ELSE host
      dots == {i \in DOMAIN h : h[i] = Dot}
      last == Max(dots)
      start == 1 + Max({0} \cup (dots \ {last}))
  IN IF dots = {} THEN h ELSE SubSeq(h, start, last - 1)

IsDomain(host) == Dot \in Range(host) /\ host \notin Local

\* The position of a word in the pool; its length plus one when it is not there.
Position_but_last(ls, w) == Min({i \in 1..(Len(ls) - 1) : ls[i] = w} \cup {Len(ls) + 1})
Position(ls, w) == Min({i \in DOMAIN ls : ls[i] = w} \cup {Len(ls) + 1})

Full(ls) == Len(ls) >= LABELS

\* The pool and the id after engine_get_dyn_app.
DynApp(ls, host) ==
  LET i == Position(ls, Word(host)) IN
  IF ~IsDomain(host) THEN [labels |-> ls, id |-> Unknown]
  ELSE IF Known(Native, host) # Unknown THEN [labels |-> ls, id |-> Known(Native, host)]
  ELSE IF i \in DOMAIN ls THEN [labels |-> ls, id |-> DynId(i)]
  ELSE IF Full(ls) THEN [labels |-> ls, id |-> Unknown]
  ELSE [labels |-> Append(ls, Word(host)), id |-> DynId(i)]

\* What is known of the ids given so far.
Give(host, id) == given' = IF id = Unknown THEN given ELSE given \cup {[host |-> host, id |-> id]}

\* A flow with a server name: the tables are not asked.
BySni(host) ==
  LET d == DynApp(labels, host) IN
  /\ labels' = d.labels
  /\ Give(host, d.id)
  /\ UNCHANGED <<cache, now, answered>>

\* dns_cache_lookup_entry finds an entry.
Live(ip) ==
  LET e == cache[Hash[ip]] IN e.ip = ip /\ e.name # <<>> /\ now < e.expires

\* A flow to ip without a server name: the id kept in the entry, else the tables,
\* else a dynamic label; what is found is kept.
ByDns(ip) ==
  LET e == cache[Hash[ip]]
      s == Known(Service, e.name)
      d == IF e.app # Unknown THEN [labels |-> labels, id |-> e.app]
           ELSE IF s # Unknown THEN [labels |-> labels, id |-> s]
           ELSE DynApp(labels, e.name)
  IN /\ Live(ip)
     /\ labels' = d.labels
     /\ cache' = [cache EXCEPT ![Hash[ip]].app = d.id]
     /\ Give(e.name, d.id)
     /\ UNCHANGED <<now, answered>>

Tick ==
  /\ now < MaxTime
  /\ now' = now + 1
  /\ answered' = {r \in answered : r.until > now'}
  /\ UNCHANGED <<cache, labels, given>>

Next ==
  \/ \E m \in Message : \E n \in Captured(m) : Reply(m, n)
  \/ \E h \in Sni : BySni(h)
  \/ \E ip \in Ip : ByDns(ip)
  \/ Tick

Spec == Init /\ [][Next]_vars
-----------------------------------------------------------------------------
\* dns_cache_entry_t: a name fits its buffer, with the NUL behind it.
Entry == [ip : Ip \cup {<<>>}, name : {n \in Seq(Byte) : Len(n) < NAME_BUF},
          expires : 0..(MaxTime + MAX_TTL), app : Nat]

TypeOK == cache \in [Slot -> Entry] /\ labels \in Seq(Seq(Byte)) /\ now \in 0..MaxTime

\* A name is found for an address only because an answer for that address, still
\* within its TTL, gave it: not for its neighbour in the message, not from bytes
\* that are something else, and not longer than that answer allows
\* (ndpi_dns_cache.h:108-136; ndpi_obs_types.h:62, data_len is "bytes valid in
\* pkt_data").
CacheAnswered ==
  \A ip \in Ip : Live(ip) =>
    LET e == cache[Hash[ip]]
    IN  [ip |-> ip, name |-> e.name, until |-> e.expires] \in answered

\* An answer to one question that is captured whole is found in the cache, under
\* the queried name, however long that is; in a slot that two of its addresses
\* share, one is (ndpi_dns_cache.h:81-106).
AnswersCached ==
  [][\A m \in Message : Len(m.names) = 1 /\ Reply(m, Len(Encode(m).body)) =>
       \A s \in {Hash[r.ip] : r \in Meaning(m)} :
         [ip |-> cache'[s].ip, name |-> cache'[s].name, until |-> cache'[s].expires]
           \in Meaning(m)]_vars

\* A dynamic id is never given to two words, nor a word two ids, and the pool is
\* not written past its end (ndpi_engine.c:219-225).
LabelsSound == IsInjective(labels) /\ Len(labels) =< LABELS

\* What an id stands for: a service, a protocol, or the label at its place.
Means(id, host) ==
  \/ id \in {Known(Service, host), Known(Native, host)}
  \/ \E i \in DOMAIN labels : id = DynId(i) /\ labels[i] = Word(host)

\* An id given to a flow stands for the flow's host name, and goes on doing so:
\* an entry that gets a new name loses the id of the old one, and a label is
\* never put in the place of another (ndpi_dns_cache.h:39, ndpi_engine.c:222).
IdsMeanTheirNames == \A g \in given : Means(g.id, g.host)
=============================================================================
