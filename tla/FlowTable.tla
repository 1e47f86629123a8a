------------------------------ MODULE FlowTable ------------------------------
(***************************************************************************)
(* daemon/flow_table.c at the level of its pointers: buckets of singly     *)
(* linked entries that come from calloc and go back with free.             *)
(*                                                                         *)
(* A ref is a place that holds a pointer: a bucket, or the next field of   *)
(* an entry.  The code's pp is a ref.  Nothing can be read from a freed    *)
(* entry: its next field holds NULL here, and following it loses whatever  *)
(* was behind it.  The table belongs to one thread, so each call is one    *)
(* action.  Of an entry the key and last_seen are kept; what the engine    *)
(* keeps in an entry is the business of Engine.                            *)
(***************************************************************************)
EXTENDS Integers, FiniteSets

CONSTANTS
  Key, Bucket, Node,
  Hash,               \* flow_key_hash: Key -> Bucket
  Tcp,                \* the keys with key.proto == 6
  FLOW_TCP_IDLE_SEC,  \* 300 in the code
  FLOW_UDP_IDLE_SEC,  \* 30 in the code
  NULL, Free,
  MaxTime,            \* bound on the clock
  MaxCreated          \* bound on the flows of a behaviour

Entry == [key : Key, last_seen : Nat]

ASSUME TableAssumption ==
  /\ IsFiniteSet(Key) /\ IsFiniteSet(Node) /\ IsFiniteSet(Bucket)
  /\ Hash \in [Key -> Bucket] /\ Tcp \subseteq Key
  /\ FLOW_TCP_IDLE_SEC \in Nat /\ FLOW_UDP_IDLE_SEC \in Nat
  /\ Bucket # {} /\ Bucket \cap Node = {}
  /\ NULL \notin Node \cup Nat /\ Free \notin Entry

VARIABLES
  ptr,            \* what each ref points to
  node,           \* the entries, Free when not allocated
  count,          \* t->count
  total_created,  \* t->total_created
  now,            \* time(NULL)
  reported        \* history: Key -> calls of on_expire
table == <<ptr, node, count>>
vars == <<table, total_created, now, reported>>

Ref == Bucket \cup Node

\* flow_table_init.
Init ==
  /\ ptr = [r \in Ref |-> NULL]
  /\ node = [n \in Node |-> Free]
  /\ count = 0 /\ total_created = 0 /\ now = 0
  /\ reported = [k \in Key |-> 0]
-----------------------------------------------------------------------------
(* The definitions named <definition>_<fault> are seeded faults, used only to
   show that a property notices them. *)

\* The walk along a chain: the ref that points to the entry of k, or the last
\* ref of the chain.
Find(k) ==
  LET from[pp \in Ref] ==
        IF ptr[pp] = NULL \/ node[ptr[pp]].key = k THEN pp ELSE from[ptr[pp]]
  IN from[Hash[k]]

lookup(k) == ptr[Find(k)]

\* The heap after entry e has been unlinked from ref pp and freed.
Unlinked_after_free(p, pp, e) == [p EXCEPT ![pp] = NULL, ![e] = NULL]
Unlinked(p, pp, e) == [p EXCEPT ![pp] = p[e], ![e] = NULL]

\* flow_table_get_or_create puts a new entry at the head of its bucket ...
Pushed(k, n) == [ptr EXCEPT ![n] = ptr[Hash[k]], ![Hash[k]] = n]

\* ... and ndpi_engine_process stamps whatever it gets.
SeeKnown(k) ==
  /\ lookup(k) # NULL
  /\ node' = [node EXCEPT ![lookup(k)].last_seen = now]
  /\ UNCHANGED <<ptr, count, total_created, now, reported>>

SeeNew(k, n) ==
  /\ lookup(k) = NULL /\ node[n] = Free
  /\ total_created < MaxCreated
  /\ node' = [node EXCEPT ![n] = [key |-> k, last_seen |-> now]]
  /\ ptr' = Pushed(k, n)
  /\ count' = count + 1
  /\ total_created' = total_created + 1
  /\ UNCHANGED <<now, reported>>

\* flow_table_remove.  (No caller in the daemon: entries leave by the sweep.)
remove(k) ==
  LET pp == Find(k) IN
  /\ ptr[pp] # NULL
  /\ ptr' = Unlinked(ptr, pp, ptr[pp])
  /\ node' = [node EXCEPT ![ptr[pp]] = Free]
  /\ count' = count - 1
  /\ UNCHANGED <<total_created, now, reported>>

Timeout(k) == IF k \in Tcp THEN FLOW_TCP_IDLE_SEC ELSE FLOW_UDP_IDLE_SEC

IsIdle(e) == now - e.last_seen > Timeout(e.key)

\* The ref the sweep looks at after it has freed an entry: the same one, which
\* now points past it.
After_next(p, pp) == IF p[pp] = NULL THEN pp ELSE p[pp]
After(p, pp) == pp

\* The sweep, as far as it has come: the table, the ref it looks at, and the buckets
\* it has not begun.
Freed(t) ==
  LET e == t.ptr[t.pp]
      p == Unlinked(t.ptr, t.pp, e)
  IN [ptr |-> p, node |-> [t.node EXCEPT ![e] = Free], count |-> t.count - 1,
      reported |-> [t.reported EXCEPT ![t.node[e].key] = @ + 1],
      pp |-> After(p, t.pp), todo |-> t.todo]

NextBucket(t) ==
  LET b == CHOOSE b \in t.todo : TRUE IN [t EXCEPT !.pp = b, !.todo = @ \ {b}]

\* One turn of the loops of flow_table_age, on_expire before the unlinking.
Turn(t) ==
  LET e == t.ptr[t.pp] IN
  CASE e = NULL /\ t.todo = {}             -> t
    [] e = NULL /\ t.todo # {}             -> NextBucket(t)
    [] e # NULL /\ IsIdle(t.node[e])       -> Freed(t)
    [] e # NULL /\ ~IsIdle(t.node[e])      -> [t EXCEPT !.pp = e]

\* flow_table_age: a turn for each entry and each bucket but the first.
age ==
  LET first == CHOOSE b \in Bucket : TRUE
      begin == [ptr |-> ptr, node |-> node, count |-> count, reported |-> reported,
                pp |-> first, todo |-> Bucket \ {first}]
      turn[i \in Nat] == IF i = 0 THEN begin ELSE Turn(turn[i - 1])
      t == turn[Cardinality(Ref)]
  IN
  /\ ptr' = t.ptr /\ node' = t.node /\ count' = t.count /\ reported' = t.reported
  /\ UNCHANGED <<total_created, now>>

\* flow_table_destroy.
destroy ==
  /\ count > 0
  /\ ptr' = [r \in Ref |-> NULL]
  /\ node' = [n \in Node |-> Free]
  /\ count' = 0
  /\ UNCHANGED <<total_created, now, reported>>

Tick ==
  /\ now < MaxTime
  /\ now' = now + 1
  /\ UNCHANGED <<table, total_created, reported>>

Next ==
  \/ \E k \in Key : SeeKnown(k) \/ remove(k) \/ \E n \in Node : SeeNew(k, n)
  \/ age \/ destroy \/ Tick

Spec == Init /\ [][Next]_vars
-----------------------------------------------------------------------------
Allocated == {n \in Node : node[n] # Free}

\* The entries on the chain of bucket b: those that following pointers from b
\* cannot miss.
Follows(S, b) == \A r \in S \cup {b} : ptr[r] # NULL => ptr[r] \in S
Chain(b) == {n \in Node : \A S \in SUBSET Node : Follows(S, b) => n \in S}

\* The chains hold what is allocated and nothing that was freed: an entry is on
\* the chain of its key's bucket and on no other, one entry to a key, at the end
\* of one pointer, and t->count, which the exporter shows as flows_active, says
\* how many there are.
ChainsSound ==
  /\ \A b \in Bucket : \A n \in Chain(b) : n \in Allocated /\ Hash[node[n].key] = b
  /\ Allocated \subseteq UNION {Chain(b) : b \in Bucket}
  /\ \A n \in Allocated : Cardinality({r \in Ref : ptr[r] = n}) = 1
  /\ \A m, n \in Allocated : node[m].key = node[n].key => m = n
  /\ count = Cardinality(Allocated)

\* The table as the engine sees it, through flow_table_lookup.
Flows == INSTANCE FlowSet WITH
  Absent <- NULL, created <- total_created,
  last_seen <- [k \in Key |-> IF lookup(k) = NULL THEN NULL ELSE node[lookup(k)].last_seen]

\* The chained table implements the set of flows: what was inserted is found
\* until its sweep, a sweep drops and reports exactly the flows idle past their
\* timeout, wherever they sit on a chain.
ImplementsFlowSet == Flows!Spec
=============================================================================
