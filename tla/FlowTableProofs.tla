-------------------------- MODULE FlowTableProofs --------------------------
(***************************************************************************)
(* Theorems about FlowTable, for any keys, buckets, entries and timeouts:  *)
(* its pointers keep the chains, and the chained table implements the set  *)
(* of flows that the engine expects.                                       *)
(***************************************************************************)
EXTENDS FlowTable, RecursionTheorems

(* The heap, as a predicate of pointers p and entries nd, since a sweep goes
   through many of them in one step. *)

Alloc(nd) == {n \in Node : nd[n] # Free}

\* The refs in use, and the bucket of each.
Live(nd) == Bucket \cup Alloc(nd)
Owner(nd, r) == IF r \in Bucket THEN r ELSE Hash[nd[r].key]

\* Pointers lead from what is in use to what is allocated, on the same chain; each
\* entry is at the end of one pointer, and no key has two entries.
Heap(p, nd) ==
  /\ p \in [Ref -> Node \cup {NULL}] /\ nd \in [Node -> Entry \cup {Free}]
  /\ \A r \in Ref : p[r] # NULL =>
       r \in Live(nd) /\ p[r] \in Alloc(nd) /\ Owner(nd, p[r]) = Owner(nd, r)
  /\ \A n \in Alloc(nd) : \E r \in Ref : p[r] = n
  /\ \A r, s \in Ref : p[r] = p[s] /\ p[r] # NULL => r = s
  /\ \A m, n \in Alloc(nd) : nd[m].key = nd[n].key => m = n

\* No chain closes: rank grows along the pointers, and tells the entries of a chain
\* from each other.
Ranked(p, nd, rank) ==
  /\ rank \in [Ref -> Nat]
  /\ \A b \in Bucket : rank[b] = 0
  /\ \A n \in Node : rank[n] > 0
  /\ \A r \in Ref : p[r] # NULL => rank[r] < rank[p[r]]
  /\ \A m, n \in Alloc(nd) : Owner(nd, m) = Owner(nd, n) /\ rank[m] = rank[n] => m = n

IInv ==
  /\ now \in Nat /\ total_created \in Nat /\ reported \in [Key -> Nat]
  /\ Heap(ptr, node)
  /\ \E rank : Ranked(ptr, node, rank)
  /\ count = Cardinality(Alloc(node))
-----------------------------------------------------------------------------
LEMMA RefFinite == IsFiniteSet(Ref)
BY TableAssumption, FS_Union DEF Ref

\* A set of refs has a first and a last.
LEMMA LeastRank ==
  ASSUME NEW rank \in [Ref -> Nat], NEW T \in SUBSET Ref, T # {}
  PROVE  \E s \in T : \A x \in T : rank[s] =< rank[x]
<1> DEFINE Ranks == {rank[x] : x \in T}
<1>1. Ranks \subseteq Nat /\ Ranks # {}
  OBVIOUS
<1>2. PICK m \in Ranks : \A n \in Ranks : ~(<<n, m>> \in OpToRel(<, Nat))
  BY <1>1, WFMin, NatLessThanWellFounded
<1>3. PICK s \in T : rank[s] = m
  OBVIOUS
<1>4. \A x \in T : ~(<<rank[x], m>> \in OpToRel(<, Nat))
  BY <1>2
<1>5. \A x \in T : rank[x] \in Nat /\ m \in Nat
  BY <1>1
<1>6. ASSUME NEW x \in T, rank[x] < m PROVE FALSE
  <2>1. <<rank[x], m>> \in OpToRel(<, Nat)
    BY <1>5, <1>6 DEF OpToRel
  <2> QED BY <1>4, <2>1
<1> QED
  BY <1>3, <1>5, <1>6

LEMMA GreatestRank ==
  ASSUME NEW rank \in [Ref -> Nat], NEW T \in SUBSET Ref, T # {}
  PROVE  \E s \in T : \A x \in T : rank[x] =< rank[s]
<1> DEFINE G == {U \in SUBSET Ref : U = {} \/ \E s \in U : \A x \in U : rank[x] =< rank[s]}
<1>1. ASSUME NEW U \in SUBSET Ref, \A x \in U : U \ {x} \in G
      PROVE  U \in G
  <2>1. CASE U = {}
    BY <2>1
  <2>2. ASSUME NEW y \in U PROVE U \in G
    <3>1. CASE U \ {y} = {}
      BY <2>2, <3>1
    <3>2. CASE U \ {y} # {}
      <4>1. PICK s \in U \ {y} : \A x \in U \ {y} : rank[x] =< rank[s]
        BY <1>1, <2>2, <3>2
      <4>2. rank[y] \in Nat /\ rank[s] \in Nat /\ \A x \in U : rank[x] \in Nat
        BY <1>1, <2>2
      <4>3. (\A x \in U : rank[x] =< rank[s]) \/ (\A x \in U : rank[x] =< rank[y])
        BY <4>1, <4>2
      <4> QED BY <2>2, <4>3
    <3> QED BY <3>1, <3>2
  <2> QED BY <2>1, <2>2
<1>2. IsFiniteSet(T)
  BY RefFinite, FS_Subset
<1> HIDE DEF G
<1>3. T \in G
  BY <1>1, <1>2, SetInduction
<1> QED
  BY <1>3 DEF G

\* Within a chain the ranks tell all refs from each other.
LEMMA RankTells ==
  ASSUME NEW p, NEW nd, NEW rank, Heap(p, nd), Ranked(p, nd, rank),
         NEW r \in Live(nd), NEW s \in Live(nd), Owner(nd, r) = Owner(nd, s),
         rank[r] = rank[s]
  PROVE  r = s
BY TableAssumption DEF Ranked, Live, Alloc, Owner

\* Between an entry and the next one on its chain there is nothing.
LEMMA NextOf ==
  ASSUME NEW p, NEW nd, NEW rank, Heap(p, nd), Ranked(p, nd, rank),
         NEW r \in Live(nd), NEW s \in Live(nd), Owner(nd, r) = Owner(nd, s),
         rank[r] < rank[s]
  PROVE  p[r] # NULL /\ (p[r] = s \/ rank[p[r]] < rank[s])
<1> DEFINE Ok(x, y) == p[x] # NULL /\ rank[p[x]] =< rank[y]
           Before(x, y) == Owner(nd, x) = Owner(nd, y) /\ rank[x] < rank[y]
           Bad == {y \in Live(nd) : \E x \in Live(nd) : Before(x, y) /\ ~Ok(x, y)}
<1>1. Live(nd) \subseteq Ref /\ rank \in [Ref -> Nat] /\ \A x \in Ref : rank[x] \in Nat
  BY DEF Live, Alloc, Ref, Ranked
<1>2. Bad = {}
  <2>1. SUFFICES ASSUME Bad # {} PROVE FALSE
    OBVIOUS
  <2>2. PICK y \in Bad : \A z \in Bad : rank[y] =< rank[z]
    BY <1>1, <2>1, LeastRank
  <2>3. PICK x \in Live(nd) : Before(x, y) /\ ~Ok(x, y)
    OBVIOUS
  <2>4. y \in Alloc(nd)
    BY <1>1, <2>3 DEF Live, Ranked
  <2>5. PICK q \in Ref : p[q] = y
    BY <2>4 DEF Heap
  <2>6. y # NULL
    BY <2>4, TableAssumption DEF Alloc
  <2>7. q \in Live(nd) /\ Owner(nd, q) = Owner(nd, y) /\ rank[q] < rank[y]
    BY <2>5, <2>6 DEF Heap, Ranked
  <2>8. CASE rank[x] < rank[q]
    <3>1. Ok(x, q)
      BY <1>1, <2>2, <2>3, <2>7, <2>8
    <3>2. p[x] \in Ref
      BY <1>1, <3>1 DEF Heap, Ref
    <3> QED BY <1>1, <2>3, <2>7, <3>1, <3>2
  <2>9. CASE rank[q] < rank[x]
    <3>1. Ok(q, x)
      BY <1>1, <2>2, <2>3, <2>7, <2>9
    <3> QED BY <1>1, <2>3, <2>5, <3>1
  <2>10. CASE rank[q] = rank[x]
    <3>1. q = x
      BY <2>3, <2>7, <2>10, RankTells
    <3> QED BY <1>1, <2>3, <2>5, <2>6, <3>1
  <2> QED
    BY <1>1, <2>3, <2>7, <2>8, <2>9, <2>10
<1>3. Ok(r, s)
  BY <1>2
<1>4. p[r] \in Live(nd) /\ p[r] \in Ref /\ Owner(nd, p[r]) = Owner(nd, s)
  BY <1>1, <1>3 DEF Heap, Live
<1>5. rank[p[r]] = rank[s] => p[r] = s
  BY <1>4, RankTells
<1> QED
  BY <1>1, <1>3, <1>4, <1>5
-----------------------------------------------------------------------------
(* The walk of flow_table_lookup ends where it should. *)

\* Whether the walk for k stops at ref r.
Ends(p, nd, k, r) == p[r] = NULL \/ nd[p[r]].key = k

\* Every walk ends, so the recursion of Find has a solution.
LEMMA WalkExists ==
  ASSUME NEW k \in Key, NEW rank, Heap(ptr, node), Ranked(ptr, node, rank)
  PROVE  \E f : f = [pp \in Ref |-> IF ptr[pp] = NULL \/ node[ptr[pp]].key = k
                                    THEN pp ELSE f[ptr[pp]]]
<1> DEFINE On(r) == {s \in Live(node) : Owner(node, s) = Owner(node, r) /\ rank[r] =< rank[s]}
           Beyond(r) == {s \in On(r) : Ends(ptr, node, k, s)}
           First(T) == CHOOSE s \in T : \A x \in T : rank[s] =< rank[x]
           h == [r \in Ref |-> IF r \in Live(node) THEN First(Beyond(r)) ELSE r]
<1>1. Live(node) \subseteq Ref /\ rank \in [Ref -> Nat] /\ \A x \in Ref : rank[x] \in Nat
  BY DEF Live, Alloc, Ref, Ranked
<1>2. ASSUME NEW r \in Live(node) PROVE Beyond(r) # {}
  <2>1. r \in On(r)
    BY <1>1
  <2>2. PICK s \in On(r) : \A x \in On(r) : rank[x] =< rank[s]
    BY <1>1, <2>1, GreatestRank
  <2>3. ptr[s] # NULL => ptr[s] \in On(r) /\ rank[s] < rank[ptr[s]]
    BY <1>1 DEF Heap, Live, Ranked
  <2>4. ptr[s] = NULL
    BY <1>1, <2>2, <2>3
  <2> QED BY <2>4 DEF Ends
<1>3. ASSUME NEW r \in Live(node)
      PROVE  h[r] \in Beyond(r) /\ \A x \in Beyond(r) : rank[h[r]] =< rank[x]
  <2>1. \E s \in Beyond(r) : \A x \in Beyond(r) : rank[s] =< rank[x]
    BY <1>1, <1>2, LeastRank
  <2>2. h[r] = First(Beyond(r))
    BY <1>1
  <2> QED BY <2>1, <2>2
<1>4. ASSUME NEW r \in Ref
      PROVE  h[r] = IF ptr[r] = NULL \/ node[ptr[r]].key = k THEN r ELSE h[ptr[r]]
  <2>1. CASE r \notin Live(node)
    <3>1. ptr[r] = NULL
      BY <2>1 DEF Heap
    <3> QED BY <2>1, <3>1
  <2>2. CASE r \in Live(node) /\ Ends(ptr, node, k, r)
    <3>1. r \in Beyond(r)
      BY <1>1, <2>2
    <3>2. h[r] \in On(r) /\ rank[h[r]] =< rank[r]
      BY <1>3, <2>2, <3>1
    <3>3. h[r] = r
      BY <1>1, <2>2, <3>2, RankTells
    <3> QED BY <2>2, <3>3 DEF Ends
  <2>3. CASE r \in Live(node) /\ ~Ends(ptr, node, k, r)
    <3>1. /\ ptr[r] \in Live(node) /\ Owner(node, ptr[r]) = Owner(node, r)
          /\ rank[r] < rank[ptr[r]]
      BY <2>3 DEF Ends, Heap, Live, Ranked
    <3>2. Beyond(ptr[r]) \subseteq Beyond(r)
      BY <1>1, <3>1
    <3>3. ASSUME NEW s \in Beyond(r) PROVE s \in Beyond(ptr[r])
      <4>1. rank[r] # rank[s]
        BY <2>3, RankTells
      <4>2. rank[r] < rank[s]
        BY <1>1, <2>3, <4>1
      <4>3. ptr[r] = s \/ rank[ptr[r]] < rank[s]
        BY <2>3, <4>2, NextOf
      <4> QED BY <1>1, <3>1, <4>3
    <3>4. Beyond(ptr[r]) = Beyond(r)
      BY <3>2, <3>3
    <3>5. h[ptr[r]] = h[r]
      BY <1>1, <2>3, <3>1, <3>4
    <3> QED BY <2>3, <3>5 DEF Ends
  <2> QED BY <2>1, <2>2, <2>3
<1>5. h = [r \in Ref |-> h[r]]
  OBVIOUS
<1> HIDE DEF h
<1>6. h = [pp \in Ref |-> IF ptr[pp] = NULL \/ node[ptr[pp]].key = k
                          THEN pp ELSE h[ptr[pp]]]
  BY <1>4, <1>5
<1> QED
  BY <1>6

\* flow_table_lookup finds the entry of k if there is one.
LEMMA FindFacts ==
  ASSUME NEW k \in Key, NEW rank, Heap(ptr, node), Ranked(ptr, node, rank)
  PROVE  /\ Find(k) \in Live(node)
         /\ lookup(k) \in Alloc(node) \cup {NULL}
         /\ \A n \in Alloc(node) : node[n].key = k <=> lookup(k) = n
<1> DEFINE Eq(f) == f = [pp \in Ref |-> IF ptr[pp] = NULL \/ node[ptr[pp]].key = k
                                        THEN pp ELSE f[ptr[pp]]]
<1>1. PICK f : Eq(f) /\ Find(k) = f[Hash[k]]
  BY WalkExists DEF Find
<1>2. Live(node) \subseteq Ref /\ rank \in [Ref -> Nat] /\ \A x \in Ref : rank[x] \in Nat
  BY DEF Live, Alloc, Ref, Ranked
<1> DEFINE Good(r) == /\ f[r] \in Live(node) /\ Ends(ptr, node, k, f[r])
                      /\ \A n \in Alloc(node) :
                           Owner(node, n) = Owner(node, r) /\ node[n].key = k /\ rank[r] < rank[n]
                             => ptr[f[r]] = n
           Bad == {r \in Live(node) : ~Good(r)}
<1>3. \A r \in Live(node) : f[r] = IF Ends(ptr, node, k, r) THEN r ELSE f[ptr[r]]
  BY <1>1, <1>2 DEF Ends
<1> HIDE DEF Eq
<1>4. Bad = {}
  <2>1. SUFFICES ASSUME Bad # {} PROVE FALSE
    OBVIOUS
  <2>2. PICK r \in Bad : \A x \in Bad : rank[x] =< rank[r]
    BY <1>2, <2>1, GreatestRank
  <2>3. CASE Ends(ptr, node, k, r)
    <3>1. f[r] = r
      BY <1>3, <2>3
    <3>2. ASSUME NEW n \in Alloc(node), Owner(node, n) = Owner(node, r), node[n].key = k,
                 rank[r] < rank[n]
          PROVE  ptr[r] = n
      <4>1. ptr[r] # NULL
        BY <3>2, NextOf DEF Live
      <4>2. node[ptr[r]].key = k /\ ptr[r] \in Alloc(node)
        BY <1>2, <2>3, <4>1 DEF Ends, Heap
      <4> QED BY <3>2, <4>2 DEF Heap
    <3> QED BY <2>3, <3>1, <3>2
  <2>4. CASE ~Ends(ptr, node, k, r)
    <3>1. /\ ptr[r] \in Live(node) /\ Owner(node, ptr[r]) = Owner(node, r)
          /\ rank[r] < rank[ptr[r]] /\ node[ptr[r]].key # k
      BY <1>2, <2>4 DEF Ends, Heap, Live, Ranked
    <3>2. Good(ptr[r])
      BY <1>2, <2>2, <3>1
    <3>3. f[r] = f[ptr[r]]
      BY <1>3, <2>4
    <3>4. ASSUME NEW n \in Alloc(node), Owner(node, n) = Owner(node, r), node[n].key = k,
                 rank[r] < rank[n]
          PROVE  ptr[f[r]] = n
      <4>1. ptr[r] = n \/ rank[ptr[r]] < rank[n]
        BY <3>4, NextOf DEF Live
      <4>2. rank[ptr[r]] < rank[n]
        BY <3>1, <3>4, <4>1
      <4> QED BY <3>1, <3>2, <3>3, <3>4, <4>2
    <3> QED BY <3>2, <3>3, <3>4
  <2> QED BY <2>3, <2>4
<1>5. Hash[k] \in Bucket
  BY TableAssumption
<1>6. Good(Hash[k])
  BY <1>4, <1>5 DEF Live
<1>7. \A n \in Alloc(node) : node[n].key = k => Owner(node, n) = Owner(node, Hash[k])
                                              /\ rank[Hash[k]] < rank[n]
  BY <1>5, TableAssumption DEF Owner, Alloc, Ranked
<1>8. lookup(k) = ptr[f[Hash[k]]]
  BY <1>1 DEF lookup
<1>9. lookup(k) \in Alloc(node) \cup {NULL}
  BY <1>2, <1>6, <1>8 DEF Heap
<1>10. ASSUME NEW n \in Alloc(node), lookup(k) = n PROVE node[n].key = k
  <2>1. n # NULL
    BY TableAssumption DEF Alloc
  <2> QED BY <1>6, <1>8, <1>10, <2>1 DEF Ends
<1> QED
  BY <1>1, <1>6, <1>7, <1>8, <1>9, <1>10
-----------------------------------------------------------------------------
(* What the updates of the heap do to it. *)

LEMMA UnlinkKeeps ==
  ASSUME NEW p, NEW nd, NEW rank, Heap(p, nd), Ranked(p, nd, rank),
         NEW pp \in Ref, p[pp] # NULL,
         NEW q, q = Unlinked(p, pp, p[pp]), NEW md, md = [nd EXCEPT ![p[pp]] = Free]
  PROVE  /\ Heap(q, md) /\ Ranked(q, md, rank)
         /\ Alloc(md) = Alloc(nd) \ {p[pp]}
         /\ \A r \in Live(md) : Owner(md, r) = Owner(nd, r)
<1> DEFINE e == p[pp]
<1>1. /\ pp \in Live(nd) /\ e \in Alloc(nd) /\ e \in Node /\ e \in Ref /\ e # pp
      /\ Owner(nd, e) = Owner(nd, pp) /\ e \notin Bucket
  BY TableAssumption DEF Heap, Ranked, Alloc, Ref
<1> HIDE DEF e
<1>2. \A r \in Ref : q[r] = IF r = e THEN NULL ELSE IF r = pp THEN p[e] ELSE p[r]
  BY <1>1 DEF Unlinked, Heap, e
<1>3. q \in [Ref -> Node \cup {NULL}]
  BY <1>1 DEF Unlinked, Heap, e
<1>4. md \in [Node -> Entry \cup {Free}] /\ \A n \in Node : md[n] = IF n = e THEN Free ELSE nd[n]
  BY <1>1 DEF Heap, e
<1>5. Alloc(md) = Alloc(nd) \ {e}
  BY <1>4 DEF Alloc
<1>6. Live(md) = Live(nd) \ {e}
  BY <1>1, <1>5 DEF Live
<1>7. \A r \in Live(md) : Owner(md, r) = Owner(nd, r)
  BY <1>4, <1>6 DEF Owner, Live, Alloc
<1>8. \A r \in Ref : p[r] = e => r = pp
  BY <1>1 DEF Heap, e
<1>9. p[e] # e
  BY <1>1, <1>8
<1>10. ASSUME NEW r \in Ref, q[r] # NULL
       PROVE  r \in Live(md) /\ q[r] \in Alloc(md) /\ Owner(md, q[r]) = Owner(md, r)
  <2>1. /\ r # e /\ r \in Live(nd) /\ q[r] \in Alloc(nd) /\ Owner(nd, q[r]) = Owner(nd, r)
        /\ q[r] # e
    <3>1. CASE r = pp
      BY <1>1, <1>2, <1>9, <1>10, <3>1 DEF Heap
    <3>2. CASE r # pp
      BY <1>1, <1>2, <1>8, <1>10, <3>2 DEF Heap
    <3> QED BY <3>1, <3>2
  <2> QED BY <1>5, <1>6, <1>7, <2>1 DEF Live
<1>11. ASSUME NEW n \in Alloc(md) PROVE \E r \in Ref : q[r] = n
  <2>1. n \in Alloc(nd) /\ n # e
    BY <1>5
  <2>2. PICK r \in Ref : p[r] = n
    BY <2>1 DEF Heap
  <2>3. CASE r = e
    BY <1>1, <1>2, <2>2, <2>3
  <2>4. CASE r # e
    BY <1>2, <2>1, <2>2, <2>4 DEF e
  <2> QED BY <2>3, <2>4
<1>12. ASSUME NEW r \in Ref, NEW s \in Ref, q[r] = q[s], q[r] # NULL PROVE r = s
  BY <1>1, <1>2, <1>12 DEF Heap
<1>13. \A m, n \in Alloc(md) : md[m].key = md[n].key => m = n
  BY <1>4, <1>5 DEF Heap, Alloc
<1>14. Heap(q, md)
  BY <1>3, <1>4, <1>10, <1>11, <1>12, <1>13 DEF Heap
<1>15. \A r \in Ref : q[r] # NULL => rank[r] < rank[q[r]]
  <2>1. ASSUME NEW r \in Ref, q[r] # NULL PROVE rank[r] < rank[q[r]]
    <3>1. CASE r = pp
      <4>1. q[r] = p[e] /\ p[e] \in Ref
        BY <1>1, <1>2, <2>1, <3>1 DEF Heap, Ref
      <4>2. rank[pp] < rank[e] /\ rank[e] < rank[p[e]]
        BY <1>1, <2>1, <4>1 DEF Ranked, e
      <4> QED BY <1>1, <3>1, <4>1, <4>2 DEF Ranked
    <3>2. CASE r # pp
      BY <1>2, <2>1, <3>2 DEF Ranked
    <3> QED BY <3>1, <3>2
  <2> QED BY <2>1
<1>16. \A m, n \in Alloc(md) : Owner(md, m) = Owner(md, n) /\ rank[m] = rank[n] => m = n
  BY <1>5, <1>7 DEF Ranked, Live
<1>17. Ranked(q, md, rank)
  BY <1>15, <1>16 DEF Ranked
<1> QED
  BY <1>5, <1>7, <1>14, <1>17 DEF e

LEMMA PushKeeps ==
  ASSUME NEW k \in Key, NEW n \in Node, NEW x \in Nat, NEW rank,
         Heap(ptr, node), Ranked(ptr, node, rank),
         node[n] = Free, \A m \in Alloc(node) : node[m].key # k,
         NEW q, q = Pushed(k, n),
         NEW md, md = [node EXCEPT ![n] = [key |-> k, last_seen |-> x]]
  PROVE  /\ Heap(q, md)
         /\ \E above : Ranked(q, md, above)
         /\ Alloc(md) = Alloc(node) \cup {n} /\ n \notin Alloc(node)
<1> DEFINE b == Hash[k]
           above == [r \in Ref |-> IF r \in Bucket THEN 0 ELSE IF r = n THEN 1 ELSE rank[r] + 1]
<1>1. /\ b \in Bucket /\ b \in Ref /\ n \in Ref /\ n \notin Bucket /\ n # b /\ n # NULL
      /\ n \notin Alloc(node) /\ n \notin Live(node)
  BY TableAssumption DEF Ref, Alloc, Live
<1> HIDE DEF b
<1>2. ptr[n] = NULL /\ \A r \in Ref : ptr[r] # n
  BY <1>1 DEF Heap
<1>3. q \in [Ref -> Node \cup {NULL}]
      /\ \A r \in Ref : q[r] = IF r = b THEN n ELSE IF r = n THEN ptr[b] ELSE ptr[r]
  BY <1>1 DEF Pushed, Heap, b
<1>4. [key |-> k, last_seen |-> x] \in Entry /\ [key |-> k, last_seen |-> x].key = k
  BY DEF Entry
<1>5. md \in [Node -> Entry \cup {Free}] /\ md[n].key = k /\ md[n] # Free
      /\ \A m \in Node : m # n => md[m] = node[m]
  BY <1>4, TableAssumption DEF Heap
<1>6. Alloc(md) = Alloc(node) \cup {n}
  BY <1>5 DEF Alloc
<1>7. \A r \in Live(node) : r \in Live(md) /\ Owner(md, r) = Owner(node, r)
  BY <1>1, <1>5, <1>6 DEF Live, Owner, Alloc
<1>8. n \in Live(md) /\ Owner(md, n) = b /\ b \in Live(md) /\ Owner(md, b) = b /\ Owner(node, b) = b
  BY <1>1, <1>5, <1>6 DEF Live, Owner, b
<1>9. ASSUME NEW r \in Ref, q[r] # NULL
      PROVE  r \in Live(md) /\ q[r] \in Alloc(md) /\ Owner(md, q[r]) = Owner(md, r)
  <2>1. CASE r = b
    BY <1>3, <1>6, <1>8, <2>1
  <2>2. CASE r = n
    <3>1. q[r] = ptr[b] /\ ptr[b] \in Alloc(node) /\ Owner(node, ptr[b]) = b
      BY <1>1, <1>3, <1>8, <1>9, <2>2 DEF Heap
    <3> QED BY <1>6, <1>7, <1>8, <2>2, <3>1 DEF Live
  <2>3. CASE r # b /\ r # n
    <3>1. /\ q[r] = ptr[r] /\ ptr[r] \in Alloc(node) /\ r \in Live(node)
          /\ Owner(node, ptr[r]) = Owner(node, r)
      BY <1>3, <1>9, <2>3 DEF Heap
    <3> QED BY <1>6, <1>7, <3>1 DEF Live
  <2> QED BY <2>1, <2>2, <2>3
<1>10. ASSUME NEW m \in Alloc(md) PROVE \E r \in Ref : q[r] = m
  <2>1. CASE m = n
    BY <1>1, <1>3, <2>1
  <2>2. CASE m # n
    <3>1. PICK r \in Ref : ptr[r] = m
      BY <1>6, <2>2 DEF Heap
    <3>2. m # NULL
      BY <1>6, <2>2, TableAssumption DEF Alloc
    <3> QED BY <1>1, <1>2, <1>3, <3>1, <3>2
  <2> QED BY <2>1, <2>2
<1>11. \A r, s \in Ref : q[r] = q[s] /\ q[r] # NULL => r = s
  BY <1>1, <1>2, <1>3 DEF Heap
<1>12. \A m, l \in Alloc(md) : md[m].key = md[l].key => m = l
  BY <1>5, <1>6 DEF Heap, Alloc
<1>13. Heap(q, md)
  BY <1>3, <1>5, <1>9, <1>10, <1>11, <1>12 DEF Heap
<1>14. /\ above \in [Ref -> Nat]
       /\ \A r \in Bucket : above[r] = 0
       /\ above[n] = 1 /\ \A m \in Node : m # n => above[m] = rank[m] + 1
       /\ \A m \in Node : rank[m] \in Nat /\ rank[m] > 0
  BY <1>1, TableAssumption DEF Ranked, Ref
<1> HIDE DEF above
<1>15. \A m \in Node : above[m] > 0
  BY <1>14
<1>16. ASSUME NEW r \in Ref, q[r] # NULL PROVE above[r] < above[q[r]]
  <2>1. q[r] \in Node
    BY <1>3, <1>16
  <2>2. CASE r \in Bucket
    BY <1>14, <1>15, <2>1, <2>2
  <2>3. CASE r = n
    <3>1. q[r] # n
      BY <1>1, <1>2, <1>3, <2>3
    <3> QED BY <1>14, <2>1, <2>3, <3>1
  <2>4. CASE r \notin Bucket /\ r # n
    <3>1. r \in Node /\ q[r] = ptr[r] /\ q[r] # n /\ rank[r] < rank[q[r]]
      BY <1>1, <1>2, <1>3, <1>16, <2>4 DEF Ref, Ranked
    <3> QED BY <1>14, <2>1, <2>4, <3>1
  <2> QED BY <2>2, <2>3, <2>4
<1>17. ASSUME NEW m \in Alloc(md), NEW l \in Alloc(md), Owner(md, m) = Owner(md, l),
              above[m] = above[l]
       PROVE  m = l
  <2>1. m \in Node /\ l \in Node
    BY DEF Alloc
  <2>2. m # n /\ l # n => rank[m] = rank[l]
    BY <1>14, <1>17, <2>1
  <2>3. m # n /\ l # n => Owner(node, m) = Owner(node, l) /\ m \in Alloc(node) /\ l \in Alloc(node)
    BY <1>6, <1>7, <1>17 DEF Live
  <2>4. m = n \/ l = n => m = l
    BY <1>14, <1>17, <2>1
  <2> QED BY <2>2, <2>3, <2>4 DEF Ranked
<1>18. Ranked(q, md, above)
  BY <1>14, <1>15, <1>16, <1>17 DEF Ranked
<1> QED
  BY <1>1, <1>6, <1>13, <1>18
-----------------------------------------------------------------------------
(* The sweep, turn by turn. *)

Sweeping == [ptr : [Ref -> Node \cup {NULL}], node : [Node -> Entry \cup {Free}], count : Nat,
             reported : [Key -> Nat], pp : Ref, todo : SUBSET Bucket]

\* What it has still to look at: buckets, their entries, and those behind pp.
Pending(t, rank) ==
  t.todo \cup {n \in Alloc(t.node) : \/ Owner(t.node, n) \in t.todo
                                     \/ /\ Owner(t.node, n) = Owner(t.node, t.pp)
                                        /\ rank[t.pp] < rank[n]}

\* Whether the sweep has freed the entry of k.
Dropped(t, k) == \E n \in Alloc(node) \ Alloc(t.node) : node[n].key = k

\* The heap is whole after each turn, what is idle is gone or pending, and only what is
\* idle is gone, and reported once.
Underway(t, rank) ==
  /\ t \in Sweeping
  /\ Heap(t.ptr, t.node) /\ Ranked(t.ptr, t.node, rank)
  /\ t.count = Cardinality(Alloc(t.node))
  /\ t.pp \in Live(t.node) /\ Owner(t.node, t.pp) \notin t.todo
  /\ \A n \in Alloc(t.node) : IsIdle(t.node[n]) => n \in Pending(t, rank)
  /\ \A n \in Node : \/ t.node[n] = node[n]
                     \/ t.node[n] = Free /\ node[n] # Free /\ IsIdle(node[n])
  /\ \A k \in Key : t.reported[k] = reported[k] + IF Dropped(t, k) THEN 1 ELSE 0

\* A turn leaves less.
Less(u, t, rank) == \E x \in Pending(t, rank) : Pending(u, rank) \subseteq Pending(t, rank) \ {x}

\* Past an entry that stays, and on to the next bucket.
LEMMA PastFacts ==
  ASSUME NEW rank, NEW t, Underway(t, rank), t.ptr[t.pp] # NULL,
         ~IsIdle(t.node[t.ptr[t.pp]]), NEW u, u = [t EXCEPT !.pp = t.ptr[t.pp]]
  PROVE  Underway(u, rank) /\ Less(u, t, rank)
<1> DEFINE e == t.ptr[t.pp]
<1>1. /\ e \in Alloc(t.node) /\ e \in Ref /\ e \in Live(t.node) /\ t.pp \in Ref
      /\ Owner(t.node, e) = Owner(t.node, t.pp) /\ rank[t.pp] < rank[e]
      /\ rank \in [Ref -> Nat] /\ Alloc(t.node) \subseteq Ref
  BY DEF Underway, Sweeping, Heap, Ranked, Alloc, Live, Ref
<1>2. /\ u \in Sweeping /\ u.ptr = t.ptr /\ u.node = t.node /\ u.count = t.count
      /\ u.reported = t.reported /\ u.pp = e /\ u.todo = t.todo
  BY <1>1 DEF Underway, Sweeping
<1> HIDE DEF e
<1>3. e \in Pending(t, rank)
  BY <1>1 DEF Pending
<1>4. Pending(u, rank) \subseteq Pending(t, rank) \ {e}
  <2>1. ASSUME NEW x \in Pending(u, rank) PROVE x \in Pending(t, rank) /\ x # e
    <3>1. CASE x \in t.todo
      BY <1>1, <1>2, <3>1, TableAssumption DEF Pending, Underway, Sweeping, Alloc
    <3>2. CASE x \notin t.todo
      <4>1. /\ x \in Alloc(t.node)
            /\ \/ Owner(t.node, x) \in t.todo
               \/ Owner(t.node, x) = Owner(t.node, e) /\ rank[e] < rank[x]
        BY <1>2, <2>1, <3>2 DEF Pending
      <4>2. rank[t.pp] \in Nat /\ rank[e] \in Nat /\ rank[x] \in Nat
        BY <1>1, <4>1
      <4>3. x # e
        BY <1>1, <4>1, <4>2 DEF Underway
      <4>4. x \in Pending(t, rank)
        BY <1>1, <4>1, <4>2 DEF Pending
      <4> QED BY <4>3, <4>4
    <3> QED BY <3>1, <3>2
  <2> QED BY <2>1
<1>5. ASSUME NEW n \in Alloc(t.node), IsIdle(t.node[n]) PROVE n \in Pending(u, rank)
  <2>1. n \in Pending(t, rank) /\ n # e /\ n \notin t.todo
    BY <1>5, TableAssumption DEF Underway, Sweeping, Alloc, e
  <2>2. CASE Owner(t.node, n) \in t.todo
    BY <1>2, <2>2 DEF Pending
  <2>3. CASE Owner(t.node, n) = Owner(t.node, t.pp) /\ rank[t.pp] < rank[n]
    <3>1. rank[e] < rank[n]
      BY <2>1, <2>3, NextOf DEF Underway, Live, e
    <3> QED BY <1>1, <1>2, <2>3, <3>1 DEF Pending
  <2> QED BY <2>1, <2>2, <2>3 DEF Pending
<1>6. \A k \in Key : Dropped(u, k) <=> Dropped(t, k)
  BY <1>2 DEF Dropped
<1>7. Owner(u.node, u.pp) \notin u.todo
  BY <1>1, <1>2 DEF Underway
<1>8. Underway(u, rank)
  BY <1>1, <1>2, <1>5, <1>6, <1>7 DEF Underway
<1> QED
  BY <1>3, <1>4, <1>8 DEF Less

\* At the end of a chain nothing is left of it.
LEMMA NoneBehind ==
  ASSUME NEW rank, NEW t, Underway(t, rank), t.ptr[t.pp] = NULL, NEW n \in Alloc(t.node)
  PROVE  ~(Owner(t.node, n) = Owner(t.node, t.pp) /\ rank[t.pp] < rank[n])
BY NextOf DEF Underway, Live

LEMMA BucketFacts ==
  ASSUME NEW rank, NEW t, Underway(t, rank), t.ptr[t.pp] = NULL, t.todo # {},
         NEW u, u = NextBucket(t)
  PROVE  Underway(u, rank) /\ Less(u, t, rank)
<1>1. PICK b \in t.todo : u = [t EXCEPT !.pp = b, !.todo = @ \ {b}]
  BY DEF NextBucket
<1>2. b \in Bucket /\ b \in Ref /\ b \notin Node /\ t.todo \subseteq Bucket
  BY TableAssumption DEF Underway, Sweeping, Ref
<1>3. /\ u \in Sweeping /\ u.ptr = t.ptr /\ u.node = t.node /\ u.count = t.count
      /\ u.reported = t.reported /\ u.pp = b /\ u.todo = t.todo \ {b}
  BY <1>1, <1>2 DEF Underway, Sweeping
<1>4. b \in Pending(t, rank)
  BY DEF Pending
<1>5. Owner(t.node, b) = b
  BY <1>2 DEF Owner
<1>6. Pending(u, rank) \subseteq Pending(t, rank) \ {b}
  BY <1>2, <1>3, <1>5 DEF Pending, Alloc
<1>7. ASSUME NEW n \in Alloc(t.node), IsIdle(t.node[n]) PROVE n \in Pending(u, rank)
  <2>1. n \in Pending(t, rank) /\ n \in Node /\ n \notin Bucket
    BY <1>7, TableAssumption DEF Underway, Alloc
  <2>2. Owner(t.node, n) \in t.todo
    BY <1>2, <2>1, NoneBehind DEF Pending
  <2>3. rank[b] < rank[n]
    BY <1>2, <2>1 DEF Underway, Ranked
  <2> QED BY <1>3, <1>5, <2>2, <2>3 DEF Pending
<1>8. \A k \in Key : Dropped(u, k) <=> Dropped(t, k)
  BY <1>3 DEF Dropped
<1>9. Underway(u, rank)
  BY <1>2, <1>3, <1>5, <1>7, <1>8 DEF Underway, Live
<1> QED
  BY <1>4, <1>6, <1>9 DEF Less

\* An idle entry is reported, unlinked and freed.
LEMMA FreedFacts ==
  ASSUME NEW rank, NEW t, Underway(t, rank), t.ptr[t.pp] # NULL,
         IsIdle(t.node[t.ptr[t.pp]]), NEW u, u = Freed(t),
         Heap(ptr, node), reported \in [Key -> Nat]
  PROVE  Underway(u, rank) /\ Less(u, t, rank)
<1> DEFINE e == t.ptr[t.pp]
           k == t.node[e].key
<1>1. /\ e \in Alloc(t.node) /\ e \in Node /\ e \in Live(t.node) /\ t.pp \in Ref /\ e # t.pp
      /\ Owner(t.node, e) = Owner(t.node, t.pp) /\ rank[t.pp] < rank[e] /\ e \notin Bucket
      /\ t.node[e] = node[e] /\ t.node[e] # Free /\ t.todo \in SUBSET Bucket /\ e \notin t.todo
  BY TableAssumption DEF Underway, Sweeping, Heap, Ranked, Alloc, Live, Ref
<1>2. k \in Key /\ node[e].key = k /\ e \in Alloc(node)
  BY <1>1 DEF Heap, Entry, Alloc
<1>3. /\ u.ptr = Unlinked(t.ptr, t.pp, e) /\ u.node = [t.node EXCEPT ![e] = Free]
      /\ u.count = t.count - 1 /\ u.reported = [t.reported EXCEPT ![k] = @ + 1]
      /\ u.pp = t.pp /\ u.todo = t.todo
      /\ u = [ptr |-> u.ptr, node |-> u.node, count |-> u.count, reported |-> u.reported,
              pp |-> u.pp, todo |-> u.todo]
  BY DEF Freed, After
<1> HIDE DEF k
<1>4. /\ Heap(u.ptr, u.node) /\ Ranked(u.ptr, u.node, rank)
      /\ Alloc(u.node) = Alloc(t.node) \ {e}
      /\ \A r \in Live(u.node) : Owner(u.node, r) = Owner(t.node, r)
  BY <1>1, <1>3, UnlinkKeeps DEF Underway
<1> HIDE DEF e
<1>5. IsFiniteSet(Alloc(t.node)) /\ IsFiniteSet(Alloc(u.node))
  BY TableAssumption, FS_Subset DEF Alloc
<1>6. u.count = Cardinality(Alloc(u.node)) /\ u.count \in Nat
  <2>1. Cardinality(Alloc(t.node) \ {e}) = Cardinality(Alloc(t.node)) - 1
    BY <1>1, <1>5, FS_RemoveElement
  <2>2. Cardinality(Alloc(u.node)) \in Nat
    BY <1>5, FS_CardinalityType
  <2>3. Cardinality(Alloc(u.node)) = Cardinality(Alloc(t.node)) - 1
    BY <1>4, <2>1
  <2>4. t.count = Cardinality(Alloc(t.node)) /\ u.count = t.count - 1
    BY <1>3 DEF Underway
  <2> QED BY <2>2, <2>3, <2>4
<1>7. t.reported \in [Key -> Nat] /\ u.reported \in [Key -> Nat]
      /\ \A j \in Key : u.reported[j] = t.reported[j] + IF j = k THEN 1 ELSE 0
  BY <1>2, <1>3 DEF Underway, Sweeping
<1>8. u \in Sweeping
  BY <1>1, <1>3, <1>4, <1>6, <1>7 DEF Sweeping, Heap
<1>9. u.pp \in Live(u.node) /\ Owner(u.node, u.pp) = Owner(t.node, t.pp)
  BY <1>1, <1>3, <1>4 DEF Live, Underway
<1>10. Pending(u, rank) = Pending(t, rank) \ {e}
  BY <1>1, <1>3, <1>4, <1>9 DEF Pending, Live
<1>11. e \in Pending(t, rank)
  BY <1>1 DEF Pending
<1>12. \A n \in Alloc(u.node) : IsIdle(u.node[n]) => n \in Pending(u, rank)
  BY <1>1, <1>3, <1>4, <1>10 DEF Underway, Alloc
<1>13. \A n \in Node : \/ u.node[n] = node[n]
                       \/ u.node[n] = Free /\ node[n] # Free /\ IsIdle(node[n])
  <2>1. t.node \in [Node -> Entry \cup {Free}] /\ IsIdle(t.node[e])
    BY DEF Underway, Sweeping, e
  <2>2. u.node[e] = Free /\ node[e] # Free /\ IsIdle(node[e])
    BY <1>1, <1>3, <2>1
  <2>3. \A n \in Node : n # e => u.node[n] = t.node[n]
    BY <1>1, <1>3, <2>1
  <2> QED BY <2>2, <2>3 DEF Underway
<1>14. ASSUME NEW j \in Key
       PROVE  u.reported[j] = reported[j] + IF Dropped(u, j) THEN 1 ELSE 0
  <2>1. t.reported[j] = reported[j] + IF Dropped(t, j) THEN 1 ELSE 0
    BY DEF Underway
  <2>2. CASE j = k
    <3>1. ~Dropped(t, j)
      BY <1>1, <1>2, <2>2 DEF Dropped, Heap
    <3>2. Dropped(u, j)
      BY <1>2, <1>4, <2>2 DEF Dropped
    <3> QED BY <1>7, <2>1, <2>2, <3>1, <3>2
  <2>3. CASE j # k
    <3>1. Dropped(u, j) <=> Dropped(t, j)
      BY <1>2, <1>4, <2>3 DEF Dropped
    <3> QED BY <1>7, <2>1, <2>3, <3>1
  <2> QED BY <2>2, <2>3
<1>15. Underway(u, rank)
  BY <1>3, <1>4, <1>6, <1>8, <1>9, <1>12, <1>13, <1>14 DEF Underway
<1> QED
  BY <1>10, <1>11, <1>15 DEF Less

LEMMA TurnFacts ==
  ASSUME NEW rank, NEW t, Underway(t, rank), Heap(ptr, node), reported \in [Key -> Nat]
  PROVE  /\ Underway(Turn(t), rank)
         /\ Less(Turn(t), t, rank) \/ (Turn(t) = t /\ Pending(t, rank) = {})
<1>1. CASE t.ptr[t.pp] = NULL /\ t.todo = {}
  <2>1. Turn(t) = t
    BY <1>1 DEF Turn
  <2>2. Pending(t, rank) = {}
    BY <1>1, NoneBehind DEF Pending
  <2> QED BY <2>1, <2>2
<1>2. CASE t.ptr[t.pp] = NULL /\ t.todo # {}
  <2>1. Turn(t) = NextBucket(t)
    BY <1>2 DEF Turn
  <2> QED BY <1>2, <2>1, BucketFacts
<1>3. CASE t.ptr[t.pp] # NULL /\ IsIdle(t.node[t.ptr[t.pp]])
  <2>1. Turn(t) = Freed(t)
    BY <1>3 DEF Turn
  <2> QED BY <1>3, <2>1, FreedFacts
<1>4. CASE t.ptr[t.pp] # NULL /\ ~IsIdle(t.node[t.ptr[t.pp]])
  <2>1. Turn(t) = [t EXCEPT !.pp = t.ptr[t.pp]]
    BY <1>4 DEF Turn
  <2> QED BY <1>4, <2>1, PastFacts
<1> QED
  BY <1>1, <1>2, <1>3, <1>4
-----------------------------------------------------------------------------
(* The actions. *)

Begun(first) == [ptr |-> ptr, node |-> node, count |-> count, reported |-> reported,
                 pp |-> first, todo |-> Bucket \ {first}]

\* flow_table_age leaves a whole heap, from which it has freed what was idle, each entry
\* reported once.
LEMMA AgeFacts ==
  ASSUME NEW rank, IInv, Ranked(ptr, node, rank), age
  PROVE  \E t : /\ Underway(t, rank) /\ Pending(t, rank) = {}
                /\ ptr' = t.ptr /\ node' = t.node /\ count' = t.count
                /\ reported' = t.reported
                /\ UNCHANGED <<total_created, now>>
<1> DEFINE first == CHOOSE b \in Bucket : TRUE
<1>1. first \in Bucket
  BY TableAssumption
<1> HIDE DEF first
<1> DEFINE Eq(g) == g = [i \in Nat |-> IF i = 0 THEN Begun(first) ELSE Turn(g[i - 1])]
           N == Cardinality(Ref)
           Turns == {t \in Sweeping : Underway(t, rank)}
           f == [t \in Turns |-> Turn(t)]
<1>2. Heap(ptr, node) /\ reported \in [Key -> Nat] /\ count = Cardinality(Alloc(node))
  BY DEF IInv
<1>3. Underway(Begun(first), rank)
  <2> DEFINE t == Begun(first)
  <2>1. /\ t.ptr = ptr /\ t.node = node /\ t.count = count /\ t.reported = reported
        /\ t.pp = first /\ t.todo = Bucket \ {first}
    BY DEF Begun
  <2>2. count \in Nat
    BY <1>2, TableAssumption, FS_Subset, FS_CardinalityType DEF Alloc
  <2>3. t \in Sweeping
    BY <1>1, <1>2, <2>2 DEF Begun, Sweeping, Heap, Ref
  <2> HIDE DEF t
  <2>4. first \in Live(node) /\ Owner(node, first) = first
    BY <1>1 DEF Live, Owner
  <2>5. ASSUME NEW n \in Alloc(node) PROVE n \in Pending(t, rank)
    <3>1. Owner(node, n) \in Bucket /\ rank[first] < rank[n]
      BY <1>1, <1>2, TableAssumption DEF Owner, Alloc, Heap, Entry, Ranked
    <3> QED BY <2>1, <2>4, <3>1 DEF Pending
  <2>6. \A k \in Key : ~Dropped(t, k)
    BY <2>1 DEF Dropped
  <2>7. \A k \in Key : reported[k] \in Nat
    BY <1>2
  <2>8. Underway(t, rank)
    BY <1>2, <2>1, <2>3, <2>4, <2>5, <2>6, <2>7 DEF Underway
  <2> QED BY <2>8 DEF t
<1>4. f \in [Turns -> Turns] /\ Begun(first) \in Turns
  BY <1>2, <1>3, TurnFacts DEF Underway
<1>a. \A t \in Turns : f[t] = Turn(t)
  OBVIOUS
<1> HIDE DEF Turns, f
<1>5. PICK g \in [Nat -> Turns] : g[0] = Begun(first) /\ \A n \in Nat : g[n + 1] = f[g[n]]
  <2> HIDE DEF Begun
  <2> QED BY <1>4, Iterated
<1>6. \A n \in Nat : g[n] \in Turns /\ g[n + 1] = Turn(g[n])
  BY <1>5, <1>a
<1>7. Eq(g)
  <2>1. \A i \in Nat : i # 0 => g[i] = Turn(g[i - 1])
    <3>1. ASSUME NEW i \in Nat, i # 0 PROVE g[i] = Turn(g[i - 1])
      <4>1. i - 1 \in Nat /\ (i - 1) + 1 = i
        BY <3>1
      <4> QED BY <1>6, <4>1
    <3> QED BY <3>1
  <2> QED BY <1>5, <2>1
<1>8. PICK h : Eq(h) /\ /\ ptr' = h[N].ptr /\ node' = h[N].node /\ count' = h[N].count
                        /\ reported' = h[N].reported /\ UNCHANGED <<total_created, now>>
  <2>1. Eq(CHOOSE h : Eq(h))
    BY <1>7
  <2> QED BY <2>1 DEF age, Begun, first
<1>9. h[0] = Begun(first) /\ \A n \in Nat : h[n + 1] = Turn(h[n])
  <2> HIDE DEF Begun
  <2> QED BY <1>8
<1> HIDE DEF Eq
<1> DEFINE Near(n) == /\ Underway(h[n], rank)
                      /\ \/ Pending(h[n], rank) = {}
                         \/ n + Cardinality(Pending(h[n], rank)) =< N
           G == {n \in Nat : Near(n)}
<1>10. N \in Nat /\ \A T : T \subseteq Ref => IsFiniteSet(T) /\ Cardinality(T) \in Nat
                                             /\ Cardinality(T) =< N
  BY RefFinite, FS_Subset, FS_CardinalityType
<1>11. \A t : Underway(t, rank) => Pending(t, rank) \subseteq Ref
  BY DEF Underway, Sweeping, Pending, Alloc, Ref
<1>12. 0 \in G
  BY <1>3, <1>9, <1>10, <1>11
<1>13. ASSUME NEW n \in Nat, n \in G PROVE n + 1 \in G
  <2>1. Near(n) /\ h[n + 1] = Turn(h[n])
    BY <1>9, <1>13
  <2>2. Underway(h[n + 1], rank)
    BY <1>2, <2>1, TurnFacts
  <2>3. CASE Less(h[n + 1], h[n], rank)
    <3> DEFINE A == Pending(h[n], rank)
               B == Pending(h[n + 1], rank)
    <3>1. PICK x \in A : B \subseteq A \ {x}
      BY <2>3 DEF Less
    <3>2. IsFiniteSet(A) /\ Cardinality(A) \in Nat /\ Cardinality(B) \in Nat
      BY <1>10, <1>11, <2>1, <2>2
    <3> HIDE DEF A, B
    <3>3. IsFiniteSet(A \ {x}) /\ Cardinality(A \ {x}) = Cardinality(A) - 1
      BY <3>1, <3>2, FS_RemoveElement
    <3>4. Cardinality(B) =< Cardinality(A) - 1
      BY <3>1, <3>3, FS_Subset
    <3>5. n + Cardinality(A) =< N
      BY <2>1, <3>1 DEF A
    <3>6. (n + 1) + Cardinality(B) =< N
      BY <1>10, <3>2, <3>4, <3>5
    <3> QED BY <2>2, <3>6 DEF B
  <2>4. CASE h[n + 1] = h[n] /\ Pending(h[n], rank) = {}
    BY <2>2, <2>4
  <2> QED BY <1>2, <2>1, <2>3, <2>4, TurnFacts
<1>14. Near(N)
  <2>1. N \in G
    <3> HIDE DEF G, N
    <3> QED BY <1>10, <1>12, <1>13, Induction
  <2> QED BY <2>1
<1>15. Pending(h[N], rank) = {}
  <2> DEFINE A == Pending(h[N], rank)
  <2>1. SUFFICES ASSUME A # {} PROVE FALSE
    OBVIOUS
  <2>2. A \subseteq Ref
    BY <1>11, <1>14
  <2>3. IsFiniteSet(A) /\ Cardinality(A) \in Nat
    BY <1>10, <2>2
  <2>4. Cardinality(A) # 0
    BY <2>1, <2>3, FS_EmptySet
  <2>5. N + Cardinality(A) =< N
    BY <1>14, <2>1
  <2> HIDE DEF A
  <2> QED BY <1>10, <2>3, <2>4, <2>5
<1> QED
  BY <1>8, <1>14, <1>15

LEMMA InitInv == Init => IInv
<1> SUFFICES ASSUME Init PROVE IInv
  OBVIOUS
<1>1. Alloc(node) = {}
  BY DEF Init, Alloc
<1>2. Heap(ptr, node)
  BY <1>1 DEF Init, Heap, Ref
<1> DEFINE rank == [r \in Ref |-> IF r \in Bucket THEN 0 ELSE 1]
<1>3. Ranked(ptr, node, rank)
  BY <1>1, TableAssumption DEF Init, Ranked, Ref
<1>4. count = Cardinality(Alloc(node))
  BY <1>1, FS_EmptySet DEF Init
<1> HIDE DEF rank
<1> QED
  BY <1>2, <1>3, <1>4 DEF Init, IInv

\* A stamp leaves the heap as it is.
LEMMA StampFacts ==
  ASSUME NEW k \in Key, IInv, SeeKnown(k)
  PROVE  /\ IInv'
         /\ lookup(k) \in Alloc(node) /\ node[lookup(k)].key = k
         /\ Alloc(node') = Alloc(node)
         /\ \A n \in Alloc(node) : /\ node'[n].key = node[n].key
                                   /\ node'[n].last_seen = IF n = lookup(k) THEN now
                                                           ELSE node[n].last_seen
<1> DEFINE n == lookup(k)
<1>1. PICK rank : Ranked(ptr, node, rank)
  BY DEF IInv
<1>2. n \in Alloc(node) /\ node[n].key = k
  BY <1>1, FindFacts DEF IInv, SeeKnown
<1>3. /\ node' = [node EXCEPT ![n].last_seen = now]
      /\ UNCHANGED <<ptr, count, total_created, now, reported>>
  BY DEF SeeKnown
<1> HIDE DEF n
<1>4. now \in Nat /\ node \in [Node -> Entry \cup {Free}] /\ n \in Node /\ node[n] \in Entry
  BY <1>2 DEF IInv, Heap, Alloc
<1>5. node'[n] \in Entry /\ node'[n].key = node[n].key /\ node'[n].last_seen = now
  BY <1>3, <1>4 DEF Entry
<1>6. node' \in [Node -> Entry \cup {Free}] /\ \A m \in Node : m # n => node'[m] = node[m]
  BY <1>3, <1>4, <1>5
<1>7. node'[n] # Free
  BY <1>5, TableAssumption
<1>8. Alloc(node') = Alloc(node)
  BY <1>2, <1>4, <1>6, <1>7 DEF Alloc
<1>9. \A m \in Alloc(node) : node'[m].key = node[m].key
  BY <1>5, <1>6 DEF Alloc
<1>10. Live(node') = Live(node) /\ \A r \in Live(node) : Owner(node', r) = Owner(node, r)
  BY <1>8, <1>9 DEF Live, Owner
<1>11. Heap(ptr, node')
  <2>1. \A r \in Ref : ptr[r] # NULL =>
          r \in Live(node') /\ ptr[r] \in Alloc(node') /\ Owner(node', ptr[r]) = Owner(node', r)
    BY <1>8, <1>10 DEF IInv, Heap, Live
  <2> QED BY <1>6, <1>8, <1>9, <2>1 DEF IInv, Heap
<1>12. Ranked(ptr, node', rank)
  BY <1>1, <1>8, <1>10 DEF Ranked, Live
<1>13. IInv'
  BY <1>3, <1>8, <1>11, <1>12 DEF IInv
<1>14. \A m \in Alloc(node) : node'[m].last_seen = IF m = n THEN now ELSE node[m].last_seen
  BY <1>5, <1>6 DEF Alloc
<1> QED
  BY <1>2, <1>8, <1>9, <1>13, <1>14 DEF n

LEMMA NewFacts ==
  ASSUME NEW k \in Key, NEW n \in Node, IInv, SeeNew(k, n)
  PROVE  /\ IInv'
         /\ \A m \in Alloc(node) : node[m].key # k /\ node'[m] = node[m]
         /\ Alloc(node') = Alloc(node) \cup {n} /\ n \notin Alloc(node)
         /\ node'[n].key = k /\ node'[n].last_seen = now
<1>1. PICK rank : Ranked(ptr, node, rank)
  BY DEF IInv
<1>2. Heap(ptr, node) /\ now \in Nat /\ count = Cardinality(Alloc(node))
  BY DEF IInv
<1>3. /\ lookup(k) = NULL /\ node[n] = Free
      /\ node' = [node EXCEPT ![n] = [key |-> k, last_seen |-> now]]
      /\ ptr' = Pushed(k, n) /\ count' = count + 1 /\ total_created' = total_created + 1
      /\ UNCHANGED <<now, reported>>
  BY DEF SeeNew
<1>4. \A m \in Alloc(node) : node[m].key # k
  BY <1>1, <1>2, <1>3, FindFacts, TableAssumption DEF Alloc
<1>5. /\ Heap(ptr', node') /\ \E above : Ranked(ptr', node', above)
      /\ Alloc(node') = Alloc(node) \cup {n} /\ n \notin Alloc(node)
  BY <1>1, <1>2, <1>3, <1>4, PushKeeps
<1>6. IsFiniteSet(Alloc(node))
  BY TableAssumption, FS_Subset DEF Alloc
<1>7. Cardinality(Alloc(node) \cup {n}) = Cardinality(Alloc(node)) + 1
  BY <1>5, <1>6, FS_AddElement
<1>8. count' = Cardinality(Alloc(node'))
  BY <1>2, <1>3, <1>5, <1>7
<1>9. IInv'
  <2>1. PICK above : Ranked(ptr', node', above)
    BY <1>5
  <2>2. total_created' \in Nat /\ now' \in Nat /\ reported' \in [Key -> Nat]
    BY <1>3 DEF IInv
  <2> QED BY <1>5, <1>8, <2>1, <2>2 DEF IInv
<1>10. \A m \in Alloc(node) : node'[m] = node[m]
  BY <1>2, <1>3, <1>5 DEF Heap, Alloc
<1>11. node'[n].key = k /\ node'[n].last_seen = now
  BY <1>2, <1>3 DEF Heap
<1> QED
  BY <1>4, <1>5, <1>9, <1>10, <1>11

LEMMA RemoveFacts ==
  ASSUME NEW k \in Key, IInv, remove(k)
  PROVE  /\ IInv'
         /\ \E n \in Alloc(node) : /\ node[n].key = k
                                   /\ Alloc(node') = Alloc(node) \ {n}
                                   /\ \A m \in Alloc(node') : node'[m] = node[m]
<1>1. PICK rank : Ranked(ptr, node, rank)
  BY DEF IInv
<1>2. Heap(ptr, node) /\ count = Cardinality(Alloc(node))
  BY DEF IInv
<1> DEFINE pp == Find(k)
           e == ptr[pp]
<1>3. /\ e # NULL /\ ptr' = Unlinked(ptr, pp, e) /\ node' = [node EXCEPT ![e] = Free]
      /\ count' = count - 1 /\ UNCHANGED <<total_created, now, reported>>
  BY DEF remove
<1>4. pp \in Ref /\ e = lookup(k)
  BY <1>1, <1>2, FindFacts DEF lookup, Live, Alloc, Ref
<1>5. e \in Alloc(node) /\ node[e].key = k
  BY <1>1, <1>2, <1>3, <1>4, FindFacts
<1> HIDE DEF pp
<1>6. /\ Heap(ptr', node') /\ Ranked(ptr', node', rank) /\ Alloc(node') = Alloc(node) \ {e}
  BY <1>1, <1>2, <1>3, <1>4, UnlinkKeeps
<1> HIDE DEF e
<1>7. IsFiniteSet(Alloc(node))
  BY TableAssumption, FS_Subset DEF Alloc
<1>8. Cardinality(Alloc(node) \ {e}) = Cardinality(Alloc(node)) - 1
  BY <1>5, <1>7, FS_RemoveElement
<1>9. count' = Cardinality(Alloc(node'))
  BY <1>2, <1>3, <1>6, <1>8
<1>10. IInv'
  BY <1>3, <1>6, <1>9 DEF IInv
<1>11. \A m \in Alloc(node') : node'[m] = node[m]
  BY <1>2, <1>3, <1>6 DEF Heap, Alloc
<1> QED
  BY <1>5, <1>6, <1>10, <1>11

LEMMA AgeInv ==
  ASSUME IInv, age
  PROVE  IInv'
<1>1. PICK rank : Ranked(ptr, node, rank)
  BY DEF IInv
<1>2. PICK t : /\ Underway(t, rank)
               /\ ptr' = t.ptr /\ node' = t.node /\ count' = t.count /\ reported' = t.reported
               /\ UNCHANGED <<total_created, now>>
  BY <1>1, AgeFacts
<1> QED
  BY <1>2 DEF Underway, Sweeping, IInv

LEMMA DestroyFacts ==
  ASSUME IInv, destroy
  PROVE  IInv' /\ Alloc(node') = {}
<1>1. /\ ptr' = [r \in Ref |-> NULL] /\ node' = [n \in Node |-> Free] /\ count' = 0
      /\ UNCHANGED <<total_created, now, reported>>
  BY DEF destroy
<1>2. Alloc(node') = {}
  BY <1>1 DEF Alloc
<1>3. Heap(ptr', node')
  BY <1>1, <1>2 DEF Heap, Ref
<1>4. PICK rank : Ranked(ptr, node, rank)
  BY DEF IInv
<1>5. Ranked(ptr', node', rank)
  BY <1>1, <1>2, <1>4 DEF Ranked
<1>6. count' = Cardinality(Alloc(node'))
  BY <1>1, <1>2, FS_EmptySet
<1> QED
  BY <1>1, <1>2, <1>3, <1>5, <1>6 DEF IInv

LEMMA NextInv == IInv /\ [Next]_vars => IInv'
<1> SUFFICES ASSUME IInv, [Next]_vars PROVE IInv'
  OBVIOUS
<1>1. CASE UNCHANGED <<table, total_created, reported>> /\ now' \in Nat
  BY <1>1 DEF IInv, table
<1>2. CASE Tick
  BY <1>1, <1>2 DEF Tick, IInv
<1>3. CASE UNCHANGED vars
  BY <1>1, <1>3 DEF vars, IInv
<1>4. ASSUME NEW k \in Key, SeeKnown(k) \/ remove(k) \/ \E n \in Node : SeeNew(k, n)
      PROVE  IInv'
  BY <1>4, StampFacts, RemoveFacts, NewFacts
<1> QED
  BY <1>2, <1>3, <1>4, AgeInv, DestroyFacts DEF Next

LEMMA TableInvariant == Spec => []IInv
BY InitInv, NextInv, PTL DEF Spec
-----------------------------------------------------------------------------
(* What follows for the chains and for what the engine sees. *)

LEMMA ChainIs ==
  ASSUME IInv, NEW b \in Bucket
  PROVE  Chain(b) = {n \in Alloc(node) : Hash[node[n].key] = b}
<1>1. PICK rank : Ranked(ptr, node, rank)
  BY DEF IInv
<1>2. Heap(ptr, node) /\ rank \in [Ref -> Nat] /\ Alloc(node) \subseteq Ref
      /\ \A r \in Ref : rank[r] \in Nat
  BY <1>1 DEF IInv, Ranked, Alloc, Ref
<1> DEFINE Of == {n \in Alloc(node) : Hash[node[n].key] = b}
<1>3. /\ \A n \in Alloc(node) : Owner(node, n) = Hash[node[n].key]
      /\ Owner(node, b) = b /\ b \in Ref
  BY TableAssumption DEF Owner, Alloc, Ref
<1>4. Follows(Of, b) /\ Of \in SUBSET Node
  BY <1>2, <1>3 DEF Follows, Heap, Alloc
<1>5. Chain(b) \subseteq Of
  BY <1>4 DEF Chain
<1>6. ASSUME NEW S \in SUBSET Node, Follows(S, b) PROVE Of \subseteq S
  <2> DEFINE Bad == Of \ S
  <2>1. SUFFICES ASSUME Bad # {} PROVE FALSE
    OBVIOUS
  <2>2. PICK m \in Bad : \A x \in Bad : rank[m] =< rank[x]
    BY <1>2, <2>1, LeastRank
  <2>3. m \in Alloc(node) /\ Owner(node, m) = b /\ m # NULL
    BY <1>3, TableAssumption DEF Alloc
  <2>4. PICK q \in Ref : ptr[q] = m
    BY <1>2, <2>3 DEF Heap
  <2>5. q \in Live(node) /\ Owner(node, q) = b /\ rank[q] < rank[m]
    BY <1>1, <1>2, <2>3, <2>4 DEF Heap, Ranked
  <2>6. q = b \/ q \in Of
    BY <1>3, <2>5 DEF Live, Owner
  <2>7. q \notin Bad
    BY <1>2, <2>2, <2>3, <2>5
  <2>8. q \in S \cup {b}
    BY <2>6, <2>7
  <2> QED BY <1>6, <2>3, <2>4, <2>8 DEF Follows
<1>7. Of \subseteq Chain(b)
  <2> HIDE DEF Of
  <2>1. Of \subseteq Node
    BY <1>4
  <2> QED BY <1>6, <2>1 DEF Chain
<1> QED
  BY <1>5, <1>7

LEMMA OnePointer ==
  ASSUME IInv, NEW n \in Alloc(node)
  PROVE  Cardinality({r \in Ref : ptr[r] = n}) = 1
<1>1. PICK q \in Ref : ptr[q] = n
  BY DEF IInv, Heap
<1>2. n # NULL
  BY TableAssumption DEF Alloc
<1>3. {r \in Ref : ptr[r] = n} = {q}
  BY <1>1, <1>2 DEF IInv, Heap
<1> QED
  BY <1>3, FS_Singleton

LEMMA InvGivesChains == IInv => ChainsSound
<1> SUFFICES ASSUME IInv PROVE ChainsSound
  OBVIOUS
<1>1. Allocated = Alloc(node) /\ Heap(ptr, node) /\ count = Cardinality(Alloc(node))
  BY DEF IInv, Allocated, Alloc
<1>2. \A n \in Alloc(node) : Hash[node[n].key] \in Bucket
  BY <1>1, TableAssumption DEF Alloc, Heap, Entry
<1>3. \A b \in Bucket : \A n \in Chain(b) : n \in Allocated /\ Hash[node[n].key] = b
  BY <1>1, ChainIs
<1>4. Allocated \subseteq UNION {Chain(b) : b \in Bucket}
  BY <1>1, <1>2, ChainIs
<1>5. \A m, n \in Allocated : node[m].key = node[n].key => m = n
  BY <1>1 DEF Heap
<1> QED
  BY <1>1, <1>3, <1>4, <1>5, OnePointer DEF ChainsSound

\* The chains hold what is allocated and nothing that was freed, whatever is inserted,
\* removed or swept, and wherever it sits on its chain (flow_table_get_or_create,
\* flow_table_remove, flow_table_age).
THEOREM ChainsStaySound == Spec => []ChainsSound
BY TableInvariant, InvGivesChains, PTL

\* When each flow was last seen, as Flows has it.
Seen == [k \in Key |-> IF lookup(k) = NULL THEN NULL ELSE node[lookup(k)].last_seen]

\* It is in the entry of the flow, and nowhere if there is none.
SeenRight == \A k \in Key :
  /\ \A n \in Alloc(node) : node[n].key = k => Seen[k] = node[n].last_seen
  /\ (\A n \in Alloc(node) : node[n].key # k) => Seen[k] = NULL

LEMMA SeenFacts == IInv => SeenRight
<1> SUFFICES ASSUME IInv, NEW k \in Key
             PROVE  /\ \A n \in Alloc(node) : node[n].key = k => Seen[k] = node[n].last_seen
                    /\ (\A n \in Alloc(node) : node[n].key # k) => Seen[k] = NULL
  BY DEF SeenRight
<1>1. PICK rank : Ranked(ptr, node, rank)
  BY DEF IInv
<1>2. /\ lookup(k) \in Alloc(node) \cup {NULL}
      /\ \A n \in Alloc(node) : node[n].key = k <=> lookup(k) = n
  BY <1>1, FindFacts DEF IInv
<1>3. NULL \notin Alloc(node)
  BY TableAssumption DEF Alloc
<1> QED
  BY <1>2, <1>3 DEF Seen

LEMMA SeenNext == IInv' => SeenRight'
BY SeenFacts, PTL

LEMMA SeenIsFunction == Seen = [k \in Key |-> Seen[k]] /\ Seen' = [k \in Key |-> Seen'[k]]
BY DEF Seen

LEMMA StampIsSee ==
  ASSUME NEW k \in Key, IInv, SeeKnown(k)
  PROVE  Flows!See(k)
<1>1. IInv' /\ SeenRight /\ SeenRight'
  BY StampFacts, SeenFacts, SeenNext
<1>2. PICK n \in Alloc(node) :
        /\ node[n].key = k /\ Alloc(node') = Alloc(node)
        /\ \A m \in Alloc(node) : /\ node'[m].key = node[m].key
                                  /\ node'[m].last_seen = IF m = n THEN now ELSE node[m].last_seen
  BY StampFacts
<1>3. UNCHANGED <<total_created, now, reported>>
  BY DEF SeeKnown
<1>4. Seen[k] = node[n].last_seen /\ Seen'[k] = now
  BY <1>1, <1>2 DEF SeenRight
<1>5. node[n].last_seen \in Nat
  BY <1>2 DEF IInv, Heap, Alloc, Entry
<1>6. Seen[k] # NULL
  BY <1>4, <1>5, TableAssumption
<1>7. ASSUME NEW j \in Key, j # k PROVE Seen'[j] = Seen[j]
  <2>1. CASE \E m \in Alloc(node) : node[m].key = j
    BY <1>1, <1>2, <1>7, <2>1 DEF SeenRight
  <2>2. CASE \A m \in Alloc(node) : node[m].key # j
    BY <1>1, <1>2, <2>2 DEF SeenRight
  <2> QED BY <2>1, <2>2
<1>8. Seen' = [Seen EXCEPT ![k] = now]
  BY <1>4, <1>7, SeenIsFunction
<1>9. total_created' = total_created + 0
  BY <1>3 DEF IInv
<1> QED
  BY <1>3, <1>6, <1>8, <1>9 DEF Flows!See, Seen

LEMMA NewIsSee ==
  ASSUME NEW k \in Key, NEW n \in Node, IInv, SeeNew(k, n)
  PROVE  Flows!See(k)
<1>1. IInv' /\ SeenRight /\ SeenRight'
  BY NewFacts, SeenFacts, SeenNext
<1>2. /\ \A m \in Alloc(node) : node[m].key # k /\ node'[m] = node[m]
      /\ Alloc(node') = Alloc(node) \cup {n} /\ node'[n].key = k /\ node'[n].last_seen = now
  BY NewFacts
<1>3. total_created' = total_created + 1 /\ UNCHANGED <<now, reported>>
  BY DEF SeeNew
<1>4. Seen[k] = NULL /\ Seen'[k] = now
  BY <1>1, <1>2 DEF SeenRight
<1>5. ASSUME NEW j \in Key, j # k PROVE Seen'[j] = Seen[j]
  <2>1. CASE \E m \in Alloc(node) : node[m].key = j
    BY <1>1, <1>2, <2>1 DEF SeenRight
  <2>2. CASE \A m \in Alloc(node) : node[m].key # j
    BY <1>1, <1>2, <1>5, <2>2 DEF SeenRight
  <2> QED BY <2>1, <2>2
<1>6. Seen' = [Seen EXCEPT ![k] = now]
  BY <1>4, <1>5, SeenIsFunction
<1> QED
  BY <1>3, <1>4, <1>6 DEF Flows!See, Seen

LEMMA RemoveIsRemove ==
  ASSUME NEW k \in Key, IInv, remove(k)
  PROVE  Flows!Remove(k)
<1>1. IInv' /\ SeenRight /\ SeenRight'
  BY RemoveFacts, SeenFacts, SeenNext
<1>2. PICK n \in Alloc(node) :
        /\ node[n].key = k /\ Alloc(node') = Alloc(node) \ {n}
        /\ \A m \in Alloc(node') : node'[m] = node[m]
  BY RemoveFacts
<1>3. \A m \in Alloc(node') : node'[m].key # k
  BY <1>2 DEF IInv, Heap
<1>4. Seen'[k] = NULL
  BY <1>1, <1>3 DEF SeenRight
<1>5. ASSUME NEW j \in Key, j # k PROVE Seen'[j] = Seen[j]
  <2>1. CASE \E m \in Alloc(node') : node'[m].key = j
    BY <1>1, <1>2, <2>1 DEF SeenRight
  <2>2. CASE \A m \in Alloc(node') : node'[m].key # j
    BY <1>1, <1>2, <1>5, <2>2 DEF SeenRight
  <2> QED BY <2>1, <2>2
<1>6. Seen' = [Seen EXCEPT ![k] = NULL]
  BY <1>4, <1>5, SeenIsFunction
<1>7. UNCHANGED <<total_created, now, reported>>
  BY DEF remove
<1> QED
  BY <1>6, <1>7 DEF Flows!Remove, Seen

LEMMA AgeIsSweep ==
  ASSUME IInv, age
  PROVE  Flows!Sweep
<1>1. PICK rank : Ranked(ptr, node, rank)
  BY DEF IInv
<1>2. PICK t : /\ Underway(t, rank) /\ Pending(t, rank) = {}
               /\ node' = t.node /\ reported' = t.reported
               /\ UNCHANGED <<total_created, now>>
  BY <1>1, AgeFacts
<1>3. SeenRight /\ SeenRight'
  BY AgeInv, SeenFacts, SeenNext
<1> DEFINE Idle(k) == Seen[k] # NULL /\ now - Seen[k] > Timeout(k)
<1>4. ASSUME NEW k \in Key
      PROVE  /\ Seen'[k] = IF Idle(k) THEN NULL ELSE Seen[k]
             /\ reported'[k] = reported[k] + IF Idle(k) THEN 1 ELSE 0
  <2>1. CASE \A n \in Alloc(node) : node[n].key # k
    <3>1. Seen[k] = NULL
      BY <1>3, <2>1 DEF SeenRight
    <3>2. \A n \in Alloc(node') : node'[n] = node[n] /\ n \in Alloc(node)
      BY <1>2 DEF Underway, Alloc
    <3>3. Seen'[k] = NULL
      BY <1>3, <2>1, <3>2 DEF SeenRight
    <3>4. ~Dropped(t, k)
      BY <2>1 DEF Dropped
    <3> QED BY <1>2, <3>1, <3>3, <3>4 DEF Underway
  <2>2. ASSUME NEW n \in Alloc(node), node[n].key = k
        PROVE  /\ Seen'[k] = IF Idle(k) THEN NULL ELSE Seen[k]
               /\ reported'[k] = reported[k] + IF Idle(k) THEN 1 ELSE 0
    <3>1. Seen[k] = node[n].last_seen /\ node[n].last_seen \in Nat
      BY <1>3, <2>2 DEF SeenRight, IInv, Heap, Alloc, Entry
    <3>2. Idle(k) <=> IsIdle(node[n])
      BY <2>2, <3>1, TableAssumption DEF IsIdle
    <3>3. CASE IsIdle(node[n])
      <4>1. n \notin Alloc(node')
        BY <1>2, <3>3 DEF Underway, Alloc
      <4>2. \A m \in Alloc(node') : node'[m] = node[m] /\ m \in Alloc(node)
        BY <1>2 DEF Underway, Alloc
      <4>3. \A m \in Alloc(node') : node'[m].key # k
        BY <2>2, <4>1, <4>2 DEF IInv, Heap
      <4>4. Seen'[k] = NULL
        BY <1>3, <4>3 DEF SeenRight
      <4>5. Dropped(t, k)
        BY <1>2, <2>2, <4>1 DEF Dropped
      <4> QED BY <1>2, <3>2, <3>3, <4>4, <4>5 DEF Underway
    <3>4. CASE ~IsIdle(node[n])
      <4>1. n \in Alloc(node') /\ node'[n] = node[n]
        BY <1>2, <3>4 DEF Underway, Alloc
      <4>2. Seen'[k] = node[n].last_seen
        BY <1>3, <2>2, <4>1 DEF SeenRight
      <4>3. ~Dropped(t, k)
        BY <1>2, <2>2, <4>1 DEF Dropped, IInv, Heap
      <4> QED BY <1>2, <3>1, <3>2, <3>4, <4>2, <4>3 DEF Underway
    <3> QED BY <3>3, <3>4
  <2> QED BY <2>1, <2>2
<1>5. reported' \in [Key -> Nat]
  BY <1>2 DEF Underway, Sweeping
<1>6. Seen' = [k \in Key |-> IF Idle(k) THEN NULL ELSE Seen[k]]
  BY <1>4, SeenIsFunction
<1>7. reported' = [k \in Key |-> reported[k] + IF Idle(k) THEN 1 ELSE 0]
  BY <1>4, <1>5
<1> QED
  BY <1>2, <1>6, <1>7 DEF Flows!Sweep, Flows!Idle, Flows!Timeout, Timeout, Seen

LEMMA DestroyIsClear ==
  ASSUME IInv, destroy
  PROVE  Flows!Clear
<1>1. SeenRight' /\ Alloc(node') = {}
  BY DestroyFacts, SeenNext
<1>2. \A k \in Key : Seen'[k] = NULL
  BY <1>1 DEF SeenRight
<1>3. Seen' = [k \in Key |-> NULL]
  BY <1>2, SeenIsFunction
<1>4. UNCHANGED <<total_created, now, reported>>
  BY DEF destroy
<1> QED
  BY <1>3, <1>4 DEF Flows!Clear, Seen

\* Seen depends on the table alone.
LEMMA SeenStays == UNCHANGED table => UNCHANGED Seen
BY DEF table, Seen, lookup, Find

LEMMA StepIsFlowStep == IInv /\ [Next]_vars => [Flows!Next]_(Flows!vars)
<1> SUFFICES ASSUME IInv, [Next]_vars PROVE [Flows!Next]_(Flows!vars)
  OBVIOUS
<1>1. CASE UNCHANGED vars
  BY <1>1, SeenStays DEF vars, Flows!vars, Seen
<1>2. CASE Tick
  BY <1>2, SeenStays DEF Tick, Flows!Tick, Flows!Next, Seen
<1>3. ASSUME NEW k \in Key, SeeKnown(k) \/ \E n \in Node : SeeNew(k, n) PROVE Flows!Next
  BY <1>3, StampIsSee, NewIsSee DEF Flows!Next
<1>4. ASSUME NEW k \in Key, remove(k) PROVE Flows!Next
  BY <1>4, RemoveIsRemove DEF Flows!Next
<1>5. CASE age
  BY <1>5, AgeIsSweep DEF Flows!Next
<1>6. CASE destroy
  BY <1>6, DestroyIsClear DEF Flows!Next
<1> QED
  BY <1>1, <1>2, <1>3, <1>4, <1>5, <1>6 DEF Next

LEMMA InitIsFlowInit == Init => Flows!Init
<1> SUFFICES ASSUME Init PROVE Flows!Init
  OBVIOUS
<1>1. SeenRight /\ Alloc(node) = {}
  BY InitInv, SeenFacts DEF Init, Alloc
<1>2. Seen = [k \in Key |-> NULL]
  BY <1>1, SeenIsFunction DEF SeenRight
<1> QED
  BY <1>2 DEF Init, Flows!Init, Seen

\* flow_table.c, pointer by pointer, implements a set of flows: what was inserted is
\* found until its sweep, and flow_table_age drops and reports exactly the flows that
\* are idle past their timeout.
THEOREM TableImplementsFlowSet == Spec => ImplementsFlowSet
<1>1. Spec => Flows!Spec
  BY InitIsFlowInit, StepIsFlowStep, TableInvariant, PTL DEF Spec, Flows!Spec
<1> QED
  BY <1>1 DEF ImplementsFlowSet
=============================================================================
