-------------------------------- MODULE Views --------------------------------
(***************************************************************************)
(* What the daemon tells its clients per application: handle_show_stats    *)
(* and handle_show_applications (daemon/unix_socket.c) and write_metrics   *)
(* (daemon/prometheus.c) add the engine's totals, which are this thread's  *)
(* own, to the per-CPU counters of app_counters, which the TC program goes *)
(* on counting in while they are copied.                                   *)
(*                                                                         *)
(* Bytes, packets and flows are added up alike: one number per application *)
(* stands for them.                                                        *)
(***************************************************************************)
EXTENDS Integers, FiniteSets, SequencesExt

CONSTANTS
  Apps,      \* number of slots, 512 in the code; ids are 0..Apps-1
  NCpu,      \* CPUs, at most 256
  Top,       \* the row limits clients ask for
  MaxCount   \* bound on what is counted

ASSUME ViewAssumption ==
  Apps \in Nat \ {0} /\ NCpu \in 1..256 /\ Top \subseteq Nat /\ MaxCount \in Nat

VARIABLES
  app_counters,  \* CPU -> id -> count, in the kernel
  engine,        \* id -> the engine's total
  copied,        \* counters copied for the answer under way; Idle: there is none
  sum,           \* id -> what that answer has added up
  told,          \* id -> what the last answer said
  listing,       \* its limit and the ids it listed; limit 0, no listing
  before,        \* history: the totals when the answer was begun
  counted        \* history: what was counted so far
vars == <<app_counters, engine, copied, sum, told, listing, before, counted>>

Id == 0..(Apps - 1)
Cpu == 0..(NCpu - 1)
Zero == [a \in Id |-> 0]
Cells == Apps * NCpu
Idle == -1
NoListing == [limit |-> 0, rows |-> <<>>]

Init ==
  /\ app_counters = [c \in Cpu |-> Zero]
  /\ engine = Zero /\ sum = Zero /\ told = Zero /\ before = Zero
  /\ copied = Idle
  /\ listing = NoListing
  /\ counted = 0

Total(a) == engine[a] + SumFunction([c \in Cpu |-> app_counters[c][a]])
-----------------------------------------------------------------------------
(* The definitions named <definition>_<fault> are seeded faults, used only to
   show that a property notices them. *)

\* update_app_counter, on any CPU at any time.
Count(c, a) ==
  /\ counted < MaxCount
  /\ counted' = counted + 1
  /\ app_counters' = [app_counters EXCEPT ![c][a] = @ + 1]
  /\ UNCHANGED <<engine, copied, sum, told, listing, before>>

\* The engine credits a flow, between two answers.
Credit(a) ==
  /\ counted < MaxCount /\ copied = Idle
  /\ counted' = counted + 1
  /\ engine' = [engine EXCEPT ![a] = @ + 1]
  /\ UNCHANGED <<app_counters, copied, sum, told, listing, before>>

\* What the sums start from: a copy of the engine's totals.
First_last_sums == sum
First == engine

Begin ==
  /\ copied = Idle
  /\ copied' = 0
  /\ sum' = First
  /\ before' = [a \in Id |-> Total(a)]
  /\ listing' = NoListing
  /\ UNCHANGED <<app_counters, engine, told, counted>>

\* bpf_map_lookup_elem copies one id's counters, CPU by CPU.  The CPU whose counter
\* comes k-th; and what the copy leaves in the map.
CpuOf(k) == k % NCpu
IdOf(k) == k \div NCpu
Left_cleared(n) == 0
Left(n) == n

Copy ==
  LET a == IdOf(copied)
      c == CpuOf(copied)
  IN /\ copied \in 0..(Cells - 1)
     /\ copied' = copied + 1
     /\ sum' = [sum EXCEPT ![a] = @ + app_counters[c][a]]
     /\ app_counters' = [app_counters EXCEPT ![c][a] = Left(@)]
     /\ UNCHANGED <<engine, told, listing, before, counted>>

\* The ids by what was added up, most first: insertion sort, where an id goes
\* behind the last one that has no less.
Behind_among_equals(order, a) == Max({0} \cup {i \in DOMAIN order : sum[order[i]] > sum[a]})
Behind(order, a) == Max({0} \cup {i \in DOMAIN order : sum[order[i]] >= sum[a]})
Order ==
  LET sorted[a \in Id] ==
        IF a = 0 THEN <<0>>
        ELSE LET order == sorted[a - 1] IN InsertAt(order, Behind(order, a) + 1, a)
  IN sorted[Apps - 1]

\* The first n of them that have something to show.
Rows(n) ==
  LET order == Order
      rows[i \in 0..Apps] ==
        IF i = 0 THEN <<>>
        ELSE LET shown == rows[i - 1]
             IN  IF Len(shown) < n /\ sum[order[i]] > 0 THEN Append(shown, order[i]) ELSE shown
  IN rows[Apps]

Answered ==
  /\ copied = Cells
  /\ copied' = Idle
  /\ told' = sum
  /\ UNCHANGED <<app_counters, engine, sum, before, counted>>

\* handle_show_applications with limit n.
ShowApplications(n) == Answered /\ listing' = [limit |-> n, rows |-> Rows(n)]

\* write_metrics, and handle_show_stats, list no order.
WriteMetrics == Answered /\ UNCHANGED listing

Next ==
  \/ \E a \in Id : Credit(a) \/ \E c \in Cpu : Count(c, a)
  \/ Begin \/ Copy \/ WriteMetrics
  \/ \E n \in Top : ShowApplications(n)

Spec == Init /\ [][Next]_vars
-----------------------------------------------------------------------------
\* Though no lock is held, each number of an answer lies between what the application
\* had when the answer was begun and what it has when it is given: nothing counted
\* before is missing and nothing is counted twice (unix_socket.c:104-129, prometheus.c:86-113).
AnswerIsRecent ==
  [][copied = Cells /\ copied' = Idle =>
       \A a \in Id : before[a] =< told'[a] /\ told'[a] =< Total(a)]_vars

\* "# TYPE ... counter" (prometheus.c:123-141): from one answer to the next no
\* number falls, whatever was counted while it was put together.
CountersNeverFall == [][\A a \in Id : told[a] =< told'[a]]_vars

\* A listing shows as many applications as it may, and none that it leaves out has
\* more than one it shows, nor as much and a smaller id (unix_socket.c:136-164).
ListingOnTop ==
  LET nonzero == {a \in Id : told[a] > 0}
      n == Len(listing.rows)
      Upto(i) == {listing.rows[j] : j \in 1..i}
      Ahead(a, b) == told[a] > told[b] \/ (told[a] = told[b] /\ a < b)
  IN copied = Idle =>
       /\ n = Min({listing.limit, Cardinality(nonzero)})
       /\ \A i \in 1..n : /\ listing.rows[i] \in nonzero
                          /\ \A b \in nonzero \ Upto(i) : Ahead(listing.rows[i], b)
=============================================================================
