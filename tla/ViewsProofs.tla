---------------------------- MODULE ViewsProofs ----------------------------
(***************************************************************************)
(* Theorems about Views, for any number of applications and CPUs and any   *)
(* counts: the numbers of an answer, put together while the TC program     *)
(* goes on counting.                                                       *)
(***************************************************************************)
EXTENDS Views, RecursionTheorems, SequenceTheorems

\* The counter of CPU c for application a is the Cell(a, c)-th that is copied.
Cell(a, c) == NCpu * a + c

\* The counters of an application; those the answer under way has copied, and those
\* it has still to copy.
Column(a) == [c \in Cpu |-> app_counters[c][a]]
Taken(a) == [c \in Cpu |-> IF Cell(a, c) < copied THEN app_counters[c][a] ELSE 0]
Rest(a) == [c \in Cpu |-> IF Cell(a, c) < copied THEN 0 ELSE app_counters[c][a]]

Typed ==
  /\ app_counters \in [Cpu -> [Id -> Nat]]
  /\ engine \in [Id -> Nat] /\ sum \in [Id -> Nat]
  /\ told \in [Id -> Nat] /\ before \in [Id -> Nat]
  /\ copied \in {Idle} \cup 0..Cells

(* What an answer has added up, and what it has still to copy, is no less than the
   totals it began with; what it has added up is no more than what has been copied
   from has become.  The totals it began with are no less than the last answer. *)
Between(a) ==
  IF copied = Idle THEN told[a] =< Total(a)
  ELSE /\ told[a] =< before[a]
       /\ before[a] =< sum[a] + SumFunction(Rest(a))
       /\ sum[a] =< engine[a] + SumFunction(Taken(a))

IInv == Typed /\ \A a \in Id : Between(a)
-----------------------------------------------------------------------------
LEMMA CpuFinite == IsFiniteSet(Cpu)
<1>1. 0 \in Int /\ NCpu - 1 \in Int BY ViewAssumption
<1> QED BY <1>1, FS_Interval DEF Cpu

\* The division by a positive number.
LEMMA Division ==
  ASSUME NEW n \in Nat \ {0}, NEW k \in Nat
  PROVE  k \div n \in Nat /\ k % n \in 0..(n - 1) /\ k = n * (k \div n) + (k % n)
OBVIOUS

LEMMA DivisionUnique ==
  ASSUME NEW n \in Nat \ {0}, NEW p \in Int, NEW q \in Int,
         NEW r \in 0..(n - 1), NEW s \in 0..(n - 1), n * p + r = n * q + s
  PROVE  p = q /\ r = s
<1>1. CASE p < q
  <2>1. p + 1 =< q /\ n * (p + 1) =< n * q BY <1>1
  <2>2. n * (p + 1) = n * p + n OBVIOUS
  <2> QED BY <2>1, <2>2
<1>2. CASE q < p
  <2>1. q + 1 =< p /\ n * (q + 1) =< n * p BY <1>2
  <2>2. n * (q + 1) = n * q + n OBVIOUS
  <2> QED BY <2>1, <2>2
<1> QED BY <1>1, <1>2

\* The cells are those of 0..Cells-1, in the order they are copied in.
LEMMA CellFacts ==
  ASSUME NEW a \in Id, NEW c \in Cpu
  PROVE  Cell(a, c) \in 0..(Cells - 1)
<1>1. NCpu \in Nat \ {0} /\ Apps \in Nat /\ a \in Nat /\ a + 1 =< Apps
      /\ c \in Nat /\ c + 1 =< NCpu
  BY ViewAssumption DEF Id, Cpu
<1>2. NCpu * a \in Nat /\ NCpu * (a + 1) =< NCpu * Apps /\ NCpu * (a + 1) = NCpu * a + NCpu
  BY <1>1
<1>3. NCpu * Apps = Apps * NCpu BY <1>1
<1> QED BY <1>1, <1>2, <1>3 DEF Cell, Cells

LEMMA CopiedCell ==
  ASSUME NEW k \in 0..(Cells - 1)
  PROVE  /\ IdOf(k) \in Id /\ CpuOf(k) \in Cpu
         /\ \A a \in Id, c \in Cpu :
              Cell(a, c) < k + 1 <=> Cell(a, c) < k \/ (a = IdOf(k) /\ c = CpuOf(k))
         /\ Cell(IdOf(k), CpuOf(k)) = k
<1> DEFINE q == k \div NCpu
           r == k % NCpu
<1>1. NCpu \in Nat \ {0} /\ Apps \in Nat /\ Cells = NCpu * Apps /\ k \in Nat /\ k < Cells
  BY ViewAssumption DEF Cells
<1>2. q \in Nat /\ r \in 0..(NCpu - 1) /\ k = NCpu * q + r
  BY <1>1, Division
<1> HIDE DEF q, r
<1>3. q < Apps
  <2>1. SUFFICES ASSUME Apps =< q PROVE FALSE BY <1>1, <1>2
  <2>2. NCpu * Apps =< NCpu * q BY <1>1, <1>2, <2>1
  <2> QED BY <1>1, <1>2, <2>2
<1>4. q \in Id /\ r \in Cpu BY <1>1, <1>2, <1>3 DEF Id, Cpu
<1>5. IdOf(k) = q /\ CpuOf(k) = r BY DEF IdOf, CpuOf, q, r
<1>6. ASSUME NEW a \in Id, NEW c \in Cpu, Cell(a, c) = k PROVE a = q /\ c = r
  <2>1. a \in Int /\ c \in 0..(NCpu - 1) /\ NCpu * a + c = NCpu * q + r
    BY <1>1, <1>2, <1>6 DEF Id, Cpu, Cell
  <2> QED BY <1>1, <1>2, <2>1, DivisionUnique
<1>7. Cell(q, r) = k BY <1>2 DEF Cell
<1>8. \A a \in Id, c \in Cpu : Cell(a, c) \in Int
  BY CellFacts
<1> QED BY <1>1, <1>4, <1>5, <1>6, <1>7, <1>8

\* What the totals are made of are natural numbers.
SumsTyped(a) ==
  /\ Column(a) \in [Cpu -> Nat] /\ Taken(a) \in [Cpu -> Nat] /\ Rest(a) \in [Cpu -> Nat]
  /\ SumFunction(Column(a)) \in Nat /\ SumFunction(Taken(a)) \in Nat
  /\ SumFunction(Rest(a)) \in Nat
  /\ engine[a] \in Nat /\ sum[a] \in Nat /\ told[a] \in Nat /\ before[a] \in Nat
  /\ Total(a) = engine[a] + SumFunction(Column(a))
  /\ \A c \in Cpu : /\ Column(a)[c] = app_counters[c][a]
                    /\ Taken(a)[c] = IF Cell(a, c) < copied THEN app_counters[c][a] ELSE 0
                    /\ Rest(a)[c] = IF Cell(a, c) < copied THEN 0 ELSE app_counters[c][a]

LEMMA SumTypes == Typed => \A a \in Id : SumsTyped(a)
<1> SUFFICES ASSUME Typed, NEW a \in Id PROVE SumsTyped(a)
  OBVIOUS
<1>1. \A c \in Cpu : app_counters[c][a] \in Nat BY DEF Typed
<1>2. Column(a) \in [Cpu -> Nat] /\ Taken(a) \in [Cpu -> Nat] /\ Rest(a) \in [Cpu -> Nat]
  BY <1>1 DEF Column, Taken, Rest
<1>3. \A F \in [Cpu -> Nat] : SumFunction(F) \in Nat
  BY CpuFinite, SumAtLeast
<1>4. SumFunction(Column(a)) \in Nat /\ SumFunction(Taken(a)) \in Nat
      /\ SumFunction(Rest(a)) \in Nat
  BY <1>2, <1>3
<1>5. engine[a] \in Nat /\ sum[a] \in Nat /\ told[a] \in Nat /\ before[a] \in Nat
  BY DEF Typed
<1>6. Total(a) = engine[a] + SumFunction(Column(a)) BY DEF Total, Column
<1>7. \A c \in Cpu : /\ Column(a)[c] = app_counters[c][a]
                     /\ Taken(a)[c] = IF Cell(a, c) < copied THEN app_counters[c][a] ELSE 0
                     /\ Rest(a)[c] = IF Cell(a, c) < copied THEN 0 ELSE app_counters[c][a]
  BY DEF Column, Taken, Rest
<1> QED BY <1>2, <1>4, <1>5, <1>6, <1>7 DEF SumsTyped

LEMMA SumTypesNext == Typed' => \A a \in Id : SumsTyped(a)'
<1>1. (Typed => \A a \in Id : SumsTyped(a))'
  BY SumTypes, PTL
<1> QED BY <1>1

\* Sums of counters: pointwise no less, no less.
LEMMA SumGrows ==
  ASSUME NEW F \in [Cpu -> Nat], NEW G \in [Cpu -> Nat], \A c \in Cpu : F[c] =< G[c]
  PROVE  SumFunction(F) =< SumFunction(G)
BY CpuFinite, SumAtLeast

LEMMA NextTyped == Typed /\ [Next]_vars => Typed'
<1> SUFFICES ASSUME Typed, [Next]_vars PROVE Typed'
  OBVIOUS
<1> USE DEF Typed
<1>1. ASSUME NEW a \in Id, NEW c \in Cpu, Count(c, a) PROVE Typed'
  <2>1. app_counters' = [app_counters EXCEPT ![c][a] = @ + 1]
        /\ UNCHANGED <<engine, copied, sum, told, before>>
    BY <1>1 DEF Count
  <2> QED BY <2>1
<1>2. ASSUME NEW a \in Id, Credit(a) PROVE Typed'
  <2>1. engine' = [engine EXCEPT ![a] = @ + 1]
        /\ UNCHANGED <<app_counters, copied, sum, told, before>>
    BY <1>2 DEF Credit
  <2> QED BY <2>1
<1>3. CASE Begin
  <2>1. copied' = 0 /\ sum' = engine /\ before' = [a \in Id |-> Total(a)]
        /\ UNCHANGED <<app_counters, engine, told>>
    BY <1>3 DEF Begin, First
  <2>2. \A a \in Id : Total(a) \in Nat
    BY SumTypes DEF SumsTyped
  <2>3. 0 \in 0..Cells
    BY ViewAssumption DEF Cells
  <2> QED BY <2>1, <2>2, <2>3
<1>4. CASE Copy
  <2>1. /\ copied \in 0..(Cells - 1) /\ copied' = copied + 1
        /\ sum' = [sum EXCEPT ![IdOf(copied)] = @ + app_counters[CpuOf(copied)][IdOf(copied)]]
        /\ app_counters' = [app_counters EXCEPT ![CpuOf(copied)][IdOf(copied)] = @]
        /\ UNCHANGED <<engine, told, before>>
    BY <1>4 DEF Copy, Left
  <2>2. IdOf(copied) \in Id /\ CpuOf(copied) \in Cpu
    BY <2>1, CopiedCell
  <2>3. copied + 1 \in 0..Cells
    BY <2>1, ViewAssumption DEF Cells
  <2> QED BY <2>1, <2>2, <2>3
<1>5. CASE Answered
  BY <1>5 DEF Answered
<1>6. CASE UNCHANGED vars
  BY <1>6 DEF vars
<1> QED
  BY <1>1, <1>2, <1>3, <1>4, <1>5, <1>6 DEF Next, WriteMetrics, ShowApplications

\* What the kernel counts meanwhile is added to what is copied or to what is not.
LEMMA CountBetween ==
  ASSUME Typed, Typed', NEW i \in Id, NEW c \in Cpu, Count(c, i), NEW a \in Id, Between(a)
  PROVE  Between(a)'
<1>1. SumsTyped(a) /\ SumsTyped(a)'
  BY SumTypes, SumTypesNext
<1>2. UNCHANGED <<engine, copied, sum, told, before>> BY DEF Count
<1>3. \A d \in Cpu : /\ app_counters[d][a] \in Nat /\ app_counters'[d][a] \in Nat
                     /\ app_counters[d][a] =< app_counters'[d][a]
  BY DEF Typed, Count
<1>4. \A d \in Cpu : /\ Column(a)[d] =< Column(a)'[d] /\ Taken(a)[d] =< Taken(a)'[d]
                     /\ Rest(a)[d] =< Rest(a)'[d]
  BY <1>1, <1>2, <1>3 DEF SumsTyped
<1>5. /\ SumFunction(Column(a)) =< SumFunction(Column(a)')
      /\ SumFunction(Taken(a)) =< SumFunction(Taken(a)')
      /\ SumFunction(Rest(a)) =< SumFunction(Rest(a)')
  BY <1>1, <1>4, SumGrows DEF SumsTyped
<1> QED BY <1>1, <1>2, <1>5 DEF SumsTyped, Between

\* An answer begins with nothing copied and everything to copy.
LEMMA BeginBetween ==
  ASSUME Typed, Typed', Begin, NEW a \in Id, Between(a)
  PROVE  Between(a)'
<1>1. SumsTyped(a) /\ SumsTyped(a)'
  BY SumTypes, SumTypesNext
<1>2. /\ copied = Idle /\ copied' = 0 /\ sum'[a] = engine[a] /\ before'[a] = Total(a)
      /\ UNCHANGED <<app_counters, engine, told>>
  BY DEF Begin, First
<1>3. \A c \in Cpu : Rest(a)'[c] = Column(a)[c]
  <2>1. \A c \in Cpu : ~(Cell(a, c) < 0)
    BY CellFacts, ViewAssumption DEF Cells
  <2> QED BY <1>1, <1>2, <2>1 DEF SumsTyped
<1>4. SumFunction(Rest(a)') = SumFunction(Column(a))
  <2>1. Rest(a)' = Column(a) BY <1>1, <1>3 DEF SumsTyped
  <2> QED BY <2>1
<1> QED BY <1>1, <1>2, <1>4 DEF SumsTyped, Between, Idle

\* One counter is copied: what was to be copied is what has been.
LEMMA CopyBetween ==
  ASSUME Typed, Typed', Copy, NEW a \in Id, Between(a)
  PROVE  Between(a)'
<1> DEFINE i == IdOf(copied)
           c == CpuOf(copied)
<1>1. SumsTyped(a) /\ SumsTyped(a)'
  BY SumTypes, SumTypesNext
<1>2. /\ copied \in 0..(Cells - 1) /\ copied' = copied + 1
      /\ sum' = [sum EXCEPT ![i] = @ + app_counters[c][i]]
      /\ app_counters' = [app_counters EXCEPT ![c][i] = @]
      /\ UNCHANGED <<engine, told, before>>
  BY DEF Copy, Left
<1>3. /\ i \in Id /\ c \in Cpu /\ Cell(i, c) = copied
      /\ \A d \in Cpu : Cell(a, d) < copied' <=> Cell(a, d) < copied \/ (a = i /\ d = c)
  BY <1>2, CopiedCell
<1>4. app_counters' = app_counters
  BY <1>2, <1>3 DEF Typed
<1>5. copied \in Int /\ copied # Idle /\ copied' # Idle /\ ~(copied < copied)
  BY <1>2 DEF Idle
<1> HIDE DEF i, c
<1>6. CASE a # i
  <2>1. sum'[a] = sum[a] BY <1>2, <1>3, <1>6 DEF Typed
  <2>2. \A d \in Cpu : Taken(a)'[d] = Taken(a)[d] /\ Rest(a)'[d] = Rest(a)[d]
    BY <1>1, <1>3, <1>4, <1>6 DEF SumsTyped
  <2>3. Taken(a)' = Taken(a) /\ Rest(a)' = Rest(a)
    BY <1>1, <2>2 DEF SumsTyped
  <2> QED BY <1>2, <1>5, <2>1, <2>3 DEF Between
<1>7. CASE a = i
  <2> DEFINE n == app_counters[c][a]
  <2>1. sum'[a] = sum[a] + n /\ n \in Nat BY <1>2, <1>3, <1>7 DEF Typed
  <2>2. /\ Taken(a)[c] = 0 /\ Taken(a)'[c] = n /\ Rest(a)[c] = n /\ Rest(a)'[c] = 0
    BY <1>1, <1>3, <1>4, <1>5, <1>7 DEF SumsTyped
  <2>3. /\ \A d \in Cpu \ {c} : Taken(a)'[d] = Taken(a)[d]
        /\ \A d \in Cpu \ {c} : Rest(a)'[d] = Rest(a)[d]
    BY <1>1, <1>3, <1>4 DEF SumsTyped
  <2>4. /\ Taken(a) \in [Cpu -> Nat] /\ Taken(a)' \in [Cpu -> Nat]
        /\ Rest(a) \in [Cpu -> Nat] /\ Rest(a)' \in [Cpu -> Nat]
    BY <1>1 DEF SumsTyped
  <2> HIDE DEF n
  <2>5. SumFunction(Taken(a)') = SumFunction(Taken(a)) - Taken(a)[c] + Taken(a)'[c]
    BY <1>3, <2>3, <2>4, CpuFinite, SumUpdate
  <2>6. SumFunction(Rest(a)') = SumFunction(Rest(a)) - Rest(a)[c] + Rest(a)'[c]
    BY <1>3, <2>3, <2>4, CpuFinite, SumUpdate
  <2>7. SumFunction(Taken(a)') = SumFunction(Taken(a)) + n
        /\ SumFunction(Rest(a)) = SumFunction(Rest(a)') + n
    BY <1>1, <2>1, <2>2, <2>5, <2>6 DEF SumsTyped
  <2>8. told[a] =< before[a] /\ before[a] =< sum[a] + SumFunction(Rest(a))
        /\ sum[a] =< engine[a] + SumFunction(Taken(a))
    BY <1>5 DEF Between
  <2>9. before[a] =< sum'[a] + SumFunction(Rest(a)')
        /\ sum'[a] =< engine[a] + SumFunction(Taken(a)')
    BY <1>1, <2>1, <2>7, <2>8 DEF SumsTyped
  <2> QED BY <1>2, <1>5, <2>8, <2>9 DEF Between
<1> QED BY <1>6, <1>7

\* With all counters copied, an answer lies between the totals it began with and those
\* there are now, and is no less than the last one.
LEMMA AnswerBetween ==
  ASSUME Typed, copied = Cells, NEW a \in Id, Between(a)
  PROVE  told[a] =< before[a] /\ before[a] =< sum[a] /\ sum[a] =< Total(a)
<1>1. SumsTyped(a)
  BY SumTypes
<1>2. \A c \in Cpu : Cell(a, c) < copied
  <2>1. Cells \in Nat BY ViewAssumption DEF Cells
  <2> QED BY <2>1, CellFacts
<1>3. \A c \in Cpu : Taken(a)[c] = Column(a)[c] /\ Rest(a)[c] = 0
  BY <1>1, <1>2 DEF SumsTyped
<1>4. Taken(a) = Column(a) /\ Rest(a) = [c \in Cpu |-> 0]
  BY <1>1, <1>3 DEF SumsTyped
<1>5. SumFunction(Rest(a)) = 0
  BY <1>4, CpuFinite, SumOfZeros
<1>6. copied # Idle BY ViewAssumption DEF Cells, Idle
<1> QED BY <1>1, <1>4, <1>5, <1>6 DEF SumsTyped, Between

LEMMA Invariant == Spec => []IInv
<1>1. Init => IInv
  <2> SUFFICES ASSUME Init PROVE IInv
    OBVIOUS
  <2>1. Typed
    BY DEF Init, Typed, Zero
  <2>2. ASSUME NEW a \in Id PROVE Between(a)
    <3>1. SumsTyped(a) BY <2>1, SumTypes
    <3>2. copied = Idle /\ told[a] = 0 BY DEF Init, Zero
    <3> QED BY <3>1, <3>2 DEF SumsTyped, Between
  <2> QED BY <2>1, <2>2 DEF IInv
<1>2. IInv /\ [Next]_vars => IInv'
  <2> SUFFICES ASSUME Typed, Typed', [Next]_vars, NEW a \in Id, Between(a)
               PROVE  Between(a)'
    BY NextTyped DEF IInv
  <2>1. ASSUME NEW i \in Id, NEW c \in Cpu, Count(c, i) PROVE Between(a)'
    BY <2>1, CountBetween
  <2>2. ASSUME NEW i \in Id, Credit(i) PROVE Between(a)'
    <3>1. SumsTyped(a) /\ SumsTyped(a)' BY SumTypes, SumTypesNext
    <3>2. copied = Idle /\ engine' = [engine EXCEPT ![i] = @ + 1]
          /\ UNCHANGED <<app_counters, copied, told>>
      BY <2>2 DEF Credit
    <3>3. engine[a] =< engine'[a] BY <3>2 DEF Typed
    <3>4. Column(a)' = Column(a) BY <3>2 DEF Column
    <3> QED BY <3>1, <3>2, <3>3, <3>4 DEF SumsTyped, Between
  <2>3. CASE Begin
    BY <2>3, BeginBetween
  <2>4. CASE Copy
    BY <2>4, CopyBetween
  <2>5. CASE Answered
    <3>1. /\ copied = Cells /\ copied' = Idle /\ told' = sum
          /\ UNCHANGED <<app_counters, engine>>
      BY <2>5 DEF Answered
    <3>2. sum[a] =< Total(a) BY <3>1, AnswerBetween
    <3>3. Total(a)' = Total(a) BY <3>1 DEF Total
    <3> QED BY <3>1, <3>2, <3>3 DEF Between
  <2>6. CASE UNCHANGED vars
    BY <2>6 DEF vars, Between, Rest, Taken, Total
  <2> QED
    BY <2>1, <2>2, <2>3, <2>4, <2>5, <2>6 DEF Next, WriteMetrics, ShowApplications
<1> QED
  BY <1>1, <1>2, PTL DEF Spec

\* An answer ends in one step, which tells what was added up.
LEMMA AnswerSteps ==
  ASSUME Typed, [Next]_vars, told' # told \/ (copied = Cells /\ copied' = Idle)
  PROVE  Answered
<1>1. copied = Cells => copied # Idle
  BY ViewAssumption DEF Cells, Idle
<1>2. ~Copy
  <2>1. copied \in 0..(Cells - 1) /\ copied' = copied + 1 => copied' # Idle
    BY ViewAssumption DEF Cells, Idle
  <2> QED BY <1>1, <2>1 DEF Copy, Cells
<1> QED
  BY <1>1, <1>2 DEF Next, Count, Credit, Begin, vars, WriteMetrics, ShowApplications

\* Though no lock is held, and however the counters move while they are copied, each
\* number of an answer lies between the total it had when the answer was begun and the
\* one it has when it is given (unix_socket.c:104-129, prometheus.c:86-113).
THEOREM AnswersAreRecent == Spec => AnswerIsRecent
<1>1. IInv /\ [Next]_vars =>
        [copied = Cells /\ copied' = Idle =>
           \A a \in Id : before[a] =< told'[a] /\ told'[a] =< Total(a)]_vars
  <2> SUFFICES ASSUME IInv, [Next]_vars, copied = Cells, copied' = Idle, NEW a \in Id
               PROVE  before[a] =< told'[a] /\ told'[a] =< Total(a)
    OBVIOUS
  <2>1. told' = sum BY AnswerSteps DEF IInv, Answered
  <2> QED BY <2>1, AnswerBetween DEF IInv
<1> QED
  BY <1>1, Invariant, PTL DEF Spec, AnswerIsRecent

\* "# TYPE ... counter" (prometheus.c:123-141): from one answer to the next no number
\* falls, for any interleaving of counting and copying.
THEOREM NoCounterFalls == Spec => CountersNeverFall
<1>1. IInv /\ [Next]_vars => [\A a \in Id : told[a] =< told'[a]]_vars
  <2> SUFFICES ASSUME IInv, [Next]_vars, NEW a \in Id PROVE told[a] =< told'[a]
    OBVIOUS
  <2>1. SumsTyped(a) BY SumTypes DEF IInv
  <2>2. CASE told' = told BY <2>1, <2>2 DEF SumsTyped
  <2>3. CASE told' # told
    <3>1. copied = Cells /\ told' = sum BY <2>3, AnswerSteps DEF IInv, Answered
    <3>2. told[a] =< before[a] /\ before[a] =< sum[a] BY <3>1, AnswerBetween DEF IInv
    <3> QED BY <2>1, <3>1, <3>2 DEF SumsTyped
  <2> QED BY <2>2, <2>3
<1> QED
  BY <1>1, Invariant, PTL DEF Spec, CountersNeverFall
-----------------------------------------------------------------------------
(* The listing: ids are ordered by what was added up, and those with something to show
   are then the first ones. *)

Larger(a, b) == sum[a] > sum[b] \/ (sum[a] = sum[b] /\ a < b)

\* order holds the ids up to i, each before those it is larger than.
Sorted(i, order) ==
  /\ order \in Seq(Id) /\ Len(order) = i + 1
  /\ \A k \in 1..(i + 1) : order[k] \in 0..i
  /\ \A a \in 0..i : \E k \in 1..(i + 1) : order[k] = a
  /\ \A j, k \in 1..(i + 1) : j < k => Larger(order[j], order[k])

\* r is s with e put in behind the first n elements.
PutIn(T, s, n, e, r) ==
  /\ r \in Seq(T) /\ Len(r) = Len(s) + 1
  /\ \A k \in 1..n : r[k] = s[k]
  /\ r[n + 1] = e
  /\ \A k \in (n + 2)..(Len(s) + 1) : r[k] = s[k - 1]

LEMMA Inserted ==
  ASSUME NEW T, NEW s \in Seq(T), NEW e \in T, NEW n \in 0..Len(s)
  PROVE  PutIn(T, s, n, e, InsertAt(s, n + 1, e))
<1> DEFINE l == SubSeq(s, 1, n)
           r == SubSeq(s, n + 1, Len(s))
<1>1. Len(s) \in Nat /\ n \in Nat /\ n =< Len(s)
  OBVIOUS
<1>2. l \in Seq(T) /\ Len(l) = n /\ \A k \in 1..n : l[k] = s[k]
  BY <1>1, SubSeqProperties
<1>3. r \in Seq(T) /\ Len(r) = Len(s) - n /\ \A k \in 1..(Len(s) - n) : r[k] = s[n + k]
  BY <1>1, SubSeqProperties
<1> HIDE DEF l, r
<1>4. InsertAt(s, n + 1, e) = (l \o <<e>>) \o r
  <2>1. (n + 1) - 1 = n
    BY <1>1
  <2>2. InsertAt(s, n + 1, e) = SubSeq(s, 1, (n + 1) - 1) \o <<e>> \o SubSeq(s, n + 1, Len(s))
    BY Zenon DEF InsertAt
  <2> QED BY <2>1, <2>2, Zenon DEF l, r
<1> DEFINE m == l \o <<e>>
<1>5. m \in Seq(T) /\ Len(m) = n + 1 /\ m[n + 1] = e /\ \A k \in 1..n : m[k] = s[k]
  BY <1>1, <1>2
<1> HIDE DEF m
<1>6. /\ m \o r \in Seq(T) /\ Len(m \o r) = Len(s) + 1
      /\ \A k \in 1..(n + 1) : (m \o r)[k] = m[k]
      /\ \A k \in (n + 2)..(Len(s) + 1) : (m \o r)[k] = r[k - (n + 1)]
  BY <1>1, <1>3, <1>5
<1>7. \A k \in (n + 2)..(Len(s) + 1) : r[k - (n + 1)] = s[k - 1]
  <2> SUFFICES ASSUME NEW k \in (n + 2)..(Len(s) + 1) PROVE r[k - (n + 1)] = s[k - 1]
    OBVIOUS
  <2>1. k - (n + 1) \in 1..(Len(s) - n) /\ n + (k - (n + 1)) = k - 1
    BY <1>1
  <2> QED BY <1>3, <2>1
<1>8. InsertAt(s, n + 1, e) = m \o r
  BY <1>4 DEF m
<1>9. \A k \in 1..n : (m \o r)[k] = s[k]
  BY <1>1, <1>5, <1>6
<1>10. (m \o r)[n + 1] = e
  BY <1>1, <1>5, <1>6
<1>11. \A k \in (n + 2)..(Len(s) + 1) : (m \o r)[k] = s[k - 1]
  BY <1>6, <1>7
<1> QED
  BY <1>6, <1>8, <1>9, <1>10, <1>11 DEF PutIn

LEMMA BehindFacts ==
  ASSUME Typed, NEW order \in Seq(Id), NEW a \in Id
  PROVE  /\ Behind(order, a) \in 0..Len(order)
         /\ \A k \in 1..Len(order) : k > Behind(order, a) => sum[order[k]] < sum[a]
         /\ Behind(order, a) # 0 => sum[order[Behind(order, a)]] >= sum[a]
<1> DEFINE B == {0} \cup {i \in DOMAIN order : sum[order[i]] >= sum[a]}
<1>1. Len(order) \in Nat /\ DOMAIN order = 1..Len(order) /\ \A k \in 1..Len(order) : order[k] \in Id
  OBVIOUS
<1>2. B \in SUBSET (0..Len(order)) /\ B # {}
  BY <1>1
<1>3. \E m \in B : \A k \in B : m >= k
  <2> HIDE DEF B
  <2> QED BY <1>1, <1>2, HasGreatest
<1>4. Behind(order, a) \in B /\ \A k \in B : Behind(order, a) >= k
  BY <1>3 DEF Behind, Max
<1>5. \A k \in Id : sum[k] \in Nat
  BY DEF Typed
<1> QED
  BY <1>1, <1>2, <1>4, <1>5

\* One turn of the sort.
LEMMA SortedStep ==
  ASSUME Typed, NEW a \in Id, a # 0, NEW order, Sorted(a - 1, order)
  PROVE  Sorted(a, InsertAt(order, Behind(order, a) + 1, a))
<1> DEFINE b == Behind(order, a)
           new == InsertAt(order, b + 1, a)
<1>1. a \in Nat /\ Len(order) = a /\ order \in Seq(Id) /\ (a - 1) + 1 = a
  BY DEF Sorted, Id
<1>2. /\ b \in 0..a
      /\ \A k \in 1..a : k > b => sum[order[k]] < sum[a]
      /\ b # 0 => sum[order[b]] >= sum[a]
  BY <1>1, BehindFacts
<1>3. /\ new \in Seq(Id) /\ Len(new) = a + 1
      /\ \A k \in 1..b : new[k] = order[k]
      /\ new[b + 1] = a
      /\ \A k \in (b + 2)..(a + 1) : new[k] = order[k - 1]
  <2>1. order \in Seq(Id) /\ b \in 0..Len(order) /\ Len(order) + 1 = a + 1
    BY <1>1, <1>2
  <2> HIDE DEF b
  <2>2. PutIn(Id, order, b, a, new)
    BY <2>1, Inserted
  <2> HIDE DEF new
  <2> QED BY <2>1, <2>2 DEF PutIn
<1> HIDE DEF b, new
<1>4. /\ \A k \in 1..a : order[k] \in 0..(a - 1) /\ order[k] \in Id
      /\ \A c \in 0..(a - 1) : \E k \in 1..a : order[k] = c
      /\ \A j, k \in 1..a : j < k => Larger(order[j], order[k])
  BY <1>1 DEF Sorted
<1>5. \A c \in Id : sum[c] \in Nat
  BY DEF Typed
<1>6. ASSUME NEW k \in 1..b PROVE Larger(order[k], a)
  <2>1. k \in 1..a /\ b \in 1..a /\ order[k] \in 0..(a - 1)
    BY <1>1, <1>2, <1>4
  <2>2. sum[order[k]] \in Nat /\ sum[order[b]] \in Nat /\ sum[a] \in Nat
    BY <1>4, <1>5, <2>1
  <2>3. sum[order[k]] >= sum[order[b]]
    <3>1. CASE k = b
      BY <2>2, <3>1
    <3>2. CASE k # b
      <4>1. Larger(order[k], order[b])
        BY <1>1, <1>4, <2>1, <3>2
      <4> QED BY <2>2, <4>1 DEF Larger
    <3> QED BY <3>1, <3>2
  <2>4. sum[order[b]] >= sum[a]
    BY <1>2, <2>1
  <2>5. sum[order[k]] > sum[a] \/ sum[order[k]] = sum[a]
    BY <2>2, <2>3, <2>4
  <2>6. order[k] < a
    BY <1>1, <2>1
  <2> QED BY <2>5, <2>6 DEF Larger
<1>7. \A k \in 1..a : k > b => Larger(a, order[k])
  <2> SUFFICES ASSUME NEW k \in 1..a, k > b PROVE Larger(a, order[k])
    OBVIOUS
  <2>1. sum[order[k]] < sum[a] /\ sum[order[k]] \in Nat /\ sum[a] \in Nat
    BY <1>2, <1>4, <1>5
  <2> QED BY <2>1 DEF Larger
<1>8. \A k \in 1..(a + 1) : \/ k \in 1..b
                            \/ k = b + 1
                            \/ k \in (b + 2)..(a + 1) /\ k - 1 \in 1..a /\ k - 1 > b
  BY <1>1, <1>2
<1>9. ASSUME NEW k \in 1..(a + 1) PROVE new[k] \in 0..a
  <2>1. CASE k \in 1..b
    <3>1. k \in 1..a BY <1>1, <1>2, <2>1
    <3>2. new[k] = order[k] /\ order[k] \in 0..(a - 1) BY <1>3, <1>4, <2>1, <3>1
    <3> QED BY <1>1, <3>2
  <2>2. CASE k = b + 1
    BY <1>1, <1>3, <2>2
  <2>3. CASE k \in (b + 2)..(a + 1) /\ k - 1 \in 1..a
    <3>1. new[k] = order[k - 1] /\ order[k - 1] \in 0..(a - 1) BY <1>3, <1>4, <2>3
    <3> QED BY <1>1, <3>1
  <2> QED BY <1>8, <2>1, <2>2, <2>3
<1>10. ASSUME NEW c \in 0..a PROVE \E k \in 1..(a + 1) : new[k] = c
  <2>1. CASE c = a
    BY <1>1, <1>2, <1>3, <2>1
  <2>2. CASE c # a
    <3>1. PICK k \in 1..a : order[k] = c
      BY <1>1, <1>4, <2>2
    <3>2. CASE k =< b
      <4>1. k \in 1..b /\ k \in 1..(a + 1)
        BY <1>1, <1>2, <3>2
      <4> QED BY <1>3, <3>1, <4>1
    <3>3. CASE k > b
      <4>1. k + 1 \in (b + 2)..(a + 1) /\ k + 1 \in 1..(a + 1) /\ (k + 1) - 1 = k
        BY <1>1, <1>2, <3>3
      <4> QED BY <1>3, <3>1, <4>1
    <3> QED BY <1>2, <3>2, <3>3
  <2> QED BY <2>1, <2>2
<1>11. ASSUME NEW j \in 1..(a + 1), NEW k \in 1..(a + 1), j < k PROVE Larger(new[j], new[k])
  <2>1. CASE j \in 1..b /\ k \in 1..b
    <3>1. j \in 1..a /\ k \in 1..a
      BY <1>1, <1>2, <2>1
    <3> QED BY <1>3, <1>4, <1>11, <2>1, <3>1
  <2>2. CASE j \in 1..b /\ k = b + 1
    BY <1>3, <1>6, <2>2
  <2>3. CASE j \in 1..b /\ k \in (b + 2)..(a + 1)
    <3>1. j \in 1..a /\ k - 1 \in 1..a /\ j < k - 1
      BY <1>1, <1>2, <2>3
    <3> QED BY <1>3, <1>4, <2>3, <3>1
  <2>4. CASE j = b + 1 /\ k \in (b + 2)..(a + 1)
    <3>1. k - 1 \in 1..a /\ k - 1 > b
      BY <1>1, <1>2, <2>4
    <3> QED BY <1>3, <1>7, <2>4, <3>1
  <2>5. CASE j \in (b + 2)..(a + 1) /\ k \in (b + 2)..(a + 1)
    <3>1. j - 1 \in 1..a /\ k - 1 \in 1..a /\ j - 1 < k - 1
      BY <1>1, <1>2, <1>11, <2>5
    <3> QED BY <1>3, <1>4, <2>5, <3>1
  <2> QED BY <1>2, <1>8, <1>11, <2>1, <2>2, <2>3, <2>4, <2>5
<1> QED
  BY <1>3, <1>9, <1>10, <1>11 DEF Sorted, b, new

LEMMA OrderSorted == Typed => Sorted(Apps - 1, Order)
<1> SUFFICES ASSUME Typed PROVE Sorted(Apps - 1, Order)
  OBVIOUS
<1> DEFINE n == Apps - 1
           Step(order, a) == InsertAt(order, Behind(order, a) + 1, a)
           Eq(f) == f = [a \in Id |-> IF a = 0 THEN <<0>> ELSE Step(f[a - 1], a)]
           sorted == CHOOSE f : Eq(f)
           step == [a \in 1..n |-> [order \in Seq(Id) |-> Step(order, a)]]
<1>1. n \in Nat /\ Id = 0..n /\ 0 \in Id /\ n \in Id
  BY ViewAssumption DEF Id
<1>2. step \in [1..n -> [Seq(Id) -> Seq(Id)]]
  <2> SUFFICES ASSUME NEW a \in 1..n, NEW order \in Seq(Id) PROVE Step(order, a) \in Seq(Id)
    OBVIOUS
  <2>1. a \in Id BY <1>1
  <2>2. Behind(order, a) \in 0..Len(order) BY <2>1, BehindFacts
  <2> QED BY <2>1, <2>2, Inserted DEF PutIn
<1>3. <<0>> \in Seq(Id)
  BY <1>1
<1>4. PICK f \in [0..n -> Seq(Id)] : f[0] = <<0>> /\ \A a \in 1..n : f[a] = step[a][f[a - 1]]
  <2> DEFINE T == Seq(Id)
             base == <<0>>
  <2>1. IsCountdown(T, n, base, step) BY <1>1, <1>2, <1>3 DEF IsCountdown
  <2> HIDE DEF n, step, T, base
  <2>2. \E f : CountsDown(T, n, base, step, f)
    BY <2>1, Countdown
  <2> QED BY <2>2 DEF CountsDown, T, base
<1>5. Eq(f)
  <2>1. ASSUME NEW a \in Id, a # 0 PROVE f[a] = Step(f[a - 1], a)
    <3>1. a \in 1..n /\ a - 1 \in 0..n BY <1>1, <2>1
    <3>2. f[a - 1] \in Seq(Id) BY <3>1
    <3> HIDE DEF Step
    <3> QED BY <1>4, <3>1, <3>2
  <2>2. f \in [Id -> Seq(Id)] BY <1>1
  <2> HIDE DEF Step
  <2> QED BY <1>4, <2>1, <2>2
<1>6. Eq(sorted)
  <2> HIDE DEF Eq
  <2> QED BY <1>5
<1>7. sorted[0] = <<0>> /\ \A a \in Id : a # 0 => sorted[a] = Step(sorted[a - 1], a)
  <2> HIDE DEF Step, sorted
  <2> QED BY <1>1, <1>6
<1> HIDE DEF sorted, Step
<1> DEFINE G == {a \in Nat : a \in Id => Sorted(a, sorted[a])}
<1>8. 0 \in G
  <2>1. <<0>> \in Seq(Id) /\ Len(<<0>>) = 1 /\ <<0>>[1] = 0 BY <1>1
  <2>2. Sorted(0, <<0>>) BY <2>1 DEF Sorted
  <2> QED BY <1>7, <2>2
<1>9. ASSUME NEW a \in Nat, a \in G PROVE a + 1 \in G
  <2>1. SUFFICES ASSUME a + 1 \in Id PROVE Sorted(a + 1, sorted[a + 1])
    OBVIOUS
  <2>2. a \in Id /\ a + 1 # 0 /\ (a + 1) - 1 = a BY <1>1, <2>1
  <2>3. Sorted((a + 1) - 1, sorted[a]) BY <1>9, <2>2
  <2>4. Sorted(a + 1, Step(sorted[a], a + 1)) BY <2>1, <2>2, <2>3, SortedStep DEF Step
  <2> QED BY <1>7, <2>1, <2>2, <2>4
<1>10. n \in G
  <2> HIDE DEF G, n
  <2> QED BY <1>1, <1>8, <1>9, Induction
<1>11. Sorted(n, sorted[n])
  BY <1>1, <1>10
<1>12. Order = sorted[n]
  BY DEF Order, sorted, Step
<1> QED BY <1>11, <1>12

LEMMA MinOfTwo == \A m, n \in Nat : Min({m, n}) = IF m =< n THEN m ELSE n
<1> SUFFICES ASSUME NEW m \in Nat, NEW n \in Nat PROVE Min({m, n}) = IF m =< n THEN m ELSE n
  OBVIOUS
<1>1. \E x \in {m, n} : \A y \in {m, n} : x =< y
  OBVIOUS
<1>2. Min({m, n}) \in {m, n} /\ \A y \in {m, n} : Min({m, n}) =< y
  BY <1>1 DEF Min
<1> QED BY <1>2

\* What is known of the order, without the sort.
OrderFacts ==
  /\ Order \in Seq(Id) /\ Len(Order) = Apps
  /\ \A k \in 1..Apps : Order[k] \in Id /\ sum[Order[k]] \in Nat
  /\ \A a \in Id : \E k \in 1..Apps : Order[k] = a
  /\ \A j, k \in 1..Apps : j < k => Larger(Order[j], Order[k])

LEMMA OrderIsSorted == Typed => OrderFacts
<1> SUFFICES ASSUME Typed PROVE OrderFacts
  OBVIOUS
<1>1. Apps \in Nat \ {0} /\ (Apps - 1) + 1 = Apps /\ Id = 0..(Apps - 1)
  BY ViewAssumption DEF Id
<1>2. Sorted(Apps - 1, Order)
  BY OrderSorted
<1>3. /\ Order \in Seq(Id) /\ Len(Order) = Apps
      /\ \A k \in 1..Apps : Order[k] \in Id
      /\ \A a \in Id : \E k \in 1..Apps : Order[k] = a
      /\ \A j, k \in 1..Apps : j < k => Larger(Order[j], Order[k])
  BY <1>1, <1>2 DEF Sorted
<1>4. \A a \in Id : sum[a] \in Nat
  BY DEF Typed
<1> QED BY <1>3, <1>4 DEF OrderFacts

\* The first z ids of the order are those with something to show.
Shown(z) == z \in 0..Apps /\ \A k \in 1..Apps : sum[Order[k]] > 0 <=> k =< z

LEMMA SomeShown == OrderFacts => \E z : Shown(z)
<1> SUFFICES ASSUME OrderFacts PROVE \E z : Shown(z)
  OBVIOUS
<1> DEFINE B == {0} \cup {k \in 1..Apps : sum[Order[k]] > 0}
<1>1. Apps \in Nat /\ B \in SUBSET (0..Apps) /\ B # {}
  BY ViewAssumption
<1>2. \E z \in B : \A k \in B : z >= k
  <2> HIDE DEF B
  <2> QED BY <1>1, HasGreatest
<1>3. PICK z \in B : \A k \in B : z >= k
  BY <1>2
<1>4. ASSUME NEW k \in 1..Apps PROVE sum[Order[k]] > 0 <=> k =< z
  <2>1. sum[Order[k]] > 0 => k =< z
    BY <1>3
  <2>2. ASSUME k =< z PROVE sum[Order[k]] > 0
    <3>1. z \in 1..Apps /\ sum[Order[z]] > 0
      BY <1>1, <1>3, <2>2
    <3>2. CASE k = z
      BY <3>1, <3>2
    <3>3. CASE k < z
      <4>1. Larger(Order[k], Order[z])
        BY <3>1, <3>3 DEF OrderFacts
      <4>2. sum[Order[k]] \in Nat /\ sum[Order[z]] \in Nat
        BY <3>1 DEF OrderFacts
      <4> QED BY <3>1, <4>1, <4>2 DEF Larger
    <3> QED BY <1>1, <2>2, <3>1, <3>2, <3>3
  <2> QED BY <2>1, <2>2
<1> QED BY <1>1, <1>3, <1>4 DEF Shown

\* rows are the first m ids of the order.
FirstRows(m, rows) ==
  rows \in Seq(Id) /\ Len(rows) = m /\ \A k \in 1..m : rows[k] = Order[k]

\* The least of the turns, the rows asked for and what there is to show.
Fewest(i, n, z) == IF n =< z THEN IF i =< n THEN i ELSE n ELSE IF i =< z THEN i ELSE z

LEMMA RowsAreFirst ==
  ASSUME OrderFacts, NEW n \in Nat, NEW z, Shown(z)
  PROVE  FirstRows(IF n =< z THEN n ELSE z, Rows(n))
<1> DEFINE Step(shown, i) ==
             IF Len(shown) < n /\ sum[Order[i]] > 0 THEN Append(shown, Order[i]) ELSE shown
           Eq(f) == f = [i \in 0..Apps |-> IF i = 0 THEN <<>> ELSE Step(f[i - 1], i)]
           rows == CHOOSE f : Eq(f)
           step == [i \in 1..Apps |-> [shown \in Seq(Id) |-> Step(shown, i)]]
<1>1. Apps \in Nat /\ z \in Nat /\ z =< Apps
  BY ViewAssumption DEF Shown
<1>2. step \in [1..Apps -> [Seq(Id) -> Seq(Id)]]
  BY DEF OrderFacts
<1>3. PICK f \in [0..Apps -> Seq(Id)] :
        f[0] = <<>> /\ \A i \in 1..Apps : f[i] = step[i][f[i - 1]]
  <2> DEFINE T == Seq(Id)
             base == <<>>
  <2>1. IsCountdown(T, Apps, base, step)
    BY <1>1, <1>2 DEF IsCountdown
  <2> HIDE DEF step, T, base
  <2>2. \E f : CountsDown(T, Apps, base, step, f)
    BY <2>1, Countdown
  <2> QED BY <2>2 DEF CountsDown, T, base
<1>4. Eq(f)
  <2>1. ASSUME NEW i \in 0..Apps, i # 0 PROVE f[i] = Step(f[i - 1], i)
    <3>1. i \in 1..Apps /\ i - 1 \in 0..Apps /\ f[i - 1] \in Seq(Id) BY <1>1, <2>1
    <3> HIDE DEF Step
    <3> QED BY <1>3, <3>1
  <2> HIDE DEF Step
  <2> QED BY <1>3, <2>1
<1>5. Eq(rows)
  <2> HIDE DEF Eq
  <2> QED BY <1>4
<1>6. rows[0] = <<>> /\ \A i \in 1..Apps : rows[i] = Step(rows[i - 1], i)
  <2> HIDE DEF Step, rows
  <2> QED BY <1>1, <1>5
<1>7. Rows(n) = rows[Apps]
  BY DEF Rows
<1> HIDE DEF rows
<1> DEFINE G == {i \in Nat : i =< Apps => FirstRows(Fewest(i, n, z), rows[i])}
<1>8. 0 \in G
  <2>1. Fewest(0, n, z) = 0 BY <1>1 DEF Fewest
  <2>2. rows[0] \in Seq(Id) /\ Len(rows[0]) = 0
    <3>1. <<>> \in Seq(Id) /\ Len(<<>>) = 0 OBVIOUS
    <3> QED BY <1>6, <3>1
  <2>3. FirstRows(0, rows[0]) BY <2>2 DEF FirstRows
  <2> QED BY <2>1, <2>3
<1>9. ASSUME NEW i \in Nat, i \in G PROVE i + 1 \in G
  <2>1. SUFFICES ASSUME i + 1 =< Apps PROVE FirstRows(Fewest(i + 1, n, z), rows[i + 1])
    OBVIOUS
  <2> DEFINE m == Fewest(i, n, z)
             a == Order[i + 1]
  <2>2. i + 1 \in 1..Apps /\ (i + 1) - 1 = i /\ i =< Apps
    BY <1>1, <2>1
  <2>3. /\ rows[i] \in Seq(Id) /\ Len(rows[i]) = m
        /\ \A k \in 1..m : rows[i][k] = Order[k]
    BY <1>9, <2>2 DEF FirstRows
  <2>4. rows[i + 1] = Step(rows[i], i + 1)
    <3> HIDE DEF Step
    <3> QED BY <1>6, <2>2
  <2>5. a \in Id /\ (sum[a] > 0 <=> i + 1 =< z)
    BY <2>2 DEF Shown, OrderFacts
  <2>6. CASE m < n /\ i + 1 =< z
    <3>1. Fewest(i + 1, n, z) = i + 1 /\ m = i
      BY <1>1, <2>6 DEF Fewest
    <3>2. rows[i + 1] = Append(rows[i], a)
      BY <2>3, <2>4, <2>5, <2>6
    <3>3. /\ Append(rows[i], a) \in Seq(Id) /\ Len(Append(rows[i], a)) = i + 1
          /\ \A k \in 1..i : Append(rows[i], a)[k] = rows[i][k]
          /\ Append(rows[i], a)[i + 1] = a
      BY <2>3, <2>5, <3>1, AppendProperties
    <3>4. \A k \in 1..(i + 1) : Append(rows[i], a)[k] = Order[k]
      BY <2>3, <3>1, <3>3
    <3> QED BY <3>1, <3>2, <3>3, <3>4 DEF FirstRows
  <2>7. CASE ~(m < n /\ i + 1 =< z)
    <3>1. Fewest(i + 1, n, z) = m
      BY <1>1, <2>7 DEF Fewest
    <3>2. rows[i + 1] = rows[i]
      BY <2>3, <2>4, <2>5, <2>7
    <3> QED BY <2>3, <3>1, <3>2 DEF FirstRows
  <2> QED BY <2>6, <2>7
<1>10. Apps \in G
  <2> HIDE DEF G
  <2> QED BY <1>1, <1>8, <1>9, Induction
<1>11. Fewest(Apps, n, z) = IF n =< z THEN n ELSE z
  BY <1>1 DEF Fewest
<1> QED BY <1>1, <1>7, <1>10, <1>11

LEMMA ShownCount ==
  ASSUME OrderFacts, NEW z, Shown(z)
  PROVE  Cardinality({a \in Id : sum[a] > 0}) = z
<1> DEFINE N == {a \in Id : sum[a] > 0}
           f == [k \in 1..z |-> Order[k]]
<1>1. Apps \in Nat /\ z \in Nat /\ z =< Apps
  BY ViewAssumption DEF Shown
<1>2. f \in [1..z -> N]
  BY <1>1 DEF Shown, OrderFacts
<1>3. ASSUME NEW j \in 1..z, NEW k \in 1..z, j < k PROVE f[j] # f[k]
  <2>1. j \in 1..Apps /\ k \in 1..Apps /\ Order[j] \in Id BY <1>1
        DEF OrderFacts
  <2>2. Larger(Order[j], Order[k]) BY <1>3, <2>1 DEF OrderFacts
  <2>3. sum[Order[j]] \in Nat BY <2>1 DEF OrderFacts
  <2>4. ~Larger(Order[j], Order[j]) BY <2>1, <2>3 DEF Larger, Id
  <2> QED BY <2>2, <2>4
<1>4. \A a \in N : \E k \in 1..z : f[k] = a
  <2> SUFFICES ASSUME NEW a \in N PROVE \E k \in 1..z : f[k] = a
    OBVIOUS
  <2>1. PICK k \in 1..Apps : Order[k] = a BY DEF OrderFacts
  <2>2. k \in 1..z BY <1>1, <2>1 DEF Shown
  <2> QED BY <2>1, <2>2
<1>5. \A j, k \in 1..z : f[j] = f[k] => j = k
  <2> HIDE DEF f
  <2> QED BY <1>1, <1>3
<1> HIDE DEF f, N
<1>6. f \in Bijection(1..z, N)
  <2>1. f \in Injection(1..z, N) BY <1>2, <1>5 DEF Injection, IsInjective
  <2>2. f \in Surjection(1..z, N) BY <1>2, <1>4 DEF Surjection
  <2> QED BY <2>1, <2>2 DEF Bijection
<1>7. IsFiniteSet(1..z) /\ Cardinality(1..z) = z
  <2>1. 1 \in Int /\ z \in Int BY <1>1
  <2>2. IsFiniteSet(1..z) /\ Cardinality(1..z) = IF 1 > z THEN 0 ELSE z - 1 + 1
    BY <2>1, FS_Interval
  <2> QED BY <1>1, <2>2
<1>8. Cardinality(N) = z
  BY <1>6, <1>7, FS_Bijection DEF ExistsBijection
<1> QED BY <1>8 DEF N

LEMMA ShowsTop ==
  ASSUME Typed, NEW n \in Top, ShowApplications(n)
  PROVE  ListingOnTop'
<1>1. OrderFacts BY OrderIsSorted
<1>2. PICK z : Shown(z) BY <1>1, SomeShown
<1> DEFINE m == IF n =< z THEN n ELSE z
           N == {a \in Id : sum[a] > 0}
           rows == Rows(n)
<1>3. n \in Nat /\ z \in Nat /\ z =< Apps /\ Apps \in Nat /\ m \in Nat /\ m =< z
  BY <1>2, ViewAssumption DEF Shown
<1>4. FirstRows(m, rows) BY <1>1, <1>2, <1>3, RowsAreFirst
<1>5. Cardinality(N) = z BY <1>1, <1>2, ShownCount
<1>6. told' = sum /\ listing' = [limit |-> n, rows |-> rows]
  BY DEF ShowApplications, Answered
<1>7. m = Min({n, Cardinality(N)}) BY <1>3, <1>5, MinOfTwo
<1> HIDE DEF m, rows
<1>8. Len(rows) = m /\ \A k \in 1..m : rows[k] = Order[k] /\ k \in 1..Apps /\ rows[k] \in N
  <2> SUFFICES ASSUME NEW k \in 1..m PROVE rows[k] = Order[k] /\ k \in 1..Apps /\ rows[k] \in N
    BY <1>4 DEF FirstRows
  <2>1. k \in 1..Apps /\ k =< z BY <1>3
  <2>2. rows[k] = Order[k] BY <1>4 DEF FirstRows
  <2> QED BY <1>1, <1>2, <2>1, <2>2 DEF Shown, OrderFacts
<1>9. ASSUME NEW i \in 1..m, NEW b \in N, \A j \in 1..i : rows[j] # b
      PROVE  Larger(rows[i], b)
  <2>1. PICK k \in 1..Apps : Order[k] = b BY <1>1 DEF OrderFacts
  <2>2. \A j \in 1..i : j \in 1..m BY <1>3
  <2>3. ~(k =< i)
    <3>1. SUFFICES ASSUME k =< i PROVE FALSE OBVIOUS
    <3>2. k \in 1..i BY <3>1
    <3> QED BY <1>8, <1>9, <2>1, <2>2, <3>2
  <2>4. i < k BY <1>3, <2>3
  <2> QED BY <1>1, <1>8, <2>1, <2>4 DEF OrderFacts
<1> DEFINE told2 == told'
           listing2 == listing'
<1>10. /\ Len(listing2.rows) = Min({listing2.limit, Cardinality({a \in Id : told2[a] > 0})})
       /\ \A i \in 1..Len(listing2.rows) :
            /\ listing2.rows[i] \in {a \in Id : told2[a] > 0}
            /\ \A b \in {a \in Id : told2[a] > 0} \ {listing2.rows[j] : j \in 1..i} :
                 \/ told2[listing2.rows[i]] > told2[b]
                 \/ told2[listing2.rows[i]] = told2[b] /\ listing2.rows[i] < b
  <2>1. listing2.rows = rows /\ listing2.limit = n /\ told2 = sum BY <1>6
  <2> HIDE DEF told2, listing2
  <2>2. Len(rows) = Min({n, Cardinality(N)}) BY <1>7, <1>8
  <2>3. ASSUME NEW i \in 1..Len(rows), NEW b \in N \ {rows[j] : j \in 1..i}
        PROVE  sum[rows[i]] > sum[b] \/ (sum[rows[i]] = sum[b] /\ rows[i] < b)
    <3>1. i \in 1..m /\ b \in N /\ \A j \in 1..i : rows[j] # b BY <1>8, <2>3
    <3>2. Larger(rows[i], b) BY <1>9, <3>1
    <3> QED BY <3>2 DEF Larger
  <2>4. \A i \in 1..Len(rows) : rows[i] \in N BY <1>8
  <2>5. {a \in Id : told2[a] > 0} = N BY <2>1
  <2>6. Len(listing2.rows) = Min({listing2.limit, Cardinality({a \in Id : told2[a] > 0})})
    <3> HIDE DEF N
    <3> QED BY <2>1, <2>2, <2>5
  <2>7. ASSUME NEW i \in 1..Len(listing2.rows)
        PROVE  /\ listing2.rows[i] \in {a \in Id : told2[a] > 0}
               /\ \A b \in {a \in Id : told2[a] > 0} \ {listing2.rows[j] : j \in 1..i} :
                    \/ told2[listing2.rows[i]] > told2[b]
                    \/ told2[listing2.rows[i]] = told2[b] /\ listing2.rows[i] < b
    <3> HIDE DEF N
    <3>1. i \in 1..Len(rows) BY <2>1
    <3>2. listing2.rows[i] \in {a \in Id : told2[a] > 0} BY <2>1, <2>4, <2>5, <3>1
    <3>3. ASSUME NEW b \in {a \in Id : told2[a] > 0} \ {listing2.rows[j] : j \in 1..i}
          PROVE  \/ told2[listing2.rows[i]] > told2[b]
                 \/ told2[listing2.rows[i]] = told2[b] /\ listing2.rows[i] < b
      <4>1. b \in N \ {rows[j] : j \in 1..i} BY <2>1, <2>5
      <4> QED BY <2>1, <2>3, <3>1, <4>1
    <3> QED BY <3>2, <3>3
  <2> QED BY <2>6, <2>7
<1> QED BY <1>10 DEF ListingOnTop

\* A listing shows as many applications as it may, in the order of the numbers told with
\* it, and none that it leaves out is ahead of one it shows: for any applications, numbers
\* and limits, whatever is counted while it is put together (unix_socket.c:136-164).
THEOREM ListingsAreOnTop == Spec => []ListingOnTop
<1> DEFINE Inv == ListingOnTop /\ (copied # Idle => listing = NoListing)
<1>1. listing = NoListing => ListingOnTop
  <2> SUFFICES ASSUME listing = NoListing PROVE ListingOnTop
    OBVIOUS
  <2> DEFINE N == {a \in Id : told[a] > 0}
  <2>1. Cardinality(N) \in Nat
    <3>1. IsFiniteSet(Id)
      <4>1. 0 \in Int /\ Apps - 1 \in Int BY ViewAssumption
      <4> QED BY <4>1, FS_Interval DEF Id
    <3>2. IsFiniteSet(N) BY <3>1, FS_Subset
    <3> HIDE DEF N
    <3> QED BY <3>2, FS_CardinalityType
  <2> HIDE DEF N
  <2>2. Min({0, Cardinality(N)}) = 0 BY <2>1, MinOfTwo
  <2>3. Len(<<>>) = 0 /\ \A i \in 1..0 : FALSE OBVIOUS
  <2>4. listing.rows = <<>> /\ listing.limit = 0 BY DEF NoListing
  <2>5. Len(listing.rows) = Min({listing.limit, Cardinality(N)}) /\ Len(listing.rows) = 0
    BY <2>2, <2>3, <2>4
  <2> QED BY <2>3, <2>5 DEF ListingOnTop, N
<1>2. (listing = NoListing => ListingOnTop)'
  BY <1>1, PTL
<1>3. Init => Inv
  BY <1>1 DEF Init
<1>4. IInv /\ Inv /\ [Next]_vars => Inv'
  <2> SUFFICES ASSUME Typed, Inv, [Next]_vars PROVE Inv'
    BY DEF IInv
  <2>1. CASE UNCHANGED <<copied, told, listing>>
    BY <2>1 DEF ListingOnTop, Idle, NoListing
  <2>2. CASE Begin
    <3>1. copied' # Idle /\ listing' = NoListing BY <2>2 DEF Begin, Idle
    <3> QED BY <1>2, <3>1
  <2>3. CASE Copy
    <3>1. copied' # Idle /\ copied # Idle /\ listing' = listing
      BY <2>3, ViewAssumption DEF Copy, Idle, Cells
    <3> QED BY <1>2, <3>1 DEF NoListing
  <2>4. ASSUME copied = Cells PROVE copied # Idle
    BY <2>4, ViewAssumption DEF Idle, Cells
  <2>5. CASE WriteMetrics
    <3>1. copied' = Idle /\ listing' = NoListing
      BY <2>4, <2>5 DEF WriteMetrics, Answered
    <3> QED BY <1>2, <3>1
  <2>6. ASSUME NEW n \in Top, ShowApplications(n) PROVE Inv'
    <3>1. copied' = Idle BY <2>6 DEF ShowApplications, Answered
    <3> QED BY <2>6, <3>1, ShowsTop
  <2> QED BY <2>1, <2>2, <2>3, <2>5, <2>6 DEF Next, Count, Credit, vars
<1> QED
  BY <1>3, <1>4, Invariant, PTL DEF Spec
=============================================================================
