-------------------------- MODULE RecursionTheorems --------------------------
(***************************************************************************)
(* Facts about recursive functions.  Such a function is one that is chosen *)
(* among the solutions of its equation, so that there is one is shown      *)
(* first.  Inductions have the property given as a set.                    *)
(*                                                                         *)
(* Then about SumFunction and SumFunctionOnSet, by which the properties    *)
(* add up counters: sums of natural numbers over finite sets.  A sum is    *)
(* tied to the size of a set of pairs, F[x] of them for each x, which      *)
(* gives the recursive definition its value for every argument.            *)
(***************************************************************************)
EXTENDS Functions, FiniteSetTheorems, TLAPS

\* Induction on a finite set, with the property given as the set G of those that
\* have it: T has it if what is left without any one element has it.
LEMMA SetInduction ==
  ASSUME NEW S, IsFiniteSet(S), NEW G,
         \A T \in SUBSET S : (\A x \in T : T \ {x} \in G) => T \in G
  PROVE  S \in G
<1> DEFINE Bad == {T \in SUBSET S : T \notin G}
           Sizes == {Cardinality(T) : T \in Bad}
<1>1. \A T \in SUBSET S : IsFiniteSet(T) /\ Cardinality(T) \in Nat
  BY FS_Subset, FS_CardinalityType
<1>2. Sizes \subseteq Nat
  BY <1>1
<1>3. SUFFICES ASSUME S \notin G PROVE FALSE
  OBVIOUS
<1>4. Sizes # {}
  BY <1>3
<1>5. PICK m \in Sizes : \A n \in Sizes : ~(<<n, m>> \in OpToRel(<, Nat))
  BY <1>2, <1>4, WFMin, NatLessThanWellFounded
<1>6. PICK T \in Bad : Cardinality(T) = m
  OBVIOUS
<1>7. PICK x \in T : T \ {x} \notin G
  BY <1>6
<1>8. Cardinality(T \ {x}) = m - 1 /\ m \in Nat /\ Cardinality(T \ {x}) \in Nat
  BY <1>1, <1>6, <1>7, FS_RemoveElement
<1>9. T \ {x} \in Bad
  BY <1>7
<1>10. m - 1 \in Sizes
  BY <1>8, <1>9
<1>11. <<m - 1, m>> \in OpToRel(<, Nat)
  BY <1>8 DEF OpToRel
<1> QED
  BY <1>5, <1>10, <1>11

\* Induction on the natural numbers, with the property given as a set.
LEMMA Induction ==
  ASSUME NEW G, 0 \in G, \A n \in Nat : n \in G => n + 1 \in G
  PROVE  \A n \in Nat : n \in G
<1> DEFINE Bad == {n \in Nat : n \notin G}
<1>1. SUFFICES ASSUME Bad # {} PROVE FALSE
  OBVIOUS
<1>2. PICK m \in Bad : \A n \in Bad : ~(<<n, m>> \in OpToRel(<, Nat))
  BY <1>1, WFMin, NatLessThanWellFounded
<1>3. m \in Nat /\ m # 0 /\ m - 1 \in Nat /\ m - 1 < m /\ (m - 1) + 1 = m
  OBVIOUS
<1>4. m - 1 \in Bad
  BY <1>3
<1>5. <<m - 1, m>> \in OpToRel(<, Nat)
  BY <1>3 DEF OpToRel
<1> QED
  BY <1>2, <1>4, <1>5

\* A function on S can be iterated, from any point of S.
LEMMA Iterated ==
  ASSUME NEW S, NEW x \in S, NEW f \in [S -> S]
  PROVE  \E g \in [Nat -> S] : g[0] = x /\ \A n \in Nat : g[n + 1] = f[g[n]]
<1> DEFINE Run(n) == {h \in [0..n -> S] : h[0] = x /\ \A i \in 0..n : i < n => h[i + 1] = f[h[i]]}
           Runs == {n \in Nat : Run(n) # {}}
<1>1. 0 \in Runs
  <2>1. [i \in 0..0 |-> x] \in Run(0)
    OBVIOUS
  <2> QED BY <2>1
<1>2. ASSUME NEW n \in Nat, n \in Runs PROVE n + 1 \in Runs
  <2>1. PICK h \in Run(n) : TRUE
    BY <1>2
  <2> DEFINE l == [i \in 0..(n + 1) |-> IF i = n + 1 THEN f[h[n]] ELSE h[i]]
  <2>2. h \in [0..n -> S] /\ h[n] \in S /\ f[h[n]] \in S
    BY <2>1
  <2>3. l \in [0..(n + 1) -> S] /\ l[0] = x
    BY <2>1, <2>2
  <2>4. ASSUME NEW i \in 0..(n + 1), i < n + 1 PROVE l[i + 1] = f[l[i]]
    <3>1. CASE i = n
      BY <2>2, <3>1
    <3>2. CASE i # n
      BY <2>1, <2>4, <3>2
    <3> QED BY <3>1, <3>2
  <2>5. l \in Run(n + 1)
    BY <2>3, <2>4
  <2> QED BY <2>5
<1>3. \A n \in Nat : Run(n) # {}
  <2> HIDE DEF Run
  <2>1. \A n \in Nat : n \in Runs
    <3> HIDE DEF Runs
    <3> QED BY <1>1, <1>2, Induction
  <2> QED BY <2>1
<1> DEFINE Same == {n \in Nat : \A m \in Nat : \A h \in Run(n) : \A l \in Run(m) :
                                  n =< m => h[n] = l[n]}
<1>4. 0 \in Same
  OBVIOUS
<1>5. ASSUME NEW n \in Nat, n \in Same PROVE n + 1 \in Same
  <2>1. SUFFICES ASSUME NEW m \in Nat, NEW h \in Run(n + 1), NEW l \in Run(m), n + 1 =< m
                 PROVE  h[n + 1] = l[n + 1]
    <3> HIDE DEF Run
    <3> QED OBVIOUS
  <2>2. [i \in 0..n |-> h[i]] \in Run(n)
    BY <2>1
  <2>3. [i \in 0..n |-> h[i]][n] = l[n]
    <3> HIDE DEF Run
    <3> QED BY <1>5, <2>1, <2>2
  <2>4. h[n] = l[n]
    BY <2>3
  <2>5. h[n + 1] = f[h[n]] /\ l[n + 1] = f[l[n]]
    BY <2>1
  <2> QED BY <2>4, <2>5
<1>6. \A n \in Nat : n \in Same
  <2> HIDE DEF Same
  <2> QED BY <1>4, <1>5, Induction
<1> DEFINE r(n) == CHOOSE h \in Run(n) : TRUE
           g == [n \in Nat |-> r(n)[n]]
<1>7. \A n \in Nat : r(n) \in Run(n)
  <2> HIDE DEF Run
  <2> QED BY <1>3
<1>8. g \in [Nat -> S] /\ g[0] = x
  <2> HIDE DEF r
  <2> QED BY <1>7
<1>9. ASSUME NEW n \in Nat PROVE g[n + 1] = f[g[n]]
  <2> HIDE DEF r
  <2>1. r(n + 1) \in Run(n + 1) /\ r(n) \in Run(n)
    <3> HIDE DEF Run
    <3>1. n + 1 \in Nat
      OBVIOUS
    <3> QED BY <1>7, <3>1
  <2>2. r(n)[n] = r(n + 1)[n]
    <3> HIDE DEF Run
    <3> QED BY <1>6, <2>1
  <2>3. r(n + 1)[n + 1] = f[r(n + 1)[n]]
    BY <2>1
  <2> QED BY <2>2, <2>3
<1> QED
  BY <1>8, <1>9

\* A recursion on S with results in T: where it stops with which result, where it goes
\* next, and what it does with the result on the way back.  Each step brings it nearer to
\* its end.
IsRecursion(S, T, stop, next, out, with, left) ==
  /\ stop \in [S -> BOOLEAN] /\ next \in [S -> S] /\ out \in [S -> T]
  /\ with \in [S -> [T -> T]] /\ left \in [S -> Nat]
  /\ \A x \in S : ~stop[x] => left[next[x]] < left[x]

\* There is a function that solves it.
LEMMA Recursion ==
  ASSUME NEW S, NEW T, NEW stop, NEW next, NEW out, NEW with, NEW left,
         IsRecursion(S, T, stop, next, out, with, left)
  PROVE  \E f \in [S -> T] :
           \A x \in S : f[x] = IF stop[x] THEN out[x] ELSE with[x][f[next[x]]]
<1> DEFINE G(h) == [x \in S |-> IF stop[x] THEN out[x] ELSE with[x][h[next[x]]]]
           F == [h \in [S -> T] |-> G(h)]
<1>1. ASSUME NEW h \in [S -> T] PROVE G(h) \in [S -> T]
  <2>1. \A x \in S : with[x] \in [T -> T] /\ h[next[x]] \in T /\ out[x] \in T
    BY DEF IsRecursion
  <2>2. \A x \in S : with[x][h[next[x]]] \in T
    BY <2>1
  <2> QED BY <2>1, <2>2
<1>2. F \in [[S -> T] -> [S -> T]]
  <2> HIDE DEF G
  <2> QED BY <1>1
<1>3. out \in [S -> T]
  BY DEF IsRecursion
<1>4. PICK g \in [Nat -> [S -> T]] : \A n \in Nat : g[n + 1] = F[g[n]]
  <2> DEFINE P == [S -> T]
  <2>1. out \in P /\ F \in [P -> P]
    BY <1>2, <1>3
  <2> HIDE DEF F, P
  <2>2. \E g \in [Nat -> P] : g[0] = out /\ \A n \in Nat : g[n + 1] = F[g[n]]
    BY <2>1, Iterated
  <2> QED BY <2>2 DEF P
<1>5. ASSUME NEW n \in Nat, NEW x \in S
      PROVE  g[n + 1][x] = IF stop[x] THEN out[x] ELSE with[x][g[n][next[x]]]
  <2>1. g[n] \in [S -> T] OBVIOUS
  <2>2. F[g[n]] = G(g[n])
    <3> HIDE DEF G
    <3> QED BY <2>1
  <2>3. g[n + 1] = G(g[n]) BY <1>4, <2>2
  <2> QED BY <2>3
<1> HIDE DEF F
<1> DEFINE Same == {n \in Nat : \A x \in S : left[x] < n => g[n][x] = g[n + 1][x]}
<1>6. \A n \in Nat : n \in Same
  <2>1. 0 \in Same
    BY DEF IsRecursion
  <2>2. ASSUME NEW n \in Nat, n \in Same PROVE n + 1 \in Same
    <3>1. ASSUME NEW x \in S, left[x] < n + 1 PROVE g[n + 1][x] = g[(n + 1) + 1][x]
      <4>1. CASE stop[x]
        <5>1. g[n + 1][x] = out[x]
          BY <1>5, <4>1
        <5>2. g[(n + 1) + 1][x] = out[x]
          <6> DEFINE m == n + 1
          <6>1. m \in Nat OBVIOUS
          <6> HIDE DEF m
          <6>2. g[m + 1][x] = out[x]
            BY <1>5, <4>1, <6>1
          <6> QED BY <6>2 DEF m
        <5> QED BY <5>1, <5>2
      <4>2. CASE ~stop[x]
        <5>1. next[x] \in S /\ left[next[x]] \in Nat /\ left[x] \in Nat
          BY DEF IsRecursion
        <5>2. left[next[x]] < n
          BY <3>1, <4>2, <5>1 DEF IsRecursion
        <5>3. g[n][next[x]] = g[n + 1][next[x]]
          BY <2>2, <5>1, <5>2
        <5>4. /\ g[n + 1][x] = with[x][g[n][next[x]]]
              /\ g[(n + 1) + 1][x] = with[x][g[n + 1][next[x]]]
          BY <1>5, <4>2
        <5> QED BY <5>3, <5>4
      <4> QED BY <4>1, <4>2
    <3> QED BY <3>1
  <2> HIDE DEF Same
  <2> QED BY <2>1, <2>2, Induction
<1> DEFINE Late == {n \in Nat : \A x \in S : left[x] < n => g[n][x] = g[left[x] + 1][x]}
<1>7. \A n \in Nat : n \in Late
  <2>1. 0 \in Late
    BY DEF IsRecursion
  <2>2. ASSUME NEW n \in Nat, n \in Late PROVE n + 1 \in Late
    <3>1. ASSUME NEW x \in S, left[x] < n + 1 PROVE g[n + 1][x] = g[left[x] + 1][x]
      <4>1. left[x] \in Nat
        BY DEF IsRecursion
      <4>2. CASE left[x] = n
        BY <4>2
      <4>3. CASE left[x] < n
        <5>1. g[n][x] = g[n + 1][x]
          BY <1>6, <4>3
        <5>2. g[n][x] = g[left[x] + 1][x]
          BY <2>2, <4>3
        <5> QED BY <5>1, <5>2
      <4>4. left[x] = n \/ left[x] < n
        <5> HIDE DEF Same, Late
        <5> DEFINE l == left[x]
        <5>1. l \in Nat /\ l < n + 1
          BY <3>1, <4>1
        <5> HIDE DEF l
        <5>2. l = n \/ l < n
          BY <5>1
        <5> QED BY <5>2 DEF l
      <4> QED BY <4>2, <4>3, <4>4
    <3> QED BY <3>1
  <2> HIDE DEF Late
  <2> QED BY <2>1, <2>2, Induction
<1> DEFINE f == [x \in S |-> g[left[x] + 1][x]]
<1>8. f \in [S -> T]
  BY DEF IsRecursion
<1>9. ASSUME NEW x \in S PROVE f[x] = IF stop[x] THEN out[x] ELSE with[x][f[next[x]]]
  <2>1. left[x] \in Nat /\ next[x] \in S /\ left[next[x]] \in Nat
    BY DEF IsRecursion
  <2>2. f[x] = IF stop[x] THEN out[x] ELSE with[x][g[left[x]][next[x]]]
    BY <1>5, <2>1
  <2>3. ~stop[x] => g[left[x]][next[x]] = f[next[x]]
    BY <1>7, <2>1 DEF IsRecursion
  <2> QED BY <2>2, <2>3
<1> QED
  BY <1>8, <1>9

\* One that counts down from n to 0.
IsCountdown(T, n, base, step) == n \in Nat /\ base \in T /\ step \in [1..n -> [T -> T]]

CountsDown(T, n, base, step, f) ==
  f \in [0..n -> T] /\ f[0] = base /\ \A i \in 1..n : f[i] = step[i][f[i - 1]]

LEMMA Countdown ==
  ASSUME NEW T, NEW n, NEW base, NEW step, IsCountdown(T, n, base, step)
  PROVE  \E f : CountsDown(T, n, base, step, f)
<1> DEFINE S == 0..n
           stop == [i \in S |-> IF i = 0 THEN TRUE ELSE FALSE]
           next == [i \in S |-> IF i = 0 THEN 0 ELSE i - 1]
           out == [i \in S |-> base]
           with == [i \in S |-> IF i = 0 THEN [t \in T |-> t] ELSE step[i]]
           left == [i \in S |-> i]
<1>0. n \in Nat /\ base \in T /\ step \in [1..n -> [T -> T]]
  BY DEF IsCountdown
<1>1. IsRecursion(S, T, stop, next, out, with, left)
  <2>1. stop \in [S -> BOOLEAN] /\ next \in [S -> S] /\ out \in [S -> T] /\ left \in [S -> Nat]
    BY <1>0
  <2>2. with \in [S -> [T -> T]]
    BY <1>0
  <2>3. ASSUME NEW i \in S, ~stop[i] PROVE left[next[i]] < left[i]
    <3>1. i # 0 /\ next[i] = i - 1 /\ i - 1 \in S
      BY <1>0, <2>3
    <3> QED BY <1>0, <3>1
  <2> HIDE DEF S, stop, next, out, with, left
  <2> QED BY <2>1, <2>2, <2>3 DEF IsRecursion
<1>2. PICK f \in [S -> T] : \A i \in S : f[i] = IF stop[i] THEN out[i] ELSE with[i][f[next[i]]]
  <2> HIDE DEF S, stop, next, out, with, left
  <2> QED BY <1>1, Recursion
<1>3. f[0] = base
  <2>1. 0 \in S /\ stop[0] /\ out[0] = base
    BY <1>0
  <2> HIDE DEF S, stop, next, out, with, left
  <2> QED BY <1>2, <2>1
<1>4. ASSUME NEW i \in 1..n PROVE f[i] = step[i][f[i - 1]]
  <2>1. i \in S /\ ~stop[i] /\ next[i] = i - 1 /\ with[i] = step[i]
    BY <1>0
  <2> HIDE DEF S, stop, next, out, with, left
  <2> QED BY <1>2, <2>1
<1> QED
  BY <1>3, <1>4 DEF CountsDown

\* A set of natural numbers up to n has a greatest one.
LEMMA HasGreatest ==
  ASSUME NEW n \in Nat, NEW S \in SUBSET (0..n), S # {}
  PROVE  \E m \in S : \A k \in S : m >= k
<1> DEFINE G == {k \in Nat : \A T \in SUBSET (0..k) : T # {} => \E m \in T : \A l \in T : m >= l}
<1>1. 0 \in G
  <2>1. ASSUME NEW T \in SUBSET (0..0), T # {} PROVE \E m \in T : \A l \in T : m >= l
    <3>1. PICK m \in T : TRUE
      BY <2>1
    <3>2. m = 0 /\ \A l \in T : l = 0
      OBVIOUS
    <3> QED BY <3>2
  <2> QED BY <2>1
<1>2. ASSUME NEW k \in Nat, k \in G PROVE k + 1 \in G
  <2>1. ASSUME NEW T \in SUBSET (0..(k + 1)), T # {} PROVE \E m \in T : \A l \in T : m >= l
    <3>1. CASE k + 1 \in T
      BY <3>1
    <3>2. CASE k + 1 \notin T
      <4>1. T \in SUBSET (0..k)
        BY <3>2
      <4> QED BY <1>2, <2>1, <4>1
    <3> QED BY <3>1, <3>2
  <2> QED BY <2>1
<1>3. n \in G
  <2> HIDE DEF G
  <2> QED BY <1>1, <1>2, Induction
<1> QED
  BY <1>3

-----------------------------------------------------------------------------
(* F[x] pairs for each x in S. *)
Pairs(F, S) == {p \in S \X Nat : p[2] < F[p[1]]}

\* Taking x out takes its pairs out.
LEMMA PairsWithout ==
  ASSUME NEW S, NEW F, NEW x \in S, F[x] \in Nat,
         IsFiniteSet(Pairs(F, S \ {x}))
  PROVE  /\ IsFiniteSet(Pairs(F, S))
         /\ Cardinality(Pairs(F, S)) = F[x] + Cardinality(Pairs(F, S \ {x}))
<1> DEFINE Mine == {x} \X (0 .. (F[x] - 1))
           Rest == Pairs(F, S \ {x})
<1>1. Pairs(F, S) = Mine \cup Rest /\ Mine \cap Rest = {}
  BY DEF Pairs
<1>2. IsFiniteSet({x}) /\ Cardinality({x}) = 1
  BY FS_Singleton
<1>3. IsFiniteSet(0 .. (F[x] - 1)) /\ Cardinality(0 .. (F[x] - 1)) = F[x]
  <2> DEFINE n == F[x]
  <2>1. n \in Nat /\ 0 \in Int /\ n - 1 \in Int
    OBVIOUS
  <2> HIDE DEF n
  <2>2. /\ IsFiniteSet(0 .. (n - 1))
        /\ Cardinality(0 .. (n - 1)) = IF 0 > n - 1 THEN 0 ELSE (n - 1) - 0 + 1
    BY <2>1, FS_Interval
  <2>3. Cardinality(0 .. (n - 1)) = n
    BY <2>1, <2>2
  <2> QED BY <2>2, <2>3 DEF n
<1>4. IsFiniteSet(Mine) /\ Cardinality(Mine) = F[x]
  <2> DEFINE I == 0 .. (F[x] - 1)
  <2>1. IsFiniteSet(I) /\ Cardinality(I) = F[x] BY <1>3
  <2> HIDE DEF I
  <2>2. IsFiniteSet({x} \X I) /\ Cardinality({x} \X I) = Cardinality({x}) * Cardinality(I)
    BY <1>2, <2>1, FS_Product
  <2>3. Cardinality({x} \X I) = F[x]
    BY <1>2, <2>1, <2>2
  <2> QED BY <2>2, <2>3 DEF I
<1> HIDE DEF Mine
<1>5. /\ IsFiniteSet(Mine \cup Rest)
      /\ Cardinality(Mine \cup Rest) = Cardinality(Mine) + Cardinality(Rest)
                                       - Cardinality(Mine \cap Rest)
  BY <1>4, FS_Union
<1>6. Cardinality(Mine \cap Rest) = 0 /\ Cardinality(Rest) \in Nat
  BY <1>1, FS_EmptySet, FS_CardinalityType
<1> QED
  BY <1>1, <1>4, <1>5, <1>6

LEMMA PairsFinite ==
  ASSUME NEW S, IsFiniteSet(S), NEW F, \A x \in S : F[x] \in Nat
  PROVE  IsFiniteSet(Pairs(F, S))
<1> DEFINE G == {T \in SUBSET S : IsFiniteSet(Pairs(F, T))}
<1>1. ASSUME NEW T \in SUBSET S, \A x \in T : T \ {x} \in G PROVE T \in G
  <2>1. CASE T = {}
    <3>1. Pairs(F, T) = {} BY <2>1 DEF Pairs
    <3> QED BY <3>1, FS_EmptySet
  <2>2. CASE T # {}
    <3>1. PICK x \in T : T \ {x} \in G BY <1>1, <2>2
    <3> QED BY <3>1, PairsWithout
  <2> QED BY <2>1, <2>2
<1> HIDE DEF G
<1>2. S \in G
  BY <1>1, SetInduction
<1> QED
  BY <1>2 DEF G

-----------------------------------------------------------------------------
\* The function that MapThenFoldSet defines by recursion when it adds F up.
Sums(F, S) == CHOOSE g : g = [s \in SUBSET S |->
  IF s = {} THEN 0 ELSE LET x == CHOOSE x \in s : TRUE IN F[x] + g[s \ {x}]]

LEMMA SumUnfolds ==
  ASSUME NEW F, NEW S
  PROVE  SumFunctionOnSet(F, S) = Sums(F, S)[S]
BY DEF Sums, SumFunctionOnSet, FoldFunctionOnSet, MapThenFoldSet

\* There is such a function: it counts the pairs.
LEMMA SumsExist ==
  ASSUME NEW S, IsFiniteSet(S), NEW F, \A x \in S : F[x] \in Nat
  PROVE  \A s \in SUBSET S : Sums(F, S)[s] =
           IF s = {} THEN 0
           ELSE LET x == CHOOSE x \in s : TRUE IN F[x] + Sums(F, S)[s \ {x}]
<1> DEFINE h == [s \in SUBSET S |-> Cardinality(Pairs(F, s))]
<1>1. ASSUME NEW s \in SUBSET S
      PROVE h[s] = IF s = {} THEN 0
                   ELSE LET x == CHOOSE x \in s : TRUE IN F[x] + h[s \ {x}]
  <2>1. CASE s = {}
    <3>1. Pairs(F, s) = {} BY <2>1 DEF Pairs
    <3> QED BY <2>1, <3>1, FS_EmptySet
  <2>2. CASE s # {}
    <3> DEFINE x == CHOOSE x \in s : TRUE
    <3>1. x \in s BY <2>2
    <3> HIDE DEF x
    <3>2. IsFiniteSet(s \ {x}) /\ \A y \in s \ {x} : F[y] \in Nat
      BY FS_Subset
    <3>3. Cardinality(Pairs(F, s)) = F[x] + Cardinality(Pairs(F, s \ {x}))
      BY <3>1, <3>2, PairsFinite, PairsWithout
    <3>4. h[s] = F[x] + h[s \ {x}]
      BY <3>3
    <3> HIDE DEF h
    <3> QED BY <2>2, <3>4 DEF x
  <2> QED BY <2>1, <2>2
<1>2. h = [s \in SUBSET S |->
             IF s = {} THEN 0 ELSE LET x == CHOOSE x \in s : TRUE IN F[x] + h[s \ {x}]]
  <2> DEFINE k == [s \in SUBSET S |-> 
             IF s = {} THEN 0 ELSE LET x == CHOOSE x \in s : TRUE IN F[x] + h[s \ {x}]]
  <2>1. \A s \in SUBSET S : h[s] = k[s]
    <3> HIDE DEF h
    <3> QED BY <1>1
  <2>2. DOMAIN h = SUBSET S /\ DOMAIN k = SUBSET S /\ h = [s \in SUBSET S |-> h[s]] /\ k = [s \in SUBSET S |-> k[s]]
    OBVIOUS
  <2> HIDE DEF h, k
  <2>3. h = k
    BY <2>1, <2>2
  <2> QED BY <2>3 DEF k
<1> HIDE DEF h
<1>3. \E g : g = [s \in SUBSET S |->
             IF s = {} THEN 0 ELSE LET x == CHOOSE x \in s : TRUE IN F[x] + g[s \ {x}]]
  BY <1>2
<1> DEFINE g == Sums(F, S)
<1>4. g = [s \in SUBSET S |->
             IF s = {} THEN 0 ELSE LET x == CHOOSE x \in s : TRUE IN F[x] + g[s \ {x}]]
  BY <1>3 DEF Sums
<1> HIDE DEF g
<1>5. \A s \in SUBSET S : g[s] =
        IF s = {} THEN 0 ELSE LET x == CHOOSE x \in s : TRUE IN F[x] + g[s \ {x}]
  BY <1>4
<1> QED
  BY <1>5 DEF g

\* A sum is the number of pairs.
LEMMA SumIsCount ==
  ASSUME NEW S, IsFiniteSet(S), NEW F, \A x \in S : F[x] \in Nat
  PROVE  SumFunctionOnSet(F, S) = Cardinality(Pairs(F, S))
<1> DEFINE g == Sums(F, S)
           G == {T \in SUBSET S : g[T] = Cardinality(Pairs(F, T))}
<1>1. \A s \in SUBSET S : g[s] =
        IF s = {} THEN 0 ELSE LET x == CHOOSE x \in s : TRUE IN F[x] + g[s \ {x}]
  BY SumsExist
<1> HIDE DEF g
<1>2. ASSUME NEW T \in SUBSET S, \A x \in T : T \ {x} \in G PROVE T \in G
  <2>1. CASE T = {}
    <3>1. Pairs(F, T) = {} /\ g[T] = 0 BY <1>1, <2>1 DEF Pairs
    <3> QED BY <3>1, FS_EmptySet
  <2>2. CASE T # {}
    <3> DEFINE x == CHOOSE x \in T : TRUE
    <3>1. x \in T BY <2>2
    <3>2. g[T] = F[x] + g[T \ {x}]
      BY <1>1, <2>2
    <3> HIDE DEF x
    <3>3. g[T \ {x}] = Cardinality(Pairs(F, T \ {x}))
      BY <1>2, <3>1
    <3>4. IsFiniteSet(T \ {x}) /\ \A y \in T \ {x} : F[y] \in Nat
      BY FS_Subset
    <3>5. Cardinality(Pairs(F, T)) = F[x] + Cardinality(Pairs(F, T \ {x}))
      BY <3>1, <3>4, PairsFinite, PairsWithout
    <3> QED BY <3>2, <3>3, <3>5
  <2> QED BY <2>1, <2>2
<1> HIDE DEF G
<1>3. S \in G
  BY <1>2, SetInduction
<1> QED
  BY <1>3, SumUnfolds DEF G, g

-----------------------------------------------------------------------------
(* What the other modules use. *)

\* A sum of natural numbers is one, and x adds F[x] to it.
LEMMA SumWithout ==
  ASSUME NEW S, IsFiniteSet(S), NEW F, \A x \in S : F[x] \in Nat
  PROVE  /\ SumFunctionOnSet(F, S) \in Nat
         /\ \A x \in S : /\ SumFunctionOnSet(F, S \ {x}) \in Nat
                         /\ SumFunctionOnSet(F, S) = F[x] + SumFunctionOnSet(F, S \ {x})
<1>1. \A x \in S : IsFiniteSet(S \ {x}) /\ \A y \in S \ {x} : F[y] \in Nat
  BY FS_Subset
<1>2. SumFunctionOnSet(F, S) = Cardinality(Pairs(F, S))
  BY SumIsCount
<1>3. SumFunctionOnSet(F, S) \in Nat
  BY <1>2, PairsFinite, FS_CardinalityType
<1>4. ASSUME NEW x \in S
      PROVE  /\ SumFunctionOnSet(F, S \ {x}) \in Nat
             /\ SumFunctionOnSet(F, S) = F[x] + SumFunctionOnSet(F, S \ {x})
  <2>1. SumFunctionOnSet(F, S \ {x}) = Cardinality(Pairs(F, S \ {x}))
    BY <1>1, SumIsCount
  <2>2. IsFiniteSet(Pairs(F, S \ {x}))
    BY <1>1, PairsFinite
  <2> QED
    BY <1>2, <2>1, <2>2, PairsWithout, FS_CardinalityType
<1> QED
  BY <1>3, <1>4

LEMMA SumOfNothing ==
  ASSUME NEW F
  PROVE  SumFunctionOnSet(F, {}) = 0
<1>1. Pairs(F, {}) = {}
  BY DEF Pairs
<1> QED
  BY <1>1, SumIsCount, FS_EmptySet

LEMMA SumOfZeros ==
  ASSUME NEW S, IsFiniteSet(S)
  PROVE  SumFunction([x \in S |-> 0]) = 0
<1> DEFINE F == [x \in S |-> 0]
<1>1. DOMAIN F = S /\ \A x \in S : F[x] = 0
  OBVIOUS
<1> HIDE DEF F
<1>2. Pairs(F, S) = {}
  BY <1>1 DEF Pairs
<1>3. SumFunctionOnSet(F, S) = 0
  BY <1>1, <1>2, SumIsCount, FS_EmptySet
<1> QED
  BY <1>1, <1>3 DEF SumFunction, F

\* Functions that agree on S have the same sum over S.
LEMMA SumOfEqual ==
  ASSUME NEW S, IsFiniteSet(S), NEW F, NEW G, \A x \in S : F[x] \in Nat /\ G[x] = F[x]
  PROVE  SumFunctionOnSet(G, S) = SumFunctionOnSet(F, S)
<1>1. Pairs(F, S) = Pairs(G, S)
  BY DEF Pairs
<1> QED
  BY <1>1, SumIsCount

\* Larger terms, larger sum.
LEMMA SumMonotone ==
  ASSUME NEW S, IsFiniteSet(S), NEW F, NEW G,
         \A x \in S : F[x] \in Nat /\ G[x] \in Nat /\ F[x] =< G[x]
  PROVE  SumFunctionOnSet(F, S) =< SumFunctionOnSet(G, S)
<1>1. Pairs(F, S) \subseteq Pairs(G, S)
  BY DEF Pairs
<1>2. Cardinality(Pairs(F, S)) =< Cardinality(Pairs(G, S))
  BY <1>1, PairsFinite, FS_Subset
<1> QED
  BY <1>2, SumIsCount

LEMMA SumAtLeast ==
  ASSUME NEW S, IsFiniteSet(S), NEW F \in [S -> Nat], NEW G \in [S -> Nat],
         \A x \in S : F[x] =< G[x]
  PROVE  /\ SumFunction(F) \in Nat /\ SumFunction(G) \in Nat
         /\ SumFunction(F) =< SumFunction(G)
<1>1. DOMAIN F = S /\ DOMAIN G = S /\ \A x \in S : F[x] \in Nat /\ G[x] \in Nat
  OBVIOUS
<1>2. SumFunctionOnSet(F, S) \in Nat /\ SumFunctionOnSet(G, S) \in Nat
  BY <1>1, SumWithout
<1>3. SumFunctionOnSet(F, S) =< SumFunctionOnSet(G, S)
  BY <1>1, SumMonotone
<1> QED
  BY <1>1, <1>2, <1>3 DEF SumFunction

\* A change of one term changes the sum by as much.
LEMMA SumUpdate ==
  ASSUME NEW S, IsFiniteSet(S), NEW F \in [S -> Nat], NEW G \in [S -> Nat],
         NEW x \in S, \A y \in S \ {x} : G[y] = F[y]
  PROVE  /\ SumFunction(F) \in Nat /\ SumFunction(G) \in Nat
         /\ SumFunction(G) = SumFunction(F) - F[x] + G[x]
         /\ F[x] =< SumFunction(F)
<1>1. DOMAIN F = S /\ DOMAIN G = S
  OBVIOUS
<1>2. /\ SumFunctionOnSet(F, S) \in Nat /\ SumFunctionOnSet(G, S) \in Nat
      /\ SumFunctionOnSet(F, S \ {x}) \in Nat
      /\ SumFunctionOnSet(F, S) = F[x] + SumFunctionOnSet(F, S \ {x})
      /\ SumFunctionOnSet(G, S) = G[x] + SumFunctionOnSet(G, S \ {x})
  BY SumWithout
<1>3. SumFunctionOnSet(G, S \ {x}) = SumFunctionOnSet(F, S \ {x})
  <2>1. IsFiniteSet(S \ {x}) /\ \A y \in S \ {x} : F[y] \in Nat /\ G[y] = F[y]
    BY FS_Subset
  <2> QED BY <2>1, SumOfEqual
<1> QED
  BY <1>1, <1>2, <1>3 DEF SumFunction

\* Sums add up term by term.
LEMMA SumOfSums ==
  ASSUME NEW S, IsFiniteSet(S), NEW F, NEW G, NEW H,
         \A x \in S : F[x] \in Nat /\ G[x] \in Nat /\ H[x] = F[x] + G[x]
  PROVE  SumFunctionOnSet(H, S) = SumFunctionOnSet(F, S) + SumFunctionOnSet(G, S)
<1> DEFINE Good == {T \in SUBSET S : SumFunctionOnSet(H, T) =
                      SumFunctionOnSet(F, T) + SumFunctionOnSet(G, T)}
<1>1. ASSUME NEW T \in SUBSET S, \A x \in T : T \ {x} \in Good PROVE T \in Good
  <2>1. CASE T = {}
    BY <2>1, SumOfNothing
  <2>2. CASE T # {}
    <3>1. PICK x \in T : T \ {x} \in Good BY <1>1, <2>2
    <3>2. IsFiniteSet(T) /\ \A y \in T : F[y] \in Nat /\ G[y] \in Nat /\ H[y] \in Nat
      BY FS_Subset
    <3>3. /\ SumFunctionOnSet(F, T \ {x}) \in Nat
          /\ SumFunctionOnSet(F, T) = F[x] + SumFunctionOnSet(F, T \ {x})
      BY <3>1, <3>2, SumWithout
    <3>4. /\ SumFunctionOnSet(G, T \ {x}) \in Nat
          /\ SumFunctionOnSet(G, T) = G[x] + SumFunctionOnSet(G, T \ {x})
      BY <3>1, <3>2, SumWithout
    <3>5. /\ SumFunctionOnSet(H, T) = H[x] + SumFunctionOnSet(H, T \ {x})
      BY <3>1, <3>2, SumWithout
    <3>6. H[x] = F[x] + G[x] /\ F[x] \in Nat /\ G[x] \in Nat
      BY <3>1
    <3> QED BY <3>1, <3>3, <3>4, <3>5, <3>6
  <2> QED BY <2>1, <2>2
<1> HIDE DEF Good
<1>2. S \in Good
  BY <1>1, SetInduction
<1> QED
  BY <1>2 DEF Good

\* What is taken out of a sum and what is left make it up.
LEMMA SumTakenOut ==
  ASSUME NEW S, IsFiniteSet(S), NEW T \in SUBSET S, NEW F, NEW G,
         \A x \in S : F[x] \in Nat /\ G[x] = IF x \in T THEN 0 ELSE F[x]
  PROVE  /\ SumFunctionOnSet(F, T) \in Nat /\ SumFunctionOnSet(G, S) \in Nat
         /\ SumFunctionOnSet(F, S) = SumFunctionOnSet(G, S) + SumFunctionOnSet(F, T)
<1> DEFINE H == [x \in S |-> IF x \in T THEN F[x] ELSE 0]
<1>1. \A x \in S : G[x] \in Nat /\ H[x] \in Nat /\ F[x] = G[x] + H[x]
  OBVIOUS
<1>2. IsFiniteSet(T) /\ \A x \in T : F[x] \in Nat
  BY FS_Subset
<1>3. \A x \in S : H[x] = IF x \in T THEN F[x] ELSE 0
  OBVIOUS
<1> HIDE DEF H
<1>4. Pairs(H, S) = Pairs(F, T)
  BY <1>3 DEF Pairs
<1>5. SumFunctionOnSet(H, S) = SumFunctionOnSet(F, T)
  BY <1>1, <1>2, <1>4, SumIsCount
<1>6. SumFunctionOnSet(F, S) = SumFunctionOnSet(G, S) + SumFunctionOnSet(H, S)
  BY <1>1, SumOfSums
<1>7. SumFunctionOnSet(F, T) \in Nat /\ SumFunctionOnSet(G, S) \in Nat
  BY <1>1, <1>2, SumWithout
<1> QED
  BY <1>5, <1>6, <1>7

\* Adding up by groups adds everything up.
LEMMA SumByGroups ==
  ASSUME NEW S, IsFiniteSet(S), NEW A, IsFiniteSet(A), NEW F, \A x \in S : F[x] \in Nat,
         NEW g, \A x \in S : g[x] \in A
  PROVE  SumFunction([a \in A |-> SumFunctionOnSet(F, {x \in S : g[x] = a})])
           = SumFunctionOnSet(F, S)
<1> DEFINE Part(T) == [a \in A |-> SumFunctionOnSet(F, {x \in T : g[x] = a})]
           Good == {T \in SUBSET S : SumFunction(Part(T)) = SumFunctionOnSet(F, T)}
<1>1. ASSUME NEW T \in SUBSET S, \A x \in T : T \ {x} \in Good PROVE T \in Good
  <2>1. CASE T = {}
    <3>1. \A a \in A : {x \in T : g[x] = a} = {} BY <2>1
    <3>2. Part(T) = [a \in A |-> 0] BY <3>1, SumOfNothing
    <3> HIDE DEF Part
    <3> QED BY <2>1, <3>2, SumOfNothing, SumOfZeros
  <2>2. CASE T # {}
    <3>1. PICK x \in T : T \ {x} \in Good BY <1>1, <2>2
    <3> DEFINE R == T \ {x}
               P == Part(R)
               Q == Part(T)
    <3>2. \A B \in SUBSET T : IsFiniteSet(B) /\ \A y \in B : F[y] \in Nat
      BY FS_Subset
    <3>3. P \in [A -> Nat] /\ Q \in [A -> Nat]
      <4>1. \A a \in A : /\ SumFunctionOnSet(F, {y \in R : g[y] = a}) \in Nat
                         /\ SumFunctionOnSet(F, {y \in T : g[y] = a}) \in Nat
        <5> SUFFICES ASSUME NEW a \in A
                     PROVE  /\ SumFunctionOnSet(F, {y \in R : g[y] = a}) \in Nat
                            /\ SumFunctionOnSet(F, {y \in T : g[y] = a}) \in Nat
          OBVIOUS
        <5> DEFINE B == {y \in R : g[y] = a}
                   C == {y \in T : g[y] = a}
        <5>1. B \in SUBSET T /\ C \in SUBSET T OBVIOUS
        <5> HIDE DEF B, C
        <5>2. SumFunctionOnSet(F, B) \in Nat /\ SumFunctionOnSet(F, C) \in Nat
          BY <3>2, <5>1, SumWithout
        <5> QED BY <5>2 DEF B, C
      <4> QED BY <4>1
    <3>4. g[x] \in A /\ \A a \in A \ {g[x]} : Q[a] = P[a]
      <4>1. \A a \in A \ {g[x]} : {y \in R : g[y] = a} = {y \in T : g[y] = a} OBVIOUS
      <4> QED BY <4>1
    <3>5. Q[g[x]] = F[x] + P[g[x]] /\ F[x] \in Nat
      <4> DEFINE C == {y \in T : g[y] = g[x]}
      <4>1. C \in SUBSET T /\ x \in C /\ C \ {x} = {y \in R : g[y] = g[x]} OBVIOUS
      <4>2. Q[g[x]] = SumFunctionOnSet(F, C) /\ P[g[x]] = SumFunctionOnSet(F, C \ {x})
        BY <3>4, <4>1
      <4> HIDE DEF C, P, Q
      <4>3. SumFunctionOnSet(F, C) = F[x] + SumFunctionOnSet(F, C \ {x})
        BY <3>2, <4>1, SumWithout
      <4> QED BY <3>2, <4>2, <4>3
    <3> HIDE DEF P, Q, Part
    <3>6. P[g[x]] \in Nat /\ SumFunction(P) \in Nat
          /\ SumFunction(Q) = SumFunction(P) - P[g[x]] + Q[g[x]]
      BY <3>3, <3>4, SumUpdate
    <3>7. SumFunction(Q) = SumFunction(P) + F[x]
      BY <3>5, <3>6
    <3>8. /\ SumFunctionOnSet(F, R) \in Nat
          /\ SumFunctionOnSet(F, T) = F[x] + SumFunctionOnSet(F, R)
      BY <3>2, SumWithout
    <3>9. SumFunction(P) = SumFunctionOnSet(F, R)
      BY <3>1 DEF P
    <3> QED BY <3>5, <3>7, <3>8, <3>9 DEF Q
  <2> QED BY <2>1, <2>2
<1>2. S \in Good
  <2> HIDE DEF Good
  <2> QED BY <1>1, SetInduction
<1> QED
  BY <1>2
=============================================================================
